---------------------------- MODULE SgDmaOwnership ----------------------------
(***************************************************************************)
(* Proofs about whose transfer the SG engines work on: Ownership, and what *)
(* follows from it, for lists of any length and any bound on the calls.    *)
(***************************************************************************)
EXTENDS SgDmaProofs

(***************************************************************************)
(* The rest of a list.  Pages is at least 1, so a list is not empty.       *)
(***************************************************************************)
Page(o, p) == [of |-> o, page |-> p]

\* The entries of the list of call o after the first n.
Rest(o, n) == SubSeq(ListOf(o), n + 1, Pages)

LEMMA ListOfIsSeq ==
  ASSUME NEW o \in Call
  PROVE  /\ ListOf(o) \in Seq(Entry) /\ Len(ListOf(o)) = Pages
         /\ \A p \in 1..Pages : ListOf(o)[p] = Page(o, p)
<1>1. Pages \in Nat
  BY PagesAssumption
<1>2. \A p \in 1..Pages : Page(o, p) \in Entry
  BY <1>1 DEF Page, Entry
<1>3. [p \in 1..Pages |-> Page(o, p)] \in Seq(Entry)
  BY <1>1, <1>2, IsASeq
<1>4. ListOf(o) = [p \in 1..Pages |-> Page(o, p)]
  BY Zenon DEF ListOf, Page
<1> QED
  BY <1>1, <1>3, <1>4

LEMMA RestOfList ==
  ASSUME NEW o \in Call, NEW n \in 0..Pages
  PROVE  /\ Rest(o, n) \in Seq(Entry) /\ Len(Rest(o, n)) = Pages - n
         /\ \A i \in 1..(Pages - n) : Rest(o, n)[i] = Page(o, n + i)
<1>1. Pages \in Nat
  BY PagesAssumption
<1>2. \A p \in n + 1..Pages : ListOf(o)[p] \in Entry /\ ListOf(o)[p] = Page(o, p)
  BY <1>1, ListOfIsSeq, ElementOfSeq
<1>3. /\ Rest(o, n) \in Seq(Entry)
      /\ Len(Rest(o, n)) = IF n + 1 <= Pages THEN Pages - (n + 1) + 1 ELSE 0
      /\ \A i \in 1..Pages - (n + 1) + 1 : Rest(o, n)[i] = ListOf(o)[n + 1 + i - 1]
  <2>1. n + 1 \in Int /\ Pages \in Int
    BY <1>1
  <2> QED
    BY <1>2, <2>1, SubSeqProperties DEF Rest
<1> QED
  BY <1>1, <1>2, <1>3

LEMMA RestHead ==
  ASSUME NEW o \in Call, NEW n \in 0..(Pages - 1)
  PROVE  /\ Rest(o, n) # <<>>
         /\ Head(Rest(o, n)) = Page(o, n + 1)
         /\ Tail(Rest(o, n)) = Rest(o, n + 1)
         /\ Len(Rest(o, n)) = 1 <=> n + 1 = Pages
<1>1. Pages \in Nat
  BY PagesAssumption
<1> DEFINE r == Rest(o, n)
           t == Rest(o, n + 1)
<1>2. /\ r \in Seq(Entry) /\ Len(r) = Pages - n
      /\ \A i \in 1..(Pages - n) : r[i] = Page(o, n + i)
  BY <1>1, RestOfList
<1>3. n + 1 \in 0..Pages
  BY <1>1
<1>4. /\ t \in Seq(Entry) /\ Len(t) = Pages - (n + 1)
      /\ \A i \in 1..(Pages - (n + 1)) : t[i] = Page(o, n + 1 + i)
  BY <1>3, RestOfList
<1> HIDE DEF r, t
<1>5. r # <<>>
  BY <1>1, <1>2
<1>6. Tail(r) \in Seq(Entry) /\ Len(Tail(r)) = Len(r) - 1
      /\ \A i \in 1..Len(Tail(r)) : Tail(r)[i] = r[i + 1]
  BY <1>2, <1>5, HeadTailProperties
<1>7. Len(Tail(r)) = Len(t) /\ \A i \in 1..Len(t) : Tail(r)[i] = t[i]
  <2>1. Len(Tail(r)) = Len(t)
    BY <1>1, <1>2, <1>4, <1>6
  <2>2. ASSUME NEW i \in 1..Len(t) PROVE Tail(r)[i] = t[i]
    <3>1. i \in 1..Len(Tail(r)) /\ i + 1 \in 1..(Pages - n) /\ n + (i + 1) = n + 1 + i
      BY <1>1, <1>4, <2>1
    <3> QED
      BY <1>2, <1>4, <1>6, <3>1
  <2> QED
    BY <2>1, <2>2
<1>8. Tail(r) = t
  BY <1>4, <1>6, <1>7, SeqEqual
<1>9. Head(r) = Page(o, n + 1)
  BY <1>1, <1>2, <1>5
<1>10. Len(r) = 1 <=> n + 1 = Pages
  BY <1>1, <1>2
<1> QED
  BY <1>5, <1>8, <1>9, <1>10 DEF r, t

LEMMA RestEnds ==
  ASSUME NEW o \in Call
  PROVE  Rest(o, 0) = ListOf(o) /\ Rest(o, Pages) = <<>>
<1>1. Pages \in Nat /\ Pages # 0
  BY PagesAssumption
<1>2. Rest(o, 0) = ListOf(o)
  BY <1>1, ListOfIsSeq, SubSeqFull DEF Rest
<1>3. Rest(o, Pages) = <<>>
  BY <1>1, SubSeqEmpty DEF Rest
<1> QED
  BY <1>2, <1>3

-----------------------------------------------------------------------------
(***************************************************************************)
(* The inductive invariant.  Ownership alone is not inductive: it needs to *)
(* know that the buffer and the register hold the list of the call that    *)
(* wrote them, that a START=1 not yet sent has not been served, and that   *)
(* until two engines have crossed every read on the wire is the one its    *)
(* engine waits for.                                                       *)
(***************************************************************************)
PlaceOK ==
  \A c \in Chan :
    /\ pc[c] \notin {"idle", "pin"} => sgl[c] = Op(c)
    /\ pc[c] \notin {"idle", "pin", "list"} => listReg[c] = Op(c)

ServedOK ==
  \A c \in Chan, n \in Nat :
    <<c, n>> \in served =>
      \/ n < serial[c]
      \/ n = serial[c] /\ pc[c] \notin {"pin", "list", "start_list"}

WireOK ==
  ~crossed =>
    \A i, j \in DOMAIN wire :
      /\ asked[wire[i].to] = wire[i]
      /\ wire[i].to = wire[j].to => i = j

\* OwnedBy, one implication for each group of places.
Before  == {"idle", "pin", "list", "start_list"}
Waiting == {"length", "wait", "asleep", "giveup", "check", "read"}
Acking  == {"ack_list", "clear_list"}
Ending  == {"clear", "ack", "free"}

AllMoved(c) == PagesOf(Op(c)) \subseteq moved

OwnFacts(c) ==
  /\ pc[c] \in Before => AtRest(c) /\ status[c] = 0
  /\ pc[c] \in Waiting =>
       \/ Fetching(c) /\ status[c] = 0
       \/ Moving(c) /\ status[c] = 0
       \/ Listed(c) /\ status[c] = 1
       \/ AtRest(c) /\ status[c] = 2 /\ AllMoved(c)
       \/ c = "h2c" /\ AtRest(c) /\ status[c] = 0 /\ Op(c) \notin served
  /\ pc[c] \in Acking => Listed(c) /\ status[c] = 1
  /\ pc[c] = "start_move" => Listed(c) /\ status[c] = 0
  /\ pc[c] \in Ending =>
       /\ AtRest(c) /\ AllMoved(c)
       /\ status[c] = IF pc[c] = "clear" \/ c = "h2c" THEN 2 ELSE 0

LEMMA OwnedIsFacts == \A c \in Chan : pc[c] \in PC => (OwnedBy(c) <=> OwnFacts(c))
<1> SUFFICES ASSUME NEW c \in Chan, pc[c] \in PC PROVE OwnedBy(c) <=> OwnFacts(c)
  OBVIOUS
<1> USE DEF Before, Waiting, Acking, Ending
<1>1. pc[c] \in Before \/ pc[c] \in Waiting \/ pc[c] \in Acking
      \/ pc[c] = "start_move" \/ pc[c] \in Ending
  BY DEF PC
<1>2. CASE pc[c] \in Before
  BY <1>2 DEF OwnedBy, OwnFacts
<1>3. CASE pc[c] \in Waiting
  BY <1>3 DEF OwnedBy, OwnFacts, AllMoved
<1>4. CASE pc[c] \in Acking
  BY <1>4 DEF OwnedBy, OwnFacts
<1>5. CASE pc[c] = "start_move"
  BY <1>5 DEF OwnedBy, OwnFacts
<1>6. CASE pc[c] \in Ending
  BY <1>6 DEF OwnedBy, OwnFacts, AllMoved
<1> QED
  BY <1>1, <1>2, <1>3, <1>4, <1>5, <1>6

\* Moving, by the number n of words counted.
MovingAt(c, n) ==
  /\ fsm[c] \in {"move", "drain"} /\ counter[c] = n
  /\ asked[c] = None => entries[c] = Rest(Op(c), n)
  /\ asked[c] # None => /\ entries[c] = Rest(Op(c), n + 1)
                        /\ asked[c] = [to |-> c, what |-> Page(Op(c), n + 1)]
  /\ \A p \in 1..n : Page(Op(c), p) \in moved

LEMMA MovingIs ==
  \A c \in Chan :
    Op(c) \in Call => (Moving(c) <=> \E n \in 0..(Pages - 1) : MovingAt(c, n))
<1> SUFFICES ASSUME NEW c \in Chan, Op(c) \in Call
             PROVE  Moving(c) <=> \E n \in 0..(Pages - 1) : MovingAt(c, n)
  OBVIOUS
<1>1. \A n \in 0..(Pages - 1) : ListOf(Op(c))[n + 1] = Page(Op(c), n + 1)
  BY PagesAssumption, ListOfIsSeq
<1>2. ASSUME Moving(c) PROVE MovingAt(c, counter[c]) /\ counter[c] \in 0..(Pages - 1)
  <2> DEFINE n == counter[c]
  <2>1. n \in 0..(Pages - 1) /\ fsm[c] \in {"move", "drain"}
    BY <1>2 DEF Moving
  <2>2. asked[c] = None => entries[c] = Rest(Op(c), n)
    BY <1>2 DEF Moving, Rest
  <2>3. asked[c] # None => entries[c] = Rest(Op(c), n + 1)
    BY <1>2 DEF Moving, Rest
  <2>4. asked[c] # None => asked[c] = [to |-> c, what |-> Page(Op(c), n + 1)]
    BY <1>1, <1>2, <2>1 DEF Moving
  <2>5. \A p \in 1..n : Page(Op(c), p) \in moved
    BY <1>2 DEF Moving, Page
  <2> QED
    BY <2>1, <2>2, <2>3, <2>4, <2>5 DEF MovingAt
<1>3. ASSUME NEW n \in 0..(Pages - 1), MovingAt(c, n) PROVE Moving(c)
  <2>1. /\ fsm[c] \in {"move", "drain"} /\ counter[c] = n
        /\ \A p \in 1..n : Page(Op(c), p) \in moved
    BY <1>3 DEF MovingAt
  <2>2. entries[c] = Rest(Op(c), IF asked[c] = None THEN n ELSE n + 1)
    BY <1>3 DEF MovingAt
  <2>3. asked[c] # None => asked[c] = [to |-> c, what |-> ListOf(Op(c))[n + 1]]
    BY <1>1, <1>3 DEF MovingAt
  <2> QED
    BY <2>1, <2>2, <2>3 DEF Moving, Rest, Page
<1> QED
  BY <1>2, <1>3

LEMMA MovingIsNext ==
  (\A c \in Chan :
    Op(c) \in Call => (Moving(c) <=> \E n \in 0..(Pages - 1) : MovingAt(c, n)))'
BY MovingIs, PTL

\* The device of direction c is left alone, and so is what has been moved.
LEMMA DeviceFrame ==
  ASSUME NEW c \in Chan, Op(c)' = Op(c), moved \subseteq moved',
         fsm'[c] = fsm[c], entries'[c] = entries[c], asked'[c] = asked[c],
         counter'[c] = counter[c]
  PROVE  /\ AtRest(c) => AtRest(c)'
         /\ Fetching(c) => Fetching(c)'
         /\ Listed(c) => Listed(c)'
         /\ Moving(c) => Moving(c)'
         /\ AllMoved(c) => AllMoved(c)'
<1>1. AtRest(c) => AtRest(c)'
  BY DEF AtRest
<1>2. Fetching(c) => Fetching(c)'
  BY DEF Fetching
<1>3. Listed(c) => Listed(c)'
  BY DEF Listed, ListOf
<1>4. Moving(c) => Moving(c)'
  BY DEF Moving, ListOf
<1>5. AllMoved(c) => AllMoved(c)'
  BY DEF AllMoved, PagesOf
<1> QED
  BY <1>1, <1>2, <1>3, <1>4, <1>5

\* A step that leaves direction c alone altogether.
LEMMA OwnFrame ==
  ASSUME NEW c \in Chan, OwnFacts(c), moved \subseteq moved',
         fsm'[c] = fsm[c], entries'[c] = entries[c], asked'[c] = asked[c],
         counter'[c] = counter[c], status'[c] = status[c],
         pc'[c] = pc[c], serial'[c] = serial[c],
         Op(c) \in served' => Op(c) \in served
  PROVE  OwnFacts(c)'
<1>1. Op(c)' = Op(c)
  BY DEF Op
<1>2. /\ AtRest(c) => AtRest(c)'
      /\ Fetching(c) => Fetching(c)'
      /\ Listed(c) => Listed(c)'
      /\ Moving(c) => Moving(c)'
      /\ AllMoved(c) => AllMoved(c)'
  BY <1>1, DeviceFrame
<1> QED
  BY <1>1, <1>2 DEF OwnFacts

\* A call never becomes clean again.
LEMMA CleanStep ==
  ASSUME TypeOK, [Next]_vars, NEW d \in Chan, Clean(d)'
  PROVE  Clean(d)
<1> USE DEF driverVars, isrVars, regVars, engineVars, irqVars, history
<1>1. ASSUME UNCHANGED <<calm, crossed, miscounted>> PROVE Clean(d)
  BY <1>1 DEF Clean
<1>2. ASSUME NEW c \in Chan, GiveUp(c) PROVE Clean(d)
  BY <1>2 DEF GiveUp, Clean, TypeOK
<1>3. ASSUME NEW i \in DOMAIN wire, Receive(i) PROVE Clean(d)
  <2>1. calm' = calm /\ (crossed => crossed') /\ (miscounted => miscounted')
    BY <1>3, Zenon DEF Receive
  <2> QED
    BY <2>1, Zenon DEF Clean
<1>4. ASSUME NEW c \in Chan,
             Enter(c) \/ Pin(c) \/ WriteList(c) \/ StartList(c) \/ WriteLength(c)
      PROVE  Clean(d)
  BY <1>1, <1>4, Zenon DEF Enter, Pin, WriteList, StartList, WriteLength
<1>5. ASSUME NEW c \in Chan,
             WaitTest(c) \/ WaitEnds(c) \/ Check(c) \/ ReadStatus(c)
      PROVE  Clean(d)
  BY <1>1, <1>5, Zenon DEF WaitTest, WaitEnds, Check, ReadStatus, Move
<1>6. ASSUME NEW c \in Chan,
             AckList(c) \/ ClearList(c) \/ StartMove(c) \/ AckDone(c) \/ Free(c)
               \/ ClearDone(c)
      PROVE  Clean(d)
  BY <1>1, <1>6, Zenon DEF AckList, AckDone, SetFlag0, ClearList, StartMove, Free,
                           ClearDone
<1>7. ASSUME NEW c \in Chan, IsrRead(c) \/ IsrStore(c) \/ IsrWake(c) PROVE Clean(d)
  BY <1>1, <1>7, Zenon DEF IsrRead, IsrStore, IsrWake
<1>8. ASSUME WritePage \/ AskPage \/ Drain \/ IsrEnter \/ UNCHANGED vars PROVE Clean(d)
  BY <1>1, <1>8, Zenon DEF WritePage, AskPage, Drain, IsrEnter, vars
<1> QED
  BY NextCases, <1>2, <1>3, <1>4, <1>5, <1>6, <1>7, <1>8

(***************************************************************************)
(* The steps of the caller of c, seen from c itself.                       *)
(***************************************************************************)
LEMMA CallerOwn ==
  ASSUME TypeOK, NEW c \in Chan, OwnFacts(c), PlaceOK, ServedOK, Clean(c)',
         \/ Enter(c) \/ Pin(c) \/ WriteList(c) \/ StartList(c) \/ WriteLength(c)
         \/ WaitTest(c) \/ WaitEnds(c) \/ GiveUp(c) \/ Check(c) \/ ReadStatus(c)
         \/ AckList(c) \/ ClearList(c) \/ StartMove(c) \/ AckDone(c) \/ Free(c)
         \/ ClearDone(c)
  PROVE  OwnFacts(c)'
<1> USE DEF driverVars, isrVars, regVars, engineVars, irqVars, history, Goto, Return,
            Before, Waiting, Acking, Ending
<1>1. ASSUME Op(c)' = Op(c), UNCHANGED <<fsm, entries, asked, counter, moved>>
      PROVE  /\ AtRest(c) => AtRest(c)'
             /\ Fetching(c) => Fetching(c)'
             /\ Listed(c) => Listed(c)'
             /\ Moving(c) => Moving(c)'
             /\ AllMoved(c) => AllMoved(c)'
  BY <1>1, DeviceFrame
<1>2. CASE Enter(c)
  <2>1. AtRest(c)' /\ status'[c] = 0
    BY <1>2 DEF Enter, OwnFacts, AtRest
  <2>2. pc'[c] \in {"pin", "idle"}
    BY <1>2 DEF Enter, TypeOK
  <2> QED
    BY <2>1, <2>2 DEF OwnFacts
<1>3. CASE Pin(c) \/ WriteList(c)
  <2>1. Op(c)' = Op(c) /\ UNCHANGED <<fsm, entries, asked, counter, moved, status>>
    BY <1>3 DEF Pin, WriteList, Op
  <2>2. pc[c] \in Before /\ pc'[c] \in Before
    BY <1>3 DEF Pin, WriteList, TypeOK
  <2> QED
    BY <1>1, <2>1, <2>2 DEF OwnFacts
<1>4. CASE StartList(c)
  <2>1. pc[c] = "start_list" /\ pc'[c] = "length" /\ status' = status /\ Op(c)' = Op(c)
    BY <1>4 DEF StartList, TypeOK, Op
  <2>2. AtRest(c) /\ status[c] = 0
    BY <2>1 DEF OwnFacts
  <2>3. UNCHANGED <<entries, counter, moved>>
    BY <1>4 DEF StartList
  <2>4. CASE fsm[c] = "idle"
    <3>1. /\ fsm' = [fsm EXCEPT ![c] = "fetch"]
          /\ asked' = [asked EXCEPT ![c] =
                         [to |-> c, what |-> [of |-> listReg[c], page |-> 0]]]
      BY <1>4, <2>4 DEF StartList, StartTaken
    <3>2. listReg[c] = Op(c)
      BY <2>1 DEF PlaceOK
    <3>3. Fetching(c)'
      BY <2>1, <2>2, <2>3, <3>1, <3>2 DEF Fetching, AtRest, TypeOK
    <3> QED
      BY <2>1, <2>2, <3>3 DEF OwnFacts
  <2>5. CASE fsm[c] # "idle"
    <3>1. UNCHANGED <<fsm, asked, served>> /\ c = "h2c"
      BY <1>4, <2>2, <2>5 DEF StartList, StartTaken, AtRest
    <3>2. Op(c) \notin served
      BY <2>1 DEF ServedOK, Op, TypeOK
    <3>3. AtRest(c)'
      BY <1>1, <2>1, <2>2, <2>3, <3>1
    <3> QED
      BY <2>1, <2>2, <3>1, <3>2, <3>3 DEF OwnFacts
  <2> QED
    BY <2>4, <2>5
<1>5. CASE WriteLength(c) \/ WaitTest(c) \/ WaitEnds(c) \/ Check(c)
  <2>1. /\ Op(c)' = Op(c)
        /\ UNCHANGED <<fsm, entries, asked, counter, moved, status, served>>
    BY <1>5 DEF WriteLength, WaitTest, WaitEnds, Check, Move, Op
  <2>2. pc[c] \in Waiting /\ pc'[c] \in Waiting
    BY <1>5 DEF WriteLength, WaitTest, WaitEnds, Check, Move, TypeOK
  <2> QED
    BY <1>1, <2>1, <2>2 DEF OwnFacts
<1>6. CASE GiveUp(c)
  BY <1>6 DEF GiveUp, Clean, TypeOK
<1>7. CASE ReadStatus(c)
  <2>1. /\ Op(c)' = Op(c)
        /\ UNCHANGED <<fsm, entries, asked, counter, moved, status, served>>
    BY <1>7 DEF ReadStatus, Move, Op
  <2>2. pc[c] = "read"
        /\ pc'[c] = IF status[c] = 1 THEN "ack_list"
                    ELSE IF status[c] = 2 THEN DoneFirst(c) ELSE "wait"
    BY <1>7 DEF ReadStatus, Move, TypeOK
  <2>3. CASE status[c] = 1
    BY <1>1, <2>1, <2>2, <2>3 DEF OwnFacts
  <2>4. CASE status[c] = 2
    BY <1>1, <2>1, <2>2, <2>4 DEF OwnFacts, DoneFirst, Chan
  <2>5. CASE status[c] = 0
    BY <1>1, <2>1, <2>2, <2>5 DEF OwnFacts
  <2> QED
    BY <2>3, <2>4, <2>5 DEF TypeOK
<1>8. CASE AckList(c)
  <2>1. /\ Op(c)' = Op(c) /\ pc[c] = "ack_list" /\ pc'[c] = "clear_list"
        /\ UNCHANGED <<fsm, entries, asked, counter, moved, status>>
    BY <1>8 DEF AckList, SetFlag0, Op, TypeOK
  <2> QED
    BY <1>1, <2>1 DEF OwnFacts
<1>9. CASE ClearList(c)
  <2>1. /\ Op(c)' = Op(c) /\ pc[c] = "clear_list" /\ pc'[c] = "start_move"
        /\ UNCHANGED <<fsm, entries, asked, counter, moved>> /\ status'[c] = 0
    BY <1>9 DEF ClearList, Op, TypeOK
  <2> QED
    BY <1>1, <2>1 DEF OwnFacts
<1>10. CASE StartMove(c)
  <2>1. /\ Op(c)' = Op(c) /\ pc[c] = "start_move" /\ pc'[c] = "wait"
        /\ UNCHANGED <<entries, asked, moved, status>>
    BY <1>10 DEF StartMove, Op, TypeOK
  <2>2. Listed(c) /\ status[c] = 0
    BY <2>1 DEF OwnFacts
  <2>3. fsm'[c] = "move" /\ counter'[c] = 0
    BY <1>10, <2>2 DEF StartMove, Listed, TypeOK
  <2>4. MovingAt(c, 0)'
    BY <2>1, <2>2, <2>3, RestEnds, OpIsCall DEF Listed, MovingAt
  <2>5. Moving(c)'
    <3>1. Op(c)' \in Call
      BY <2>1, OpIsCall
    <3>2. 0 \in 0..(Pages - 1)
      BY PagesAssumption
    <3> QED
      BY <2>4, <3>1, <3>2, MovingIsNext
  <2> QED
    BY <2>1, <2>2, <2>5 DEF OwnFacts
<1>11. CASE AckDone(c)
  <2>1. /\ Op(c)' = Op(c) /\ pc[c] = "ack" /\ pc'[c] = "free"
        /\ UNCHANGED <<fsm, entries, asked, counter, moved, status>>
    BY <1>11 DEF AckDone, SetFlag0, Op, TypeOK
  <2> QED
    BY <1>1, <2>1 DEF OwnFacts
<1>12. CASE Free(c)
  <2>1. /\ Op(c)' = Op(c) /\ pc[c] = "free"
        /\ pc'[c] = IF c = "c2h" THEN "idle" ELSE "clear"
        /\ UNCHANGED <<fsm, entries, asked, counter, moved, status>>
    BY <1>12 DEF Free, Op, TypeOK
  <2> QED
    BY <1>1, <2>1 DEF OwnFacts, Chan
<1>13. CASE ClearDone(c)
  <2>1. /\ Op(c)' = Op(c) /\ pc[c] = "clear"
        /\ pc'[c] = IF c = "c2h" THEN "ack" ELSE "idle"
        /\ UNCHANGED <<fsm, entries, asked, counter, moved>> /\ status'[c] = 0
    BY <1>13 DEF ClearDone, Op, TypeOK
  <2> QED
    BY <1>1, <2>1 DEF OwnFacts, Chan
<1> QED
  BY <1>2, <1>3, <1>4, <1>5, <1>6, <1>7, <1>8, <1>9, <1>10, <1>11, <1>12, <1>13

(***************************************************************************)
(* The steps of the device, seen from the direction they are about.        *)
(***************************************************************************)

\* An engine that moves pages works for the call in progress.
LEMMA MovingFacts ==
  ASSUME TypeOK, NEW c \in Chan, OwnFacts(c), fsm[c] = "move"
  PROVE  /\ pc[c] \in Waiting /\ status[c] = 0
         /\ \E n \in 0..(Pages - 1) : MovingAt(c, n)
<1>1. ~AtRest(c) /\ ~Fetching(c) /\ ~Listed(c)
  BY DEF AtRest, Fetching, Listed
<1>2. pc[c] \in PC
  BY DEF TypeOK
<1>3. pc[c] \in Waiting /\ status[c] = 0 /\ Moving(c)
  BY <1>1, <1>2 DEF OwnFacts, PC, Before, Waiting, Acking, Ending
<1> QED
  BY <1>3, MovingIs, OpIsCall

LEMMA CountedIs ==
  ASSUME NEW n \in 0..(Pages - 1)
  PROVE  /\ n + 1 = Pages => Counted(n) = None /\ LastWord(n)
         /\ n + 1 # Pages => /\ Counted(n) = n + 1 /\ ~LastWord(n)
                             /\ n + 1 \in 0..(Pages - 1)
         /\ Counted(None) = None /\ ~LastWord(None) /\ n # None
BY PagesAssumption, NoneAssumption DEF Counted, LastWord

\* One page more.
LEMMA AllMovedAtEnd ==
  ASSUME NEW c \in Chan, \A p \in 1..Pages : Page(Op(c), p) \in moved
  PROVE  AllMoved(c)
BY DEF AllMoved, PagesOf, Page

LEMMA AllMovedAtEndNext ==
  ASSUME NEW c \in Chan, (\A p \in 1..Pages : Page(Op(c), p) \in moved)'
  PROVE  AllMoved(c)'
BY DEF AllMoved, PagesOf, Page

LEMMA WritePageOwn ==
  ASSUME TypeOK, OwnFacts("c2h"), AskedWhileBusy, WritePage
  PROVE  OwnFacts("c2h")'
<1> DEFINE c == "c2h"
           o == Op(c)
<1> USE DEF driverVars, isrVars, regVars, history
<1>1. fsm[c] = "move" /\ asked[c] = None /\ c \in Chan
  BY DEF WritePage, AskedWhileBusy, Chan
<1>2. PICK n \in 0..(Pages - 1) : MovingAt(c, n)
  BY <1>1, MovingFacts
<1>3. pc[c] \in Waiting /\ status[c] = 0 /\ o \in Call
  BY <1>1, MovingFacts, OpIsCall
<1>4. counter[c] = n /\ entries[c] = Rest(o, n) /\ \A p \in 1..n : Page(o, p) \in moved
  BY <1>1, <1>2 DEF MovingAt
<1>5. /\ pc' = pc /\ o' = o /\ asked'[c] = None
      /\ moved' = moved \cup {Head(entries[c])}
      /\ entries'[c] = Tail(entries[c])
      /\ fsm'[c] = IF Len(entries[c]) = 1 THEN "idle" ELSE "move"
      /\ counter'[c] = Counted(counter[c])
      /\ status'[c] = IF LastWord(counter[c]) THEN 2 ELSE 0
  BY <1>1, <1>3 DEF WritePage, Report, Op, TypeOK
<1>6. \A p \in 1..n + 1 : Page(o, p) \in moved'
  BY <1>3, <1>4, <1>5, RestHead
<1>7. entries'[c] = Rest(o, n + 1)
      /\ fsm'[c] = IF n + 1 = Pages THEN "idle" ELSE "move"
  BY <1>3, <1>4, <1>5, RestHead
<1>8. CASE n + 1 = Pages
  <2>1. AtRest(c)'
    BY <1>3, <1>4, <1>5, <1>7, <1>8, CountedIs, RestEnds DEF AtRest
  <2>2. AllMoved(c)'
    BY <1>1, <1>5, <1>6, <1>8, AllMovedAtEndNext
  <2>3. status'[c] = 2
    BY <1>4, <1>5, <1>8, CountedIs
  <2> QED
    BY <1>3, <1>5, <2>1, <2>2, <2>3
       DEF OwnFacts, Before, Waiting, Acking, Ending
<1>9. CASE n + 1 # Pages
  <2>1. counter'[c] = n + 1 /\ status'[c] = 0 /\ n + 1 \in 0..(Pages - 1)
    BY <1>4, <1>5, <1>9, CountedIs
  <2>2. MovingAt(c, n + 1)'
    BY <1>5, <1>6, <1>7, <1>9, <2>1 DEF MovingAt
  <2>3. Moving(c)'
    BY <1>1, <1>3, <1>5, <2>1, <2>2, MovingIsNext
  <2> QED
    BY <1>3, <1>5, <2>1, <2>3
       DEF OwnFacts, Before, Waiting, Acking, Ending
<1> QED
  BY <1>8, <1>9

LEMMA AskPageOwn ==
  ASSUME TypeOK, OwnFacts("h2c"), AskPage
  PROVE  OwnFacts("h2c")'
<1> DEFINE c == "h2c"
           o == Op(c)
<1> USE DEF driverVars, isrVars, regVars, irqVars, history
<1>1. fsm[c] = "move" /\ asked[c] = None /\ c \in Chan
  BY DEF AskPage, Chan
<1>2. PICK n \in 0..(Pages - 1) : MovingAt(c, n)
  BY <1>1, MovingFacts
<1>3. pc[c] \in Waiting /\ status[c] = 0 /\ o \in Call
  BY <1>1, MovingFacts, OpIsCall
<1>4. counter[c] = n /\ entries[c] = Rest(o, n) /\ \A p \in 1..n : Page(o, p) \in moved
  BY <1>1, <1>2 DEF MovingAt
<1>5. /\ pc' = pc /\ o' = o /\ moved' = moved /\ fsm'[c] = "move"
      /\ counter'[c] = n /\ status'[c] = 0
      /\ asked'[c] = [to |-> "h2c", what |-> Head(entries[c])]
      /\ entries'[c] = Tail(entries[c])
  BY <1>1, <1>3, <1>4 DEF AskPage, Op, TypeOK
<1>6. asked'[c] = [to |-> c, what |-> Page(o, n + 1)] /\ entries'[c] = Rest(o, n + 1)
  BY <1>3, <1>4, <1>5, RestHead
<1>7. asked'[c] # None
  <2>1. Page(o, n + 1) \in Entry
    BY <1>3, PagesAssumption DEF Page, Entry
  <2>2. [to |-> c, what |-> Page(o, n + 1)] \in Read
    BY <1>1, <2>1 DEF Read
  <2> QED
    BY <1>6, <2>2, NoneAssumption
<1>8. MovingAt(c, n)'
  BY <1>4, <1>5, <1>6, <1>7 DEF MovingAt
<1>9. Moving(c)'
  BY <1>1, <1>3, <1>5, <1>8, MovingIsNext
<1> QED
  BY <1>3, <1>5, <1>9 DEF OwnFacts, Before, Waiting, Acking, Ending

LEMMA DrainOwn ==
  ASSUME TypeOK, OwnFacts("h2c"), AskedWhileBusy, Drain
  PROVE  OwnFacts("h2c")'
<1> DEFINE c == "h2c"
           o == Op(c)
<1> USE DEF driverVars, isrVars, regVars, irqVars, history
<1>1. fsm[c] = "drain" /\ asked[c] = None /\ c \in Chan
  BY DEF Drain, AskedWhileBusy, Chan
<1>2. /\ UNCHANGED <<pc, entries, asked, counter, status, moved, served>> /\ o' = o
      /\ fsm'[c] = IF entries[c] = <<>> THEN "idle" ELSE "move"
  BY DEF Drain, Op, TypeOK, Chan
<1>3. ~Fetching(c) /\ ~Listed(c)
  BY <1>1 DEF Fetching, Listed
<1>4. AtRest(c) => AtRest(c)'
  BY <1>2 DEF AtRest
<1>5. Moving(c) => Moving(c)'
  <2>1. SUFFICES ASSUME Moving(c) PROVE Moving(c)'
    OBVIOUS
  <2>2. PICK n \in 0..(Pages - 1) : MovingAt(c, n)
    BY <1>1, <2>1, MovingIs, OpIsCall
  <2>3. entries[c] # <<>>
    BY <1>1, <2>2, RestHead, OpIsCall DEF MovingAt
  <2>4. MovingAt(c, n)'
    BY <1>2, <2>2, <2>3 DEF MovingAt
  <2> QED
    BY <1>1, <1>2, <2>4, MovingIsNext, OpIsCall
<1>6. AllMoved(c) => AllMoved(c)'
  BY <1>2 DEF AllMoved
<1> QED
  BY <1>2, <1>3, <1>4, <1>5, <1>6 DEF OwnFacts

(***************************************************************************)
(* A completion.  As long as nothing has gone astray it is taken by the    *)
(* engine that asked for it, which is receiving it.                        *)
(***************************************************************************)

\* What an answer does at the engine of direction c.
LEMMA ReceiveAt ==
  ASSUME TypeOK, NEW i \in DOMAIN wire, Receive(i), NEW c \in Chan
  PROVE  /\ pc' = pc /\ serial' = serial /\ sgl' = sgl /\ served' = served
         /\ moved \subseteq moved'
         /\ asked[c] = None =>
              asked'[c] = asked[c] /\ fsm'[c] = fsm[c] /\ entries'[c] = entries[c]
         /\ asked[c] # None =>
              /\ asked'[c] = None
              /\ fsm'[c] = IF fsm[c] = "fetch" THEN "listed" ELSE "drain"
              /\ entries'[c] = IF fsm[c] = "fetch"
                                 THEN entries[c] \o ListIn(wire[i]) ELSE entries[c]
              /\ fsm[c] = "move" /\ asked[c] = wire[i] => wire[i].what \in moved'
         /\ counter'[c] = IF c = "h2c" THEN Counted(counter[c]) ELSE counter[c]
         /\ status'[c] = IF status[c] # 0 THEN status[c]
                         ELSE IF asked[c] # None /\ fsm[c] = "fetch" THEN 1
                         ELSE IF c = "h2c" /\ LastWord(counter[c]) THEN 2 ELSE 0
<1> DEFINE w == wire[i]
           takes == Takers(w)
           pulse == [d \in Chan |->
                       IF d \in takes /\ fsm[d] = "fetch" THEN 1
                       ELSE IF d = "h2c" /\ LastWord(counter[d]) THEN 2 ELSE 0]
<1>1. c \in takes <=> asked[c] # None
  BY DEF Takers
<1>2. /\ asked' = [d \in Chan |-> IF d \in takes THEN None ELSE asked[d]]
      /\ fsm' = [d \in Chan |->
                   IF d \in takes
                     THEN IF fsm[d] = "fetch" THEN "listed" ELSE "drain"
                     ELSE fsm[d]]
      /\ entries' = [d \in Chan |->
                       IF d \in takes /\ fsm[d] = "fetch"
                         THEN entries[d] \o ListIn(w) ELSE entries[d]]
      /\ counter' = [counter EXCEPT !["h2c"] = Counted(counter["h2c"])]
      /\ status' = [d \in Chan |-> IF status[d] = 0 THEN pulse[d] ELSE status[d]]
  BY Zenon DEF Receive, Report
<1>3. moved' = moved \cup
                 {asked[d].what : d \in {e \in takes : fsm[e] = "move" /\ asked[e] = w}}
  BY Zenon DEF Receive
<1>4. moved \subseteq moved'
      /\ (asked[c] # None /\ fsm[c] = "move" /\ asked[c] = w => w.what \in moved')
  <2> HIDE DEF takes, w
  <2> QED
    BY <1>1, <1>3
<1>5. pc' = pc /\ serial' = serial /\ sgl' = sgl /\ served' = served
  BY Zenon DEF Receive, driverVars
<1>6. pulse[c] = IF c \in takes /\ fsm[c] = "fetch" THEN 1
                 ELSE IF c = "h2c" /\ LastWord(counter[c]) THEN 2 ELSE 0
  OBVIOUS
<1> HIDE DEF takes, pulse
<1>7. asked[c] = None =>
        asked'[c] = asked[c] /\ fsm'[c] = fsm[c] /\ entries'[c] = entries[c]
  BY <1>1, <1>2
<1>8. asked[c] # None =>
        /\ asked'[c] = None
        /\ fsm'[c] = IF fsm[c] = "fetch" THEN "listed" ELSE "drain"
        /\ entries'[c] = IF fsm[c] = "fetch"
                           THEN entries[c] \o ListIn(w) ELSE entries[c]
  BY <1>1, <1>2
<1>9. counter'[c] = IF c = "h2c" THEN Counted(counter[c]) ELSE counter[c]
  BY <1>2 DEF TypeOK
<1>10. status'[c] = IF status[c] # 0 THEN status[c]
                    ELSE IF asked[c] # None /\ fsm[c] = "fetch" THEN 1
                    ELSE IF c = "h2c" /\ LastWord(counter[c]) THEN 2 ELSE 0
  BY <1>1, <1>2, <1>6
<1> QED
  BY <1>4, <1>5, <1>7, <1>8, <1>9, <1>10

LEMMA ReceiveClean ==
  ASSUME TypeOK, WireOK, NEW i \in DOMAIN wire, Receive(i), ~crossed', ~miscounted'
  PROVE  /\ ~crossed /\ wire[i] \in Read
         /\ \A c \in Chan : asked[c] # None <=> c = wire[i].to
         /\ asked[wire[i].to] = wire[i]
         /\ wire[i].to = "c2h" => counter["h2c"] = None
<1>1. crossed' = (crossed \/ Takers(wire[i]) # {wire[i].to})
  BY Zenon DEF Receive
<1>2. miscounted' = (miscounted \/ (counter["h2c"] # None /\ wire[i].to = "c2h"))
  BY Zenon DEF Receive
<1>3. ~crossed /\ Takers(wire[i]) = {wire[i].to}
  BY <1>1, Zenon
<1>4. wire[i].to = "c2h" => counter["h2c"] = None
  BY <1>2, Zenon
<1>5. wire[i] \in Read
  BY DEF TypeOK
<1>6. \A c \in Chan : asked[c] # None <=> c = wire[i].to
  BY <1>3 DEF Takers
<1>7. asked[wire[i].to] = wire[i]
  BY <1>3 DEF WireOK
<1> QED
  BY <1>3, <1>4, <1>5, <1>6, <1>7

LEMMA ReceiveOwn ==
  ASSUME TypeOK, NEW c \in Chan, OwnFacts(c), AskedWhileBusy, PlaceOK, WireOK,
         NEW i \in DOMAIN wire, Receive(i), ~crossed', ~miscounted'
  PROVE  OwnFacts(c)'
<1> DEFINE o == Op(c)
           w == wire[i]
<1>1. /\ pc' = pc /\ serial' = serial /\ sgl' = sgl /\ served' = served
      /\ moved \subseteq moved'
      /\ counter'[c] = IF c = "h2c" THEN Counted(counter[c]) ELSE counter[c]
      /\ status'[c] = IF status[c] # 0 THEN status[c]
                      ELSE IF asked[c] # None /\ fsm[c] = "fetch" THEN 1
                      ELSE IF c = "h2c" /\ LastWord(counter[c]) THEN 2 ELSE 0
  BY ReceiveAt
<1>2. /\ w \in Read /\ (asked[c] # None <=> c = w.to) /\ asked[w.to] = w
      /\ w.to = "c2h" => counter["h2c"] = None
  BY ReceiveClean
<1>3. Op(c)' = Op(c) /\ o \in Call
  BY <1>1, OpIsCall DEF Op
<1>4. CASE asked[c] = None
  <2>1. asked'[c] = asked[c] /\ fsm'[c] = fsm[c] /\ entries'[c] = entries[c]
    BY <1>4, ReceiveAt
  <2>2. c = "h2c" => counter[c] = None
    BY <1>2, <1>4 DEF Read, Chan
  <2>3. counter'[c] = counter[c] /\ status'[c] = status[c]
    <3>1. CASE c = "h2c"
      BY <1>1, <1>4, <2>2, <3>1 DEF Counted, LastWord, TypeOK
    <3>2. CASE c # "h2c"
      BY <1>1, <1>4, <3>2 DEF TypeOK
    <3> QED
      BY <3>1, <3>2
  <2> QED
    BY <1>1, <2>1, <2>3, OwnFrame
<1>5. CASE asked[c] # None
  <2>1. asked[c] = w /\ w.to = c
    BY <1>2, <1>5
  <2>2. /\ asked'[c] = None
        /\ fsm'[c] = IF fsm[c] = "fetch" THEN "listed" ELSE "drain"
        /\ entries'[c] = IF fsm[c] = "fetch" THEN entries[c] \o ListIn(w) ELSE entries[c]
        /\ fsm[c] = "move" => w.what \in moved'
    BY <1>5, <2>1, ReceiveAt
  <2>3. ~AtRest(c) /\ ~Listed(c)
    BY <1>5 DEF AtRest, Listed
  <2>4. /\ pc[c] \in Waiting /\ status[c] = 0
        /\ Fetching(c) \/ Moving(c)
    <3>1. pc[c] \in PC
      BY DEF TypeOK
    <3> QED
      BY <2>3, <3>1 DEF OwnFacts, PC, Before, Waiting, Acking, Ending
  <2>5. CASE Fetching(c)
    <3>1. /\ fsm[c] = "fetch" /\ entries[c] = <<>> /\ counter[c] = None
          /\ w = [to |-> c, what |-> [of |-> o, page |-> 0]]
      BY <2>1, <2>5 DEF Fetching
    <3>2. sgl[c] = o
      BY <2>4 DEF PlaceOK, Waiting
    <3>3. ListIn(w) = ListOf(o)
      <4>1. w.what.page = 0 /\ sgl[w.to] = o
        BY <3>1, <3>2
      <4>2. ListIn(w) = [p \in 1..Pages |-> [of |-> sgl[w.to], page |-> p]]
        BY <4>1, Zenon DEF ListIn
      <4> QED
        BY <4>1, <4>2, Zenon DEF ListOf
    <3>4. entries'[c] = ListOf(o)
      BY <1>3, <2>2, <3>1, <3>3, ListOfIsSeq, ConcatEmptySeq
    <3>5. counter'[c] = None
      BY <1>1, <3>1 DEF Counted
    <3>6. Listed(c)'
      BY <1>3, <2>2, <3>1, <3>4, <3>5 DEF Listed, ListOf
    <3>7. status'[c] = 1
      BY <1>1, <1>5, <2>4, <3>1
    <3> QED
      BY <1>1, <2>4, <3>6, <3>7 DEF OwnFacts, Before, Waiting, Acking, Ending
  <2>6. CASE Moving(c)
    <3>1. PICK n \in 0..(Pages - 1) : MovingAt(c, n)
      BY <1>3, <2>6, MovingIs
    <3>2. c = "h2c" /\ fsm[c] = "move"
      BY <1>5, <2>6 DEF AskedWhileBusy, Moving
    <3>3. /\ counter[c] = n /\ entries[c] = Rest(o, n + 1) /\ w.what = Page(o, n + 1)
          /\ \A p \in 1..n : Page(o, p) \in moved
      BY <1>5, <2>1, <3>1 DEF MovingAt
    <3>4. \A p \in 1..n + 1 : Page(o, p) \in moved'
      BY <1>1, <2>2, <3>2, <3>3, PagesAssumption
    <3>5. fsm'[c] = "drain" /\ entries'[c] = Rest(o, n + 1)
      BY <2>2, <3>2, <3>3
    <3>6. CASE n + 1 = Pages
      <4>1. counter'[c] = None /\ status'[c] = 2
        BY <1>1, <2>4, <3>2, <3>3, <3>6, CountedIs
      <4>2. entries'[c] = <<>>
        BY <1>3, <3>5, <3>6, RestEnds
      <4>3. AtRest(c)'
        BY <2>2, <3>2, <3>5, <4>1, <4>2 DEF AtRest
      <4>4. AllMoved(c)'
        BY <1>3, <3>4, <3>6, AllMovedAtEndNext
      <4> QED
        BY <1>1, <2>4, <4>1, <4>3, <4>4 DEF OwnFacts, Before, Waiting, Acking, Ending
    <3>7. CASE n + 1 # Pages
      <4>1. counter'[c] = n + 1 /\ status'[c] = 0 /\ n + 1 \in 0..(Pages - 1)
        BY <1>1, <2>4, <3>2, <3>3, <3>7, CountedIs
      <4>2. MovingAt(c, n + 1)'
        BY <1>3, <2>2, <3>4, <3>5, <4>1 DEF MovingAt
      <4>3. Moving(c)'
        BY <1>3, <4>1, <4>2, MovingIsNext
      <4> QED
        BY <1>1, <2>4, <4>1, <4>3 DEF OwnFacts, Before, Waiting, Acking, Ending
    <3> QED
      BY <3>6, <3>7
  <2> QED
    BY <2>4, <2>5, <2>6
<1> QED
  BY <1>4, <1>5

-----------------------------------------------------------------------------
(***************************************************************************)
(* The parts of the invariant that do not depend on Ownership.             *)
(***************************************************************************)
LEMMA PlaceStep == TypeOK /\ PlaceOK /\ [Next]_vars => PlaceOK'
<1> SUFFICES ASSUME TypeOK, PlaceOK, [Next]_vars PROVE PlaceOK'
  OBVIOUS
<1> USE DEF driverVars, isrVars, regVars, engineVars, irqVars, history, Goto, Return
\* A step of c past its list, or back to rest.
<1>1. ASSUME NEW c \in Chan, UNCHANGED <<serial, sgl, listReg>>,
             NEW place \in PC, pc' = [pc EXCEPT ![c] = place],
             place = "idle" \/ pc[c] \notin {"idle", "pin", "list"}
      PROVE  PlaceOK'
  BY <1>1 DEF PlaceOK, Op, TypeOK
<1>2. ASSUME NEW c \in Chan, Enter(c) PROVE PlaceOK'
  BY <1>2 DEF Enter, PlaceOK, Op, TypeOK
<1>3. ASSUME NEW c \in Chan, Pin(c) PROVE PlaceOK'
  <2>1. serial' = serial /\ listReg' = listReg /\ pc[c] = "pin"
    BY <1>3 DEF Pin
  <2>2. CASE sgl' = [sgl EXCEPT ![c] = Op(c)] /\ pc' = [pc EXCEPT ![c] = "list"]
    BY <2>1, <2>2 DEF PlaceOK, Op, TypeOK
  <2>3. CASE sgl' = sgl /\ pc' = [pc EXCEPT ![c] = "idle"]
    BY <2>1, <2>3 DEF PlaceOK, Op, TypeOK
  <2>4. \/ sgl' = [sgl EXCEPT ![c] = Op(c)] /\ pc' = [pc EXCEPT ![c] = "list"]
        \/ sgl' = sgl /\ pc' = [pc EXCEPT ![c] = "idle"]
    BY <1>3, Zenon DEF Pin
  <2> QED
    BY <2>2, <2>3, <2>4
<1>4. ASSUME NEW c \in Chan, WriteList(c) PROVE PlaceOK'
  BY <1>4 DEF WriteList, PlaceOK, Op, TypeOK
<1>5. ASSUME NEW c \in Chan, StartList(c) \/ WriteLength(c) PROVE PlaceOK'
  BY <1>1, <1>5 DEF StartList, WriteLength, PC
<1>6. ASSUME NEW c \in Chan, WaitTest(c) \/ WaitEnds(c) \/ Check(c) \/ ReadStatus(c)
      PROVE  PlaceOK'
  BY <1>1, <1>6 DEF WaitTest, WaitEnds, Check, ReadStatus, DoneFirst, Move, PC
<1>7. ASSUME NEW c \in Chan, GiveUp(c) \/ AckList(c) \/ AckDone(c) PROVE PlaceOK'
  BY <1>1, <1>7 DEF GiveUp, AckList, AckDone, SetFlag0, PC
<1>8. ASSUME NEW c \in Chan, ClearList(c) \/ StartMove(c) PROVE PlaceOK'
  BY <1>1, <1>8 DEF ClearList, StartMove, PC
<1>9. ASSUME NEW c \in Chan, Free(c) \/ ClearDone(c) PROVE PlaceOK'
  BY <1>1, <1>9 DEF Free, ClearDone, PC
<1>10. ASSUME NEW c \in Chan, IsrWake(c) PROVE PlaceOK'
  BY <1>10 DEF IsrWake, PlaceOK, Op, TypeOK
<1>11. ASSUME UNCHANGED <<pc, serial, sgl, listReg>> PROVE PlaceOK'
  BY <1>11 DEF PlaceOK, Op
<1>12. ASSUME NEW c \in Chan, IsrRead(c) \/ IsrStore(c) PROVE PlaceOK'
  BY <1>11, <1>12 DEF IsrRead, IsrStore
<1>13. ASSUME WritePage \/ AskPage \/ Drain \/ IsrEnter \/ UNCHANGED vars PROVE PlaceOK'
  BY <1>11, <1>13 DEF WritePage, AskPage, Drain, IsrEnter, vars
<1>14. ASSUME NEW i \in DOMAIN wire, Receive(i) PROVE PlaceOK'
  <2>1. UNCHANGED <<pc, serial, sgl, listReg>>
    BY <1>14, Zenon DEF Receive
  <2> QED
    BY <1>11, <2>1
<1> QED
  BY NextCases, <1>2, <1>3, <1>4, <1>5, <1>6, <1>7, <1>8, <1>9, <1>10, <1>12,
     <1>13, <1>14

LEMMA ServedStep == TypeOK /\ ServedOK /\ [Next]_vars => ServedOK'
<1> SUFFICES ASSUME TypeOK, ServedOK, [Next]_vars PROVE ServedOK'
  OBVIOUS
<1> USE DEF driverVars, isrVars, regVars, engineVars, irqVars, history, Goto, Return
\* A step of c past its START=1, or back to rest.
<1>1. ASSUME NEW c \in Chan, UNCHANGED <<serial, served>>,
             NEW place \in PC, pc' = [pc EXCEPT ![c] = place],
             \/ place \notin {"pin", "list", "start_list"}
             \/ pc[c] \in {"pin", "list", "start_list"}
      PROVE  ServedOK'
  BY <1>1 DEF ServedOK, TypeOK
<1>2. ASSUME NEW c \in Chan, Enter(c) PROVE ServedOK'
  <2>1. serial' = [serial EXCEPT ![c] = serial[c] + 1] /\ served' = served
    BY <1>2 DEF Enter
  <2>2. ASSUME NEW d \in Chan, NEW n \in Nat, <<d, n>> \in served'
        PROVE  \/ n < serial'[d]
               \/ n = serial'[d] /\ pc'[d] \notin {"pin", "list", "start_list"}
    <3>1. \/ n < serial[d]
          \/ n = serial[d] /\ pc[d] \notin {"pin", "list", "start_list"}
      BY <2>1, <2>2 DEF ServedOK
    <3>2. CASE d = c
      BY <2>1, <3>1, <3>2 DEF TypeOK
    <3>3. CASE d # c
      BY <1>2, <2>1, <3>1, <3>3 DEF Enter, TypeOK
    <3> QED
      BY <3>2, <3>3
  <2> QED
    BY <2>2 DEF ServedOK
<1>3. ASSUME NEW c \in Chan, StartList(c) PROVE ServedOK'
  <2>1. /\ pc' = [pc EXCEPT ![c] = "length"] /\ serial' = serial
        /\ served' = served \/ served' = served \cup {<<c, serial[c]>>}
    BY <1>3 DEF StartList, Op
  <2> QED
    BY <2>1 DEF ServedOK, TypeOK
<1>4. ASSUME NEW c \in Chan, Pin(c) \/ WriteList(c) PROVE ServedOK'
  BY <1>1, <1>4 DEF Pin, WriteList, PC
<1>5. ASSUME NEW c \in Chan, WriteLength(c) \/ StartMove(c) \/ ClearList(c) PROVE ServedOK'
  BY <1>1, <1>5 DEF WriteLength, StartMove, ClearList, PC
<1>6. ASSUME NEW c \in Chan, WaitTest(c) \/ WaitEnds(c) \/ Check(c) \/ ReadStatus(c)
      PROVE  ServedOK'
  BY <1>1, <1>6 DEF WaitTest, WaitEnds, Check, ReadStatus, DoneFirst, Move, PC
<1>7. ASSUME NEW c \in Chan, GiveUp(c) \/ AckList(c) \/ AckDone(c) PROVE ServedOK'
  BY <1>1, <1>7 DEF GiveUp, AckList, AckDone, SetFlag0, PC
<1>8. ASSUME NEW c \in Chan, Free(c) \/ ClearDone(c) PROVE ServedOK'
  BY <1>1, <1>8 DEF Free, ClearDone, PC
<1>9. ASSUME NEW c \in Chan, IsrWake(c) PROVE ServedOK'
  BY <1>9 DEF IsrWake, ServedOK, TypeOK
<1>10. ASSUME UNCHANGED <<pc, serial, served>> PROVE ServedOK'
  BY <1>10 DEF ServedOK
<1>11. ASSUME NEW c \in Chan, IsrRead(c) \/ IsrStore(c) PROVE ServedOK'
  BY <1>10, <1>11 DEF IsrRead, IsrStore
<1>12. ASSUME WritePage \/ AskPage \/ Drain \/ IsrEnter \/ UNCHANGED vars PROVE ServedOK'
  BY <1>10, <1>12 DEF WritePage, AskPage, Drain, IsrEnter, vars
<1>13. ASSUME NEW i \in DOMAIN wire, Receive(i) PROVE ServedOK'
  <2>1. UNCHANGED <<pc, serial, served>>
    BY <1>13, Zenon DEF Receive
  <2> QED
    BY <1>10, <2>1
<1> QED
  BY NextCases, <1>2, <1>3, <1>4, <1>5, <1>6, <1>7, <1>8, <1>9, <1>11, <1>12, <1>13

\* The words left on the wire, by where they stood.
LEMMA RemoveElements ==
  ASSUME NEW S, NEW s \in Seq(S), NEW i \in DOMAIN s
  PROVE  /\ RemoveAt(s, i) \in Seq(S) /\ Len(RemoveAt(s, i)) = Len(s) - 1
         /\ \A k \in DOMAIN RemoveAt(s, i) :
              /\ k < i => k \in DOMAIN s /\ RemoveAt(s, i)[k] = s[k]
              /\ ~(k < i) => k + 1 \in DOMAIN s /\ RemoveAt(s, i)[k] = s[k + 1]
<1> DEFINE r == RemoveAt(s, i)
           a == SubSeq(s, 1, i - 1)
           b == SubSeq(s, i + 1, Len(s))
<1>1. i \in 1..Len(s) /\ Len(s) \in Nat
  OBVIOUS
<1>2. /\ a \in Seq(S) /\ Len(a) = i - 1 /\ \A k \in 1..i - 1 : a[k] = s[k]
  BY <1>1, SubSeqProperties
<1>3. /\ b \in Seq(S) /\ Len(b) = Len(s) - i
      /\ \A k \in 1..Len(s) - i : b[k] = s[i + k]
  BY <1>1, SubSeqProperties
<1> HIDE DEF a, b
<1>4. r = a \o b
  BY DEF RemoveAt, a, b
<1>5. /\ r \in Seq(S) /\ Len(r) = Len(s) - 1
      /\ \A k \in 1..Len(s) - 1 : r[k] = IF k <= i - 1 THEN a[k] ELSE b[k - (i - 1)]
  <2>1. a \in Seq(S) /\ b \in Seq(S)
    BY <1>2, <1>3
  <2>2. /\ a \o b \in Seq(S) /\ Len(a \o b) = Len(a) + Len(b)
        /\ \A k \in 1..Len(a) + Len(b) :
             (a \o b)[k] = IF k <= Len(a) THEN a[k] ELSE b[k - Len(a)]
    BY <2>1, ConcatProperties, Zenon
  <2>3. Len(a) + Len(b) = Len(s) - 1 /\ Len(a) = i - 1
    BY <1>1, <1>2, <1>3
  <2> QED
    BY <1>4, <2>2, <2>3, Zenon
<1> HIDE DEF r
<1>6. ASSUME NEW k \in DOMAIN r
      PROVE  /\ k < i => k \in DOMAIN s /\ r[k] = s[k]
             /\ ~(k < i) => k + 1 \in DOMAIN s /\ r[k] = s[k + 1]
  <2>1. k \in 1..Len(s) - 1
    BY <1>1, <1>5, <1>6
  <2>2. CASE k < i
    BY <1>1, <1>2, <1>5, <2>1, <2>2, SMTT(30)
  <2>3. CASE ~(k < i)
    <3>1. k - (i - 1) \in 1..Len(s) - i /\ ~(k <= i - 1)
      BY <1>1, <2>1, <2>3
    <3>2. r[k] = s[i + (k - (i - 1))] /\ i + (k - (i - 1)) = k + 1
      BY <1>1, <1>3, <1>5, <2>1, <3>1, SMTT(30)
    <3> QED
      BY <1>1, <2>1, <2>3, <3>2
  <2> QED
    BY <2>2, <2>3
<1> QED
  BY <1>5, <1>6 DEF r

LEMMA WireStep == TypeOK /\ AskedWhileBusy /\ WireOK /\ [Next]_vars => WireOK'
<1> SUFFICES ASSUME TypeOK, AskedWhileBusy, WireOK, [Next]_vars PROVE WireOK'
  OBVIOUS
<1> USE DEF driverVars, isrVars, regVars, engineVars, irqVars, history, Goto, Return
<1>0. \A i \in DOMAIN wire : wire[i] \in Read /\ wire[i] # None
  BY NoneAssumption DEF TypeOK
<1>1. ASSUME UNCHANGED <<wire, asked, crossed>> PROVE WireOK'
  BY <1>1 DEF WireOK
\* An engine that waits for nothing asks for one word more.
<1>2. ASSUME NEW c \in Chan, NEW r \in Read, r.to = c, asked[c] = None,
             asked' = [asked EXCEPT ![c] = r], wire' = Append(wire, r),
             crossed' = crossed
      PROVE  WireOK'
  <2> SUFFICES ASSUME ~crossed, NEW i \in DOMAIN wire', NEW j \in DOMAIN wire'
               PROVE  /\ asked'[wire'[i].to] = wire'[i]
                      /\ wire'[i].to = wire'[j].to => i = j
    BY <1>2 DEF WireOK
  <2>1. wire \in Seq(Read)
    BY DEF TypeOK
  <2>2. /\ \A k \in DOMAIN wire' :
             (k \in DOMAIN wire /\ wire'[k] = wire[k]) \/ (k = Len(wire) + 1 /\ wire'[k] = r)
    BY <1>2, <2>1
  <2>3. \A k \in DOMAIN wire : wire[k].to # c /\ asked[wire[k].to] = wire[k]
                               /\ wire[k].to \in Chan
    BY <1>0, <1>2 DEF WireOK, Read
  <2>4. asked'[c] = r /\ \A d \in Chan \ {c} : asked'[d] = asked[d]
    BY <1>2 DEF TypeOK
  <2>5. asked'[wire'[i].to] = wire'[i]
    BY <1>2, <2>2, <2>3, <2>4
  <2>6. \A k \in DOMAIN wire' : wire'[k].to = c => k = Len(wire) + 1
    BY <2>2, <2>3
  <2>7. CASE wire'[i].to = c
    BY <2>5, <2>6, <2>7
  <2>8. CASE wire'[i].to # c
    <3>1. i \in DOMAIN wire /\ wire'[i] = wire[i]
      BY <1>2, <2>2, <2>8
    <3>2. ASSUME wire'[j].to = wire'[i].to PROVE i = j
      <4>1. j \in DOMAIN wire /\ wire'[j] = wire[j]
        BY <1>2, <2>2, <2>8, <3>2
      <4> QED
        BY <3>1, <3>2, <4>1 DEF WireOK
    <3> QED
      BY <2>5, <3>2
  <2> QED
    BY <2>5, <2>7, <2>8
<1>3. ASSUME NEW c \in Chan, StartList(c) PROVE WireOK'
  <2> DEFINE r == [to |-> c, what |-> [of |-> listReg[c], page |-> 0]]
  <2>1. r \in Read /\ r.to = c
    BY PagesAssumption DEF TypeOK, Read, Entry
  <2> HIDE DEF r
  <2>2. \/ /\ fsm[c] = "idle" /\ asked' = [asked EXCEPT ![c] = r]
           /\ wire' = Append(wire, r) /\ crossed' = crossed
        \/ UNCHANGED <<wire, asked, crossed>>
    BY <1>3, Zenon DEF StartList, StartTaken, r
  <2>3. CASE fsm[c] = "idle" /\ asked' = [asked EXCEPT ![c] = r]
             /\ wire' = Append(wire, r) /\ crossed' = crossed
    <3>1. asked[c] = None
      BY <2>3 DEF AskedWhileBusy
    <3> QED
      BY <1>2, <2>1, <2>3, <3>1
  <2> QED
    BY <1>1, <2>2, <2>3
<1>4. ASSUME AskPage PROVE WireOK'
  <2> DEFINE r == [to |-> "h2c", what |-> Head(entries["h2c"])]
  <2>1. entries["h2c"] \in Seq(Entry) /\ entries["h2c"] # <<>>
    BY <1>4 DEF AskPage, TypeOK, Chan
  <2>2. r \in Read /\ r.to = "h2c"
    BY <2>1, HeadTailProperties DEF Read, Chan
  <2> HIDE DEF r
  <2>3. asked["h2c"] = None /\ asked' = [asked EXCEPT !["h2c"] = r]
        /\ wire' = Append(wire, r) /\ crossed' = crossed
    BY <1>4, Zenon DEF AskPage, r
  <2> QED
    BY <1>2, <2>2, <2>3 DEF Chan
<1>5. ASSUME NEW i \in DOMAIN wire, Receive(i) PROVE WireOK'
  <2> SUFFICES ASSUME ~crossed' PROVE WireOK'
    BY DEF WireOK
  <2> DEFINE old(k) == IF k < i THEN k ELSE k + 1
  <2>1. /\ wire' = RemoveAt(wire, i)
        /\ asked' = [d \in Chan |-> IF d \in Takers(wire[i]) THEN None ELSE asked[d]]
        /\ crossed' = (crossed \/ Takers(wire[i]) # {wire[i].to})
    BY <1>5, Zenon DEF Receive
  <2>2. ~crossed /\ Takers(wire[i]) = {wire[i].to}
    BY <2>1, Zenon
  <2>3. \A k \in DOMAIN wire' :
          old(k) \in DOMAIN wire /\ old(k) # i /\ wire'[k] = wire[old(k)]
    <3>1. wire \in Seq(Read) /\ wire' = RemoveAt(wire, i)
      BY <2>1 DEF TypeOK
    <3>2. wire' \in Seq(Read) /\ DOMAIN wire' \subseteq Nat /\ i \in Nat
      BY <3>1, RemoveElements
    <3>3. ASSUME NEW k \in DOMAIN wire'
          PROVE  old(k) \in DOMAIN wire /\ old(k) # i /\ wire'[k] = wire[old(k)]
      <4>1. CASE k < i
        BY <3>1, <3>2, <3>3, <4>1, RemoveElements
      <4>2. CASE ~(k < i)
        BY <3>1, <3>2, <3>3, <4>2, RemoveElements
      <4> QED
        BY <4>1, <4>2
    <3> QED
      BY <3>3
  <2>4. \A k, l \in DOMAIN wire' : old(k) = old(l) => k = l
    <3>1. DOMAIN wire' \subseteq Nat /\ i \in Nat
      <4>1. wire' \in Seq(Read) /\ wire \in Seq(Read)
        BY <2>1, RemoveType DEF TypeOK
      <4> QED
        BY <4>1
    <3> QED
      BY <3>1
  <2> HIDE DEF old
  <2>5. \A k \in DOMAIN wire' : wire'[k].to \in Chan \ {wire[i].to}
    BY <1>0, <2>2, <2>3 DEF WireOK, Read
  <2>6. \A d \in Chan \ {wire[i].to} : asked'[d] = asked[d]
    BY <2>1, <2>2
  <2>7. \A k, l \in DOMAIN wire' :
          asked'[wire'[k].to] = wire'[k] /\ (wire'[k].to = wire'[l].to => k = l)
    BY <2>2, <2>3, <2>4, <2>5, <2>6 DEF WireOK
  <2> QED
    BY <2>7 DEF WireOK
<1>6. ASSUME NEW c \in Chan, Enter(c) \/ Pin(c) \/ WriteList(c) \/ WriteLength(c)
      PROVE  WireOK'
  BY <1>1, <1>6, Zenon DEF Enter, Pin, WriteList, WriteLength
<1>7. ASSUME NEW c \in Chan, WaitTest(c) \/ WaitEnds(c) \/ Check(c) \/ ReadStatus(c)
      PROVE  WireOK'
  BY <1>1, <1>7, Zenon DEF WaitTest, WaitEnds, Check, ReadStatus, Move
<1>8. ASSUME NEW c \in Chan,
             GiveUp(c) \/ AckList(c) \/ ClearList(c) \/ StartMove(c) \/ AckDone(c)
               \/ Free(c) \/ ClearDone(c)
      PROVE  WireOK'
  BY <1>1, <1>8, Zenon DEF GiveUp, AckList, AckDone, SetFlag0, ClearList, StartMove,
                           Free, ClearDone
<1>9. ASSUME NEW c \in Chan, IsrRead(c) \/ IsrStore(c) \/ IsrWake(c) PROVE WireOK'
  BY <1>1, <1>9, Zenon DEF IsrRead, IsrStore, IsrWake
<1>10. ASSUME WritePage \/ Drain \/ IsrEnter \/ UNCHANGED vars PROVE WireOK'
  BY <1>1, <1>10, Zenon DEF WritePage, Drain, IsrEnter, vars
<1> QED
  BY NextCases, <1>3, <1>4, <1>5, <1>6, <1>7, <1>8, <1>9, <1>10

-----------------------------------------------------------------------------
(***************************************************************************)
(* The inductive invariant and what it implies.                            *)
(***************************************************************************)
CleanOwned == \A c \in Chan : Clean(c) => OwnFacts(c)

OwnInv == CleanOwned /\ PlaceOK /\ ServedOK /\ WireOK

LEMMA OwnInit == Init => OwnInv
<1> SUFFICES ASSUME Init PROVE OwnInv
  OBVIOUS
<1>1. \A c \in Chan : AtRest(c) /\ status[c] = 0 /\ pc[c] = "idle"
  BY DEF Init, AtRest
<1>2. CleanOwned
  BY <1>1 DEF CleanOwned, OwnFacts, Before, Waiting, Acking, Ending
<1>3. PlaceOK
  BY <1>1 DEF PlaceOK
<1>4. ServedOK /\ WireOK
  BY DEF Init, ServedOK, WireOK
<1> QED
  BY <1>2, <1>3, <1>4 DEF OwnInv

LEMMA OwnStep == TypeOK /\ AskedWhileBusy /\ OwnInv /\ [Next]_vars => OwnInv'
<1> SUFFICES ASSUME TypeOK, AskedWhileBusy, OwnInv, [Next]_vars PROVE OwnInv'
  OBVIOUS
<1>0. PlaceOK /\ ServedOK /\ WireOK
  BY DEF OwnInv
<1>1. PlaceOK' /\ ServedOK' /\ WireOK'
  BY <1>0, PlaceStep, ServedStep, WireStep
<1>2. ASSUME NEW d \in Chan, Clean(d)' PROVE OwnFacts(d)'
  <2> USE DEF driverVars, isrVars, regVars, engineVars, irqVars, history, Goto, Return
  <2>1. Clean(d) /\ OwnFacts(d)
    BY <1>2, CleanStep DEF OwnInv, CleanOwned
  \* Another direction moves.
  <2>2. ASSUME fsm'[d] = fsm[d], entries'[d] = entries[d], asked'[d] = asked[d],
               counter'[d] = counter[d], status'[d] = status[d], pc'[d] = pc[d],
               serial'[d] = serial[d], moved \subseteq moved',
               Op(d) \in served' => Op(d) \in served
        PROVE  OwnFacts(d)'
    BY <2>1, <2>2, OwnFrame
  <2>3. ASSUME NEW c \in Chan,
               \/ Enter(c) \/ Pin(c) \/ WriteList(c) \/ StartList(c) \/ WriteLength(c)
               \/ WaitTest(c) \/ WaitEnds(c) \/ GiveUp(c) \/ Check(c) \/ ReadStatus(c)
               \/ AckList(c) \/ ClearList(c) \/ StartMove(c) \/ AckDone(c) \/ Free(c)
               \/ ClearDone(c)
        PROVE  OwnFacts(d)'
    <3>1. CASE d = c
      BY <1>0, <1>2, <2>1, <2>3, <3>1, CallerOwn
    <3>2. CASE d # c
      <4>1. Op(d) # Op(c)
        BY <3>2 DEF Op
      <4>2. CASE StartList(c)
        <5>1. /\ pc' = [pc EXCEPT ![c] = "length"]
              /\ UNCHANGED <<serial, entries, counter, status, moved>>
              /\ \/ /\ \E r : asked' = [asked EXCEPT ![c] = r]
                    /\ fsm' = [fsm EXCEPT ![c] = "fetch"]
                    /\ served' = served \cup {Op(c)}
                 \/ UNCHANGED <<fsm, asked, served>>
          BY <4>2, Zenon DEF StartList
        <5> QED
          BY <2>2, <3>2, <4>1, <5>1 DEF TypeOK
      <4>3. CASE Enter(c) \/ Pin(c) \/ WriteList(c) \/ WriteLength(c)
        BY <2>2, <3>2, <4>3 DEF Enter, Pin, WriteList, WriteLength, TypeOK
      <4>4. CASE WaitTest(c) \/ WaitEnds(c) \/ Check(c) \/ ReadStatus(c)
        BY <2>2, <3>2, <4>4 DEF WaitTest, WaitEnds, Check, ReadStatus, Move, TypeOK
      <4>5. CASE GiveUp(c) \/ AckList(c) \/ AckDone(c)
        BY <2>2, <3>2, <4>5 DEF GiveUp, AckList, AckDone, SetFlag0, TypeOK
      <4>6. CASE ClearList(c) \/ StartMove(c) \/ Free(c) \/ ClearDone(c)
        BY <2>2, <3>2, <4>6 DEF ClearList, StartMove, Free, ClearDone, TypeOK
      <4> QED
        BY <2>3, <4>2, <4>3, <4>4, <4>5, <4>6
    <3> QED
      BY <3>1, <3>2
  <2>4. ASSUME NEW c \in Chan, IsrRead(c) \/ IsrStore(c) \/ IsrEnter \/ UNCHANGED vars
        PROVE  OwnFacts(d)'
    BY <2>2, <2>4 DEF IsrRead, IsrStore, IsrEnter, vars
  <2>5. ASSUME NEW c \in Chan, IsrWake(c) PROVE OwnFacts(d)'
    <3>1. \/ pc'[d] = pc[d]
          \/ pc[d] = "asleep" /\ pc'[d] = "wait"
      BY <2>5 DEF IsrWake, TypeOK
    <3>2. UNCHANGED <<serial, fsm, entries, asked, counter, status, moved, served>>
      BY <2>5 DEF IsrWake
    <3>3. Op(d)' = Op(d)
      BY <3>2 DEF Op
    <3>4. /\ AtRest(d) => AtRest(d)'
          /\ Fetching(d) => Fetching(d)'
          /\ Listed(d) => Listed(d)'
          /\ Moving(d) => Moving(d)'
          /\ AllMoved(d) => AllMoved(d)'
      BY <3>2, <3>3, DeviceFrame
    <3> QED
      BY <2>1, <3>1, <3>2, <3>3, <3>4 DEF OwnFacts, Before, Waiting, Acking, Ending
  <2>6. ASSUME WritePage PROVE OwnFacts(d)'
    <3>1. CASE d = "c2h"
      BY <2>1, <2>6, <3>1, WritePageOwn
    <3>2. CASE d # "c2h"
      BY <2>2, <2>6, <3>2 DEF WritePage, Report, TypeOK
    <3> QED
      BY <3>1, <3>2
  <2>7. ASSUME AskPage PROVE OwnFacts(d)'
    <3>1. CASE d = "h2c"
      BY <2>1, <2>7, <3>1, AskPageOwn
    <3>2. CASE d # "h2c"
      BY <2>2, <2>7, <3>2 DEF AskPage, TypeOK
    <3> QED
      BY <3>1, <3>2
  <2>8. ASSUME Drain PROVE OwnFacts(d)'
    <3>1. CASE d = "h2c"
      BY <2>1, <2>8, <3>1, DrainOwn
    <3>2. CASE d # "h2c"
      BY <2>2, <2>8, <3>2 DEF Drain, TypeOK
    <3> QED
      BY <3>1, <3>2
  <2>9. ASSUME NEW i \in DOMAIN wire, Receive(i) PROVE OwnFacts(d)'
    BY <1>0, <1>2, <2>1, <2>9, ReceiveOwn DEF Clean
  <2> QED
    BY NextCases, <2>3, <2>4, <2>5, <2>6, <2>7, <2>8, <2>9
<1>3. CleanOwned'
  BY <1>2 DEF CleanOwned
<1> QED
  BY <1>1, <1>3 DEF OwnInv

LEMMA OwnInvariant == Spec => [](TypeOK /\ AskedWhileBusy /\ OwnInv)
<1>1. WaitInv => AskedWhileBusy
  BY DEF WaitInv
<1> QED
  BY <1>1, TypeInit, TypeStep, WaitInit, WaitStep, OwnInit, OwnStep, PTL DEF Spec

LEMMA CleanIsOwned == TypeOK /\ OwnInv => Ownership
BY OwnedIsFacts DEF TypeOK, OwnInv, CleanOwned, Ownership

\* On a direction where no call gave up and no word went astray, the list the
\* engine walks, its counter, its entries and its status register belong to the
\* call in progress, for every interleaving of both callers, both engines and
\* the handler.
THEOREM SgDmaOwns == Spec => []Ownership
BY OwnInvariant, CleanIsOwned, PTL

\* A call that reads "done" has had every page of its own list moved.
THEOREM SgDmaSuccessIsOwn == Spec => []SuccessIsOwn
<1>1. TypeOK /\ OwnInv => SuccessIsOwn
  BY DEF OwnInv, CleanOwned, OwnFacts, Ending, AllMoved, SuccessIsOwn
<1> QED
  BY <1>1, OwnInvariant, PTL

\* No page is moved that get_sg_list has not pinned or free_sg_buf has let go.
THEOREM SgDmaPinnedWhileInUse == Spec => []PinnedWhileInUse
<1>1. TypeOK /\ AskedWhileBusy /\ OwnInv /\ PinsBalance => PinnedWhileInUse
  <2> SUFFICES ASSUME TypeOK, AskedWhileBusy, OwnInv, PinsBalance,
                      NEW c \in Chan, Clean(c)
               PROVE  InUse(c) \subseteq pinned
    BY DEF PinnedWhileInUse
  <2> DEFINE o == Op(c)
  <2>1. OwnFacts(c) /\ pc[c] \in PC /\ o \in Call
    BY OpIsCall DEF OwnInv, CleanOwned, TypeOK
  <2>2. CASE AtRest(c)
    BY <2>2 DEF AtRest, InUse
  <2>3. CASE ~AtRest(c)
    <3>1. pc[c] \in Waiting \cup Acking \cup {"start_move"}
          /\ (Fetching(c) \/ Moving(c) \/ Listed(c))
      BY <2>1, <2>3 DEF OwnFacts, PC, Before, Waiting, Acking, Ending
    <3>2. Holds(c)
      BY <3>1 DEF Holds, Waiting, Acking
    <3>3. o \in pinned
      BY <3>2 DEF PinsBalance
    <3>4. CASE Fetching(c)
      BY <3>4 DEF Fetching, InUse
    <3>5. CASE Listed(c)
      <4>1. asked[c] = None /\ entries[c] = ListOf(o)
        BY <3>5 DEF Listed
      <4>2. \A i \in DOMAIN entries[c] : entries[c][i].of = o
        BY <4>1 DEF ListOf
      <4> QED
        BY <3>3, <4>1, <4>2 DEF InUse
    <3>6. CASE Moving(c)
      <4>1. PICK n \in 0..(Pages - 1) : MovingAt(c, n)
        BY <2>1, <3>6, MovingIs
      <4>2. n \in 0..Pages /\ n + 1 \in 0..Pages
        BY PagesAssumption
      <4>3. \A m \in 0..Pages : \A i \in DOMAIN Rest(o, m) : Rest(o, m)[i].of = o
        <5> SUFFICES ASSUME NEW m \in 0..Pages, NEW i \in DOMAIN Rest(o, m)
                     PROVE  Rest(o, m)[i].of = o
          OBVIOUS
        <5>1. i \in 1..(Pages - m)
          <6>1. Rest(o, m) \in Seq(Entry) /\ Len(Rest(o, m)) = Pages - m
            BY <2>1, RestOfList
          <6> QED
            BY <6>1
        <5>2. Rest(o, m)[i] = Page(o, m + i)
          BY <2>1, <5>1, RestOfList
        <5> QED
          BY <5>2 DEF Page
      <4>4. \A i \in DOMAIN entries[c] : entries[c][i].of = o
        BY <4>1, <4>2, <4>3 DEF MovingAt
      <4>5. asked[c] # None => asked[c].what.of = o
        BY <4>1 DEF MovingAt, Page
      <4> QED
        BY <3>3, <4>4, <4>5 DEF InUse
    <3> QED
      BY <3>1, <3>4, <3>5, <3>6
  <2> QED
    BY <2>2, <2>3
<1> QED
  BY <1>1, OwnInvariant, SgDmaPinsBalance, PTL

-----------------------------------------------------------------------------
(***************************************************************************)
(* Reports reach the flag.  The step that can hurt is one that leaves the  *)
(* handler with an old copy; a caller enters the places the property is    *)
(* about only with its register clear, which is what Ownership adds.       *)
(***************************************************************************)
ReportPlaces == {"start_list", "length", "wait", "asleep", "check", "read"}

\* The report of direction c is on its way.
Underway(c) ==
  \/ msi > 0
  \/ IsrToRead(c)
  \/ IsrToStore(c) /\ seen[c] = status[c]
  \/ flag[c] # 0 /\ (IsrToStore(c) => seen[c] = status[c])

LEMMA ReportRaises ==
  ASSUME TypeOK, NEW pulse \in [Chan -> 0..2], Report(pulse), NEW c \in Chan
  PROVE  /\ status[c] # 0 => status'[c] = status[c]
         /\ status[c] = 0 /\ status'[c] # 0 => msi' > 0
         /\ msi > 0 => msi' > 0
<1>1. msi \in Nat /\ msi' \in Msis(pulse)
  BY DEF TypeOK, Report
<1>2. status' = [d \in Chan |-> IF status[d] = 0 THEN pulse[d] ELSE status[d]]
  BY DEF Report
<1>3. pulse[c] # 0 => msi' > 0
  BY <1>1 DEF Msis
<1>4. msi > 0 => msi' > 0
  BY <1>1 DEF Msis
<1> QED
  BY <1>2, <1>3, <1>4

LEMMA ReportedStep ==
  TypeOK /\ OwnInv /\ StatusReported /\ [Next]_vars => StatusReported'
<1> SUFFICES ASSUME TypeOK, OwnInv, StatusReported, [Next]_vars, NEW d \in Chan,
                    Clean(d)', status'[d] # 0, pc'[d] \in ReportPlaces
             PROVE  Underway(d)'
  BY DEF StatusReported, Underway, ReportPlaces
<1> USE DEF driverVars, isrVars, regVars, engineVars, irqVars, history, Goto, Return
<1>0. OwnFacts(d)
  BY CleanStep DEF OwnInv, CleanOwned
<1>1. status[d] # 0 /\ pc[d] \in ReportPlaces => Underway(d)
  BY CleanStep DEF StatusReported, Underway, ReportPlaces
\* A caller's step that leaves the flag and the register alone, or clears them.
<1>2. ASSUME status'[d] = status[d], flag'[d] = flag[d], UNCHANGED <<isr, seen, msi>>,
             pc[d] \in ReportPlaces
      PROVE  Underway(d)'
  BY <1>1, <1>2 DEF Underway, IsrToRead, IsrToStore
<1>3. ASSUME NEW c \in Chan,
             \/ Enter(c) \/ Pin(c) \/ WriteList(c) \/ StartList(c) \/ WriteLength(c)
             \/ WaitTest(c) \/ WaitEnds(c) \/ GiveUp(c) \/ Check(c) \/ ReadStatus(c)
             \/ AckList(c) \/ ClearList(c) \/ StartMove(c) \/ AckDone(c) \/ Free(c)
             \/ ClearDone(c)
      PROVE  Underway(d)'
  <2> USE DEF ReportPlaces
  <2>1. CASE Enter(c) \/ Pin(c) \/ WriteList(c)
    BY <1>0, <1>2, <2>1 DEF Enter, Pin, WriteList, OwnFacts, Before, TypeOK
  <2>2. CASE StartList(c) \/ WriteLength(c)
    BY <1>2, <2>2 DEF StartList, WriteLength, TypeOK
  <2>3. CASE WaitTest(c) \/ WaitEnds(c) \/ Check(c) \/ ReadStatus(c)
    BY <1>2, <2>3 DEF WaitTest, WaitEnds, Check, ReadStatus, DoneFirst, Move, TypeOK
  <2>4. CASE GiveUp(c) \/ AckList(c) \/ AckDone(c)
    BY <1>2, <2>4 DEF GiveUp, AckList, AckDone, SetFlag0, TypeOK
  <2>5. CASE ClearList(c) \/ Free(c) \/ ClearDone(c)
    BY <1>2, <2>5 DEF ClearList, Free, ClearDone, TypeOK
  <2>6. CASE StartMove(c)
    BY <1>0, <1>2, <2>6 DEF StartMove, OwnFacts, TypeOK
  <2> QED
    BY <1>3, <2>1, <2>2, <2>3, <2>4, <2>5, <2>6
<1>4. ASSUME NEW c \in Chan, IsrRead(c) PROVE Underway(d)'
  BY <1>1, <1>4 DEF IsrRead, AfterStage, Underway, IsrToRead, IsrToStore, TypeOK, Chan
<1>5. ASSUME NEW c \in Chan, IsrStore(c) PROVE Underway(d)'
  BY <1>1, <1>5 DEF IsrStore, AfterStage, Underway, IsrToRead, IsrToStore, TypeOK, Chan
<1>6. ASSUME NEW c \in Chan, IsrWake(c) PROVE Underway(d)'
  BY <1>1, <1>6 DEF IsrWake, AfterStage, Underway, IsrToRead, IsrToStore, TypeOK, Chan,
                    ReportPlaces
<1>7. ASSUME IsrEnter PROVE Underway(d)'
  BY <1>7 DEF IsrEnter, Underway, IsrToRead, Chan
\* The device: what it latches anew it announces.
<1>8. ASSUME NEW pulse \in [Chan -> 0..2], Report(pulse), UNCHANGED <<pc, flag, isr, seen>>
      PROVE  Underway(d)'
  <2>1. /\ status[d] # 0 => status'[d] = status[d]
        /\ status[d] = 0 => msi' > 0
        /\ msi > 0 => msi' > 0
    BY <1>8, ReportRaises
  <2> QED
    BY <1>1, <1>8, <2>1 DEF Underway, IsrToRead, IsrToStore
<1>9. ASSUME WritePage PROVE Underway(d)'
  <2> DEFINE pulse == [c \in Chan |->
                         IF c = "c2h" /\ LastWord(counter[c]) THEN 2 ELSE 0]
  <2>1. pulse \in [Chan -> 0..2]
    OBVIOUS
  <2>2. Report(pulse) /\ UNCHANGED <<pc, flag, isr, seen>>
    BY <1>9 DEF WritePage
  <2> HIDE DEF pulse
  <2> QED
    BY <1>8, <2>1, <2>2
<1>10. ASSUME NEW i \in DOMAIN wire, Receive(i) PROVE Underway(d)'
  <2> DEFINE takes == Takers(wire[i])
             pulse == [c \in Chan |->
                         IF c \in takes /\ fsm[c] = "fetch" THEN 1
                         ELSE IF c = "h2c" /\ LastWord(counter[c]) THEN 2 ELSE 0]
  <2>1. pulse \in [Chan -> 0..2]
    OBVIOUS
  <2>2. Report(pulse) /\ UNCHANGED <<pc, flag, isr, seen>>
    BY <1>10, Zenon DEF Receive
  <2> HIDE DEF pulse
  <2> QED
    BY <1>8, <2>1, <2>2
<1>11. ASSUME AskPage \/ Drain \/ UNCHANGED vars PROVE Underway(d)'
  BY <1>2, <1>11 DEF AskPage, Drain, vars
<1> QED
  BY NextCases, <1>3, <1>4, <1>5, <1>6, <1>7, <1>9, <1>10, <1>11

\* A report latched for a clean call and not yet read by it is always on its
\* way to the flag, in both phases of the handshake and whatever the handler is
\* doing for the other direction.
THEOREM SgDmaStatusReported == Spec => []StatusReported
<1>1. Init => StatusReported
  BY DEF Init, StatusReported
<1> QED
  BY <1>1, OwnInvariant, ReportedStep, PTL DEF Spec

=============================================================================
