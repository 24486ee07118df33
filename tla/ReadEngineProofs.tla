--------------------------- MODULE ReadEngineProofs ---------------------------
(***************************************************************************)
(* Proofs about ReadEngine for any number of tags, read size, FIFO depths  *)
(* and lengths: the types, that neither the output FIFO nor a tag FIFO     *)
(* overflows, that a tag is not given out while words of it are about,     *)
(* that no completion is dropped, and that the stream is the words asked   *)
(* for, in order, whatever order the tags complete in.                     *)
(***************************************************************************)
EXTENDS ReadEngine, FiniteSetTheorems, SequenceTheorems, TLAPS

\* A remainder is below the divisor.
LEMMA ModRange ==
  ASSUME NEW a \in Nat, NEW n \in Nat \ {0}
  PROVE  a % n \in 0..(n - 1) /\ a \div n \in Nat
  BY SMT

\* The last read of a transfer has at least one word and no more than a read.
LEMMA LastOfRange ==
  ASSUME NEW n \in Nat
  PROVE  LastOf(n) \in 1..Beats /\ ReadsOf(n) \in Nat
  BY ModRange, SizesAssumption, SMT DEF LastOf, ReadsOf

\* The next tag, in a ring of Tags tags.
LEMMA NextTag ==
  ASSUME NEW t \in Tag
  PROVE  (t + 1) % Tags \in Tag /\ 0 \in Tag
  BY ModRange, SizesAssumption, SMT DEF Tag

\* What a queue keeps when its head is taken or a word is put at its end.
LEMMA QueueTail ==
  ASSUME NEW S, NEW q \in Seq(S), q # <<>>
  PROVE  /\ Head(q) \in S /\ Tail(q) \in Seq(S)
         /\ Len(Tail(q)) = Len(q) - 1 /\ Len(q) > 0
  BY SMT

LEMMA QueuePut ==
  ASSUME NEW S, NEW q \in Seq(S), NEW r \in Seq(S)
  PROVE  q \o r \in Seq(S) /\ Len(q \o r) = Len(q) + Len(r)
  BY SMT

\* The part of the state the types rest on: a tag is written only into a FIFO
\* that has room, and the output machine runs only while words are left.
Margins ==
  /\ tagWe => tagCount < Tags
  /\ tr = "start" => left > 0

Typed == TypeOK /\ Margins

-----------------------------------------------------------------------------
(***************************************************************************)
(* Type correctness, one lemma per always block.                           *)
(***************************************************************************)

LEMMA TypeInit == Init => Typed
  <1> SUFFICES ASSUME Init PROVE Typed
    OBVIOUS
  <1>1. 0 \in Tag /\ 0 \in 0..Beats /\ 0 \in 0..Tags
    BY SizesAssumption, SMT DEF Tag
  <1>2. <<>> \in Seq(Word)
    BY SMT
  <1> QED
    BY <1>1, <1>2, SMT DEF Init, Typed, TypeOK, Margins

\* The inputs of a cycle.
Inputs(start, ready, cpl, take) ==
  /\ start \in Nat /\ ready \in BOOLEAN
  /\ cpl \in Tag \cup {None} /\ take \in BOOLEAN

LEMMA ReadBeatsRange ==
  ASSUME Typed
  PROVE  ReadBeats \in 1..Beats
  <1>1. length \in Nat
    BY DEF Typed, TypeOK
  <1>2. LastOf(length) \in 1..Beats
    BY <1>1, LastOfRange
  <1> QED
    BY <1>2, SizesAssumption, SMT DEF ReadBeats

LEMMA RequestTypes ==
  ASSUME Typed, NEW start \in Nat, NEW ready \in BOOLEAN, Request(start, ready)
  PROVE  /\ req' \in {"idle", "start"} /\ startReg' \in BOOLEAN
         /\ length' \in Nat /\ reads' \in Nat /\ issued' \in Nat
         /\ mrd' \in Mrd \cup {None}
  <1> DEFINE Rest == /\ req' \in {"idle", "start"} /\ length' \in Nat
                     /\ reads' \in Nat /\ issued' \in Nat
                     /\ mrd' \in Mrd \cup {None}
  <1>0. startReg' \in BOOLEAN
    <2>1. (start > 0) \in BOOLEAN
      OBVIOUS
    <2> QED
      BY <2>1, Zenon DEF Request, Idle, Issue, Offer, Prepare
  <1>1. ASSUME Idle(start) PROVE Rest
    <2>1. ReadsOf(start) \in Nat
      BY LastOfRange
    <2> QED
      BY <1>1, <2>1, SMTT(30) DEF Typed, TypeOK, Idle
  <1>2. ASSUME Issue(ready) PROVE Rest
    BY <1>2, SMT DEF Typed, TypeOK, Issue
  <1>3. ASSUME Offer(ready) PROVE Rest
    <2>1. ReadBeats \in 1..Beats
      BY ReadBeatsRange
    <2>2. issued * Beats \in Nat
      BY SizesAssumption, SMT DEF Typed, TypeOK
    <2>3. mrd' \in Mrd
      BY <1>3, <2>1, <2>2, SMT DEF Typed, TypeOK, Offer, Mrd
    <2> QED
      BY <1>3, <2>3, SMT DEF Typed, TypeOK, Offer
  <1>4. ASSUME Prepare(ready) PROVE Rest
    BY <1>4, SMT DEF Typed, TypeOK, Prepare
  <1> QED
    BY <1>0, <1>1, <1>2, <1>3, <1>4 DEF Request

LEMMA AllocateTypes ==
  ASSUME Typed, NEW ready \in BOOLEAN, AllocateTag(ready)
  PROVE  /\ tagWe' \in BOOLEAN /\ wrTag' \in Tag /\ tagCount' \in 0..Tags
         /\ table' \in [Tag -> 0..Beats]
         /\ tagWe' => tagCount' < Tags
  <1>1. ReadBeats \in 0..Beats
    BY ReadBeatsRange, SizesAssumption, SMT
  <1>2. table' \in [Tag -> 0..Beats]
    BY <1>1, SizesAssumption, SMT DEF Typed, TypeOK, AllocateTag
  <1>3. wrTag' \in Tag
    BY NextTag DEF Typed, TypeOK, AllocateTag
  <1>4. tagCount' \in 0..Tags
    BY SizesAssumption, SMT DEF Typed, TypeOK, Margins, AllocateTag
  <1>5. tagWe' \in BOOLEAN
    BY Zenon DEF AllocateTag
  <1>6. ASSUME tagWe' PROVE tagCount' < Tags
    <2>1. ~tagWe /\ tagCount # Tags
      BY <1>6, Zenon DEF AllocateTag, TagWanted, TagFull
    <2> QED
      BY <2>1, SizesAssumption, SMT DEF Typed, TypeOK, AllocateTag
  <1> QED
    BY <1>2, <1>3, <1>4, <1>5, <1>6

LEMMA ReleaseTypes ==
  ASSUME Typed, NEW start \in Nat, ReleaseTag(start)
  PROVE  tagRd' \in BOOLEAN /\ rdptr' \in Tag
  <1>1. rdptr' \in Tag
    BY NextTag DEF Typed, TypeOK, ReleaseTag
  <1>2. tagRd' \in BOOLEAN
    BY Zenon DEF Typed, TypeOK, ReleaseTag
  <1> QED
    BY <1>1, <1>2

LEMMA ReceiveTypes ==
  ASSUME Typed, NEW start \in Nat, NEW cpl \in Tag \cup {None},
         cpl # None => host[cpl] # <<>>, Receive(start, cpl)
  PROVE  /\ recv' \in {"idle", "start"} /\ cplReady' \in BOOLEAN
         /\ cplTotal' \in Nat /\ cplSeen' \in Nat
         /\ cplWrite' \in Write \cup {None}
  <1> DEFINE Rest == /\ recv' \in {"idle", "start"}
                     /\ cplTotal' \in Nat /\ cplSeen' \in Nat
                     /\ cplWrite' \in Write \cup {None}
  <1>0. cplReady' \in BOOLEAN
    BY Zenon DEF Receive
  <1>1. ASSUME recv = "idle" PROVE Rest
    <2>1. recv' = "start" \/ recv' = recv
      BY <1>1, Zenon DEF Receive
    <2>2. cplTotal' = length \/ cplTotal' = 0
      BY <1>1, Zenon DEF Receive, CplTotal
    <2>3. cplSeen' = 0 /\ cplWrite' = None
      BY <1>1, Zenon DEF Receive
    <2> QED
      BY <2>1, <2>2, <2>3, SMTT(30) DEF Typed, TypeOK
  <1>2. ASSUME recv = "start" PROVE Rest
    <2>1. CASE cpl = None
      BY <1>2, <2>1, SMT DEF Typed, TypeOK, Receive
    <2>2. CASE cpl # None
      <3>1. cpl \in Tag /\ host[cpl] \in Seq(Word) /\ host[cpl] # <<>>
        BY <2>2 DEF Typed, TypeOK
      <3>2. Head(host[cpl]) \in Word
        BY <3>1, QueueTail
      <3> QED
        BY <1>2, <2>2, <3>1, <3>2, SMTT(30) DEF Typed, TypeOK, Receive, Write
    <2> QED
      BY <2>1, <2>2
  <1> QED
    BY <1>0, <1>1, <1>2 DEF Typed, TypeOK

LEMMA TagFifosTypes ==
  ASSUME Typed, TagFifos
  PROVE  fifo' \in [Tag -> Seq(Word)]
  <1> SUFFICES ASSUME NEW t \in Tag
      PROVE  (IF Pops(t) THEN Tail(fifo[t]) ELSE fifo[t]) \o Written(t)
                \in Seq(Word)
    BY Zenon DEF TagFifos
  <1>1. fifo[t] \in Seq(Word)
    BY DEF Typed, TypeOK
  <1>2. (IF Pops(t) THEN Tail(fifo[t]) ELSE fifo[t]) \in Seq(Word)
    BY <1>1, QueueTail DEF Pops
  <1>3. Written(t) \in Seq(Word)
    BY SMT DEF Written, Typed, TypeOK, Write
  <1> QED
    BY <1>2, <1>3, QueuePut

LEMMA DrainTypes ==
  ASSUME Typed, NEW start \in Nat, Drain(start)
  PROVE  /\ tr' \in {"idle", "start"} /\ left' \in Nat /\ taken' \in Nat
         /\ rdEn' \in Tag \cup {None}
         /\ tr' = "start" => left' > 0
  <1>1. LeftNext(start) \in Nat
    BY SMT DEF Typed, TypeOK, Margins, LeftNext, Taking
  <1>2. TakenNext \in Nat
    BY SMT DEF Typed, TypeOK, TakenNext
  <1>3. left' \in Nat /\ taken' \in Nat
    BY <1>1, <1>2, Zenon DEF Drain
  <1>4. tr' \in {"idle", "start"}
    BY Zenon DEF Drain
  <1>5. rdEn' \in Tag \cup {None}
    BY Zenon DEF Drain, Typed, TypeOK
  <1>6. ASSUME tr' = "start" PROVE left' > 0
    <2>1. CASE tr = "idle"
      <3>1. Edge(start)
        BY <1>6, <2>1, Zenon DEF Drain
      <3>2. LeftNext(start) = start /\ start > 0
        BY <2>1, <3>1, Zenon DEF LeftNext, Edge
      <3> QED
        BY <3>2 DEF Drain
    <2>2. CASE tr # "idle"
      <3>1. LeftNext(start) # 0
        BY <1>6, <2>2, Zenon DEF Drain
      <3> QED
        BY <1>1, <3>1, SMT DEF Drain
    <2> QED
      BY <2>1, <2>2
  <1> QED
    BY <1>3, <1>4, <1>5, <1>6

LEMMA OutWordType ==
  ASSUME Typed, Taking
  PROVE  OutWord \in Word
  <1>1. rdptr \in Tag /\ fifo[rdptr] \in Seq(Word) /\ fifo[rdptr] # <<>>
    BY DEF Typed, TypeOK, Taking, Pops
  <1>2. Head(fifo[rdptr]) \in Word
    BY <1>1, QueueTail
  <1>3. (left = 1) \in BOOLEAN
    OBVIOUS
  <1> QED
    BY <1>2, <1>3, Zenon DEF OutWord, Word

LEMMA OutputFifoTypes ==
  ASSUME Typed, NEW take \in BOOLEAN, OutputFifo(take)
  PROVE  /\ outFifo' \in Seq(Word) /\ halfFull' \in BOOLEAN
         /\ axis' \in Word \cup {None}
         /\ Len(outFifo') <= Len(outFifo) + 1
         /\ ~Taking => Len(outFifo') <= Len(outFifo)
  <1> DEFINE moves == outFifo # <<>> /\ (axis = None \/ take)
             kept == IF moves THEN Tail(outFifo) ELSE outFifo
             put == IF Taking /\ Len(outFifo) < OutDepth
                      THEN <<OutWord>> ELSE <<>>
  <1>1. outFifo \in Seq(Word) /\ axis \in Word \cup {None}
    BY DEF Typed, TypeOK
  <1>2. kept \in Seq(Word) /\ Len(kept) <= Len(outFifo) /\ Len(kept) \in Nat
    <2>1. CASE moves
      BY <1>1, <2>1, QueueTail, SMT
    <2>2. CASE ~moves
      BY <1>1, <2>2, SMT
    <2> QED
      BY <2>1, <2>2
  <1>3. /\ put \in Seq(Word) /\ Len(put) <= 1 /\ Len(put) \in Nat
        /\ ~Taking => Len(put) = 0
    <2>1. CASE Taking /\ Len(outFifo) < OutDepth
      <3>1. put = <<OutWord>> /\ OutWord \in Word
        BY <2>1, OutWordType, Zenon
      <3> HIDE DEF put
      <3> QED
        BY <2>1, <3>1, SMT
    <2>2. CASE ~(Taking /\ Len(outFifo) < OutDepth)
      <3>1. put = <<>>
        BY <2>2, Zenon
      <3> HIDE DEF put
      <3> QED
        BY <3>1, SMT
    <2> QED
      BY <2>1, <2>2
  <1>4. outFifo' = kept \o put
    BY Zenon DEF OutputFifo
  <1>5. outFifo' \in Seq(Word) /\ Len(outFifo') = Len(kept) + Len(put)
    <2> HIDE DEF kept, put
    <2> QED
      BY <1>2, <1>3, <1>4, QueuePut
  <1>6. Len(outFifo) \in Nat
    BY <1>1, SMT
  <1>7. halfFull' \in BOOLEAN
    <2>1. (Len(outFifo) >= OutHalf) \in BOOLEAN
      OBVIOUS
    <2> QED
      BY <2>1, Zenon DEF OutputFifo
  <1>8. axis' \in Word \cup {None}
    <2>1. CASE moves
      BY <1>1, <2>1, QueueTail, Zenon DEF OutputFifo
    <2>2. CASE ~moves
      BY <1>1, <2>2, Zenon DEF OutputFifo
    <2> QED
      BY <2>1, <2>2
  <1>9. /\ Len(outFifo') <= Len(outFifo) + 1
        /\ ~Taking => Len(outFifo') <= Len(outFifo)
    <2> HIDE DEF kept, put
    <2> QED
      BY <1>2, <1>3, <1>5, <1>6, SMT
  <1> QED
    BY <1>5, <1>7, <1>8, <1>9

LEMMA WordsType ==
  ASSUME NEW k \in Nat, NEW n \in Nat
  PROVE  Stream!Words(k, n) \in Seq(Word)
  <1>1. ASSUME NEW i \in 1..n
        PROVE  [transfer |-> k, index |-> i, last |-> i = n] \in Word
    <2>1. (i = n) \in BOOLEAN /\ i \in Nat
      BY SMT
    <2> QED
      BY <2>1, Zenon DEF Word
  <1>2. Stream!Words(k, n) \in [1..n -> Word]
    BY <1>1, Zenon DEF Stream!Words
  <1> QED
    BY <1>2, SMT

LEMMA ReadWordsType ==
  ASSUME Typed, mrd # None
  PROVE  ReadWords \in Seq(Word)
  <1>1. mrd \in Mrd /\ count \in Nat
    BY DEF Typed, TypeOK
  <1>2. mrd.words \in Nat /\ mrd.first \in Nat
    BY <1>1, SMT DEF Mrd
  <1>3. ASSUME NEW i \in 1..mrd.words
        PROVE  [transfer |-> count, index |-> mrd.first + i, last |-> FALSE]
                  \in Word
    <2>1. mrd.first + i \in Nat
      BY <1>2, SMT
    <2> QED
      BY <1>1, <2>1, Zenon DEF Word
  <1>4. ReadWords \in [1..mrd.words -> Word]
    BY <1>3, Zenon DEF ReadWords
  <1> QED
    BY <1>2, <1>4, SMT

LEMMA EnvironmentTypes ==
  ASSUME Typed, NEW start \in Nat, NEW ready \in BOOLEAN,
         NEW cpl \in Tag \cup {None}, NEW take \in BOOLEAN,
         Environment(start, ready, cpl, take)
  PROVE  /\ host' \in [Tag -> Seq(Word)] /\ got' \in Seq(Word)
         /\ asked' \in Seq(Word) /\ count' \in Nat
  <1>1. host' \in [Tag -> Seq(Word)]
    <2> SUFFICES ASSUME NEW t \in Tag
        PROVE (IF cpl = t THEN Tail(host[t]) ELSE host[t])
                \o (IF Accepted(ready) /\ mrd.tag = t THEN ReadWords ELSE <<>>)
              \in Seq(Word)
      BY Zenon DEF Environment
    <2>1. host[t] \in Seq(Word) /\ <<>> \in Seq(Word)
      BY SMT DEF Typed, TypeOK
    <2>2. cpl = t => host[t] # <<>>
      BY NoneAssumption DEF Environment
    <2>3. (IF cpl = t THEN Tail(host[t]) ELSE host[t]) \in Seq(Word)
      BY <2>1, <2>2, QueueTail
    <2>4. (IF Accepted(ready) /\ mrd.tag = t THEN ReadWords ELSE <<>>)
             \in Seq(Word)
      BY <2>1, ReadWordsType DEF Accepted
    <2> QED
      BY <2>3, <2>4, QueuePut
  <1>2. got' \in Seq(Word)
    BY SMT DEF Environment, Typed, TypeOK
  <1>3. count' \in Nat
    BY SMT DEF Environment, Typed, TypeOK
  <1>4. asked' \in Seq(Word)
    <2>1. count + 1 \in Nat /\ asked \in Seq(Word)
      BY SMT DEF Typed, TypeOK
    <2>2. Stream!Words(count + 1, start) \in Seq(Word)
      BY <2>1, WordsType
    <2>3. asked \o Stream!Words(count + 1, start) \in Seq(Word)
      BY <2>1, <2>2, QueuePut
    <2> QED
      BY <2>1, <2>3, Zenon DEF Environment
  <1> QED
    BY <1>1, <1>2, <1>3, <1>4

LEMMA TypeClock ==
  ASSUME Typed, NEW start \in Nat, NEW ready \in BOOLEAN,
         NEW cpl \in Tag \cup {None}, NEW take \in BOOLEAN,
         Clock(start, ready, cpl, take)
  PROVE  Typed'
  <1>1. /\ Environment(start, ready, cpl, take) /\ Request(start, ready)
        /\ AllocateTag(ready) /\ ReleaseTag(start) /\ Receive(start, cpl)
        /\ TagFifos /\ Drain(start) /\ OutputFifo(take)
    BY DEF Clock
  <1>2. cpl # None => host[cpl] # <<>>
    BY <1>1 DEF Environment
  <1>3. /\ req' \in {"idle", "start"} /\ startReg' \in BOOLEAN
        /\ length' \in Nat /\ reads' \in Nat /\ issued' \in Nat
        /\ mrd' \in Mrd \cup {None}
    BY <1>1, RequestTypes
  <1>4. /\ tagWe' \in BOOLEAN /\ wrTag' \in Tag /\ tagCount' \in 0..Tags
        /\ table' \in [Tag -> 0..Beats]
        /\ tagWe' => tagCount' < Tags
    BY <1>1, AllocateTypes
  <1>5. tagRd' \in BOOLEAN /\ rdptr' \in Tag
    BY <1>1, ReleaseTypes
  <1>6. /\ recv' \in {"idle", "start"} /\ cplReady' \in BOOLEAN
        /\ cplTotal' \in Nat /\ cplSeen' \in Nat
        /\ cplWrite' \in Write \cup {None}
    BY <1>1, <1>2, ReceiveTypes
  <1>7. fifo' \in [Tag -> Seq(Word)]
    BY <1>1, TagFifosTypes
  <1>8. /\ tr' \in {"idle", "start"} /\ left' \in Nat /\ taken' \in Nat
        /\ rdEn' \in Tag \cup {None}
        /\ tr' = "start" => left' > 0
    BY <1>1, DrainTypes
  <1>9. /\ outFifo' \in Seq(Word) /\ halfFull' \in BOOLEAN
        /\ axis' \in Word \cup {None}
    BY <1>1, OutputFifoTypes
  <1>10. /\ host' \in [Tag -> Seq(Word)] /\ got' \in Seq(Word)
         /\ asked' \in Seq(Word) /\ count' \in Nat
    BY <1>1, EnvironmentTypes
  <1> QED
    BY <1>3, <1>4, <1>5, <1>6, <1>7, <1>8, <1>9, <1>10, Zenon
       DEF Typed, TypeOK, Margins

\* A step is a clock edge with inputs of the right types, or changes nothing.
LEMMA TypeStep ==
  ASSUME Typed, [Next]_vars
  PROVE  Typed'
  <1>1. CASE Next
    <2>1. PICK start \in Lengths \cup {0}, ready \in BOOLEAN,
               cpl \in Tag \cup {None}, take \in BOOLEAN :
                 Clock(start, ready, cpl, take)
      BY <1>1 DEF Next
    <2>2. start \in Nat
      BY LengthsAssumption
    <2> QED
      BY <2>1, <2>2, TypeClock
  <1>2. CASE UNCHANGED vars
    <2>1. UNCHANGED <<req, startReg, length, reads, issued, mrd>>
      BY <1>2, Zenon DEF vars, reqVars
    <2>2. UNCHANGED <<tagWe, wrTag, tagCount, table, tagRd, rdptr>>
      BY <1>2, Zenon DEF vars, tagVars
    <2>3. UNCHANGED <<recv, cplReady, cplTotal, cplSeen, cplWrite, fifo>>
      BY <1>2, Zenon DEF vars, recvVars
    <2>4. UNCHANGED <<tr, left, taken, rdEn, outFifo, halfFull, axis>>
      BY <1>2, Zenon DEF vars, outVars
    <2>5. UNCHANGED <<host, asked, got, count>>
      BY <1>2, Zenon DEF vars, envVars
    <2> QED
      BY <2>1, <2>2, <2>3, <2>4, <2>5 DEF Typed, TypeOK, Margins
  <1> QED
    BY <1>1, <1>2

\* The registers keep their types: in particular the tag FIFO's count stays
\* within its depth, and the words left never pass zero.
THEOREM ReadEngineTypes == Spec => []TypeOK
  <1>1. Init => Typed
    BY TypeInit
  <1>2. Typed /\ [Next]_vars => Typed'
    BY TypeStep
  <1>3. Typed => TypeOK
    BY DEF Typed
  <1> QED
    BY <1>1, <1>2, <1>3, PTL DEF Spec

-----------------------------------------------------------------------------
(***************************************************************************)
(* The output FIFO never overflows: half_full is one clock late and a word *)
(* read comes one clock after its enable, so two words may follow the      *)
(* first that makes it half full.                                          *)
(***************************************************************************)

Room ==
  /\ ~halfFull => Len(outFifo) <= OutHalf
  /\ rdEn # None => Len(outFifo) <= OutHalf + 1
  /\ Len(outFifo) <= OutHalf + 2

Safe == Typed /\ Room

LEMMA TakingReads ==
  ASSUME Typed, Taking
  PROVE  rdEn # None
  BY NoneAssumption DEF Typed, TypeOK, Taking, Pops

LEMMA RoomClock ==
  ASSUME Safe, NEW start \in Nat, NEW ready \in BOOLEAN,
         NEW cpl \in Tag \cup {None}, NEW take \in BOOLEAN,
         Clock(start, ready, cpl, take)
  PROVE  Room'
  <1>1. OutputFifo(take) /\ Drain(start) /\ Typed /\ Typed'
    BY TypeClock DEF Safe, Clock
  <1>2. /\ Len(outFifo') <= Len(outFifo) + 1
        /\ ~Taking => Len(outFifo') <= Len(outFifo)
    BY <1>1, OutputFifoTypes
  <1>3. /\ Len(outFifo) \in Nat /\ Len(outFifo') \in Nat
        /\ OutHalf \in Nat
    <2>1. outFifo \in Seq(Word) /\ outFifo' \in Seq(Word)
      BY <1>1 DEF Typed, TypeOK
    <2> QED
      BY <2>1, SizesAssumption, SMT
  <1>4. ASSUME ~halfFull' PROVE Len(outFifo') <= OutHalf
    <2>1. ~(Len(outFifo) >= OutHalf)
      BY <1>1, <1>4, Zenon DEF OutputFifo
    <2> QED
      BY <2>1, <1>2, <1>3, SMT
  <1>5. ASSUME rdEn' # None PROVE Len(outFifo') <= OutHalf + 1
    <2>1. ~halfFull
      BY <1>1, <1>5, Zenon DEF Drain
    <2>2. Len(outFifo) <= OutHalf
      BY <2>1 DEF Safe, Room
    <2> QED
      BY <2>2, <1>2, <1>3, SMT
  <1>6. Len(outFifo') <= OutHalf + 2
    <2>1. CASE Taking
      <3>1. Len(outFifo) <= OutHalf + 1
        BY <1>1, <2>1, TakingReads DEF Safe, Room
      <3> QED
        BY <3>1, <1>2, <1>3, SMT
    <2>2. CASE ~Taking
      <3>1. Len(outFifo) <= OutHalf + 2
        BY DEF Safe, Room
      <3> QED
        BY <2>2, <3>1, <1>2, <1>3, SMT
    <2> QED
      BY <2>1, <2>2
  <1> QED
    BY <1>4, <1>5, <1>6, Zenon DEF Room

LEMMA SafeInit == Init => Safe
  <1> SUFFICES ASSUME Init PROVE Safe
    OBVIOUS
  <1>1. Typed
    BY TypeInit
  <1>2. Len(outFifo) = 0 /\ rdEn = None
    BY SMT DEF Init
  <1> QED
    BY <1>1, <1>2, SizesAssumption, SMT DEF Safe, Room

LEMMA SafeStep ==
  ASSUME Safe, [Next]_vars
  PROVE  Safe'
  <1>1. Typed'
    BY TypeStep DEF Safe
  <1>2. CASE Next
    <2>1. PICK start \in Lengths \cup {0}, ready \in BOOLEAN,
               cpl \in Tag \cup {None}, take \in BOOLEAN :
                 Clock(start, ready, cpl, take)
      BY <1>2 DEF Next
    <2>2. start \in Nat
      BY LengthsAssumption
    <2>3. Room'
      BY <2>1, <2>2, RoomClock
    <2> QED
      BY <1>1, <2>3 DEF Safe
  <1>3. CASE UNCHANGED vars
    <2>1. outFifo' = outFifo /\ halfFull' = halfFull /\ rdEn' = rdEn
      BY <1>3, Zenon DEF vars, outVars
    <2>2. Room'
      BY <2>1, Zenon DEF Safe, Room
    <2> QED
      BY <1>1, <2>2 DEF Safe
  <1> QED
    BY <1>2, <1>3

\* No word the output machine passes on finds the output FIFO full: the room
\* above the half-full mark is two words at least.
THEOREM OutFifoNeverOverflows == Spec => []OutFifoHasRoom
  <1>1. Init => Safe
    BY SafeInit
  <1>2. Safe /\ [Next]_vars => Safe'
    BY SafeStep
  <1>3. Safe => OutFifoHasRoom
    <2> SUFFICES ASSUME Safe, Taking PROVE Len(outFifo) < OutDepth
      BY DEF OutFifoHasRoom
    <2>1. Len(outFifo) <= OutHalf + 1 /\ Len(outFifo) \in Nat
      BY TakingReads, SMT DEF Safe, Room, Typed, TypeOK
    <2> QED
      BY <2>1, SizesAssumption, SMT
  <1> QED
    BY <1>1, <1>2, <1>3, PTL DEF Spec

-----------------------------------------------------------------------------
(***************************************************************************)
(* The inductive invariant of the whole engine.                            *)
(***************************************************************************)

\* Tag t counted from the tag being emptied, and whether a read holds it.
Pos(t) == IF t >= rdptr THEN t - rdptr ELSE (t + Tags) - rdptr
InRing(t) == Pos(t) < tagCount

\* The words kept or owed under a tag, the oldest first: in its FIFO, on its
\* way there, at the host.
Kept(t) == Len(fifo[t])
Arriving(t) == IF cplWrite # None /\ cplWrite.tag = t THEN 1 ELSE 0
Here(t) == Kept(t) + Arriving(t)
Due(t) == Len(host[t])
Size(t) == Here(t) + Due(t)
Item(t, i) ==
  IF i <= Kept(t) THEN fifo[t][i]
  ELSE IF i <= Here(t) THEN cplWrite.word
  ELSE host[t][i - Here(t)]

\* The tag being emptied is about to be released.
Leaving(t) == tagRd /\ t = rdptr

\* Of the last transfer: the words passed on by the output machine, the words
\* the host was asked for, those of them it returned, and where in `asked` the
\* transfer begins.
Drained == length - left
Issued == IF req = "start" THEN issued * Beats ELSE length
Owed(x) == \E t \in Tag : \E i \in 1..Due(t) : host[t][i].index = x
Returned == {x \in 1..Issued : ~Owed(x)}
Base == Len(asked) - length

\* The words between the output machine and the user: how many, and which.
Flying == Len(outFifo) + (IF axis = None THEN 0 ELSE 1)
Flight(j) == IF axis = None THEN outFifo[j] ELSE IF j = 1 THEN axis ELSE outFifo[j - 1]

\* The request machine: a new transfer finds nothing left of the one before.
RequestOK ==
  /\ req = "start" => issued < reads /\ reads = ReadsOf(length) /\ left > 0
  /\ startReg => req = "start" /\ left = length /\ issued = 0 /\ mrd = None /\ ~tagWe
  /\ tagWe => req = "start" /\ mrd = None
  /\ left <= length
  /\ tr = "idle" <=> left = 0

\* The read on the bus is the next one, under the youngest tag, which is empty.
MrdOK ==
  mrd # None =>
    /\ req = "start" /\ mrd.first = issued * Beats /\ mrd.words = ReadBeats
    /\ tagCount > 0 /\ Pos(mrd.tag) = tagCount - 1
    /\ table[mrd.tag] = mrd.words /\ Size(mrd.tag) = 0 /\ ~Leaving(mrd.tag)

\* The tags in use are a stretch of the ring, from rdptr to before wrTag.
RingOK ==
  /\ req = "start" => Pos(wrTag) = IF tagCount = Tags THEN 0 ELSE tagCount
  /\ rdEn # None => rdEn = rdptr /\ tagCount > 0
  /\ tagRd => tagCount > 0 /\ Len(outFifo) >= 1

\* A tag in use has all the words of its read, or those not yet taken when it
\* is the one being emptied, or none any more.
TagOK ==
  \A t \in Tag :
    /\ InRing(t) => table[t] >= 1
    /\ Size(t) > 0 => InRing(t) /\ ~Leaving(t)
    /\ t = rdptr => IF Size(t) > 0 THEN Size(t) + taken = table[t] ELSE taken = 0
    /\ t # rdptr /\ Size(t) > 0 => Size(t) = table[t]

\* The words kept or owed are those asked for and not passed on, each once, in
\* the order of the ring.
Before(t, i, u, j) == Pos(t) < Pos(u) \/ (t = u /\ i < j)
RangeOK ==
  \A t \in Tag : \A i \in 1..Size(t) :
    Item(t, i).transfer = count /\ Item(t, i).index \in Drained + 1..Issued
OrderOK ==
  \A t, u \in Tag : \A i \in 1..Size(t), j \in 1..Size(u) :
    Before(t, i, u, j) => Item(t, i).index < Item(u, j).index
CoverOK ==
  \A x \in Drained + 1..Issued : \E t \in Tag : \E i \in 1..Size(t) : Item(t, i).index = x

\* Once every read is accepted, a tag with no word left has words behind it,
\* until it is released.
GapOK ==
  req = "idle" => \A t \in Tag :
    InRing(t) /\ Size(t) = 0 /\ ~Leaving(t) =>
      \E u \in Tag : Pos(t) < Pos(u) /\ Size(u) > 0

\* The completion machine counts the words returned, and is idle only when
\* none is owed.
ReceiveOK ==
  /\ recv = "start" => /\ cplTotal = length /\ cplSeen < length /\ ~startReg
                       /\ Cardinality(Returned) = cplSeen
  /\ recv = "idle" => (\A t \in Tag : host[t] = <<>>) /\ (req = "start" => startReg)

\* What the user took and what is on the way to him is what was asked for.
StreamOK ==
  /\ Drained <= Issued
  /\ (Len(got) + Flying) + left = Len(asked)
  /\ \A j \in 1..Flying : Flight(j) = asked[Len(got) + j]
  /\ \A q \in 1..Len(got) : got[q] = asked[q]

\* The words of the last transfer are at the end of `asked`.
AskedOK ==
  /\ length <= Len(asked)
  /\ \A x \in 1..length :
       asked[Base + x] = [transfer |-> count, index |-> x, last |-> x = length]
  /\ Stream!Transfers(asked) = count

Inv ==
  /\ Safe /\ RequestOK /\ MrdOK /\ RingOK /\ TagOK /\ RangeOK /\ OrderOK
  /\ CoverOK /\ GapOK /\ ReceiveOK /\ StreamOK /\ AskedOK

-----------------------------------------------------------------------------
(***************************************************************************)
(* Arithmetic of reads and tags.                                           *)
(***************************************************************************)

LEMMA DivMod ==
  ASSUME NEW a \in Nat, NEW n \in Nat \ {0}
  PROVE  a = (n * (a \div n)) + (a % n) /\ a % n \in 0..(n - 1) /\ a \div n \in Nat
  BY SMT

\* The reads before the last are full, and it has the words that remain.
LEMMA ReadsFacts ==
  ASSUME NEW n \in Nat \ {0}
  PROVE  /\ ReadsOf(n) \in Nat \ {0} /\ LastOf(n) \in 1..Beats
         /\ ((ReadsOf(n) - 1) * Beats) + LastOf(n) = n
  <1> DEFINE q == n \div Beats
             r == n % Beats
  <1>1. Beats \in Nat \ {0}
    BY SizesAssumption
  <1>2. n = (Beats * q) + r /\ r \in 0..(Beats - 1) /\ q \in Nat
    BY <1>1, DivMod
  <1>3. /\ ReadsOf(n) = q + (IF r = 0 THEN 0 ELSE 1)
        /\ LastOf(n) = IF r = 0 THEN Beats ELSE r
    BY Zenon DEF ReadsOf, LastOf
  <1> HIDE DEF q, r
  <1>4. CASE r = 0
    <2>1. q # 0
      BY <1>1, <1>2, <1>4, SMT
    <2>2. (q - 1) * Beats = (Beats * q) - Beats
      BY <1>1, <1>2, SMT
    <2> QED
      BY <1>1, <1>2, <1>3, <1>4, <2>1, <2>2, SMT
  <1>5. CASE r # 0
    <2>1. ReadsOf(n) - 1 = q /\ LastOf(n) = r
      BY <1>2, <1>3, <1>5, SMT
    <2>2. (ReadsOf(n) - 1) * Beats = Beats * q
      BY <1>1, <1>2, <2>1, SMT
    <2> QED
      BY <1>1, <1>2, <1>3, <1>5, <2>1, <2>2, SMT
  <1> QED
    BY <1>4, <1>5

\* A product with one factor more.
LEMMA TimesNext ==
  ASSUME NEW k \in Nat
  PROVE  (k + 1) * Beats = (k * Beats) + Beats /\ k * Beats \in Nat
  BY SizesAssumption, SMT

\* A product grows with its factor.
LEMMA TimesMono ==
  ASSUME NEW j \in Nat, NEW k \in Nat, j <= k
  PROVE  j * Beats <= k * Beats
  BY SizesAssumption, SMT

\* The read after k full ones, of a transfer of n words.
LEMMA NextRead ==
  ASSUME NEW n \in Nat \ {0}, NEW k \in Nat, k < ReadsOf(n),
         NEW w, w = IF k = ReadsOf(n) - 1 THEN LastOf(n) ELSE Beats
  PROVE  /\ w \in 1..Beats /\ k * Beats \in Nat /\ (k * Beats) + w <= n
         /\ (k * Beats) + w = IF k + 1 = ReadsOf(n) THEN n ELSE (k + 1) * Beats
  <1>1. /\ ReadsOf(n) \in Nat \ {0} /\ LastOf(n) \in 1..Beats
        /\ ((ReadsOf(n) - 1) * Beats) + LastOf(n) = n
    BY ReadsFacts
  <1>2. k * Beats \in Nat /\ (k + 1) * Beats = (k * Beats) + Beats
    BY TimesNext
  <1>3. CASE k = ReadsOf(n) - 1
    BY <1>1, <1>2, <1>3, SMT
  <1>4. CASE k # ReadsOf(n) - 1
    <2>1. k + 1 <= ReadsOf(n) - 1 /\ ReadsOf(n) - 1 \in Nat /\ k + 1 \in Nat
      BY <1>1, <1>4, SMT
    <2>2. (k + 1) * Beats <= (ReadsOf(n) - 1) * Beats
      BY <2>1, TimesMono
    <2>3. (ReadsOf(n) - 1) * Beats \in Nat
      BY <2>1, TimesNext
    <2> QED
      BY <1>1, <1>2, <1>4, <2>1, <2>2, <2>3, SizesAssumption, SMT
  <1> QED
    BY <1>3, <1>4

\* The tag after t.
Succ(t) == IF t + 1 = Tags THEN 0 ELSE t + 1
LEMMA NextTagIs ==
  ASSUME NEW t \in Tag
  PROVE  (t + 1) % Tags = Succ(t) /\ Succ(t) \in Tag
  BY SizesAssumption, SMT DEF Tag, Succ

\* Tags are told apart by their place in the ring.
LEMMA PosFacts ==
  ASSUME rdptr \in Tag
  PROVE  /\ \A t \in Tag : Pos(t) \in 0..(Tags - 1)
         /\ \A t, u \in Tag : Pos(t) = Pos(u) => t = u
         /\ Pos(rdptr) = 0
         /\ \A t \in Tag : Pos(Succ(t)) = IF Pos(t) + 1 = Tags THEN 0 ELSE Pos(t) + 1
  BY SizesAssumption, SMT DEF Tag, Pos, Succ

\* When rdptr moves on, every tag is one place nearer, and the tag left is last.
LEMMA PosNext ==
  ASSUME rdptr \in Tag, rdptr' = Succ(rdptr)
  PROVE  \A t \in Tag : Pos(t)' = IF t = rdptr THEN Tags - 1 ELSE Pos(t) - 1
  BY SizesAssumption, SMT DEF Tag, Pos, Succ

-----------------------------------------------------------------------------
(***************************************************************************)
(* Queues.                                                                 *)
(***************************************************************************)

\* A queue that gives its head, or not, and takes the words of v behind.
QueueOK(S, s, v, g, r) ==
  /\ r \in Seq(S) /\ Len(r) = (Len(s) - g) + Len(v)
  /\ \A j \in 1..Len(s) - g : r[j] = s[j + g]
  /\ \A j \in 1..Len(v) : r[(Len(s) - g) + j] = v[j]

LEMMA QueueStep ==
  ASSUME NEW S, NEW s \in Seq(S), NEW v \in Seq(S), NEW g \in {0, 1},
         g = 1 => s # <<>>,
         NEW r, r = (IF g = 1 THEN Tail(s) ELSE s) \o v
  PROVE  QueueOK(S, s, v, g, r)
  <1> DEFINE u == IF g = 1 THEN Tail(s) ELSE s
  <1>1. u \in Seq(S) /\ Len(u) = Len(s) - g /\ \A j \in 1..Len(s) - g : u[j] = s[j + g]
    <2>1. CASE g = 1
      BY <2>1
    <2>2. CASE g = 0
      BY <2>2
    <2> QED
      BY <2>1, <2>2
  <1>2. u \in Seq(S) /\ v \in Seq(S) /\ r = u \o v
    BY <1>1
  <1> HIDE DEF u
  <1>3. /\ r \in Seq(S) /\ Len(r) = Len(u) + Len(v)
        /\ \A j \in 1..Len(u) + Len(v) : r[j] = IF j <= Len(u) THEN u[j] ELSE v[j - Len(u)]
    <2>1. /\ u \o v \in Seq(S) /\ Len(u \o v) = Len(u) + Len(v)
          /\ \A j \in 1..Len(u) + Len(v) :
               (u \o v)[j] = IF j <= Len(u) THEN u[j] ELSE v[j - Len(u)]
      BY <1>2, ConcatProperties, Zenon
    <2> QED
      BY <1>2, <2>1, Zenon
  <1>4. Len(u) \in Nat /\ Len(v) \in Nat
    BY <1>2
  <1>5. ASSUME NEW j \in 1..Len(s) - g PROVE r[j] = s[j + g]
    <2>1. j \in 1..Len(u) + Len(v) /\ j <= Len(u)
      BY <1>1, <1>4
    <2>2. r[j] = u[j]
      BY <1>3, <2>1, Zenon
    <2> QED
      BY <1>1, <2>2
  <1>6. ASSUME NEW j \in 1..Len(v) PROVE r[(Len(s) - g) + j] = v[j]
    <2>1. /\ Len(u) + j \in 1..Len(u) + Len(v) /\ ~(Len(u) + j <= Len(u))
          /\ (Len(u) + j) - Len(u) = j
      BY <1>4
    <2>2. r[Len(u) + j] = v[(Len(u) + j) - Len(u)]
      BY <1>3, <2>1, Zenon
    <2> QED
      BY <1>1, <2>1, <2>2
  <1> QED
    BY <1>1, <1>3, <1>5, <1>6, Zenon DEF QueueOK

\* One clock: the oldest word goes out if the user takes it (d), the word the
\* output machine passes on (g) comes in behind the others, and the words
\* between stay in order.
Sends(take) == axis # None /\ take
Flow(d, g) ==
  /\ outFifo' \in Seq(Word) /\ axis' \in Word \cup {None}
  /\ Len(outFifo') <= Len(outFifo) + g
  /\ Flying \in Nat /\ Flying' = (Flying - d) + g
  /\ \A j \in 1..Flying - d : Flight(j)' = Flight(j + d)
  /\ g = 1 => Flight(Flying)' = OutWord
  /\ d = 1 => axis \in Word /\ Flying >= 1 /\ Flight(1) = axis
  /\ \A j \in 1..Flying : Flight(j) \in Word

LEMMA FlyStep ==
  ASSUME NEW take \in BOOLEAN, OutputFifo(take),
         outFifo \in Seq(Word), axis \in Word \cup {None},
         Taking => Len(outFifo) < OutDepth,
         NEW d \in {0, 1}, d = 1 <=> Sends(take),
         NEW g \in {0, 1}, g = 1 <=> Taking,
         g = 1 => OutWord \in Word
  PROVE  Flow(d, g)
  <1> USE DEF Flow
  <1> DEFINE moves == outFifo # <<>> /\ (axis = None \/ take)
             m == IF moves THEN 1 ELSE 0
  <1>1. /\ axis' = IF moves THEN Head(outFifo) ELSE IF take THEN None ELSE axis
        /\ outFifo' = (IF moves THEN Tail(outFifo) ELSE outFifo)
                      \o (IF Taking /\ Len(outFifo) < OutDepth THEN <<OutWord>> ELSE <<>>)
    BY DEF OutputFifo
  <1>2. m \in {0, 1} /\ (m = 1 <=> moves)
    OBVIOUS
  <1> HIDE DEF m
  <1>3. outFifo' = (IF m = 1 THEN Tail(outFifo) ELSE outFifo)
                   \o (IF g = 1 THEN <<OutWord>> ELSE <<>>)
    BY <1>1, <1>2
  <1>4. m = 1 => outFifo # <<>>
    BY <1>2
  <1>6. /\ outFifo' \in Seq(Word) /\ Len(outFifo') = (Len(outFifo) - m) + g
        /\ \A j \in 1..Len(outFifo) - m : outFifo'[j] = outFifo[j + m]
        /\ g = 1 => outFifo'[Len(outFifo')] = OutWord
    <2> DEFINE v == IF g = 1 THEN <<OutWord>> ELSE <<>>
    <2>1. v \in Seq(Word) /\ Len(v) = g /\ (g = 1 => v[1] = OutWord)
      <3>1. CASE g = 1
        <4>1. v = <<OutWord>>
          BY <3>1
        <4> QED
          BY <3>1, <4>1
      <3>2. CASE g = 0
        <4>1. v = <<>>
          BY <3>2
        <4> QED
          BY <3>2, <4>1
      <3> QED
        BY <3>1, <3>2
    <2>2. outFifo' = (IF m = 1 THEN Tail(outFifo) ELSE outFifo) \o v
      BY <1>3, Zenon
    <2> HIDE DEF v
    <2>3. QueueOK(Word, outFifo, v, m, outFifo')
      BY <1>2, <1>4, <2>1, <2>2, QueueStep
    <2>4. /\ outFifo' \in Seq(Word) /\ Len(outFifo') = (Len(outFifo) - m) + g
          /\ \A j \in 1..Len(outFifo) - m : outFifo'[j] = outFifo[j + m]
          /\ \A j \in 1..g : outFifo'[(Len(outFifo) - m) + j] = v[j]
      BY <2>1, <2>3, Zenon DEF QueueOK
    <2>5. ASSUME g = 1 PROVE outFifo'[Len(outFifo')] = OutWord
      BY <2>1, <2>4, <2>5
    <2> QED
      BY <2>4, <2>5
  <1>7. Len(outFifo) \in Nat /\ (outFifo # <<>> => Len(outFifo) >= 1 /\ Head(outFifo) = outFifo[1]
                                                  /\ outFifo[1] \in Word)
    OBVIOUS
  <1>8. (outFifo = <<>> => Len(outFifo) = 0)
    OBVIOUS
  <1>10. /\ Len(outFifo) \in Nat /\ Len(outFifo') \in Nat
        /\ Len(outFifo') = (Len(outFifo) - m) + g /\ (m = 0 \/ m = 1) /\ (g = 0 \/ g = 1)
    BY <1>2, <1>6, <1>7
  <1>9. CASE moves /\ axis = None
    <2>1. d = 0 /\ m = 1 /\ axis' = outFifo[1] /\ axis' \in Word /\ axis' # None /\ outFifo # <<>>
      BY <1>1, <1>2, <1>7, <1>9, NoneAssumption DEF Sends
    <2>2. Flying = Len(outFifo) /\ Flying' = Len(outFifo') + 1 /\ Flying \in Nat
      BY <1>7, <1>9, <2>1 DEF Flying
    <2>3. \A j : Flight(j) = outFifo[j]
      BY <1>9 DEF Flight
    <2>4. \A j : Flight(j)' = IF j = 1 THEN outFifo[1] ELSE outFifo'[j - 1]
      BY <2>1 DEF Flight
    <2>5. \A j \in 1..Flying - d : Flight(j)' = Flight(j + d)
      <3> SUFFICES ASSUME NEW j \in 1..Len(outFifo) PROVE Flight(j)' = Flight(j)
        BY <1>7, <2>1, <2>2
      <3>1. CASE j = 1
        BY <2>3, <2>4, <3>1
      <3>2. CASE j # 1
        <4>1. j - 1 \in 1..Len(outFifo) - m /\ (j - 1) + m = j
          BY <1>7, <2>1, <3>2
        <4> QED
          BY <1>6, <2>3, <2>4, <3>2, <4>1
      <3> QED
        BY <3>1, <3>2
    <2>6. Flying' = (Flying - d) + g
      BY <1>10, <2>1, <2>2
    <2>7. ASSUME g = 1 PROVE Flight(Flying)' = OutWord
      <3>1. Flying' # 1 /\ Flying' - 1 = Len(outFifo')
        BY <1>10, <2>1, <2>2, <2>7
      <3> QED
        BY <1>6, <2>4, <2>7, <3>1
    <2>8. \A j \in 1..Flying : Flight(j) \in Word
      BY <2>2, <2>3
    <2>9. ~Sends(take)
      BY <1>9 DEF Sends
    <2> QED
      BY <1>2, <1>6, <1>7, <2>1, <2>2, <2>5, <2>6, <2>7, <2>8, <2>9
  <1>11. CASE moves /\ axis # None
    <2>1. take /\ Sends(take) /\ d = 1 /\ m = 1 /\ axis \in Word /\ outFifo # <<>>
      BY <1>2, <1>11 DEF Sends
    <2>2. axis' = outFifo[1] /\ axis' \in Word /\ axis' # None
      BY <1>1, <1>7, <1>11, NoneAssumption
    <2>3. Flying = Len(outFifo) + 1 /\ Flying' = Len(outFifo') + 1 /\ Flying \in Nat
      BY <1>7, <1>11, <2>2 DEF Flying
    <2>4. \A j : Flight(j) = IF j = 1 THEN axis ELSE outFifo[j - 1]
      BY <1>11 DEF Flight
    <2>5. \A j : Flight(j)' = IF j = 1 THEN outFifo[1] ELSE outFifo'[j - 1]
      BY <2>2 DEF Flight
    <2>6. \A j \in 1..Flying - d : Flight(j)' = Flight(j + d)
      <3> SUFFICES ASSUME NEW j \in 1..Len(outFifo) PROVE Flight(j)' = Flight(j + 1)
        BY <1>7, <2>1, <2>3
      <3>1. j + 1 # 1 /\ (j + 1) - 1 = j
        OBVIOUS
      <3>2. Flight(j + 1) = outFifo[j]
        BY <2>4, <3>1
      <3>3. CASE j = 1
        BY <2>5, <3>2, <3>3
      <3>4. CASE j # 1
        <4>1. j - 1 \in 1..Len(outFifo) - m /\ (j - 1) + m = j
          BY <1>7, <2>1, <3>4
        <4> QED
          BY <1>6, <2>5, <3>2, <3>4, <4>1
      <3> QED
        BY <3>3, <3>4
    <2>7. Flying' = (Flying - d) + g
      BY <1>10, <2>1, <2>3
    <2>8. ASSUME g = 1 PROVE Flight(Flying)' = OutWord
      <3>1. Flying' # 1 /\ Flying' - 1 = Len(outFifo')
        BY <1>10, <2>1, <2>3, <2>8, <1>7
      <3> QED
        BY <1>6, <2>5, <2>8, <3>1
    <2>9. \A j \in 1..Flying : Flight(j) \in Word
      <3> SUFFICES ASSUME NEW j \in 1..Flying PROVE Flight(j) \in Word
        OBVIOUS
      <3>1. j = 1 \/ j - 1 \in 1..Len(outFifo)
        BY <1>7, <2>3
      <3> QED
        BY <2>1, <2>4, <3>1
    <2>10. Flying >= 1 /\ Flight(1) = axis
      BY <1>7, <2>3, <2>4
    <2> QED
      BY <1>6, <1>10, <2>1, <2>2, <2>3, <2>6, <2>7, <2>8, <2>9, <2>10
  <1>12. CASE ~moves /\ axis # None /\ take
    <2>1. Sends(take) /\ d = 1 /\ m = 0 /\ axis \in Word /\ outFifo = <<>> /\ Len(outFifo) = 0
      BY <1>2, <1>8, <1>12 DEF Sends
    <2>2. axis' = None
      BY <1>1, <1>12
    <2>3. Flying = 1 /\ Flying' = Len(outFifo')
      BY <1>10, <1>12, <2>1, <2>2 DEF Flying
    <2>4. Flight(1) = axis /\ \A j : Flight(j)' = outFifo'[j]
      BY <1>12, <2>2 DEF Flight
    <2>5. Flying' = (Flying - d) + g
      BY <1>10, <2>1, <2>3
    <2>6. g = 1 => Flight(Flying)' = OutWord
      BY <1>6, <2>3, <2>4
    <2>7. \A j \in 1..Flying : Flight(j) \in Word
      BY <2>1, <2>3, <2>4
    <2> QED
      BY <1>6, <1>10, <2>1, <2>2, <2>3, <2>4, <2>5, <2>6, <2>7
  <1>13. CASE ~moves /\ axis # None /\ ~take
    <2>1. ~Sends(take) /\ d = 0 /\ m = 0 /\ axis \in Word /\ axis' = axis
      BY <1>1, <1>2, <1>13 DEF Sends
    <2>2. Flying = Len(outFifo) + 1 /\ Flying' = Len(outFifo') + 1 /\ Flying \in Nat
      BY <1>7, <1>13, <2>1 DEF Flying
    <2>3. \A j : Flight(j) = IF j = 1 THEN axis ELSE outFifo[j - 1]
      BY <1>13 DEF Flight
    <2>4. \A j : Flight(j)' = IF j = 1 THEN axis ELSE outFifo'[j - 1]
      BY <1>13, <2>1 DEF Flight
    <2>5. \A j \in 1..Flying - d : Flight(j)' = Flight(j + d)
      <3> SUFFICES ASSUME NEW j \in 1..Len(outFifo) + 1 PROVE Flight(j)' = Flight(j)
        BY <1>7, <2>1, <2>2
      <3>1. CASE j = 1
        BY <2>3, <2>4, <3>1
      <3>2. CASE j # 1
        <4>1. j - 1 \in 1..Len(outFifo) - m /\ (j - 1) + m = j - 1
          BY <1>7, <2>1, <3>2
        <4> QED
          BY <1>6, <2>3, <2>4, <3>2, <4>1
      <3> QED
        BY <3>1, <3>2
    <2>6. Flying' = (Flying - d) + g
      BY <1>10, <2>1, <2>2
    <2>7. ASSUME g = 1 PROVE Flight(Flying)' = OutWord
      <3>1. Flying' # 1 /\ Flying' - 1 = Len(outFifo')
        BY <1>10, <2>1, <2>2, <2>7
      <3> QED
        BY <1>6, <2>4, <2>7, <3>1
    <2>8. \A j \in 1..Flying : Flight(j) \in Word
      <3> SUFFICES ASSUME NEW j \in 1..Flying PROVE Flight(j) \in Word
        OBVIOUS
      <3>1. j = 1 \/ j - 1 \in 1..Len(outFifo)
        BY <1>7, <2>2
      <3> QED
        BY <2>1, <2>3, <3>1
    <2> QED
      BY <1>6, <1>10, <2>1, <2>2, <2>5, <2>6, <2>7, <2>8
  <1>14. CASE ~moves /\ axis = None
    <2>1. ~Sends(take) /\ d = 0 /\ m = 0 /\ outFifo = <<>> /\ Len(outFifo) = 0 /\ axis' = None
      BY <1>1, <1>2, <1>8, <1>14 DEF Sends
    <2>2. Flying = 0 /\ Flying' = Len(outFifo')
      BY <1>10, <1>14, <2>1 DEF Flying
    <2>3. \A j : Flight(j)' = outFifo'[j]
      BY <2>1 DEF Flight
    <2>4. Flying' = (Flying - d) + g
      BY <1>10, <2>1, <2>2
    <2>5. g = 1 => Flight(Flying)' = OutWord
      BY <1>6, <2>2, <2>3
    <2> QED
      BY <1>6, <1>10, <2>1, <2>2, <2>3, <2>4, <2>5
  <1> QED
    BY <1>9, <1>11, <1>12, <1>13, <1>14

-----------------------------------------------------------------------------
(***************************************************************************)
(* The words under the tags.                                               *)
(***************************************************************************)

LEMMA SizeTypes ==
  ASSUME Typed, NEW t \in Tag
  PROVE  /\ fifo[t] \in Seq(Word) /\ Kept(t) \in Nat
         /\ host[t] \in Seq(Word) /\ Due(t) \in Nat
         /\ Arriving(t) \in {0, 1} /\ Here(t) \in Nat /\ Size(t) \in Nat
         /\ Arriving(t) = 1 => cplWrite \in Write /\ cplWrite.tag = t
         /\ \A i \in 1..Size(t) : Item(t, i) \in Word
  <1>1. fifo[t] \in Seq(Word) /\ host[t] \in Seq(Word) /\ cplWrite \in Write \cup {None}
    BY DEF Typed, TypeOK
  <1>2. Kept(t) \in Nat /\ Due(t) \in Nat
    BY <1>1 DEF Kept, Due
  <1>3. Arriving(t) \in {0, 1} /\ (Arriving(t) = 1 => cplWrite \in Write /\ cplWrite.tag = t)
    BY <1>1 DEF Arriving
  <1>4. Here(t) \in Nat /\ Size(t) \in Nat
    BY <1>2, <1>3, SMT DEF Here, Size
  <1>5. ASSUME NEW i \in 1..Size(t) PROVE Item(t, i) \in Word
    <2>1. CASE i <= Kept(t)
      BY <1>1, <1>2, <1>4, <2>1, SMT DEF Item, Kept
    <2>2. CASE ~(i <= Kept(t)) /\ i <= Here(t)
      <3>1. Arriving(t) = 1
        BY <1>2, <1>3, <1>4, <2>2, SMT DEF Here
      <3>2. cplWrite.word \in Word
        BY <1>3, <3>1 DEF Write
      <3> QED
        BY <2>2, <3>2 DEF Item
    <2>3. CASE ~(i <= Kept(t)) /\ ~(i <= Here(t))
      <3>1. i - Here(t) \in 1..Due(t)
        BY <1>2, <1>3, <1>4, <2>3, SMT DEF Size
      <3> QED
        BY <1>1, <2>3, <3>1 DEF Item, Due
    <2> QED
      BY <2>1, <2>2, <2>3
  <1> QED
    BY <1>1, <1>2, <1>3, <1>4, <1>5

\* The engine holds no more words under a tag than its table says, which is no
\* more than its FIFO takes.
LEMMA SizeBound ==
  ASSUME Inv, NEW t \in Tag
  PROVE  Size(t) <= table[t] \/ Size(t) = 0
  <1>1. Typed
    BY DEF Inv, Safe
  <1>2. Size(t) \in Nat /\ taken \in Nat /\ table[t] \in 0..Beats
    BY <1>1, SizeTypes DEF Typed, TypeOK
  <1>3. CASE t = rdptr
    BY <1>2, <1>3, SMT DEF Inv, TagOK
  <1>4. CASE t # rdptr
    BY <1>2, <1>4, SMT DEF Inv, TagOK
  <1> QED
    BY <1>3, <1>4

LEMMA HasRoom ==
  ASSUME Inv
  PROVE  TagFifoHasRoom
  <1> SUFFICES ASSUME cplWrite # None PROVE Len(fifo[cplWrite.tag]) < TagDepth
    BY DEF TagFifoHasRoom
  <1>1. Typed
    BY DEF Inv, Safe
  <1>2. cplWrite \in Write
    BY <1>1 DEF Typed, TypeOK
  <1>3. PICK t \in Tag : t = cplWrite.tag
    BY <1>2 DEF Write
  <1>4. Arriving(t) = 1
    BY <1>3 DEF Arriving
  <1>5. /\ Kept(t) \in Nat /\ Due(t) \in Nat /\ Size(t) \in Nat
        /\ Size(t) = (Kept(t) + 1) + Due(t)
    BY <1>1, <1>3, <1>4, SizeTypes, Zenon DEF Size, Here
  <1>6. Size(t) <= table[t] \/ Size(t) = 0
    BY <1>3, SizeBound
  <1>7. table[t] \in 0..Beats
    BY <1>1, <1>3 DEF Typed, TypeOK
  <1>8. Kept(t) < TagDepth
    BY <1>5, <1>6, <1>7, SizesAssumption, SMT
  <1> QED
    BY <1>3, <1>8 DEF Kept

\* The words are told apart by their index.
LEMMA OneWord ==
  ASSUME Inv, NEW t \in Tag, NEW u \in Tag, NEW i \in 1..Size(t), NEW j \in 1..Size(u),
         Item(t, i).index = Item(u, j).index
  PROVE  t = u /\ i = j
  <1>1. Typed /\ rdptr \in Tag
    BY DEF Inv, Safe, Typed, TypeOK
  <1>2. /\ Size(t) \in Nat /\ Size(u) \in Nat
        /\ Item(t, i) \in Word /\ Item(u, j) \in Word
    BY <1>1, SizeTypes
  <1>3. Item(t, i).index \in Nat /\ Item(u, j).index \in Nat
    BY <1>2 DEF Word
  <1>4. ~Before(t, i, u, j) /\ ~Before(u, j, t, i)
    <2>1. /\ Before(t, i, u, j) => Item(t, i).index < Item(u, j).index
          /\ Before(u, j, t, i) => Item(u, j).index < Item(t, i).index
      BY DEF Inv, OrderOK
    <2> QED
      BY <1>3, <2>1, SMT
  <1>5. Pos(t) \in 0..(Tags - 1) /\ Pos(u) \in 0..(Tags - 1) /\ (Pos(t) = Pos(u) => t = u)
    BY <1>1, PosFacts
  <1>6. t = u
    BY <1>4, <1>5, SizesAssumption, SMT DEF Before
  <1>7. ~(i < j) /\ ~(j < i)
    BY <1>4, <1>6 DEF Before
  <1> QED
    BY <1>2, <1>6, <1>7, SMT

\* The first word of the tag being emptied is the next of the transfer.
LEMMA FirstWord ==
  ASSUME Inv, Size(rdptr) > 0
  PROVE  /\ Item(rdptr, 1) \in Word /\ Item(rdptr, 1).transfer = count
         /\ Item(rdptr, 1).index = Drained + 1 /\ Drained \in Nat /\ Drained < Issued
         /\ Issued \in Nat
  <1>1. Typed /\ rdptr \in Tag /\ left \in Nat /\ length \in Nat /\ issued \in Nat
    BY DEF Inv, Safe, Typed, TypeOK
  <1>2. Size(rdptr) \in Nat /\ 1 \in 1..Size(rdptr)
    <2>1. Size(rdptr) \in Nat
      BY <1>1, SizeTypes
    <2> QED
      BY <2>1, SMT
  <1>3. Drained \in Nat /\ Issued \in Nat
    <2>1. issued * Beats \in Nat
      BY <1>1, TimesNext
    <2> QED
      BY <1>1, <2>1, SMT DEF Drained, Issued, Inv, RequestOK
  <1> DEFINE x == Item(rdptr, 1).index
  <1>4. x \in Drained + 1..Issued /\ Item(rdptr, 1).transfer = count
    BY <1>1, <1>2 DEF Inv, RangeOK
  <1>5. Item(rdptr, 1) \in Word
    BY <1>1, <1>2, SizeTypes
  <1> HIDE DEF x
  <1>6. Drained + 1 \in Drained + 1..Issued
    BY <1>3, <1>4, SMT
  <1>7. PICK t \in Tag : \E i \in 1..Size(t) : Item(t, i).index = Drained + 1
    BY <1>6 DEF Inv, CoverOK
  <1>8. PICK i \in 1..Size(t) : Item(t, i).index = Drained + 1
    BY <1>7
  <1>9. ~Before(rdptr, 1, t, i)
    <2>1. Before(rdptr, 1, t, i) => x < Drained + 1
      BY <1>1, <1>2, <1>8, Zenon DEF Inv, OrderOK, x
    <2> QED
      BY <1>3, <1>4, <2>1, SMT
  <1>10. Pos(rdptr) = 0 /\ Pos(t) \in 0..(Tags - 1) /\ (Pos(t) = 0 => t = rdptr)
    BY <1>1, PosFacts
  <1>11. t = rdptr
    BY <1>9, <1>10, SizesAssumption, SMT DEF Before
  <1>12. i = 1
    <2>1. ~(1 < i)
      BY <1>9, <1>11 DEF Before
    <2>2. Size(t) \in Nat
      BY <1>1, SizeTypes
    <2> QED
      BY <1>8, <2>1, <2>2, SMT
  <1> QED
    BY <1>3, <1>4, <1>5, <1>8, <1>11, <1>12, SMT DEF x

\* The FIFO that gives a word is that of the tag being emptied, and the output
\* machine passes the word on.
LEMMA Popping ==
  ASSUME Inv, NEW t \in Tag
  PROVE  /\ Pops(t) => t = rdptr /\ Taking
         /\ t = rdptr /\ Taking => Pops(t)
         /\ Pops(t) => fifo[t] # <<>> /\ Size(t) > 0 /\ Item(t, 1) = Head(fifo[t])
  <1>1. Typed /\ rdptr \in Tag /\ left \in Nat /\ length \in Nat /\ tr \in {"idle", "start"}
    BY DEF Inv, Safe, Typed, TypeOK
  <1>2. ASSUME Pops(t)
        PROVE  t = rdptr /\ Taking /\ fifo[t] # <<>> /\ Size(t) > 0 /\ Item(t, 1) = Head(fifo[t])
    <2>1. rdEn = t /\ fifo[t] # <<>>
      BY <1>2 DEF Pops
    <2>2. t = rdptr
      BY <2>1, NoneAssumption DEF Inv, RingOK
    <2>3. fifo[t] \in Seq(Word) /\ Here(t) \in Nat /\ Arriving(t) \in {0, 1} /\ Due(t) \in Nat
      BY <1>1, SizeTypes
    <2>4. Kept(t) > 0 /\ Head(fifo[t]) = fifo[t][1] /\ Kept(t) \in Nat
      BY <2>1, <2>3 DEF Kept
    <2>5. Size(t) > 0 /\ Item(t, 1) = fifo[t][1]
      BY <2>3, <2>4, SMT DEF Size, Here, Item
    <2>6. Drained \in Nat /\ Drained < Issued /\ Issued \in Nat
      BY <2>2, <2>5, FirstWord
    <2>7. tr = "start"
      <3>1. left # 0
        <4>1. CASE req = "start"
          BY <4>1 DEF Inv, RequestOK
        <4>2. CASE req # "start"
          BY <1>1, <2>6, <4>2, SMT DEF Drained, Issued
        <4> QED
          BY <4>1, <4>2
      <3> QED
        BY <1>1, <3>1 DEF Inv, RequestOK
    <2> QED
      BY <1>2, <2>1, <2>2, <2>4, <2>5, <2>7 DEF Taking
  <1>3. t = rdptr /\ Taking => Pops(t)
    BY DEF Taking
  <1> QED
    BY <1>2, <1>3

-----------------------------------------------------------------------------
(***************************************************************************)
(* The words under the tags, from one clock to the next.                   *)
(***************************************************************************)

\* A clock that passes on g words and accepts a read of n words.
Tick(start, ready, cpl, take, g, n) ==
  /\ Inv /\ Clock(start, ready, cpl, take) /\ Inputs(start, ready, cpl, take)
  /\ g \in {0, 1} /\ (g = 1 <=> Taking)
  /\ n = IF Accepted(ready) THEN mrd.words ELSE 0

\* Of them, the words that leave tag t and those asked for under it; and the
\* words that arrive from the host under it.
Gone(t, g) == IF t = rdptr THEN g ELSE 0
New(t, n) == IF mrd # None /\ mrd.tag = t THEN n ELSE 0
Come(t, cpl) == IF cpl = t THEN 1 ELSE 0

LEMMA TickFacts ==
  ASSUME NEW start, NEW ready, NEW cpl, NEW take, NEW g, NEW n,
         Tick(start, ready, cpl, take, g, n)
  PROVE  /\ Inv /\ Typed /\ Typed' /\ Room'
         /\ start \in Nat /\ ready \in BOOLEAN /\ cpl \in Tag \cup {None} /\ take \in BOOLEAN
         /\ g \in {0, 1} /\ (g = 1 <=> Taking) /\ n \in Nat
         /\ n = IF Accepted(ready) THEN mrd.words ELSE 0
         /\ Environment(start, ready, cpl, take) /\ Request(start, ready)
         /\ AllocateTag(ready) /\ ReleaseTag(start) /\ Receive(start, cpl)
         /\ TagFifos /\ Drain(start) /\ OutputFifo(take)
  <1>1. Inv /\ Safe /\ Typed /\ Clock(start, ready, cpl, take)
    BY DEF Tick, Inv, Safe
  <1>2. start \in Nat /\ ready \in BOOLEAN /\ cpl \in Tag \cup {None} /\ take \in BOOLEAN
    BY DEF Tick, Inputs
  <1>3. Typed' /\ Room'
    BY <1>1, <1>2, TypeClock, RoomClock
  <1>4. n \in Nat
    <2>1. Accepted(ready) => mrd \in Mrd
      BY <1>1 DEF Accepted, Typed, TypeOK
    <2> QED
      BY <2>1, SMT DEF Tick, Mrd
  <1>5. /\ g \in {0, 1} /\ (g = 1 <=> Taking)
        /\ n = IF Accepted(ready) THEN mrd.words ELSE 0
    BY DEF Tick
  <1>6. /\ Environment(start, ready, cpl, take) /\ Request(start, ready)
        /\ AllocateTag(ready) /\ ReleaseTag(start) /\ Receive(start, cpl)
        /\ TagFifos /\ Drain(start) /\ OutputFifo(take)
    BY <1>1 DEF Clock
  <1> QED
    BY <1>1, <1>2, <1>3, <1>4, <1>5, <1>6

\* A word comes only to a completion machine that waits for it.
LEMMA Coming ==
  ASSUME NEW start, NEW ready, NEW cpl, NEW take, NEW g, NEW n,
         Tick(start, ready, cpl, take, g, n)
  PROVE  /\ cpl # None => /\ cpl \in Tag /\ recv = "start" /\ host[cpl] # <<>>
                          /\ Due(cpl) >= 1 /\ Due(cpl) \in Nat
                          /\ Head(host[cpl]) = host[cpl][1] /\ host[cpl][1] \in Word
                          /\ cplWrite' # None /\ cplWrite'.tag = cpl
                          /\ cplWrite'.word = Head(host[cpl])
         /\ cpl = None => cplWrite' = None
         /\ \A t \in Tag : Arriving(t)' = Come(t, cpl)
  <1>1. /\ Typed /\ Inv /\ Receive(start, cpl) /\ Environment(start, ready, cpl, take)
        /\ cpl \in Tag \cup {None} /\ recv \in {"idle", "start"}
    BY TickFacts DEF Typed, TypeOK
  <1>2. ASSUME cpl # None
        PROVE  /\ cpl \in Tag /\ recv = "start" /\ host[cpl] # <<>>
               /\ Due(cpl) >= 1 /\ Due(cpl) \in Nat
               /\ Head(host[cpl]) = host[cpl][1] /\ host[cpl][1] \in Word
               /\ cplWrite' # None /\ cplWrite'.tag = cpl
               /\ cplWrite'.word = Head(host[cpl])
    <2>1. cpl \in Tag /\ host[cpl] # <<>>
      BY <1>1, <1>2 DEF Environment
    <2>2. recv = "start"
      BY <1>1, <2>1 DEF Inv, ReceiveOK
    <2>3. cplWrite' = [tag |-> cpl, word |-> Head(host[cpl])]
      BY <1>1, <1>2, <2>2, Zenon DEF Receive
    <2>4. host[cpl] \in Seq(Word)
      BY <1>1, <2>1, SizeTypes
    <2>5. /\ Head(host[cpl]) = host[cpl][1] /\ host[cpl][1] \in Word
          /\ Due(cpl) \in Nat /\ Due(cpl) >= 1
      BY <2>1, <2>4 DEF Due
    <2>6. cplWrite' \in Write
      BY <2>1, <2>3, <2>5 DEF Write
    <2>7. cplWrite' # None
      BY <2>6, NoneAssumption
    <2> QED
      BY <2>1, <2>2, <2>3, <2>5, <2>7
  <1>3. ASSUME cpl = None PROVE cplWrite' = None
    BY <1>1, <1>3, Zenon DEF Receive
  <1>4. ASSUME NEW t \in Tag PROVE Arriving(t)' = Come(t, cpl)
    <2>1. CASE cpl = None
      BY <1>3, <2>1, NoneAssumption DEF Arriving, Come
    <2>2. CASE cpl # None
      BY <1>2, <2>2 DEF Arriving, Come
    <2> QED
      BY <2>1, <2>2
  <1> QED
    BY <1>2, <1>3, <1>4

\* The FIFO of a tag gives its oldest word and takes the one that arrives.
LEMMA FifoFlow ==
  ASSUME NEW start, NEW ready, NEW cpl, NEW take, NEW g, NEW n,
         Tick(start, ready, cpl, take, g, n), NEW t \in Tag
  PROVE  /\ Gone(t, g) \in {0, 1} /\ Gone(t, g) <= Kept(t)
         /\ Kept(t)' = (Kept(t) - Gone(t, g)) + Arriving(t)
         /\ \A j \in 1..Kept(t) - Gone(t, g) : fifo'[t][j] = fifo[t][j + Gone(t, g)]
         /\ \A j \in 1..Arriving(t) : fifo'[t][(Kept(t) - Gone(t, g)) + j] = cplWrite.word
  <1> DEFINE e == Gone(t, g)
             a == Arriving(t)
  <1>1. Inv /\ Typed /\ TagFifos /\ g \in {0, 1} /\ (g = 1 <=> Taking)
    BY TickFacts
  <1>2. /\ fifo[t] \in Seq(Word) /\ a \in {0, 1} /\ Kept(t) \in Nat
        /\ (a = 1 => cplWrite \in Write /\ cplWrite.tag = t)
    BY <1>1, SizeTypes
  <1>3. e \in {0, 1}
    BY <1>1 DEF Gone
  <1>4. (e = 1 => Pops(t)) /\ (Pops(t) => e = 1) /\ (Pops(t) => fifo[t] # <<>>)
    BY <1>1, Popping DEF Gone
  <1>5. Written(t) = IF a = 1 THEN <<cplWrite.word>> ELSE <<>>
    <2>1. CASE cplWrite # None /\ cplWrite.tag = t
      <3>1. Len(fifo[t]) < TagDepth
        BY <1>1, <2>1, HasRoom DEF TagFifoHasRoom
      <3> QED
        BY <2>1, <3>1 DEF Written, Arriving
    <2>2. CASE ~(cplWrite # None /\ cplWrite.tag = t)
      BY <2>2 DEF Written, Arriving
    <2> QED
      BY <2>1, <2>2
  <1>6. fifo'[t] = (IF e = 1 THEN Tail(fifo[t]) ELSE fifo[t]) \o Written(t)
    <2>1. fifo'[t] = (IF Pops(t) THEN Tail(fifo[t]) ELSE fifo[t]) \o Written(t)
      BY Zenon, <1>1 DEF TagFifos
    <2> QED
      BY <1>4, <2>1, Zenon
  <1> HIDE DEF e, a
  <1>7. Written(t) \in Seq(Word) /\ Len(Written(t)) = a /\ (a = 1 => Written(t)[1] = cplWrite.word)
    <2>1. CASE a = 1
      <3>1. Written(t) = <<cplWrite.word>> /\ cplWrite.word \in Word
        BY <1>2, <1>5, <2>1 DEF Write
      <3> QED
        BY <2>1, <3>1
    <2>2. CASE a = 0
      <3>1. Written(t) = <<>>
        BY <1>5, <2>2
      <3> QED
        BY <2>2, <3>1
    <2> QED
      BY <1>2, <2>1, <2>2
  <1>8. QueueOK(Word, fifo[t], Written(t), e, fifo'[t])
    BY <1>2, <1>3, <1>4, <1>6, <1>7, QueueStep
  <1>9. /\ Len(fifo'[t]) = (Kept(t) - e) + a
        /\ \A j \in 1..Kept(t) - e : fifo'[t][j] = fifo[t][j + e]
        /\ \A j \in 1..a : fifo'[t][(Kept(t) - e) + j] = Written(t)[j]
    BY <1>7, <1>8, Zenon DEF QueueOK, Kept
  <1>10. \A j \in 1..a : fifo'[t][(Kept(t) - e) + j] = cplWrite.word
    BY <1>2, <1>7, <1>9
  <1>11. e <= Kept(t)
    <2>1. e = 1 => Kept(t) # 0
      BY <1>2, <1>4 DEF Kept
    <2> QED
      BY <1>2, <1>3, <2>1, SMT
  <1> QED
    BY <1>3, <1>9, <1>10, <1>11 DEF e, a, Kept

\* The host returns the oldest word of a tag and is asked for new ones.
LEMMA HostFlow ==
  ASSUME NEW start, NEW ready, NEW cpl, NEW take, NEW g, NEW n,
         Tick(start, ready, cpl, take, g, n), NEW t \in Tag
  PROVE  /\ Come(t, cpl) \in {0, 1} /\ Come(t, cpl) <= Due(t)
         /\ New(t, n) \in Nat
         /\ Due(t)' = (Due(t) - Come(t, cpl)) + New(t, n)
         /\ \A j \in 1..Due(t) - Come(t, cpl) : host'[t][j] = host[t][j + Come(t, cpl)]
         /\ \A j \in 1..New(t, n) :
              host'[t][(Due(t) - Come(t, cpl)) + j] = ReadWords[j]
  <1> DEFINE c == Come(t, cpl)
             v == IF Accepted(ready) /\ mrd.tag = t THEN ReadWords ELSE <<>>
  <1>1. /\ Typed /\ Environment(start, ready, cpl, take) /\ n \in Nat
        /\ n = IF Accepted(ready) THEN mrd.words ELSE 0
        /\ (cpl # None => Due(cpl) >= 1 /\ host[cpl] # <<>>)
    BY TickFacts, Coming
  <1>2. host[t] \in Seq(Word) /\ Due(t) \in Nat
    BY <1>1, SizeTypes
  <1>3. c \in {0, 1} /\ (c = 1 <=> cpl = t)
    BY DEF Come
  <1>4. c = 1 => host[t] # <<>> /\ Due(t) >= 1
    BY <1>1, <1>3, NoneAssumption
  <1>5. host'[t] = (IF c = 1 THEN Tail(host[t]) ELSE host[t]) \o v
    <2>1. host'[t] = (IF cpl = t THEN Tail(host[t]) ELSE host[t]) \o v
      BY Zenon, <1>1 DEF Environment
    <2> QED
      BY <1>3, <2>1, Zenon
  <1> HIDE DEF c
  <1>6. /\ v \in Seq(Word) /\ Len(v) = New(t, n) /\ New(t, n) \in Nat
        /\ \A j \in 1..New(t, n) : v[j] = ReadWords[j]
    <2>1. CASE Accepted(ready) /\ mrd.tag = t
      <3>1. v = ReadWords
        BY <2>1, Zenon
      <3>2. mrd # None /\ n = mrd.words /\ New(t, n) = n
        BY <1>1, <2>1 DEF Accepted, New
      <3>3. ReadWords \in Seq(Word)
        BY <1>1, <3>2, ReadWordsType
      <3>4. Len(ReadWords) = n
        BY <1>1, <3>2, SMT DEF ReadWords
      <3> HIDE DEF v
      <3> QED
        BY <1>1, <3>1, <3>2, <3>3, <3>4, Zenon
    <2>2. CASE ~(Accepted(ready) /\ mrd.tag = t)
      <3>1. v = <<>>
        BY <2>2, Zenon
      <3>2. New(t, n) = 0
        BY <1>1, <2>2 DEF New
      <3> HIDE DEF v
      <3> QED
        BY <3>1, <3>2, SMT
    <2> QED
      BY <2>1, <2>2
  <1> HIDE DEF v
  <1>7. QueueOK(Word, host[t], v, c, host'[t])
    BY <1>2, <1>3, <1>4, <1>5, <1>6, QueueStep
  <1>8. /\ Len(host'[t]) = (Due(t) - c) + New(t, n)
        /\ \A j \in 1..Due(t) - c : host'[t][j] = host[t][j + c]
        /\ \A j \in 1..New(t, n) : host'[t][(Due(t) - c) + j] = v[j]
    BY <1>6, <1>7, Zenon DEF QueueOK, Due
  <1>9. \A j \in 1..New(t, n) : host'[t][(Due(t) - c) + j] = ReadWords[j]
    BY <1>6, <1>8
  <1>10. c <= Due(t)
    BY <1>2, <1>3, <1>4, SMT
  <1> QED
    BY <1>3, <1>6, <1>8, <1>9, <1>10 DEF c, Due

\* Between the two, the words of a tag stay in order.
TagFlow(t, g, n) ==
  /\ Gone(t, g) \in {0, 1} /\ Gone(t, g) <= Size(t) /\ New(t, n) \in Nat
  /\ Size(t)' = (Size(t) - Gone(t, g)) + New(t, n)
  /\ \A i \in 1..Size(t) - Gone(t, g) : Item(t, i)' = Item(t, i + Gone(t, g))
  /\ \A i \in Nat, j \in 1..New(t, n) :
       i = (Size(t) - Gone(t, g)) + j => Item(t, i)' = ReadWords[j]

LEMMA TagFlows ==
  ASSUME NEW start, NEW ready, NEW cpl, NEW take, NEW g, NEW n,
         Tick(start, ready, cpl, take, g, n), NEW t \in Tag
  PROVE  TagFlow(t, g, n)
  <1> DEFINE e == Gone(t, g)
             c == Come(t, cpl)
             m == New(t, n)
             a == Arriving(t)
  <1>1. /\ e \in {0, 1} /\ e <= Kept(t)
        /\ Kept(t)' = (Kept(t) - e) + a
        /\ \A j \in 1..Kept(t) - e : fifo'[t][j] = fifo[t][j + e]
        /\ \A j \in 1..a : fifo'[t][(Kept(t) - e) + j] = cplWrite.word
    BY FifoFlow
  <1>2. /\ c \in {0, 1} /\ c <= Due(t) /\ m \in Nat
        /\ Due(t)' = (Due(t) - c) + m
        /\ \A j \in 1..Due(t) - c : host'[t][j] = host[t][j + c]
        /\ \A j \in 1..m : host'[t][(Due(t) - c) + j] = ReadWords[j]
    BY HostFlow
  <1>3. /\ Arriving(t)' = c
        /\ c = 1 => cplWrite'.word = host[t][1]
    <2>1. Arriving(t)' = c
      BY Coming
    <2>2. ASSUME c = 1 PROVE cplWrite'.word = host[t][1]
      <3>1. cpl = t /\ cpl # None
        BY <2>2, NoneAssumption DEF Come
      <3> QED
        BY <3>1, Coming
    <2> QED
      BY <2>1, <2>2
  <1>4. Kept(t) \in Nat /\ Due(t) \in Nat /\ a \in {0, 1}
    <2>1. Typed
      BY TickFacts
    <2> QED
      BY <2>1, SizeTypes
  <1> HIDE DEF e, c, m, a
  <1>5. /\ Here(t) = Kept(t) + a /\ Size(t) = Here(t) + Due(t)
        /\ Here(t)' = ((Kept(t) - e) + a) + c
        /\ Size(t)' = Here(t)' + ((Due(t) - c) + m)
    <2>1. /\ Here(t) = Kept(t) + a /\ Size(t) = Here(t) + Due(t)
          /\ Here(t)' = Kept(t)' + Arriving(t)' /\ Size(t)' = Here(t)' + Due(t)'
      BY Zenon DEF Here, Size, a
    <2> QED
      BY <1>1, <1>2, <1>3, <2>1, Zenon
  <1>6. Here(t)' = (Here(t) - e) + c /\ Size(t)' = (Size(t) - e) + m
    BY <1>1, <1>2, <1>4, <1>5, SMT
  <1>7. /\ \A i : Item(t, i) = IF i <= Kept(t) THEN fifo[t][i]
                               ELSE IF i <= Here(t) THEN cplWrite.word
                               ELSE host[t][i - Here(t)]
        /\ \A i : Item(t, i)' = IF i <= (Kept(t) - e) + a THEN fifo'[t][i]
                                ELSE IF i <= (Here(t) - e) + c THEN cplWrite'.word
                                ELSE host'[t][i - ((Here(t) - e) + c)]
    BY <1>1, <1>6, Zenon DEF Item
  <1>8. ASSUME NEW i \in 1..Size(t) - e PROVE Item(t, i)' = Item(t, i + e)
    <2>1. CASE i <= Kept(t) - e
      <3>1. i <= (Kept(t) - e) + a /\ i + e <= Kept(t) /\ i \in 1..Kept(t) - e
        BY <1>1, <1>4, <1>5, <2>1, SMT
      <3>2. Item(t, i)' = fifo'[t][i] /\ Item(t, i + e) = fifo[t][i + e]
        BY <1>7, <3>1, Zenon
      <3> QED
        BY <1>1, <3>1, <3>2, Zenon
    <2>2. CASE ~(i <= Kept(t) - e) /\ i <= (Kept(t) - e) + a
      <3>1. /\ a = 1 /\ 1 \in 1..a /\ i = (Kept(t) - e) + 1
            /\ ~(i + e <= Kept(t)) /\ i + e <= Here(t)
        BY <1>1, <1>4, <1>5, <2>2, SMT
      <3>2. Item(t, i)' = fifo'[t][i] /\ Item(t, i + e) = cplWrite.word
        BY <1>7, <2>2, <3>1, Zenon
      <3> QED
        BY <1>1, <3>1, <3>2, Zenon
    <2>3. CASE ~(i <= (Kept(t) - e) + a) /\ i <= (Here(t) - e) + c
      <3>1. /\ c = 1 /\ ~(i + e <= Kept(t)) /\ ~(i + e <= Here(t))
            /\ (i + e) - Here(t) = 1
        BY <1>1, <1>2, <1>4, <1>5, <2>3, SMT
      <3>2. Item(t, i)' = cplWrite'.word /\ Item(t, i + e) = host[t][1]
        BY <1>7, <2>3, <3>1, Zenon
      <3> QED
        BY <1>3, <3>1, <3>2, Zenon
    <2>4. CASE ~(i <= (Here(t) - e) + c)
      <3>1. /\ ~(i <= (Kept(t) - e) + a) /\ ~(i + e <= Kept(t)) /\ ~(i + e <= Here(t))
            /\ i - ((Here(t) - e) + c) \in 1..Due(t) - c
            /\ (i - ((Here(t) - e) + c)) + c = (i + e) - Here(t)
        BY <1>1, <1>2, <1>4, <1>5, <2>4, SMT
      <3>2. /\ Item(t, i)' = host'[t][i - ((Here(t) - e) + c)]
            /\ Item(t, i + e) = host[t][(i + e) - Here(t)]
        BY <1>7, <2>4, <3>1, Zenon
      <3>3. host'[t][i - ((Here(t) - e) + c)] = host[t][(i - ((Here(t) - e) + c)) + c]
        BY <1>2, <3>1, Zenon
      <3> QED
        BY <3>1, <3>2, <3>3, Zenon
    <2>5. i <= Kept(t) - e \/ (~(i <= Kept(t) - e) /\ i <= (Kept(t) - e) + a)
          \/ (~(i <= (Kept(t) - e) + a) /\ i <= (Here(t) - e) + c)
          \/ ~(i <= (Here(t) - e) + c)
      OBVIOUS
    <2> QED
      BY <2>1, <2>2, <2>3, <2>4, <2>5
  <1>9. ASSUME NEW i \in Nat, NEW j \in 1..m, i = (Size(t) - e) + j
        PROVE  Item(t, i)' = ReadWords[j]
    <2>1. /\ ~(i <= (Kept(t) - e) + a) /\ ~(i <= (Here(t) - e) + c)
          /\ i - ((Here(t) - e) + c) = (Due(t) - c) + j
      BY <1>1, <1>2, <1>4, <1>5, <1>9, SMT
    <2>2. Item(t, i)' = host'[t][i - ((Here(t) - e) + c)]
      BY <1>7, <2>1, Zenon
    <2>3. host'[t][(Due(t) - c) + j] = ReadWords[j]
      BY <1>2, Zenon
    <2> QED
      BY <2>1, <2>2, <2>3, Zenon
  <1>10. e <= Size(t)
    BY <1>1, <1>4, <1>5, SMT
  <1> QED
    BY <1>1, <1>2, <1>6, <1>8, <1>9, <1>10, Zenon DEF TagFlow, e, m

-----------------------------------------------------------------------------
(***************************************************************************)
(* A transfer that is started.                                             *)
(***************************************************************************)

\* Its words, and how many transfers that makes.
LEMMA WordsFacts ==
  ASSUME NEW k \in Nat, NEW n \in Nat
  PROVE  /\ Stream!Words(k, n) \in Seq(Word) /\ Len(Stream!Words(k, n)) = n
         /\ \A i \in 1..n :
              Stream!Words(k, n)[i] = [transfer |-> k, index |-> i, last |-> i = n]
  <1>1. Stream!Words(k, n) \in Seq(Word)
    BY WordsType
  <1>2. Stream!Words(k, n) = [i \in 1..n |-> [transfer |-> k, index |-> i, last |-> i = n]]
    BY Zenon DEF Stream!Words
  <1>3. \A i \in 1..n :
          Stream!Words(k, n)[i] = [transfer |-> k, index |-> i, last |-> i = n]
    BY <1>2, Zenon
  <1>4. Len(Stream!Words(k, n)) = n
    BY <1>2, SMT
  <1> QED
    BY <1>1, <1>3, <1>4

\* The words of another transfer behind those asked for.
Behind(s, k, n, r) ==
  /\ r \in Seq(Word) /\ Len(r) = Len(s) + n
  /\ \A i \in 1..Len(s) : r[i] = s[i]
  /\ \A i \in 1..n : r[Len(s) + i] = [transfer |-> k, index |-> i, last |-> i = n]
  /\ Stream!Transfers(r) = Stream!Transfers(s) + 1

LEMMA WordsBehind ==
  ASSUME NEW s \in Seq(Word), NEW k \in Nat, NEW n \in Nat \ {0},
         NEW r, r = s \o Stream!Words(k, n)
  PROVE  Behind(s, k, n, r)
  <1> DEFINE w == Stream!Words(k, n)
  <1>1. /\ w \in Seq(Word) /\ Len(w) = n
        /\ \A i \in 1..n : w[i] = [transfer |-> k, index |-> i, last |-> i = n]
    BY WordsFacts
  <1>2. r = s \o w
    OBVIOUS
  <1> HIDE DEF w
  <1>3. /\ r \in Seq(Word) /\ Len(r) = Len(s) + Len(w)
        /\ \A i \in 1..Len(s) + Len(w) : r[i] = IF i <= Len(s) THEN s[i] ELSE w[i - Len(s)]
    <2>1. s \in Seq(Word) /\ w \in Seq(Word)
      BY <1>1
    <2>2. /\ s \o w \in Seq(Word) /\ Len(s \o w) = Len(s) + Len(w)
          /\ \A i \in 1..Len(s) + Len(w) :
               (s \o w)[i] = IF i <= Len(s) THEN s[i] ELSE w[i - Len(s)]
      BY <2>1, ConcatProperties, Zenon
    <2> QED
      BY <1>2, <2>2, Zenon
  <1>4. PICK l \in Nat : l = Len(s)
    OBVIOUS
  <1>5. \A i \in 1..l : r[i] = s[i]
    <2> SUFFICES ASSUME NEW i \in 1..l PROVE r[i] = s[i]
      OBVIOUS
    <2>1. i \in 1..l + n /\ i <= l
      BY SMT
    <2> QED
      BY <1>1, <1>3, <1>4, <2>1, Zenon
  <1>6. \A i \in 1..n : r[l + i] = [transfer |-> k, index |-> i, last |-> i = n]
    <2> SUFFICES ASSUME NEW i \in 1..n
                 PROVE  r[l + i] = [transfer |-> k, index |-> i, last |-> i = n]
      OBVIOUS
    <2>1. l + i \in 1..l + n /\ ~(l + i <= l) /\ (l + i) - l = i
      BY SMT
    <2>2. r[l + i] = w[(l + i) - l]
      BY <1>1, <1>3, <1>4, <2>1, Zenon
    <2> QED
      BY <1>1, <2>1, <2>2, Zenon
  <1> DEFINE T == {i \in DOMAIN s : s[i].last}
             U == {i \in DOMAIN r : r[i].last}
  <1>7. DOMAIN s = 1..l /\ DOMAIN r = 1..l + n
    <2>1. DOMAIN s = 1..Len(s) /\ DOMAIN r = 1..Len(r)
      BY <1>3
    <2> QED
      BY <1>1, <1>3, <1>4, <2>1, Zenon
  <1>8. IsFiniteSet(T) /\ l + n \notin T
    <2>1. T \subseteq 1..l
      BY <1>7
    <2>2. IsFiniteSet(1..l)
      BY FS_Interval
    <2>3. l + n \notin 1..l
      BY SMT
    <2> QED
      BY <2>1, <2>2, <2>3, FS_Subset
  <1>9. U = T \cup {l + n}
    <2>1. ASSUME NEW i \in U PROVE i \in T \cup {l + n}
      <3>1. i \in 1..l + n /\ r[i].last
        BY <1>7
      <3>2. CASE i \in 1..l
        BY <1>5, <1>7, <3>1, <3>2, Zenon
      <3>3. CASE ~(i \in 1..l)
        <4>1. i - l \in 1..n /\ l + (i - l) = i
          BY <3>1, <3>3, SMT
        <4>2. r[i] = [transfer |-> k, index |-> i - l, last |-> i - l = n]
          BY <1>6, <4>1, Zenon
        <4>3. r[i].last = (i - l = n)
          BY <4>2, SMT
        <4>4. i - l = n
          BY <3>1, <4>3, Zenon
        <4>5. i = l + n
          BY <4>1, <4>4
        <4> QED
          BY <4>5
      <3> QED
        BY <3>2, <3>3
    <2>2. ASSUME NEW i \in T PROVE i \in U
      <3>1. i \in 1..l /\ s[i].last
        BY <1>7
      <3>2. i \in 1..l + n
        BY <3>1, SMT
      <3>3. r[i] = s[i]
        BY <1>5, <3>1, Zenon
      <3> QED
        BY <1>7, <3>1, <3>2, <3>3, Zenon
    <2>3. l + n \in U
      <3>1. n \in 1..n /\ l + n \in 1..l + n
        BY SMT
      <3>2. r[l + n] = [transfer |-> k, index |-> n, last |-> n = n]
        BY <1>6, <3>1, Zenon
      <3>3. r[l + n].last = (n = n)
        BY <3>2, SMT
      <3>4. r[l + n].last
        BY <3>3, Zenon
      <3> QED
        BY <1>7, <3>1, <3>4, Zenon
    <2> QED
      BY <2>1, <2>2, <2>3
  <1>10. /\ Stream!Transfers(s) = Cardinality(T)
         /\ Stream!Transfers(r) = Cardinality(U)
    <2>1. /\ Stream!Transfers(s) = Stream!Cardinality(T)
          /\ Stream!Transfers(r) = Stream!Cardinality(U)
      BY Zenon DEF Stream!Transfers
    <2> HIDE DEF T, U
    <2>2. Stream!Cardinality(T) = Cardinality(T)
      BY Zenon DEF Stream!Cardinality, Cardinality
    <2>3. Stream!Cardinality(U) = Cardinality(U)
      BY Zenon DEF Stream!Cardinality, Cardinality
    <2> QED
      BY <2>1, <2>2, <2>3
  <1> HIDE DEF T, U
  <1>11. Cardinality(T) \in Nat /\ Cardinality(U) = Cardinality(T) + 1
    BY <1>8, <1>9, FS_AddElement, FS_CardinalityType
  <1> QED
    BY <1>1, <1>3, <1>4, <1>5, <1>6, <1>10, <1>11 DEF Behind

\* A start finds the engine at rest.
LEMMA AtRest ==
  ASSUME NEW start, NEW ready, NEW cpl, NEW take, NEW g, NEW n,
         Tick(start, ready, cpl, take, g, n), start > 0
  PROVE  /\ req = "idle" /\ ~startReg /\ mrd = None /\ ~tagWe /\ ~tagRd /\ tagCount = 0
         /\ recv = "idle" /\ cpl = None /\ tr = "idle" /\ left = 0 /\ g = 0 /\ n = 0
         /\ Len(outFifo) = 0 /\ axis = None /\ got = asked
         /\ \A t \in Tag : Size(t) = 0
         /\ \A t \in Tag : host[t] = <<>>
  <1>1. /\ Inv /\ Typed /\ Environment(start, ready, cpl, take) /\ g \in {0, 1} /\ (g = 1 <=> Taking)
        /\ n = IF Accepted(ready) THEN mrd.words ELSE 0
        /\ cpl \in Tag \cup {None} /\ rdptr \in Tag
    <2>1. Typed => rdptr \in Tag
      BY DEF Typed, TypeOK
    <2> QED
      BY <2>1, TickFacts
  <1>2. got = asked
    BY <1>1 DEF Environment
  <1>3. Flying = 0 /\ left = 0 /\ Len(outFifo) = 0 /\ axis = None
    <2>1. outFifo \in Seq(Word) /\ got \in Seq(Word) /\ left \in Nat
      BY <1>1 DEF Typed, TypeOK
    <2>2. Len(outFifo) \in Nat
      BY <2>1
    <2>3. Len(got) \in Nat
      BY <2>1
    <2>4. Flying \in Nat /\ Flying >= Len(outFifo) /\ (axis # None => Flying > 0)
      BY <2>2, SMT DEF Flying
    <2>5. (Len(got) + Flying) + left = Len(got)
      BY <1>1, <1>2 DEF Inv, StreamOK
    <2> HIDE DEF Flying
    <2>6. Flying = 0 /\ left = 0
      BY <2>1, <2>3, <2>4, <2>5, SMT
    <2> QED
      BY <2>2, <2>4, <2>6, SMT
  <1>4. /\ req = "idle" /\ tr = "idle" /\ ~startReg /\ mrd = None /\ ~tagWe /\ g = 0 /\ ~tagRd
    <2>1. req = "idle" /\ tr = "idle"
      <3>1. req \in {"idle", "start"}
        BY <1>1 DEF Typed, TypeOK
      <3>2. (req = "start" => left > 0) /\ (tr = "idle" <=> left = 0)
        BY <1>1 DEF Inv, RequestOK
      <3> QED
        BY <1>3, <3>1, <3>2
    <2>2. ~startReg /\ ~tagWe
      BY <1>1, <2>1 DEF Inv, RequestOK
    <2>3. mrd = None
      BY <1>1, <2>1 DEF Inv, MrdOK
    <2>4. g = 0
      BY <1>1, <2>1 DEF Taking
    <2>5. ~tagRd
      BY <1>1, <1>3 DEF Inv, RingOK
    <2> QED
      BY <2>1, <2>2, <2>3, <2>4, <2>5
  <1>5. n = 0
    BY <1>1, <1>4 DEF Accepted
  <1>6. Drained = length /\ Issued = length /\ length \in Nat
    BY <1>1, <1>3, <1>4, SMT DEF Drained, Issued, Typed, TypeOK
  <1>7. ASSUME NEW t \in Tag PROVE Size(t) = 0
    <2>1. Size(t) \in Nat
      BY <1>1, SizeTypes
    <2>2. CASE Size(t) > 0
      <3>1. 1 \in 1..Size(t)
        BY <2>1, <2>2, SMT
      <3>2. Item(t, 1).index \in length + 1..length
        BY <1>1, <1>6, <3>1, Zenon DEF Inv, RangeOK
      <3> QED
        BY <1>6, <3>2, SMT
    <2> QED
      BY <2>1, <2>2, SMT
  <1>8. ASSUME NEW t \in Tag PROVE Due(t) = 0 /\ host[t] = <<>>
    <2>1. Kept(t) \in Nat /\ Due(t) \in Nat /\ Arriving(t) \in {0, 1} /\ host[t] \in Seq(Word)
      BY <1>1, SizeTypes
    <2>2. Due(t) = 0
      BY <1>7, <2>1, SMT DEF Size, Here
    <2> QED
      BY <2>1, <2>2 DEF Due
  <1>9. cpl = None
    BY <1>1, <1>8 DEF Environment
  <1>10. tagCount = 0
    <2>1. tagCount \in Nat
      BY <1>1, SMT DEF Typed, TypeOK
    <2>2. CASE tagCount > 0
      <3>1. Pos(rdptr) = 0
        BY <1>1, PosFacts
      <3>2. InRing(rdptr) /\ ~Leaving(rdptr)
        BY <1>4, <2>2, <3>1 DEF InRing, Leaving
      <3>3. \E u \in Tag : Size(u) > 0
        BY <1>1, <1>4, <1>7, <3>2 DEF Inv, GapOK
      <3> QED
        BY <1>7, <3>3
    <2> QED
      BY <2>1, <2>2, SMT
  <1>11. recv = "idle"
    <2>1. recv \in {"idle", "start"} /\ cplSeen \in Nat
      BY <1>1 DEF Typed, TypeOK
    <2>2. CASE recv = "start"
      <3>1. Cardinality(Returned) = cplSeen /\ cplSeen < length
        BY <1>1, <2>2 DEF Inv, ReceiveOK
      <3>2. \A t \in Tag : 1..Due(t) = {}
        BY <1>8, SMT
      <3>3. Returned = 1..length
        BY <1>6, <3>2 DEF Returned, Owed
      <3>4. Cardinality(1..length) = length
        <4>1. 1 \in Int /\ length \in Int /\ (IF 1 > length THEN 0 ELSE (length - 1) + 1) = length
          BY <1>6, SMT
        <4> QED
          BY <4>1, <1>6, FS_Interval, SMT
      <3> QED
        BY <1>6, <2>1, <3>1, <3>3, <3>4, SMT
    <2> QED
      BY <2>1, <2>2
  <1> QED
    BY <1>2, <1>3, <1>4, <1>5, <1>7, <1>8, <1>9, <1>10, <1>11

\* What the start leaves.
LEMMA Begins ==
  ASSUME NEW start, NEW ready, NEW cpl, NEW take, NEW g, NEW n,
         Tick(start, ready, cpl, take, g, n), start > 0
  PROVE  /\ req' = "start" /\ startReg' /\ length' = start /\ reads' = ReadsOf(start)
         /\ issued' = 0 /\ mrd' = None /\ ~tagWe' /\ wrTag' = 0 /\ tagCount' = 0
         /\ ~tagRd' /\ rdptr' = 0 /\ recv' = "idle"
         /\ tr' = "start" /\ left' = start /\ taken' = 0 /\ rdEn' = None
         /\ Flying' = 0 /\ got' = got /\ count' = count + 1
         /\ asked' = asked \o Stream!Words(count + 1, start)
         /\ \A t \in Tag : Size(t)' = 0
         /\ \A t \in Tag : host'[t] = <<>>
  <1>1. /\ req = "idle" /\ ~startReg /\ mrd = None /\ ~tagWe /\ ~tagRd /\ tagCount = 0
        /\ recv = "idle" /\ cpl = None /\ tr = "idle" /\ left = 0 /\ g = 0 /\ n = 0
        /\ Len(outFifo) = 0 /\ axis = None /\ got = asked
        /\ \A t \in Tag : Size(t) = 0
        /\ \A t \in Tag : host[t] = <<>>
    BY AtRest
  <1>2. /\ Typed /\ Typed' /\ start \in Nat /\ take \in BOOLEAN
        /\ Environment(start, ready, cpl, take) /\ Request(start, ready)
        /\ AllocateTag(ready) /\ ReleaseTag(start) /\ Receive(start, cpl)
        /\ Drain(start) /\ OutputFifo(take) /\ (g = 1 <=> Taking)
    BY TickFacts
  <1>3. Edge(start)
    BY <1>1 DEF Edge
  <1>4. /\ req' = "start" /\ startReg' /\ length' = start /\ reads' = ReadsOf(start)
        /\ issued' = 0 /\ mrd' = None
    <2>1. Idle(start)
      BY <1>1, <1>2 DEF Request, Issue, Offer, Prepare
    <2> QED
      BY <1>3, <2>1, Zenon DEF Idle
  <1>5. ~tagWe' /\ wrTag' = 0 /\ tagCount' = 0
    <2>1. ~tagWe'
      BY <1>1, <1>2, Zenon DEF AllocateTag, TagWanted
    <2>2. wrTag' = 0
      BY <1>1, <1>2, Zenon DEF AllocateTag
    <2>3. tagCount' = 0 - 0
      BY <1>1, <1>2, Zenon DEF AllocateTag
    <2> QED
      BY <2>1, <2>2, <2>3
  <1>6. ~tagRd' /\ rdptr' = 0
    BY <1>1, <1>2, <1>3, Zenon DEF ReleaseTag
  <1>7. recv' = "idle"
    BY <1>1, <1>2, Zenon DEF Receive
  <1>8. tr' = "start" /\ left' = start /\ taken' = 0 /\ rdEn' = None
    <2>1. LeftNext(start) = start /\ TakenNext = 0
      BY <1>1, <1>3, Zenon DEF LeftNext, TakenNext
    <2>2. tr' = "start" /\ left' = start
      BY <1>1, <1>2, <1>3, <2>1, Zenon DEF Drain
    <2>3. taken' = 0
      BY <1>2, <2>1, Zenon DEF Drain
    <2>4. rdEn' = None
      BY <1>1, <1>2 DEF Drain
    <2> QED
      BY <2>2, <2>3, <2>4
  <1>9. Flying' = 0 /\ got' = got
    <2>1. outFifo \in Seq(Word) /\ axis \in Word \cup {None} /\ ~Taking
      BY <1>1, <1>2 DEF Typed, TypeOK
    <2>2. Flow(0, 0)
      BY <1>1, <1>2, <2>1, FlyStep DEF Sends
    <2>3. Flying = 0
      BY <1>1 DEF Flying
    <2>4. Flying' = 0
      BY <2>2, <2>3 DEF Flow
    <2>5. got' = got
      BY <1>1, <1>2, Zenon DEF Environment
    <2> QED
      BY <2>4, <2>5
  <1>10. count' = count + 1 /\ asked' = asked \o Stream!Words(count + 1, start)
    BY <1>2, Zenon DEF Environment
  <1>11. ASSUME NEW t \in Tag PROVE Size(t)' = 0
    <2>1. TagFlow(t, g, n)
      BY TagFlows
    <2>2. Gone(t, g) = 0 /\ New(t, n) = 0
      BY <1>1 DEF Gone, New
    <2>3. Size(t)' = (Size(t) - Gone(t, g)) + New(t, n) /\ Size(t) = 0
      BY <1>1, <2>1 DEF TagFlow
    <2> QED
      BY <2>2, <2>3
  <1>12. ASSUME NEW t \in Tag PROVE host'[t] = <<>>
    <2>1. Due(t)' = (Due(t) - Come(t, cpl)) + New(t, n)
      BY HostFlow
    <2>2. Come(t, cpl) = 0 /\ New(t, n) = 0
      BY <1>1, NoneAssumption DEF Come, New
    <2>3. Due(t) = 0
      BY <1>1 DEF Due
    <2>4. Len(host'[t]) = 0 /\ host'[t] \in Seq(Word)
      BY <1>2, <2>1, <2>2, <2>3 DEF Due, Typed, TypeOK
    <2> QED
      BY <2>4
  <1> QED
    BY <1>4, <1>5, <1>6, <1>7, <1>8, <1>9, <1>10, <1>11, <1>12

LEMMA BeginInv ==
  ASSUME NEW start, NEW ready, NEW cpl, NEW take, NEW g, NEW n,
         Tick(start, ready, cpl, take, g, n), start > 0
  PROVE  Inv'
  <1>1. /\ req' = "start" /\ startReg' /\ length' = start /\ reads' = ReadsOf(start)
        /\ issued' = 0 /\ mrd' = None /\ ~tagWe' /\ wrTag' = 0 /\ tagCount' = 0
        /\ ~tagRd' /\ rdptr' = 0 /\ recv' = "idle"
        /\ tr' = "start" /\ left' = start /\ taken' = 0 /\ rdEn' = None
        /\ Flying' = 0 /\ got' = got /\ count' = count + 1
        /\ asked' = asked \o Stream!Words(count + 1, start)
        /\ \A t \in Tag : Size(t)' = 0
        /\ \A t \in Tag : host'[t] = <<>>
    BY Begins
  <1>2. /\ Inv /\ Typed /\ Typed' /\ Room' /\ start \in Nat
    BY TickFacts
  <1>3. start \in Nat \ {0}
    BY <1>2, SMT
  <1>4. RequestOK'
    <2>1. ReadsOf(start) \in Nat \ {0}
      BY <1>3, ReadsFacts
    <2> QED
      BY <1>1, <1>3, <2>1, SMT DEF RequestOK
  <1>5. MrdOK'
    BY <1>1 DEF MrdOK
  <1>6. RingOK'
    <2>1. Pos(wrTag)' = 0
      BY <1>1, SMT DEF Pos
    <2>2. Tags # 0
      BY SizesAssumption
    <2> QED
      BY <1>1, <2>1, <2>2 DEF RingOK
  <1>7. Drained' = 0 /\ Issued' = 0
    <2>1. 0 * Beats = 0
      BY SizesAssumption, SMT
    <2> QED
      BY <1>1, <1>2, <2>1, SMT DEF Drained, Issued
  <1>8. TagOK'
    <2> SUFFICES ASSUME NEW t \in Tag
        PROVE /\ InRing(t)' => table'[t] >= 1
              /\ Size(t)' > 0 => InRing(t)' /\ ~Leaving(t)'
              /\ t = rdptr' => IF Size(t)' > 0 THEN Size(t)' + taken' = table'[t] ELSE taken' = 0
              /\ t # rdptr' /\ Size(t)' > 0 => Size(t)' = table'[t]
      BY Zenon DEF TagOK
    <2>1. ~InRing(t)'
      <3>1. rdptr' = 0 /\ tagCount' = 0 /\ t \in Nat
        BY <1>1, SizesAssumption, SMT DEF Tag
      <3>2. Pos(t)' = t
        BY <3>1, SMT DEF Pos
      <3> QED
        BY <3>1, <3>2, SMT DEF InRing
    <2>2. ~(Size(t)' > 0)
      BY <1>1, SMT
    <2> QED
      BY <1>1, <2>1, <2>2, Zenon
  <1>9. \A t \in Tag : 1..Size(t)' = {}
    BY <1>1, SMT
  <1>10. RangeOK' /\ OrderOK'
    BY <1>9, Zenon DEF RangeOK, OrderOK
  <1>11. CoverOK'
    <2>1. Drained' + 1..Issued' = {}
      BY <1>7, SMT
    <2> QED
      BY <2>1, Zenon DEF CoverOK
  <1>12. GapOK' /\ ReceiveOK'
    BY <1>1 DEF GapOK, ReceiveOK
  <1>13. /\ asked' \in Seq(Word) /\ Len(asked') = Len(asked) + start
         /\ \A i \in 1..Len(asked) : asked'[i] = asked[i]
         /\ \A i \in 1..start :
              asked'[Len(asked) + i] = [transfer |-> count + 1, index |-> i, last |-> i = start]
         /\ Stream!Transfers(asked') = Stream!Transfers(asked) + 1
         /\ Len(asked) \in Nat
    <2>1. asked \in Seq(Word) /\ count + 1 \in Nat
      BY <1>2, SMT DEF Typed, TypeOK
    <2>2. Len(asked) \in Nat
      BY <2>1
    <2>3. asked' = asked \o Stream!Words(count + 1, start)
      BY <1>1
    <2>4. Behind(asked, count + 1, start, asked')
      BY <1>3, <2>1, <2>3, WordsBehind, Zenon
    <2> QED
      BY <2>2, <2>4, Zenon DEF Behind
  <1>14. StreamOK'
    <2>1. Len(got') = Len(asked)
      BY <1>1, AtRest
    <2>2. (Len(got') + Flying') + left' = Len(asked')
      BY <1>1, <1>2, <1>13, <2>1, SMT
    <2>3. 1..Flying' = {}
      BY <1>1, SMT
    <2>4. \A q \in 1..Len(got') : got'[q] = asked'[q]
      BY <1>1, <1>13, <2>1, AtRest
    <2>5. Drained' <= Issued'
      BY <1>7, SMT
    <2> QED
      BY <2>2, <2>3, <2>4, <2>5, Zenon DEF StreamOK
  <1>15. AskedOK'
    <2>1. Base' = Len(asked)
      BY <1>1, <1>2, <1>13, SMT DEF Base
    <2>2. length' <= Len(asked')
      BY <1>1, <1>2, <1>13, SMT
    <2>3. Stream!Transfers(asked') = count'
      BY <1>1, <1>2, <1>13 DEF Inv, AskedOK
    <2>4. Stream!Transfers(asked)' = count'
      BY <2>3
    <2>5. \A x \in 1..length' :
            asked'[Base' + x] = [transfer |-> count', index |-> x, last |-> x = length']
      BY <1>1, <1>13, <2>1, Zenon
    <2> QED
      BY <2>2, <2>4, <2>5, Zenon DEF AskedOK
  <1> QED
    BY <1>2, <1>4, <1>5, <1>6, <1>8, <1>10, <1>11, <1>12, <1>14, <1>15, Zenon DEF Inv, Safe

-----------------------------------------------------------------------------
(***************************************************************************)
(* Any other clock: the requests.                                          *)
(***************************************************************************)

\* The four things the request machine does when nothing is started.
Rests(n) ==
  /\ req = "idle" /\ req' = "idle" /\ issued' = 0
  /\ mrd = None /\ mrd' = None /\ ~tagWe /\ n = 0
Issues(n) ==
  /\ req = "start" /\ mrd # None /\ mrd' = None /\ ~tagWe
  /\ n = mrd.words /\ issued' = issued + 1 /\ reads' = reads
  /\ req' = IF issued + 1 = reads THEN "idle" ELSE "start"
Offers(n) ==
  /\ req = "start" /\ req' = "start" /\ issued' = issued /\ reads' = reads
  /\ tagWe /\ mrd = None /\ n = 0
  /\ mrd' = [tag |-> wrTag, first |-> issued * Beats, words |-> ReadBeats]
Prepares(n) ==
  /\ req = "start" /\ req' = "start" /\ issued' = issued /\ reads' = reads
  /\ ~tagWe /\ mrd' = None /\ n = 0

LEMMA RequestCases ==
  ASSUME NEW start, NEW ready, NEW cpl, NEW take, NEW g, NEW n,
         Tick(start, ready, cpl, take, g, n), start = 0
  PROVE  /\ length' = length /\ ~startReg' /\ ~Edge(start)
         /\ count' = count /\ asked' = asked
         /\ Rests(n) \/ Issues(n) \/ Offers(n) \/ Prepares(n)
         /\ tagWe' => Prepares(n)
  <1>1. /\ Inv /\ Request(start, ready) /\ AllocateTag(ready)
        /\ n = IF Accepted(ready) THEN mrd.words ELSE 0
        /\ Environment(start, ready, cpl, take)
    BY TickFacts
  <1>2. ~(start > 0) /\ ~Edge(start)
    BY SMT DEF Edge
  <1>3. count' = count /\ asked' = asked
    BY <1>1, <1>2, Zenon DEF Environment
  <1>4. (mrd # None => req = "start") /\ (tagWe => req = "start" /\ mrd = None)
    BY <1>1 DEF Inv, MrdOK, RequestOK
  <1>5. CASE Idle(start)
    <2>1. /\ req = "idle" /\ req' = req /\ length' = length /\ issued' = 0 /\ mrd' = None
          /\ startReg' = (start > 0)
      BY <1>2, <1>5, Zenon DEF Idle
    <2>2. ~startReg'
      BY <1>2, <2>1, Zenon
    <2>3. mrd = None /\ ~tagWe /\ n = 0
      BY <1>1, <1>4, <2>1 DEF Accepted
    <2>4. Rests(n)
      BY <2>1, <2>3 DEF Rests
    <2>5. ~tagWe'
      BY <1>1, <2>1, Zenon DEF AllocateTag, TagWanted
    <2> QED
      BY <1>2, <1>3, <2>1, <2>2, <2>4, <2>5
  <1>6. CASE Issue(ready)
    <2>1. Issues(n) /\ length' = length /\ ~startReg'
      BY <1>1, <1>4, <1>6 DEF Issue, Issues, Accepted
    <2>2. ~tagWe'
      BY <1>1, <1>6, Zenon DEF AllocateTag, TagWanted, Issue
    <2> QED
      BY <1>2, <1>3, <2>1, <2>2
  <1>7. CASE Offer(ready)
    <2>1. Offers(n) /\ length' = length /\ ~startReg'
      BY <1>1, <1>4, <1>7 DEF Offer, Offers
    <2>2. ~tagWe'
      BY <1>1, <1>7, Zenon DEF AllocateTag, TagWanted, Offer
    <2> QED
      BY <1>2, <1>3, <2>1, <2>2
  <1>8. CASE Prepare(ready)
    <2>1. Prepares(n) /\ length' = length /\ ~startReg'
      BY <1>1, <1>8 DEF Prepare, Prepares
    <2> QED
      BY <1>2, <1>3, <2>1
  <1> QED
    BY <1>1, <1>5, <1>6, <1>7, <1>8 DEF Request

\* The read on the bus is the next part of the transfer.
LEMMA NextPart ==
  ASSUME Inv, req = "start"
  PROVE  /\ length \in Nat \ {0} /\ issued \in Nat /\ ReadBeats \in 1..Beats
         /\ issued * Beats \in Nat /\ Issued = issued * Beats
         /\ Issued + ReadBeats <= length
         /\ Issued + ReadBeats = IF issued + 1 = reads THEN length ELSE (issued + 1) * Beats
  <1>1. length \in Nat /\ issued \in Nat /\ left \in Nat
    BY DEF Inv, Safe, Typed, TypeOK
  <1>2. issued < reads /\ reads = ReadsOf(length) /\ left > 0 /\ left <= length
    BY DEF Inv, RequestOK
  <1>3. length \in Nat \ {0}
    BY <1>1, <1>2, SMT
  <1>4. ReadBeats = IF issued = ReadsOf(length) - 1 THEN LastOf(length) ELSE Beats
    BY <1>2, Zenon DEF ReadBeats
  <1>5. Issued = issued * Beats
    BY DEF Issued
  <1>6. /\ ReadBeats \in 1..Beats /\ issued * Beats \in Nat
        /\ (issued * Beats) + ReadBeats <= length
        /\ (issued * Beats) + ReadBeats
             = IF issued + 1 = ReadsOf(length) THEN length ELSE (issued + 1) * Beats
    BY <1>1, <1>2, <1>3, <1>4, NextRead, ZenonT(60)
  <1> QED
    BY <1>1, <1>2, <1>3, <1>5, <1>6, Zenon

\* What is asked for of the host, and what is passed on, from clock to clock.
LEMMA Progress ==
  ASSUME NEW start, NEW ready, NEW cpl, NEW take, NEW g, NEW n,
         Tick(start, ready, cpl, take, g, n), start = 0
  PROVE  /\ Issued \in Nat /\ Issued' = Issued + n
         /\ Drained \in Nat /\ Drained' = Drained + g
         /\ left \in Nat /\ left' = left - g /\ (g = 1 => Drained < Issued)
         /\ (req' = "start" => Issued' < length)
         /\ length \in Nat /\ Issued' <= length
         /\ (n > 0 => /\ mrd # None /\ n = mrd.words /\ mrd.first = Issued
                      /\ req = "start" /\ Issues(n))
  <1>1. /\ Inv /\ Drain(start) /\ g \in {0, 1} /\ (g = 1 <=> Taking)
    BY TickFacts
  <1>2. /\ length' = length /\ ~Edge(start)
        /\ Rests(n) \/ Issues(n) \/ Offers(n) \/ Prepares(n)
    BY RequestCases
  <1>3. /\ length \in Nat /\ left \in Nat /\ issued \in Nat
        /\ tr \in {"idle", "start"} /\ left <= length /\ (tr = "idle" <=> left = 0)
    BY <1>1 DEF Inv, Safe, Typed, TypeOK, RequestOK
  <1>4. Drained \in Nat /\ Drained = length - left
    BY <1>3, SMT DEF Drained
  <1>5. Issued \in Nat
    <2>1. issued * Beats \in Nat
      BY <1>3, TimesNext
    <2> QED
      BY <1>3, <2>1, SMT DEF Issued
  <1>6. left' = left - g
    <2>1. CASE tr = "idle"
      <3>1. left = 0 /\ g = 0
        BY <1>1, <1>3, <2>1 DEF Taking
      <3>2. left' = 0
        BY <1>1, <1>2, <2>1, Zenon DEF Drain, LeftNext
      <3> QED
        BY <3>1, <3>2
    <2>2. CASE tr # "idle"
      <3>1. left' = IF Taking THEN left - 1 ELSE left
        BY <1>1, <2>2, Zenon DEF Drain, LeftNext
      <3> QED
        BY <1>1, <1>3, <3>1, SMT
    <2> QED
      BY <2>1, <2>2
  <1>7. Drained' = Drained + g
    <2>1. Drained' = length - left'
      BY <1>2, Zenon DEF Drained
    <2> QED
      BY <1>1, <1>3, <1>4, <1>6, <2>1, SMT
  <1>8. g = 1 => Drained < Issued
    <2>1. rdptr \in Tag
      BY <1>1 DEF Inv, Safe, Typed, TypeOK
    <2> QED
      BY <1>1, <2>1, Popping, FirstWord
  <1>9. /\ Issued' = Issued + n /\ Issued' <= length
        /\ (req' = "start" => Issued' < length)
        /\ (n > 0 => /\ mrd # None /\ n = mrd.words /\ mrd.first = Issued
                     /\ req = "start" /\ Issues(n))
    <2>1. CASE Rests(n)
      BY <1>2, <1>3, <2>1, SMT DEF Rests, Issued
    <2>2. CASE Issues(n)
      <3>1. mrd.first = issued * Beats /\ mrd.words = ReadBeats
        BY <1>1, <2>2 DEF Issues, Inv, MrdOK
      <3>2. /\ length \in Nat \ {0} /\ ReadBeats \in 1..Beats
            /\ Issued = issued * Beats
            /\ Issued + ReadBeats <= length
            /\ Issued + ReadBeats = IF issued + 1 = reads THEN length ELSE (issued + 1) * Beats
        BY <1>1, <2>2, NextPart DEF Issues
      <3>3. Issued' = IF issued + 1 = reads THEN length ELSE (issued + 1) * Beats
        BY <1>2, <2>2, Zenon DEF Issues, Issued
      <3>4. Issued' = Issued + n /\ Issued' <= length
        BY <2>2, <3>1, <3>2, <3>3, Zenon DEF Issues
      <3>5. ASSUME req' = "start" PROVE Issued' < length
        <4>1. issued + 1 # reads /\ issued < reads /\ reads = ReadsOf(length)
          BY <1>1, <2>2, <3>5 DEF Issues, Inv, RequestOK
        <4>2. ReadsOf(length) \in Nat \ {0} /\ issued + 1 \in Nat
          BY <1>3, <3>2, ReadsFacts, SMT
        <4>3. issued + 1 < ReadsOf(length)
          BY <1>3, <4>1, <4>2, SMT
        <4>4. PICK w : w = IF issued + 1 = ReadsOf(length) - 1 THEN LastOf(length) ELSE Beats
          OBVIOUS
        <4>5. /\ w \in 1..Beats /\ (issued + 1) * Beats \in Nat
              /\ ((issued + 1) * Beats) + w <= length
          BY <3>2, <4>2, <4>3, <4>4, NextRead, Zenon
        <4>6. Issued' = (issued + 1) * Beats
          BY <3>3, <4>1, Zenon
        <4> QED
          BY <1>3, <4>5, <4>6, SizesAssumption, SMT
      <3> QED
        BY <2>2, <3>1, <3>2, <3>4, <3>5, Zenon DEF Issues
    <2>3. CASE Offers(n) \/ Prepares(n)
      <3>1. req = "start" /\ req' = "start" /\ issued' = issued /\ n = 0
        BY <2>3 DEF Offers, Prepares
      <3>2. Issued' = Issued /\ Issued = issued * Beats
        BY <3>1, Zenon DEF Issued
      <3>3. Issued + ReadBeats <= length /\ ReadBeats \in 1..Beats
        BY <1>1, <3>1, NextPart
      <3>4. Issued < length
        BY <1>3, <1>5, <3>3, SizesAssumption, SMT
      <3> QED
        BY <1>3, <1>5, <3>1, <3>2, <3>4, SMT
    <2> QED
      BY <1>2, <2>1, <2>2, <2>3
  <1> QED
    BY <1>3, <1>4, <1>5, <1>6, <1>7, <1>8, <1>9

LEMMA RequestStep ==
  ASSUME NEW start, NEW ready, NEW cpl, NEW take, NEW g, NEW n,
         Tick(start, ready, cpl, take, g, n), start = 0
  PROVE  RequestOK'
  <1>1. /\ Inv /\ Typed' /\ Drain(start) /\ AllocateTag(ready) /\ g \in {0, 1} /\ (g = 1 <=> Taking)
    BY TickFacts
  <1>2. /\ length' = length /\ ~startReg' /\ ~Edge(start)
        /\ Rests(n) \/ Issues(n) \/ Offers(n) \/ Prepares(n)
        /\ tagWe' => Prepares(n)
    BY RequestCases
  <1>3. /\ Issued \in Nat /\ Issued' = Issued + n
        /\ Drained \in Nat /\ Drained' = Drained + g
        /\ left \in Nat /\ left' = left - g /\ (g = 1 => Drained < Issued)
        /\ (req' = "start" => Issued' < length)
        /\ length \in Nat /\ Issued' <= length
    BY Progress
  <1>4. ASSUME req' = "start" PROVE issued' < reads' /\ reads' = ReadsOf(length') /\ left' > 0
    <2>1. req = "start" /\ reads' = reads /\ (issued' = issued \/ (issued' = issued + 1 /\ issued + 1 # reads))
      BY <1>2, <1>4 DEF Rests, Issues, Offers, Prepares
    <2>2. issued < reads /\ reads = ReadsOf(length) /\ left > 0 /\ left <= length
      BY <1>1, <2>1 DEF Inv, RequestOK
    <2>3. issued \in Nat /\ reads \in Nat
      BY <1>1 DEF Inv, Safe, Typed, TypeOK
    <2>4. left' > 0
      <3>1. CASE g = 0
        BY <1>3, <2>2, <3>1, SMT
      <3>2. CASE g = 1
        <4>1. Issued < length /\ Drained < Issued /\ Drained = length - left
          <5>1. n \in Nat
            BY TickFacts
          <5> QED
            BY <1>3, <1>4, <3>2, <5>1, SMT DEF Drained
        <4> QED
          BY <1>3, <3>2, <4>1, SMT
      <3> QED
        BY <1>1, <3>1, <3>2
    <2> QED
      BY <1>2, <2>1, <2>2, <2>3, <2>4, SMT
  <1>5. tagWe' => req' = "start" /\ mrd' = None
    BY <1>2 DEF Prepares
  <1>6. left' <= length'
    <2>1. left <= length
      BY <1>1 DEF Inv, RequestOK
    <2> QED
      BY <1>1, <1>2, <1>3, <2>1, SMT
  <1>7. tr' = "idle" <=> left' = 0
    <2>1. tr \in {"idle", "start"} /\ (tr = "idle" <=> left = 0)
      BY <1>1 DEF Inv, Safe, Typed, TypeOK, RequestOK
    <2>2. CASE tr = "idle"
      <3>1. tr' = "idle" /\ left' = 0
        BY <1>1, <1>2, <2>2, Zenon DEF Drain, LeftNext
      <3> QED
        BY <3>1
    <2>3. CASE tr = "start"
      <3>1. tr' = (IF LeftNext(start) = 0 THEN "idle" ELSE "start") /\ left' = LeftNext(start)
        BY <1>1, <2>3 DEF Drain
      <3> QED
        BY <3>1
    <2> QED
      BY <2>1, <2>2, <2>3
  <1> QED
    BY <1>2, <1>4, <1>5, <1>6, <1>7 DEF RequestOK

-----------------------------------------------------------------------------
(***************************************************************************)
(* The ring of tags.                                                       *)
(***************************************************************************)

\* The stretch in use loses its first tag when that is released and gains the
\* one written; the others keep their order.
RingMoves ==
  /\ rdptr' = IF tagRd THEN Succ(rdptr) ELSE rdptr
  /\ tagRd => tagCount > 0
  /\ tagCount' = (tagCount + (IF tagWe THEN 1 ELSE 0)) - (IF tagRd THEN 1 ELSE 0)
  /\ \A t \in Tag : Pos(t) \in 0..(Tags - 1) /\ Pos(t)' \in 0..(Tags - 1)
  /\ \A t \in Tag : ~Leaving(t) => Pos(t)' = Pos(t) - (IF tagRd THEN 1 ELSE 0)
  /\ \A t \in Tag : Leaving(t) => Pos(t) = 0 /\ Pos(t)' = Tags - 1
  /\ \A t \in Tag : InRing(t) /\ ~Leaving(t) => InRing(t)'
  /\ \A t \in Tag : InRing(t)' => (InRing(t) /\ ~Leaving(t)) \/ (tagWe /\ t = wrTag)
  /\ tagWe => /\ Pos(wrTag) = tagCount /\ ~Leaving(wrTag) /\ tagCount < Tags
              /\ wrTag \in Tag

LEMMA RingStep ==
  ASSUME NEW start, NEW ready, NEW cpl, NEW take, NEW g, NEW n,
         Tick(start, ready, cpl, take, g, n), start = 0
  PROVE  RingMoves
  <1>1. /\ Inv /\ Typed /\ Typed' /\ AllocateTag(ready) /\ ReleaseTag(start)
    BY TickFacts
  <1>2. ~Edge(start)
    BY RequestCases
  <1>3. /\ rdptr \in Tag /\ rdptr' \in Tag /\ wrTag \in Tag /\ tagCount \in 0..Tags
        /\ tagWe \in BOOLEAN /\ tagRd \in BOOLEAN /\ (tagWe => tagCount < Tags)
    BY <1>1 DEF Typed, TypeOK, Margins
  <1>4. tagRd => tagCount > 0
    BY <1>1 DEF Inv, RingOK
  <1>5. rdptr' = IF tagRd THEN Succ(rdptr) ELSE rdptr
    <2>1. (rdptr + 1) % Tags = Succ(rdptr)
      BY <1>3, NextTagIs
    <2> QED
      BY <1>1, <1>2, <2>1, Zenon DEF ReleaseTag
  <1>6. tagCount' = (tagCount + (IF tagWe THEN 1 ELSE 0)) - (IF tagRd THEN 1 ELSE 0)
    <2>1. tagCount' = (IF tagWe THEN tagCount + 1 ELSE tagCount)
                      - (IF tagRd /\ tagCount > 0 THEN 1 ELSE 0)
      BY <1>1, Zenon DEF AllocateTag
    <2> QED
      BY <1>3, <1>4, <2>1, SMT
  <1>7. /\ \A t \in Tag : Pos(t) \in 0..(Tags - 1)
        /\ Pos(rdptr) = 0 /\ \A t, u \in Tag : Pos(t) = Pos(u) => t = u
    BY <1>3, PosFacts
  <1>8. \A t \in Tag : Pos(t)' = IF tagRd THEN (IF t = rdptr THEN Tags - 1 ELSE Pos(t) - 1)
                                 ELSE Pos(t)
    <2>1. CASE tagRd
      BY <1>3, <1>5, <2>1, PosNext
    <2>2. CASE ~tagRd
      BY <1>5, <2>2, Zenon DEF Pos
    <2> QED
      BY <2>1, <2>2
  <1>13. \A t \in Tag : Pos(t)' \in 0..(Tags - 1)
    <2> SUFFICES ASSUME NEW t \in Tag PROVE Pos(t)' \in 0..(Tags - 1)
      OBVIOUS
    <2>1. Pos(t) \in 0..(Tags - 1) /\ (Pos(t) = 0 => t = rdptr)
      BY <1>3, <1>7
    <2>2. CASE tagRd /\ t # rdptr
      <3>1. Pos(t)' = Pos(t) - 1
        BY <1>8, <2>2
      <3> QED
        BY <2>1, <2>2, <3>1, SizesAssumption, SMT
    <2>3. CASE tagRd /\ t = rdptr
      <3>1. Pos(t)' = Tags - 1
        BY <1>8, <2>3
      <3> QED
        BY <3>1, SizesAssumption, SMT
    <2>4. CASE ~tagRd
      BY <1>8, <2>1, <2>4
    <2> QED
      BY <2>2, <2>3, <2>4
  <1>9. tagWe => /\ Pos(wrTag) = tagCount /\ ~Leaving(wrTag) /\ tagCount < Tags
                 /\ wrTag \in Tag
    <2> SUFFICES ASSUME tagWe PROVE Pos(wrTag) = tagCount /\ ~Leaving(wrTag)
      BY <1>3
    <2>1. req = "start" /\ tagCount < Tags
      BY <1>1, <1>3 DEF Inv, RequestOK
    <2>2. Pos(wrTag) = tagCount
      BY <1>1, <1>3, <2>1, SizesAssumption, SMT DEF Inv, RingOK
    <2>3. ~Leaving(wrTag)
      BY <1>1, <1>3, <1>4, <1>7, <2>2, SMT DEF Leaving
    <2> QED
      BY <2>2, <2>3
  <1>10. \A t \in Tag : ~Leaving(t) => Pos(t)' = Pos(t) - (IF tagRd THEN 1 ELSE 0)
    BY <1>7, <1>8, SMT DEF Leaving
  <1>14. \A t \in Tag : Leaving(t) => Pos(t) = 0 /\ Pos(t)' = Tags - 1
    BY <1>7, <1>8, Zenon DEF Leaving
  <1>11. ASSUME NEW t \in Tag, InRing(t), ~Leaving(t) PROVE InRing(t)'
    <2>1. Pos(t) < tagCount /\ Pos(t)' = Pos(t) - (IF tagRd THEN 1 ELSE 0)
      BY <1>10, <1>11 DEF InRing
    <2>2. Pos(t) \in 0..(Tags - 1)
      BY <1>7
    <2>3. Pos(t)' < tagCount'
      BY <1>3, <1>6, <2>1, <2>2, SizesAssumption, SMT
    <2> QED
      BY <2>3 DEF InRing
  <1>12. ASSUME NEW t \in Tag, InRing(t)'
         PROVE  (InRing(t) /\ ~Leaving(t)) \/ (tagWe /\ t = wrTag)
    <2>1. Pos(t)' < tagCount' /\ Pos(t) \in 0..(Tags - 1)
      BY <1>7, <1>12 DEF InRing
    <2>2. ~Leaving(t)
      <3> SUFFICES ASSUME tagRd, t = rdptr PROVE FALSE
        BY DEF Leaving
      <3>1. Pos(t)' = Tags - 1
        BY <1>8
      <3>2. tagCount' <= Tags - 1
        BY <1>3, <1>6, SizesAssumption, SMT
      <3> QED
        BY <1>3, <1>6, <2>1, <3>1, <3>2, SizesAssumption, SMT
    <2>3. Pos(t)' = Pos(t) - (IF tagRd THEN 1 ELSE 0)
      BY <1>10, <2>2
    <2>4. Pos(t) < tagCount + (IF tagWe THEN 1 ELSE 0)
      BY <1>3, <1>6, <2>1, <2>3, SizesAssumption, SMT
    <2>5. CASE Pos(t) < tagCount
      BY <2>2, <2>5 DEF InRing
    <2>6. CASE ~(Pos(t) < tagCount)
      <3>1. tagWe /\ Pos(t) = tagCount
        BY <1>3, <2>1, <2>4, <2>6, SMT
      <3> QED
        BY <1>7, <1>9, <3>1
    <2> QED
      BY <2>5, <2>6
  <1> QED
    BY <1>4, <1>5, <1>6, <1>7, <1>9, <1>10, <1>11, <1>12, <1>13, <1>14 DEF RingMoves

\* The table of words: a tag in use keeps its entry, the one written gets it.
LEMMA TableStep ==
  ASSUME NEW start, NEW ready, NEW cpl, NEW take, NEW g, NEW n,
         Tick(start, ready, cpl, take, g, n), start = 0
  PROVE  /\ \A t \in Tag : InRing(t) /\ ~Leaving(t) => table'[t] = table[t]
         /\ tagWe => table'[wrTag] = ReadBeats /\ ReadBeats \in 1..Beats
  <1>1. /\ Inv /\ Typed /\ AllocateTag(ready) /\ tagCount \in 0..Tags
    <2>1. Typed => tagCount \in 0..Tags
      BY DEF Typed, TypeOK
    <2> QED
      BY <2>1, TickFacts
  <1>2. RingMoves
    BY RingStep
  <1>3. \A t \in Tag : table'[t] = IF tagRd /\ t = rdptr THEN 0
                                   ELSE IF tagWe /\ t = wrTag THEN ReadBeats ELSE table[t]
    BY <1>1, Zenon DEF AllocateTag
  <1>4. ASSUME NEW t \in Tag, InRing(t), ~Leaving(t) PROVE table'[t] = table[t]
    <2>1. ~(tagWe /\ t = wrTag)
      <3> SUFFICES ASSUME tagWe, t = wrTag PROVE FALSE
        OBVIOUS
      <3>1. Pos(t) = tagCount /\ Pos(t) < tagCount
        BY <1>2, <1>4 DEF RingMoves, InRing
      <3> QED
        BY <1>1, <3>1, SMT
    <2> QED
      BY <1>3, <1>4, <2>1, Zenon DEF Leaving
  <1>5. ASSUME tagWe PROVE table'[wrTag] = ReadBeats
    BY <1>2, <1>3, <1>5, Zenon DEF RingMoves, Leaving
  <1>6. ReadBeats \in 1..Beats
    BY <1>1, ReadBeatsRange
  <1> QED
    BY <1>4, <1>5, <1>6

\* The tag being emptied is released with its last word, and not before.
Emptying(g) ==
  /\ g = 1 => /\ ~tagRd /\ Size(rdptr) > 0 /\ InRing(rdptr) /\ rdEn = rdptr
              /\ Size(rdptr) + taken = table[rdptr]
  /\ tagRd' => ~tagRd /\ g = 1 /\ Size(rdptr) = 1
  /\ g = 1 /\ Size(rdptr) = 1 => tagRd'
  /\ g = 1 => taken' = IF Size(rdptr) = 1 THEN 0 ELSE taken + 1
  /\ g = 0 => taken' = IF Size(rdptr) > 0 THEN taken ELSE 0

LEMMA EmptyStep ==
  ASSUME NEW start, NEW ready, NEW cpl, NEW take, NEW g, NEW n,
         Tick(start, ready, cpl, take, g, n), start = 0
  PROVE  Emptying(g)
  <1>1. /\ Inv /\ Typed /\ Drain(start) /\ ReleaseTag(start) /\ g \in {0, 1} /\ (g = 1 <=> Taking)
    BY TickFacts
  <1>2. ~Edge(start)
    BY RequestCases
  <1>3. /\ rdptr \in Tag /\ taken \in Nat /\ table[rdptr] \in 0..Beats /\ table[rdptr] \in Nat
        /\ tr \in {"idle", "start"} /\ tagCount \in 0..Tags
    BY <1>1, SizesAssumption, SMT DEF Typed, TypeOK
  <1>4. Size(rdptr) \in Nat
    BY <1>1, <1>3, SizeTypes
  <1>5. /\ Size(rdptr) > 0 => /\ Size(rdptr) + taken = table[rdptr] /\ InRing(rdptr)
                              /\ ~tagRd
        /\ Size(rdptr) = 0 => taken = 0
        /\ InRing(rdptr) => table[rdptr] >= 1
    <2>1. /\ InRing(rdptr) => table[rdptr] >= 1
          /\ Size(rdptr) > 0 => InRing(rdptr) /\ ~Leaving(rdptr)
          /\ IF Size(rdptr) > 0 THEN Size(rdptr) + taken = table[rdptr] ELSE taken = 0
      BY <1>1, <1>3 DEF Inv, TagOK
    <2> QED
      BY <1>4, <2>1, SMT DEF Leaving
  <1>6. g = 1 => Size(rdptr) > 0 /\ rdEn = rdptr /\ tr = "start"
    BY <1>1, <1>3, Popping DEF Taking, Pops
  <1>7. Size(rdptr) > 0 => tr = "start"
    <2> SUFFICES ASSUME Size(rdptr) > 0, tr = "idle" PROVE FALSE
      BY <1>3
    <2>1. left = 0
      BY <1>1 DEF Inv, RequestOK
    <2>2. Drained < Issued
      BY <1>1, FirstWord
    <2>3. Issued' <= length /\ Issued' = Issued + n /\ Issued \in Nat /\ length \in Nat
      BY Progress
    <2>4. n \in Nat
      BY TickFacts
    <2> QED
      BY <2>1, <2>2, <2>3, <2>4, SMT DEF Drained
  <1>8. TakenNext = taken + g
    <2>1. CASE tr = "idle"
      <3>1. g = 0 /\ Size(rdptr) = 0
        BY <1>1, <1>4, <1>6, <1>7, <2>1, SMT
      <3> QED
        BY <1>5, <2>1, <3>1 DEF TakenNext
    <2>2. CASE tr = "start"
      BY <1>1, <1>3, <2>2, SMT DEF TakenNext
    <2> QED
      BY <1>3, <2>1, <2>2
  <1>9. taken' = IF taken + g = table[rdptr] THEN 0 ELSE taken + g
    BY <1>1, <1>8, Zenon DEF Drain
  <1>10. /\ tagRd => ~tagRd'
         /\ ~tagRd => tagRd' = (rdEn = rdptr /\ taken + g = table[rdptr])
    BY <1>1, <1>2, <1>8, Zenon DEF ReleaseTag
  <1>11. ASSUME g = 1
         PROVE  /\ ~tagRd /\ Size(rdptr) > 0 /\ InRing(rdptr) /\ rdEn = rdptr
                /\ Size(rdptr) + taken = table[rdptr]
                /\ (Size(rdptr) = 1 => tagRd')
                /\ taken' = IF Size(rdptr) = 1 THEN 0 ELSE taken + 1
    <2>1. /\ ~tagRd /\ Size(rdptr) > 0 /\ InRing(rdptr) /\ rdEn = rdptr
          /\ Size(rdptr) + taken = table[rdptr]
      BY <1>5, <1>6, <1>11
    <2>2. Size(rdptr) = 1 => taken + g = table[rdptr]
      BY <1>3, <1>11, <2>1, SMT
    <2>3. taken + g = table[rdptr] => Size(rdptr) = 1
      BY <1>3, <1>4, <1>11, <2>1, SMT
    <2>4. Size(rdptr) = 1 => tagRd'
      BY <1>10, <2>1, <2>2, Zenon
    <2> QED
      BY <1>9, <1>11, <2>1, <2>2, <2>3, <2>4, Zenon
  <1>12. ASSUME tagRd' PROVE ~tagRd /\ g = 1 /\ Size(rdptr) = 1
    <2>1. ~tagRd /\ rdEn = rdptr /\ taken + g = table[rdptr]
      BY <1>10, <1>12, Zenon
    <2>2. tagCount > 0
      BY <1>1, <1>3, <2>1, NoneAssumption DEF Inv, RingOK
    <2>3. Pos(rdptr) = 0
      BY <1>3, PosFacts
    <2>4. InRing(rdptr)
      BY <2>2, <2>3, Zenon DEF InRing
    <2>5. g = 1
      BY <1>1, <1>3, <1>4, <1>5, <2>1, <2>4, SMT
    <2>6. Size(rdptr) = 1
      BY <1>3, <1>4, <1>11, <2>1, <2>5, SMT
    <2> QED
      BY <2>1, <2>5, <2>6
  <1>13. ASSUME g = 0 PROVE taken' = IF Size(rdptr) > 0 THEN taken ELSE 0
    <2>1. taken + g = taken
      BY <1>3, <1>13
    <2>2. CASE Size(rdptr) > 0
      <3>1. taken # table[rdptr]
        BY <1>3, <1>4, <1>5, <2>2, SMT
      <3> QED
        BY <1>9, <2>1, <2>2, <3>1, Zenon
    <2>3. CASE ~(Size(rdptr) > 0)
      <3>1. taken = 0
        BY <1>4, <1>5, <2>3, SMT
      <3> QED
        BY <1>9, <2>1, <2>3, <3>1, Zenon
    <2> QED
      BY <2>2, <2>3
  <1> QED
    BY <1>11, <1>12, <1>13, Zenon DEF Emptying

LEMMA RingOKStep ==
  ASSUME NEW start, NEW ready, NEW cpl, NEW take, NEW g, NEW n,
         Tick(start, ready, cpl, take, g, n), start = 0
  PROVE  RingOK'
  <1>1. /\ Inv /\ Typed /\ Typed' /\ AllocateTag(ready) /\ Drain(start) /\ OutputFifo(take)
        /\ g \in {0, 1} /\ (g = 1 <=> Taking) /\ take \in BOOLEAN
    BY TickFacts
  <1>2. RingMoves /\ Emptying(g)
    BY RingStep, EmptyStep
  <1>3. /\ rdptr \in Tag /\ wrTag \in Tag /\ tagCount \in 0..Tags /\ tagCount' \in 0..Tags
        /\ tagWe \in BOOLEAN /\ tagRd \in BOOLEAN
    BY <1>1 DEF Typed, TypeOK
  <1>4. /\ tagCount' = (tagCount + (IF tagWe THEN 1 ELSE 0)) - (IF tagRd THEN 1 ELSE 0)
        /\ rdptr' = IF tagRd THEN Succ(rdptr) ELSE rdptr
        /\ (tagRd => tagCount > 0)
    BY <1>2, Zenon DEF RingMoves
  <1>5. ASSUME req' = "start" PROVE Pos(wrTag)' = IF tagCount' = Tags THEN 0 ELSE tagCount'
    <2>1. req = "start"
      BY <1>5, RequestCases DEF Rests, Issues, Offers, Prepares
    <2>2. Pos(wrTag) = IF tagCount = Tags THEN 0 ELSE tagCount
      BY <1>1, <2>1 DEF Inv, RingOK
    <2>3. wrTag' = IF tagWe THEN Succ(wrTag) ELSE wrTag
      <3>1. (wrTag + 1) % Tags = Succ(wrTag)
        BY <1>3, NextTagIs
      <3> QED
        BY <1>1, <2>1, <3>1, Zenon DEF AllocateTag
    <2>4. PICK w \in Tag : w = wrTag'
      BY <1>1 DEF Typed, TypeOK
    <2>5. PICK c \in Nat, d \in {0, 1} : c = tagCount' /\ d = (IF tagRd THEN 1 ELSE 0)
      BY <1>3, SizesAssumption, SMT
    <2>6. Pos(w) \in 0..(Tags - 1) /\ (Pos(w) = 0 => w = rdptr) /\ c <= Tags
          /\ Tags \in Nat \ {0}
      BY <1>3, <2>5, PosFacts, SizesAssumption
    <2>7. Pos(w) = IF c + d = Tags THEN 0 ELSE c + d
      <3>1. CASE tagWe
        <4>1. Pos(w) = IF Pos(wrTag) + 1 = Tags THEN 0 ELSE Pos(wrTag) + 1
          BY <1>3, <2>3, <2>4, <3>1, PosFacts
        <4>2. Pos(wrTag) = tagCount /\ tagCount + 1 = c + d
          BY <1>2, <1>3, <1>4, <2>5, <3>1, SMT DEF RingMoves
        <4> QED
          BY <4>1, <4>2
      <3>2. CASE ~tagWe
        <4>1. tagCount = c + d
          BY <1>3, <1>4, <2>5, <3>2, SMT
        <4>2. Pos(w) = Pos(wrTag)
          BY <2>3, <2>4, <3>2, Zenon
        <4> QED
          BY <2>2, <4>1, <4>2
      <3> QED
        BY <3>1, <3>2
    <2>9. Pos(w)' = IF c = Tags THEN 0 ELSE c
      <3>1. CASE ~tagRd
        <4>1. Pos(w)' = Pos(w) /\ d = 0
          BY <1>4, <2>5, <3>1, Zenon DEF Pos
        <4> QED
          BY <2>6, <2>7, <4>1, SMT
      <3>2. CASE tagRd /\ w = rdptr
        <4>1. Leaving(w) /\ d = 1
          BY <2>5, <3>2 DEF Leaving
        <4>2. Pos(w)' = Tags - 1 /\ Pos(w) = 0
          BY <1>2, <4>1 DEF RingMoves
        <4> QED
          BY <2>6, <2>7, <4>1, <4>2, SMT
      <3>3. CASE tagRd /\ w # rdptr
        <4>1. ~Leaving(w) /\ d = 1
          BY <2>5, <3>3 DEF Leaving
        <4>2. Pos(w)' = Pos(w) - 1 /\ Pos(w) # 0
          BY <1>2, <2>6, <3>3, <4>1 DEF RingMoves
        <4> QED
          BY <2>6, <2>7, <4>1, <4>2, SMT
      <3> QED
        BY <3>1, <3>2, <3>3
    <2>8. Pos(wrTag)' = Pos(w)'
      BY <2>4, Zenon DEF Pos
    <2> QED
      BY <2>5, <2>8, <2>9, Zenon
  <1>6. ASSUME InRing(rdptr), ~tagRd PROVE rdptr' = rdptr /\ tagCount' > 0
    <2>1. tagCount > 0
      <3>1. Pos(rdptr) = 0 /\ Pos(rdptr) < tagCount
        BY <1>3, <1>6, PosFacts DEF InRing
      <3> QED
        BY <3>1
    <2> QED
      BY <1>3, <1>4, <1>6, <2>1, SMT
  <1>7. ASSUME rdEn' # None PROVE rdEn' = rdptr' /\ tagCount' > 0
    <2>1. rdEn' = rdptr /\ fifo[rdptr] # <<>>
      BY <1>1, <1>7 DEF Drain
    <2>2. fifo[rdptr] \in Seq(Word) /\ Kept(rdptr) \in Nat /\ Due(rdptr) \in Nat
          /\ Arriving(rdptr) \in {0, 1}
      BY <1>1, <1>3, SizeTypes
    <2>3. Kept(rdptr) # 0
      BY <2>1, <2>2 DEF Kept
    <2>4. Size(rdptr) > 0
      BY <2>2, <2>3, SMT DEF Size, Here
    <2>5. InRing(rdptr) /\ ~tagRd
      BY <1>1, <1>3, <2>4 DEF Inv, TagOK, Leaving
    <2> QED
      BY <1>6, <2>1, <2>5
  <1>8. ASSUME tagRd' PROVE tagCount' > 0 /\ Len(outFifo') >= 1
    <2>1. ~tagRd /\ g = 1 /\ InRing(rdptr)
      BY <1>2, <1>8, Zenon DEF Emptying
    <2>2. tagCount' > 0
      BY <1>6, <2>1
    <2>3. Taking /\ OutWord \in Word
      BY <1>1, <2>1, OutWordType
    <2>4. outFifo \in Seq(Word) /\ Len(outFifo) \in Nat
      <3>1. outFifo \in Seq(Word)
        BY <1>1 DEF Typed, TypeOK
      <3> QED
        BY <3>1
    <2>5. Len(outFifo) < OutDepth
      <3>1. Len(outFifo) <= OutHalf + 1
        BY <1>1, <2>3, TakingReads DEF Inv, Safe, Room
      <3> QED
        BY <2>4, <3>1, SizesAssumption, SMT
    <2>6. PICK k \in Seq(Word) : outFifo' = k \o <<OutWord>>
      <3>1. outFifo # <<>> => Tail(outFifo) \in Seq(Word)
        BY <2>4
      <3>2. outFifo' = (IF outFifo # <<>> /\ (axis = None \/ take) THEN Tail(outFifo) ELSE outFifo)
                       \o <<OutWord>>
        BY <1>1, <2>3, <2>5, Zenon DEF OutputFifo
      <3> QED
        BY <2>4, <3>1, <3>2
    <2>7. Len(outFifo') >= 1
      BY <2>3, <2>6
    <2> QED
      BY <2>2, <2>7
  <1> QED
    BY <1>5, <1>7, <1>8, Zenon DEF RingOK

\* No word is asked for, or passed on, under the tag that a read gets.
LEMMA MrdOKStep ==
  ASSUME NEW start, NEW ready, NEW cpl, NEW take, NEW g, NEW n,
         Tick(start, ready, cpl, take, g, n), start = 0
  PROVE  MrdOK'
  <1> SUFFICES ASSUME mrd' # None
      PROVE  /\ req' = "start" /\ mrd'.first = issued' * Beats /\ mrd'.words = ReadBeats'
             /\ tagCount' > 0 /\ Pos(mrd.tag)' = tagCount' - 1
             /\ table'[mrd'.tag] = mrd'.words /\ Size(mrd.tag)' = 0 /\ ~Leaving(mrd.tag)'
    BY Zenon DEF MrdOK
  <1>1. /\ Inv /\ Typed /\ tagCount \in 0..Tags /\ wrTag \in Tag /\ rdptr \in Tag
    <2>1. Typed => tagCount \in 0..Tags /\ wrTag \in Tag /\ rdptr \in Tag
      BY DEF Typed, TypeOK
    <2> QED
      BY <2>1, TickFacts
  <1>2. Offers(n) /\ length' = length
    BY RequestCases DEF Rests, Issues, Prepares
  <1>3. /\ req' = "start" /\ issued' = issued /\ reads' = reads /\ tagWe /\ mrd = None /\ n = 0
        /\ mrd' = [tag |-> wrTag, first |-> issued * Beats, words |-> ReadBeats]
    BY <1>2 DEF Offers
  <1>4. mrd'.tag = wrTag /\ mrd'.first = issued * Beats /\ mrd'.words = ReadBeats
    BY <1>3
  <1>5. ReadBeats' = ReadBeats
    BY <1>2, <1>3, Zenon DEF ReadBeats
  <1>6. RingMoves /\ Emptying(g) /\ table'[wrTag] = ReadBeats
    BY <1>3, RingStep, EmptyStep, TableStep
  <1>7. PICK w \in Tag : w = wrTag
    BY <1>1
  <1>8. /\ Pos(w) = tagCount /\ ~Leaving(w) /\ tagCount < Tags
        /\ Pos(w)' = Pos(w) - (IF tagRd THEN 1 ELSE 0)
        /\ tagCount' = (tagCount + 1) - (IF tagRd THEN 1 ELSE 0)
        /\ (tagRd => tagCount > 0)
        /\ rdptr' = IF tagRd THEN Succ(rdptr) ELSE rdptr
    <2>1. Pos(w) = tagCount /\ ~Leaving(w) /\ tagCount < Tags
      BY <1>3, <1>6, <1>7, Zenon DEF RingMoves
    <2>2. Pos(w)' = Pos(w) - (IF tagRd THEN 1 ELSE 0)
      BY <1>6, <2>1, Zenon DEF RingMoves
    <2>3. tagCount' = (tagCount + 1) - (IF tagRd THEN 1 ELSE 0)
      BY <1>3, <1>6 DEF RingMoves
    <2> QED
      BY <1>6, <2>1, <2>2, <2>3, Zenon DEF RingMoves
  <1>9. tagCount' > 0 /\ Pos(w)' = tagCount' - 1
    <2>1. tagRd \in BOOLEAN
      BY <1>1 DEF Typed, TypeOK
    <2>2. CASE tagRd
      BY <1>1, <1>8, <2>2, SMT
    <2>3. CASE ~tagRd
      BY <1>1, <1>8, <2>3, SMT
    <2> QED
      BY <2>2, <2>3
  <1>10. Size(w) = 0
    <2>1. ~InRing(w)
      BY <1>1, <1>8, SMT DEF InRing
    <2>2. Size(w) \in Nat
      BY <1>1, SizeTypes
    <2>3. ~(Size(w) > 0)
      BY <1>1, <2>1 DEF Inv, TagOK
    <2> QED
      BY <2>2, <2>3, SMT
  <1>11. Size(w)' = 0
    <2>1. TagFlow(w, g, n)
      BY TagFlows
    <2>2. New(w, n) = 0
      BY <1>3 DEF New
    <2>3. Gone(w, g) \in {0, 1} /\ Gone(w, g) <= Size(w)
          /\ Size(w)' = (Size(w) - Gone(w, g)) + New(w, n)
      BY <2>1, Zenon DEF TagFlow
    <2> QED
      BY <1>10, <2>2, <2>3, SMT
  <1>12. ~(tagRd' /\ w = rdptr')
    <2> SUFFICES ASSUME tagRd', w = rdptr' PROVE FALSE
      OBVIOUS
    <2>1. ~tagRd /\ Size(rdptr) = 1
      BY <1>6, Zenon DEF Emptying
    <2>2. rdptr' = rdptr
      BY <1>8, <2>1
    <2> QED
      BY <1>10, <2>1, <2>2
  <1>13. mrd'.tag = w
    BY <1>4, <1>7
  <1>14. Pos(mrd.tag)' = Pos(w)' /\ Size(mrd.tag)' = Size(w)' /\ (Leaving(mrd.tag)' <=> tagRd' /\ w = rdptr')
    BY <1>13, Zenon DEF Pos, Size, Here, Kept, Arriving, Due, Leaving
  <1> QED
    BY <1>3, <1>4, <1>5, <1>6, <1>7, <1>9, <1>11, <1>12, <1>13, <1>14

\* The tag whose read is accepted is in use and holds no word yet.
LEMMA NewWords ==
  ASSUME NEW start, NEW ready, NEW cpl, NEW take, NEW g, NEW n,
         Tick(start, ready, cpl, take, g, n), start = 0,
         NEW t \in Tag, New(t, n) > 0
  PROVE  /\ t = mrd.tag /\ New(t, n) = n /\ n \in Nat \ {0} /\ n = mrd.words /\ mrd # None
         /\ InRing(t) /\ ~Leaving(t) /\ Size(t) = 0 /\ table[t] = n
         /\ Pos(t) = tagCount - 1 /\ mrd.first = Issued
  <1>1. Inv /\ n \in Nat /\ Typed /\ tagCount \in Nat
    <2>1. Typed => tagCount \in Nat
      BY SMT DEF Typed, TypeOK
    <2> QED
      BY <2>1, TickFacts
  <1>2. mrd # None /\ t = mrd.tag /\ New(t, n) = n /\ n > 0
    BY <1>1, SMT DEF New
  <1>3. n = mrd.words /\ mrd.first = Issued
    BY <1>2, Progress
  <1>4. /\ tagCount > 0 /\ Pos(t) = tagCount - 1 /\ table[t] = n /\ Size(t) = 0 /\ ~Leaving(t)
    BY <1>1, <1>2, <1>3 DEF Inv, MrdOK
  <1>5. InRing(t)
    BY <1>1, <1>4, SMT DEF InRing
  <1> QED
    BY <1>1, <1>2, <1>3, <1>4, <1>5, SMT

\* A tag that has words next is in use throughout, and is not released.
Holding(t, g, n) ==
  /\ InRing(t) /\ ~Leaving(t) /\ InRing(t)' /\ ~Leaving(t)'
  /\ table'[t] = table[t]
  /\ Size(t) > 0 => New(t, n) = 0
  /\ Size(t) = 0 => New(t, n) = n /\ table[t] = n /\ Gone(t, g) = 0

LEMMA HoldingTag ==
  ASSUME NEW start, NEW ready, NEW cpl, NEW take, NEW g, NEW n,
         Tick(start, ready, cpl, take, g, n), start = 0,
         NEW t \in Tag, Size(t)' > 0
  PROVE  Holding(t, g, n)
  <1>1. Inv /\ Typed /\ RingMoves /\ Emptying(g) /\ Size(t) \in Nat
    <2>1. Inv /\ Typed
      BY TickFacts
    <2> QED
      BY <2>1, RingStep, EmptyStep, SizeTypes
  <1>2. /\ Gone(t, g) \in {0, 1} /\ Gone(t, g) <= Size(t) /\ New(t, n) \in Nat
        /\ Size(t)' = (Size(t) - Gone(t, g)) + New(t, n)
    <2>1. TagFlow(t, g, n)
      BY TagFlows
    <2> QED
      BY <2>1, Zenon DEF TagFlow
  <1>3. Size(t) > 0 => New(t, n) = 0
    <2>1. New(t, n) > 0 => Size(t) = 0
      BY NewWords
    <2> QED
      BY <1>1, <1>2, <2>1, SMT
  <1>4. ASSUME Size(t) = 0 PROVE New(t, n) = n /\ table[t] = n /\ Gone(t, g) = 0
    <2>1. New(t, n) > 0 /\ Gone(t, g) = 0
      BY <1>2, <1>4, SMT
    <2> QED
      BY <2>1, NewWords
  <1>5. InRing(t) /\ ~Leaving(t)
    <2>1. CASE Size(t) > 0
      BY <1>1, <2>1 DEF Inv, TagOK
    <2>2. CASE ~(Size(t) > 0)
      <3>1. New(t, n) > 0
        BY <1>1, <1>2, <2>2, SMT
      <3> QED
        BY <3>1, NewWords
    <2> QED
      BY <2>1, <2>2
  <1>6. InRing(t)' /\ table'[t] = table[t]
    BY <1>1, <1>5, TableStep DEF RingMoves
  <1>7. ~Leaving(t)'
    <2> SUFFICES ASSUME tagRd', t = rdptr' PROVE FALSE
      BY DEF Leaving
    <2>1. ~tagRd /\ g = 1 /\ Size(rdptr) = 1
      BY <1>1, Zenon DEF Emptying
    <2>2. t = rdptr
      BY <1>1, <2>1 DEF RingMoves
    <2>3. Size(t) = 1 /\ Gone(t, g) = 1 /\ New(t, n) = 0
      BY <1>3, <2>1, <2>2 DEF Gone
    <2> QED
      BY <1>2, <2>3, SMT
  <1> QED
    BY <1>3, <1>4, <1>5, <1>6, <1>7, Zenon DEF Holding

LEMMA TagOKStep ==
  ASSUME NEW start, NEW ready, NEW cpl, NEW take, NEW g, NEW n,
         Tick(start, ready, cpl, take, g, n), start = 0
  PROVE  TagOK'
  <1> SUFFICES ASSUME NEW t \in Tag
      PROVE /\ InRing(t)' => table'[t] >= 1
            /\ Size(t)' > 0 => InRing(t)' /\ ~Leaving(t)'
            /\ t = rdptr' => IF Size(t)' > 0 THEN Size(t)' + taken' = table'[t] ELSE taken' = 0
            /\ t # rdptr' /\ Size(t)' > 0 => Size(t)' = table'[t]
    BY Zenon DEF TagOK
  <1>1. /\ Inv /\ Typed /\ g \in {0, 1} /\ n \in Nat /\ taken \in Nat /\ rdptr \in Tag
        /\ table[t] \in Nat
    <2>1. Typed => taken \in Nat /\ rdptr \in Tag /\ table[t] \in Nat
      BY SizesAssumption, SMT DEF Typed, TypeOK
    <2> QED
      BY <2>1, TickFacts
  <1>2. RingMoves /\ Emptying(g) /\ Size(t) \in Nat
    BY <1>1, RingStep, EmptyStep, SizeTypes
  <1>3. /\ Gone(t, g) \in {0, 1} /\ Gone(t, g) <= Size(t) /\ New(t, n) \in Nat
        /\ Size(t)' = (Size(t) - Gone(t, g)) + New(t, n)
    <2>1. TagFlow(t, g, n)
      BY TagFlows
    <2> QED
      BY <2>1, Zenon DEF TagFlow
  <1>4. /\ InRing(t) => table[t] >= 1
        /\ Size(t) > 0 => InRing(t) /\ ~Leaving(t)
        /\ t = rdptr => IF Size(t) > 0 THEN Size(t) + taken = table[t] ELSE taken = 0
        /\ t # rdptr /\ Size(t) > 0 => Size(t) = table[t]
    BY <1>1 DEF Inv, TagOK
  <1>5. InRing(t)' => table'[t] >= 1
    <2>1. CASE InRing(t) /\ ~Leaving(t)
      BY <1>4, <2>1, TableStep
    <2>2. CASE tagWe /\ t = wrTag
      BY <2>2, TableStep, SizesAssumption, SMT
    <2> QED
      BY <1>2, <2>1, <2>2 DEF RingMoves
  <1>6. Size(t)' > 0 => Holding(t, g, n)
    BY HoldingTag
  <1>7. ASSUME Size(t)' > 0, t # rdptr PROVE Size(t)' = table'[t]
    <2>1. Gone(t, g) = 0
      BY <1>7 DEF Gone
    <2>2. CASE Size(t) > 0
      <3>1. New(t, n) = 0 /\ table'[t] = table[t] /\ Size(t) = table[t]
        BY <1>4, <1>6, <1>7, <2>2, Zenon DEF Holding
      <3> QED
        BY <1>2, <1>3, <2>1, <3>1, SMT
    <2>3. CASE Size(t) = 0
      <3>1. New(t, n) = n /\ table[t] = n /\ table'[t] = table[t]
        BY <1>6, <1>7, <2>3, Zenon DEF Holding
      <3> QED
        BY <1>1, <1>3, <2>1, <2>3, <3>1, SMT
    <2> QED
      BY <1>2, <2>2, <2>3, SMT
  <1>8. ASSUME t # rdptr', Size(t)' > 0 PROVE Size(t)' = table'[t]
    <2>1. ~Leaving(t)
      BY <1>6, <1>8 DEF Holding
    <2>2. t # rdptr
      BY <1>2, <1>8, <2>1 DEF RingMoves, Leaving
    <2> QED
      BY <1>7, <1>8, <2>2
  <1>9. ASSUME t = rdptr', tagRd
        PROVE  IF Size(t)' > 0 THEN Size(t)' + taken' = table'[t] ELSE taken' = 0
    <2>1. g = 0 /\ Size(rdptr) = 0
      <3>1. ~(Size(rdptr) > 0) /\ Size(rdptr) \in Nat
        BY <1>1, <1>9, SizeTypes DEF Inv, TagOK, Leaving
      <3>2. g # 1
        BY <1>2, <1>9, Zenon DEF Emptying
      <3> QED
        BY <1>1, <3>1, <3>2, SMT
    <2>2. taken' = 0
      BY <1>2, <2>1 DEF Emptying
    <2>3. ASSUME Size(t)' > 0 PROVE Size(t)' = table'[t] /\ Size(t)' \in Nat
      <3>1. ~Leaving(t)
        BY <1>6, <2>3 DEF Holding
      <3>2. t # rdptr
        BY <1>9, <3>1 DEF Leaving
      <3>3. Size(t)' \in Nat
        BY <1>2, <1>3, SMT
      <3> QED
        BY <1>7, <2>3, <3>2, <3>3
    <2> QED
      BY <2>2, <2>3
  <1>10. ASSUME t = rdptr', ~tagRd
         PROVE  IF Size(t)' > 0 THEN Size(t)' + taken' = table'[t] ELSE taken' = 0
    <2>1. t = rdptr /\ Gone(t, g) = g
      BY <1>2, <1>10 DEF RingMoves, Gone
    <2>2. CASE g = 1
      <3>1. /\ Size(t) > 0 /\ Size(t) + taken = table[t]
            /\ taken' = IF Size(t) = 1 THEN 0 ELSE taken + 1
        BY <1>2, <2>1, <2>2, Zenon DEF Emptying
      <3>2. New(t, n) = 0
        <4>1. New(t, n) > 0 => Size(t) = 0
          BY NewWords
        <4> QED
          BY <1>3, <3>1, <4>1, SMT
      <3>3. Size(t)' = Size(t) - 1
        BY <1>2, <1>3, <2>1, <2>2, <3>2, SMT
      <3>4. Size(t)' > 0 => table'[t] = table[t]
        BY <1>6, Zenon DEF Holding
      <3> QED
        BY <1>1, <1>2, <3>1, <3>3, <3>4, SMT
    <2>3. CASE g = 0
      <3>1. taken' = IF Size(t) > 0 THEN taken ELSE 0
        BY <1>2, <2>1, <2>3, Zenon DEF Emptying
      <3>2. Size(t)' = Size(t) + New(t, n)
        BY <1>2, <1>3, <2>1, <2>3, SMT
      <3>3. CASE Size(t) > 0
        <4>1. Size(t)' > 0
          BY <1>2, <1>3, <3>2, <3>3, SMT
        <4>2. New(t, n) = 0 /\ table'[t] = table[t]
          BY <1>6, <3>3, <4>1, Zenon DEF Holding
        <4> QED
          BY <1>1, <1>2, <1>4, <2>1, <3>1, <3>2, <3>3, <4>1, <4>2, SMT
      <3>4. CASE Size(t) = 0
        <4>1. taken' = 0
          BY <3>1, <3>4
        <4>2. ASSUME Size(t)' > 0 PROVE Size(t)' = n /\ table'[t] = n
          <5>1. New(t, n) = n /\ table[t] = n /\ table'[t] = table[t]
            BY <1>6, <3>4, <4>2, Zenon DEF Holding
          <5> QED
            BY <1>1, <3>2, <3>4, <5>1, SMT
        <4> QED
          BY <1>1, <4>1, <4>2, SMT
      <3> QED
        BY <1>2, <3>3, <3>4, SMT
    <2> QED
      BY <1>1, <2>2, <2>3
  <1> QED
    BY <1>5, <1>6, <1>8, <1>9, <1>10, Zenon DEF Holding

\* A word there next was there already, one place further back if its tag gave
\* one, or is one of those of the read that is accepted.
WasThere(t, i, g, n) ==
  /\ i + Gone(t, g) \in 1..Size(t) /\ Item(t, i)' = Item(t, i + Gone(t, g))
  /\ InRing(t) /\ ~Leaving(t)
IsNew(t, i, g, n) ==
  /\ mrd # None /\ t = mrd.tag /\ n > 0 /\ i \in 1..n /\ Size(t) = 0
  /\ Pos(t) = tagCount - 1 /\ ~Leaving(t)
  /\ Item(t, i)' = [transfer |-> count, index |-> Issued + i, last |-> FALSE]

LEMMA OldOrNew ==
  ASSUME NEW start, NEW ready, NEW cpl, NEW take, NEW g, NEW n,
         Tick(start, ready, cpl, take, g, n), start = 0,
         NEW t \in Tag, NEW i \in 1..Size(t)'
  PROVE  WasThere(t, i, g, n) \/ IsNew(t, i, g, n)
  <1> DEFINE e == Gone(t, g)
             m == New(t, n)
  <1>1. Typed /\ Size(t) \in Nat
    <2>1. Typed
      BY TickFacts
    <2> QED
      BY <2>1, SizeTypes
  <1>2. /\ e \in {0, 1} /\ e <= Size(t) /\ m \in Nat
        /\ Size(t)' = (Size(t) - e) + m
        /\ \A k \in 1..Size(t) - e : Item(t, k)' = Item(t, k + e)
        /\ \A k \in Nat, j \in 1..m : k = (Size(t) - e) + j => Item(t, k)' = ReadWords[j]
    <2>1. TagFlow(t, g, n)
      BY TagFlows
    <2> QED
      BY <2>1, Zenon DEF TagFlow
  <1> HIDE DEF e, m
  <1>3. i \in Nat /\ Size(t)' > 0
    BY <1>1, <1>2, SMT
  <1>4. Holding(t, g, n)
    BY <1>3, HoldingTag
  <1>5. CASE Size(t) > 0
    <2>1. m = 0
      BY <1>4, <1>5, Zenon DEF Holding, m
    <2>2. i \in 1..Size(t) - e /\ i + e \in 1..Size(t)
      BY <1>1, <1>2, <2>1, SMT
    <2>3. Item(t, i)' = Item(t, i + e)
      BY <1>2, <2>2
    <2> QED
      BY <1>4, <2>2, <2>3, Zenon DEF WasThere, Holding, e
  <1>6. CASE Size(t) = 0
    <2>1. m = n /\ e = 0
      BY <1>4, <1>6, Zenon DEF Holding, m, e
    <2>2. i \in 1..n /\ n > 0 /\ i = (Size(t) - e) + i
      BY <1>2, <1>6, <2>1, SMT
    <2>3. Item(t, i)' = ReadWords[i]
      BY <1>2, <1>3, <2>1, <2>2, Zenon
    <2>4. /\ t = mrd.tag /\ n = mrd.words /\ mrd # None /\ ~Leaving(t)
          /\ Pos(t) = tagCount - 1 /\ mrd.first = Issued
      BY <2>1, <2>2, NewWords DEF m
    <2>5. ReadWords[i] = [transfer |-> count, index |-> Issued + i, last |-> FALSE]
      BY <2>2, <2>4, Zenon DEF ReadWords
    <2> QED
      BY <1>6, <2>2, <2>3, <2>4, <2>5, Zenon DEF IsNew
  <1> QED
    BY <1>1, <1>5, <1>6, SMT

\* Where the words of the transfer stand.
LEMMA Indices ==
  ASSUME NEW start, NEW ready, NEW cpl, NEW take, NEW g, NEW n,
         Tick(start, ready, cpl, take, g, n), start = 0,
         NEW t \in Tag, NEW i \in 1..Size(t)'
  PROVE  /\ WasThere(t, i, g, n) => Item(t, i)'.index \in Drained' + 1..Issued
         /\ IsNew(t, i, g, n) => Item(t, i)'.index = Issued + i
         /\ Item(t, i)'.transfer = count /\ Item(t, i)'.index \in Drained' + 1..Issued'
  <1>1. /\ Inv /\ Typed /\ g \in {0, 1} /\ n \in Nat /\ rdptr \in Tag /\ (g = 1 <=> Taking)
    <2>1. Typed => rdptr \in Tag
      BY DEF Typed, TypeOK
    <2> QED
      BY <2>1, TickFacts
  <1>2. /\ Issued \in Nat /\ Issued' = Issued + n /\ Drained \in Nat /\ Drained' = Drained + g
        /\ (g = 1 => Drained < Issued) /\ Drained <= Issued
    <2>1. Drained <= Issued
      BY <1>1 DEF Inv, StreamOK
    <2> QED
      BY <2>1, Progress
  <1>3. ASSUME WasThere(t, i, g, n)
        PROVE  Item(t, i)'.index \in Drained' + 1..Issued /\ Item(t, i)'.transfer = count
    <2>1. PICK k \in 1..Size(t) : k = i + Gone(t, g)
      BY <1>3 DEF WasThere
    <2>2. Item(t, i)' = Item(t, k)
      BY <1>3, <2>1, Zenon DEF WasThere
    <2>3. Item(t, k).index \in Drained + 1..Issued /\ Item(t, k).transfer = count
      BY <1>1 DEF Inv, RangeOK
    <2>4. ASSUME g = 1 PROVE Item(t, k).index # Drained + 1
      <3>1. Size(rdptr) > 0
        BY <1>1, <2>4, Popping
      <3>2. Item(rdptr, 1).index = Drained + 1
        BY <1>1, <3>1, FirstWord
      <3>3. 1 \in 1..Size(rdptr) /\ i \in Nat
        <4>1. Size(rdptr) \in Nat /\ Size(t) \in Nat
          BY <1>1, SizeTypes
        <4> QED
          BY <3>1, <4>1, SMT
      <3> SUFFICES ASSUME Item(t, k).index = Item(rdptr, 1).index PROVE FALSE
        BY <3>2
      <3>4. t = rdptr /\ k = 1
        BY <1>1, <3>3, OneWord
      <3>5. k = i + 1
        BY <2>1, <2>4, <3>4 DEF Gone
      <3>6. i >= 1
        OBVIOUS
      <3> QED
        BY <3>3, <3>4, <3>5, <3>6, SMT
    <2>5. Item(t, k).index \in Drained' + 1..Issued
      <3>1. CASE g = 1
        BY <1>2, <2>3, <2>4, <3>1, SMT
      <3>2. CASE g = 0
        BY <1>2, <2>3, <3>2, SMT
      <3> QED
        BY <1>1, <3>1, <3>2
    <2> QED
      BY <2>2, <2>3, <2>5
  <1>4. ASSUME IsNew(t, i, g, n)
        PROVE  /\ Item(t, i)'.index = Issued + i /\ Item(t, i)'.transfer = count
               /\ Issued + i \in Drained' + 1..Issued'
    <2>1. Item(t, i)' = [transfer |-> count, index |-> Issued + i, last |-> FALSE] /\ i \in 1..n
      BY <1>4, Zenon DEF IsNew
    <2>2. Issued + i \in Drained' + 1..Issued'
      BY <1>1, <1>2, <2>1, SMT
    <2> QED
      BY <2>1, <2>2
  <1>5. Drained' + 1..Issued \subseteq Drained' + 1..Issued'
    BY <1>1, <1>2, SMT
  <1> QED
    BY <1>3, <1>4, <1>5, OldOrNew

LEMMA RangeOKStep ==
  ASSUME NEW start, NEW ready, NEW cpl, NEW take, NEW g, NEW n,
         Tick(start, ready, cpl, take, g, n), start = 0
  PROVE  RangeOK'
  <1>1. count' = count
    BY RequestCases
  <1>2. \A t \in Tag : \A i \in 1..Size(t)' :
          Item(t, i)'.transfer = count' /\ Item(t, i)'.index \in Drained' + 1..Issued'
    BY <1>1, Indices
  <1> QED
    BY <1>2, Zenon DEF RangeOK

LEMMA OrderOKStep ==
  ASSUME NEW start, NEW ready, NEW cpl, NEW take, NEW g, NEW n,
         Tick(start, ready, cpl, take, g, n), start = 0
  PROVE  OrderOK'
  <1> SUFFICES ASSUME NEW t \in Tag, NEW u \in Tag, NEW i \in 1..Size(t)', NEW j \in 1..Size(u)',
                      Before(t, i, u, j)'
               PROVE  Item(t, i)'.index < Item(u, j)'.index
    BY Zenon DEF OrderOK
  <1>1. /\ Inv /\ RingMoves /\ Issued \in Nat /\ Issued' \in Nat /\ Drained' \in Nat /\ n \in Nat
        /\ tagCount \in Nat /\ g \in {0, 1}
    <2>1. Inv /\ n \in Nat /\ g \in {0, 1} /\ Typed
      BY TickFacts
    <2>2. tagCount \in Nat
      BY <2>1, SMT DEF Typed, TypeOK
    <2>3. /\ Issued \in Nat /\ Issued' = Issued + n /\ Drained \in Nat /\ Drained' = Drained + g
      BY Progress
    <2> QED
      BY <2>1, <2>2, <2>3, RingStep, SMT
  <1>2. /\ WasThere(t, i, g, n) \/ IsNew(t, i, g, n)
        /\ WasThere(u, j, g, n) \/ IsNew(u, j, g, n)
    BY OldOrNew
  <1>3. i \in Int /\ j \in Int
    OBVIOUS
  <1>4. Pos(t)' < Pos(u)' \/ (t = u /\ i < j)
    BY Zenon DEF Before
  <1>5. Pos(t)' < Pos(u)' => Pos(t) < Pos(u)
    <2>1. ~Leaving(t) /\ ~Leaving(u)
      BY <1>2 DEF WasThere, IsNew
    <2>2. PICK d \in {0, 1} : d = IF tagRd THEN 1 ELSE 0
      OBVIOUS
    <2>3. Pos(t)' = Pos(t) - d /\ Pos(u)' = Pos(u) - d
      BY <1>1, <2>1, <2>2, Zenon DEF RingMoves
    <2>4. Pos(t) \in Int /\ Pos(u) \in Int
      BY <1>1, SizesAssumption DEF RingMoves
    <2> QED
      BY <2>3, <2>4, SMT
  <1>6. CASE WasThere(t, i, g, n) /\ WasThere(u, j, g, n)
    <2>1. /\ Gone(t, g) \in {0, 1} /\ Gone(u, g) \in {0, 1}
          /\ i + Gone(t, g) \in 1..Size(t) /\ j + Gone(u, g) \in 1..Size(u)
          /\ Item(t, i)' = Item(t, i + Gone(t, g)) /\ Item(u, j)' = Item(u, j + Gone(u, g))
      BY <1>1, <1>6 DEF WasThere, Gone
    <2>2. Before(t, i + Gone(t, g), u, j + Gone(u, g))
      <3>1. CASE Pos(t)' < Pos(u)'
        BY <1>5, <3>1 DEF Before
      <3>2. CASE t = u /\ i < j
        <4>1. i + Gone(t, g) < j + Gone(u, g)
          BY <1>3, <2>1, <3>2, SMT
        <4> QED
          BY <3>2, <4>1 DEF Before
      <3> QED
        BY <1>4, <3>1, <3>2
    <2>3. Item(t, i + Gone(t, g)).index < Item(u, j + Gone(u, g)).index
      BY <1>1, <2>1, <2>2, Zenon DEF Inv, OrderOK
    <2> QED
      BY <2>1, <2>3, Zenon
  <1>7. CASE IsNew(u, j, g, n)
    <2>1. Item(u, j)'.index = Issued + j /\ j >= 1
      BY <1>7, Indices
    <2>2. CASE WasThere(t, i, g, n)
      <3>1. Item(t, i)'.index \in Drained' + 1..Issued
        BY <2>2, Indices
      <3> QED
        BY <1>1, <1>3, <2>1, <3>1, SMT
    <2>3. CASE IsNew(t, i, g, n)
      <3>1. Item(t, i)'.index = Issued + i /\ t = u
        BY <1>7, <2>3, Indices DEF IsNew
      <3>2. i < j
        <4>1. ~(Pos(t)' < Pos(u)')
          <5>1. Pos(t) \in Int /\ Pos(t) = Pos(u)
            BY <1>1, <3>1, SizesAssumption DEF RingMoves
          <5> QED
            BY <1>5, <5>1, SMT
        <4> QED
          BY <1>4, <4>1
      <3> QED
        BY <1>1, <1>3, <2>1, <3>1, <3>2, SMT
    <2> QED
      BY <1>2, <2>2, <2>3
  <1>8. CASE IsNew(t, i, g, n) /\ WasThere(u, j, g, n)
    <2>1. Pos(t) = tagCount - 1 /\ Size(t) = 0 /\ Pos(u) < tagCount
          /\ j + Gone(u, g) \in 1..Size(u)
      BY <1>8 DEF IsNew, WasThere, InRing
    <2>2. t # u
      <3> SUFFICES ASSUME t = u PROVE FALSE
        OBVIOUS
      <3>1. Size(u) = 0
        BY <2>1
      <3> QED
        BY <2>1, <3>1, SMT
    <2>3. Pos(t) < Pos(u)
      BY <1>4, <1>5, <2>2
    <2>4. Pos(u) \in Int
      BY <1>1, SizesAssumption DEF RingMoves
    <2> QED
      BY <1>1, <2>1, <2>3, <2>4, SMT
  <1> QED
    BY <1>2, <1>6, <1>7, <1>8

LEMMA CoverOKStep ==
  ASSUME NEW start, NEW ready, NEW cpl, NEW take, NEW g, NEW n,
         Tick(start, ready, cpl, take, g, n), start = 0
  PROVE  CoverOK'
  <1> SUFFICES ASSUME NEW x \in Drained' + 1..Issued'
               PROVE  \E t \in Tag : \E i \in 1..Size(t)' : Item(t, i)'.index = x
    BY Zenon DEF CoverOK
  <1>1. /\ Inv /\ Typed /\ g \in {0, 1} /\ n \in Nat /\ rdptr \in Tag /\ (g = 1 <=> Taking)
    <2>1. Typed => rdptr \in Tag
      BY DEF Typed, TypeOK
    <2> QED
      BY <2>1, TickFacts
  <1>2. /\ Issued \in Nat /\ Issued' = Issued + n /\ Drained \in Nat /\ Drained' = Drained + g
    BY Progress
  <1>3. CASE x <= Issued
    <2>1. x \in Drained + 1..Issued
      BY <1>1, <1>2, <1>3, SMT
    <2>2. PICK t \in Tag : \E i \in 1..Size(t) : Item(t, i).index = x
      BY <1>1, <2>1 DEF Inv, CoverOK
    <2>3. PICK i \in 1..Size(t) : Item(t, i).index = x
      BY <2>2
    <2>4. /\ Gone(t, g) \in {0, 1} /\ Gone(t, g) <= Size(t) /\ New(t, n) \in Nat
          /\ Size(t)' = (Size(t) - Gone(t, g)) + New(t, n)
          /\ \A k \in 1..Size(t) - Gone(t, g) : Item(t, k)' = Item(t, k + Gone(t, g))
      <3>1. TagFlow(t, g, n)
        BY TagFlows
      <3> QED
        BY <3>1, Zenon DEF TagFlow
    <2>5. Size(t) \in Nat
      BY <1>1, SizeTypes
    <2>6. i - Gone(t, g) >= 1
      <3>1. CASE Gone(t, g) = 1
        <4>1. t = rdptr /\ g = 1
          BY <3>1 DEF Gone
        <4>2. Item(rdptr, 1).index = Drained + 1 /\ x # Drained + 1
          <5>1. Size(rdptr) > 0
            BY <1>1, <4>1, Popping
          <5>2. x # Drained + 1
            BY <1>2, <4>1, SMT
          <5> QED
            BY <1>1, <5>1, <5>2, FirstWord
        <4>3. i # 1
          BY <2>3, <4>1, <4>2
        <4> QED
          BY <2>5, <3>1, <4>3, SMT
      <3>2. CASE Gone(t, g) = 0
        BY <2>5, <3>2, SMT
      <3> QED
        BY <2>4, <3>1, <3>2
    <2>7. PICK k \in 1..Size(t) - Gone(t, g) : k + Gone(t, g) = i
      <3>1. i - Gone(t, g) \in 1..Size(t) - Gone(t, g) /\ (i - Gone(t, g)) + Gone(t, g) = i
        BY <2>4, <2>5, <2>6, SMT
      <3> QED
        BY <3>1
    <2>8. k \in 1..Size(t)'
      BY <2>4, <2>5, SMT
    <2>9. Item(t, k)'.index = x
      BY <2>3, <2>4, <2>7, Zenon
    <2> QED
      BY <2>8, <2>9
  <1>4. CASE ~(x <= Issued)
    <2>1. n > 0 /\ x - Issued \in 1..n /\ x - Issued \in Nat /\ Issued + (x - Issued) = x
      BY <1>1, <1>2, <1>4, SMT
    <2>2. PICK i \in Nat : i \in 1..n /\ Issued + i = x
      BY <2>1
    <2>3. mrd # None /\ n = mrd.words /\ mrd.first = Issued
      BY <2>1, Progress
    <2>4. PICK t \in Tag : t = mrd.tag
      <3>1. mrd \in Mrd
        BY <1>1, <2>3 DEF Typed, TypeOK
      <3> QED
        BY <3>1 DEF Mrd
    <2>5. New(t, n) = n
      BY <2>3, <2>4 DEF New
    <2>6. Size(t) = 0
      BY <2>1, <2>5, NewWords
    <2>7. /\ Gone(t, g) \in {0, 1} /\ Gone(t, g) <= Size(t)
          /\ Size(t)' = (Size(t) - Gone(t, g)) + New(t, n)
          /\ \A k \in Nat, j \in 1..New(t, n) :
               k = (Size(t) - Gone(t, g)) + j => Item(t, k)' = ReadWords[j]
      <3>1. TagFlow(t, g, n)
        BY TagFlows
      <3> QED
        BY <3>1, Zenon DEF TagFlow
    <2>8. i \in 1..Size(t)' /\ i = (Size(t) - Gone(t, g)) + i
      BY <1>1, <2>2, <2>5, <2>6, <2>7, SMT
    <2>9. Item(t, i)' = ReadWords[i]
      BY <2>2, <2>5, <2>7, <2>8, Zenon
    <2>10. ReadWords[i].index = x
      BY <2>2, <2>3 DEF ReadWords
    <2>11. Item(t, i)'.index = x
      BY <2>9, <2>10
    <2> QED
      BY <2>8, <2>11
  <1> QED
    BY <1>3, <1>4

LEMMA GapOKStep ==
  ASSUME NEW start, NEW ready, NEW cpl, NEW take, NEW g, NEW n,
         Tick(start, ready, cpl, take, g, n), start = 0
  PROVE  GapOK'
  <1> SUFFICES ASSUME req' = "idle", NEW t \in Tag, InRing(t)', Size(t)' = 0, ~Leaving(t)'
               PROVE  \E u \in Tag : Pos(t)' < Pos(u)' /\ Size(u)' > 0
    BY Zenon DEF GapOK
  <1>1. /\ Inv /\ Typed /\ RingMoves /\ Emptying(g) /\ g \in {0, 1} /\ n \in Nat
        /\ rdptr \in Tag /\ tagCount \in Nat
    <2>1. Typed => rdptr \in Tag /\ tagCount \in Nat
      BY SMT DEF Typed, TypeOK
    <2> QED
      BY <2>1, TickFacts, RingStep, EmptyStep
  <1>2. \A u \in Tag :
          /\ Gone(u, g) \in {0, 1} /\ Gone(u, g) <= Size(u) /\ New(u, n) \in Nat
          /\ Size(u)' = (Size(u) - Gone(u, g)) + New(u, n) /\ Size(u) \in Nat
    <2> SUFFICES ASSUME NEW u \in Tag
                 PROVE  /\ Gone(u, g) \in {0, 1} /\ Gone(u, g) <= Size(u) /\ New(u, n) \in Nat
                        /\ Size(u)' = (Size(u) - Gone(u, g)) + New(u, n) /\ Size(u) \in Nat
      OBVIOUS
    <2>1. TagFlow(u, g, n)
      BY TagFlows
    <2>2. Size(u) \in Nat
      BY <1>1, SizeTypes
    <2> QED
      BY <2>1, <2>2, Zenon DEF TagFlow
  <1>3. /\ ~tagWe /\ (req = "idle" => Rests(n)) /\ (req = "start" => Issues(n))
        /\ req \in {"idle", "start"}
    <2>1. req \in {"idle", "start"}
      BY <1>1 DEF Typed, TypeOK
    <2> QED
      BY <2>1, RequestCases DEF Rests, Issues, Offers, Prepares
  <1>4. InRing(t) /\ ~Leaving(t)
    BY <1>1, <1>3 DEF RingMoves
  <1>5. ASSUME NEW u \in Tag, ~Leaving(u), Pos(t) < Pos(u) PROVE Pos(t)' < Pos(u)'
    <2>1. PICK d \in {0, 1} : d = IF tagRd THEN 1 ELSE 0
      OBVIOUS
    <2>2. Pos(t)' = Pos(t) - d /\ Pos(u)' = Pos(u) - d
      BY <1>1, <1>4, <1>5, <2>1, Zenon DEF RingMoves
    <2>3. Pos(t) \in Int /\ Pos(u) \in Int
      BY <1>1, SizesAssumption DEF RingMoves
    <2> QED
      BY <1>5, <2>2, <2>3, SMT
  <1>6. CASE req = "idle"
    <2>1. n = 0 /\ mrd = None
      BY <1>3, <1>6 DEF Rests
    <2>2. \A u \in Tag : New(u, n) = 0
      BY <2>1 DEF New
    <2>3. CASE Size(t) = 0
      <3>1. PICK u \in Tag : Pos(t) < Pos(u) /\ Size(u) > 0
        BY <1>1, <1>4, <1>6, <2>3 DEF Inv, GapOK
      <3>2. Pos(t) \in Nat /\ Pos(rdptr) = 0
        <4>1. Pos(t) \in 0..(Tags - 1)
          BY <1>1, PosFacts
        <4> QED
          BY <1>1, <4>1, PosFacts, SMT
      <3>3. u # rdptr
        <4> SUFFICES ASSUME u = rdptr PROVE FALSE
          OBVIOUS
        <4> QED
          BY <3>1, <3>2, SMT
      <3>4. Gone(u, g) = 0 /\ ~Leaving(u)
        BY <3>3 DEF Gone, Leaving
      <3>5. Size(u)' > 0
        BY <1>2, <2>2, <3>1, <3>4, SMT
      <3> QED
        BY <1>5, <3>1, <3>4, <3>5
    <2>4. CASE Size(t) # 0
      <3>1. Gone(t, g) = 1 /\ Size(t) = 1
        BY <1>2, <2>2, <2>4, SMT
      <3>2. t = rdptr /\ g = 1
        BY <3>1 DEF Gone
      <3>3. tagRd' /\ ~tagRd
        BY <1>1, <3>1, <3>2, Zenon DEF Emptying
      <3>4. rdptr' = rdptr
        BY <1>1, <3>3 DEF RingMoves
      <3> QED
        BY <3>2, <3>3, <3>4 DEF Leaving
    <2> QED
      BY <2>3, <2>4
  <1>7. CASE req = "start"
    <2>1. mrd # None /\ n = mrd.words
      BY <1>3, <1>7 DEF Issues
    <2>2. PICK u \in Tag : u = mrd.tag /\ n >= 1
      <3>1. mrd \in Mrd
        BY <1>1, <2>1 DEF Typed, TypeOK
      <3>2. mrd.tag \in Tag /\ mrd.words \in 1..Beats
        BY <3>1 DEF Mrd
      <3> QED
        BY <2>1, <3>2, SizesAssumption, SMT
    <2>3. New(u, n) = n
      BY <2>1, <2>2 DEF New
    <2>4. /\ Size(u)' > 0 /\ ~Leaving(u) /\ Pos(u) = tagCount - 1
      <3>1. New(u, n) > 0
        BY <1>1, <2>2, <2>3, SMT
      <3>2. Size(u) = 0 /\ ~Leaving(u) /\ Pos(u) = tagCount - 1
        BY <3>1, NewWords
      <3> QED
        BY <1>2, <3>1, <3>2, SMT
    <2>5. Pos(t) < Pos(u)
      <3>1. Pos(t) \in 0..(Tags - 1) /\ (Pos(t) = Pos(u) => t = u)
        BY <1>1, PosFacts
      <3>2. t # u
        BY <2>4
      <3>3. Pos(t) < tagCount
        BY <1>4 DEF InRing
      <3> QED
        BY <1>1, <2>4, <3>1, <3>2, <3>3, SizesAssumption, SMT
    <2> QED
      BY <1>5, <2>4, <2>5
  <1> QED
    BY <1>3, <1>6, <1>7

-----------------------------------------------------------------------------
(***************************************************************************)
(* The words the host owes.                                                *)
(***************************************************************************)

\* They stand behind the words the engine has, and are still to be passed on.
LEMMA HostItem ==
  ASSUME Inv, NEW t \in Tag, NEW i \in 1..Due(t)
  PROVE  /\ Here(t) \in Nat /\ Here(t) + i \in 1..Size(t) /\ Item(t, Here(t) + i) = host[t][i]
         /\ host[t][i].index \in 1..Issued /\ Issued \in Nat /\ Owed(host[t][i].index)
  <1>1. Typed
    BY DEF Inv, Safe
  <1>2. Kept(t) \in Nat /\ Due(t) \in Nat /\ Arriving(t) \in {0, 1} /\ Here(t) \in Nat
        /\ Here(t) = Kept(t) + Arriving(t) /\ Size(t) = Here(t) + Due(t)
    BY <1>1, SizeTypes, Zenon DEF Here, Size
  <1>3. /\ Here(t) + i \in 1..Size(t) /\ ~(Here(t) + i <= Kept(t)) /\ ~(Here(t) + i <= Here(t))
        /\ (Here(t) + i) - Here(t) = i
    BY <1>2, SMT
  <1>4. Item(t, Here(t) + i) = host[t][i]
    BY <1>3, Zenon DEF Item
  <1>5. Item(t, Here(t) + i).index \in Drained + 1..Issued
    BY <1>3 DEF Inv, RangeOK
  <1>6. Drained \in Nat /\ Issued \in Nat
    <2>1. left \in Nat /\ length \in Nat /\ issued \in Nat /\ left <= length
      BY <1>1 DEF Typed, TypeOK, Inv, RequestOK
    <2>2. issued * Beats \in Nat
      BY <2>1, TimesNext
    <2> QED
      BY <2>1, <2>2, SMT DEF Drained, Issued
  <1>7. host[t][i].index \in 1..Issued
    BY <1>4, <1>5, <1>6, SMT
  <1> QED
    BY <1>2, <1>3, <1>4, <1>6, <1>7 DEF Owed

\* The word that comes is owed no more; those of the read accepted are.
LEMMA OwedStep ==
  ASSUME NEW start, NEW ready, NEW cpl, NEW take, NEW g, NEW n,
         Tick(start, ready, cpl, take, g, n), start = 0, NEW x \in 1..Issued'
  PROVE  /\ Owed(x)' => x > Issued \/ (Owed(x) /\ (cpl # None => x # host[cpl][1].index))
         /\ x > Issued => Owed(x)'
         /\ Owed(x) /\ (cpl # None => x # host[cpl][1].index) => Owed(x)'
  <1>1. /\ Inv /\ Typed /\ n \in Nat
    BY TickFacts
  <1>2. Issued \in Nat /\ Issued' = Issued + n
        /\ (n > 0 => mrd # None /\ n = mrd.words /\ mrd.first = Issued)
    BY Progress
  <1>3. \A t \in Tag :
          /\ Come(t, cpl) \in {0, 1} /\ Come(t, cpl) <= Due(t) /\ New(t, n) \in Nat /\ Due(t) \in Nat
          /\ Due(t)' = (Due(t) - Come(t, cpl)) + New(t, n)
          /\ \A j \in 1..Due(t) - Come(t, cpl) : host'[t][j] = host[t][j + Come(t, cpl)]
          /\ \A j \in 1..New(t, n) : host'[t][(Due(t) - Come(t, cpl)) + j] = ReadWords[j]
    BY <1>1, HostFlow, SizeTypes
  <1>4. ASSUME Owed(x)'
        PROVE  x > Issued \/ (Owed(x) /\ (cpl # None => x # host[cpl][1].index))
    <2>1. PICK t \in Tag : \E i \in 1..Due(t)' : host'[t][i].index = x
      BY <1>4, Zenon DEF Owed
    <2>2. PICK i \in 1..Due(t)' : host'[t][i].index = x
      BY <2>1
    <2>3. CASE i <= Due(t) - Come(t, cpl)
      <3>1. i \in 1..Due(t) - Come(t, cpl) /\ i + Come(t, cpl) \in 1..Due(t) /\ i \in Nat /\ i >= 1
        BY <1>3, <2>3, SMT
      <3>2. PICK k \in 1..Due(t) : k = i + Come(t, cpl)
        BY <3>1
      <3>3. host[t][k].index = x
        BY <1>3, <2>2, <3>1, <3>2, Zenon
      <3>4. Owed(x)
        BY <1>1, <3>3, HostItem
      <3>5. ASSUME cpl # None, x = host[cpl][1].index PROVE FALSE
        <4>1. cpl \in Tag /\ Due(cpl) >= 1
          BY <3>5, Coming
        <4>2. 1 \in 1..Due(cpl)
          BY <1>3, <4>1, SMT
        <4>3. /\ Here(t) \in Nat /\ Here(t) + k \in 1..Size(t) /\ Item(t, Here(t) + k) = host[t][k]
              /\ Here(cpl) + 1 \in 1..Size(cpl) /\ Item(cpl, Here(cpl) + 1) = host[cpl][1]
          BY <1>1, <4>1, <4>2, HostItem
        <4>4. t = cpl /\ Here(t) + k = Here(cpl) + 1
          BY <1>1, <3>3, <3>5, <4>1, <4>3, OneWord
        <4>5. k = 1 /\ Come(t, cpl) = 1
          <5>1. k \in Int /\ Here(t) + k = Here(t) + 1
            BY <4>4
          <5> QED
            BY <4>3, <4>4, <5>1, SMT DEF Come
        <4> QED
          BY <3>1, <3>2, <4>5, SMT
      <3> QED
        BY <3>4, <3>5
    <2>4. CASE ~(i <= Due(t) - Come(t, cpl))
      <3>1. PICK j \in 1..New(t, n) : i = (Due(t) - Come(t, cpl)) + j
        <4>1. /\ i - (Due(t) - Come(t, cpl)) \in 1..New(t, n)
              /\ i = (Due(t) - Come(t, cpl)) + (i - (Due(t) - Come(t, cpl)))
          BY <1>3, <2>4, SMT
        <4> QED
          BY <4>1
      <3>2. New(t, n) > 0 /\ j >= 1 /\ j \in Nat
        BY <1>3, <3>1, SMT
      <3>3. New(t, n) = n /\ n = mrd.words /\ mrd.first = Issued
        BY <3>2, NewWords
      <3>4. host'[t][i] = ReadWords[j]
        BY <1>3, <3>1, Zenon
      <3>5. ReadWords[j].index = Issued + j
        BY <3>1, <3>3 DEF ReadWords
      <3>6. x = Issued + j
        BY <2>2, <3>4, <3>5
      <3> QED
        BY <1>2, <3>2, <3>6, SMT
    <2> QED
      BY <2>3, <2>4
  <1>5. ASSUME x > Issued PROVE Owed(x)'
    <2>1. n > 0 /\ x - Issued \in 1..n /\ Issued + (x - Issued) = x
      BY <1>1, <1>2, <1>5, SMT
    <2>2. PICK j \in 1..n : Issued + j = x
      BY <2>1
    <2>3. mrd # None /\ n = mrd.words /\ mrd.first = Issued
      BY <1>2, <2>1
    <2>4. PICK t \in Tag : t = mrd.tag
      <3>1. mrd \in Mrd
        BY <1>1, <2>3 DEF Typed, TypeOK
      <3> QED
        BY <3>1 DEF Mrd
    <2>5. New(t, n) = n
      BY <2>3, <2>4 DEF New
    <2>6. host'[t][(Due(t) - Come(t, cpl)) + j] = ReadWords[j]
      BY <1>3, <2>5
    <2>7. (Due(t) - Come(t, cpl)) + j \in 1..Due(t)'
      BY <1>1, <1>3, <2>5, SMT
    <2>8. ReadWords[j].index = x
      BY <2>2, <2>3 DEF ReadWords
    <2>9. \E i \in 1..Due(t)' : host'[t][i].index = x
      BY <2>6, <2>7, <2>8
    <2> QED
      BY <2>9, Zenon DEF Owed
  <1>6. ASSUME Owed(x), cpl # None => x # host[cpl][1].index PROVE Owed(x)'
    <2>1. PICK t \in Tag : \E i \in 1..Due(t) : host[t][i].index = x
      BY <1>6 DEF Owed
    <2>2. PICK i \in 1..Due(t) : host[t][i].index = x
      BY <2>1
    <2>3. i - Come(t, cpl) \in 1..Due(t) - Come(t, cpl)
          /\ (i - Come(t, cpl)) + Come(t, cpl) = i
      <3>1. CASE Come(t, cpl) = 0
        BY <1>3, <3>1, SMT
      <3>2. CASE Come(t, cpl) = 1
        <4>1. cpl = t /\ cpl # None
          BY <3>2, NoneAssumption DEF Come
        <4>2. i # 1
          BY <1>6, <2>2, <4>1
        <4> QED
          BY <1>3, <3>2, <4>2, SMT
      <3> QED
        BY <1>3, <3>1, <3>2
    <2>4. PICK k \in 1..Due(t) - Come(t, cpl) : k + Come(t, cpl) = i
      BY <2>3
    <2>5. host'[t][k].index = x
      BY <1>3, <2>2, <2>4, Zenon
    <2>6. k \in 1..Due(t)'
      BY <1>3, SMT
    <2>7. \E j \in 1..Due(t)' : host'[t][j].index = x
      BY <2>5, <2>6
    <2> QED
      BY <2>7, Zenon DEF Owed
  <1> QED
    BY <1>4, <1>5, <1>6

\* The words returned are counted one by one.
LEMMA ReturnedStep ==
  ASSUME NEW start, NEW ready, NEW cpl, NEW take, NEW g, NEW n,
         Tick(start, ready, cpl, take, g, n), start = 0
  PROVE  /\ IsFiniteSet(Returned) /\ Cardinality(Returned) \in Nat
         /\ IsFiniteSet(Returned') /\ Returned' \subseteq 1..Issued'
         /\ Cardinality(Returned') = Cardinality(Returned) + (IF cpl = None THEN 0 ELSE 1)
  <1>1. /\ Inv /\ Typed /\ n \in Nat /\ cpl \in Tag \cup {None}
    BY TickFacts
  <1>2. Issued \in Nat /\ Issued' = Issued + n
    BY Progress
  <1>3. /\ Returned \subseteq 1..Issued /\ \A x \in 1..Issued : x \in Returned <=> ~Owed(x)
        /\ Returned' \subseteq 1..Issued' /\ \A x \in 1..Issued' : x \in Returned' <=> ~Owed(x)'
    BY Zenon DEF Returned
  <1>4. IsFiniteSet(Returned) /\ IsFiniteSet(Returned') /\ Cardinality(Returned) \in Nat
    <2>1. IsFiniteSet(1..Issued) /\ IsFiniteSet(1..Issued')
      BY <1>1, <1>2, FS_Interval, SMT
    <2> QED
      BY <1>3, <2>1, FS_Subset, FS_CardinalityType
  <1>5. \A x \in 1..Issued' :
          /\ Owed(x)' => x > Issued \/ (Owed(x) /\ (cpl # None => x # host[cpl][1].index))
          /\ x > Issued => Owed(x)'
          /\ Owed(x) /\ (cpl # None => x # host[cpl][1].index) => Owed(x)'
    BY OwedStep
  <1>6. 1..Issued \subseteq 1..Issued' /\ \A x \in 1..Issued' : x > Issued \/ x \in 1..Issued
    BY <1>1, <1>2, SMT
  <1>7. \A x \in 1..Issued : ~(x > Issued)
    BY <1>2, SMT
  <1>8. CASE cpl = None
    <2>1. Returned' = Returned
      <3>1. ASSUME NEW x \in Returned' PROVE x \in Returned
        <4>1. x \in 1..Issued' /\ ~Owed(x)'
          BY <1>3, Zenon
        <4>2. ~(x > Issued) /\ ~Owed(x)
          BY <1>5, <1>8, <4>1, Zenon
        <4> QED
          BY <1>3, <1>6, <4>1, <4>2, Zenon
      <3>2. ASSUME NEW x \in Returned PROVE x \in Returned'
        <4>1. x \in 1..Issued /\ ~Owed(x) /\ x \in 1..Issued'
          BY <1>3, <1>6, Zenon
        <4>2. ~Owed(x)'
          BY <1>5, <1>7, <4>1, Zenon
        <4> QED
          BY <1>3, <4>1, <4>2, Zenon
      <3> QED
        BY <3>1, <3>2, Zenon
    <2> QED
      BY <1>3, <1>4, <1>8, <2>1, SMT
  <1>9. CASE cpl # None
    <2>1. PICK y : y = host[cpl][1].index
      OBVIOUS
    <2>2. y \in 1..Issued /\ Owed(y)
      <3>1. cpl \in Tag /\ Due(cpl) >= 1 /\ Due(cpl) \in Nat
        BY <1>9, Coming
      <3>2. 1 \in 1..Due(cpl)
        BY <3>1, SMT
      <3> QED
        BY <1>1, <2>1, <3>1, <3>2, HostItem
    <2>3. y \notin Returned
      BY <1>3, <2>2, Zenon
    <2>4. Returned' = Returned \cup {y}
      <3>1. ASSUME NEW x \in Returned' PROVE x \in Returned \cup {y}
        <4>1. x \in 1..Issued' /\ ~Owed(x)'
          BY <1>3, Zenon
        <4>2. ~(x > Issued) /\ (~Owed(x) \/ x = y)
          BY <1>5, <1>9, <2>1, <4>1, Zenon
        <4> QED
          BY <1>3, <1>6, <4>1, <4>2, Zenon
      <3>2. ASSUME NEW x \in Returned PROVE x \in Returned'
        <4>1. x \in 1..Issued /\ ~Owed(x) /\ x \in 1..Issued'
          BY <1>3, <1>6, Zenon
        <4>2. ~Owed(x)'
          BY <1>5, <1>7, <4>1, Zenon
        <4> QED
          BY <1>3, <4>1, <4>2, Zenon
      <3>3. y \in Returned'
        <4>1. y \in 1..Issued'
          BY <1>6, <2>2, Zenon
        <4>2. ~Owed(y)'
          BY <1>5, <1>7, <1>9, <2>1, <2>2, <4>1, Zenon
        <4> QED
          BY <1>3, <4>1, <4>2, Zenon
      <3> QED
        BY <3>1, <3>2, <3>3, Zenon
    <2>5. Cardinality(Returned') = Cardinality(Returned) + 1
      BY <1>4, <2>3, <2>4, FS_AddElement
    <2> QED
      BY <1>3, <1>4, <1>9, <2>5
  <1> QED
    BY <1>8, <1>9

LEMMA ReceiveOKStep ==
  ASSUME NEW start, NEW ready, NEW cpl, NEW take, NEW g, NEW n,
         Tick(start, ready, cpl, take, g, n), start = 0
  PROVE  ReceiveOK'
  <1>1. /\ Inv /\ Typed /\ Typed' /\ n \in Nat /\ cpl \in Tag \cup {None} /\ Receive(start, cpl)
    BY TickFacts
  <1>2. /\ recv \in {"idle", "start"} /\ req \in {"idle", "start"} /\ cplSeen \in Nat
        /\ cplTotal \in Nat /\ startReg \in BOOLEAN
    BY <1>1 DEF Typed, TypeOK
  <1>3. /\ length' = length /\ ~startReg'
        /\ Rests(n) \/ Issues(n) \/ Offers(n) \/ Prepares(n)
    BY RequestCases
  <1>4. /\ Issued \in Nat /\ Issued' = Issued + n /\ length \in Nat /\ Issued' <= length
        /\ (req' = "start" => Issued' < length)
    BY Progress
  <1>5. /\ IsFiniteSet(Returned) /\ Cardinality(Returned) \in Nat
        /\ IsFiniteSet(Returned') /\ Returned' \subseteq 1..Issued'
        /\ Cardinality(Returned') = Cardinality(Returned) + (IF cpl = None THEN 0 ELSE 1)
    BY ReturnedStep
  <1>6. CASE recv = "idle"
    <2>1. cpl = None /\ \A t \in Tag : host[t] = <<>>
      BY <1>1, <1>6, Coming DEF Inv, ReceiveOK
    <2>2. /\ cplSeen' = 0
          /\ IF startReg THEN recv' = "start" /\ cplTotal' = length ELSE recv' = "idle"
      BY <1>1, <1>6, Zenon DEF Receive, CplTotal
    <2>3. CASE startReg
      <3>1. req = "start" /\ left = length /\ issued = 0 /\ mrd = None /\ left > 0
        BY <1>1, <2>3 DEF Inv, RequestOK
      <3>2. n = 0
        BY <1>3, <3>1 DEF Rests, Issues, Offers, Prepares
      <3>3. Issued' = 0
        <4>1. 0 * Beats = 0
          BY SizesAssumption, SMT
        <4>2. Issued = 0
          BY <3>1, <4>1 DEF Issued
        <4> QED
          BY <1>4, <3>2, <4>2
      <3>4. Cardinality(Returned') = 0
        <4>1. 1..Issued' = {}
          BY <3>3, SMT
        <4>2. Returned' = {}
          BY <1>5, <4>1, Zenon
        <4> QED
          BY <4>2, FS_EmptySet
      <3> QED
        BY <1>3, <1>4, <2>2, <2>3, <3>1, <3>4 DEF ReceiveOK
    <2>4. CASE ~startReg
      <3>1. req = "idle" /\ recv' = "idle"
        BY <1>1, <1>2, <1>6, <2>2, <2>4 DEF Inv, ReceiveOK
      <3>2. req' = "idle" /\ n = 0 /\ mrd = None
        BY <1>3, <3>1 DEF Rests, Issues, Offers, Prepares
      <3>3. ASSUME NEW t \in Tag PROVE host'[t] = <<>>
        <4>1. Due(t)' = (Due(t) - Come(t, cpl)) + New(t, n)
          BY HostFlow
        <4>2. Come(t, cpl) = 0 /\ New(t, n) = 0
          BY <2>1, <3>2, NoneAssumption DEF Come, New
        <4>3. Due(t) = 0
          BY <2>1 DEF Due
        <4>4. Len(host'[t]) = 0 /\ host'[t] \in Seq(Word)
          BY <1>1, <4>1, <4>2, <4>3 DEF Due, Typed, TypeOK
        <4> QED
          BY <4>4
      <3> QED
        BY <3>1, <3>2, <3>3 DEF ReceiveOK
    <2> QED
      BY <2>3, <2>4
  <1>7. CASE recv = "start"
    <2>1. cplTotal = length /\ cplSeen < length /\ Cardinality(Returned) = cplSeen
      BY <1>1, <1>7 DEF Inv, ReceiveOK
    <2>2. /\ cplTotal' = cplTotal
          /\ IF cpl = None THEN recv' = "start" /\ cplSeen' = cplSeen
             ELSE cplSeen' = cplSeen + 1
                  /\ recv' = IF cplSeen + 1 = cplTotal THEN "idle" ELSE "start"
      BY <1>1, <1>7 DEF Receive
    <2>3. Cardinality(Returned') = cplSeen'
      BY <1>5, <2>1, <2>2
    <2>4. CASE recv' = "start"
      <3>1. cplSeen' < length
        <4>1. CASE cpl = None
          BY <2>1, <2>2, <4>1
        <4>2. CASE cpl # None
          BY <1>2, <1>4, <2>1, <2>2, <2>4, <4>2, SMT
        <4> QED
          BY <4>1, <4>2
      <3> QED
        BY <1>3, <2>1, <2>2, <2>3, <2>4, <3>1 DEF ReceiveOK
    <2>5. CASE recv' # "start"
      <3>1. recv' = "idle" /\ cplSeen' = length
        BY <2>1, <2>2, <2>5
      <3>2. IsFiniteSet(1..Issued') /\ Cardinality(1..Issued') = Issued' /\ Issued' \in Nat
        <4>1. Issued' \in Nat
          BY <1>1, <1>4, SMT
        <4>2. PICK k \in Nat : k = Issued'
          BY <4>1
        <4>3. 1 \in Int /\ k \in Int /\ (IF 1 > k THEN 0 ELSE (k - 1) + 1) = k
          BY SMT
        <4>4. IsFiniteSet(1..k) /\ Cardinality(1..k) = k
          BY <4>3, FS_Interval, SMT
        <4> QED
          BY <4>1, <4>2, <4>4
      <3>3. Issued' = length /\ Returned' = 1..Issued'
        <4>1. Cardinality(Returned') <= Cardinality(1..Issued')
          BY <1>5, <3>2, FS_Subset
        <4>2. Issued' = length
          BY <1>4, <2>3, <3>1, <3>2, <4>1, SMT
        <4>3. Cardinality(Returned') = Cardinality(1..Issued')
          BY <2>3, <3>1, <3>2, <4>2
        <4> QED
          BY <1>5, <3>2, <4>2, <4>3, FS_Subset
      <3>4. \A x \in 1..Issued' : ~Owed(x)'
        BY <3>3, Zenon DEF Returned
      <3>5. ASSUME NEW t \in Tag PROVE host'[t] = <<>>
        <4>1. host'[t] \in Seq(Word)
          BY <1>1 DEF Typed, TypeOK
        <4>2. PICK l \in Nat : l = Len(host'[t])
          BY <4>1
        <4>3. CASE Len(host'[t]) = 0
          BY <4>1, <4>3
        <4>4. CASE l # 0
          <5>1. 1 \in 1..Due(t)'
            BY <4>2, <4>4 DEF Due
          <5>2. PICK x : x = host'[t][1].index
            OBVIOUS
          <5>3. \E i \in 1..Due(t)' : host'[t][i].index = x
            BY <5>1, <5>2
          <5>4. Owed(x)'
            BY <5>3, Zenon DEF Owed
          <5>5. x \in 1..Issued'
            <6>1. /\ Come(t, cpl) \in {0, 1} /\ Come(t, cpl) <= Due(t) /\ New(t, n) \in Nat
                  /\ Due(t)' = (Due(t) - Come(t, cpl)) + New(t, n)
                  /\ \A j \in 1..Due(t) - Come(t, cpl) : host'[t][j] = host[t][j + Come(t, cpl)]
                  /\ \A j \in 1..New(t, n) : host'[t][(Due(t) - Come(t, cpl)) + j] = ReadWords[j]
              BY HostFlow
            <6>2. Due(t) \in Nat
              BY <1>1, SizeTypes
            <6>3. CASE Due(t) - Come(t, cpl) >= 1
              <7>1. 1 \in 1..Due(t) - Come(t, cpl) /\ 1 + Come(t, cpl) \in 1..Due(t)
                BY <6>1, <6>2, <6>3, SMT
              <7>2. x = host[t][1 + Come(t, cpl)].index
                BY <5>2, <6>1, <7>1, Zenon
              <7>3. x \in 1..Issued
                BY <1>1, <7>1, <7>2, HostItem
              <7> QED
                BY <1>1, <1>4, <7>3, SMT
            <6>4. CASE ~(Due(t) - Come(t, cpl) >= 1)
              <7>1. /\ Due(t) - Come(t, cpl) = 0 /\ New(t, n) > 0
                BY <5>1, <6>1, <6>2, <6>4, SMT
              <7>2. New(t, n) = n /\ n \in Nat \ {0} /\ n = mrd.words /\ mrd.first = Issued
                BY <7>1, NewWords
              <7>3. 1 \in 1..n /\ (Due(t) - Come(t, cpl)) + 1 = 1
                BY <7>1, <7>2, SMT
              <7>4. host'[t][1] = ReadWords[1]
                BY <6>1, <7>2, <7>3, Zenon
              <7>5. x = Issued + 1
                BY <5>2, <7>2, <7>3, <7>4 DEF ReadWords
              <7> QED
                BY <1>4, <7>2, <7>5, SMT
            <6> QED
              BY <6>3, <6>4
          <5> QED
            BY <3>4, <5>4, <5>5, Zenon
        <4> QED
          BY <4>2, <4>3, <4>4
      <3> QED
        BY <1>4, <3>1, <3>3, <3>5 DEF ReceiveOK
    <2> QED
      BY <2>4, <2>5
  <1> QED
    BY <1>2, <1>6, <1>7

-----------------------------------------------------------------------------
(***************************************************************************)
(* The words on their way to the user.                                     *)
(***************************************************************************)

\* The word passed on is the one the user waits for behind those on the way.
LEMMA NextWord ==
  ASSUME Inv, Taking
  PROVE  /\ OutWord = asked[((Len(got) + Flying) + 1)] /\ OutWord \in Word
         /\ left >= 1
  <1>1. Typed /\ rdptr \in Tag /\ left \in Nat /\ length \in Nat /\ asked \in Seq(Word)
    BY DEF Inv, Safe, Typed, TypeOK
  <1>2. OutWord \in Word
    BY <1>1, OutWordType
  <1>3. Pops(rdptr) /\ Size(rdptr) > 0 /\ Item(rdptr, 1) = Head(fifo[rdptr])
    BY <1>1, Popping
  <1>4. /\ Item(rdptr, 1) \in Word /\ Item(rdptr, 1).transfer = count
        /\ Item(rdptr, 1).index = Drained + 1 /\ Drained \in Nat /\ Drained < Issued
        /\ Issued \in Nat
    BY <1>3, FirstWord
  <1>5. left # 0
    BY <1>1 DEF Inv, RequestOK, Taking
  <1>6. PICK x \in 1..length : x = Drained + 1 /\ Base + x = (Len(got) + Flying) + 1
                               /\ (x = length => left = 1) /\ (left = 1 => x = length)
    <2>1. left <= length /\ (Len(got) + Flying) + left = Len(asked)
      BY DEF Inv, RequestOK, StreamOK
    <2>2. PICK l \in Nat : l = Len(asked)
      BY <1>1
    <2>3. Flying \in Nat
      <3>1. outFifo \in Seq(Word)
        BY <1>1 DEF Typed, TypeOK
      <3> QED
        BY <3>1 DEF Flying
    <2>4. PICK k \in Nat : k = Len(got)
      <3>1. got \in Seq(Word)
        BY <1>1 DEF Typed, TypeOK
      <3> QED
        BY <3>1
    <2>5. Drained = length - left /\ Base = l - length
      BY <2>2, Zenon DEF Drained, Base
    <2>6. (k + Flying) + left = l
      BY <2>1, <2>2, <2>4, Zenon
    <2>7. /\ Drained + 1 \in 1..length /\ Base + (Drained + 1) = (k + Flying) + 1
          /\ (Drained + 1 = length => left = 1) /\ (left = 1 => Drained + 1 = length)
      BY <1>1, <1>5, <2>1, <2>3, <2>5, <2>6, SMT
    <2> QED
      BY <2>4, <2>7
  <1>7. asked[Base + x] = [transfer |-> count, index |-> x, last |-> x = length]
    BY DEF Inv, AskedOK
  <1>8. OutWord = [transfer |-> count, index |-> x, last |-> left = 1]
    <2>1. PICK w \in Word : w = Item(rdptr, 1)
      BY <1>4
    <2>2. w = [transfer |-> w.transfer, index |-> w.index, last |-> w.last]
      BY DEF Word
    <2>3. OutWord = [w EXCEPT !.last = (left = 1)]
      BY <1>3, <2>1, Zenon DEF OutWord
    <2>4. [w EXCEPT !.last = (left = 1)] = [transfer |-> w.transfer, index |-> w.index, last |-> (left = 1)]
      <3>1. w \in [transfer : Nat, index : Nat, last : BOOLEAN]
        BY DEF Word
      <3> QED
        BY <3>1, SMT
    <2> QED
      BY <1>4, <1>6, <2>1, <2>3, <2>4
  <1>9. (x = length) = (left = 1)
    BY <1>6, Zenon
  <1>10. OutWord = asked[Base + x]
    BY <1>7, <1>8, <1>9, Zenon
  <1> QED
    BY <1>1, <1>2, <1>5, <1>6, <1>10

LEMMA StreamOKStep ==
  ASSUME NEW start, NEW ready, NEW cpl, NEW take, NEW g, NEW n,
         Tick(start, ready, cpl, take, g, n), start = 0
  PROVE  StreamOK'
  <1>1. /\ Inv /\ Typed /\ n \in Nat /\ take \in BOOLEAN /\ OutputFifo(take)
        /\ g \in {0, 1} /\ (g = 1 <=> Taking) /\ Environment(start, ready, cpl, take)
    BY TickFacts
  <1>2. asked' = asked
    BY RequestCases
  <1>3. /\ Issued \in Nat /\ Issued' = Issued + n /\ Drained \in Nat /\ Drained' = Drained + g
        /\ left \in Nat /\ left' = left - g /\ (g = 1 => Drained < Issued)
    BY Progress
  <1>4. outFifo \in Seq(Word) /\ axis \in Word \cup {None} /\ got \in Seq(Word) /\ asked \in Seq(Word)
    BY <1>1 DEF Typed, TypeOK
  <1>5. PICK d \in {0, 1} : d = 1 <=> Sends(take)
    <2>1. CASE Sends(take)
      BY <2>1
    <2>2. CASE ~Sends(take)
      BY <2>2
    <2> QED
      BY <2>1, <2>2
  <1>6. Taking => Len(outFifo) < OutDepth
    <2> SUFFICES ASSUME Taking PROVE Len(outFifo) < OutDepth
      OBVIOUS
    <2>1. Len(outFifo) <= OutHalf + 1
      BY <1>1, TakingReads DEF Inv, Safe, Room
    <2>2. Len(outFifo) \in Nat
      BY <1>4
    <2> QED
      BY <2>1, <2>2, SizesAssumption, SMT
  <1>7. g = 1 => /\ OutWord = asked[((Len(got) + Flying) + 1)] /\ OutWord \in Word
                 /\ left >= 1
    BY <1>1, NextWord
  <1>8. Flow(d, g)
    BY <1>1, <1>4, <1>5, <1>6, <1>7, FlyStep
  <1>9. /\ Flying \in Nat /\ Flying' = (Flying - d) + g
        /\ \A j \in 1..Flying - d : Flight(j)' = Flight(j + d)
        /\ g = 1 => Flight(Flying)' = OutWord
        /\ d = 1 => axis \in Word /\ Flying >= 1 /\ Flight(1) = axis
    BY <1>8 DEF Flow
  <1>10. PICK k \in Nat : k = Len(got)
    BY <1>4
  <1>11. /\ (k + Flying) + left = Len(asked)
         /\ \A j \in 1..Flying : Flight(j) = asked[k + j]
         /\ \A q \in 1..k : got[q] = asked[q]
         /\ Drained <= Issued
    BY <1>1, <1>10, Zenon DEF Inv, StreamOK
  <1>12. /\ Len(got') = k + d
         /\ \A q \in 1..k : got'[q] = got[q]
         /\ d = 1 => got'[k + 1] = axis
    <2>1. CASE d = 1
      <3>1. got' = Append(got, axis) /\ axis \in Word
        BY <1>1, <1>5, <1>9, <2>1, Zenon DEF Environment, Sends
      <3> QED
        BY <1>4, <1>10, <2>1, <3>1
    <2>2. CASE d = 0
      <3>1. got' = got
        BY <1>1, <1>5, <2>2 DEF Environment, Sends
      <3> QED
        BY <1>10, <2>2, <3>1
    <2> QED
      BY <2>1, <2>2
  <1>13. Drained' <= Issued'
    BY <1>1, <1>3, <1>11, SMT
  <1>14. (Len(got') + Flying') + left' = Len(asked')
    <2>1. PICK l \in Nat : l = Len(asked)
      BY <1>4
    <2>2. /\ Flying \in Nat /\ Flying' = (Flying - d) + g /\ left' = left - g /\ left \in Nat
          /\ (k + Flying) + left = l /\ g \in {0, 1}
      BY <1>1, <1>3, <1>9, <1>11, <2>1, Zenon
    <2>3. ((k + d) + Flying') + left' = l
      BY <2>2, SMT
    <2> QED
      BY <1>2, <1>12, <2>1, <2>3, Zenon
  <1>15. ASSUME NEW j \in 1..Flying' PROVE Flight(j)' = asked'[Len(got') + j]
    <2>1. CASE j \in 1..Flying - d
      <3>1. j + d \in 1..Flying /\ k + (j + d) = (k + d) + j
        BY <1>9, <2>1, SMT
      <3>2. Flight(j)' = Flight(j + d) /\ Flight(j + d) = asked[k + (j + d)]
        BY <1>9, <1>11, <2>1, <3>1
      <3> QED
        BY <1>2, <1>12, <3>1, <3>2
    <2>2. CASE ~(j \in 1..Flying - d)
      <3>1. g = 1 /\ j = Flying' /\ (k + d) + j = (k + Flying) + 1
        BY <1>1, <1>9, <2>2, SMT
      <3>2. Flight(j)' = Flight(Flying)'
        BY <3>1, Zenon DEF Flight
      <3>3. Flight(j)' = asked[(k + Flying) + 1]
        BY <1>7, <1>9, <1>10, <3>1, <3>2, Zenon
      <3> QED
        BY <1>2, <1>12, <3>1, <3>3
    <2> QED
      BY <2>1, <2>2
  <1>16. ASSUME NEW q \in 1..Len(got') PROVE got'[q] = asked'[q]
    <2>1. CASE q \in 1..k
      BY <1>2, <1>11, <1>12, <2>1
    <2>2. CASE ~(q \in 1..k)
      <3>1. d = 1 /\ q = k + 1
        BY <1>12, <2>2, SMT
      <3>2. axis = asked[k + 1]
        <4>1. 1 \in 1..Flying
          BY <1>9, <3>1, SMT
        <4> QED
          BY <1>9, <1>11, <3>1, <4>1, Zenon
      <3> QED
        BY <1>2, <1>12, <3>1, <3>2
    <2> QED
      BY <2>1, <2>2
  <1> QED
    BY <1>13, <1>14, <1>15, <1>16, Zenon DEF StreamOK

LEMMA AskedOKStep ==
  ASSUME NEW start, NEW ready, NEW cpl, NEW take, NEW g, NEW n,
         Tick(start, ready, cpl, take, g, n), start = 0
  PROVE  AskedOK'
  <1>1. length' = length /\ count' = count /\ asked' = asked
    BY RequestCases
  <1>2. AskedOK
    BY TickFacts DEF Inv
  <1>3. Base' = Base
    BY <1>1, Zenon DEF Base
  <1>4. Stream!Transfers(asked)' = Stream!Transfers(asked)
    BY <1>1, ZenonT(60) DEF Stream!Transfers, Stream!Cardinality
  <1> QED
    BY <1>1, <1>2, <1>3, <1>4, Zenon DEF AskedOK

-----------------------------------------------------------------------------
(***************************************************************************)
(* The invariant holds.                                                    *)
(***************************************************************************)

LEMMA InitInv == Init => Inv
  <1> SUFFICES ASSUME Init PROVE Inv
    OBVIOUS
  <1>1. Safe
    BY SafeInit
  <1>2. /\ req = "idle" /\ ~startReg /\ length = 0 /\ issued = 0 /\ mrd = None
        /\ ~tagWe /\ wrTag = 0 /\ tagCount = 0 /\ ~tagRd /\ rdptr = 0
        /\ recv = "idle" /\ cplWrite = None /\ tr = "idle" /\ left = 0 /\ taken = 0 /\ rdEn = None
        /\ outFifo = <<>> /\ axis = None /\ asked = <<>> /\ got = <<>> /\ count = 0
    BY DEF Init
  <1>3. \A t \in Tag : fifo[t] = <<>> /\ host[t] = <<>>
    BY DEF Init
  <1>4. Len(outFifo) = 0 /\ Len(asked) = 0 /\ Len(got) = 0
    BY <1>2
  <1>5. Drained = 0 /\ Issued = 0 /\ Flying = 0
    BY <1>2, <1>4 DEF Drained, Issued, Flying
  <1>6. ASSUME NEW t \in Tag PROVE Size(t) = 0
    <2>1. Kept(t) = 0
      BY <1>3 DEF Kept
    <2>2. Due(t) = 0
      BY <1>3 DEF Due
    <2>3. Arriving(t) = 0
      BY <1>2 DEF Arriving
    <2> QED
      BY <2>1, <2>2, <2>3, SMT DEF Size, Here
  <1>7. \A t \in Tag : 1..Size(t) = {} /\ ~(Size(t) > 0)
    BY <1>6, SMT
  <1>8. \A t \in Tag : ~InRing(t)
    <2>1. rdptr \in Tag
      BY <1>1 DEF Safe, Typed, TypeOK
    <2>2. \A t \in Tag : Pos(t) \in 0..(Tags - 1)
      BY <2>1, PosFacts
    <2> QED
      BY <1>2, <2>2, SizesAssumption, SMT DEF InRing
  <1>9. RequestOK /\ MrdOK
    BY <1>2 DEF RequestOK, MrdOK
  <1>10. RingOK
    BY <1>2 DEF RingOK
  <1>11. TagOK
    BY <1>2, <1>7, <1>8, Zenon DEF TagOK
  <1>12. RangeOK /\ OrderOK
    BY <1>7, Zenon DEF RangeOK, OrderOK
  <1>13. CoverOK
    <2>1. Drained + 1..Issued = {}
      BY <1>5, SMT
    <2> QED
      BY <2>1, Zenon DEF CoverOK
  <1>14. GapOK /\ ReceiveOK
    BY <1>2, <1>3, <1>8 DEF GapOK, ReceiveOK
  <1>15. StreamOK
    BY <1>2, <1>4, <1>5, SMT DEF StreamOK
  <1>16. AskedOK
    <2>1. Stream!Transfers(asked) = Cardinality({})
      <3>1. {i \in DOMAIN asked : asked[i].last} = {}
        BY <1>2
      <3>2. Stream!Transfers(asked) = Stream!Cardinality({i \in DOMAIN asked : asked[i].last})
        BY Zenon DEF Stream!Transfers
      <3>3. Stream!Cardinality({}) = Cardinality({})
        BY Zenon DEF Stream!Cardinality, Cardinality
      <3> QED
        BY <3>1, <3>2, <3>3, Zenon
    <2>2. Cardinality({}) = 0
      BY FS_EmptySet
    <2>3. 1..length = {} /\ length <= Len(asked)
      BY <1>2, <1>4, SMT
    <2> QED
      BY <1>2, <2>1, <2>2, <2>3, Zenon DEF AskedOK
  <1> QED
    BY <1>1, <1>9, <1>10, <1>11, <1>12, <1>13, <1>14, <1>15, <1>16, Zenon DEF Inv

\* Every clock passes on a word or none, and accepts a read or none.
LEMMA ClockIsTick ==
  ASSUME Inv, NEW start \in Nat, NEW ready \in BOOLEAN, NEW cpl \in Tag \cup {None},
         NEW take \in BOOLEAN, Clock(start, ready, cpl, take)
  PROVE  \E g, n : Tick(start, ready, cpl, take, g, n)
  <1>1. PICK g \in {0, 1} : g = 1 <=> Taking
    <2>1. CASE Taking
      BY <2>1
    <2>2. CASE ~Taking
      BY <2>2
    <2> QED
      BY <2>1, <2>2
  <1>2. PICK n : n = IF Accepted(ready) THEN mrd.words ELSE 0
    OBVIOUS
  <1>3. Tick(start, ready, cpl, take, g, n)
    BY <1>1, <1>2, Zenon DEF Tick, Inputs
  <1> QED
    BY <1>3

LEMMA TickInv ==
  ASSUME NEW start, NEW ready, NEW cpl, NEW take, NEW g, NEW n,
         Tick(start, ready, cpl, take, g, n)
  PROVE  Inv'
  <1>1. start \in Nat /\ Typed' /\ Room'
    BY TickFacts
  <1>2. CASE start > 0
    BY <1>2, BeginInv
  <1>3. CASE start = 0
    <2>1. Safe'
      BY <1>1 DEF Safe
    <2>2. RequestOK' /\ MrdOK' /\ RingOK' /\ TagOK'
      BY <1>3, RequestStep, MrdOKStep, RingOKStep, TagOKStep
    <2>3. RangeOK' /\ OrderOK' /\ CoverOK' /\ GapOK'
      BY <1>3, RangeOKStep, OrderOKStep, CoverOKStep, GapOKStep
    <2>4. ReceiveOK' /\ StreamOK' /\ AskedOK'
      BY <1>3, ReceiveOKStep, StreamOKStep, AskedOKStep
    <2> QED
      BY <2>1, <2>2, <2>3, <2>4, Zenon DEF Inv
  <1> QED
    BY <1>1, <1>2, <1>3, SMT

LEMMA NextInv ==
  ASSUME Inv, [Next]_vars
  PROVE  Inv'
  <1>1. CASE Next
    <2>1. PICK start \in Lengths \cup {0}, ready \in BOOLEAN,
               cpl \in Tag \cup {None}, take \in BOOLEAN :
                 Clock(start, ready, cpl, take)
      BY <1>1 DEF Next
    <2>2. start \in Nat
      BY LengthsAssumption
    <2>3. PICK g, n : Tick(start, ready, cpl, take, g, n)
      BY <2>1, <2>2, ClockIsTick
    <2> QED
      BY <2>3, TickInv
  <1>2. CASE UNCHANGED vars
    <2>1. UNCHANGED reqVars /\ UNCHANGED tagVars /\ UNCHANGED recvVars /\ UNCHANGED outVars
          /\ UNCHANGED envVars
      BY <1>2, Zenon DEF vars
    <2>2. UNCHANGED <<req, startReg, length, reads, issued, mrd>>
      BY <2>1, Zenon DEF reqVars
    <2>3. UNCHANGED <<tagWe, wrTag, tagCount, table, tagRd, rdptr>>
      BY <2>1, Zenon DEF tagVars
    <2>4. UNCHANGED <<recv, cplReady, cplTotal, cplSeen, cplWrite, fifo>>
      BY <2>1, Zenon DEF recvVars
    <2>5. UNCHANGED <<tr, left, taken, rdEn, outFifo, halfFull, axis>>
      BY <2>1, Zenon DEF outVars
    <2>6. UNCHANGED <<host, asked, got, count>>
      BY <2>1, Zenon DEF envVars
    <2>7. Safe'
      BY SafeStep DEF Inv
    <2>8. /\ \A t : Pos(t)' = Pos(t)
          /\ \A t : Kept(t)' = Kept(t) /\ Arriving(t)' = Arriving(t) /\ Due(t)' = Due(t)
      BY <2>3, <2>4, <2>6 DEF Pos, Kept, Arriving, Due
    <2>9. \A t : Here(t)' = Here(t) /\ Size(t)' = Size(t)
      BY <2>8, Zenon DEF Here, Size
    <2>10. \A t, i : Item(t, i)' = Item(t, i)
      BY <2>4, <2>6, <2>8, <2>9 DEF Item
    <2>11. Drained' = Drained /\ Issued' = Issued /\ Base' = Base /\ Flying' = Flying
      BY <2>2, <2>5, <2>6 DEF Drained, Issued, Base, Flying
    <2>12. \A j : Flight(j)' = Flight(j)
      BY <2>5 DEF Flight
    <2>13. RequestOK' /\ MrdOK'
      <3>1. RequestOK'
        BY <2>2, <2>3, <2>5 DEF Inv, RequestOK, ReadsOf
      <3>2. ReadBeats' = ReadBeats
        BY <2>2 DEF ReadBeats, LastOf
      <3>3. /\ Pos(mrd.tag)' = Pos(mrd.tag) /\ Size(mrd.tag)' = Size(mrd.tag)
            /\ (Leaving(mrd.tag)' <=> Leaving(mrd.tag))
        BY <2>2, <2>3, <2>4, <2>6 DEF Pos, Size, Here, Kept, Arriving, Due, Leaving
      <3>4. MrdOK
        BY DEF Inv
      <3>5. mrd' = mrd /\ req' = req /\ issued' = issued /\ tagCount' = tagCount /\ table' = table
        BY <2>2, <2>3
      <3> QED
        BY <3>1, <3>2, <3>3, <3>4, <3>5, Zenon DEF MrdOK
    <2>14. RingOK'
      BY <2>2, <2>3, <2>5 DEF Inv, RingOK, Pos
    <2>15. TagOK'
      <3>1. \A t : (InRing(t)' <=> InRing(t)) /\ (Leaving(t)' <=> Leaving(t))
        BY <2>3, <2>8 DEF InRing, Leaving
      <3> QED
        BY <2>3, <2>5, <2>9, <3>1, Zenon DEF Inv, TagOK
    <2>16. RangeOK' /\ OrderOK' /\ CoverOK'
      <3>1. RangeOK'
        BY <2>6, <2>9, <2>10, <2>11, Zenon DEF Inv, RangeOK
      <3>2. \A t, i, u, j : Before(t, i, u, j)' <=> Before(t, i, u, j)
        BY <2>8, Zenon DEF Before
      <3>3. OrderOK'
        BY <2>9, <2>10, <3>2, Zenon DEF Inv, OrderOK
      <3>4. CoverOK'
        BY <2>9, <2>10, <2>11, Zenon DEF Inv, CoverOK
      <3> QED
        BY <3>1, <3>3, <3>4
    <2>17. GapOK'
      <3>1. \A t : (InRing(t)' <=> InRing(t)) /\ (Leaving(t)' <=> Leaving(t))
        BY <2>3, <2>8 DEF InRing, Leaving
      <3> QED
        BY <2>2, <2>8, <2>9, <3>1, Zenon DEF Inv, GapOK
    <2>18. ReceiveOK'
      <3>1. \A x : Owed(x)' <=> Owed(x)
        BY <2>6, <2>8, Zenon DEF Owed
      <3>2. Returned' = Returned
        BY <2>11, <3>1, Zenon DEF Returned
      <3> QED
        BY <2>2, <2>4, <2>6, <3>2, Zenon DEF Inv, ReceiveOK
    <2>19. StreamOK'
      BY <2>5, <2>6, <2>11, <2>12, Zenon DEF Inv, StreamOK
    <2>20. AskedOK'
      <3>1. Stream!Transfers(asked)' = Stream!Transfers(asked)
        BY <2>6, ZenonT(60) DEF Stream!Transfers, Stream!Cardinality
      <3> QED
        BY <2>2, <2>6, <2>11, <3>1, Zenon DEF Inv, AskedOK
    <2> QED
      BY <2>7, <2>13, <2>14, <2>15, <2>16, <2>17, <2>18, <2>19, <2>20, Zenon DEF Inv
  <1> QED
    BY <1>1, <1>2

\* The words of the transfer are, each once and in the order of the ring, kept
\* or owed under the tags in use until the output machine has passed them on;
\* what is passed on and not yet taken lies in the output FIFO.
THEOREM ReadEngineInv == Spec => []Inv
  <1> QED
    BY InitInv, NextInv, PTL DEF Spec

\* No word goes to a full tag FIFO, though nothing holds the completions back:
\* the tag reserves room for the words of one read.
THEOREM ReadEngineTagFifoHasRoom == Spec => []TagFifoHasRoom
  <1>1. Inv => TagFifoHasRoom
    BY HasRoom
  <1> QED
    BY <1>1, ReadEngineInv, PTL

\* The tag of a request on the bus has no word of an earlier request left at
\* the host, on its way or in the FIFO, though the tags go round without a table
\* of those in use.
THEOREM ReadEngineTagExclusive == Spec => []TagExclusive
  <1>1. ASSUME Inv PROVE TagExclusive
    <2> SUFFICES ASSUME mrd # None
                 PROVE  /\ host[mrd.tag] = <<>> /\ fifo[mrd.tag] = <<>>
                        /\ cplWrite # None => cplWrite.tag # mrd.tag
      BY DEF TagExclusive
    <2>1. Typed /\ Size(mrd.tag) = 0
      BY <1>1 DEF Inv, Safe, MrdOK
    <2>2. PICK t \in Tag : t = mrd.tag
      <3>1. mrd \in Mrd
        BY <2>1 DEF Typed, TypeOK
      <3> QED
        BY <3>1 DEF Mrd
    <2>3. /\ fifo[t] \in Seq(Word) /\ Kept(t) \in Nat /\ host[t] \in Seq(Word) /\ Due(t) \in Nat
          /\ Arriving(t) \in {0, 1}
      BY <2>1, SizeTypes
    <2>4. Kept(t) = 0 /\ Due(t) = 0 /\ Arriving(t) = 0
      BY <2>1, <2>2, <2>3, SMT DEF Size, Here
    <2>5. fifo[t] = <<>>
      BY <2>3, <2>4 DEF Kept
    <2>6. host[t] = <<>>
      BY <2>3, <2>4 DEF Due
    <2>7. cplWrite # None => cplWrite.tag # t
      BY <2>4 DEF Arriving
    <2> QED
      BY <2>2, <2>5, <2>6, <2>7
  <1> QED
    BY <1>1, ReadEngineInv, PTL

\* The completion machine goes idle, and drops what still comes, only when no
\* word is owed: it counts the words of the whole transfer.
THEOREM ReadEngineNothingDropped == Spec => []NothingDropped
  <1>1. Inv => NothingDropped
    BY DEF Inv, ReceiveOK, NothingDropped
  <1> QED
    BY <1>1, ReadEngineInv, PTL

\* A clock starts a transfer, gives the user the next word, or neither.
LEMMA StreamStep ==
  ASSUME Inv, [Next]_vars
  PROVE  [Stream!Next]_<<asked, got>>
  <1>1. ASSUME NEW start \in Lengths \cup {0}, NEW ready \in BOOLEAN,
               NEW cpl \in Tag \cup {None}, NEW take \in BOOLEAN,
               Clock(start, ready, cpl, take)
        PROVE  [Stream!Next]_<<asked, got>>
    <2>1. start \in Nat
      BY LengthsAssumption
    <2>2. PICK g, n : Tick(start, ready, cpl, take, g, n)
      BY <1>1, <2>1, ClockIsTick
    <2>3. Environment(start, ready, cpl, take) /\ Typed
      BY <2>2, TickFacts
    <2>4. CASE start > 0
      <3>1. asked' = asked \o Stream!Words(count + 1, start) /\ got' = got
        BY <2>2, <2>4, Begins
      <3>2. got = asked
        BY <2>2, <2>4, AtRest
      <3>3. Stream!Transfers(asked) = count
        BY DEF Inv, AskedOK
      <3>4. Stream!Ask(start)
        BY <3>1, <3>2, <3>3, Zenon DEF Stream!Ask
      <3>5. start \in Lengths
        BY <2>4
      <3> QED
        BY <3>4, <3>5 DEF Stream!Next
    <2>5. CASE start = 0
      <3>1. asked' = asked
        BY <2>2, <2>5, RequestCases
      <3>2. got' = IF take /\ axis # None THEN Append(got, axis) ELSE got
        BY <2>3, Zenon DEF Environment
      <3>3. CASE ~(take /\ axis # None)
        BY <3>1, <3>2, <3>3
      <3>4. CASE take /\ axis # None
        <4>1. outFifo \in Seq(Word) /\ got \in Seq(Word) /\ asked \in Seq(Word) /\ left \in Nat
          BY <2>3 DEF Typed, TypeOK
        <4>2. PICK o \in Nat : o = Len(outFifo)
          BY <4>1
        <4>3. PICK k \in Nat : k = Len(got)
          BY <4>1
        <4>4. PICK l \in Nat : l = Len(asked)
          BY <4>1
        <4>5. Flying = o + 1 /\ Flight(1) = axis
          BY <3>4, <4>2 DEF Flying, Flight
        <4>6. (k + Flying) + left = l /\ \A j \in 1..Flying : Flight(j) = asked[k + j]
          BY <4>3, <4>4, Zenon DEF Inv, StreamOK
        <4>7. 1 \in 1..Flying /\ k < l
          BY <4>1, <4>5, <4>6, SMT
        <4>8. axis = asked[k + 1]
          BY <4>5, <4>6, <4>7, Zenon
        <4>9. Stream!Deliver
          BY <3>1, <3>2, <3>4, <4>3, <4>4, <4>7, <4>8, Zenon DEF Stream!Deliver
        <4> QED
          BY <4>9 DEF Stream!Next
      <3> QED
        BY <3>3, <3>4
    <2> QED
      BY <2>1, <2>4, <2>5, SMT
  <1>2. CASE UNCHANGED vars
    BY <1>2 DEF vars, envVars
  <1> QED
    BY <1>1, <1>2 DEF Next

\* Whatever order the completions of the tags come in, and however the user
\* stalls, he gets the words of every transfer once each, in order, the last
\* one marked: the engine implements OrderedStream.
THEOREM ReadEngineInOrder == Spec => InOrder
  <1>1. Init => Stream!Init
    BY DEF Init, Stream!Init
  <1>2. Inv /\ [Next]_vars => [Stream!Next]_<<asked, got>>
    BY StreamStep
  <1> QED
    BY <1>1, <1>2, ReadEngineInv, PTL DEF Spec, InOrder, Stream!Spec

=============================================================================
