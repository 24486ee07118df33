-------------------------- MODULE WriteEngineProofs --------------------------
(***************************************************************************)
(* Proofs about WriteEngine, for any lists of transfers, any lengths and   *)
(* any FIFO that is two words deeper than its half: the types, that no     *)
(* word is lost, and, for every maximum payload but 1024 bytes, that the   *)
(* engine implements OrderedStream.                                        *)
(***************************************************************************)
EXTENDS WriteEngine, FiniteSetTheorems, SequenceTheorems, TLAPS

-----------------------------------------------------------------------------
(***************************************************************************)
(* The inductive invariant.                                                *)
(***************************************************************************)

\* The words in the engine: how many, and which, the oldest first.
Flying == Len(outFifo) + (IF bus = None THEN 0 ELSE 1)
Flight(j) == IF bus = None THEN outFifo[j] ELSE IF j = 1 THEN bus ELSE outFifo[j - 1]

\* Words of the last transfer: how many are not yet taken, and where in
\* `asked` they begin.
Left == IF req = "start" THEN cycle - op ELSE 0
Base == Len(asked) - length

\* The words from the beginning of the transfer to the packet of its x-th word.
Off(x) == ((x - 1) \div Packet) * Packet

\* The words of the packet that begins `off` words into the transfer.
Fill(off) == IF length - off >= Packet THEN Packet ELSE length - off

\* What is waiting where: no word is taken into a FIFO without room.
RoomOK ==
  /\ Len(outFifo) <= OutHalf + 2
  /\ tready => Len(outFifo) <= OutHalf + 1
  /\ ~halfFull => Len(outFifo) <= OutHalf

\* The request machine, a word before it is taken.
MachineOK ==
  req = "start" =>
    /\ cycle = length /\ op < length /\ moved = op
    /\ packets <= PacketsOf(length)
    /\ addr.offset = (PacketsOf(length) - packets) * Packet
    /\ addr.offset <= op /\ op < addr.offset + Packet

\* Between transfers the scatter-gather engine withholds ready.
MaskOK ==
  build = "Scatter_Gather" /\ req = "idle" /\ tready => moved >= length /\ moved # 0

\* The words of the last transfer are at the end of `asked`.
AskedOK ==
  /\ length <= Len(asked)
  /\ \A x \in 1..length :
       asked[Base + x] = [transfer |-> addr.transfer, index |-> x, last |-> x = length]

\* Every word asked for is not yet taken, in the engine, or out; those before
\* the last transfer are out.
CountOK ==
  /\ Base <= Len(landed)
  /\ Len(landed) + Flying + Left = Len(asked)

\* The x-th word of the transfer, in the engine.
WordOK(word, x) ==
  /\ word.at = [transfer |-> addr.transfer, offset |-> Off(x)]
  /\ (word.sop <=> x % Packet = 1)
  /\ (word.eop <=> x % Packet = 0 \/ x = length)
  /\ word.last = (x = length)
  /\ (payload # 3 => word.words = Fill(Off(x)))

FlightOK ==
  \A j \in 1..Flying : WordOK(Flight(j), Len(landed) - Base + j)

\* The packet arriving at the host, unless a new one is about to begin.
PacketOK ==
  LET x == Len(landed) - Base
  IN payload # 3 /\ 0 < x /\ x < length /\ x % Packet # 0
     => packet = [at |-> [transfer |-> addr.transfer, offset |-> Off(x)],
                  words |-> Fill(Off(x)), seen |-> x - Off(x)]

\* What is out is what was asked for.
LandedOK ==
  payload # 3 => \A q \in 1..Len(landed) : landed[q] = asked[q]

\* The numbers of the words on their way, and which they are.
Number(k) == IF k <= Len(stored) THEN stored[k] ELSE Flight(k - Len(stored)).number
WayOK ==
  /\ \A j, k \in 1..Len(stored) + Flying : j < k => Number(j) < Number(k)
  /\ \A k \in 1..Len(stored) + Flying : Number(k) \in (1..used) \ spilled
  /\ \A w \in (1..used) \ spilled : \E k \in 1..Len(stored) + Flying : Number(k) = w
  /\ build = "Scatter_Gather" => spilled = {}

\* A Block_DMA build leaves the walk alone and holds no entry that is zero.
BlockOK ==
  build = "Block_DMA" =>
    /\ walk = "idle" /\ ~popping
    /\ \A q \in DOMAIN list : list[q] > 0
    /\ startReg => Len(landed) < Len(asked)

\* The walk starts an entry only when the words of the one before are out.
WalkOK ==
  build = "Scatter_Gather" =>
    /\ walk = "mem" => stage = 0
    /\ walk = "mem" /\ ~popping => ~startReg /\ Len(landed) = Len(asked)
    /\ popping => /\ walk = "mem" /\ list # <<>>
                  /\ Flying = 0 /\ Len(landed) + Head(list) = Len(asked)
    /\ walk = "end" => /\ ~startReg /\ stage <= entry
                       /\ Len(landed) + (entry - stage) = Len(asked)
    /\ walk = "idle" => ~startReg

Inv ==
  /\ TypeOK /\ RoomOK /\ MachineOK /\ MaskOK /\ AskedOK /\ CountOK
  /\ FlightOK /\ PacketOK /\ LandedOK /\ WayOK /\ BlockOK /\ WalkOK

-----------------------------------------------------------------------------
(***************************************************************************)
(* Arithmetic of packets.                                                  *)
(***************************************************************************)

LEMMA PacketIs ==
  ASSUME payload \in Payloads PROVE Packet \in {2, 4, 8, 16}
<1>1. payload \in 0..3
  BY PayloadsAssumption
<1>2. CASE payload = 0
  <2>1. payload + 1 = 1 /\ 2 ^ 1 = 2
    BY <1>2
  <2> QED
    BY <2>1 DEF Packet
<1>3. CASE payload = 1
  <2>1. payload + 1 = 2 /\ 2 ^ 2 = 4
    BY <1>3
  <2> QED
    BY <2>1 DEF Packet
<1>4. CASE payload = 2
  <2>1. payload + 1 = 3 /\ 2 ^ 3 = 8
    BY <1>4
  <2> QED
    BY <2>1 DEF Packet
<1>5. CASE payload = 3
  <2>1. payload + 1 = 4 /\ 2 ^ 4 = 16
    BY <1>5
  <2> QED
    BY <2>1 DEF Packet
<1> QED
  BY <1>1, <1>2, <1>3, <1>4, <1>5

\* The x-th word and the packet it is in.
LEMMA OffFacts ==
  ASSUME Packet \in {2, 4, 8, 16}, NEW x \in Nat \ {0}
  PROVE  /\ Off(x) \in Nat /\ Off(x) < x /\ x <= Off(x) + Packet
         /\ (x % Packet = 0 <=> x = Off(x) + Packet)
         /\ (x % Packet = 1 <=> x = Off(x) + 1)
         /\ (x % Packet # 0 => Off(x + 1) = Off(x))
         /\ (x % Packet = 0 => Off(x + 1) = x)
<1>1. CASE Packet = 2
  BY <1>1 DEF Off
<1>2. CASE Packet = 4
  BY <1>2 DEF Off
<1>3. CASE Packet = 8
  BY <1>3 DEF Off
<1>4. CASE Packet = 16
  BY <1>4 DEF Off
<1> QED
  BY <1>1, <1>2, <1>3, <1>4

\* c packets cover the first words, up to the packet of the word after the x-th.
LEMMA OffIs ==
  ASSUME Packet \in {2, 4, 8, 16}, NEW c \in Nat, NEW x \in Nat,
         c * Packet <= x, x < c * Packet + Packet
  PROVE  Off(x + 1) = c * Packet
<1>1. CASE Packet = 2
  BY <1>1 DEF Off
<1>2. CASE Packet = 4
  BY <1>2 DEF Off
<1>3. CASE Packet = 8
  BY <1>3 DEF Off
<1>4. CASE Packet = 16
  BY <1>4 DEF Off
<1> QED
  BY <1>1, <1>2, <1>3, <1>4

\* Of a transfer of n words with k packets to end, at its x-th word.
LEMMA PacketsFacts ==
  ASSUME Packet \in {2, 4, 8, 16}, NEW n \in Nat \ {0}, NEW k \in Nat, NEW x \in Nat,
         k <= PacketsOf(n), x < n, NEW o \in Nat, o = (PacketsOf(n) - k) * Packet,
         o <= x, x < o + Packet
  PROVE  /\ PacketsOf(n) \in Nat \ {0} /\ k >= 1
         /\ k > 1 => n - o > Packet
         /\ k = 1 => n - o <= Packet /\ n - o = IF n % Packet = 0 THEN Packet ELSE n % Packet
         /\ o + Packet = (PacketsOf(n) - (k - 1)) * Packet
<1>1. CASE Packet = 2
  BY <1>1 DEF PacketsOf
<1>2. CASE Packet = 4
  BY <1>2 DEF PacketsOf
<1>3. CASE Packet = 8
  BY <1>3 DEF PacketsOf
<1>4. CASE Packet = 16
  BY <1>4 DEF PacketsOf
<1> QED
  BY <1>1, <1>2, <1>3, <1>4

-----------------------------------------------------------------------------
(***************************************************************************)
(* The words in the engine, from one clock to the next.                    *)
(***************************************************************************)

\* A queue that gives its head, or not, and takes a word, or not.
Queue(s, w, g, t) == (IF g = 1 THEN Tail(s) ELSE s) \o (IF t = 1 THEN <<w>> ELSE <<>>)
QueueOK(s, w, g, t) ==
  LET r == Queue(s, w, g, t)
  IN /\ r \in Seq(Word) /\ Len(r) = (Len(s) - g) + t
     /\ \A j \in 1..Len(s) - g : r[j] = s[j + g]
     /\ t = 1 => r[Len(r)] = w

LEMMA QueueStep ==
  ASSUME NEW s \in Seq(Word), NEW w, NEW g \in {0, 1}, NEW t \in {0, 1},
         t = 1 => w \in Word, g = 1 => s # <<>>
  PROVE  QueueOK(s, w, g, t)
<1> DEFINE u == IF g = 1 THEN Tail(s) ELSE s
           v == IF t = 1 THEN <<w>> ELSE <<>>
           r == Queue(s, w, g, t)
<1>1. u \in Seq(Word) /\ Len(u) = Len(s) - g /\ \A j \in 1..Len(s) - g : u[j] = s[j + g]
  <2>1. CASE g = 1
    BY <2>1
  <2>2. CASE g = 0
    BY <2>2
  <2> QED
    BY <2>1, <2>2
<1>2. v \in Seq(Word) /\ Len(v) = t /\ (t = 1 => v[1] = w)
  <2>1. CASE t = 1
    <3>1. v = <<w>>
      BY <2>1
    <3> QED
      BY <2>1, <3>1
  <2>2. CASE t = 0
    <3>1. v = <<>>
      BY <2>2
    <3> QED
      BY <2>2, <3>1
  <2> QED
    BY <2>1, <2>2
<1>3. r = u \o v
  BY Zenon DEF Queue
<1>4. u \in Seq(Word) /\ v \in Seq(Word)
  BY <1>1, <1>2
<1> HIDE DEF u, v, r
<1>5. /\ r \in Seq(Word) /\ Len(r) = Len(u) + Len(v)
      /\ \A j \in 1..Len(u) + Len(v) : r[j] = IF j <= Len(u) THEN u[j] ELSE v[j - Len(u)]
  <2>1. /\ u \o v \in Seq(Word) /\ Len(u \o v) = Len(u) + Len(v)
        /\ \A j \in 1..Len(u) + Len(v) : (u \o v)[j] = IF j <= Len(u) THEN u[j] ELSE v[j - Len(u)]
    BY <1>4, ConcatProperties, Zenon
  <2> QED
    BY <1>3, <2>1, Zenon
<1>6. ASSUME t = 1 PROVE r[Len(r)] = w
  <2>1. Len(u) \in Nat /\ Len(v) = 1 /\ Len(r) = Len(u) + 1
    BY <1>2, <1>4, <1>5, <1>6
  <2>2. r[Len(u) + 1] = v[(Len(u) + 1) - Len(u)]
    <3>1. Len(u) + 1 \in 1..Len(u) + Len(v) /\ ~(Len(u) + 1 <= Len(u))
      BY <2>1
    <3> QED
      BY <1>5, <3>1, Zenon
  <2>3. (Len(u) + 1) - Len(u) = 1
    BY <2>1
  <2> QED
    BY <1>2, <1>6, <2>1, <2>2, <2>3, Zenon
<1>7. ASSUME NEW j \in 1..Len(s) - g PROVE r[j] = s[j + g]
  <2>1. Len(u) = Len(s) - g /\ Len(u) \in Nat /\ Len(v) \in Nat /\ u[j] = s[j + g]
    BY <1>1, <1>4
  <2>2. j \in 1..Len(u) + Len(v) /\ j <= Len(u)
    BY <2>1
  <2>3. r[j] = u[j]
    BY <1>5, <2>2, Zenon
  <2> QED
    BY <2>1, <2>3
<1>8. Len(r) = (Len(s) - g) + t
  BY <1>1, <1>2, <1>5, Zenon
<1> QED
  BY <1>5, <1>6, <1>7, <1>8, Zenon DEF r, QueueOK

\* One clock: the oldest word goes out if the bus takes it (d), the word being
\* taken (t) comes in behind the others, and the words between stay in order.
Flow(d, t) ==
  /\ outFifo' \in Seq(Word) /\ bus' \in Word \cup {None}
  /\ Len(outFifo') <= Len(outFifo) + t
  /\ Flying \in Nat /\ Flying' = (Flying - d) + t
  /\ \A j \in 1..Flying - d : Flight(j)' = Flight(j + d)
  /\ t = 1 => Flight(Flying)' = OutWord
  /\ d = 1 => bus \in Word /\ Flying >= 1 /\ Flight(1) = bus
  /\ \A j \in 1..Flying : Flight(j) \in Word

LEMMA FlyStep ==
  ASSUME NEW valid \in BOOLEAN, NEW ready \in BOOLEAN, Output(valid, ready),
         outFifo \in Seq(Word), bus \in Word \cup {None},
         tready => Len(outFifo) < OutDepth,
         NEW d \in {0, 1}, d = 1 <=> Sent(ready),
         NEW t \in {0, 1}, t = 1 <=> req = "start" /\ Takes(valid),
         t = 1 => OutWord \in Word
  PROVE  Flow(d, t)
<1> USE DEF Flow
<1> DEFINE moves == outFifo # <<>> /\ (bus = None \/ ready)
           g == IF moves THEN 1 ELSE 0
<1>1. /\ bus' = IF moves THEN Head(outFifo) ELSE IF ready THEN None ELSE bus
      /\ outFifo' = (IF moves THEN Tail(outFifo) ELSE outFifo)
                    \o (IF (req = "start" /\ Takes(valid)) /\ Len(outFifo) < OutDepth
                         THEN <<OutWord>> ELSE <<>>)
  BY DEF Output
<1>2. g \in {0, 1} /\ (g = 1 <=> moves)
  OBVIOUS
<1> HIDE DEF g
<1>3. t = 1 => Len(outFifo) < OutDepth
  BY <1>2 DEF Takes
<1>4. outFifo' = (IF g = 1 THEN Tail(outFifo) ELSE outFifo)
                 \o (IF t = 1 THEN <<OutWord>> ELSE <<>>)
  BY <1>1, <1>2, <1>3
<1>5. g = 1 => outFifo # <<>>
  BY <1>2
<1>6. /\ outFifo' \in Seq(Word) /\ Len(outFifo') = (Len(outFifo) - g) + t
      /\ \A j \in 1..Len(outFifo) - g : outFifo'[j] = outFifo[j + g]
      /\ t = 1 => outFifo'[Len(outFifo')] = OutWord
  <2>1. outFifo' = Queue(outFifo, OutWord, g, t)
    BY <1>4, Zenon DEF Queue
  <2>2. g \in {0, 1}
    BY <1>2
  <2>3. QueueOK(outFifo, OutWord, g, t)
    BY <1>5, <2>2, QueueStep
  <2> QED
    BY <2>1, <2>3, Zenon DEF QueueOK
<1>7. Len(outFifo) \in Nat /\ (outFifo # <<>> => Len(outFifo) >= 1 /\ Head(outFifo) = outFifo[1]
                                                /\ outFifo[1] \in Word)
  OBVIOUS
<1>8. (outFifo = <<>> => Len(outFifo) = 0)
  OBVIOUS
<1>10. /\ Len(outFifo) \in Nat /\ Len(outFifo') \in Nat
      /\ Len(outFifo') = (Len(outFifo) - g) + t /\ (g = 0 \/ g = 1) /\ (t = 0 \/ t = 1)
  BY <1>2, <1>6, <1>7
<1>9. CASE moves /\ bus = None
  <2>1. d = 0 /\ g = 1 /\ bus' = outFifo[1] /\ bus' \in Word /\ bus' # None /\ outFifo # <<>>
    BY <1>1, <1>2, <1>7, <1>9, NoneAssumption DEF Sent
  <2>2. Flying = Len(outFifo) /\ Flying' = Len(outFifo') + 1 /\ Flying \in Nat
    BY <1>7, <1>9, <2>1 DEF Flying
  <2>3. \A j : Flight(j) = outFifo[j]
    BY <1>9 DEF Flight
  <2>4. \A j : Flight(j)' = IF j = 1 THEN outFifo[1] ELSE outFifo'[j - 1]
    BY <2>1 DEF Flight
  <2>5. \A j \in 1..Flying - d : Flight(j)' = Flight(j + d)
    <3> SUFFICES ASSUME NEW j \in 1..Len(outFifo) PROVE Flight(j)' = Flight(j)
      BY <1>7, <2>1, <2>2
    <3>1. CASE j = 1
      BY <2>3, <2>4, <3>1
    <3>2. CASE j # 1
      <4>1. j - 1 \in 1..Len(outFifo) - g /\ (j - 1) + g = j
        BY <1>7, <2>1, <3>2
      <4> QED
        BY <1>6, <2>3, <2>4, <3>2, <4>1
    <3> QED
      BY <3>1, <3>2
  <2>6. Flying' = (Flying - d) + t
    BY <1>10, <2>1, <2>2
  <2>7. ASSUME t = 1 PROVE Flight(Flying)' = OutWord
    <3>1. Flying' # 1 /\ Flying' - 1 = Len(outFifo')
      BY <1>10, <2>1, <2>2, <2>7
    <3> QED
      BY <1>6, <2>4, <2>7, <3>1
  <2>8. \A j \in 1..Flying : Flight(j) \in Word
    BY <2>2, <2>3
  <2>9. ~Sent(ready)
    BY <1>9 DEF Sent
  <2> QED
    BY <1>2, <1>6, <1>7, <2>1, <2>2, <2>5, <2>6, <2>7, <2>8, <2>9
<1>11. CASE moves /\ bus # None
  <2>1. ready /\ Sent(ready) /\ d = 1 /\ g = 1 /\ bus \in Word /\ outFifo # <<>>
    BY <1>2, <1>11 DEF Sent
  <2>2. bus' = outFifo[1] /\ bus' \in Word /\ bus' # None
    BY <1>1, <1>7, <1>11, NoneAssumption
  <2>3. Flying = Len(outFifo) + 1 /\ Flying' = Len(outFifo') + 1 /\ Flying \in Nat
    BY <1>7, <1>11, <2>2 DEF Flying
  <2>4. \A j : Flight(j) = IF j = 1 THEN bus ELSE outFifo[j - 1]
    BY <1>11 DEF Flight
  <2>5. \A j : Flight(j)' = IF j = 1 THEN outFifo[1] ELSE outFifo'[j - 1]
    BY <2>2 DEF Flight
  <2>6. \A j \in 1..Flying - d : Flight(j)' = Flight(j + d)
    <3> SUFFICES ASSUME NEW j \in 1..Len(outFifo) PROVE Flight(j)' = Flight(j + 1)
      BY <1>7, <2>1, <2>3
    <3>1. j + 1 # 1 /\ (j + 1) - 1 = j
      OBVIOUS
    <3>2. Flight(j + 1) = outFifo[j]
      BY <2>4, <3>1
    <3>3. CASE j = 1
      BY <2>5, <3>2, <3>3
    <3>4. CASE j # 1
      <4>1. j - 1 \in 1..Len(outFifo) - g /\ (j - 1) + g = j
        BY <1>7, <2>1, <3>4
      <4> QED
        BY <1>6, <2>5, <3>2, <3>4, <4>1
    <3> QED
      BY <3>3, <3>4
  <2>7. Flying' = (Flying - d) + t
    BY <1>10, <2>1, <2>3
  <2>8. ASSUME t = 1 PROVE Flight(Flying)' = OutWord
    <3>1. Flying' # 1 /\ Flying' - 1 = Len(outFifo')
      BY <1>10, <2>1, <2>3, <2>8, <1>7
    <3> QED
      BY <1>6, <2>5, <2>8, <3>1
  <2>9. \A j \in 1..Flying : Flight(j) \in Word
    <3> SUFFICES ASSUME NEW j \in 1..Flying PROVE Flight(j) \in Word
      OBVIOUS
    <3>1. j = 1 \/ j - 1 \in 1..Len(outFifo)
      BY <1>7, <2>3
    <3> QED
      BY <2>1, <2>4, <3>1
  <2>10. Flying >= 1 /\ Flight(1) = bus
    BY <1>7, <2>3, <2>4
  <2> QED
    BY <1>6, <1>10, <2>1, <2>2, <2>3, <2>6, <2>7, <2>8, <2>9, <2>10
<1>12. CASE ~moves /\ bus # None /\ ready
  <2>1. Sent(ready) /\ d = 1 /\ g = 0 /\ bus \in Word /\ outFifo = <<>> /\ Len(outFifo) = 0
    BY <1>2, <1>8, <1>12 DEF Sent
  <2>2. bus' = None
    BY <1>1, <1>12
  <2>3. Flying = 1 /\ Flying' = Len(outFifo')
    BY <1>10, <1>12, <2>1, <2>2 DEF Flying
  <2>4. Flight(1) = bus /\ \A j : Flight(j)' = outFifo'[j]
    BY <1>12, <2>2 DEF Flight
  <2>5. Flying' = (Flying - d) + t
    BY <1>10, <2>1, <2>3
  <2>6. t = 1 => Flight(Flying)' = OutWord
    BY <1>6, <2>3, <2>4
  <2>7. \A j \in 1..Flying : Flight(j) \in Word
    BY <2>1, <2>3, <2>4
  <2> QED
    BY <1>6, <1>10, <2>1, <2>2, <2>3, <2>4, <2>5, <2>6, <2>7
<1>13. CASE ~moves /\ bus # None /\ ~ready
  <2>1. ~Sent(ready) /\ d = 0 /\ g = 0 /\ bus \in Word /\ bus' = bus
    BY <1>1, <1>2, <1>13 DEF Sent
  <2>2. Flying = Len(outFifo) + 1 /\ Flying' = Len(outFifo') + 1 /\ Flying \in Nat
    BY <1>7, <1>13, <2>1 DEF Flying
  <2>3. \A j : Flight(j) = IF j = 1 THEN bus ELSE outFifo[j - 1]
    BY <1>13 DEF Flight
  <2>4. \A j : Flight(j)' = IF j = 1 THEN bus ELSE outFifo'[j - 1]
    BY <1>13, <2>1 DEF Flight
  <2>5. \A j \in 1..Flying - d : Flight(j)' = Flight(j + d)
    <3> SUFFICES ASSUME NEW j \in 1..Len(outFifo) + 1 PROVE Flight(j)' = Flight(j)
      BY <1>7, <2>1, <2>2
    <3>1. CASE j = 1
      BY <2>3, <2>4, <3>1
    <3>2. CASE j # 1
      <4>1. j - 1 \in 1..Len(outFifo) - g /\ (j - 1) + g = j - 1
        BY <1>7, <2>1, <3>2
      <4> QED
        BY <1>6, <2>3, <2>4, <3>2, <4>1
    <3> QED
      BY <3>1, <3>2
  <2>6. Flying' = (Flying - d) + t
    BY <1>10, <2>1, <2>2
  <2>7. ASSUME t = 1 PROVE Flight(Flying)' = OutWord
    <3>1. Flying' # 1 /\ Flying' - 1 = Len(outFifo')
      BY <1>10, <2>1, <2>2, <2>7
    <3> QED
      BY <1>6, <2>4, <2>7, <3>1
  <2>8. \A j \in 1..Flying : Flight(j) \in Word
    <3> SUFFICES ASSUME NEW j \in 1..Flying PROVE Flight(j) \in Word
      OBVIOUS
    <3>1. j = 1 \/ j - 1 \in 1..Len(outFifo)
      BY <1>7, <2>2
    <3> QED
      BY <2>1, <2>3, <3>1
  <2> QED
    BY <1>6, <1>10, <2>1, <2>2, <2>5, <2>6, <2>7, <2>8
<1>14. CASE ~moves /\ bus = None
  <2>1. ~Sent(ready) /\ d = 0 /\ g = 0 /\ outFifo = <<>> /\ Len(outFifo) = 0 /\ bus' = None
    BY <1>1, <1>2, <1>8, <1>14 DEF Sent
  <2>2. Flying = 0 /\ Flying' = Len(outFifo')
    BY <1>10, <1>14, <2>1 DEF Flying
  <2>3. \A j : Flight(j)' = outFifo'[j]
    BY <2>1 DEF Flight
  <2>4. Flying' = (Flying - d) + t
    BY <1>10, <2>1, <2>2
  <2>5. t = 1 => Flight(Flying)' = OutWord
    BY <1>6, <2>2, <2>3
  <2> QED
    BY <1>6, <1>10, <2>1, <2>2, <2>3, <2>4, <2>5
<1> QED
  BY <1>9, <1>11, <1>12, <1>13, <1>14

-----------------------------------------------------------------------------
(***************************************************************************)
(* A word that is taken, and a transfer that is started.                   *)
(***************************************************************************)

LEMMA Taking ==
  ASSUME TypeOK, MachineOK, req = "start"
  PROVE  /\ Packet \in {2, 4, 8, 16} /\ length \in Nat \ {0} /\ op \in Nat /\ op < length
         /\ packets >= 1 /\ Field \in Nat \ {0}
         /\ addr.offset = Off(op + 1)
         /\ (payload # 3 => Field = Fill(Off(op + 1)))
         /\ addr.offset + Packet = (PacketsOf(length) - (packets - 1)) * Packet
<1>1. /\ cycle = length /\ op < length /\ packets <= PacketsOf(length)
      /\ addr.offset = (PacketsOf(length) - packets) * Packet
      /\ addr.offset <= op /\ op < addr.offset + Packet
  BY DEF MachineOK
<1>2. Packet \in {2, 4, 8, 16}
  BY PacketIs DEF TypeOK
<1>3. /\ length \in Nat \ {0} /\ op \in Nat /\ packets \in Nat /\ addr.offset \in Nat
  BY <1>1 DEF TypeOK, At
<1>4. /\ PacketsOf(length) \in Nat \ {0} /\ packets >= 1
      /\ packets > 1 => length - addr.offset > Packet
      /\ packets = 1 => /\ length - addr.offset <= Packet
                        /\ length - addr.offset = IF length % Packet = 0 THEN Packet ELSE length % Packet
      /\ addr.offset + Packet = (PacketsOf(length) - (packets - 1)) * Packet
  BY <1>1, <1>2, <1>3, PacketsFacts
<1>5. addr.offset = Off(op + 1)
  <2> DEFINE c == PacketsOf(length) - packets
  <2>1. c \in Nat /\ addr.offset = c * Packet
    BY <1>1, <1>3, <1>4
  <2> HIDE DEF c
  <2>2. Off(op + 1) = c * Packet
    BY <1>1, <1>2, <1>3, <2>1, OffIs
  <2> QED
    BY <2>1, <2>2
<1>6. FullField \in Nat \ {0} /\ (payload # 3 => FullField = Packet)
  BY <1>2 DEF FullField
<1>7. Field = IF packets > 1 THEN FullField
              ELSE IF length % Packet = 0 THEN FullField ELSE length % Packet
  BY <1>3, <1>4 DEF Field
<1>8. length % Packet \in Nat
  <2>1. CASE Packet = 2
    BY <1>3, <2>1
  <2>2. CASE Packet = 4
    BY <1>3, <2>2
  <2>3. CASE Packet = 8
    BY <1>3, <2>3
  <2>4. CASE Packet = 16
    BY <1>3, <2>4
  <2> QED
    BY <1>2, <2>1, <2>2, <2>3, <2>4
<1>9. Field \in Nat \ {0}
  BY <1>6, <1>7, <1>8
<1>10. ASSUME payload # 3 PROVE Field = Fill(addr.offset)
  <2>1. CASE packets > 1
    BY <1>2, <1>3, <1>4, <1>6, <1>7, <1>10, <2>1 DEF Fill
  <2>2. CASE packets = 1
    BY <1>2, <1>3, <1>4, <1>6, <1>7, <1>8, <1>10, <2>2 DEF Fill
  <2> QED
    BY <1>3, <1>4, <2>1, <2>2
<1> QED
  BY <1>1, <1>2, <1>3, <1>4, <1>5, <1>9, <1>10

\* The word being taken is the next of its transfer.
LEMMA OutWordOK ==
  ASSUME TypeOK, MachineOK, req = "start"
  PROVE  OutWord \in Word /\ OutWord.number = used + 1 /\ WordOK(OutWord, op + 1)
<1>1. /\ Field \in Nat \ {0} /\ addr.offset = Off(op + 1)
      /\ (payload # 3 => Field = Fill(Off(op + 1)))
  BY Taking
<1>2. cycle = length
  BY DEF MachineOK
<1>3. /\ addr \in At /\ used + 1 \in Nat
  BY DEF TypeOK
<1>4. Sop \in BOOLEAN /\ Eop \in BOOLEAN /\ LastWord \in BOOLEAN
  BY DEF Sop, Eop, LastWord
<1>5. OutWord \in Word
  BY <1>1, <1>3, <1>4 DEF OutWord, Word
<1>6. /\ OutWord.sop = Sop /\ OutWord.eop = Eop /\ OutWord.last = LastWord
      /\ OutWord.at = addr /\ OutWord.words = Field /\ OutWord.number = used + 1
  BY Zenon DEF OutWord
<1>7. addr = [transfer |-> addr.transfer, offset |-> Off(op + 1)]
  BY <1>1, <1>3 DEF At
<1>8. LastWord = (op + 1 = length)
  BY <1>2, Zenon DEF LastWord
<1>9. (Sop <=> (op + 1) % Packet = 1) /\ (Eop <=> (op + 1) % Packet = 0 \/ op + 1 = length)
  BY <1>8, Zenon DEF Sop, Eop
<1> QED
  BY <1>1, <1>5, <1>6, <1>7, <1>8, <1>9, Zenon DEF WordOK

\* A transfer starts when everything asked for is out and the engine is idle.
LEMMA Starting ==
  ASSUME Inv, NEW go \in BOOLEAN, Start(go),
         go => build = "Block_DMA" /\ list # <<>> /\ landed = asked
  PROVE  /\ Edge(go) /\ req = "idle" /\ bus = None /\ Flying = 0
         /\ Len(landed) = Len(asked) /\ list # <<>>
         /\ Head(list) \in Lengths /\ Head(list) \in Nat \ {0}
         /\ (build = "Scatter_Gather" => walk = "mem" /\ ~popping)
<1>1. TypeOK /\ MachineOK /\ CountOK /\ BlockOK /\ WalkOK
  BY DEF Inv
<1>2. build = "Block_DMA" \/ build = "Scatter_Gather"
  BY <1>1, BuildsAssumption DEF TypeOK
<1>3. list \in Seq(Lengths \cup {0})
  BY <1>1 DEF TypeOK
<1>4. list # <<>> => Head(list) = list[1] /\ 1 \in DOMAIN list /\ Head(list) \in Lengths \cup {0}
  BY <1>3
<1>5. /\ Len(landed) = Len(asked) /\ list # <<>> /\ Head(list) > 0 /\ ~startReg
      /\ (build = "Scatter_Gather" => walk = "mem" /\ ~popping)
  <2>1. CASE build = "Block_DMA"
    <3>1. go /\ list # <<>> /\ landed = asked
      BY <2>1 DEF Start
    <3>2. Len(landed) = Len(asked) /\ Len(asked) \in Nat
      BY <1>1, <3>1 DEF TypeOK
    <3> QED
      BY <1>1, <1>4, <2>1, <3>1, <3>2 DEF BlockOK
  <2>2. CASE build = "Scatter_Gather"
    BY <1>1, <2>2 DEF Start, WalkOK
  <2> QED
    BY <1>2, <2>1, <2>2
<1>6. Head(list) \in Lengths /\ Head(list) \in Nat \ {0}
  <2>1. Head(list) \in Lengths \cup {0}
    BY <1>4, <1>5
  <2>2. Head(list) # 0
    BY <1>5
  <2>3. Head(list) \in Lengths
    BY <2>1, <2>2, Zenon
  <2> QED
    BY <2>3, LengthsAssumption
<1>7. Flying + Left = 0 /\ Flying \in Nat /\ Left \in Nat
  <2>1. Left \in Nat
    BY <1>1 DEF Left, MachineOK, TypeOK
  <2>2. Flying \in Nat /\ Len(landed) \in Nat /\ Len(asked) \in Nat
    BY <1>1 DEF Flying, TypeOK
  <2> QED
    BY <1>1, <1>5, <2>1, <2>2 DEF CountOK
<1>8. req = "idle"
  <2>1. req = "start" => Left > 0
    BY <1>1 DEF Left, MachineOK, TypeOK
  <2> QED
    BY <1>1, <1>7, <2>1 DEF TypeOK
<1>9. bus = None
  BY <1>1, <1>7 DEF Flying, TypeOK
<1> QED
  BY <1>5, <1>6, <1>7, <1>8, <1>9 DEF Edge

-----------------------------------------------------------------------------
(***************************************************************************)
(* One clock.                                                              *)
(***************************************************************************)

\* A clock edge at which a word goes out (d = 1) or not, and one is taken (t = 1)
\* or not.
Tick(go, valid, ready, d, t) ==
  /\ Inv /\ Clock(go, valid, ready)
  /\ go \in BOOLEAN /\ valid \in BOOLEAN /\ ready \in BOOLEAN /\ d \in {0, 1} /\ t \in {0, 1}
  /\ (d = 1 <=> Sent(ready)) /\ (t = 1 <=> req = "start" /\ Takes(valid))

LEMMA WordsFacts ==
  ASSUME NEW k \in Nat, NEW n \in Nat
  PROVE  /\ Stream!Words(k, n) \in Seq(Places) /\ Len(Stream!Words(k, n)) = n
         /\ \A i \in 1..n :
              Stream!Words(k, n)[i] = [transfer |-> k, index |-> i, last |-> i = n]
<1>1. \A i \in 1..n : [transfer |-> k, index |-> i, last |-> i = n] \in Places
  <2> SUFFICES ASSUME NEW i \in 1..n
               PROVE  [transfer |-> k, index |-> i, last |-> i = n] \in Places
    OBVIOUS
  <2>1. (i = n) \in BOOLEAN /\ i \in Nat
    OBVIOUS
  <2> QED
    BY <2>1, Zenon DEF Places
<1> QED
  BY <1>1 DEF Stream!Words

LEMMA TransfersType ==
  ASSUME asked \in Seq(Places)
  PROVE  Stream!Transfers(asked) \in Nat
<1> DEFINE T == {i \in DOMAIN asked : asked[i].last}
<1>1. Len(asked) \in Nat /\ DOMAIN asked = 1..Len(asked)
  OBVIOUS
<1>2. IsFiniteSet(1..Len(asked))
  BY <1>1, FS_Interval
<1>3. T \subseteq 1..Len(asked)
  BY <1>1
<1>4. IsFiniteSet(T)
  BY <1>2, <1>3, FS_Subset
<1>5. Cardinality(T) \in Nat
  BY <1>4, FS_CardinalityType
<1>6. Stream!Cardinality(T) = Cardinality(T)
  BY Zenon DEF Stream!Cardinality, Cardinality
<1>7. Stream!Transfers(asked) = Stream!Cardinality(T)
  BY DEF Stream!Transfers
<1> QED
  BY <1>5, <1>6, <1>7

LEMMA Flows ==
  ASSUME NEW go, NEW valid, NEW ready, NEW d, NEW t, Tick(go, valid, ready, d, t)
  PROVE  /\ Flow(d, t) /\ d \in {0, 1} /\ t \in {0, 1}
         /\ (t = 1 => OutWord \in Word /\ OutWord.number = used + 1 /\ WordOK(OutWord, op + 1))
<1>1. /\ TypeOK /\ RoomOK /\ MachineOK /\ Output(valid, ready)
      /\ valid \in BOOLEAN /\ ready \in BOOLEAN /\ d \in {0, 1} /\ t \in {0, 1}
      /\ (d = 1 <=> Sent(ready)) /\ (t = 1 <=> req = "start" /\ Takes(valid))
  BY DEF Tick, Inv, Clock
<1>2. outFifo \in Seq(Word) /\ bus \in Word \cup {None}
  BY <1>1 DEF TypeOK
<1>3. tready => Len(outFifo) < OutDepth
  BY <1>1, <1>2, SizesAssumption DEF RoomOK
<1>4. ASSUME t = 1 PROVE OutWord \in Word /\ OutWord.number = used + 1 /\ WordOK(OutWord, op + 1)
  BY <1>1, <1>4, OutWordOK
<1>5. Flow(d, t)
  BY <1>1, <1>2, <1>3, <1>4, FlyStep
<1> QED
  BY <1>1, <1>4, <1>5

LEMMA RoomStep ==
  ASSUME NEW go, NEW valid, NEW ready, NEW d, NEW t, Tick(go, valid, ready, d, t)
  PROVE  RoomOK'
<1>1. /\ RoomOK /\ Len(outFifo) \in Nat /\ outFifo' \in Seq(Word) /\ d \in {0, 1} /\ t \in {0, 1}
      /\ Len(outFifo') <= Len(outFifo) + t
  <2>1. Flow(d, t) /\ d \in {0, 1} /\ t \in {0, 1}
    BY Flows
  <2>2. RoomOK /\ outFifo \in Seq(Word)
    BY DEF Tick, Inv, TypeOK
  <2> QED
    BY <2>1, <2>2 DEF Flow
<1>2. t = 1 => tready
  BY DEF Tick, Takes
<1>3. halfFull' <=> Len(outFifo) >= OutHalf
  BY Zenon DEF Tick, Clock, Output
<1>4. tready' => ~halfFull
  <2>1. tready' = FALSE \/ tready' = ~halfFull
    BY Zenon DEF Tick, Clock, Request, Idle, Move
  <2> QED
    BY <2>1
<1>5. Len(outFifo') \in Nat
  BY <1>1
<1> QED
  BY <1>1, <1>2, <1>3, <1>4, <1>5, SizesAssumption DEF RoomOK

LEMMA TypeReq ==
  ASSUME NEW go, NEW valid, NEW ready, NEW d, NEW t, Tick(go, valid, ready, d, t)
  PROVE  /\ req' \in {"idle", "start"} /\ startReg' \in BOOLEAN /\ length' \in Nat
         /\ cycle' \in Nat /\ op' \in Nat /\ packets' \in Nat /\ field' \in Nat
         /\ addr' \in At /\ tready' \in BOOLEAN /\ moved' \in Nat
<1>1. /\ Inv /\ TypeOK /\ MachineOK /\ go \in BOOLEAN
      /\ go => build = "Block_DMA" /\ list # <<>> /\ landed = asked
      /\ Idle(go) \/ Move(valid)
      /\ startReg' = Start(go) /\ CountMoved(go, valid)
  BY DEF Tick, Inv, Clock, Environment, Request
<1>2. /\ req \in {"idle", "start"} /\ length \in Nat /\ cycle \in Nat /\ op \in Nat /\ packets \in Nat
      /\ field \in Nat /\ addr \in At /\ moved \in Nat /\ asked \in Seq(Places) /\ payload \in Payloads
  BY <1>1 DEF TypeOK
<1>3. Start(go) => Head(list) \in Nat
  BY <1>1, Starting
<1>4. startReg' \in BOOLEAN /\ tready' \in BOOLEAN
  <2>1. Start(go) \in BOOLEAN
    BY <1>1, Zenon DEF Start
  <2>2. tready' = FALSE \/ tready' = ~halfFull
    BY <1>1, Zenon DEF Idle, Move
  <2> QED
    BY <1>1, <2>1, <2>2, Zenon
<1>5. moved' \in Nat
  BY <1>1, <1>2 DEF CountMoved
<1>6. Packet \in {2, 4, 8, 16}
  BY <1>2, PacketIs
<1>7. CASE Idle(go)
  <2>1. /\ op' = 0 /\ field' = field
        /\ \/ /\ Edge(go) /\ req' = "start" /\ length' = Head(list) /\ cycle' = Head(list)
              /\ packets' = PacketsOf(Head(list))
              /\ addr' = [transfer |-> Stream!Transfers(asked) + 1, offset |-> 0]
           \/ /\ cycle' = 0 /\ packets' = 0 /\ UNCHANGED <<req, length, addr>>
    BY <1>7 DEF Idle
  <2>2. CASE Edge(go) /\ req' = "start" /\ length' = Head(list) /\ cycle' = Head(list)
             /\ packets' = PacketsOf(Head(list))
             /\ addr' = [transfer |-> Stream!Transfers(asked) + 1, offset |-> 0]
    <3>1. Head(list) \in Nat
      BY <1>3, <2>2 DEF Edge
    <3>2. \A n \in Nat : PacketsOf(n) \in Nat
      <4>1. CASE Packet = 2
        BY <4>1 DEF PacketsOf
      <4>2. CASE Packet = 4
        BY <4>2 DEF PacketsOf
      <4>3. CASE Packet = 8
        BY <4>3 DEF PacketsOf
      <4>4. CASE Packet = 16
        BY <4>4 DEF PacketsOf
      <4> QED
        BY <1>6, <4>1, <4>2, <4>3, <4>4
    <3>3. Stream!Transfers(asked) \in Nat
      BY <1>2, TransfersType
    <3>4. addr' \in At
      BY <2>2, <3>3 DEF At
    <3> QED
      BY <1>2, <1>4, <1>5, <2>1, <2>2, <3>1, <3>2, <3>4
  <2>3. CASE cycle' = 0 /\ packets' = 0 /\ UNCHANGED <<req, length, addr>>
    BY <1>2, <1>4, <1>5, <2>1, <2>3
  <2> QED
    BY <2>1, <2>2, <2>3
<1>8. CASE Move(valid)
  <2>1. req = "start" /\ length' = length /\ cycle' = cycle
    BY <1>8 DEF Move
  <2>2. packets >= 1 /\ Field \in Nat \ {0}
    BY <1>1, <2>1, Taking
  <2>3. CASE Takes(valid)
    <3>1. /\ op' = op + 1 /\ field' = Field
          /\ packets' = (IF Eop THEN packets - 1 ELSE packets)
          /\ addr' = [addr EXCEPT !.offset = IF Eop THEN addr.offset + Packet ELSE addr.offset]
          /\ req' = IF LastWord THEN "idle" ELSE "start"
      BY <1>8, <2>3 DEF Move
    <3>2. (IF Eop THEN addr.offset + Packet ELSE addr.offset) \in Nat
      BY <1>2, <1>6 DEF At
    <3>3. addr' \in At
      <4> DEFINE o == IF Eop THEN addr.offset + Packet ELSE addr.offset
      <4> HIDE DEF o
      <4>1. o \in Nat /\ addr' = [addr EXCEPT !.offset = o]
        BY <3>1, <3>2 DEF o
      <4> QED
        BY <1>2, <4>1 DEF At
    <3>4. op' \in Nat /\ packets' \in Nat /\ field' \in Nat
      BY <1>2, <2>2, <3>1
    <3>5. req' \in {"idle", "start"}
      BY <3>1
    <3> QED
      BY <1>2, <1>4, <1>5, <2>1, <3>3, <3>4, <3>5
  <2>4. CASE ~Takes(valid)
    <3>1. UNCHANGED <<op, field, packets, addr, req>>
      BY <1>8, <2>4 DEF Move
    <3> QED
      BY <1>2, <1>4, <1>5, <2>1, <3>1
  <2> QED
    BY <2>3, <2>4
<1> QED
  BY <1>1, <1>7, <1>8

\* What the bus takes is what the host gets.
LEMMA Outgoing ==
  ASSUME NEW go, NEW valid, NEW ready, NEW d, NEW t, Tick(go, valid, ready, d, t)
  PROVE  /\ d = 0 => UNCHANGED <<packet, landed, stored>>
         /\ d = 1 => /\ bus \in Word /\ PacketNow \in [at : At, words : Nat, seen : Nat]
                     /\ Place \in Places \cup {None} /\ bus.number \in Nat
                     /\ packet' = PacketNow /\ landed' = Append(landed, Place)
                     /\ stored' = Append(stored, bus.number)
<1>1. Environment(go, valid, ready) /\ TypeOK /\ d \in {0, 1} /\ (d = 1 <=> Sent(ready))
  BY DEF Tick, Inv, Clock
<1>2. CASE d = 0
  BY <1>1, <1>2 DEF Environment
<1>3. CASE d = 1
  <2>1. /\ packet' = PacketNow /\ landed' = Append(landed, Place)
        /\ stored' = Append(stored, bus.number) /\ bus # None
    BY <1>1, <1>3 DEF Environment, Sent
  <2>2. bus \in Word /\ packet \in [at : At, words : Nat, seen : Nat]
    BY <1>1, <2>1 DEF TypeOK
  <2>3. bus.number \in Nat /\ bus.at \in At /\ bus.words \in Nat /\ bus.last \in BOOLEAN
    <3>1. bus.number \in Nat /\ bus.at \in At /\ bus.words \in Nat
      BY <2>2 DEF Word
    <3>2. bus.last \in BOOLEAN
      BY <2>2, Zenon DEF Word
    <3> QED
      BY <3>1, <3>2
  <2>4. PacketNow \in [at : At, words : Nat, seen : Nat]
    <3>1. CASE bus.sop
      BY <2>3, <3>1 DEF PacketNow
    <3>2. CASE ~bus.sop
      BY <2>2, <3>2 DEF PacketNow
    <3> QED
      BY <3>1, <3>2
  <2>5. Place \in Places \cup {None}
    <3> DEFINE p == PacketNow
    <3>1. p.at.transfer \in Nat /\ p.at.offset + p.seen \in Nat
      BY <2>4 DEF At
    <3> HIDE DEF p
    <3>2. [transfer |-> p.at.transfer, index |-> p.at.offset + p.seen, last |-> bus.last] \in Places
      BY <2>3, <3>1, Zenon DEF Places
    <3> QED
      BY <3>2 DEF Place, p
  <2> QED
    BY <1>3, <2>1, <2>2, <2>3, <2>4, <2>5
<1> QED
  BY <1>1, <1>2, <1>3

LEMMA TypeEnv ==
  ASSUME NEW go, NEW valid, NEW ready, NEW d, NEW t, Tick(go, valid, ready, d, t)
  PROVE  /\ build' \in Builds /\ payload' \in Payloads /\ build' = build /\ payload' = payload
         /\ list' \in Seq(Lengths \cup {0}) /\ used' \in Nat /\ spilled' \subseteq 1..used'
         /\ packet' \in [at : At, words : Nat, seen : Nat]
         /\ asked' \in Seq(Places) /\ landed' \in Seq(Places \cup {None})
         /\ stored' \in Seq(Nat)
<1>1. /\ Environment(go, valid, ready) /\ Inv /\ TypeOK /\ go \in BOOLEAN /\ d \in {0, 1}
      /\ BlockOK /\ WalkOK
      /\ (go => build = "Block_DMA" /\ list # <<>> /\ landed = asked)
  BY DEF Tick, Inv, Clock, Environment
<1>2. /\ build \in Builds /\ payload \in Payloads /\ list \in Seq(Lengths \cup {0})
      /\ used \in Nat /\ spilled \subseteq 1..used /\ asked \in Seq(Places)
      /\ packet \in [at : At, words : Nat, seen : Nat]
      /\ landed \in Seq(Places \cup {None}) /\ stored \in Seq(Nat)
  BY <1>1 DEF TypeOK
<1>3. build' = build /\ payload' = payload
  BY <1>1 DEF Environment
<1>4. list' \in Seq(Lengths \cup {0})
  <2>1. list' = IF go \/ popping THEN Tail(list) ELSE list
    BY <1>1 DEF Environment
  <2>2. go \/ popping => list # <<>>
    BY <1>1, <1>2, BuildsAssumption DEF BlockOK, WalkOK
  <2> QED
    BY <1>2, <2>1, <2>2
<1>5. used' \in Nat /\ spilled' \subseteq 1..used'
  <2>1. /\ used' = (IF Gives(valid) THEN used + 1 ELSE used)
        /\ spilled' = IF Gives(valid) /\ req = "idle" THEN spilled \cup {used + 1} ELSE spilled
    BY <1>1 DEF Environment
  <2> QED
    BY <1>2, <2>1
<1>6. asked' \in Seq(Places)
  <2>1. CASE Start(go)
    <3> DEFINE w == Stream!Words(Stream!Transfers(asked) + 1, Head(list))
    <3>1. asked' = asked \o w
      BY <1>1, <2>1 DEF Environment
    <3>2. Head(list) \in Nat
      BY <1>1, <2>1, Starting
    <3>3. Stream!Transfers(asked) + 1 \in Nat
      BY <1>2, TransfersType
    <3>4. w \in Seq(Places)
      BY <3>2, <3>3, WordsFacts
    <3> HIDE DEF w
    <3> QED
      BY <1>2, <3>1, <3>4
  <2>2. CASE ~Start(go)
    BY <1>1, <1>2, <2>2 DEF Environment
  <2> QED
    BY <2>1, <2>2
<1>7. CASE d = 0
  <2>1. UNCHANGED <<packet, landed, stored>>
    BY <1>7, Outgoing
  <2> QED
    BY <1>2, <1>3, <1>4, <1>5, <1>6, <2>1
<1>8. CASE d = 1
  <2>1. /\ PacketNow \in [at : At, words : Nat, seen : Nat]
        /\ Place \in Places \cup {None} /\ bus.number \in Nat
        /\ packet' = PacketNow /\ landed' = Append(landed, Place)
        /\ stored' = Append(stored, bus.number)
    BY <1>8, Outgoing
  <2>2. landed' \in Seq(Places \cup {None}) /\ stored' \in Seq(Nat)
    BY <1>2, <2>1
  <2> QED
    BY <1>2, <1>3, <1>4, <1>5, <1>6, <2>1, <2>2
<1> QED
  BY <1>1, <1>7, <1>8

LEMMA TypeStep ==
  ASSUME NEW go, NEW valid, NEW ready, NEW d, NEW t, Tick(go, valid, ready, d, t)
  PROVE  TypeOK'
<1>1. /\ Inv /\ TypeOK /\ BlockOK /\ WalkOK /\ Output(valid, ready) /\ Walk(ready)
  BY DEF Tick, Inv, Clock
<1>2. /\ req' \in {"idle", "start"} /\ startReg' \in BOOLEAN /\ length' \in Nat
      /\ cycle' \in Nat /\ op' \in Nat /\ packets' \in Nat /\ field' \in Nat
      /\ addr' \in At /\ tready' \in BOOLEAN /\ moved' \in Nat
  BY TypeReq
<1>3. /\ build' \in Builds /\ payload' \in Payloads
      /\ list' \in Seq(Lengths \cup {0}) /\ used' \in Nat /\ spilled' \subseteq 1..used'
      /\ packet' \in [at : At, words : Nat, seen : Nat]
      /\ asked' \in Seq(Places) /\ landed' \in Seq(Places \cup {None})
      /\ stored' \in Seq(Nat)
  BY TypeEnv
<1>4. outFifo' \in Seq(Word) /\ bus' \in Word \cup {None}
  BY Flows DEF Flow
<1>5. Len(outFifo') <= OutDepth
  <2>1. RoomOK' /\ Len(outFifo') \in Nat
    BY <1>4, RoomStep
  <2> QED
    BY <2>1, SizesAssumption DEF RoomOK
<1>6. halfFull' \in BOOLEAN
  <2>1. (Len(outFifo) >= OutHalf) \in BOOLEAN
    OBVIOUS
  <2> QED
    BY <1>1, <2>1, Zenon DEF Output
<1>7. /\ walk' \in {"idle", "mem", "end"} /\ popping' \in BOOLEAN
      /\ entry' \in Nat /\ stage' \in Nat
  <2>1. walk \in {"idle", "mem", "end"} /\ popping \in BOOLEAN /\ entry \in Nat /\ stage \in Nat
    BY <1>1 DEF TypeOK
  <2>2. popping => list # <<>>
    BY <1>1, BuildsAssumption DEF BlockOK, WalkOK, TypeOK
  <2>3. popping => Head(list) \in Nat
    <3>1. list \in Seq(Lengths \cup {0})
      BY <1>1 DEF TypeOK
    <3>2. popping => Head(list) \in Lengths \cup {0}
      BY <2>2, <3>1
    <3>3. \A n \in Lengths \cup {0} : n \in Nat
      BY LengthsAssumption
    <3> QED
      BY <3>2, <3>3, Zenon
  <2>4. popping' \in BOOLEAN
    <3>1. (list # <<>>) \in BOOLEAN
      OBVIOUS
    <3> QED
      BY <1>1, <2>1, <3>1, Zenon DEF Walk, Fetch, Await, Rest
  <2>5. CASE Fetch
    BY <2>1, <2>3, <2>4, <2>5 DEF Fetch
  <2>6. CASE Await(ready)
    BY <2>1, <2>4, <2>6 DEF Await
  <2>7. CASE Rest
    BY <2>1, <2>4, <2>7 DEF Rest
  <2> QED
    BY <1>1, <2>5, <2>6, <2>7 DEF Walk
<1> QED
  BY <1>2, <1>3, <1>4, <1>5, <1>6, <1>7 DEF TypeOK

\* The registers of a clock that starts a transfer.
LEMMA Begins ==
  ASSUME NEW go, NEW valid, NEW ready, NEW d, NEW t, Tick(go, valid, ready, d, t), Start(go)
  PROVE  /\ req = "idle" /\ req' = "start" /\ d = 0 /\ t = 0 /\ Flying = 0 /\ Flying' = 0
         /\ Head(list) \in Nat \ {0} /\ length' = Head(list) /\ cycle' = Head(list)
         /\ op' = 0 /\ moved' = 0 /\ packets' = PacketsOf(Head(list)) /\ tready' = FALSE
         /\ addr' = [transfer |-> Stream!Transfers(asked) + 1, offset |-> 0]
         /\ asked' = asked \o Stream!Words(Stream!Transfers(asked) + 1, Head(list))
         /\ UNCHANGED <<packet, landed, stored>>
         /\ landed \in Seq(Places \cup {None}) /\ asked \in Seq(Places)
         /\ Len(landed) = Len(asked)
         /\ (build = "Scatter_Gather" => walk = "mem" /\ ~popping)
<1>1. /\ Inv /\ TypeOK /\ go \in BOOLEAN /\ Environment(go, valid, ready)
      /\ go => build = "Block_DMA" /\ list # <<>> /\ landed = asked
      /\ Idle(go) \/ Move(valid)
      /\ CountMoved(go, valid)
      /\ d \in {0, 1} /\ t \in {0, 1}
      /\ (d = 1 <=> Sent(ready)) /\ (t = 1 <=> req = "start" /\ Takes(valid))
  BY DEF Tick, Inv, Clock, Environment, Request
<1>2. /\ Edge(go) /\ req = "idle" /\ bus = None /\ Flying = 0
      /\ Len(landed) = Len(asked) /\ Head(list) \in Nat \ {0}
      /\ (build = "Scatter_Gather" => walk = "mem" /\ ~popping)
  BY <1>1, Starting
<1>3. d = 0 /\ t = 0
  BY <1>1, <1>2 DEF Sent
<1>4. Idle(go)
  BY <1>1, <1>2 DEF Move
<1>5. /\ req' = "start" /\ length' = Head(list) /\ cycle' = Head(list)
      /\ op' = 0 /\ packets' = PacketsOf(Head(list)) /\ tready' = FALSE
      /\ addr' = [transfer |-> Stream!Transfers(asked) + 1, offset |-> 0]
  BY <1>2, <1>4 DEF Idle
<1>6. moved' = 0
  BY <1>1 DEF CountMoved
<1>7. Flying' = 0
  <2>1. Flow(d, t)
    BY Flows
  <2> QED
    BY <1>2, <1>3, <2>1 DEF Flow
<1>8. /\ asked' = asked \o Stream!Words(Stream!Transfers(asked) + 1, Head(list))
      /\ landed \in Seq(Places \cup {None}) /\ asked \in Seq(Places)
  BY <1>1 DEF Environment, TypeOK
<1>9. UNCHANGED <<packet, landed, stored>>
  BY <1>3, Outgoing
<1> QED
  BY <1>2, <1>3, <1>5, <1>6, <1>7, <1>8, <1>9

\* The registers of any other clock.
LEMMA Goes ==
  ASSUME NEW go, NEW valid, NEW ready, NEW d, NEW t, Tick(go, valid, ready, d, t), ~Start(go)
  PROVE  /\ length' = length /\ addr'.transfer = addr.transfer /\ asked' = asked
         /\ payload' = payload /\ Packet' = Packet /\ Base' = Base
         /\ req = "idle" => req' = "idle" /\ ~tready' /\ t = 0
         /\ req = "start" /\ t = 0 => UNCHANGED <<req, cycle, op, packets, addr, moved>>
         /\ req = "start" /\ t = 1 =>
              /\ cycle' = cycle /\ op' = op + 1 /\ moved' = moved + 1
              /\ packets' = (IF Eop THEN packets - 1 ELSE packets)
              /\ addr' = [addr EXCEPT !.offset = IF Eop THEN addr.offset + Packet ELSE addr.offset]
              /\ req' = IF op + 1 = cycle THEN "idle" ELSE "start"
<1>1. /\ TypeOK /\ Environment(go, valid, ready) /\ (Idle(go) \/ Move(valid))
      /\ CountMoved(go, valid) /\ t \in {0, 1} /\ (t = 1 <=> req = "start" /\ Takes(valid))
  BY DEF Tick, Inv, Clock, Request
<1>2. asked' = asked /\ payload' = payload
  BY <1>1 DEF Environment
<1>3. Packet' = Packet
  BY <1>2 DEF Packet
<1>4. CASE req = "idle"
  <2>1. Idle(go) /\ ~Edge(go) /\ t = 0
    BY <1>1, <1>4 DEF Move, Edge
  <2>2. length' = length /\ addr' = addr /\ req' = "idle" /\ ~tready'
    BY <1>4, <2>1 DEF Idle
  <2> QED
    BY <1>2, <1>3, <1>4, <2>1, <2>2 DEF Base
<1>5. CASE req = "start"
  <2>1. Move(valid) /\ length' = length /\ cycle' = cycle
    BY <1>1, <1>5 DEF Idle, Move
  <2>2. CASE t = 0
    <3>1. UNCHANGED <<op, packets, addr, req>> /\ moved' = moved
      BY <1>1, <1>5, <2>1, <2>2 DEF Move, CountMoved
    <3> QED
      BY <1>2, <1>3, <1>5, <2>1, <2>2, <3>1 DEF Base
  <2>3. CASE t = 1
    <3>1. /\ op' = op + 1 /\ moved' = moved + 1
          /\ packets' = (IF Eop THEN packets - 1 ELSE packets)
          /\ addr' = [addr EXCEPT !.offset = IF Eop THEN addr.offset + Packet ELSE addr.offset]
          /\ req' = IF op + 1 = cycle THEN "idle" ELSE "start"
      BY <1>1, <1>5, <2>1, <2>3 DEF Move, CountMoved, LastWord
    <3> DEFINE o == IF Eop THEN addr.offset + Packet ELSE addr.offset
    <3> HIDE DEF o
    <3>2. addr' = [addr EXCEPT !.offset = o]
      BY <3>1 DEF o
    <3>3. addr \in At
      BY <1>1 DEF TypeOK
    <3>4. addr'.transfer = addr.transfer
      BY <3>2, <3>3 DEF At
    <3> QED
      BY <1>2, <1>3, <1>5, <2>1, <2>3, <3>1, <3>4 DEF Base
  <2> QED
    BY <1>1, <2>2, <2>3
<1> QED
  BY <1>1, <1>4, <1>5 DEF TypeOK

LEMMA MachineStep ==
  ASSUME NEW go, NEW valid, NEW ready, NEW d, NEW t, Tick(go, valid, ready, d, t)
  PROVE  MachineOK'
<1>1. TypeOK /\ MachineOK /\ TypeOK' /\ payload' = payload /\ payload \in Payloads /\ t \in {0, 1}
  BY TypeStep, TypeEnv, ZenonT(60) DEF Tick, Inv, TypeOK
<1>2. Packet' = Packet /\ Packet \in {2, 4, 8, 16}
  BY <1>1, PacketIs DEF Packet
<1>3. \A n : PacketsOf(n)' = PacketsOf(n)
  BY <1>2 DEF PacketsOf
<1>4. CASE Start(go)
  <2>1. /\ Head(list) \in Nat \ {0} /\ length' = Head(list) /\ cycle' = Head(list)
        /\ op' = 0 /\ moved' = 0 /\ packets' = PacketsOf(Head(list))
        /\ addr'.offset = 0
    <3>1. addr' = [transfer |-> Stream!Transfers(asked) + 1, offset |-> 0]
      BY <1>4, Begins
    <3>2. addr'.offset = 0
      BY <3>1
    <3> QED
      BY <1>4, <3>2, Begins
  <2>2. packets' = PacketsOf(length') /\ packets' \in Nat
    BY <1>1, <2>1 DEF TypeOK
  <2>3. PacketsOf(length)' = PacketsOf(length')
    BY <1>2 DEF PacketsOf
  <2>4. (PacketsOf(length)' - packets') * Packet = 0
    BY <1>2, <2>2, <2>3
  <2> QED
    BY <1>2, <2>1, <2>2, <2>3, <2>4 DEF MachineOK
<1>5. CASE ~Start(go)
  <2> SUFFICES ASSUME req' = "start" PROVE MachineOK'
    BY DEF MachineOK
  <2>1. req = "start" /\ length' = length
    BY <1>1, <1>5, Goes DEF TypeOK
  <2>2. PacketsOf(length)' = PacketsOf(length)
    BY <1>2, <2>1 DEF PacketsOf
  <2>3. /\ cycle = length /\ op < length /\ moved = op /\ packets <= PacketsOf(length)
        /\ addr.offset = (PacketsOf(length) - packets) * Packet
        /\ addr.offset <= op /\ op < addr.offset + Packet
    BY <1>1, <2>1 DEF MachineOK
  <2>4. CASE t = 0
    <3>1. UNCHANGED <<req, cycle, op, packets, addr, moved>>
      BY <1>5, <2>1, <2>4, Goes
    <3> QED
      BY <1>2, <2>1, <2>2, <2>3, <3>1 DEF MachineOK
  <2>5. CASE t = 1
    <3>1. /\ cycle' = cycle /\ op' = op + 1 /\ moved' = moved + 1
          /\ packets' = (IF Eop THEN packets - 1 ELSE packets)
          /\ addr' = [addr EXCEPT !.offset = IF Eop THEN addr.offset + Packet ELSE addr.offset]
          /\ req' = IF op + 1 = cycle THEN "idle" ELSE "start"
      BY <1>5, <2>1, <2>5, Goes
    <3>2. /\ length \in Nat \ {0} /\ op \in Nat /\ packets >= 1 /\ addr.offset = Off(op + 1)
          /\ addr.offset + Packet = (PacketsOf(length) - (packets - 1)) * Packet
      BY <1>1, <2>1, Taking
    <3>3. op + 1 # length /\ op + 1 < length
      BY <2>3, <3>1, <3>2
    <3>4. Eop <=> (op + 1) % Packet = 0
      BY <2>3, <3>3 DEF Eop, LastWord
    <3>5. (op + 1) % Packet = 0 <=> op + 1 = addr.offset + Packet
      <4>1. op + 1 \in Nat \ {0}
        BY <3>2
      <4>2. (op + 1) % Packet = 0 <=> op + 1 = Off(op + 1) + Packet
        BY <1>2, <4>1, OffFacts
      <4> QED
        BY <3>2, <4>2
    <3>6. addr \in At /\ packets \in Nat /\ addr.offset \in Nat
      BY <1>1 DEF TypeOK, At
    <3> DEFINE o == IF Eop THEN addr.offset + Packet ELSE addr.offset
    <3>7. o <= op + 1 /\ op + 1 < o + Packet
      <4>1. CASE Eop
        BY <1>2, <2>3, <3>2, <3>4, <3>5, <3>6, <4>1
      <4>2. CASE ~Eop
        BY <1>2, <2>3, <3>2, <3>4, <3>5, <3>6, <4>2
      <4> QED
        BY <4>1, <4>2
    <3>8. o = (PacketsOf(length) - packets') * Packet /\ packets' <= PacketsOf(length)
      <4>1. PacketsOf(length) \in Nat
        <5>1. CASE Packet = 2
          BY <3>2, <5>1 DEF PacketsOf
        <5>2. CASE Packet = 4
          BY <3>2, <5>2 DEF PacketsOf
        <5>3. CASE Packet = 8
          BY <3>2, <5>3 DEF PacketsOf
        <5>4. CASE Packet = 16
          BY <3>2, <5>4 DEF PacketsOf
        <5> QED
          BY <1>2, <5>1, <5>2, <5>3, <5>4
      <4>2. CASE Eop
        BY <2>3, <3>1, <3>2, <3>6, <4>1, <4>2
      <4>3. CASE ~Eop
        BY <2>3, <3>1, <4>3
      <4> QED
        BY <4>2, <4>3
    <3> HIDE DEF o
    <3>9. addr' = [addr EXCEPT !.offset = o]
      BY <3>1 DEF o
    <3>10. addr'.offset = o
      BY <3>6, <3>9 DEF At
    <3> QED
      BY <1>2, <2>1, <2>2, <2>3, <3>1, <3>3, <3>7, <3>8, <3>10 DEF MachineOK
  <2> QED
    BY <1>1, <2>4, <2>5
<1> QED
  BY <1>4, <1>5

LEMMA MaskStep ==
  ASSUME NEW go, NEW valid, NEW ready, NEW d, NEW t, Tick(go, valid, ready, d, t)
  PROVE  MaskOK'
<1>1. TypeOK /\ MachineOK /\ t \in {0, 1}
  BY DEF Tick, Inv
<1>2. CASE Start(go)
  BY <1>2, Begins DEF MaskOK
<1>3. CASE ~Start(go)
  <2> SUFFICES ASSUME req' = "idle", tready' PROVE moved' >= length' /\ moved' # 0
    BY DEF MaskOK
  <2>1. req = "start"
    <3>1. req = "idle" => ~tready'
      BY <1>3, Goes
    <3> QED
      BY <1>1, <3>1 DEF TypeOK
  <2>2. t = 1
    BY <1>1, <1>3, <2>1, Goes
  <2>3. /\ length' = length /\ moved' = moved + 1
        /\ req' = IF op + 1 = cycle THEN "idle" ELSE "start"
    BY <1>3, <2>1, <2>2, Goes
  <2>4. op + 1 = length /\ moved = op /\ op \in Nat
    BY <1>1, <2>1, <2>3 DEF MachineOK, TypeOK
  <2> QED
    BY <2>3, <2>4
<1> QED
  BY <1>2, <1>3

LEMMA AskedStep ==
  ASSUME NEW go, NEW valid, NEW ready, NEW d, NEW t, Tick(go, valid, ready, d, t)
  PROVE  AskedOK'
<1>1. AskedOK
  BY DEF Tick, Inv
<1>2. CASE Start(go)
  <2> DEFINE n == Head(list)
             k == Stream!Transfers(asked) + 1
             w == Stream!Words(k, n)
  <2>1. /\ n \in Nat \ {0} /\ length' = n /\ asked' = asked \o w /\ asked \in Seq(Places)
        /\ addr' = [transfer |-> k, offset |-> 0]
    BY <1>2, Begins
  <2>2. k \in Nat
    BY <2>1, TransfersType
  <2> HIDE DEF k, n
  <2>3. /\ w \in Seq(Places) /\ Len(w) = n
        /\ \A i \in 1..n : w[i] = [transfer |-> k, index |-> i, last |-> i = n]
    BY <2>1, <2>2, WordsFacts
  <2> HIDE DEF w
  <2>4. /\ Len(asked \o w) = Len(asked) + Len(w)
        /\ \A i \in 1..Len(asked) + Len(w) :
             (asked \o w)[i] = IF i <= Len(asked) THEN asked[i] ELSE w[i - Len(asked)]
    <3>1. asked \in Seq(Places) /\ w \in Seq(Places)
      BY <2>1, <2>3
    <3> QED
      BY <3>1, ConcatProperties
  <2>5. Len(asked) \in Nat /\ Len(asked') = Len(asked) + n /\ Base' = Len(asked)
    BY <2>1, <2>3, <2>4 DEF Base
  <2>6. ASSUME NEW x \in 1..n
        PROVE  asked'[Base' + x] = [transfer |-> k, index |-> x, last |-> x = n]
    <3>1. /\ Len(asked) + x \in 1..Len(asked) + Len(w) /\ ~(Len(asked) + x <= Len(asked))
          /\ (Len(asked) + x) - Len(asked) = x
      BY <2>1, <2>3, <2>5
    <3>2. asked'[Len(asked) + x] = w[x]
      BY <2>1, <2>4, <3>1, Zenon
    <3>3. w[x] = [transfer |-> k, index |-> x, last |-> x = n]
      BY <2>3
    <3> QED
      BY <2>5, <3>2, <3>3, Zenon
  <2>7. length' <= Len(asked')
    BY <2>1, <2>5
  <2>8. addr'.transfer = k
    BY <2>1
  <2> QED
    BY <2>1, <2>6, <2>7, <2>8, Zenon DEF AskedOK
<1>3. CASE ~Start(go)
  <2>1. length' = length /\ addr'.transfer = addr.transfer /\ asked' = asked /\ Base' = Base
    BY <1>3, Goes
  <2> QED
    BY <1>1, <2>1, Zenon DEF AskedOK
<1> QED
  BY <1>2, <1>3

LEMMA CountStep ==
  ASSUME NEW go, NEW valid, NEW ready, NEW d, NEW t, Tick(go, valid, ready, d, t)
  PROVE  CountOK' /\ Len(landed') = Len(landed) + d
<1>1. CountOK /\ TypeOK /\ TypeOK' /\ MachineOK /\ d \in {0, 1} /\ t \in {0, 1} /\ AskedOK
  BY TypeStep DEF Tick, Inv
<1>2. Flow(d, t)
  BY Flows
<1>3. Flying \in Nat /\ Flying' = (Flying - d) + t /\ (d = 1 => Flying >= 1)
  BY <1>2 DEF Flow
<1>4. landed \in Seq(Places \cup {None}) /\ Len(landed) \in Nat /\ Len(asked) \in Nat
  <2>1. landed \in Seq(Places \cup {None}) /\ asked \in Seq(Places)
    BY <1>1 DEF TypeOK
  <2> QED
    BY <2>1
<1>5. Len(landed') = Len(landed) + d
  <2>1. CASE d = 0
    BY <1>4, <2>1, Outgoing
  <2>2. CASE d = 1
    <3>1. landed' = Append(landed, Place) /\ Place \in Places \cup {None}
      BY <2>2, Outgoing
    <3> QED
      BY <1>4, <2>2, <3>1
  <2> QED
    BY <1>1, <2>1, <2>2
<1>6. CASE Start(go)
  <2>1. /\ Head(list) \in Nat \ {0} /\ length' = Head(list) /\ cycle' = Head(list) /\ op' = 0
        /\ req' = "start" /\ Flying' = 0 /\ Len(landed) = Len(asked)
        /\ asked' = asked \o Stream!Words(Stream!Transfers(asked) + 1, Head(list))
        /\ d = 0 /\ asked \in Seq(Places)
    BY <1>6, Begins
  <2>2. Len(asked') = Len(asked) + Head(list)
    <3> DEFINE k == Stream!Transfers(asked) + 1
    <3>1. k \in Nat
      BY <2>1, TransfersType
    <3> HIDE DEF k
    <3>2. Stream!Words(k, Head(list)) \in Seq(Places) /\ Len(Stream!Words(k, Head(list))) = Head(list)
      BY <2>1, <3>1, WordsFacts, ZenonT(60)
    <3> DEFINE w == Stream!Words(k, Head(list))
    <3>3. asked' = asked \o w
      BY <2>1 DEF k
    <3> HIDE DEF w
    <3>4. w \in Seq(Places) /\ Len(w) = Head(list)
      BY <3>2 DEF w
    <3>5. Len(asked \o w) = Len(asked) + Len(w)
      BY <2>1, <3>4, ConcatProperties, Zenon
    <3> QED
      BY <3>3, <3>4, <3>5
  <2> QED
    BY <1>3, <1>4, <1>5, <2>1, <2>2 DEF CountOK, Base, Left
<1>7. CASE ~Start(go)
  <2>1. length' = length /\ asked' = asked /\ Base' = Base
    BY <1>7, Goes
  <2>2. Left' = Left - t /\ Left \in Nat
    <3>1. CASE req = "idle"
      <4>1. req' = "idle" /\ t = 0
        BY <1>7, <3>1, Goes
      <4> QED
        BY <3>1, <4>1 DEF Left
    <3>2. CASE req = "start"
      <4>1. op \in Nat /\ cycle \in Nat /\ op < cycle
        BY <1>1, <3>2 DEF MachineOK, TypeOK
      <4>2. CASE t = 0
        BY <1>7, <3>2, <4>1, <4>2, Goes DEF Left
      <4>3. CASE t = 1
        <5>1. cycle' = cycle /\ op' = op + 1 /\ req' = IF op + 1 = cycle THEN "idle" ELSE "start"
          BY <1>7, <3>2, <4>3, Goes
        <5> QED
          BY <3>2, <4>1, <4>3, <5>1 DEF Left
      <4> QED
        BY <1>1, <4>2, <4>3
    <3> QED
      BY <1>1, <3>1, <3>2 DEF TypeOK
  <2>3. Base \in Int
    BY <1>1, <1>4 DEF Base, TypeOK
  <2> QED
    BY <1>1, <1>3, <1>4, <1>5, <2>1, <2>2, <2>3 DEF CountOK
<1> QED
  BY <1>6, <1>7

\* Where the words in the engine stand in their transfer.
LEMMA Standing ==
  ASSUME TypeOK, AskedOK, CountOK, MachineOK
  PROVE  /\ Base \in Nat /\ length \in Nat /\ Len(asked) \in Nat /\ Len(landed) \in Nat
         /\ Flying \in Nat /\ Len(asked) = Base + length
         /\ Base <= Len(landed) /\ Len(landed) + Flying <= Len(asked)
         /\ (req = "start" => (Len(landed) - Base) + Flying = op)
<1>1. length \in Nat /\ Len(asked) \in Nat /\ Len(landed) \in Nat /\ Flying \in Nat
  <2>1. landed \in Seq(Places \cup {None}) /\ asked \in Seq(Places) /\ outFifo \in Seq(Word)
        /\ length \in Nat
    BY DEF TypeOK
  <2> QED
    BY <2>1 DEF Flying
<1>2. Base \in Nat /\ Len(asked) = Base + length
  BY <1>1 DEF AskedOK, Base
<1>3. Left \in Nat /\ (req = "start" => Left = length - op /\ op \in Nat)
  BY DEF MachineOK, Left, TypeOK
<1>4. Base <= Len(landed) /\ Len(landed) + Flying + Left = Len(asked)
  BY DEF CountOK
<1> QED
  BY <1>1, <1>2, <1>3, <1>4

LEMMA FlightStep ==
  ASSUME NEW go, NEW valid, NEW ready, NEW d, NEW t, Tick(go, valid, ready, d, t)
  PROVE  FlightOK'
<1>1. TypeOK /\ AskedOK /\ CountOK /\ MachineOK /\ FlightOK /\ d \in {0, 1} /\ t \in {0, 1}
  BY DEF Tick, Inv
<1>2. Flow(d, t) /\ Len(landed') = Len(landed) + d
  BY Flows, CountStep
<1>3. CASE Start(go)
  <2>1. Flying' = 0
    BY <1>3, Begins
  <2> QED
    BY <2>1 DEF FlightOK
<1>4. CASE ~Start(go)
  <2>1. /\ length' = length /\ addr'.transfer = addr.transfer
        /\ payload' = payload /\ Packet' = Packet /\ Base' = Base
    BY <1>4, Goes
  <2>2. /\ Base \in Nat /\ Len(landed) \in Nat /\ Flying \in Nat
        /\ Flying' = (Flying - d) + t /\ (d = 1 => Flying >= 1)
    BY <1>1, <1>2, Standing DEF Flow
  <2> SUFFICES ASSUME NEW j \in 1..Flying'
               PROVE  WordOK(Flight(j), Len(landed) - Base + j)'
    BY DEF FlightOK
  <2>3. CASE j <= Flying - d
    <3> DEFINE y == (Len(landed) - Base) + (j + d)
    <3>1. j \in 1..Flying - d /\ j + d \in 1..Flying
      BY <1>1, <2>2, <2>3
    <3>2. Flight(j)' = Flight(j + d)
      BY <1>2, <3>1 DEF Flow
    <3>3. Len(landed') - Base' + j = y
      BY <1>1, <1>2, <2>1, <2>2
    <3>4. WordOK(Flight(j + d), y)
      BY <1>1, <3>1 DEF FlightOK
    <3> HIDE DEF y
    <3> QED
      BY <2>1, <3>2, <3>3, <3>4, Zenon DEF WordOK, Off, Fill
  <2>4. CASE ~(j <= Flying - d)
    <3>1. t = 1 /\ j = Flying' /\ j = (Flying - d) + 1
      BY <1>1, <2>2, <2>4
    <3>2. Flight(j)' = OutWord
      BY <1>2, <3>1 DEF Flow
    <3>3. WordOK(OutWord, op + 1)
      BY <3>1, Flows
    <3>4. req = "start" /\ op \in Nat
      BY <1>1, <3>1 DEF Tick, TypeOK
    <3>5. (Len(landed) - Base) + Flying = op
      BY <1>1, <3>4, Standing
    <3>6. Len(landed') - Base' + j = op + 1
      BY <1>1, <1>2, <2>1, <2>2, <3>1, <3>4, <3>5
    <3> QED
      BY <2>1, <3>2, <3>3, <3>6, Zenon DEF WordOK, Off, Fill
  <2> QED
    BY <2>3, <2>4
<1> QED
  BY <1>3, <1>4

\* The word on the bus belongs to the packet arriving, or begins one, and goes
\* where the next word asked for belongs.
LEMMA Arriving ==
  ASSUME TypeOK, AskedOK, CountOK, MachineOK, FlightOK, PacketOK, payload # 3,
         bus \in Word, Flying >= 1, Flight(1) = bus,
         NEW x, x = (Len(landed) - Base) + 1
  PROVE  /\ x \in 1..length /\ Place = asked[Len(landed) + 1]
         /\ PacketNow = [at |-> [transfer |-> addr.transfer, offset |-> Off(x)],
                         words |-> Fill(Off(x)), seen |-> x - Off(x)]
<1>1. /\ Base \in Nat /\ length \in Nat /\ Len(asked) \in Nat /\ Len(landed) \in Nat
      /\ Flying \in Nat /\ Len(asked) = Base + length
      /\ Base <= Len(landed) /\ Len(landed) + Flying <= Len(asked)
  BY Standing
<1>2. x \in 1..length /\ x \in Nat \ {0} /\ Base + x = Len(landed) + 1
  BY <1>1
<1>3. WordOK(bus, x)
  <2>1. 1 \in 1..Flying /\ (Len(landed) - Base) + 1 = x
    BY <1>1
  <2>2. WordOK(Flight(1), (Len(landed) - Base) + 1)
    BY <2>1 DEF FlightOK
  <2> QED
    BY <2>1, <2>2
<1>4. /\ bus.at = [transfer |-> addr.transfer, offset |-> Off(x)]
      /\ (bus.sop <=> x % Packet = 1)
      /\ (bus.eop <=> x % Packet = 0 \/ x = length)
      /\ bus.last = (x = length)
      /\ bus.words = Fill(Off(x))
  BY <1>3, Zenon DEF WordOK
<1>5. Packet \in {2, 4, 8, 16}
  BY PacketIs DEF TypeOK
<1>6. /\ Off(x) \in Nat /\ Off(x) < x /\ x <= Off(x) + Packet
      /\ (x % Packet = 0 <=> x = Off(x) + Packet)
      /\ (x % Packet = 1 <=> x = Off(x) + 1)
  BY <1>2, <1>5, OffFacts
<1>7. PacketNow = [at |-> [transfer |-> addr.transfer, offset |-> Off(x)],
                   words |-> Fill(Off(x)), seen |-> x - Off(x)]
  <2>1. CASE bus.sop
    <3>1. x - Off(x) = 1
      BY <1>2, <1>4, <1>6, <2>1
    <3>2. PacketNow = [at |-> bus.at, words |-> bus.words, seen |-> 1]
      BY <2>1 DEF PacketNow
    <3> QED
      BY <1>4, <3>1, <3>2
  <2>2. CASE ~bus.sop
    <3> DEFINE z == Len(landed) - Base
    <3>1. x # Off(x) + 1
      BY <1>4, <1>6, <2>2
    <3>2. z \in Nat \ {0} /\ z + 1 = x /\ z < length
      <4>1. x # 1
        BY <1>6, <3>1
      <4> QED
        BY <1>1, <1>2, <4>1
    <3> HIDE DEF z
    <3>3. /\ (z % Packet # 0 => Off(z + 1) = Off(z))
          /\ (z % Packet = 0 => Off(z + 1) = z)
          /\ Off(z) \in Nat
      BY <1>5, <3>2, OffFacts
    <3>4. z % Packet # 0 /\ Off(x) = Off(z)
      BY <3>1, <3>2, <3>3
    <3>5. packet = [at |-> [transfer |-> addr.transfer, offset |-> Off(z)],
                    words |-> Fill(Off(z)), seen |-> z - Off(z)]
      BY <3>2, <3>4 DEF PacketOK, z
    <3>6. PacketNow = [packet EXCEPT !.seen = packet.seen + 1]
      BY <2>2 DEF PacketNow
    <3>7. (z - Off(z)) + 1 = x - Off(x)
      BY <3>2, <3>3, <3>4
    <3> DEFINE a == [transfer |-> addr.transfer, offset |-> Off(z)]
               w == Fill(Off(z))
               n == z - Off(z)
    <3>8. packet = [at |-> a, words |-> w, seen |-> n]
      BY <3>5
    <3> HIDE DEF a, w, n
    <3>9. PacketNow = [at |-> a, words |-> w, seen |-> n + 1]
      BY <3>6, <3>8
    <3> QED
      BY <3>4, <3>7, <3>9 DEF a, w, n
  <2> QED
    BY <2>1, <2>2
<1>8. bus.eop <=> x - Off(x) = Fill(Off(x))
  <2>1. bus.eop <=> (x = Off(x) + Packet \/ x = length)
    BY <1>4, <1>6
  <2>2. CASE length - Off(x) >= Packet
    <3>1. Fill(Off(x)) = Packet
      BY <2>2 DEF Fill
    <3> QED
      BY <1>1, <1>2, <1>5, <1>6, <2>1, <2>2, <3>1, SMTT(30)
  <2>3. CASE ~(length - Off(x) >= Packet)
    <3>1. Fill(Off(x)) = length - Off(x)
      BY <2>3 DEF Fill
    <3> QED
      BY <1>1, <1>2, <1>5, <1>6, <2>1, <2>3, <3>1, SMTT(30)
  <2> QED
    BY <2>2, <2>3
<1>9. bus.eop = (PacketNow.seen = PacketNow.words)
  <2>1. PacketNow.seen = x - Off(x) /\ PacketNow.words = Fill(Off(x))
    BY <1>7
  <2>2. bus.eop \in BOOLEAN
    BY Zenon DEF Word
  <2> QED
    BY <1>8, <2>1, <2>2, Zenon
<1>10. Place = [transfer |-> addr.transfer, index |-> x, last |-> bus.last]
  <2>1. PacketNow.at.transfer = addr.transfer /\ PacketNow.at.offset + PacketNow.seen = x
    BY <1>2, <1>6, <1>7
  <2> QED
    BY <1>9, <2>1, Zenon DEF Place
<1>11. asked[Base + x] = [transfer |-> addr.transfer, index |-> x, last |-> x = length]
  BY <1>2, Zenon DEF AskedOK
<1>12. Place = asked[Len(landed) + 1]
  BY <1>2, <1>4, <1>10, <1>11, Zenon
<1> QED
  BY <1>2, <1>7, <1>12

LEMMA PacketStep ==
  ASSUME NEW go, NEW valid, NEW ready, NEW d, NEW t, Tick(go, valid, ready, d, t)
  PROVE  PacketOK'
<1>1. /\ TypeOK /\ AskedOK /\ CountOK /\ MachineOK /\ FlightOK /\ PacketOK
      /\ d \in {0, 1} /\ t \in {0, 1}
  BY DEF Tick, Inv
<1>2. Flow(d, t) /\ Len(landed') = Len(landed) + d
  BY Flows, CountStep
<1>3. CASE Start(go)
  <2>1. /\ UNCHANGED landed /\ asked \in Seq(Places) /\ Len(landed) = Len(asked)
        /\ length' \in Nat /\ CountOK' /\ AskedOK' /\ TypeOK' /\ MachineOK'
    BY <1>3, Begins, CountStep, AskedStep, TypeStep, MachineStep
  <2>2. /\ Len(landed') + Flying' + Left' = Len(asked') /\ Base' = Len(asked') - length'
        /\ Flying' = 0 /\ Left' = length'
    <3>1. /\ Flying' = 0 /\ req' = "start" /\ cycle' = length' /\ op' = 0
      BY <1>3, Begins
    <3>2. Left' = length'
      <4>1. Head(list) \in Nat \ {0} /\ cycle' = Head(list) /\ length' = Head(list)
        BY <1>3, Begins
      <4> QED
        BY <3>1, <4>1 DEF Left
    <3>3. Base' = Len(asked') - length'
      BY DEF Base
    <3>4. Len(landed') + Flying' + Left' = Len(asked')
      BY <2>1 DEF CountOK
    <3> QED
      BY <3>1, <3>2, <3>3, <3>4
  <2>3. Len(landed') - Base' = 0
    <3>1. Len(landed') \in Nat /\ Len(asked') \in Nat
      <4>1. landed' \in Seq(Places \cup {None}) /\ asked' \in Seq(Places)
        BY <2>1 DEF TypeOK
      <4> QED
        BY <4>1
    <3> QED
      BY <2>1, <2>2, <3>1, SMTT(30)
  <2> QED
    BY <2>3 DEF PacketOK
<1>4. CASE ~Start(go)
  <2>1. /\ length' = length /\ addr'.transfer = addr.transfer
        /\ payload' = payload /\ Packet' = Packet /\ Base' = Base
    BY <1>4, Goes
  <2>2. CASE d = 0
    <3>1. packet' = packet /\ landed' = landed
      BY <2>2, Outgoing
    <3> QED
      BY <1>1, <2>1, <3>1, Zenon DEF PacketOK, Off, Fill
  <2>3. CASE d = 1
    <3> SUFFICES ASSUME payload # 3 PROVE PacketOK'
      BY <2>1 DEF PacketOK
    <3> DEFINE x == (Len(landed) - Base) + 1
    <3>1. bus \in Word /\ Flying >= 1 /\ Flight(1) = bus
      BY <1>2, <2>3 DEF Flow
    <3>2. PacketNow = [at |-> [transfer |-> addr.transfer, offset |-> Off(x)],
                       words |-> Fill(Off(x)), seen |-> x - Off(x)]
      BY <1>1, <3>1, Arriving
    <3>3. packet' = PacketNow
      BY <2>3, Outgoing
    <3>4. Len(landed') - Base' = x
      BY <1>1, <1>2, <2>1, <2>3, Standing
    <3> HIDE DEF x
    <3> QED
      BY <2>1, <3>2, <3>3, <3>4, Zenon DEF PacketOK, Off, Fill
  <2> QED
    BY <1>1, <2>2, <2>3
<1> QED
  BY <1>3, <1>4


LEMMA LandedStep ==
  ASSUME NEW go, NEW valid, NEW ready, NEW d, NEW t, Tick(go, valid, ready, d, t)
  PROVE  LandedOK'
<1>1. /\ TypeOK /\ AskedOK /\ CountOK /\ MachineOK /\ FlightOK /\ PacketOK /\ LandedOK
      /\ d \in {0, 1} /\ payload' = payload
  BY TypeEnv DEF Tick, Inv
<1>2. Flow(d, t)
  BY Flows
<1>3. landed \in Seq(Places \cup {None}) /\ asked \in Seq(Places)
      /\ Len(landed) \in Nat /\ Len(asked) \in Nat /\ Len(landed) <= Len(asked)
  <2>1. landed \in Seq(Places \cup {None}) /\ asked \in Seq(Places)
    BY <1>1 DEF TypeOK
  <2>2. Len(landed) + Flying <= Len(asked) /\ Flying \in Nat
    BY <1>1, Standing
  <2> QED
    BY <2>1, <2>2
<1> SUFFICES ASSUME payload # 3, NEW q \in 1..Len(landed')
             PROVE  landed'[q] = asked'[q]
  BY <1>1, Zenon DEF LandedOK
<1>4. \A k \in 1..Len(landed) : landed[k] = asked[k]
  BY <1>1, Zenon DEF LandedOK
<1>5. CASE Start(go)
  <2> DEFINE k == Stream!Transfers(asked) + 1
             w == Stream!Words(k, Head(list))
  <2>1. landed' = landed /\ asked' = asked \o w /\ Head(list) \in Nat
    BY <1>5, Begins
  <2>2. k \in Nat
    BY <1>3, TransfersType
  <2> HIDE DEF k
  <2>3. w \in Seq(Places)
    BY <2>1, <2>2, WordsFacts
  <2> HIDE DEF w
  <2>4. \A i \in 1..Len(asked) + Len(w) :
          (asked \o w)[i] = IF i <= Len(asked) THEN asked[i] ELSE w[i - Len(asked)]
    BY <1>3, <2>3, ConcatProperties, Zenon
  <2>5. q \in 1..Len(landed) /\ q \in 1..Len(asked) + Len(w) /\ q <= Len(asked)
    BY <1>3, <2>1, <2>3
  <2>6. asked'[q] = asked[q]
    BY <2>1, <2>4, <2>5, Zenon
  <2> QED
    BY <1>4, <2>1, <2>5, <2>6, Zenon
<1>6. CASE ~Start(go)
  <2>1. asked' = asked
    BY <1>6, Goes
  <2>2. CASE d = 0
    <3>1. landed' = landed
      BY <2>2, Outgoing
    <3> QED
      BY <1>4, <2>1, <3>1, Zenon
  <2>3. CASE d = 1
    <3> DEFINE x == (Len(landed) - Base) + 1
    <3>1. bus \in Word /\ Flying >= 1 /\ Flight(1) = bus
      BY <1>2, <2>3 DEF Flow
    <3>2. Place = asked[Len(landed) + 1]
      BY <1>1, <3>1, Arriving
    <3>3. landed' = Append(landed, Place) /\ Place \in Places \cup {None}
      BY <2>3, Outgoing
    <3>4. CASE q \in 1..Len(landed)
      BY <1>3, <1>4, <2>1, <3>3, <3>4
    <3>5. CASE q = Len(landed) + 1
      BY <1>3, <2>1, <3>2, <3>3, <3>5
    <3> QED
      BY <1>3, <3>3, <3>4, <3>5
  <2> QED
    BY <1>1, <2>2, <2>3
<1> QED
  BY <1>5, <1>6

LEMMA BlockStep ==
  ASSUME NEW go, NEW valid, NEW ready, NEW d, NEW t, Tick(go, valid, ready, d, t)
  PROVE  BlockOK'
<1>1. /\ BlockOK /\ TypeOK /\ build' = build /\ Walk(ready) /\ startReg' = Start(go)
      /\ list' = IF go \/ popping THEN Tail(list) ELSE list
      /\ go => list # <<>>
  BY TypeEnv DEF Tick, Inv, Clock, Environment, Request
<1> SUFFICES ASSUME build = "Block_DMA"
             PROVE  /\ walk' = "idle" /\ ~popping'
                    /\ \A q \in DOMAIN list' : list'[q] > 0
                    /\ startReg' => Len(landed') < Len(asked')
  BY <1>1 DEF BlockOK
<1>2. walk = "idle" /\ ~popping /\ \A q \in DOMAIN list : list[q] > 0
  BY <1>1 DEF BlockOK
<1>3. walk' = "idle" /\ ~popping'
  BY <1>1, <1>2 DEF Walk, Fetch, Await, Rest
<1>4. \A q \in DOMAIN list' : list'[q] > 0
  <2>1. list \in Seq(Lengths \cup {0})
    BY <1>1 DEF TypeOK
  <2>2. CASE go
    <3>1. list' = Tail(list) /\ list # <<>>
      BY <1>1, <2>2
    <3> QED
      BY <1>2, <2>1, <3>1
  <2>3. CASE ~go
    BY <1>1, <1>2, <2>3
  <2> QED
    BY <2>2, <2>3
<1>5. ASSUME startReg' PROVE Len(landed') < Len(asked')
  <2>1. Start(go)
    BY <1>1, <1>5
  <2>2. /\ Head(list) \in Nat \ {0} /\ Flying' = 0 /\ req' = "start" /\ cycle' = Head(list)
        /\ op' = 0
    BY <2>1, Begins
  <2>3. Left' = Head(list)
    BY <2>2 DEF Left
  <2>4. Len(landed') + Flying' + Left' = Len(asked')
    BY CountStep DEF CountOK
  <2>5. Len(landed') \in Nat
    <3>1. landed' \in Seq(Places \cup {None})
      BY TypeStep DEF TypeOK
    <3> QED
      BY <3>1
  <2> QED
    BY <2>2, <2>3, <2>4, <2>5
<1> QED
  BY <1>3, <1>4, <1>5

LEMMA WalkStep ==
  ASSUME NEW go, NEW valid, NEW ready, NEW d, NEW t, Tick(go, valid, ready, d, t)
  PROVE  WalkOK'
<1>1. /\ WalkOK /\ TypeOK /\ build' = build /\ Walk(ready) /\ startReg' = Start(go)
      /\ list' = IF go \/ popping THEN Tail(list) ELSE list
      /\ go => build = "Block_DMA"
      /\ d \in {0, 1} /\ t \in {0, 1} /\ (d = 1 <=> Sent(ready))
  BY TypeEnv DEF Tick, Inv, Clock, Environment, Request
<1> SUFFICES ASSUME build = "Scatter_Gather" PROVE WalkOK'
  BY <1>1 DEF WalkOK
<1>2. /\ walk = "mem" => stage = 0
      /\ walk = "mem" /\ ~popping => ~startReg /\ Len(landed) = Len(asked)
      /\ popping => /\ walk = "mem" /\ list # <<>>
                    /\ Flying = 0 /\ Len(landed) + Head(list) = Len(asked)
      /\ walk = "end" => /\ ~startReg /\ stage <= entry
                         /\ Len(landed) + (entry - stage) = Len(asked)
      /\ walk = "idle" => ~startReg
  BY <1>1 DEF WalkOK
<1>3. ~go /\ (Start(go) <=> walk = "mem" /\ ~popping /\ list # <<>> /\ Head(list) > 0)
  BY <1>1 DEF Start
<1>4. /\ Flying \in Nat /\ Left \in Nat /\ Len(landed) \in Nat /\ Len(asked) \in Nat
      /\ Len(landed) + Flying + Left = Len(asked)
      /\ (d = 1 => Flying >= 1) /\ Flying' = (Flying - d) + t /\ (t = 1 => Left >= 1)
  <2>1. CountOK /\ MachineOK /\ AskedOK
    BY DEF Tick, Inv
  <2>2. Flying \in Nat /\ Len(landed) \in Nat /\ Len(asked) \in Nat
    BY <1>1, <2>1, Standing
  <2>3. Left \in Nat /\ (t = 1 => Left >= 1)
    BY <1>1, <2>1 DEF Left, MachineOK, TypeOK, Tick
  <2>4. (d = 1 => Flying >= 1) /\ Flying' = (Flying - d) + t
    BY Flows DEF Flow
  <2> QED
    BY <2>1, <2>2, <2>3, <2>4 DEF CountOK
<1>5. Len(landed') = Len(landed) + d
  BY CountStep
<1>6. ASSUME Len(landed) = Len(asked) PROVE d = 0 /\ Flying = 0 /\ t = 0 /\ Flying' = 0
  BY <1>1, <1>4, <1>6
<1>7. ~Start(go) => asked' = asked
  BY Goes
<1>8. CASE walk = "mem" /\ ~popping
  <2>1. walk' = "mem" /\ stage' = 0 /\ list' = list /\ (popping' <=> list # <<>>)
    <3>1. Fetch
      BY <1>1, <1>8 DEF Walk, Await, Rest
    <3>2. popping' = (list # <<>>)
      BY <1>8, <3>1, Zenon DEF Fetch
    <3> QED
      BY <1>1, <1>2, <1>3, <1>8, <3>1, <3>2 DEF Fetch
  <2>2. d = 0 /\ Flying' = 0 /\ Len(landed') = Len(asked)
    BY <1>2, <1>5, <1>6, <1>8, <1>4
  <2>3. CASE list = <<>>
    <3>1. ~Start(go) /\ ~startReg'
      BY <1>1, <1>3, <2>3
    <3> QED
      BY <1>7, <2>1, <2>2, <2>3, <3>1 DEF WalkOK
  <2>4. CASE list # <<>>
    <3>1. Len(asked') = Len(asked) + Head(list)
      <4>1. CASE Start(go)
        <5>1. /\ Head(list) \in Nat \ {0} /\ req' = "start" /\ cycle' = Head(list) /\ op' = 0
          BY <4>1, Begins
        <5>2. Left' = Head(list)
          BY <5>1 DEF Left
        <5>3. Len(landed') + Flying' + Left' = Len(asked')
          BY CountStep DEF CountOK
        <5> QED
          BY <1>4, <2>2, <5>1, <5>2, <5>3
      <4>2. CASE ~Start(go)
        <5>1. Head(list) \in Nat
          <6>1. list \in Seq(Lengths \cup {0})
            BY <1>1 DEF TypeOK
          <6>2. Head(list) \in Lengths \cup {0}
            BY <2>4, <6>1
          <6>3. \A n \in Lengths \cup {0} : n \in Nat
            BY LengthsAssumption
          <6> QED
            BY <6>2, <6>3, Zenon
        <5>2. Head(list) = 0
          BY <1>3, <1>8, <2>4, <4>2, <5>1
        <5> QED
          BY <1>4, <1>7, <4>2, <5>2
      <4> QED
        BY <4>1, <4>2
    <3> QED
      BY <2>1, <2>2, <2>4, <3>1 DEF WalkOK
  <2> QED
    BY <2>3, <2>4
<1>9. CASE popping
  <2>1. ~Start(go) /\ ~startReg' /\ asked' = asked
    BY <1>1, <1>3, <1>7, <1>9
  <2>2. walk' = "end" /\ ~popping' /\ entry' = Head(list) /\ stage' = 0
    BY <1>1, <1>2, <1>9 DEF Walk, Fetch, Await, Rest
  <2>3. d = 0
    BY <1>1, <1>2, <1>4, <1>9
  <2>4. Len(landed') = Len(landed)
    BY <1>4, <1>5, <2>3
  <2>5. Head(list) \in Nat
    BY <1>1, <2>2, TypeStep DEF TypeOK
  <2> QED
    BY <1>2, <1>4, <1>9, <2>1, <2>2, <2>4, <2>5 DEF WalkOK
<1>10. CASE walk = "end"
  <2>1. ~popping /\ ~Start(go) /\ ~startReg' /\ asked' = asked /\ Await(ready)
    BY <1>1, <1>2, <1>3, <1>7, <1>10 DEF Walk, Fetch, Rest
  <2>2. stage \in Nat /\ entry \in Nat /\ ~popping' /\ entry' = entry
    BY <1>1, <2>1 DEF TypeOK, Await
  <2>3. CASE stage >= entry
    <3>1. Len(landed) = Len(asked)
      BY <1>2, <1>4, <1>10, <2>2, <2>3
    <3>2. Len(landed') = Len(landed)
      BY <1>4, <1>5, <1>6, <3>1
    <3>3. walk' = "idle" \/ (walk' = "mem" /\ stage' = 0)
      BY <2>1, <2>3 DEF Await
    <3> QED
      BY <2>1, <2>2, <3>1, <3>2, <3>3 DEF WalkOK
  <2>4. CASE ~(stage >= entry)
    <3>1. walk' = "end" /\ stage' = stage + d
      BY <1>1, <1>10, <2>1, <2>2, <2>4 DEF Await
    <3> QED
      BY <1>1, <1>2, <1>4, <1>5, <1>10, <2>1, <2>2, <2>4, <3>1 DEF WalkOK
  <2> QED
    BY <2>3, <2>4
<1>11. CASE walk = "idle"
  <2>1. ~popping /\ ~startReg'
    BY <1>1, <1>2, <1>3, <1>11
  <2>2. walk' = "idle" /\ ~popping'
    BY <1>1, <1>11, <2>1 DEF Walk, Fetch, Await, Rest
  <2> QED
    BY <2>1, <2>2 DEF WalkOK
<1> QED
  BY <1>1, <1>8, <1>9, <1>10, <1>11 DEF TypeOK


\* The numbers of the words on their way are the user's, but for those taken
\* between transfers.
LEMMA WayStep ==
  ASSUME NEW go, NEW valid, NEW ready, NEW d, NEW t, Tick(go, valid, ready, d, t)
  PROVE  WayOK'
<1>1. /\ WayOK /\ TypeOK /\ MachineOK /\ MaskOK /\ build' = build
      /\ d \in {0, 1} /\ t \in {0, 1} /\ (t = 1 <=> req = "start" /\ Takes(valid))
      /\ used' = (IF Gives(valid) THEN used + 1 ELSE used)
      /\ spilled' = IF Gives(valid) /\ req = "idle" THEN spilled \cup {used + 1} ELSE spilled
  BY TypeEnv DEF Tick, Inv, Clock, Environment
<1>2. used \in Nat /\ spilled \subseteq 1..used /\ stored \in Seq(Nat) /\ Len(stored) \in Nat
  BY <1>1 DEF TypeOK
<1>3. /\ Flying \in Nat /\ Flying' = (Flying - d) + t
      /\ \A j \in 1..Flying - d : Flight(j)' = Flight(j + d)
      /\ t = 1 => Flight(Flying)' = OutWord
      /\ d = 1 => bus \in Word /\ Flying >= 1 /\ Flight(1) = bus
  BY Flows DEF Flow
<1> DEFINE N == Len(stored) + Flying
<1>4. N \in Nat
  BY <1>2, <1>3
<1>5. Len(stored') = Len(stored) + d /\ Len(stored') + Flying' = N + t
  <2>1. Len(stored') = Len(stored) + d
    <3>1. CASE d = 0
      BY <1>2, <3>1, Outgoing
    <3>2. CASE d = 1
      <4>1. stored' = Append(stored, bus.number) /\ bus.number \in Nat
        BY <3>2, Outgoing
      <4> QED
        BY <1>2, <3>2, <4>1
    <3> QED
      BY <1>1, <3>1, <3>2
  <2> QED
    BY <1>1, <1>2, <1>3, <2>1
<1>6. ASSUME NEW k \in 1..N PROVE Number(k)' = Number(k)
  <2>1. CASE d = 0
    <3>1. stored' = stored
      BY <2>1, Outgoing
    <3>2. CASE k <= Len(stored)
      BY <3>1, <3>2 DEF Number
    <3>3. CASE ~(k <= Len(stored))
      <4>1. \E m \in 1..Flying - d : m = k - Len(stored) /\ m + d = m
        BY <1>2, <1>3, <2>1, <3>3
      <4>2. PICK m \in 1..Flying - d : m = k - Len(stored) /\ m + d = m
        BY <4>1
      <4>3. Flight(m)' = Flight(m)
        BY <1>3, <4>2
      <4>4. Number(k) = Flight(m).number
        BY <3>3, <4>2, Zenon DEF Number
      <4>5. Number(k)' = Flight(k - Len(stored))'.number
        BY <3>1, <3>3, Zenon DEF Number
      <4>6. k - Len(stored') = m
        BY <3>1, <4>2
      <4>7. Number(k)' = Flight(m)'.number
        BY <4>5, <4>6
      <4> QED
        BY <4>3, <4>4, <4>7
    <3> QED
      BY <3>2, <3>3
  <2>2. CASE d = 1
    <3>1. stored' = Append(stored, bus.number) /\ bus.number \in Nat
      BY <2>2, Outgoing
    <3>2. CASE k <= Len(stored)
      <4>1. stored'[k] = stored[k] /\ k <= Len(stored')
        BY <1>2, <1>5, <2>2, <3>1, <3>2
      <4> QED
        BY <3>2, <4>1, Zenon DEF Number
    <3>3. CASE k = Len(stored) + 1
      <4>1. stored'[k] = bus.number /\ k <= Len(stored')
        BY <1>2, <1>5, <2>2, <3>1, <3>3
      <4>2. ~(k <= Len(stored)) /\ k - Len(stored) = 1
        BY <1>2, <3>3
      <4>3. Number(k) = bus.number
        BY <1>3, <2>2, <4>2 DEF Number
      <4>4. Number(k)' = bus.number
        BY <4>1, Zenon DEF Number
      <4> QED
        BY <4>3, <4>4
    <3>4. CASE k > Len(stored) + 1
      <4>1. k - (Len(stored) + 1) \in 1..Flying - d
        BY <1>2, <1>3, <2>2, <3>4
      <4>2. PICK m \in 1..Flying - d : m = k - (Len(stored) + 1)
        BY <4>1
      <4>3. /\ m + d = k - Len(stored) /\ ~(k <= Len(stored))
            /\ ~(k <= Len(stored')) /\ k - Len(stored') = m
        BY <1>2, <1>3, <1>5, <2>2, <3>4, <4>2
      <4>4. Flight(m)' = Flight(m + d)
        BY <1>3, <4>2
      <4>5. Number(k) = Flight(m + d).number
        BY <4>3, Zenon DEF Number
      <4>6. Number(k)' = Flight(k - Len(stored))'.number
        BY <4>3, Zenon DEF Number
      <4>7. Number(k)' = Flight(m)'.number
        BY <4>3, <4>6
      <4> QED
        BY <4>4, <4>5, <4>7
    <3> QED
      BY <1>2, <3>2, <3>3, <3>4
  <2> QED
    BY <1>1, <2>1, <2>2
<1>7. ASSUME t = 1, NEW k \in Nat, k = N + 1 PROVE Number(k)' = used + 1
  <2>1. Flight(Flying)' = OutWord /\ OutWord.number = used + 1
    BY <1>3, <1>7, Flows
  <2>2. ~(k <= Len(stored')) /\ k - Len(stored') = Flying'
    BY <1>1, <1>2, <1>3, <1>5, <1>7
  <2>3. Number(k)' = Flight(k - Len(stored))'.number
    BY <2>2, Zenon DEF Number
  <2>4. Flight(k - Len(stored))' = Flight(Flying)'
    BY <2>2
  <2> QED
    BY <2>1, <2>3, <2>4
<1> HIDE DEF N
<1> DEFINE Given == (1..used) \ spilled
<1>8. /\ \A j, k \in 1..N : j < k => Number(j) < Number(k)
      /\ \A k \in 1..N : Number(k) \in Given
      /\ \A w \in Given : \E k \in 1..N : Number(k) = w
      /\ build = "Scatter_Gather" => spilled = {}
  BY <1>1, Zenon DEF WayOK, N
<1>9. t = 1 => Gives(valid) /\ req = "start"
  <2>1. ASSUME t = 1, build = "Scatter_Gather" PROVE ~Done
    BY <1>1, <2>1 DEF Done, MachineOK, TypeOK
  <2> QED
    BY <1>1, <2>1 DEF Gives
<1>10. Gives(valid) /\ req = "idle" => build # "Scatter_Gather"
  BY <1>1 DEF Gives, Takes, MaskOK, Done
<1>11. (1..used') \ spilled' = Given \cup (IF t = 1 THEN {used + 1} ELSE {})
  <2>1. CASE t = 1
    BY <1>1, <1>2, <1>9, <2>1
  <2>2. CASE t # 1 /\ Gives(valid)
    <3>1. req = "idle"
      BY <1>1, <2>2 DEF Gives, TypeOK
    <3> QED
      BY <1>1, <1>2, <2>2, <3>1
  <2>3. CASE t # 1 /\ ~Gives(valid)
    BY <1>1, <2>3
  <2> QED
    BY <2>1, <2>2, <2>3
<1>12. \A w \in Given : w \in Nat /\ w < used + 1
  BY <1>2
<1> HIDE DEF Given
<1>13. \A j, k \in 1..N + t : j < k => Number(j)' < Number(k)'
  <2> SUFFICES ASSUME NEW j \in 1..N + t, NEW k \in 1..N + t, j < k
               PROVE  Number(j)' < Number(k)'
    OBVIOUS
  <2>1. j \in 1..N
    BY <1>1, <1>4
  <2>2. CASE k \in 1..N
    <3>1. Number(j)' = Number(j) /\ Number(k)' = Number(k)
      BY <1>6, <2>1, <2>2
    <3>2. Number(j) < Number(k)
      BY <1>8, <2>1, <2>2
    <3> QED
      BY <3>1, <3>2, Zenon
  <2>3. CASE k \notin 1..N
    <3>1. t = 1 /\ k = N + 1
      BY <1>1, <1>4, <2>3
    <3>2. Number(k)' = used + 1
      BY <1>7, <3>1
    <3>3. Number(j)' = Number(j) /\ Number(j) \in Given
      BY <1>6, <1>8, <2>1
    <3>4. Number(j) < used + 1
      BY <1>12, <3>3
    <3> QED
      BY <3>2, <3>3, <3>4, Zenon
  <2> QED
    BY <2>2, <2>3
<1>14. \A k \in 1..N + t : Number(k)' \in (1..used') \ spilled'
  <2> SUFFICES ASSUME NEW k \in 1..N + t PROVE Number(k)' \in (1..used') \ spilled'
    OBVIOUS
  <2>1. CASE k \in 1..N
    <3>1. Number(k)' = Number(k) /\ Number(k) \in Given
      BY <1>6, <1>8, <2>1
    <3> QED
      BY <1>11, <3>1, Zenon
  <2>2. CASE k \notin 1..N
    <3>1. t = 1 /\ k = N + 1
      BY <1>1, <1>4, <2>2
    <3>2. Number(k)' = used + 1
      BY <1>7, <3>1
    <3> QED
      BY <1>11, <3>1, <3>2, Zenon
  <2> QED
    BY <2>1, <2>2
<1>15. \A w \in (1..used') \ spilled' : \E k \in 1..N + t : Number(k)' = w
  <2> SUFFICES ASSUME NEW w, w \in Given \/ (t = 1 /\ w = used + 1)
               PROVE  \E k \in 1..N + t : Number(k)' = w
    BY <1>11, Zenon
  <2>1. CASE w \in Given
    <3>1. PICK k \in 1..N : Number(k) = w
      BY <1>8, <2>1, Zenon
    <3>2. Number(k)' = w
      <4>1. Number(k)' = Number(k)
        BY <1>6
      <4> QED
        BY <3>1, <4>1
    <3>3. k \in 1..N + t
      BY <1>1, <1>4
    <3> QED
      BY <3>2, <3>3, Zenon
  <2>2. CASE t = 1 /\ w = used + 1
    <3>1. \E k \in 1..N + t : k = N + 1 /\ k \in Nat
      BY <1>4, <2>2
    <3>2. PICK k \in 1..N + t : k = N + 1 /\ k \in Nat
      BY <3>1
    <3>3. Number(k)' = w
      BY <1>7, <2>2, <3>2
    <3> QED
      BY <3>3, Zenon
  <2> QED
    BY <2>1, <2>2
<1>16. build' = "Scatter_Gather" => spilled' = {}
  BY <1>1, <1>8, <1>10
<1>17. Len(stored') + Flying' = N + t
  BY <1>5 DEF N
<1> QED
  BY <1>13, <1>14, <1>15, <1>16, <1>17, Zenon DEF WayOK


-----------------------------------------------------------------------------
(***************************************************************************)
(* The invariant holds.                                                    *)
(***************************************************************************)

LEMMA InitInv ==
  Init => Inv
<1> SUFFICES ASSUME Init PROVE Inv
  OBVIOUS
<1>1. /\ build \in Builds /\ payload \in Payloads /\ list \in Lists
      /\ req = "idle" /\ startReg = FALSE /\ length = 0 /\ cycle = 0 /\ op = 0
      /\ packets = 0 /\ field = 0 /\ addr = Start0 /\ tready = FALSE /\ moved = 0
      /\ outFifo = <<>> /\ halfFull = FALSE /\ bus = None
      /\ popping = FALSE /\ entry = 0 /\ stage = 0
      /\ used = 0 /\ spilled = {} /\ packet = [at |-> Start0, words |-> 0, seen |-> 0]
      /\ asked = <<>> /\ landed = <<>> /\ stored = <<>>
  BY DEF Init
<1>2. /\ build = "Block_DMA" => (\A i \in DOMAIN list : list[i] > 0)
      /\ walk = (IF build = "Scatter_Gather" THEN "mem" ELSE "idle")
  BY DEF Init
<1>3. Len(outFifo) = 0 /\ Len(asked) = 0 /\ Len(landed) = 0 /\ Len(stored) = 0
  BY <1>1
<1>4. Flying = 0 /\ Left = 0 /\ Base = 0
  BY <1>1, <1>3 DEF Flying, Left, Base
<1>5. TypeOK
  <2>1. list \in Seq(Lengths \cup {0})
    BY <1>1, ListsAssumption
  <2>2. Start0 \in At
    BY DEF Start0, At
  <2>3. /\ outFifo \in Seq(Word) /\ Len(outFifo) <= OutDepth
        /\ asked \in Seq(Places) /\ landed \in Seq(Places \cup {None}) /\ stored \in Seq(Nat)
    BY <1>1, <1>3, SizesAssumption
  <2>4. packet \in [at : At, words : Nat, seen : Nat]
    BY <1>1, <2>2
  <2>5. walk \in {"idle", "mem", "end"}
    BY <1>2
  <2> QED
    BY <1>1, <2>1, <2>2, <2>3, <2>4, <2>5 DEF TypeOK
<1>6. RoomOK
  BY <1>1, <1>3, SizesAssumption DEF RoomOK
<1>7. MachineOK /\ MaskOK
  BY <1>1 DEF MachineOK, MaskOK
<1>8. AskedOK /\ CountOK
  BY <1>1, <1>3, <1>4 DEF AskedOK, CountOK
<1>9. FlightOK
  BY <1>4 DEF FlightOK
<1>10. PacketOK
  <2>1. Len(landed) - Base = 0
    BY <1>3, <1>4
  <2> QED
    BY <2>1 DEF PacketOK
<1>11. LandedOK
  BY <1>3 DEF LandedOK
<1>12. WayOK
  <2>1. 1..Len(stored) + Flying = {} /\ 1..used = {}
    BY <1>1, <1>3, <1>4
  <2> QED
    BY <1>1, <2>1 DEF WayOK
<1>13. BlockOK
  BY <1>1, <1>2 DEF BlockOK
<1>14. WalkOK
  BY <1>1, <1>2, <1>3 DEF WalkOK
<1> QED
  BY <1>5, <1>6, <1>7, <1>8, <1>9, <1>10, <1>11, <1>12, <1>13, <1>14 DEF Inv

\* A clock is a tick, with or without a word going out and one being taken.
LEMMA ClockIsTick ==
  ASSUME Inv, NEW go \in BOOLEAN, NEW valid \in BOOLEAN, NEW ready \in BOOLEAN,
         Clock(go, valid, ready)
  PROVE  \E d, t \in {0, 1} : Tick(go, valid, ready, d, t)
<1>1. \E d \in {0, 1} : d = 1 <=> Sent(ready)
  OBVIOUS
<1>2. \E t \in {0, 1} : t = 1 <=> req = "start" /\ Takes(valid)
  OBVIOUS
<1> QED
  BY <1>1, <1>2, Zenon DEF Tick

LEMMA NextInv ==
  Inv /\ [Next]_vars => Inv'
<1> SUFFICES ASSUME Inv, [Next]_vars PROVE Inv'
  OBVIOUS
<1>1. ASSUME NEW go \in BOOLEAN, NEW valid \in BOOLEAN, NEW ready \in BOOLEAN,
             Clock(go, valid, ready)
      PROVE  Inv'
  <2>1. PICK d \in {0, 1}, t \in {0, 1} : Tick(go, valid, ready, d, t)
    BY <1>1, ClockIsTick
  <2>2. TypeOK' /\ RoomOK' /\ MachineOK' /\ MaskOK'
    BY <2>1, TypeStep, RoomStep, MachineStep, MaskStep
  <2>3. AskedOK' /\ CountOK' /\ FlightOK' /\ PacketOK'
    BY <2>1, AskedStep, CountStep, FlightStep, PacketStep
  <2>4. LandedOK' /\ WayOK' /\ BlockOK' /\ WalkOK'
    BY <2>1, LandedStep, WayStep, BlockStep, WalkStep
  <2> QED
    BY <2>2, <2>3, <2>4 DEF Inv
<1>2. CASE UNCHANGED vars
  <2>1. UNCHANGED reqVars /\ UNCHANGED outVars /\ UNCHANGED walkVars /\ UNCHANGED envVars
    BY <1>2 DEF vars
  <2>2. UNCHANGED <<req, startReg, length, cycle, op, packets, field, addr, tready, moved>>
    BY <2>1 DEF reqVars
  <2>3. UNCHANGED <<outFifo, halfFull, bus>> /\ UNCHANGED <<walk, popping, entry, stage>>
    BY <2>1 DEF outVars, walkVars
  <2>4. UNCHANGED <<build, payload, list, used, spilled, packet, asked, landed, stored>>
    BY <2>1 DEF envVars
  <2>5. TypeOK' /\ RoomOK'
    BY <2>2, <2>3, <2>4 DEF Inv, TypeOK, RoomOK
  <2>6. MachineOK' /\ MaskOK'
    BY <2>2, <2>3, <2>4, Zenon DEF Inv, MachineOK, MaskOK, PacketsOf, Packet
  <2>7. AskedOK' /\ CountOK'
    BY <2>2, <2>3, <2>4, Zenon DEF Inv, AskedOK, CountOK, Base, Left, Flying
  <2>8. FlightOK' /\ PacketOK' /\ LandedOK'
    BY <2>2, <2>3, <2>4, ZenonT(60) DEF Inv, FlightOK, PacketOK, LandedOK, WordOK, Flight, Flying,
                                   Base, Off, Fill, Packet
  <2>9. WayOK'
    <3>1. Flying' = Flying /\ Len(stored') = Len(stored)
      BY <2>3, <2>4 DEF Flying
    <3>2. \A j : Flight(j)' = Flight(j)
      BY <2>3 DEF Flight
    <3>3. \A k : Number(k)' = Number(k)
      BY <2>3, <2>4, <3>2 DEF Number, Flight
    <3> QED
      BY <2>4, <3>1, <3>3 DEF Inv, WayOK
  <2>10. BlockOK' /\ WalkOK'
    BY <2>2, <2>3, <2>4, Zenon DEF Inv, BlockOK, WalkOK, Flying
  <2> QED
    BY <2>5, <2>6, <2>7, <2>8, <2>9, <2>10, Zenon DEF Inv
<1> QED
  BY <1>1, <1>2 DEF Next

\* The engine keeps its invariant.
THEOREM WriteEngineInv == Spec => []Inv
<1> QED
  BY InitInv, NextInv, PTL DEF Spec

\* Every variable of the write engine has its type, and its output FIFO never
\* holds more words than it has room for.
THEOREM WriteEngineTypes == Spec => []TypeOK
<1>1. Inv => TypeOK
  BY DEF Inv
<1> QED
  BY <1>1, WriteEngineInv, PTL

-----------------------------------------------------------------------------
(***************************************************************************)
(* No word is lost.                                                        *)
(***************************************************************************)

\* The k-th number on its way is that of the k-th word stored or in the engine.
LEMMA WayIs ==
  ASSUME TypeOK
  PROVE  /\ DOMAIN Way = 1..Len(stored) + Flying
         /\ \A k \in 1..Len(stored) + Flying : Way[k] = Number(k)
<1> DEFINE first == IF bus = None THEN <<>> ELSE <<bus.number>>
           rest  == [i \in DOMAIN outFifo |-> outFifo[i].number]
<1>1. outFifo \in Seq(Word) /\ bus \in Word \cup {None} /\ stored \in Seq(Nat)
  BY DEF TypeOK
<1>2. Len(outFifo) \in Nat /\ DOMAIN outFifo = 1..Len(outFifo) /\ Len(stored) \in Nat
  BY <1>1
<1>3. \A w \in Word : w.number \in Nat
  BY DEF Word
<1>4. /\ rest \in Seq(Nat) /\ Len(rest) = Len(outFifo)
      /\ \A i \in 1..Len(outFifo) : rest[i] = outFifo[i].number
  <2>1. \A i \in 1..Len(outFifo) : outFifo[i].number \in Nat
    BY <1>1, <1>2, <1>3
  <2> QED
    BY <1>2, <2>1
<1>5. first \in Seq(Nat) /\ Len(first) = (IF bus = None THEN 0 ELSE 1)
      /\ (bus # None => first[1] = bus.number)
  <2>1. CASE bus = None
    BY <2>1
  <2>2. CASE bus # None
    <3>1. first = <<bus.number>> /\ bus.number \in Nat
      BY <1>1, <1>3, <2>2
    <3> QED
      BY <2>2, <3>1
  <2> QED
    BY <2>1, <2>2
<1>6. Held = first \o rest
  BY Zenon DEF Held
<1> HIDE DEF first, rest
<1>7. first \in Seq(Nat) /\ rest \in Seq(Nat)
  BY <1>4, <1>5
<1>8. /\ Held \in Seq(Nat) /\ Len(Held) = Len(first) + Len(rest)
      /\ \A i \in 1..Len(first) + Len(rest) :
           Held[i] = IF i <= Len(first) THEN first[i] ELSE rest[i - Len(first)]
  <2>1. /\ first \o rest \in Seq(Nat) /\ Len(first \o rest) = Len(first) + Len(rest)
        /\ \A i \in 1..Len(first) + Len(rest) :
             (first \o rest)[i] = IF i <= Len(first) THEN first[i] ELSE rest[i - Len(first)]
    BY <1>7, ConcatProperties, Zenon
  <2> QED
    BY <1>6, <2>1, Zenon
<1>9. Len(Held) = Flying /\ Flying \in Nat
  <2>1. Len(Held) = (IF bus = None THEN 0 ELSE 1) + Len(outFifo)
    BY <1>4, <1>5, <1>8
  <2> QED
    BY <1>2, <2>1 DEF Flying
<1>10. ASSUME NEW i \in 1..Flying PROVE Held[i] = Flight(i).number
  <2>1. i \in 1..Len(first) + Len(rest)
    BY <1>8, <1>9
  <2>2. Held[i] = IF i <= Len(first) THEN first[i] ELSE rest[i - Len(first)]
    BY <1>8, <2>1, Zenon
  <2>3. CASE bus = None
    <3>1. Len(first) = 0 /\ i \in 1..Len(outFifo) /\ i - 0 = i
      BY <1>2, <1>4, <1>5, <2>1, <2>3
    <3>2. Held[i] = rest[i]
      BY <2>2, <3>1
    <3> QED
      BY <1>4, <2>3, <3>1, <3>2 DEF Flight
  <2>4. CASE bus # None /\ i = 1
    <3>1. Held[i] = first[1]
      BY <1>5, <2>2, <2>4
    <3> QED
      BY <1>5, <2>4, <3>1 DEF Flight
  <2>5. CASE bus # None /\ i # 1
    <3>1. Len(first) = 1 /\ i - 1 \in 1..Len(outFifo) /\ ~(i <= 1)
      BY <1>2, <1>4, <1>5, <2>1, <2>5
    <3>2. Held[i] = rest[i - 1]
      BY <2>2, <3>1
    <3> QED
      BY <1>4, <2>5, <3>1, <3>2 DEF Flight
  <2> QED
    BY <2>3, <2>4, <2>5
<1>11. Way = stored \o Held
  BY Zenon DEF Way
<1> HIDE DEF Held
<1>12. stored \in Seq(Nat) /\ Held \in Seq(Nat)
  BY <1>1, <1>8
<1>13. /\ stored \o Held \in Seq(Nat) /\ Len(stored \o Held) = Len(stored) + Len(Held)
       /\ \A i \in 1..Len(stored) + Len(Held) :
            (stored \o Held)[i] = IF i <= Len(stored) THEN stored[i] ELSE Held[i - Len(stored)]
  BY <1>12, ConcatProperties, Zenon
<1>14. /\ Way \in Seq(Nat) /\ Len(Way) = Len(stored) + Flying
       /\ \A i \in 1..Len(stored) + Flying :
            Way[i] = IF i <= Len(stored) THEN stored[i] ELSE Held[i - Len(stored)]
  BY <1>9, <1>11, <1>13, Zenon
<1>15. DOMAIN Way = 1..Len(stored) + Flying
  <2>1. Way \in Seq(Nat)
    BY <1>14
  <2>2. DOMAIN Way = 1..Len(Way)
    BY <2>1
  <2> QED
    BY <1>14, <2>2, Zenon
<1>16. ASSUME NEW k \in 1..Len(stored) + Flying PROVE Way[k] = Number(k)
  <2>1. CASE k <= Len(stored)
    BY <1>14, <2>1 DEF Number
  <2>2. CASE ~(k <= Len(stored))
    <3>1. k - Len(stored) \in 1..Flying
      BY <1>2, <1>9, <2>2
    <3>2. Held[k - Len(stored)] = Flight(k - Len(stored)).number
      BY <1>10, <3>1
    <3> QED
      BY <1>14, <2>2, <3>2 DEF Number
  <2> QED
    BY <2>1, <2>2
<1> QED
  BY <1>15, <1>16

\* The words on their way through the write engine are those the user gave,
\* each once and in order: the FIFO is never full when one comes, however long
\* the bus stalls, and the Scatter_Gather engine takes none between transfers.
THEOREM WriteEngineNothingLost == Spec => []NothingLost
<1>1. ASSUME Inv PROVE NothingLost
  <2> DEFINE N == Len(stored) + Flying
  <2>1. /\ DOMAIN Way = 1..N
        /\ \A k \in 1..N : Way[k] = Number(k)
    BY <1>1, WayIs DEF Inv
  <2>2. /\ \A j, k \in 1..N : j < k => Number(j) < Number(k)
        /\ \A k \in 1..N : Number(k) \in (1..used) \ spilled
        /\ \A w \in (1..used) \ spilled : \E k \in 1..N : Number(k) = w
        /\ build = "Scatter_Gather" => spilled = {}
    BY <1>1, Zenon DEF Inv, WayOK
  <2> HIDE DEF N
  <2>3. \A i, j \in DOMAIN Way : i < j => Way[i] < Way[j]
    <3> SUFFICES ASSUME NEW i \in DOMAIN Way, NEW j \in DOMAIN Way, i < j
                 PROVE  Way[i] < Way[j]
      OBVIOUS
    <3>1. i \in 1..N /\ j \in 1..N
      BY <2>1
    <3>2. Number(i) < Number(j) /\ Way[i] = Number(i) /\ Way[j] = Number(j)
      BY <2>1, <2>2, <3>1, Zenon
    <3> QED
      BY <3>2, Zenon
  <2>4. {Way[i] : i \in DOMAIN Way} = (1..used) \ spilled
    BY <2>1, <2>2, ZenonT(60)
  <2> QED
    BY <2>2, <2>3, <2>4, Zenon DEF NothingLost
<1> QED
  BY <1>1, WriteEngineInv, PTL

-----------------------------------------------------------------------------
(***************************************************************************)
(* The engine implements the ordered stream.                               *)
(***************************************************************************)

\* A clock of the engine is a step of the stream or none.
LEMMA StreamStep ==
  ASSUME Inv, Inv', payload # 3, [Next]_vars
  PROVE  [Stream!Next]_<<asked, landed>>
<1>1. ASSUME NEW go \in BOOLEAN, NEW valid \in BOOLEAN, NEW ready \in BOOLEAN,
             Clock(go, valid, ready)
      PROVE  [Stream!Next]_<<asked, landed>>
  <2>1. PICK d \in {0, 1}, t \in {0, 1} : Tick(go, valid, ready, d, t)
    BY <1>1, ClockIsTick
  <2>2. CASE Start(go)
    <3>1. /\ asked' = asked \o Stream!Words(Stream!Transfers(asked) + 1, Head(list))
          /\ landed' = landed /\ Len(landed) = Len(asked)
          /\ landed \in Seq(Places \cup {None}) /\ asked \in Seq(Places)
      BY <2>1, <2>2, Begins
    <3>2. Head(list) \in Lengths
      BY <2>1, <2>2, Starting DEF Tick, Clock, Environment
    <3>3. \A q \in 1..Len(landed) : landed[q] = asked[q]
      BY DEF Inv, LandedOK
    <3>4. landed = asked
      <4>1. landed \in Seq(Places \cup {None}) /\ asked \in Seq(Places \cup {None})
        BY <3>1
      <4>2. \A q \in 1..Len(landed) : landed[q] = asked[q]
        BY <3>3
      <4> QED
        BY <3>1, <4>1, <4>2, SeqEqual
    <3>5. Stream!Ask(Head(list))
      BY <3>1, <3>4 DEF Stream!Ask
    <3> QED
      BY <3>2, <3>5 DEF Stream!Next
  <2>3. CASE ~Start(go) /\ d = 0
    BY <2>1, <2>3, Goes, Outgoing
  <2>4. CASE ~Start(go) /\ d = 1
    <3>1. asked' = asked /\ landed' = Append(landed, Place)
      BY <2>1, <2>4, Goes, Outgoing
    <3>2. bus \in Word /\ Flying >= 1 /\ Flight(1) = bus
      BY <2>1, <2>4, Flows DEF Flow
    <3>3. Place = asked[Len(landed) + 1]
      BY <3>2, Arriving DEF Inv
    <3>4. Len(landed) < Len(asked)
      <4>1. /\ Flying \in Nat /\ Len(landed) \in Nat /\ Len(asked) \in Nat
            /\ Len(landed) + Flying <= Len(asked)
        BY Standing DEF Inv
      <4> QED
        BY <3>2, <4>1
    <3>5. Stream!Deliver
      BY <3>1, <3>3, <3>4 DEF Stream!Deliver
    <3> QED
      BY <3>5 DEF Stream!Next
  <2> QED
    BY <2>2, <2>3, <2>4
<1>2. CASE UNCHANGED vars
  BY <1>2 DEF vars, envVars
<1> QED
  BY <1>1, <1>2 DEF Next

\* The words of every transfer land at consecutive places from its address, in
\* packets as long as their headers say, and the next transfer starts when the
\* last word of this one is out, unless a packet of 1024 bytes is allowed: the
\* length field of such a packet is written as 0.
THEOREM WriteEngineInOrder == 3 \notin Payloads => (Spec => WritesInOrder)
<1> SUFFICES ASSUME 3 \notin Payloads PROVE Spec => WritesInOrder
  OBVIOUS
<1>1. Init => Stream!Init
  BY DEF Init, Stream!Init
<1>2. Inv /\ Inv' /\ [Next]_vars => [Stream!Next]_<<asked, landed>>
  <2>1. Inv => payload # 3
    BY DEF Inv, TypeOK
  <2> QED
    BY <2>1, StreamStep
<1> QED
  BY <1>1, <1>2, WriteEngineInv, PTL DEF Spec, WritesInOrder, Stream!Spec

==============================================================================
