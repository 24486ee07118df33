------------------------------ MODULE MsiProofs ------------------------------
(***************************************************************************)
(* Proofs about Msi, for any lines of which at most two differ.            *)
(***************************************************************************)
EXTENDS Msi, TLAPS

LEMMA NextCases ==
  ASSUME [Next]_vars
  PROVE  \/ \E done \in SUBSET Line, answer \in Answer : Clock(done, answer)
         \/ \E l \in Line : Start(l) \/ IsrRead(l)
         \/ IsrEnter \/ Configure
         \/ UNCHANGED vars
BY Zenon DEF Next

-----------------------------------------------------------------------------
(***************************************************************************)
(* Types.                                                                  *)
(***************************************************************************)
LEMMA TypeInit == Init => TypeOK
<1> SUFFICES ASSUME Init PROVE TypeOK
  OBVIOUS
<1>1. {start, counting, pulse, reading, unread} \subseteq SUBSET Line
      /\ counting \cap pulse = {}
  BY DEF Init
<1>2. {irq, last, latched, mask, grant, active, int, asked} \subseteq BOOLEAN
      /\ {enabled, masked, message} \subseteq BOOLEAN
  BY Zenon DEF Init
<1> QED
  BY <1>1, <1>2, Zenon DEF TypeOK

LEMMA TypeStep == TypeOK /\ [Next]_vars => TypeOK'
<1> SUFFICES ASSUME TypeOK, [Next]_vars PROVE TypeOK'
  OBVIOUS
<1>1. ASSUME NEW done \in SUBSET Line, NEW answer \in Answer, Clock(done, answer)
      PROVE  TypeOK'
  <2>1. /\ pulse' = done /\ done \subseteq counting /\ start' = {}
        /\ counting' = (counting \ done) \cup (start \ (counting \cup pulse))
        /\ unread' = unread \cup pulse /\ reading' = reading
    BY <1>1 DEF Clock, Count, hostVars
  <2>2. {start, counting, pulse, reading, unread}' \subseteq SUBSET Line
        /\ (counting \cap pulse = {})'
    BY <2>1 DEF TypeOK
  <2>3. /\ irq' \in BOOLEAN /\ last' \in BOOLEAN /\ latched' \in BOOLEAN /\ mask' \in BOOLEAN
        /\ grant' \in BOOLEAN /\ active' \in BOOLEAN /\ int' \in BOOLEAN
        /\ asked' \in BOOLEAN /\ message' \in BOOLEAN
        /\ enabled' \in BOOLEAN /\ masked' \in BOOLEAN
    BY <1>1, Zenon DEF Clock, Request, Wanted, Answered, Clears, Unmasked, Arbitrate, Edge,
       HardIp, hostVars, TypeOK
  <2> QED
    BY <2>2, <2>3, Zenon DEF TypeOK
<1>2. ASSUME NEW l \in Line, Start(l) PROVE TypeOK'
  BY <1>2 DEF Start, TypeOK, blockVars, hostVars
<1>3. ASSUME NEW l \in Line, IsrRead(l) PROVE TypeOK'
  BY <1>3 DEF IsrRead, TypeOK, counterVars, blockVars
<1>4. ASSUME IsrEnter PROVE TypeOK'
  BY <1>4 DEF IsrEnter, TypeOK, counterVars, blockVars
<1>5. ASSUME Configure PROVE TypeOK'
  BY <1>5 DEF Configure, TypeOK, counterVars, blockVars
<1>6. ASSUME UNCHANGED vars PROVE TypeOK'
  BY <1>6 DEF vars, TypeOK, counterVars, blockVars, hostVars
<1> QED
  BY NextCases, <1>1, <1>2, <1>3, <1>4, <1>5, <1>6

\* The types of Msi; that a counter that pulses does not count is part of them.
THEOREM MsiTypes == Spec => []TypeOK
BY TypeInit, TypeStep, PTL DEF Spec

-----------------------------------------------------------------------------
(***************************************************************************)
(* The handshake with the hard IP is inductive with the types.             *)
(***************************************************************************)
LEMMA HandshakeInit == Init => Handshake
BY DEF Init, Handshake

LEMMA HandshakeClock ==
  ASSUME Handshake, NEW done \in SUBSET Line, NEW answer \in Answer,
         Clock(done, answer)
  PROVE  Handshake'
<1>1. /\ active' = (Wanted \/ (active /\ ~Answered(answer)))
      /\ int' = Wanted
      /\ latched' = ((latched \/ Edge) /\ ~Clears(answer))
      /\ grant' = IF grant THEN ~Answered(answer) ELSE latched /\ mask
      /\ asked' = (int \/ (asked /\ answer = "none"))
      /\ answer # "none" => asked
  BY Zenon DEF Clock, Request, Arbitrate, HardIp
<1>2. CASE Wanted
  <2>1. ~active /\ grant /\ enabled /\ ~int /\ ~asked
    BY <1>2, Zenon DEF Wanted, Handshake
  <2>2. active' /\ int' /\ ~asked' /\ grant'
    BY <1>1, <1>2, <2>1, Zenon DEF Answered
  <2>3. latched /\ ~Clears(answer) => latched'
    BY <1>1, Zenon
  <2>4. latched'
    BY <2>1, <2>3, Zenon DEF Clears, Handshake
  <2> QED
    BY <2>2, <2>4, Zenon DEF Handshake
<1>3. CASE ~Wanted
  BY <1>1, <1>3, Zenon DEF Handshake, Answered, Clears
<1> QED
  BY <1>2, <1>3

LEMMA HandshakeStep == TypeOK /\ Handshake /\ [Next]_vars => Handshake'
<1> SUFFICES ASSUME TypeOK, Handshake, [Next]_vars PROVE Handshake'
  OBVIOUS
<1>1. ASSUME NEW l \in Line, Start(l) \/ IsrRead(l) PROVE Handshake'
  <2>1. UNCHANGED blockVars /\ UNCHANGED asked
    BY <1>1, Zenon DEF Start, IsrRead
  <2> QED
    BY <2>1 DEF Handshake, blockVars
<1>2. ASSUME IsrEnter \/ Configure \/ UNCHANGED vars PROVE Handshake'
  <2>1. UNCHANGED blockVars /\ UNCHANGED asked
    BY <1>2, Zenon DEF IsrEnter, Configure, vars
  <2> QED
    BY <2>1 DEF Handshake, blockVars
<1> QED
  BY NextCases, HandshakeClock, <1>1, <1>2

\* The MSI block waits exactly as long as the hard IP owes it an answer
\* (pcie_us_msi.v:124-137), with any number of completion lines and whatever the
\* host enables and masks.
THEOREM HandshakeCorrect == Spec => []Handshake
BY MsiTypes, HandshakeInit, HandshakeStep, PTL DEF Spec

-----------------------------------------------------------------------------
(***************************************************************************)
(* A line that has pulsed neither counts nor pulses in the cycle after.    *)
(* With two lines the or-ed line is thus high for two cycles at most, and  *)
(* a third one in a row, which would make no edge, does not occur.         *)
(***************************************************************************)
Spaced ==
  /\ irq => \E l \in Line : l \notin counting \cup pulse
  /\ irq /\ last => pulse = {}

LEMMA SpacedInit == Init => Spaced
BY DEF Init, Spaced

LEMMA SpacedClock ==
  ASSUME TypeOK, Spaced, NEW done \in SUBSET Line, NEW answer \in Answer,
         Clock(done, answer)
  PROVE  Spaced'
<1>1. /\ pulse' = done /\ done \subseteq counting
      /\ counting' = (counting \ done) \cup (start \ (counting \cup pulse))
      /\ irq' = (pulse # {}) /\ last' = irq
  BY Zenon DEF Clock, Count, Request
<1>2. pulse \subseteq Line /\ counting \subseteq Line /\ counting \cap pulse = {}
  BY DEF TypeOK
<1>3. irq' => \E l \in Line : l \notin counting' \cup pulse'
  BY <1>1, <1>2
<1>4. ASSUME irq', last' PROVE pulse' = {}
  <2>1. PICK p \in Line : p \notin counting \cup pulse
    BY <1>1, <1>4, Zenon DEF Spaced
  <2>2. PICK q \in pulse : TRUE
    BY <1>1, <1>4
  <2>3. \A l \in Line : l = p \/ l = q
    BY <1>2, <2>1, <2>2, LineAssumption
  <2>4. counting = {}
    BY <1>2, <2>1, <2>2, <2>3
  <2> QED
    BY <1>1, <2>4
<1> QED
  BY <1>3, <1>4 DEF Spaced

LEMMA SpacedStep == TypeOK /\ Spaced /\ [Next]_vars => Spaced'
<1> SUFFICES ASSUME TypeOK, Spaced, [Next]_vars PROVE Spaced'
  OBVIOUS
<1>1. ASSUME UNCHANGED <<counting, pulse, irq, last>> PROVE Spaced'
  BY <1>1 DEF Spaced
<1>2. ASSUME NEW l \in Line, Start(l) \/ IsrRead(l) PROVE Spaced'
  <2>1. UNCHANGED <<counting, pulse, blockVars>>
    BY <1>2, Zenon DEF Start, IsrRead, counterVars
  <2> QED
    BY <1>1, <2>1 DEF blockVars
<1>3. ASSUME IsrEnter \/ Configure \/ UNCHANGED vars PROVE Spaced'
  <2>1. UNCHANGED <<counting, pulse, blockVars>>
    BY <1>3, Zenon DEF IsrEnter, Configure, vars, counterVars
  <2> QED
    BY <1>1, <2>1 DEF blockVars
<1> QED
  BY NextCases, SpacedClock, <1>2, <1>3

LEMMA AlwaysSpaced == Spec => []Spaced
BY MsiTypes, SpacedInit, SpacedStep, PTL DEF Spec

-----------------------------------------------------------------------------
(***************************************************************************)
(* No completion is forgotten.                                             *)
(***************************************************************************)

\* What leads to a run of the handler is handed on from stage to stage.
Coming == Edge \/ latched \/ message

LEMMA ComingClock ==
  ASSUME Spaced, NEW done \in SUBSET Line, NEW answer \in Answer, Clock(done, answer),
         Coming \/ pulse # {}
  PROVE  Coming'
<1>1. /\ irq' = (pulse # {}) /\ last' = irq
      /\ latched' = ((latched \/ Edge) /\ ~Clears(answer))
      /\ message' = (message \/ answer = "sent")
  BY Zenon DEF Clock, Request, HardIp
<1>2. ASSUME Coming PROVE Coming'
  BY <1>1, <1>2, Zenon DEF Coming, Clears
<1>3. ASSUME pulse # {}, ~irq PROVE Coming'
  BY <1>1, <1>3, Zenon DEF Coming, Edge
<1>4. ASSUME pulse # {}, irq PROVE Coming
  BY <1>4, Zenon DEF Coming, Edge, Spaced
<1> QED
  BY <1>2, <1>3, <1>4

LEMMA ForgottenInit == Init => NoneForgotten
BY DEF Init, NoneForgotten

LEMMA ForgottenStep == TypeOK /\ Spaced /\ NoneForgotten /\ [Next]_vars => NoneForgotten'
<1> SUFFICES ASSUME TypeOK, Spaced, NoneForgotten, [Next]_vars PROVE NoneForgotten'
  OBVIOUS
<1>1. ASSUME NEW done \in SUBSET Line, NEW answer \in Answer, Clock(done, answer)
      PROVE  NoneForgotten'
  <2>1. CASE Coming \/ pulse # {}
    BY <1>1, <2>1, ComingClock DEF Coming, NoneForgotten
  <2>2. CASE ~Coming /\ pulse = {}
    <3>1. unread' = unread /\ reading' = reading
      BY <1>1, <2>2 DEF Clock, hostVars
    <3> QED
      BY <2>2, <3>1 DEF Coming, NoneForgotten
  <2> QED
    BY <2>1, <2>2
<1>2. ASSUME NEW l \in Line, IsrRead(l) PROVE NoneForgotten'
  BY <1>2 DEF IsrRead, NoneForgotten, Edge, blockVars
<1>3. ASSUME NEW l \in Line, Start(l) PROVE NoneForgotten'
  BY <1>3 DEF Start, NoneForgotten, Edge, blockVars, hostVars
<1>4. ASSUME IsrEnter PROVE NoneForgotten'
  BY <1>4 DEF IsrEnter, NoneForgotten, TypeOK
<1>5. ASSUME Configure PROVE NoneForgotten'
  BY <1>5 DEF Configure, NoneForgotten, Edge, blockVars
<1>6. ASSUME UNCHANGED vars PROVE NoneForgotten'
  BY <1>6 DEF vars, NoneForgotten, Edge, blockVars, hostVars
<1> QED
  BY NextCases, <1>1, <1>2, <1>3, <1>4, <1>5, <1>6

\* A completion that no handler has looked at will be looked at, although an edge
\* in the cycle of `sent` is dropped (pcie_us_msi.v:131).
THEOREM NoneForgottenCorrect == Spec => []NoneForgotten
BY MsiTypes, AlwaysSpaced, ForgottenInit, ForgottenStep, PTL DEF Spec

-----------------------------------------------------------------------------
(***************************************************************************)
(* The refinement: the runs that are due are an edge to come, a latched    *)
(* one and a message.                                                      *)
(***************************************************************************)
Due == Num(Edge) + Num(latched) + Num(message)

LEMMA NumType == \A b : Num(b) \in {0, 1}
BY DEF Num

LEMMA DueType == Due \in Nat
BY NumType DEF Due

LEMMA BellInit == Init => Bell!Init
<1> SUFFICES ASSUME Init PROVE Bell!Init
  OBVIOUS
<1>1. ~Edge /\ ~latched /\ ~message
  BY DEF Init, Edge
<1>2. Num(Edge) = 0 /\ Num(latched) = 0 /\ Num(message) = 0
  BY <1>1 DEF Num
<1> QED
  BY <1>2 DEF Init, Bell!Init

LEMMA NumOf ==
  /\ Edge <=> Num(Edge) = 1
  /\ latched <=> Num(latched) = 1
  /\ message <=> Num(message) = 1
BY DEF Num

LEMMA DueComing == Due > 0 <=> Coming
<1>1. /\ Num(Edge) \in {0, 1} /\ Num(latched) \in {0, 1} /\ Num(message) \in {0, 1}
  BY NumType
<1>2. Due > 0 <=> Num(Edge) = 1 \/ Num(latched) = 1 \/ Num(message) = 1
  BY <1>1 DEF Due
<1> QED
  BY <1>2, NumOf, Zenon DEF Coming

LEMMA DueNext == Due' \in Nat /\ (Coming' => Due' > 0)
<1>1. Due' = Num(Edge') + Num(latched') + Num(message')
  BY DEF Due, Num
<1>2. /\ Num(Edge') \in {0, 1} /\ Num(latched') \in {0, 1} /\ Num(message') \in {0, 1}
  BY NumType
<1>3. Coming' => Num(Edge') = 1 \/ Num(latched') = 1 \/ Num(message') = 1
  BY DEF Coming, Num
<1> QED
  BY <1>1, <1>2, <1>3

LEMMA DueClock ==
  ASSUME Handshake, NEW done \in SUBSET Line, NEW answer \in Answer, Clock(done, answer)
  PROVE  /\ Due' <= Due + 1
         /\ pulse = {} => Due' <= Due
<1>1. /\ irq' = (pulse # {}) /\ last' = irq
      /\ latched' = ((latched \/ Edge) /\ ~Clears(answer))
      /\ message' = (message \/ answer = "sent")
      /\ answer # "none" => asked
  BY Zenon DEF Clock, Request, HardIp
<1>2. /\ Num(Edge) \in {0, 1} /\ Num(latched) \in {0, 1} /\ Num(message) \in {0, 1}
      /\ Num(Edge') \in {0, 1} /\ Num(latched') \in {0, 1} /\ Num(message') \in {0, 1}
  BY NumType
<1>3. pulse = {} => Num(Edge') = 0
  BY <1>1 DEF Edge, Num
<1>4. Num(latched') + Num(message') <= Num(Edge) + Num(latched) + Num(message)
  <2>1. CASE answer = "sent"
    <3>1. latched /\ ~latched'
      BY <1>1, <2>1, Zenon DEF Clears, Handshake
    <3>2. Num(latched) = 1 /\ Num(latched') = 0
      BY <3>1 DEF Num
    <3> QED
      BY <1>2, <3>2
  <2>2. CASE answer # "sent"
    <3>1. (message' => message) /\ (latched' => latched \/ Edge)
      BY <1>1, <2>2, Zenon
    <3>2. Num(message') <= Num(message) /\ Num(latched') <= Num(latched) + Num(Edge)
      BY <3>1 DEF Num
    <3> QED
      BY <1>2, <3>2
  <2> QED
    BY <2>1, <2>2
<1>5. Due' = Num(Edge') + Num(latched') + Num(message')
  BY DEF Due, Num
<1> QED
  BY <1>2, <1>3, <1>4, <1>5 DEF Due

LEMMA BellStep ==
  TypeOK /\ Handshake /\ Spaced /\ [Next]_vars => [Bell!Next]_(Bell!vars)
<1> SUFFICES ASSUME TypeOK, Handshake, Spaced, [Next]_vars
             PROVE  [Bell!Next]_(Bell!vars)
  OBVIOUS
<1>0. ASSUME UNCHANGED <<unread, Due, reading>> PROVE UNCHANGED Bell!vars
  BY <1>0 DEF Bell!vars, Due
<1>1. ASSUME NEW done \in SUBSET Line, NEW answer \in Answer, Clock(done, answer)
      PROVE  [Bell!Next]_(Bell!vars)
  <2>1. unread' = unread \cup pulse /\ reading' = reading
    BY <1>1 DEF Clock, hostVars
  <2>2. Due' <= Due + 1 /\ (pulse = {} => Due' <= Due) /\ Due' \in Nat /\ Due \in Nat
    BY <1>1, DueClock, DueType, DueNext
  <2>3. Due > 0 \/ pulse # {} => Due' > 0
    BY <1>1, DueComing, ComingClock, DueNext
  <2>4. CASE pulse # {}
    <3>1. pulse \in (SUBSET Line) \ {{}} /\ Due' \in 1..Due + 1
      BY <2>2, <2>3, <2>4 DEF TypeOK
    <3>2. Bell!Ring(pulse)
      BY <2>1, <3>1 DEF Bell!Ring, Due
    <3> QED
      BY <3>1, <3>2 DEF Bell!Next
  <2>5. CASE pulse = {} /\ Due' = Due
    BY <1>0, <2>1, <2>5
  <2>6. CASE pulse = {} /\ Due' < Due
    <3>1. Due > 1 /\ Due' \in 1..Due - 1 /\ UNCHANGED <<unread, reading>>
      BY <2>1, <2>2, <2>3, <2>6
    <3>2. Bell!Merge
      BY <3>1 DEF Bell!Merge, Due
    <3> QED
      BY <3>2 DEF Bell!Next
  <2> QED
    BY <2>2, <2>4, <2>5, <2>6
<1>2. ASSUME NEW l \in Line, IsrRead(l) PROVE [Bell!Next]_(Bell!vars)
  <2>1. UNCHANGED <<irq, last, latched, message>>
    BY <1>2 DEF IsrRead, blockVars
  <2>2. Due' = Due
    BY <2>1 DEF Due, Edge, Num
  <2>3. Bell!Read(l)
    BY <1>2, <2>2 DEF IsrRead, Bell!Read, Due
  <2> QED
    BY <2>3 DEF Bell!Next
<1>3. ASSUME IsrEnter PROVE [Bell!Next]_(Bell!vars)
  <2>1. message /\ ~message' /\ UNCHANGED <<irq, last, latched>>
    BY <1>3 DEF IsrEnter, blockVars
  <2>2. Num(message) = 1 /\ Num(message') = 0 /\ Num(Edge') = Num(Edge)
        /\ Num(latched') = Num(latched)
    BY <2>1 DEF Edge, Num
  <2>3. Due > 0 /\ Due' = Due - 1
    <3>1. Due' = Num(Edge') + Num(latched') + Num(message')
      BY DEF Due, Num
    <3> QED
      BY <2>2, <3>1, NumType DEF Due
  <2>4. Bell!Enter
    BY <1>3, <2>3 DEF IsrEnter, Bell!Enter, Due
  <2> QED
    BY <2>4 DEF Bell!Next
<1>4. ASSUME NEW l \in Line, Start(l) PROVE [Bell!Next]_(Bell!vars)
  BY <1>0, <1>4 DEF Start, Due, Edge, Num, blockVars, hostVars
<1>5. ASSUME Configure \/ UNCHANGED vars PROVE [Bell!Next]_(Bell!vars)
  BY <1>0, <1>5 DEF Configure, vars, Due, Edge, Num, blockVars, hostVars
<1> QED
  BY NextCases, <1>1, <1>2, <1>3, <1>4, <1>5

\* The card's interrupt is what the driver relies on: counters, queue, MSI block
\* and hard IP together implement Doorbell (dma_intr_queue.v, pcie_us_msi.v).
THEOREM MsiImplementsDoorbell == Spec => Rings
BY MsiTypes, HandshakeCorrect, AlwaysSpaced, BellInit, BellStep, PTL
   DEF Spec, Rings, Bell!Spec

=============================================================================
