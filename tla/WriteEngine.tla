----------------------------- MODULE WriteEngine -----------------------------
(***************************************************************************)
(* The C2H write engine, rtl/dma_if_pcie_axis_wr_v1.v, clock by clock, and *)
(* what starts it: in a Scatter_Gather build the entry walk of             *)
(* rtl/sgdma_if_pcie_axis_wr.v, in a Block_DMA build the driver.           *)
(*                                                                         *)
(* A start makes the engine take so many words from the user's stream, cut *)
(* them into memory writes of at most the maximum payload, and put them    *)
(* through an output FIFO on the request bus.  One step is one rising edge *)
(* of clk.  Lengths and addresses count words of the 512-bit bus.          *)
(***************************************************************************)
EXTENDS Naturals, Sequences

CONSTANTS
  Builds,   \* of "Block_DMA" and "Scatter_Gather", those looked at
  Payloads, \* values of MaxPayloadSize looked at
  Lengths,  \* lengths, in words, of a transfer
  Lists,    \* the transfers of a behaviour, 0 for an entry that is all zero
  OutHalf,  \* 2^(OUTPUT_FIFO_ADDR_WIDTH-1)
  OutDepth, \* 2^OUTPUT_FIFO_ADDR_WIDTH
  None      \* no word on the bus, no place in memory

ASSUME BuildsAssumption == Builds \subseteq {"Block_DMA", "Scatter_Gather"}
ASSUME PayloadsAssumption == Payloads \subseteq 0..3
ASSUME LengthsAssumption == Lengths \subseteq Nat \ {0}
ASSUME ListsAssumption == Lists \subseteq Seq(Lengths \cup {0})
ASSUME SizesAssumption ==
  OutHalf \in Nat \ {0} /\ OutDepth \in Nat /\ OutHalf + 2 <= OutDepth

\* Where a packet goes; a word of the request bus; where the host puts a word.
At == [transfer : Nat, offset : Nat]
Word == [sop : BOOLEAN, eop : BOOLEAN, last : BOOLEAN, at : At,
         words : Nat \ {0}, number : Nat]
Places == [transfer : Nat, index : Nat, last : BOOLEAN]

ASSUME NoneAssumption == None \notin Word

VARIABLES
  build,    \* DMA_MODE
  payload,  \* MaxPayloadSize
  \* Request machine.
  req,      \* req_state_reg: "idle" or "start"
  startReg, \* desc_wr_req_start_reg
  length,   \* desc_wr_req_length_reg
  cycle,    \* cycle_reg: words of the transfer
  op,       \* op_cycle_reg: words taken
  packets,  \* tr_cycle_reg: packets still to end
  field,    \* tx_wr_req_length_reg: the length field, in words
  addr,     \* tx_wr_req_addr_reg: where the next packet goes
  tready,   \* s_axis_tlp_tready_reg
  moved,    \* tr_bytes_reg
  \* Output.
  outFifo,  \* out_fifo
  halfFull, \* out_fifo_half_full_reg
  bus,      \* tx_wr_req_tlp_*_reg, None when valid is 0
  \* Entry walk.
  walk,     \* sgdma_state_reg: "mem" and "end"; "idle" for the others
  popping,  \* dma_wr_sglist_fifo_rden_reg
  entry,    \* desc_tx_wr_length_reg
  stage,    \* sgdma_stage_count_reg
  \* The driver or list, the user of the card, the host.
  list,     \* transfers still to start
  used,     \* history: words the user gave, numbered from 1
  spilled,  \* history: those of them taken while no transfer ran
  packet,   \* the packet now arriving at the host: address, words, words seen
  asked,    \* history: the places of all words asked for, in order
  landed,   \* history: the places written, in order
  stored    \* history: the numbers of the words written there

reqVars  == <<req, startReg, length, cycle, op, packets, field, addr, tready,
              moved>>
outVars  == <<outFifo, halfFull, bus>>
walkVars == <<walk, popping, entry, stage>>
envVars  == <<build, payload, list, used, spilled, packet, asked, landed, stored>>
vars == <<reqVars, outVars, walkVars, envVars>>

Stream == INSTANCE OrderedStream WITH asked <- asked, got <- landed

Start0 == [transfer |-> 0, offset |-> 0]

Init ==
  /\ build \in Builds /\ payload \in Payloads /\ list \in Lists
  /\ build = "Block_DMA" => \A i \in DOMAIN list : list[i] > 0
  /\ req = "idle" /\ startReg = FALSE /\ length = 0 /\ cycle = 0 /\ op = 0
  /\ packets = 0 /\ field = 0 /\ addr = Start0 /\ tready = FALSE /\ moved = 0
  /\ outFifo = <<>> /\ halfFull = FALSE /\ bus = None
  /\ walk = (IF build = "Scatter_Gather" THEN "mem" ELSE "idle")
  /\ popping = FALSE /\ entry = 0 /\ stage = 0
  /\ used = 0 /\ spilled = {} /\ packet = [at |-> Start0, words |-> 0, seen |-> 0]
  /\ asked = <<>> /\ landed = <<>> /\ stored = <<>>

-----------------------------------------------------------------------------
(***************************************************************************)
(* Wires.  go: the driver's start pulse; valid: the user has a word;       *)
(* ready: the request bus takes one.                                       *)
(***************************************************************************)

\* desc_wr_req_start: the walk's is up in the first of its two cycles.
Start(go) ==
  IF build = "Block_DMA" THEN go
  ELSE walk = "mem" /\ ~popping /\ list # <<>> /\ Head(list) > 0

Edge(go) == Start(go) /\ ~startReg

\* Words of a full packet.
Packet == 2 ^ (payload + 1)

\* Faulty variant: a short last packet is not counted.
PacketsWhole(n) == n \div Packet

\* Packets that n words take.
PacketsOf(n) == (n \div Packet) + (IF n % Packet = 0 THEN 0 ELSE 1)

\* The ten-bit length field of a full packet: for 1024 bytes the code writes
\* 0, which PCIe reads as 1024 double words.
FullField == IF payload = 3 THEN 64 ELSE Packet

\* s_axis_tlp_tvalid && s_axis_tlp_tready, at the engine.
Takes(valid) == valid /\ tready

\* tx_wr_req_tlp_done
Done == moved >= length /\ moved # 0

\* Faulty variant: the user sees the engine's own ready.
GivesUnmasked(valid) == Takes(valid)

\* The user's word is taken as the user sees it: the scatter-gather engine
\* takes ready back when the last word of a transfer was moved.
Gives(valid) == Takes(valid) /\ (build = "Scatter_Gather" => ~Done)

\* tx_wr_req_tlp_sop_init and eop_init of the word being taken.
Sop == (op + 1) % Packet = 1
LastWord == op + 1 = cycle
Eop == (op + 1) % Packet = 0 \/ LastWord

\* Faulty variant: the last packet is announced as a full one.
FieldAlwaysFull == FullField

\* tx_wr_req_length_next of the word being taken.
Field ==
  IF packets > 1 THEN FullField
  ELSE IF packets = 1
    THEN IF length % Packet = 0 THEN FullField ELSE length % Packet
    ELSE field

\* The bus takes a word.
Sent(ready) == bus # None /\ ready

-----------------------------------------------------------------------------
(***************************************************************************)
(* The always blocks.                                                      *)
(***************************************************************************)

Idle(go) ==
  /\ req = "idle"
  /\ op' = 0 /\ tready' = FALSE /\ UNCHANGED field
  /\ IF Edge(go)
       THEN /\ req' = "start" /\ length' = Head(list) /\ cycle' = Head(list)
            /\ packets' = PacketsOf(Head(list))
            /\ addr' = [transfer |-> Stream!Transfers(asked) + 1, offset |-> 0]
       ELSE cycle' = 0 /\ packets' = 0 /\ UNCHANGED <<req, length, addr>>

Move(valid) ==
  /\ req = "start"
  /\ tready' = ~halfFull
  /\ IF Takes(valid)
       THEN /\ op' = op + 1 /\ field' = Field
            /\ packets' = IF Eop THEN packets - 1 ELSE packets
            /\ addr' = [addr EXCEPT !.offset = IF Eop THEN @ + Packet ELSE @]
            /\ req' = IF LastWord THEN "idle" ELSE "start"
       ELSE UNCHANGED <<op, field, packets, addr, req>>
  /\ UNCHANGED <<length, cycle>>

\* tr_bytes_reg
CountMoved(go, valid) ==
  moved' = IF Start(go) THEN 0 ELSE IF Takes(valid) THEN moved + 1 ELSE moved

Request(go, valid) ==
  /\ Idle(go) \/ Move(valid)
  /\ startReg' = Start(go)
  /\ CountMoved(go, valid)

OutWord == [sop |-> Sop, eop |-> Eop, last |-> LastWord, at |-> addr,
            words |-> Field, number |-> used + 1]

\* The output FIFO and the register behind it: a word for a full FIFO is lost.
Output(valid, ready) ==
  LET moves == outFifo # <<>> /\ (bus = None \/ ready)
      takes == req = "start" /\ Takes(valid)
  IN /\ halfFull' = (Len(outFifo) >= OutHalf)
     /\ bus' = IF moves THEN Head(outFifo) ELSE IF ready THEN None ELSE bus
     /\ outFifo' = (IF moves THEN Tail(outFifo) ELSE outFifo)
                   \o (IF takes /\ Len(outFifo) < OutDepth
                         THEN <<OutWord>> ELSE <<>>)

\* SGDMA_WRMEM: the entry at the head of the list FIFO is started, then taken.
Fetch ==
  /\ walk = "mem"
  /\ IF popping
       THEN walk' = "end" /\ popping' = FALSE /\ entry' = Head(list)
       ELSE popping' = (list # <<>>) /\ UNCHANGED <<walk, entry>>
  /\ UNCHANGED stage

\* Faulty variant: waits for more than the words of the entry.
AwaitMore(ready) ==
  /\ walk = "end"
  /\ IF stage > entry
       THEN IF list = <<>> THEN walk' = "idle" /\ UNCHANGED stage
                           ELSE walk' = "mem" /\ stage' = 0
       ELSE stage' = (IF Sent(ready) THEN stage + 1 ELSE stage) /\ UNCHANGED walk
  /\ UNCHANGED <<popping, entry>>

\* SGDMA_WREND: until its words have gone over the request bus.
Await(ready) ==
  /\ walk = "end"
  /\ IF stage >= entry
       THEN IF list = <<>> THEN walk' = "idle" /\ UNCHANGED stage
                           ELSE walk' = "mem" /\ stage' = 0
       ELSE stage' = (IF Sent(ready) THEN stage + 1 ELSE stage) /\ UNCHANGED walk
  /\ UNCHANGED <<popping, entry>>

\* The other states: the walk has no business with the write engine.
Rest == walk = "idle" /\ stage' = 0 /\ UNCHANGED <<walk, popping, entry>>

Walk(ready) == Fetch \/ Await(ready) \/ Rest

-----------------------------------------------------------------------------
(***************************************************************************)
(* The surroundings.                                                       *)
(***************************************************************************)

\* The packet a word on the bus belongs to.
PacketNow ==
  IF bus.sop THEN [at |-> bus.at, words |-> bus.words, seen |-> 1]
             ELSE [packet EXCEPT !.seen = @ + 1]

\* Where a word goes: by the header, and nowhere if the packet does not end
\* where its header says.
Place ==
  IF bus.eop = (PacketNow.seen = PacketNow.words)
    THEN [transfer |-> PacketNow.at.transfer,
          index |-> PacketNow.at.offset + PacketNow.seen, last |-> bus.last]
    ELSE None

\* The driver of a Block_DMA build starts a transfer when the one before has
\* been counted as written.
Environment(go, valid, ready) ==
  /\ go => build = "Block_DMA" /\ list # <<>> /\ landed = asked
  /\ list' = IF go \/ popping THEN Tail(list) ELSE list
  /\ asked' = IF Start(go)
                THEN asked \o Stream!Words(Stream!Transfers(asked) + 1, Head(list))
                ELSE asked
  /\ used' = IF Gives(valid) THEN used + 1 ELSE used
  /\ spilled' = IF Gives(valid) /\ req = "idle" THEN spilled \cup {used + 1}
                ELSE spilled
  /\ IF Sent(ready)
       THEN /\ packet' = PacketNow /\ landed' = Append(landed, Place)
            /\ stored' = Append(stored, bus.number)
       ELSE UNCHANGED <<packet, landed, stored>>
  /\ UNCHANGED <<build, payload>>

Clock(go, valid, ready) ==
  /\ Environment(go, valid, ready)
  /\ Request(go, valid)
  /\ Output(valid, ready)
  /\ Walk(ready)

Next == \E go, valid, ready \in BOOLEAN : Clock(go, valid, ready)

Spec == Init /\ [][Next]_vars

\* The user has words again and again, and the bus takes them.
Fairness ==
  /\ WF_vars(\E go, ready \in BOOLEAN : Clock(go, TRUE, ready))
  /\ WF_vars(\E go, valid \in BOOLEAN : Clock(go, valid, TRUE))

LiveSpec == Spec /\ Fairness

-----------------------------------------------------------------------------
(***************************************************************************)
(* Properties.                                                             *)
(***************************************************************************)

TypeOK ==
  /\ build \in Builds /\ payload \in Payloads
  /\ req \in {"idle", "start"} /\ startReg \in BOOLEAN /\ length \in Nat
  /\ cycle \in Nat /\ op \in Nat /\ packets \in Nat /\ field \in Nat
  /\ addr \in At /\ tready \in BOOLEAN /\ moved \in Nat
  /\ outFifo \in Seq(Word) /\ Len(outFifo) <= OutDepth
  /\ halfFull \in BOOLEAN /\ bus \in Word \cup {None}
  /\ walk \in {"idle", "mem", "end"} /\ popping \in BOOLEAN
  /\ entry \in Nat /\ stage \in Nat
  /\ list \in Seq(Lengths \cup {0}) /\ used \in Nat /\ spilled \subseteq 1..used
  /\ packet \in [at : At, words : Nat, seen : Nat]
  /\ asked \in Seq(Places) /\ landed \in Seq(Places \cup {None})
  /\ stored \in Seq(Nat)

\* Whatever the user and the bus do, the words of each transfer go to
\* consecutive places from its address, in packets as long as their headers
\* say, and the next transfer starts when the last word of this one is out.
WritesInOrder == Stream!Spec

\* The numbers of the words on their way, the oldest first: those the host
\* has, and those the engine holds.
Held == (IF bus = None THEN <<>> ELSE <<bus.number>>)
        \o [i \in DOMAIN outFifo |-> outFifo[i].number]
Way == stored \o Held

\* The words on their way are those the user gave, each once and in order:
\* none is dropped for a full FIFO, though the user is stopped only some
\* cycles after the FIFO is half full, and in a Scatter_Gather build none is
\* taken between two transfers.
NothingLost ==
  /\ \A i, j \in DOMAIN Way : i < j => Way[i] < Way[j]
  /\ {Way[i] : i \in DOMAIN Way} = (1..used) \ spilled
  /\ build = "Scatter_Gather" => spilled = {}

\* Every transfer is written, and the walk gets to the end of its list.
AllWritten ==
  /\ landed # asked ~> landed = asked
  /\ walk # "idle" ~> walk = "idle" /\ list = <<>>

=============================================================================
