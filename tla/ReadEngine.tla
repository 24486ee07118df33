------------------------------ MODULE ReadEngine ------------------------------
(***************************************************************************)
(* The H2C read engine, rtl/dma_if_pcie_axis_rd_v1.v, clock by clock.      *)
(*                                                                         *)
(* A start pulse makes the request machine issue memory reads of Beats     *)
(* words, each under the next tag; completions come back in any order of   *)
(* tags and are stored in one FIFO per tag; the output machine empties the *)
(* FIFOs in tag order into an output FIFO.  One step is one rising edge of *)
(* clk: every always block takes its step together with the others, from   *)
(* the registers as they were and the inputs of the cycle.                 *)
(*                                                                         *)
(* Lengths count bus words: with the 512-bit bus a read of 512 bytes is 8  *)
(* words.                                                                  *)
(***************************************************************************)
EXTENDS Naturals, Sequences

CONSTANTS
  Tags,       \* PCIE_TAG_COUNT, the depth of the tag FIFO
  Beats,      \* words of a full read: (128 << MRRS) >> OFFSET_WIDTH
  TagDepth,   \* 2^CPLD_FIFO_DEPTH, the depth of one tag's FIFO
  OutHalf,    \* 2^(OUTPUT_FIFO_ADDR_WIDTH-1)
  OutDepth,   \* 2^OUTPUT_FIFO_ADDR_WIDTH
  Lengths,    \* lengths, in words, of the transfers asked for
  MaxTransfers, \* bound on the transfers of a behaviour
  Stalls,     \* whether tx_rd_req_tlp_ready may be low
  None        \* no request, no word, no tag

ASSUME SizesAssumption ==
  /\ Tags \in Nat \ {0} /\ Beats \in Nat \ {0}
  /\ TagDepth \in Nat /\ Beats <= TagDepth
  /\ OutHalf \in Nat \ {0} /\ OutDepth \in Nat /\ OutHalf + 2 <= OutDepth
ASSUME LengthsAssumption == Lengths \subseteq Nat \ {0}
ASSUME StallsAssumption == Stalls \in BOOLEAN
ASSUME BoundAssumption == MaxTransfers \in Nat

Tag == 0..(Tags - 1)

\* A word, a read, and a word on its way into the FIFO of a tag.
Word == [transfer : Nat, index : Nat, last : BOOLEAN]
Mrd == [tag : Tag, first : Nat, words : 1..Beats]
Write == [tag : Tag, word : Word]

ASSUME NoneAssumption == None \notin Tag \cup Word \cup Mrd \cup Write

VARIABLES
  \* Request machine.
  req,      \* req_state_reg: "idle" or "start"
  startReg, \* desc_tx_rd_req_start_reg
  length,   \* desc_tx_rd_req_length_reg
  reads,    \* tr_cycle_reg: reads this transfer takes
  issued,   \* op_cycle_reg: reads accepted so far
  mrd,      \* the request on the bus, None when tx_rd_req_tlp_valid_reg is 0
  \* Tags.
  tagWe,    \* op_tag_fifo_we
  wrTag,    \* op_tag_fifo_wr_tag
  tagCount, \* occupancy of op_tag_fifo
  table,    \* tag_table_info: words expected under each tag
  tagRd,    \* op_tag_fifo_rd
  rdptr,    \* op_tag_fifo_rdptr
  \* Completion machine.
  recv,     \* recv_state_reg
  cplReady, \* rx_cpl_tlp_ready_reg
  cplTotal, \* cpl_tr_cycle_reg
  cplSeen,  \* cpl_op_cycle_reg
  cplWrite, \* cpld_data_fifo_wr_en_reg and din_reg: at most one tag
  fifo,     \* the per-tag FIFOs
  \* Output machine.
  tr,       \* tr_state_reg
  left,     \* output_cycle_reg: words still to deliver
  taken,    \* cycle_reg: words taken under the current tag
  rdEn,     \* cpld_data_fifo_rd_en_reg: the tag it selects
  outFifo,  \* out_fifo
  halfFull, \* out_fifo_half_full_reg
  axis,     \* m_axis_tlp_*_reg, None when tvalid is 0
  \* The host and the user of the stream.
  host,     \* host[t]: words requested under tag t and not yet returned
  asked,    \* history: the words of all transfers, in order
  got,      \* history: the words the user took, in order
  count     \* history: how many transfers were started

reqVars  == <<req, startReg, length, reads, issued, mrd>>
tagVars  == <<tagWe, wrTag, tagCount, table, tagRd, rdptr>>
recvVars == <<recv, cplReady, cplTotal, cplSeen, cplWrite, fifo>>
outVars  == <<tr, left, taken, rdEn, outFifo, halfFull, axis>>
envVars  == <<host, asked, got, count>>
vars == <<reqVars, tagVars, recvVars, outVars, envVars>>

Stream == INSTANCE OrderedStream WITH
  Lengths <- Lengths, asked <- asked, got <- got

Init ==
  /\ req = "idle" /\ startReg = FALSE /\ length = 0 /\ reads = 0
  /\ issued = 0 /\ mrd = None
  /\ tagWe = FALSE /\ wrTag = 0 /\ tagCount = 0
  /\ table = [t \in Tag |-> 0] /\ tagRd = FALSE /\ rdptr = 0
  /\ recv = "idle" /\ cplReady = FALSE /\ cplTotal = 0 /\ cplSeen = 0
  /\ cplWrite = None /\ fifo = [t \in Tag |-> <<>>]
  /\ tr = "idle" /\ left = 0 /\ taken = 0 /\ rdEn = None
  /\ outFifo = <<>> /\ halfFull = FALSE /\ axis = None
  /\ host = [t \in Tag |-> <<>>] /\ asked = <<>> /\ got = <<>> /\ count = 0

-----------------------------------------------------------------------------
(***************************************************************************)
(* Wires.                                                                  *)
(***************************************************************************)

\* desc_tx_rd_req_start && ~desc_tx_rd_req_start_reg
Edge(start) == start > 0 /\ ~startReg

\* Reads that n words take, and the words of the last of them.
ReadsOf(n) == (n \div Beats) + (IF n % Beats = 0 THEN 0 ELSE 1)
LastOf(n) == IF n % Beats = 0 THEN Beats ELSE n % Beats

Accepted(ready) == mrd # None /\ ready

\* The words of the read now being formed.
ReadBeats == IF issued = reads - 1 THEN LastOf(length) ELSE Beats

\* Faulty variant: op_tag_fifo_full is not looked at.
NeverFull == FALSE

\* op_tag_fifo_full
TagFull == tagCount = Tags

\* tag_valid_next: a tag is wanted in the next cycle.
TagWanted(ready) == req = "start" /\ ~Accepted(ready) /\ ~tagWe

\* The tag FIFO selected by the read enable of the last cycle gives a word.
Pops(t) == rdEn = t /\ fifo[t] # <<>>

\* The output machine passes that word on.
Taking == tr = "start" /\ Pops(rdptr)

\* cycle_next and output_cycle_next
TakenNext == IF tr = "idle" THEN 0 ELSE IF Taking THEN taken + 1 ELSE taken

LeftNext(start) ==
  IF tr = "idle" THEN (IF Edge(start) THEN start ELSE 0)
                 ELSE (IF Taking THEN left - 1 ELSE left)

-----------------------------------------------------------------------------
(***************************************************************************)
(* The always blocks.                                                      *)
(***************************************************************************)

Idle(start) ==
  /\ req = "idle"
  /\ startReg' = (start > 0)
  /\ issued' = 0 /\ mrd' = None
  /\ IF Edge(start)
       THEN req' = "start" /\ length' = start /\ reads' = ReadsOf(start)
       ELSE reads' = 0 /\ UNCHANGED <<req, length>>

\* A read is accepted.
Issue(ready) ==
  /\ req = "start" /\ Accepted(ready)
  /\ issued' = issued + 1 /\ mrd' = None
  /\ req' = IF issued + 1 = reads THEN "idle" ELSE "start"
  /\ startReg' = FALSE
  /\ UNCHANGED <<length, reads>>

\* A read is put on the bus under a new tag.  It stays there for one cycle:
\* unless it is accepted in that cycle, Prepare takes it off again.
Offer(ready) ==
  /\ req = "start" /\ ~Accepted(ready) /\ tagWe
  /\ mrd' = [tag |-> wrTag, first |-> issued * Beats, words |-> ReadBeats]
  /\ startReg' = FALSE
  /\ UNCHANGED <<req, length, reads, issued>>

Prepare(ready) ==
  /\ req = "start" /\ ~Accepted(ready) /\ ~tagWe
  /\ mrd' = None
  /\ startReg' = FALSE
  /\ UNCHANGED <<req, length, reads, issued>>

Request(start, ready) ==
  Idle(start) \/ Issue(ready) \/ Offer(ready) \/ Prepare(ready)

\* op_tag_fifo and its write side, and the table of words per tag.
AllocateTag(ready) ==
  /\ tagWe' = (TagWanted(ready) /\ ~TagFull)
  /\ wrTag' = IF req = "idle" THEN 0
              ELSE IF tagWe THEN (wrTag + 1) % Tags ELSE wrTag
  /\ tagCount' = (IF tagWe THEN tagCount + 1 ELSE tagCount)
                 - (IF tagRd /\ tagCount > 0 THEN 1 ELSE 0)
  /\ table' = [t \in Tag |->
                 IF tagRd /\ t = rdptr THEN 0
                 ELSE IF tagWe /\ t = wrTag THEN ReadBeats ELSE table[t]]

\* Faulty variant: the tag is released with its first word.
ReleaseEarly(start) ==
  IF req = "idle" /\ Edge(start)
    THEN rdptr' = 0 /\ UNCHANGED tagRd
  ELSE IF tagRd
    THEN tagRd' = FALSE /\ rdptr' = (rdptr + 1) % Tags
    ELSE tagRd' = (rdEn = rdptr /\ TakenNext = 1) /\ UNCHANGED rdptr

\* The read side of op_tag_fifo: on to the next tag when the words of this
\* one have all been taken.  A start points it back to tag 0.
ReleaseTag(start) ==
  IF req = "idle" /\ Edge(start)
    THEN rdptr' = 0 /\ UNCHANGED tagRd
  ELSE IF tagRd
    THEN tagRd' = FALSE /\ rdptr' = (rdptr + 1) % Tags
    ELSE tagRd' = (rdEn = rdptr /\ TakenNext = table[rdptr]) /\ UNCHANGED rdptr

\* Faulty variant: the last word of a transfer is not counted.
CountShort == IF length > 1 THEN length - 1 ELSE length

\* The completion words a transfer brings.
CplTotal == length

\* Completions: counted against the length, written under their tag one
\* cycle later.
Receive(start, cpl) ==
  \/ /\ recv = "idle"
     /\ cplReady' = FALSE /\ cplSeen' = 0 /\ cplWrite' = None
     /\ IF startReg /\ (req = "start" \/ start = 0)
          THEN recv' = "start" /\ cplTotal' = CplTotal
          ELSE cplTotal' = 0 /\ UNCHANGED recv
  \/ /\ recv = "start"
     /\ cplReady' = TRUE
     /\ IF cpl = None
          THEN cplWrite' = None /\ UNCHANGED <<recv, cplSeen>>
          ELSE /\ cplWrite' = [tag |-> cpl, word |-> Head(host[cpl])]
               /\ cplSeen' = cplSeen + 1
               /\ recv' = IF cplSeen + 1 = cplTotal THEN "idle" ELSE "start"
     /\ UNCHANGED cplTotal

Written(t) ==
  IF cplWrite # None /\ cplWrite.tag = t /\ Len(fifo[t]) < TagDepth
    THEN <<cplWrite.word>> ELSE <<>>

\* The per-tag FIFOs: a write to a full one is lost.
TagFifos ==
  fifo' = [t \in Tag |->
             (IF Pops(t) THEN Tail(fifo[t]) ELSE fifo[t]) \o Written(t)]

\* Faulty variant: the output machine reads on while the FIFO fills up.
DrainAlways(start) ==
  /\ tr' = IF tr = "idle" THEN (IF Edge(start) THEN "start" ELSE "idle")
           ELSE IF LeftNext(start) = 0 THEN "idle" ELSE "start"
  /\ left' = LeftNext(start)
  /\ taken' = IF TakenNext = table[rdptr] THEN 0 ELSE TakenNext
  /\ rdEn' = IF tr = "start" /\ fifo[rdptr] # <<>> THEN rdptr ELSE None

\* The output machine.
Drain(start) ==
  /\ tr' = IF tr = "idle" THEN (IF Edge(start) THEN "start" ELSE "idle")
           ELSE IF LeftNext(start) = 0 THEN "idle" ELSE "start"
  /\ left' = LeftNext(start)
  /\ taken' = IF TakenNext = table[rdptr] THEN 0 ELSE TakenNext
  /\ rdEn' = IF tr = "start" /\ ~halfFull /\ fifo[rdptr] # <<>>
               THEN rdptr ELSE None

\* The word that leaves the output machine, marked when none is left.
OutWord == [Head(fifo[rdptr]) EXCEPT !.last = (left = 1)]

\* The output FIFO and its output register: a word for a full one is lost.
OutputFifo(take) ==
  LET moves == outFifo # <<>> /\ (axis = None \/ take)
  IN /\ halfFull' = (Len(outFifo) >= OutHalf)
     /\ axis' = IF moves THEN Head(outFifo) ELSE IF take THEN None ELSE axis
     /\ outFifo' = (IF moves THEN Tail(outFifo) ELSE outFifo)
                   \o (IF Taking /\ Len(outFifo) < OutDepth
                         THEN <<OutWord>> ELSE <<>>)

\* The words an accepted read asks the host for.
ReadWords ==
  [i \in 1..mrd.words |->
     [transfer |-> count, index |-> mrd.first + i, last |-> FALSE]]

\* The host and the user.  The next transfer is asked for when the last word
\* of the one before has been taken.
Environment(start, ready, cpl, take) ==
  /\ start > 0 => count < MaxTransfers /\ got = asked
  /\ ready \/ Stalls
  /\ cpl # None => cplReady /\ host[cpl] # <<>>
  /\ host' = [t \in Tag |->
                (IF cpl = t THEN Tail(host[t]) ELSE host[t])
                \o (IF Accepted(ready) /\ mrd.tag = t THEN ReadWords ELSE <<>>)]
  /\ got' = IF take /\ axis # None THEN Append(got, axis) ELSE got
  /\ count' = IF start > 0 THEN count + 1 ELSE count
  /\ asked' = IF start > 0 THEN asked \o Stream!Words(count + 1, start) ELSE asked

\* One rising edge: a start with its length (0 for none), the ready of the
\* request bus, the tag of a completion word, the ready of the user.
Clock(start, ready, cpl, take) ==
  /\ Environment(start, ready, cpl, take)
  /\ Request(start, ready)
  /\ AllocateTag(ready)
  /\ ReleaseTag(start)
  /\ Receive(start, cpl)
  /\ TagFifos
  /\ Drain(start)
  /\ OutputFifo(take)

Next ==
  \E start \in Lengths \cup {0}, ready \in BOOLEAN, cpl \in Tag \cup {None},
     take \in BOOLEAN : Clock(start, ready, cpl, take)

Spec == Init /\ [][Next]_vars

\* The host answers every read, and the user goes on taking words.
Fairness ==
  /\ \A t \in Tag :
       WF_vars(\E start \in Lengths \cup {0}, ready, take \in BOOLEAN :
                 Clock(start, ready, t, take))
  /\ WF_vars(\E start \in Lengths \cup {0}, ready \in BOOLEAN,
                cpl \in Tag \cup {None} : Clock(start, ready, cpl, TRUE))

LiveSpec == Spec /\ Fairness

-----------------------------------------------------------------------------
(***************************************************************************)
(* Properties.                                                             *)
(***************************************************************************)

TypeOK ==
  /\ req \in {"idle", "start"} /\ startReg \in BOOLEAN /\ length \in Nat
  /\ reads \in Nat /\ issued \in Nat /\ mrd \in Mrd \cup {None}
  /\ tagWe \in BOOLEAN /\ wrTag \in Tag /\ tagCount \in 0..Tags
  /\ table \in [Tag -> 0..Beats] /\ tagRd \in BOOLEAN /\ rdptr \in Tag
  /\ recv \in {"idle", "start"} /\ cplReady \in BOOLEAN
  /\ cplTotal \in Nat /\ cplSeen \in Nat
  /\ cplWrite \in Write \cup {None} /\ fifo \in [Tag -> Seq(Word)]
  /\ tr \in {"idle", "start"} /\ left \in Nat /\ taken \in Nat
  /\ rdEn \in Tag \cup {None} /\ outFifo \in Seq(Word)
  /\ halfFull \in BOOLEAN /\ axis \in Word \cup {None}
  /\ host \in [Tag -> Seq(Word)] /\ asked \in Seq(Word) /\ got \in Seq(Word)
  /\ count \in Nat

\* Whatever order the tags complete in, the stream is the words asked for.
InOrder == Stream!Spec

\* A tag is put on a request only when no word is still owed or kept under it:
\* not at the host, not on its way into the FIFO, not in the FIFO.
TagExclusive ==
  mrd # None =>
    /\ host[mrd.tag] = <<>> /\ fifo[mrd.tag] = <<>>
    /\ cplWrite # None => cplWrite.tag # mrd.tag

\* No FIFO is written when it is full, though neither the per-tag FIFOs nor
\* the completion bus hold anything back: room is reserved by the tag, and the
\* output stops two words after its FIFO is half full.
OutFifoHasRoom == Taking => Len(outFifo) < OutDepth
TagFifoHasRoom == cplWrite # None => Len(fifo[cplWrite.tag]) < TagDepth

\* A completion the engine still has coming is not taken off the bus by an
\* idle completion machine, which would drop it.
NothingDropped == (cplReady /\ recv = "idle") => \A t \in Tag : host[t] = <<>>

\* The tags of the reads of a transfer count up from 0.
TagsCountUp == mrd # None => mrd.tag = issued % Tags

\* Every transfer is delivered.
AllDelivered == got # asked ~> got = asked

=============================================================================
