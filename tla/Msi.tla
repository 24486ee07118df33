--------------------------------- MODULE Msi ---------------------------------
(***************************************************************************)
(* From a completion to the interrupt handler, clock by clock: the         *)
(* counters that make the completion pulse (dma_tx_wr_irq.v,               *)
(* dma_rx_rd_irq.v), the queue that is an OR (dma_intr_queue.v), the MSI   *)
(* block with its arbiter of one port (pcie_us_msi.v, arbiter.v), the hard *)
(* IP that sends the message or fails to, and the handler.  The status     *)
(* registers the handler reads are in BlockDma and SgDma.                  *)
(*                                                                         *)
(* The handler is entered after the hard IP has reported the message sent: *)
(* the report takes a few cycles, the way to the processor and the first   *)
(* read back to the card hundreds.                                         *)
(***************************************************************************)
EXTENDS Naturals

CONSTANT Line  \* the completion lines that are or-ed into the one MSI

\* Block_DMA has two.  Scatter_Gather has four, two for each direction, and the
\* two of a direction are stages of one call.
ASSUME LineAssumption == \A a, b, c \in Line : a = b \/ b = c \/ a = c

VARIABLES
  start,     \* the lines whose start register is 1
  counting,  \* the lines whose counter waits for the end of its transfer
  pulse,     \* the lines that are high: tx_wr_irq_reg, tx_rd_irq_reg
  irq,       \* msi_irq_reg
  last,      \* msi_irq_last_reg
  latched,   \* msi_irq_active_reg
  mask,      \* msi_irq_mask_reg
  grant,     \* grant_reg and grant_valid_reg of the arbiter
  active,    \* active_reg
  int,       \* msi_int_reg
  asked,     \* the hard IP has a request and has not answered
  enabled,   \* cfg_interrupt_msi_enable, set by the host
  masked,    \* the mask bit of the vector, set by the host
  message,   \* a message the processor has and no handler was entered for
  reading,   \* the status registers the running handler has still to read
  unread     \* history: the lines whose last pulse no handler has looked at

counterVars == <<start, counting, pulse>>
blockVars   == <<irq, last, latched, mask, grant, active, int>>
hostVars    == <<enabled, masked, reading>>
vars == <<counterVars, blockVars, asked, message, hostVars, unread>>

Init ==
  /\ start = {} /\ counting = {} /\ pulse = {}
  /\ irq = FALSE /\ last = FALSE /\ latched = FALSE /\ mask = FALSE
  /\ grant = FALSE /\ active = FALSE /\ int = FALSE /\ asked = FALSE
  /\ enabled = FALSE /\ masked = FALSE /\ message = FALSE
  /\ reading = {} /\ unread = {}

-----------------------------------------------------------------------------
(***************************************************************************)
(* One rising edge: every block moves from the registers as they were.     *)
(***************************************************************************)

\* Faulty variant: a counter that has pulsed goes on counting.
CountOn(done) ==
  /\ pulse' = done
  /\ counting' = counting \cup (start \ (counting \cup pulse))
  /\ start' = {}

\* The counters whose transfer ends, `done`, pulse for one cycle.  A start is
\* taken by a counter that is idle, and not by one that has just pulsed: its
\* copy of the start register is still 1.
Count(done) ==
  /\ pulse' = done
  /\ counting' = (counting \ done) \cup (start \ (counting \cup pulse))
  /\ start' = {}

\* Faulty variant: an acknowledged grant is not taken back.
ArbitrateHeld(acknowledge) == grant' = (grant \/ (latched /\ mask))

\* The arbiter holds its grant until it is acknowledged, and gives it to a
\* request that is not granted in the same cycle.
Arbitrate(acknowledge) ==
  grant' = IF grant THEN ~acknowledge ELSE latched /\ mask

\* The rising edge of the or-ed lines.
Edge == irq /\ ~last

\* Faulty variant: a request is made whether or not one is out.
WantedAgain == enabled /\ grant

\* A message is to be asked for.
Wanted == ~active /\ enabled /\ grant

Answered(answer) == active /\ answer # "none"

\* Faulty variant: a message that failed is done with too.
ClearsOnFail(answer) == Answered(answer) /\ grant

\* A message that was sent clears the latch, an edge of this cycle included; one
\* that failed leaves it.
Clears(answer) == active /\ answer = "sent" /\ grant

\* Faulty variant: the mask bit is taken the wrong way round.
MaskBit == enabled /\ masked

\* msi_irq_mask_next
Unmasked == enabled /\ ~masked

Request(answer) ==
  /\ active' = (Wanted \/ (active /\ ~Answered(answer)))
  /\ int' = Wanted
  /\ latched' = ((latched \/ Edge) /\ ~Clears(answer))
  /\ Arbitrate(Answered(answer))
  /\ mask' = Unmasked
  /\ irq' = (pulse # {})
  /\ last' = irq

\* The hard IP answers a request in a later cycle; a message that was sent may
\* meet one that has not been handled.
HardIp(answer) ==
  /\ answer # "none" => asked
  /\ asked' = (int \/ (asked /\ answer = "none"))
  /\ message' = (message \/ answer = "sent")

Clock(done, answer) ==
  /\ done \subseteq counting
  /\ Count(done)
  /\ Request(answer)
  /\ HardIp(answer)
  /\ unread' = unread \cup pulse
  /\ UNCHANGED hostVars

-----------------------------------------------------------------------------
(***************************************************************************)
(* The host.                                                               *)
(***************************************************************************)

\* A call writes the start register, after another one that may have given up.
Start(l) ==
  /\ start' = start \cup {l}
  /\ UNCHANGED <<counting, pulse, blockVars, asked, message, hostVars, unread>>

\* The handler is entered, never twice at once.
IsrEnter ==
  /\ message /\ reading = {}
  /\ message' = FALSE /\ reading' = Line
  /\ UNCHANGED <<counterVars, blockVars, asked, enabled, masked, unread>>

\* It reads the registers, in whatever order.
IsrRead(l) ==
  /\ l \in reading /\ reading' = reading \ {l}
  /\ unread' = unread \ {l}
  /\ UNCHANGED <<counterVars, blockVars, asked, enabled, masked, message>>

\* The kernel enables the MSI, masks and unmasks its vector.
Configure ==
  /\ enabled' \in BOOLEAN /\ masked' \in BOOLEAN
  /\ UNCHANGED <<counterVars, blockVars, asked, message, reading, unread>>

-----------------------------------------------------------------------------
Answer == {"none", "sent", "fail"}

Next ==
  \/ \E done \in SUBSET Line, answer \in Answer : Clock(done, answer)
  \/ \E l \in Line : Start(l) \/ IsrRead(l)
  \/ IsrEnter \/ Configure

Spec == Init /\ [][Next]_vars

\* The clock ticks, a request that is made again and again is sent in the end,
\* and the kernel runs the handler.
Fairness ==
  /\ WF_vars(\E done \in SUBSET Line, answer \in Answer : Clock(done, answer))
  /\ SF_vars(\E done \in SUBSET Line : Clock(done, "sent"))
  /\ WF_vars(IsrEnter)
  /\ \A l \in Line : WF_vars(IsrRead(l))

LiveSpec == Spec /\ Fairness

-----------------------------------------------------------------------------
(***************************************************************************)
(* Properties.                                                             *)
(***************************************************************************)

\* Every variable has its type, and a counter that pulses does not count.
TypeOK ==
  /\ {start, counting, pulse, reading, unread} \subseteq SUBSET Line
  /\ {irq, last, latched, mask, grant, active, int, asked} \subseteq BOOLEAN
  /\ {enabled, masked, message} \subseteq BOOLEAN
  /\ counting \cap pulse = {}

\* The MSI block waits if and only if the hard IP owes it an answer, and then
\* holds its grant for what is still latched: no request is made twice or for
\* nothing, none is waited for that nobody will answer, whatever the host masks
\* or disables in between (pcie_us_msi.v:124-137, arbiter.v:103).
Handshake ==
  /\ active <=> (int \/ asked)
  /\ ~(int /\ asked)
  /\ active => grant
  /\ grant => latched

\* A completion that no handler has looked at will be: its edge is still to come,
\* or latched, or its message has arrived, or the running handler has yet to
\* read its register.  The pulses of two lines may touch and make one edge, and an
\* edge in the cycle of `sent` is cleared with the one before (pcie_us_msi.v:131).
NoneForgotten ==
  unread # {} => Edge \/ latched \/ message \/ unread \subseteq reading

\* With every register access in its place, this is the interrupt the models of
\* the driver rely on.
Num(b) == IF b THEN 1 ELSE 0
Bell == INSTANCE Doorbell WITH
  Line <- Line, unread <- unread, reading <- reading,
  due <- Num(Edge) + Num(latched) + Num(message)
Rings == Bell!Spec

\* Once the vector stays enabled, every completion is read by a handler.
EveryPulseRead ==
  <>[](enabled /\ ~masked) => \A l \in Line : l \in unread ~> l \notin unread

=============================================================================
