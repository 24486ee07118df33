----------------------------- MODULE MCBlockDma -----------------------------
(***************************************************************************)
(* Instances of BlockDma for TLC.                                          *)
(***************************************************************************)
EXTENDS BlockDma

CONSTANTS t1, t2

\* One thread per direction, as two tools that transfer at the same time.
OnePerChan == [t \in Thread |-> IF t = t1 THEN {"c2h"} ELSE {"h2c"}]

TwoCalls == [t \in Thread |-> 2]
TwoThenOne == [t \in Thread |-> IF t = t1 THEN 2 ELSE 1]

=============================================================================
