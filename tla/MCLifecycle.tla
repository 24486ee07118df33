----------------------------- MODULE MCLifecycle -----------------------------
(***************************************************************************)
(* Instances of Lifecycle for TLC.                                         *)
(***************************************************************************)
EXTENDS Lifecycle

CONSTANTS d1, d2

\* One device may come back after it was removed or its probe failed.
TwiceAndOnce == [d \in Device |-> IF d = d1 THEN 2 ELSE 1]

=============================================================================
