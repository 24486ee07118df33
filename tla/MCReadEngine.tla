---------------------------- MODULE MCReadEngine ----------------------------
(***************************************************************************)
(* Instances of ReadEngine for TLC.                                        *)
(***************************************************************************)
EXTENDS ReadEngine

\* One short read; a full and a short one; more reads than tags, and more
\* words than the output FIFO and its register hold.
ThreeLengths == {1, 3, 9}

=============================================================================
