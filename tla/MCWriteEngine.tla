---------------------------- MODULE MCWriteEngine ----------------------------
(***************************************************************************)
(* An instance of WriteEngine for TLC.                                     *)
(***************************************************************************)
EXTENDS WriteEngine

\* A single word; a full packet; more than the output FIFO and its register.
ThreeLengths == {1, 4, 11}

BothBuilds == {"Block_DMA", "Scatter_Gather"}

\* 128 and 256 bytes.
TwoPayloads == {0, 1}

\* Two transfers, with or without an empty entry behind each of them.
TwoTransfers ==
  LET lengths == ThreeLengths
  IN {<<m, n>> : m, n \in lengths} \cup {<<m, 0, n, 0>> : m, n \in lengths}

=============================================================================
