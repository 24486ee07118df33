------------------------------- MODULE MCSgDma -------------------------------
(***************************************************************************)
(* Instances of SgDma for TLC.                                             *)
(***************************************************************************)
EXTENDS SgDma

UpTo(n) == [Chan -> 0..n]

\* Both directions at the same time.
OneEach == UpTo(1)

\* Call after call on one direction, the other is not used.
ThreeAlone == {v \in UpTo(3) : \E c \in Chan : v[c] = 0}

OneEachOrThreeAlone == OneEach \cup ThreeAlone

=============================================================================
