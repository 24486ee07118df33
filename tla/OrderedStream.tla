---------------------------- MODULE OrderedStream ----------------------------
(***************************************************************************)
(* What the read engine promises to its user and the write engine to the   *)
(* host: the words of every transfer asked for, once each, in order, the   *)
(* last one marked.                                                        *)
(***************************************************************************)
EXTENDS Naturals, Sequences, FiniteSets

CONSTANT Lengths  \* the lengths, in words, a transfer may have

VARIABLES
  asked,  \* the words of all transfers asked for so far, in order
  got     \* the words delivered so far, in order

\* The words of the k-th transfer when it is n words long.
Words(k, n) == [i \in 1..n |-> [transfer |-> k, index |-> i, last |-> i = n]]

\* How many transfers a sequence of words asks for.
Transfers(s) == Cardinality({i \in DOMAIN s : s[i].last})

Init == asked = <<>> /\ got = <<>>

Ask(n) ==
  /\ got = asked
  /\ asked' = asked \o Words(Transfers(asked) + 1, n)
  /\ UNCHANGED got

Deliver ==
  /\ Len(got) < Len(asked)
  /\ got' = Append(got, asked[Len(got) + 1])
  /\ UNCHANGED asked

Next == (\E n \in Lengths : Ask(n)) \/ Deliver

Spec == Init /\ [][Next]_<<asked, got>>

=============================================================================
