------------------------------ MODULE Doorbell ------------------------------
(***************************************************************************)
(* What the driver needs of the card's interrupt: after every completion   *)
(* the handler runs from its beginning once more, and reads every status   *)
(* register.  How many runs several completions make is left open.         *)
(* BlockDma and SgDma raise their MSI this way.                            *)
(***************************************************************************)
EXTENDS Naturals

CONSTANT Line  \* the completion lines

VARIABLES
  unread,   \* the lines whose last completion no handler has looked at
  due,      \* how often the handler is still to be entered
  reading   \* the registers the running handler has still to read

vars == <<unread, due, reading>>

Init == unread = {} /\ due = 0 /\ reading = {}

\* Completions: a run more, or one with a run that is due already.
Ring(lines) ==
  /\ unread' = unread \cup lines
  /\ due' \in 1..due + 1
  /\ UNCHANGED reading

\* Two runs that are due become one.
Merge ==
  /\ due > 1 /\ due' \in 1..due - 1
  /\ UNCHANGED <<unread, reading>>

Enter ==
  /\ due > 0 /\ due' = due - 1
  /\ reading = {} /\ reading' = Line
  /\ UNCHANGED unread

Read(l) ==
  /\ l \in reading /\ reading' = reading \ {l}
  /\ unread' = unread \ {l}
  /\ UNCHANGED due

Next ==
  \/ \E lines \in (SUBSET Line) \ {{}} : Ring(lines)
  \/ Merge \/ Enter
  \/ \E l \in Line : Read(l)

Spec == Init /\ [][Next]_vars

=============================================================================
