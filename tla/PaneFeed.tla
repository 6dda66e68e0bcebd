------------------------------ MODULE PaneFeed ------------------------------
(***************************************************************************)
(* What an attached client is promised about one pane: its screen starts   *)
(* from a snapshot, then receives the pane's output once, in order, and    *)
(* without a gap except for output the server reports as dropped.          *)
(***************************************************************************)
EXTENDS Integers, Sequences

VARIABLES
  produced,  \* number of outputs the pane has produced
  shown,     \* what the client received: a snapshot's number, then outputs
  dropped    \* outputs given up because the client is too slow

vars == <<produced, shown, dropped>>

Init ==
  /\ produced = 0
  /\ shown = << >>
  /\ dropped = {}

Produce ==
  /\ produced' = produced + 1
  /\ UNCHANGED <<shown, dropped>>

\* The snapshot contains outputs 1..n.
Snapshot ==
  /\ shown = << >>
  /\ \E n \in 0..produced : shown' = <<n>>
  /\ UNCHANGED <<produced, dropped>>

Drop ==
  /\ \E n \in 1..produced : dropped' = dropped \cup {n}
  /\ UNCHANGED <<produced, shown>>

Deliver ==
  /\ shown # << >>
  /\ LET last == shown[Len(shown)] IN
       \E n \in (last + 1)..produced :
         /\ (last + 1)..(n - 1) \subseteq dropped
         /\ shown' = Append(shown, n)
  /\ UNCHANGED <<produced, dropped>>

Next == Produce \/ Snapshot \/ Drop \/ Deliver

Spec == Init /\ [][Next]_vars
=============================================================================
