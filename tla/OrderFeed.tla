------------------------------ MODULE OrderFeed ------------------------------
(***************************************************************************)
(* What the order event feed of a branch promises: events are numbered 1,   *)
(* 2, 3 ... without a hole in the order in which they become visible, and   *)
(* a kitchen display is handed each of them once, in that order.            *)
(***************************************************************************)
EXTENDS Integers, Sequences

VARIABLES
  published,   \* sequence numbers of the committed events
  delivered    \* sequence numbers handed to the display, in the order it gets them

vars == <<published, delivered>>

Gapless(S) == \E n \in S \cup {0} : S = 1 .. n

Init == published = {} /\ delivered = << >>

Publish ==
  /\ published \subseteq published' /\ published' # published
  /\ Gapless(published')
  /\ UNCHANGED delivered

(* Each once, in order: after n of them the display was handed 1, ..., n. *)
Deliver ==
  /\ \E n \in published :
       n > Len(delivered) /\ 1 .. n \subseteq published /\ delivered' = [k \in 1 .. n |-> k]
  /\ UNCHANGED published

Next == Publish \/ Deliver

Spec == Init /\ [][Next]_vars
=============================================================================
