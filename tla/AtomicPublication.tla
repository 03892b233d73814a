-------------------------- MODULE AtomicPublication --------------------------
(* What the rest of the program sees of a task's generations: a next one   *)
(* is published as a whole, may be taken back until it is acknowledged,    *)
(* and is never lost after that.                                           *)
EXTENDS Naturals

CONSTANT MaxGenerations

VARIABLES
    acknowledged,   \* generations every later process works from
    ahead           \* one more is published and not acknowledged yet

pubVars == <<acknowledged, ahead>>

Init == acknowledged = 0 /\ ahead = FALSE

Publish ==
    /\ ~ahead /\ acknowledged < MaxGenerations
    /\ ahead' = TRUE /\ UNCHANGED acknowledged

TakeBack == ahead /\ ahead' = FALSE /\ UNCHANGED acknowledged

Acknowledge == ahead /\ ahead' = FALSE /\ acknowledged' = acknowledged + 1

Next == Publish \/ TakeBack \/ Acknowledge

Spec == Init /\ [][Next]_pubVars
=============================================================================
