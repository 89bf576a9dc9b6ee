--------------------------- MODULE MCOutcomeLoop ---------------------------
(* Instances of OutcomeLoop: the maxima of two outcomes. *)
EXTENDS OutcomeLoop, TLC

CONSTANTS o1, o2

MaxOfTwo == o1 :> 2 @@ o2 :> 1
=============================================================================
