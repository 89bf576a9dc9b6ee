--------------------------- MODULE MCLaneRegistry ---------------------------
(* Instances of LaneRegistry: the callers that meet in one session. *)
EXTENDS LaneRegistry
=============================================================================
