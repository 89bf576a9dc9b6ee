---------------------------- MODULE MCSessionLane ----------------------------
(* Instances of SessionLane: which requests the clients send, on which thread. *)
EXTENDS SessionLane

CONSTANTS m1, m2, a1, c1, i1, primary, sub

OneThread  == [r \in Requests |-> primary]
\* The second message is for a sub-agent's thread.
TwoThreads == [r \in Requests |-> IF r = m2 THEN sub ELSE primary]
\* The interrupt is for a sub-agent's thread.
StopsSub   == [r \in Requests |-> IF r = i1 THEN sub ELSE primary]
=============================================================================
