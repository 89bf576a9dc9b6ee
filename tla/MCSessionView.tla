---------------------------- MODULE MCSessionView ----------------------------
(* Instances of SessionView: sessions with a past, opened one after the other. *)
EXTENDS SessionView

CONSTANTS s1, s2, m1, t1, c1

After(es, where, n) == [log |-> es, turn |-> where, limit |-> n]

Posted   == <<Event("user", None)>>
Asking   == Append(Posted, Event("running", None))
Using    == Append(Asking, Event("tool_use", t1))
Waiting  == Append(Using, Event("idle", {t1}))

\* The server was restarted in the middle of a turn.
CutOff   == After(Asking, "rest", 3)

Opened == [s \in Sessions |->
  IF s = s1
  THEN {After(Posted, "rest", 3), After(Waiting, "rest", 5),
        After(Append(Asking, Event("think_chunk", None)), "thinking", 4),
        CutOff}
  ELSE {After(Append(Asking, Event("idle", {})), "rest", 3)}]

OneByOne == {{"history"}, {"pending"}, {"threads"}, {"tools"}}
=============================================================================
