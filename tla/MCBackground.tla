---------------------------- MODULE MCBackground ----------------------------
(* The instance of Background that is checked. *)
EXTENDS Background

\* Two tasks of one trial each.
Tasks == <<1, 2>>
=============================================================================
