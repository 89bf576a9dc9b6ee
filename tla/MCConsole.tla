------------------------------ MODULE MCConsole ------------------------------
(* The instances of Console that are checked: small sets for every page. *)
EXTENDS Console, TLC

CONSTANTS r1, r2

PageSteps ==
  [agent_form |-> 2,
   prompt |-> 4,
   session_form |-> 5,
   vault |-> 5,
   skills |-> 4,
   publish |-> 6,
   bind |-> 7,
   login |-> 5,
   memory |-> 3,
   environment |-> 3,
   list |-> 2,
   events |-> 3,
   workspace |-> 5,
   account |-> 5,
   evals |-> 5,
   team |-> 3]

AllPages == DOMAIN PageSteps

\* Paths and contents are only compared.
Symmetry == Permutations(Paths) \cup Permutations(Contents)

\* One of two runtimes reports an agent.
DetectedOf == [r \in {r1, r2} |-> IF r = r1 THEN <<"codex">> ELSE <<>>]

\* A configuration pasted as text names no harness, a gateway under "managed" as old rows
\* do, something else there, a gateway beside an agent, or acp-proxy without a runtime.
PastedOf ==
  LET old(a) == {[AF!NoBinding EXCEPT !.agent = {a}]}
      acp == {[AF!NoBinding EXCEPT !.acp_agent_id = {"codex"},
                                   !.local_skill_blocklist = {{"l1"}}]}
  IN {{}} \cup {{[harness |-> "managed", binding |-> old(a)]} : a \in {"hermes", "other"}}
          \cup {{[harness |-> h, binding |-> acp]} : h \in {"hermes", "acp-proxy"}}
=============================================================================
