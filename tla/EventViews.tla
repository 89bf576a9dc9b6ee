------------------------------ MODULE EventViews ------------------------------
(***************************************************************************)
(* The tabs of the session page over one list of events                    *)
(* (pages/session-detail, lib/tool-pairing.ts, lib/event-io.ts): the       *)
(* transcript filters by category and the debug tab by type, each merges   *)
(* what is then adjacent, an event selected in one is looked up among the  *)
(* groups of the other, and a tool's use and result are shown together.    *)
(***************************************************************************)
EXTENDS Integers, FiniteSets, Sequences

CONSTANTS MaxEvents,  \* bound: events of the list
          Plain,      \* kinds of the events no tool is part of
          None

VARIABLES ui, srv, left

On == ui.page = "events"

-----------------------------------------------------------------------------
(***************************************************************************)
(* Events: an event's id is its place in the log.                          *)
(***************************************************************************)
Uses == {"tool_use", "custom_tool_use", "mcp_tool_use"}
Results == {"tool_result", "mcp_tool_result", "custom_tool_result"}
Threads == {"primary", "child"}

Ev(kind, ref, thread) == [kind |-> kind, ref |-> ref, thread |-> thread]

\* What may answer a use; a reply of the operator is stored twice, as the reply
\* and as the tool's result.
Answers(kind) ==
  CASE kind = "tool_use" -> {<<"tool_result">>}
    [] kind = "mcp_tool_use" -> {<<"mcp_tool_result">>}
    [] OTHER -> {<<"tool_result">>, <<"custom_tool_result", "tool_result">>}

categorizeEvent(e) ==
  CASE e.kind = "user" -> "user"
    [] e.kind \in {"message", "thinking"} -> "agent"
    [] e.kind \in Uses \cup Results -> "tool"
    [] e.kind = "error" -> "error"
    [] OTHER -> "system"
Categories == {"user", "agent", "tool", "error", "system"}

isDefaultHidden(kind) == kind = "span.model_request_end"

\* A list of events is the set of their ids: every list is in the order of the log.
OfThread(th) == {i \in DOMAIN srv.log : srv.log[i].thread = th}

-----------------------------------------------------------------------------
(***************************************************************************)
(* Groups: runs of adjacent messages are one row.                          *)
(***************************************************************************)
Messages(ids) == {i \in ids : srv.log[i].kind = "message"}

\* What lies between two events of a list, both included.
Between(ids, i, j) == {k \in ids : (i <= k /\ k <= j) \/ (j <= k /\ k <= i)}

\* The row of an event: nothing that is no message is between it and another.
Row(ids, i) ==
  {j \in ids : j = i \/ Between(ids, i, j) \subseteq Messages(ids)}

mergeConsecutiveAgentEvents(ids) == {Row(ids, i) : i \in ids}

First(g) == CHOOSE i \in g : \A j \in g : i <= j

\* The test for a paired result looks the id of the use up among the ids of the
\* results, and so finds none.
TranscriptVisible(u) ==
  {i \in OfThread(u.thread) : /\ srv.log[i].kind # "idle"
                             /\ categorizeEvent(srv.log[i]) \in u.categories}

filterDebugEvents(u) ==
  {i \in OfThread(u.thread) : IF u.types = {} THEN ~isDefaultHidden(srv.log[i].kind)
                              ELSE srv.log[i].kind \in u.types}

TranscriptRows(u) == mergeConsecutiveAgentEvents(TranscriptVisible(u))
DebugRows(u) == mergeConsecutiveAgentEvents(filterDebugEvents(u))

\* Slip: a row is found by its first event only.
SelectedByFirst(rows, id) ==
  IF id # None /\ \E g \in rows : First(g) = id
  THEN CHOOSE g \in rows : First(g) = id ELSE {}

\* The row of the selected event: the group it is a member of.
selectedDisplayEvent(rows, id) ==
  IF id # None /\ \E g \in rows : id \in g
  THEN CHOOSE g \in rows : id \in g ELSE {}

-----------------------------------------------------------------------------
(***************************************************************************)
(* Pairing.                                                                *)
(***************************************************************************)
getToolCallId(i) == IF srv.log[i].kind \in Uses THEN i ELSE srv.log[i].ref

\* The later of two results replaces the earlier one.
ResultFor(ids, n) ==
  LET answers == {i \in ids : srv.log[i].kind \in Results /\ getToolCallId(i) = n}
  IN IF answers = {} THEN None ELSE CHOOSE i \in answers : \A j \in answers : j <= i

pairToolResults(ids) ==
  [uses |-> {i \in ids : srv.log[i].kind \in Uses},
   results |-> [n \in DOMAIN srv.log |-> ResultFor(ids, n)]]

resolveToolPair(i, pairing) ==
  IF srv.log[i].kind \in Uses THEN [use |-> i, result |-> pairing.results[i]]
  ELSE [use |-> IF getToolCallId(i) \in pairing.uses THEN getToolCallId(i) ELSE None,
        result |-> i]

\* What the pane of the debug tab shows of the selected event: of a tool, what
\* went in and what came out; of anything else, the event itself.
EventDetail(u) ==
  LET row == selectedDisplayEvent(DebugRows(u), u.debug)
  IN IF row = {} THEN None
     ELSE IF srv.log[u.debug].kind \in Uses \cup Results
     THEN resolveToolPair(u.debug, pairToolResults(OfThread(u.thread)))
     ELSE [use |-> None, result |-> u.debug]

-----------------------------------------------------------------------------
Fresh == [page |-> "events", tab |-> "transcript", thread |-> "primary",
          categories |-> Categories \ {"system"}, types |-> {},
          selected |-> None, debug |-> None, mode |-> "rendered", jumped |-> None]

Init == ui = Fresh /\ srv = [log |-> <<>>]

Do(u) == ui' = u /\ left > 0 /\ left' = left - 1

\* What follows a jump no longer is one.
Move(u) == Do([u EXCEPT !.jumped = None])

Appended(es) ==
  /\ On /\ Len(srv.log) + Len(es) <= MaxEvents
  /\ srv' = [srv EXCEPT !.log = @ \o es]
  /\ UNCHANGED <<ui, left>>

\* The harness, or another client, adds to the log.
Emit ==
  \/ \E k \in Plain \cup Uses : Appended(<<Ev(k, None, "primary")>>)
  \/ Appended(<<Ev("message", None, "child")>>)

Answer ==
  On /\ \E i \in DOMAIN srv.log :
    /\ srv.log[i].kind \in Uses
    /\ \E ks \in Answers(srv.log[i].kind) :
         Appended([k \in DOMAIN ks |-> Ev(ks[k], i, srv.log[i].thread)])

\* The ViewTabs: the tab that is left loses its filter and its pane's mode.
ViewTab ==
  /\ On
  /\ \E t \in {"transcript", "debug", "timeline"} \ {ui.tab} :
       Move([ui EXCEPT !.tab = t, !.categories = Fresh.categories, !.types = {},
                       !.mode = "rendered"])
  /\ UNCHANGED srv

ThreadTree ==
  /\ On /\ \E i \in DOMAIN srv.log : srv.log[i].thread = "child"
  /\ \E th \in Threads \ {ui.thread} : Move([ui EXCEPT !.thread = th])
  /\ UNCHANGED srv

toggleCategory ==
  /\ On /\ ui.tab = "transcript"
  /\ \E c \in Categories :
       Move([ui EXCEPT !.categories = IF c \in @ THEN @ \ {c} ELSE @ \cup {c}])
  /\ UNCHANGED srv

TypesOf(u) == {srv.log[i].kind : i \in OfThread(u.thread)}

toggleType ==
  /\ On /\ ui.tab = "debug"
  /\ \E k \in TypesOf(ui) :
       Move([ui EXCEPT !.types =
               IF @ # {} THEN IF k \in @ THEN @ \ {k} ELSE @ \cup {k}
               ELSE IF isDefaultHidden(k)
               THEN {x \in TypesOf(ui) : ~isDefaultHidden(x)} \cup {k}
               ELSE {k}])
  /\ UNCHANGED srv

ResetFilter ==
  /\ On /\ ui.tab = "debug" /\ ui.types # {} /\ Move([ui EXCEPT !.types = {}])
  /\ UNCHANGED srv

ShowAllTypes ==
  /\ On /\ ui.tab = "debug" /\ \E k \in TypesOf(ui) : isDefaultHidden(k)
  /\ Move([ui EXCEPT !.types = TypesOf(ui)])
  /\ UNCHANGED srv

\* A click selects the first event of the row's group.
TranscriptRow ==
  /\ On /\ ui.tab = "transcript"
  /\ \E g \in TranscriptRows(ui) : Move([ui EXCEPT !.selected = First(g)])
  /\ UNCHANGED srv

DebugRow ==
  /\ On /\ ui.tab = "debug"
  /\ \E g \in DebugRows(ui) : Move([ui EXCEPT !.debug = First(g)])
  /\ UNCHANGED srv

Pane(u) == IF u.tab = "transcript"
           THEN selectedDisplayEvent(TranscriptRows(u), u.selected) # {}
           ELSE u.tab = "debug" /\ EventDetail(u) # None

EventDetailPane ==
  /\ On /\ Pane(ui)
  /\ \/ Move([ui EXCEPT !.mode = IF @ = "raw" THEN "rendered" ELSE "raw"])
     \/ ui.tab = "transcript" /\ Move([ui EXCEPT !.selected = None])
     \/ ui.tab = "debug" /\ Move([ui EXCEPT !.debug = None])
  /\ UNCHANGED srv

\* View in Debug, on the first event of the selected group.
scrollToDebugEvent ==
  /\ On /\ ui.tab = "transcript" /\ Pane(ui)
  /\ LET i == First(selectedDisplayEvent(TranscriptRows(ui), ui.selected))
     IN Do([ui EXCEPT !.tab = "debug", !.debug = i, !.jumped = i,
                      !.categories = Fresh.categories, !.types = {},
                      !.mode = "rendered"])
  /\ UNCHANGED srv

Next ==
  \/ Emit \/ Answer \/ ViewTab \/ ThreadTree \/ toggleCategory \/ toggleType
  \/ ResetFilter \/ ShowAllTypes \/ TranscriptRow \/ DebugRow \/ EventDetailPane
  \/ scrollToDebugEvent

-----------------------------------------------------------------------------
\* EventDetail.tsx, View in Debug: an event selected in the transcript is the one
\* the debug tab shows, though the tabs group the messages differently and more
\* events arrive meanwhile; only what that tab hides by default is not.
JumpShowsEvent ==
  ui.page = "events" /\ ui.jumped # None /\ ~isDefaultHidden(srv.log[ui.jumped].kind) =>
    ui.jumped \in selectedDisplayEvent(DebugRows(ui), ui.debug)

\* DebugTab.tsx: selecting either side shows both.  A result comes with the use
\* it answers, whichever of the three wire forms it has, and a use with an answer
\* of its own once there is one.
BothSidesShown ==
  LET d == EventDetail(ui)
  IN ui.page = "events" /\ d # None =>
       LET e == srv.log[ui.debug]
       IN /\ e.kind \in Results => d.use = e.ref
          /\ e.kind \in Uses =>
               \/ d.result # None /\ srv.log[d.result].ref = ui.debug
               \/ /\ d.result = None
                  /\ \A i \in DOMAIN srv.log : srv.log[i].ref # ui.debug

\* DebugTab.tsx: the pane shows the event that was selected, with its other side.
DebugShowsEvent == JumpShowsEvent /\ BothSidesShown
=============================================================================
