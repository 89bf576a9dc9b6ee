----------------------------- MODULE SessionForm -----------------------------
(***************************************************************************)
(* The dialog of the sessions page that starts a session                   *)
(* (pages/SessionsList.tsx): agent, environment, vaults and resources, the *)
(* two effects that fetch what the warning about unauthenticated MCP       *)
(* servers is computed from, and the POST of /v1/sessions.                 *)
(***************************************************************************)
EXTENDS Naturals, Sequences, FiniteSets, SequencesExt

CONSTANTS
  Agents,      \* agents; LocalAgents of them run on a registered runtime
  LocalAgents,
  Vaults,
  MaxRows,     \* bound: resources in the form
  None

VARIABLES ui, srv, left

On == ui.page = "session_form"

ResourceKinds == {"github", "file", "memory_store", "env"}
Secrets == {"github", "env"}

\* Rows are named by a number; a row is filled in or blank.
blankResource(kind, id) == [id |-> id, kind |-> kind, filled |-> FALSE]

INITIAL_FORM_VALUES ==
  [agent |-> None, env |-> FALSE, vaults |-> {}, resources |-> <<>>]

Init ==
  /\ ui = [page |-> "session_form", open |-> FALSE, form |-> INITIAL_FORM_VALUES,
           detail |-> None, mcp |-> None, hosts |-> {}, loaded |-> FALSE,
           revealed |-> {}, asked |-> {}, local |-> FALSE, submitting |-> FALSE,
           rows |-> 0]
  /\ srv = [agent |-> None, vaults |-> {}, late |-> {}, posts |-> {}, sessions |-> {}]

-----------------------------------------------------------------------------
(***************************************************************************)
(* Effects.  srv.agent and srv.vaults are the requests whose answers still *)
(* count; an effect that runs again cancels its request, whose answer is   *)
(* late and has no effect.                                                 *)
(***************************************************************************)
selectedAgent(u) ==
  IF u.detail = u.form.agent THEN u.detail ELSE IF u.loaded THEN u.form.agent ELSE None

isLocalRuntime(u) == selectedAgent(u) \in LocalAgents

\* The resolver reads a ref that every render brings up to date.
Rendered(u, was) == [u EXCEPT !.local = isLocalRuntime(u)]

\* Slip: the request of the agent before is not cancelled.
AgentEffectBlind(u, was, s) ==
  IF u.form.agent = was.form.agent THEN s
  ELSE [s EXCEPT !.agent = IF @ # None THEN @ ELSE u.form.agent]

AgentEffect(u, was, s) ==
  IF u.form.agent = was.form.agent THEN s
  ELSE [s EXCEPT !.agent = u.form.agent,
                 !.late = IF s.agent = None THEN @ ELSE @ \cup {s.agent}]

Missing(u) == u.form.vaults \ u.hosts

VaultEffect(u, was, s) ==
  IF u.form.vaults = was.form.vaults /\ u.hosts = was.hosts THEN s
  ELSE [s EXCEPT !.vaults = Missing(u)]

\* A change of state, the render after it and the effects of the render.
Set(u, s) ==
  LET w == IF u.form.agent = None THEN [u EXCEPT !.mcp = None] ELSE u
      v == Rendered(w, ui)
  IN /\ ui' = v
     /\ srv' = VaultEffect(v, ui, AgentEffect(v, ui, s))

Do(u) == left > 0 /\ left' = left - 1 /\ Set(u, srv)

AgentAnswer ==
  /\ On /\ srv.agent # None
  /\ \/ Set([ui EXCEPT !.mcp = srv.agent], [srv EXCEPT !.agent = None])
     \/ Set([ui EXCEPT !.mcp = None], [srv EXCEPT !.agent = None])
  /\ UNCHANGED left

LateAnswer ==
  /\ On
  /\ \E a \in srv.late : srv' = [srv EXCEPT !.late = @ \ {a}]
  /\ UNCHANGED <<ui, left>>

\* A vault whose credentials cannot be read counts as one without any.
VaultAnswer ==
  /\ On /\ srv.vaults # {}
  /\ Set([ui EXCEPT !.hosts = @ \cup srv.vaults], [srv EXCEPT !.vaults = {}])
  /\ UNCHANGED left

loadAux ==
  /\ On /\ ~ui.loaded
  /\ Set([ui EXCEPT !.loaded = TRUE], srv)
  /\ UNCHANGED left

-----------------------------------------------------------------------------
(***************************************************************************)
(* The dialog.                                                             *)
(***************************************************************************)
Cleared(u) ==
  [u EXCEPT !.form = INITIAL_FORM_VALUES, !.detail = None, !.mcp = None,
            !.hosts = {}, !.revealed = {}, !.asked = {}, !.submitting = FALSE]

closeModal(u) == [Cleared(u) EXCEPT !.open = FALSE]

\* The first agent and environment are chosen, once they have been read.
openModal ==
  /\ On /\ ~ui.open
  /\ \E a \in Agents :
       Set([Cleared(ui) EXCEPT !.open = TRUE,
              !.form.agent = IF ui.loaded THEN a ELSE None,
              !.form.env = ui.loaded], srv)
  /\ UNCHANGED left

Close == On /\ ui.open /\ Do(closeModal(ui))

AgentCombobox ==
  \E a \in Agents : On /\ ui.open /\ Do([ui EXCEPT !.form.agent = a, !.detail = a])

\* Hidden while the agent runs on a runtime; what was chosen stays chosen.
EnvironmentCombobox ==
  \E e \in BOOLEAN :
    On /\ ui.open /\ ~isLocalRuntime(ui) /\ Do([ui EXCEPT !.form.env = e])

toggleVault ==
  \E v \in Vaults :
    On /\ ui.open
       /\ Do([ui EXCEPT !.form.vaults = IF v \in @ THEN @ \ {v} ELSE @ \cup {v}])

addResource ==
  \E k \in ResourceKinds :
    /\ On /\ ui.open /\ Len(ui.form.resources) < MaxRows
    /\ Do([ui EXCEPT !.form.resources = Append(@, blankResource(k, ui.rows + 1)),
                     !.rows = @ + 1, !.revealed = {}, !.asked = {}])

Fill(k) ==
  \E i \in (IF On THEN DOMAIN ui.form.resources ELSE {}) :
    /\ ui.form.resources[i].kind = k /\ ~ui.form.resources[i].filled
    /\ Do([ui EXCEPT !.form.resources[i].filled = TRUE])

\* Each kind of row has its own fields; filled means those it is sent with.
FillGithub      == Fill("github")
FillFile        == Fill("file")
FillMemoryStore == Fill("memory_store")
FillEnv         == Fill("env")

removeResource(u, i) ==
  [u EXCEPT !.form.resources = RemoveAt(@, i), !.revealed = {}, !.asked = {}]

RemoveRow ==
  \E i \in (IF On THEN DOMAIN ui.form.resources ELSE {}) : Do(removeResource(ui, i))

\* The key of a revealed field is the index of its row.
toggleReveal ==
  \E i \in (IF On THEN DOMAIN ui.form.resources ELSE {}) :
    LET r == ui.form.resources[i]
    IN /\ r.kind \in Secrets /\ r.filled
       /\ Do(IF i \in ui.revealed
             THEN [ui EXCEPT !.revealed = @ \ {i}, !.asked = @ \ {r.id}]
             ELSE [ui EXCEPT !.revealed = @ \cup {i}, !.asked = @ \cup {r.id}])

-----------------------------------------------------------------------------
(***************************************************************************)
(* The POST.                                                               *)
(***************************************************************************)
Valid(u) ==
  /\ u.form.agent # None
  /\ u.local \/ u.form.env
  /\ \A i \in DOMAIN u.form.resources :
       u.form.resources[i].kind = "github" => u.form.resources[i].filled

\* Rows left blank are skipped.
Body(u) == [agent |-> u.form.agent, env |-> u.form.env, vaults |-> u.form.vaults,
            resources |-> SelectSeq(u.form.resources, LAMBDA r : r.filled)]

onSubmit ==
  /\ On /\ ui.open /\ Valid(ui) /\ ~ui.submitting /\ left > 0
  /\ ui' = [ui EXCEPT !.submitting = TRUE]
  /\ srv' = [srv EXCEPT !.posts = @ \cup {Body(ui)}]
  /\ left' = left - 1

\* The dialog as it is now is closed, whichever POST is answered.
Created ==
  \E b \in (IF On THEN srv.posts ELSE {}) :
    /\ ui' = [closeModal(ui) EXCEPT !.page = "session"]
    /\ srv' = [srv EXCEPT !.posts = @ \ {b}, !.sessions = @ \cup {b}]
    /\ UNCHANGED left

\* 402 leaves for the billing page; any other failure leaves the dialog open.
NoBalance ==
  \E b \in (IF On THEN srv.posts ELSE {}) :
    /\ ui' = [closeModal(ui) EXCEPT !.page = "billing"]
    /\ srv' = [srv EXCEPT !.posts = @ \ {b}]
    /\ UNCHANGED left

CreateFails ==
  \E b \in (IF On THEN srv.posts ELSE {}) :
    /\ ui' = [ui EXCEPT !.submitting = FALSE]
    /\ srv' = [srv EXCEPT !.posts = @ \ {b}]
    /\ UNCHANGED left

Next ==
  \/ AgentAnswer \/ LateAnswer \/ VaultAnswer \/ loadAux
  \/ openModal \/ Close \/ AgentCombobox \/ EnvironmentCombobox \/ toggleVault
  \/ addResource \/ FillGithub \/ FillFile \/ FillMemoryStore \/ FillEnv \/ RemoveRow \/ toggleReveal
  \/ onSubmit \/ Created \/ NoBalance \/ CreateFails

-----------------------------------------------------------------------------
\* Once no request counts any more, the warning about MCP servers is computed
\* from the servers of the agent in the form, whatever was answered late.
McpOfAgent == On /\ srv.agent = None => ui.mcp \in {None, ui.form.agent}

\* A secret is in clear only in a row the user asked to see.
OnlyAskedRevealed ==
  On => \A i \in ui.revealed \cap DOMAIN ui.form.resources :
          ui.form.resources[i].id \in ui.asked

\* SessionsList.tsx: the dialog follows its user, whose clicks answers overtake.
FormFollowsUser == McpOfAgent /\ OnlyAskedRevealed
=============================================================================
