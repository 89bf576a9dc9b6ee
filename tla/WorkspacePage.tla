---------------------------- MODULE WorkspacePage ----------------------------
(***************************************************************************)
(* The pages of the connected workspaces (integrations/pages): the list of *)
(* installations with the installs in progress, the page of one workspace  *)
(* with its publication's card and autopilot rules, and the installation   *)
(* by a personal key.  Beside them the publication rows of the server      *)
(* (store/integrations*.go), which an administrator and the provider's     *)
(* callback (installbridge) go on changing.                                *)
(***************************************************************************)
EXTENDS Integers, FiniteSets

CONSTANTS Pubs,         \* publications; an installation is named after its own
          Caps,         \* capabilities
          MaxRequests,  \* bound: loads in flight
          MaxRules,     \* bound: autopilot rules
          None

VARIABLES ui, srv, left

On == ui.page = "workspace"
AtView(v) == On /\ ui.view = v
Names == {"given", "edited", ""}
Labels == {"none", "bot-ready"}
States == {"", ",", "Todo"}

-----------------------------------------------------------------------------
(***************************************************************************)
(* The server's rows.                                                      *)
(***************************************************************************)
Pending == {"pending_setup", "credentials_filled", "awaiting_install"}

ListedPending == {p \in Pubs : srv.pubs[p].status \in Pending /\ ~srv.pubs[p].gone}

\* Publications of installation i.
ListedOf(i) ==
  {p \in Pubs : srv.pubs[p].inst = i /\ ~srv.pubs[p].gone}

\* Slip: a publication taken down meanwhile is bound all the same.
BindAnyway(p) ==
  srv' = [srv EXCEPT !.oauth[p] = None, !.pubs[p].status = "live", !.pubs[p].inst = p]

\* A row that has been taken down is left as it is.
BindPublication(p) ==
  srv' = [srv EXCEPT !.oauth[p] = None,
            !.pubs[p] = IF @.gone THEN @ ELSE [@ EXCEPT !.status = "live", !.inst = p]]

SetPublicationCredentials(p) ==
  srv' = [srv EXCEPT !.submit[p] = FALSE, !.creds = @ \cup {p},
            !.pubs[p] = IF @.gone THEN @ ELSE [@ EXCEPT !.status = "awaiting_install"]]

MarkUnpublished(p) == [srv EXCEPT !.pubs[p].status = "unpublished", !.pubs[p].gone = TRUE]

HasFilter(rule) == rule.label # "none" \/ rule.states # {}

\* The card's changes, persona and capabilities one after the other.
UpdatePersona(p, name) == [srv EXCEPT !.pubs[p].name = name]
UpdateCapabilities(p, caps) == [srv EXCEPT !.pubs[p].caps = caps]

-----------------------------------------------------------------------------
(***************************************************************************)
(* What the page keeps.                                                    *)
(***************************************************************************)
NoCard == [open |-> FALSE, caps |-> {}, name |-> "", call |-> "none"]
CardOf(p) == [open |-> FALSE, caps |-> srv.pubs[p].caps, name |-> srv.pubs[p].name,
              call |-> "none"]
NoForm == [shown |-> FALSE, label |-> "bot-ready", states |-> "Todo"]
NoPat == [agent |-> FALSE, env |-> FALSE, name |-> "", edited |-> FALSE, key |-> FALSE,
          working |-> FALSE]

Init ==
  /\ srv = [pubs |-> [p \in Pubs |-> [status |-> "pending_setup", gone |-> FALSE,
                                      inst |-> None, caps |-> Caps, name |-> "given"]],
            submit |-> [p \in Pubs |-> FALSE], oauth |-> [p \in Pubs |-> None],
            creds |-> {}, installs |-> {}, rules |-> [r \in {} |-> None]]
  /\ \E pr \in {"slack", "github", "linear"} :
       ui = [page |-> "workspace", provider |-> pr, view |-> "list", id |-> None,
             loads |-> {[step |-> "asked", installs |-> {}, pending |-> {}, pubs |-> {}]},
             items |-> {}, pubs |-> {}, pending |-> {}, card |-> NoCard,
             rules |-> None, form |-> NoForm, pat |-> NoPat]

Do(u) == ui' = u /\ left > 0 /\ left' = left - 1
See(u) == ui' = u /\ UNCHANGED left

Blank == [step |-> "asked", installs |-> {}, pending |-> {}, pubs |-> {}]
Load(u) == [u EXCEPT !.loads = IF Cardinality(@) < MaxRequests THEN @ \cup {Blank} ELSE @]

-----------------------------------------------------------------------------
(***************************************************************************)
(* Other actors: the administrator's set-up page and the provider.         *)
(***************************************************************************)
\* The status is read, the credentials are stored later.
SubmitCredentials ==
  /\ On
  /\ \E p \in Pubs : /\ srv.pubs[p].status \notin {"live", "unpublished"}
                     /\ ~srv.submit[p] /\ p \notin srv.creds
                     /\ srv' = [srv EXCEPT !.submit[p] = TRUE]
  /\ UNCHANGED <<ui, left>>

CredentialsStored ==
  On /\ (\E p \in Pubs : srv.submit[p] /\ SetPublicationCredentials(p))
  /\ UNCHANGED <<ui, left>>

\* The callback exchanges its code, adds the installation and binds it.
CompleteOAuth ==
  /\ On
  /\ \E p \in Pubs :
       \/ /\ srv.oauth[p] = None /\ p \in srv.creds \ srv.installs
          /\ srv' = [srv EXCEPT !.oauth[p] = "exchanging"]
       \/ /\ srv.oauth[p] = "exchanging"
          /\ srv' = [srv EXCEPT !.oauth[p] = "installed", !.installs = @ \cup {p}]
       \/ srv.oauth[p] = "installed" /\ BindPublication(p)
  /\ UNCHANGED <<ui, left>>

-----------------------------------------------------------------------------
(***************************************************************************)
(* The list.                                                               *)
(***************************************************************************)
\* The installations and the pending rows are read first, the publications of
\* each installation after them.
ListRead ==
  /\ AtView("list")
  /\ \E q \in ui.loads :
       /\ q.step = "asked"
       /\ See([ui EXCEPT !.loads = (@ \ {q}) \cup
                 {[q EXCEPT !.step = "first", !.installs = srv.installs,
                            !.pending = ListedPending]}])
  /\ UNCHANGED srv

PublicationsRead ==
  /\ AtView("list")
  /\ \E q \in ui.loads :
       /\ q.step = "first"
       /\ See([ui EXCEPT !.loads = @ \ {q}, !.items = q.installs, !.pending = q.pending,
                         !.pubs = UNION {ListedOf(i) : i \in q.installs}])
  /\ UNCHANGED srv

discardPending ==
  /\ AtView("list")
  /\ \E p \in ui.pending : /\ Do([ui EXCEPT !.pending = @ \ {p}])
                           /\ srv' = MarkUnpublished(p)

Manage ==
  /\ AtView("list")
  /\ \E i \in ui.items :
       Do([ui EXCEPT !.view = "workspace", !.id = i, !.loads = {Blank}, !.items = {},
                     !.pubs = {}, !.pending = {}, !.card = NoCard])
  /\ UNCHANGED srv

BackToList ==
  /\ AtView("workspace")
  /\ Do([ui EXCEPT !.view = "list", !.id = None, !.loads = {Blank}, !.items = {},
                   !.pubs = {}, !.card = NoCard, !.rules = None, !.form = NoForm])
  /\ UNCHANGED srv

-----------------------------------------------------------------------------
(***************************************************************************)
(* One workspace: its publication's card.                                  *)
(***************************************************************************)
WorkspaceRead ==
  /\ AtView("workspace")
  /\ \E q \in ui.loads :
       /\ q.step = "asked"
       /\ See([ui EXCEPT !.loads = (@ \ {q}) \cup
                 {[q EXCEPT !.step = "first", !.installs = srv.installs,
                            !.pubs = ListedOf(ui.id)]}])
  /\ UNCHANGED srv

\* The card keeps its fields from the first time it is shown.
WorkspaceShown ==
  /\ AtView("workspace")
  /\ \E q \in ui.loads :
       /\ q.step = "first"
       /\ See([ui EXCEPT !.loads = @ \ {q}, !.items = q.installs, !.pubs = q.pubs,
                 !.card = IF q.pubs = {} THEN NoCard
                          ELSE IF ui.pubs = {} THEN CardOf(ui.id) ELSE @])
  /\ UNCHANGED srv

Card == AtView("workspace") /\ ui.id \in ui.pubs

\* Closing keeps what was edited.
EditCard ==
  /\ Card /\ Do([ui EXCEPT !.card.open = ~@,
                 !.rules = IF ui.provider = "linear" /\ ~ui.card.open THEN DOMAIN srv.rules
                           ELSE None,
                 !.form = NoForm])
  /\ UNCHANGED srv

toggleCap ==
  /\ Card /\ ui.card.open
  /\ \E c \in Caps :
       Do([ui EXCEPT !.card.caps = IF c \in @ THEN @ \ {c} ELSE @ \cup {c}])
  /\ UNCHANGED srv

PersonaFields ==
  /\ Card /\ ui.card.open /\ ui.provider # "github"
  /\ Do([ui EXCEPT !.card.name = "edited"])
  /\ UNCHANGED srv

save ==
  /\ Card /\ ui.card.open /\ ui.card.call = "none"
  /\ Do([ui EXCEPT !.card.call = IF ui.provider = "github" THEN "caps" ELSE "persona"])
  /\ UNCHANGED srv

SaveAnswer ==
  /\ Card
  /\ \/ /\ ui.card.call = "persona" /\ See([ui EXCEPT !.card.call = "caps"])
        /\ srv' = UpdatePersona(ui.id, ui.card.name)
     \/ /\ ui.card.call = "caps"
        /\ See(Load([ui EXCEPT !.card.call = "none", !.card.open = FALSE,
                               !.rules = None, !.form = NoForm]))
        /\ srv' = UpdateCapabilities(ui.id, ui.card.caps)
     \/ ui.card.call # "none" /\ See([ui EXCEPT !.card.call = "none"]) /\ UNCHANGED srv

unpublish ==
  /\ Card /\ (ui.provider # "github" => ui.card.open /\ ui.card.call = "none")
  /\ Do(Load(ui))
  /\ srv' = MarkUnpublished(ui.id)

-----------------------------------------------------------------------------
(***************************************************************************)
(* Autopilot rules, on a Linear card that is open.                         *)
(***************************************************************************)
Rules == Card /\ ui.rules # None

ToggleRule ==
  /\ Rules
  /\ \E r \in ui.rules \cap DOMAIN srv.rules :
       /\ Do([ui EXCEPT !.rules = DOMAIN srv.rules])
       /\ srv' = [srv EXCEPT !.rules[r].enabled = ~@]

RemoveRule ==
  /\ Rules
  /\ \E r \in ui.rules \cap DOMAIN srv.rules :
       /\ Do([ui EXCEPT !.rules = DOMAIN srv.rules \ {r}])
       /\ srv' = [srv EXCEPT !.rules = [x \in DOMAIN @ \ {r} |-> @[x]]]

AddRule ==
  Rules /\ Do([ui EXCEPT !.form = [NoForm EXCEPT !.shown = ~ui.form.shown]]) /\ UNCHANGED srv

RuleFields ==
  /\ Rules /\ ui.form.shown
  /\ \/ \E l \in Labels \ {ui.form.label} : Do([ui EXCEPT !.form.label = l])
     \/ \E s \in States \ {ui.form.states} : Do([ui EXCEPT !.form.states = s])
  /\ UNCHANGED srv

\* A list of states of which nothing is left after trimming is still sent.
RuleOf(form) == [label |-> form.label, enabled |-> TRUE,
                 states |-> IF form.states = "Todo" THEN {"Todo"} ELSE {}]

createDispatchRule(rule, u) ==
  IF HasFilter(rule)
  THEN \E r \in 1..MaxRules \ DOMAIN srv.rules :
         /\ srv' = [srv EXCEPT !.rules =
                      [x \in DOMAIN @ \cup {r} |-> IF x = r THEN rule ELSE @[x]]]
         /\ Do([u EXCEPT !.form = NoForm, !.rules = DOMAIN srv.rules \cup {r}])
  ELSE Do(u) /\ UNCHANGED srv

CreateRule ==
  /\ Rules /\ ui.form.shown
  /\ ui.form.label # "none" \/ ui.form.states # ""
  /\ createDispatchRule(RuleOf(ui.form), ui)

-----------------------------------------------------------------------------
(***************************************************************************)
(* Installation by a personal key: the server no longer offers it.         *)
(***************************************************************************)
InstallViaPat ==
  /\ AtView("list") /\ ui.provider = "linear"
  /\ Do([ui EXCEPT !.view = "pat", !.loads = {}, !.items = {}, !.pending = {}, !.pubs = {}])
  /\ UNCHANGED srv

\* The agent's name is the persona until the operator has typed one.
PatFields ==
  /\ AtView("pat")
  /\ \/ Do([ui EXCEPT !.pat.agent = TRUE,
                      !.pat.name = IF ui.pat.edited THEN @ ELSE "given"])
     \/ Do([ui EXCEPT !.pat.env = TRUE])
     \/ \E n \in {"edited", ""} : Do([ui EXCEPT !.pat.name = n, !.pat.edited = TRUE])
     \/ Do([ui EXCEPT !.pat.key = TRUE])
  /\ UNCHANGED srv

handleSubmit ==
  /\ AtView("pat") /\ ~ui.pat.working
  /\ ui.pat.agent /\ ui.pat.env /\ ui.pat.name # "" /\ ui.pat.key
  /\ Do([ui EXCEPT !.pat.working = TRUE])
  /\ UNCHANGED srv

PersonalTokenRemoved ==
  AtView("pat") /\ ui.pat.working /\ See([ui EXCEPT !.pat.working = FALSE]) /\ UNCHANGED srv

Next ==
  \/ SubmitCredentials \/ CredentialsStored \/ CompleteOAuth \/ ListRead
  \/ PublicationsRead \/ discardPending \/ Manage \/ BackToList \/ WorkspaceRead
  \/ WorkspaceShown \/ EditCard \/ toggleCap \/ PersonaFields \/ save \/ SaveAnswer
  \/ unpublish \/ ToggleRule \/ RemoveRule \/ AddRule \/ RuleFields \/ CreateRule
  \/ InstallViaPat \/ PatFields \/ handleSubmit \/ PersonalTokenRemoved

-----------------------------------------------------------------------------
\* bridge.go "publication is unpublished": an install that was discarded, or an
\* agent that was taken down, stays so, whatever an administrator's credentials or
\* the provider's callback that read the row before do to it afterwards.
UnpublishedStays ==
  ui.page = "workspace" =>
    \A p \in Pubs : srv.pubs[p].gone => srv.pubs[p].status = "unpublished"
=============================================================================
