---------------------------- MODULE PublishWizard ----------------------------
(***************************************************************************)
(* The wizards that publish an agent to Slack and to Linear                *)
(* (integrations/pages/Integrations{Slack,Linear}PublishWizard.tsx): pick, *)
(* credentials, install.  The publication worked on is pinned in the URL,  *)
(* so that a page that is loaded again resumes it; Linear's has no Back.   *)
(***************************************************************************)
EXTENDS Naturals, Sequences

CONSTANTS Agents,
          MaxPubs,    \* bound: publications created
          None

VARIABLES ui, srv, left

On == ui.page = "publish"

Typed == "typed"   \* a persona name the user wrote; others are agents' names

\* The form of a wizard on a URL that names a publication, or none.
Blank(provider, url, agent) ==
  [page |-> "publish", provider |-> provider, step |-> "pick", url |-> url,
   hydrating |-> url # None, found |-> FALSE, working |-> FALSE, error |-> FALSE,
   loading |-> TRUE, agents |-> {}, agent |-> agent, env |-> FALSE,
   persona |-> None, edited |-> FALSE, secrets |-> FALSE, form |-> None,
   link |-> None]

Init ==
  /\ \E p \in {"slack", "linear"}, a \in Agents \cup {None} : ui = Blank(p, None, a)
  /\ srv = [status |-> <<>>, agent |-> <<>>, persona |-> <<>>]

Issued == 1..Len(srv.status)

Do(u) == ui' = u /\ left > 0 /\ left' = left - 1

\* The agent names the persona, as long as nobody wrote one: whenever the agent
\* or the agents change, and if the agent is among those that were loaded.
PersonaEffect(u) ==
  IF ~u.edited /\ u.agent \in u.agents THEN [u EXCEPT !.persona = u.agent] ELSE u

AgentsArrive ==
  /\ On /\ ui.loading
  /\ \/ \E l \in SUBSET Agents :
          ui' = PersonaEffect([ui EXCEPT !.agents = l, !.loading = FALSE])
     \/ ui' = [ui EXCEPT !.error = TRUE, !.loading = FALSE]
  /\ UNCHANGED <<srv, left>>

-----------------------------------------------------------------------------
(***************************************************************************)
(* Coming back.                                                            *)
(***************************************************************************)
\* A page that is loaded again keeps the URL alone.
Reload ==
  /\ On
  /\ Do(Blank(ui.provider, ui.url, None))
  /\ UNCHANGED srv

\* The publication is dropped from the URL.
unpin(u) == [u EXCEPT !.url = None, !.hydrating = FALSE]

\* The publication is asked for: a live one belongs on the list, one that is
\* gone is dropped from the URL.
GetPublication ==
  /\ On /\ ui.hydrating /\ ~ui.found
  /\ \/ /\ srv.status[ui.url] = "live"
        /\ ui' = [ui EXCEPT !.page = "integrations"]
     \/ /\ srv.status[ui.url] \in {"unpublished", "needs_reauth"}
        /\ ui' = unpin(ui)
     \/ /\ srv.status[ui.url] \in {"pending_setup", "awaiting_install"}
        /\ ui' = [ui EXCEPT !.found = TRUE]
     \/ ui' = [unpin(ui) EXCEPT !.error = TRUE]
  /\ UNCHANGED <<srv, left>>

\* A new form for it, always at the credentials; then the persona's effect runs,
\* if the agent changed.
Resumed(u, p) ==
  LET v == [u EXCEPT !.form = p, !.agent = srv.agent[p], !.env = TRUE,
                     !.persona = srv.persona[p], !.step = "credentials",
                     !.hydrating = FALSE]
  IN IF u.agent = srv.agent[p] THEN v ELSE PersonaEffect(v)

ReissueFormToken ==
  /\ On /\ ui.hydrating /\ ui.found
  /\ \/ ui' = Resumed(ui, ui.url)
     \/ ui' = [unpin(ui) EXCEPT !.error = TRUE]
  /\ UNCHANGED <<srv, left>>

-----------------------------------------------------------------------------
(***************************************************************************)
(* The steps.                                                              *)
(***************************************************************************)
At(step) == On /\ ~ui.hydrating /\ ui.step = step

\* The combobox asks the server itself: it offers agents that were not loaded.
PickStep ==
  /\ At("pick")
  /\ \/ \E a \in Agents \ {ui.agent} : Do(PersonaEffect([ui EXCEPT !.agent = a]))
     \/ ~ui.env /\ Do([ui EXCEPT !.env = TRUE])
     \/ \E n \in {Typed, None} : Do([ui EXCEPT !.persona = n, !.edited = TRUE])
  /\ UNCHANGED srv

startPublish ==
  /\ At("pick") /\ ~ui.working
  /\ IF ui.agent # None /\ ui.env /\ ui.persona # None
     THEN Do([ui EXCEPT !.working = TRUE, !.error = FALSE])
     ELSE Do([ui EXCEPT !.error = TRUE])
  /\ UNCHANGED srv

Failed == /\ ui' = [ui EXCEPT !.working = FALSE, !.error = TRUE]
          /\ UNCHANGED <<srv, left>>

\* Slip: a publication that is pinned stays pinned.
pinOnce(u, p) == [u EXCEPT !.url = IF @ = None THEN p ELSE @]

pinPublicationToUrl(u, p) == [u EXCEPT !.url = p]

Created ==
  /\ At("pick") /\ ui.working
  /\ Len(srv.status) < MaxPubs
  /\ LET p == Len(srv.status) + 1
     IN /\ srv' = [status |-> Append(srv.status, "pending_setup"),
                   agent |-> Append(srv.agent, ui.agent),
                   persona |-> Append(srv.persona, ui.persona)]
        /\ \/ ui' = pinPublicationToUrl([ui EXCEPT !.form = p, !.step = "credentials",
                                                   !.working = FALSE], p)
           \/ ui' = Blank(ui.provider, ui.url, None)   \* loaded again meanwhile
  /\ UNCHANGED left

NotCreated == At("pick") /\ ui.working /\ Failed

\* What was pasted stays when another publication's form is shown.
CredentialsStep ==
  /\ At("credentials") /\ ~ui.secrets /\ Do([ui EXCEPT !.secrets = TRUE])
  /\ UNCHANGED srv

submitCredentials ==
  /\ At("credentials") /\ ~ui.working /\ ui.secrets
  /\ Do([ui EXCEPT !.working = TRUE, !.error = FALSE])
  /\ UNCHANGED srv

Validated ==
  /\ At("credentials") /\ ui.working
  /\ srv.status[ui.form] \in {"pending_setup", "awaiting_install"}
  /\ srv' = [srv EXCEPT !.status[ui.form] = "awaiting_install"]
  /\ \/ ui' = pinPublicationToUrl([ui EXCEPT !.link = ui.form, !.step = "install",
                                             !.working = FALSE], ui.form)
     \/ ui' = Blank(ui.provider, ui.url, None)
  /\ UNCHANGED left

NotValidated == At("credentials") /\ ui.working /\ Failed

\* Slack's steps alone lead back; the shell that was created stays behind.
Change ==
  /\ At("credentials") /\ ui.provider = "slack" /\ ~ui.working
  /\ Do([ui EXCEPT !.step = "pick"])
  /\ UNCHANGED srv

BackToCredentials ==
  /\ At("install") /\ ui.provider = "slack"
  /\ Do([ui EXCEPT !.step = "credentials"])
  /\ UNCHANGED srv

\* The link leaves for the provider, which comes back to the list.
Install ==
  /\ At("install")
  /\ Do([ui EXCEPT !.page = "integrations"])
  /\ srv' = [srv EXCEPT !.status[ui.link] = "live"]

\* Somebody else installs a publication, or takes it down.
Elsewhere ==
  /\ On
  /\ \E p \in Issued :
       \/ /\ srv.status[p] = "awaiting_install"
          /\ srv' = [srv EXCEPT !.status[p] = "live"]
       \/ /\ srv.status[p] \in {"pending_setup", "awaiting_install", "live"}
          /\ srv' = [srv EXCEPT !.status[p] = "unpublished"]
  /\ Do(ui)

Next ==
  \/ AgentsArrive \/ Reload \/ GetPublication \/ ReissueFormToken
  \/ PickStep \/ startPublish \/ Created \/ NotCreated
  \/ CredentialsStep \/ submitCredentials \/ Validated \/ NotValidated
  \/ Change \/ BackToCredentials \/ Install \/ Elsewhere

-----------------------------------------------------------------------------
\* Past the first step the URL names the publication whose form and whose
\* install link are shown, so that loading the page again resumes that one,
\* also after the user went back and published another.
PinnedIsShown ==
  On /\ ui.step # "pick" =>
    ui.url = ui.form /\ (ui.step = "install" => ui.url = ui.link)
=============================================================================
