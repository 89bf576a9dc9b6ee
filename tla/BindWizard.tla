----------------------------- MODULE BindWizard -----------------------------
(***************************************************************************)
(* The wizard that binds an agent to GitHub                                *)
(* (integrations/pages/IntegrationsGitHubBindWizard.tsx): a form, a popup  *)
(* in which GitHub registers and installs an app, and a poll that waits    *)
(* for the publication to be live.  Unlike the other two it shows its form *)
(* while a pinned publication is being resumed.                            *)
(***************************************************************************)
EXTENDS Naturals, Sequences

CONSTANTS Agents,
          MaxPubs,    \* bound: publications created
          MaxTicks,   \* ticks of a poll: 60
          None

VARIABLES ui, srv, left

On == ui.page = "bind"

Typed == "typed"

\* A publication that is pinned is resumed: asked for, then its form reissued.
\* A redirect from GitHub names the one it installed.
Blank(url, live) ==
  [page |-> "bind", phase |-> IF live = None THEN "config" ELSE "done", url |-> url,
   live |-> live, error |-> FALSE, agents |-> {}, loading |-> TRUE, agent |-> None,
   env |-> FALSE, persona |-> None, edited |-> FALSE, form |-> None,
   poll |-> None, ticks |-> 0, raced |-> FALSE]

NoCalls == [resume |-> None, start |-> None, gets |-> {}]

Init ==
  /\ ui = Blank(None, None)
  /\ srv = [status |-> <<>>, agent |-> <<>>, persona |-> <<>>, calls |-> NoCalls,
            popup |-> None]

Issued == 1..Len(srv.status)
Waiting == {"pending_setup", "credentials_filled", "awaiting_install"}

Do(u) == ui' = u /\ left > 0 /\ left' = left - 1

PersonaEffect(u) ==
  IF ~u.edited /\ u.agent \in u.agents THEN [u EXCEPT !.persona = u.agent] ELSE u

AgentsArrive ==
  /\ On /\ ui.loading
  /\ \E l \in SUBSET Agents :
       ui' = PersonaEffect([ui EXCEPT !.agents = l, !.loading = FALSE])
  /\ UNCHANGED <<srv, left>>

stopPolling(u) == [u EXCEPT !.poll = None, !.ticks = 0]

\* One poll at a time: a new one takes the place of the one before.
startInstallPoll(u, p) == [stopPolling(u) EXCEPT !.poll = p]

Live(u, p) == [stopPolling(u) EXCEPT !.phase = "done", !.live = p]

-----------------------------------------------------------------------------
\* Loading the page again forgets the poll and all calls, and resumes.
Reload ==
  /\ On
  /\ Do(Blank(ui.url, None))
  /\ srv' = [srv EXCEPT !.calls =
               [NoCalls EXCEPT !.resume = IF ui.url = None THEN None
                                          ELSE [pub |-> ui.url, status |-> None]]]

\* GitHub's redirect after an installation.
Redirected ==
  /\ On
  /\ \E p \in Issued : srv.status[p] = "live" /\ Do(Blank(None, p))
  /\ srv' = [srv EXCEPT !.calls = NoCalls]

ResumeEnds == srv' = [srv EXCEPT !.calls.resume = None]

\* The pin is dropped, whichever publication it is of by now.
ResumeDropped(error) ==
  ui' = [ui EXCEPT !.url = None, !.error = error] /\ ResumeEnds

ResumeStatus ==
  /\ On /\ srv.calls.resume # None /\ srv.calls.resume.status = None
  /\ LET p == srv.calls.resume.pub
     IN \/ /\ srv.status[p] = "live"
           /\ ui' = [ui EXCEPT !.phase = "done", !.live = p]
           /\ ResumeEnds
        \/ /\ srv.status[p] \notin Waiting \cup {"live"}
           /\ ResumeDropped(ui.error)
        \/ /\ srv.status[p] \in Waiting
           /\ ui' = ui
           /\ srv' = [srv EXCEPT !.calls.resume.status = srv.status[p]]
        \/ ResumeDropped(TRUE)
  /\ UNCHANGED left

\* What the phase follows is the status read before.  A publication that is not
\* set up yet is not polled.
Resumed(u, p, status) ==
  LET v == [u EXCEPT !.form = p, !.agent = srv.agent[p], !.env = TRUE,
                     !.persona = srv.persona[p],
                     !.raced = u.phase # "config" \/ srv.calls.start # None]
      w == IF u.agent = srv.agent[p] THEN v ELSE PersonaEffect(v)
  IN IF status = "pending_setup" THEN [w EXCEPT !.phase = "registering"]
     ELSE startInstallPoll([w EXCEPT !.phase = "installing"], p)

ResumeForm ==
  /\ On /\ srv.calls.resume # None /\ srv.calls.resume.status # None
  /\ \/ ui' = Resumed(ui, srv.calls.resume.pub, srv.calls.resume.status) /\ ResumeEnds
     \/ ResumeDropped(TRUE)
  /\ UNCHANGED left

-----------------------------------------------------------------------------
\* The combobox offers agents that were not loaded.
ConfigForm ==
  /\ On /\ ui.phase = "config"
  /\ \/ \E a \in Agents \ {ui.agent} : Do(PersonaEffect([ui EXCEPT !.agent = a]))
     \/ ~ui.env /\ Do([ui EXCEPT !.env = TRUE])
     \/ \E n \in {Typed, None} : Do([ui EXCEPT !.persona = n, !.edited = TRUE])
  /\ UNCHANGED srv

Ready(u) == u.agent # None /\ u.env /\ u.persona # None

startBind ==
  /\ On /\ ui.phase = "config" /\ ui.persona # None
  /\ IF Ready(ui)
     THEN /\ Do([ui EXCEPT !.error = FALSE, !.phase = "registering",
                           !.raced = @ \/ srv.calls.resume # None])
          /\ srv' = [srv EXCEPT !.calls.start = [agent |-> ui.agent, persona |-> ui.persona]]
     ELSE Do([ui EXCEPT !.error = TRUE]) /\ UNCHANGED srv

\* Slip: the publication is not pinned.
BoundUnpinned(u, p) ==
  startInstallPoll([u EXCEPT !.form = p, !.phase = "installing"], p)

\* The popup opens and the publication is pinned and polled.
Bound(u, p) ==
  startInstallPoll([u EXCEPT !.form = p, !.url = p, !.phase = "installing"], p)

StartAnswer ==
  /\ On /\ srv.calls.start # None
  /\ \/ /\ Len(srv.status) < MaxPubs
        /\ LET p == Len(srv.status) + 1
           IN /\ ui' = Bound(ui, p)
              /\ srv' = [srv EXCEPT !.calls.start = None, !.popup = p,
                           !.status = Append(@, "pending_setup"),
                           !.agent = Append(@, srv.calls.start.agent),
                           !.persona = Append(@, srv.calls.start.persona)]
     \/ /\ ui' = [ui EXCEPT !.error = TRUE, !.phase = "error"]
        /\ srv' = [srv EXCEPT !.calls.start = None]
  /\ UNCHANGED left

TryAgain ==
  /\ On /\ ui.phase = "error"
  /\ Do([ui EXCEPT !.phase = "config", !.error = FALSE])
  /\ UNCHANGED srv

\* In the popup the app is registered, then installed; or somebody gives up.
Popup ==
  /\ On
  /\ \E p \in Issued :
       \/ /\ srv.popup = p /\ srv.status[p] = "pending_setup"
          /\ srv' = [srv EXCEPT !.status[p] = "credentials_filled"]
       \/ /\ srv.popup = p /\ srv.status[p] = "credentials_filled"
          /\ srv' = [srv EXCEPT !.status[p] = "live"]
       \/ srv.status[p] # "unpublished" /\ srv' = [srv EXCEPT !.status[p] = "unpublished"]
  /\ Do(ui)

InProgress == ui.phase \in {"registering", "installing"} /\ ui.form # None

ReopenPopup ==
  /\ On /\ InProgress /\ ui.phase = "registering"
  /\ Do(ui)
  /\ srv' = [srv EXCEPT !.popup = ui.form]

\* The answers of a poll are not tied to it: one may be late.
Tick ==
  /\ On /\ ui.poll # None
  /\ IF ui.ticks = MaxTicks
     THEN ui' = stopPolling(ui) /\ UNCHANGED srv
     ELSE /\ ui' = [ui EXCEPT !.ticks = @ + 1]
          /\ srv' = [srv EXCEPT !.calls.gets = @ \cup {ui.poll}]
  /\ UNCHANGED left

refresh ==
  /\ On /\ InProgress
  /\ Do(ui)
  /\ srv' = [srv EXCEPT !.calls.gets = @ \cup {ui.form}]

PollAnswer ==
  /\ On
  /\ \E p \in srv.calls.gets :
       /\ srv' = [srv EXCEPT !.calls.gets = @ \ {p}]
       /\ ui' \in {ui} \cup {Live(ui, q) : q \in {q \in {p} : srv.status[q] = "live"}}
  /\ UNCHANGED left

View ==
  /\ On /\ ui.phase = "done"
  /\ Do([stopPolling(ui) EXCEPT !.page = "integrations"])
  /\ UNCHANGED srv

Next ==
  \/ AgentsArrive \/ Reload \/ Redirected \/ ResumeStatus \/ ResumeForm \/ ConfigForm
  \/ startBind \/ StartAnswer \/ TryAgain \/ Popup \/ ReopenPopup \/ Tick \/ refresh
  \/ PollAnswer \/ View

-----------------------------------------------------------------------------
\* What is polled is the publication whose form is shown and whose id a reload
\* would resume; unless the user bound one while another was being resumed.
PollsPinned ==
  On /\ ui.poll # None /\ ~ui.raced => ui.poll = ui.form /\ ui.poll = ui.url
=============================================================================
