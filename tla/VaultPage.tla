------------------------------ MODULE VaultPage ------------------------------
(***************************************************************************)
(* The page of one vault (pages/VaultDetail.tsx): its credentials, and the *)
(* modal that adds one: a bearer token, an OAuth popup that reports over   *)
(* two channels, a CLI token, or a device authorization that is polled.    *)
(* A poll loop outlives the modal that started it.  The routes of device   *)
(* authorizations are another server's: this repository's answers 404.     *)
(***************************************************************************)
EXTENDS Naturals, FiniteSets

CONSTANTS MaxCreds,   \* bound: credentials stored in all
          None

VARIABLES ui, srv, left

On == ui.page = "vault"

NoForm == [tab |-> "mcp", type |-> "oauth", url |-> FALSE, token |-> FALSE,
           cliToken |-> FALSE]

Init ==
  /\ ui = [page |-> "vault", list |-> None, filter |-> "active", modal |-> 0,
           mounts |-> 0, form |-> NoForm, connecting |-> FALSE, flow |-> None,
           gap |-> FALSE, stale |-> TRUE]
  /\ \E capCli \in BOOLEAN :
       srv = [creds |-> {}, next |-> 1, bearer |-> {}, cli |-> 0, popup |-> FALSE,
              reports |-> {}, inits |-> {}, loops |-> {}, dismiss |-> {}, deletes |-> {},
              archived |-> FALSE, gone |-> FALSE, capCli |-> capCli]

Open == On /\ ui.modal # 0
Do(u) == ui' = u /\ left > 0 /\ left' = left - 1
\* A vault that is gone takes no credential; an archived one does.
Room == srv.next <= MaxCreds /\ ~srv.gone

Stored(s) == [s EXCEPT !.creds = @ \cup {s.next}, !.next = @ + 1]

-----------------------------------------------------------------------------
(***************************************************************************)
(* The page.                                                               *)
(***************************************************************************)

\* The query of the list is marked stale and run again.
reloadCredentials(u) == [u EXCEPT !.stale = TRUE]

\* History: something happened in the vault and the page was not told, as when the
\* server did what was asked and its answer was lost; nothing is read again then.
Untold(u) == [u EXCEPT !.gap = TRUE]

filteredCreds(u) == IF u.list = None THEN {} ELSE u.list

\* The query's answer; a change before it makes the query run again.
CredentialsArrive ==
  /\ On /\ ui.stale /\ ~srv.gone
  /\ ui' = [ui EXCEPT !.list = srv.creds, !.stale = FALSE, !.gap = FALSE]
  /\ UNCHANGED <<srv, left>>

\* After one retry the list that is there stays.
CredentialsFail ==
  /\ On /\ ui.stale
  /\ ui' = Untold([ui EXCEPT !.stale = FALSE])
  /\ UNCHANGED <<srv, left>>

WindowFocus == On /\ Do(reloadCredentials(ui)) /\ UNCHANGED srv

StatusFilter ==
  /\ On /\ Do([ui EXCEPT !.filter = IF @ = "active" THEN "any" ELSE "active"])
  /\ UNCHANGED srv

deleteCred ==
  /\ On
  /\ \E c \in filteredCreds(ui) :
       /\ Do(ui)
       /\ srv' = [srv EXCEPT !.deletes = @ \cup {c}]

Deleted ==
  /\ On
  /\ \E c \in srv.deletes :
       \/ /\ srv' = [srv EXCEPT !.deletes = @ \ {c}, !.creds = @ \ {c}]
          /\ ui' = reloadCredentials(ui)
       \/ /\ srv' = [srv EXCEPT !.deletes = @ \ {c}, !.creds = @ \ {c}]
          /\ ui' = Untold(ui)
       \/ srv' = [srv EXCEPT !.deletes = @ \ {c}] /\ ui' = ui
  /\ UNCHANGED left

\* Archiving and deleting the vault leave for the list of vaults, if they answer.
Left == {[ui EXCEPT !.page = "vaults"], Untold(ui)}

\* Archived credentials are not listed.
archive ==
  /\ On /\ ~srv.archived /\ ~srv.gone
  /\ \E u \in Left : Do(u)
  /\ srv' = [srv EXCEPT !.archived = TRUE, !.creds = {}]

del ==
  /\ On /\ ~srv.gone
  /\ \E u \in Left : Do(u)
  /\ srv' = [srv EXCEPT !.gone = TRUE, !.creds = {}]

\* The page offers it for the vault as it was when it was read.
AddCredential ==
  /\ On /\ ui.modal = 0
  /\ Do([ui EXCEPT !.modal = ui.mounts + 1, !.mounts = @ + 1, !.form = NoForm,
                   !.connecting = FALSE, !.flow = None])
  /\ UNCHANGED srv

onClose == Open /\ Do([ui EXCEPT !.modal = 0]) /\ UNCHANGED srv

\* Whatever modal it was created by, the one that is open is closed.
onCreated(u) == [reloadCredentials(u) EXCEPT !.modal = 0]

-----------------------------------------------------------------------------
(***************************************************************************)
(* MCP servers.                                                            *)
(***************************************************************************)
TypeField ==
  /\ Open /\ ui.form.tab = "mcp"
  /\ Do([ui EXCEPT !.form.type = IF @ = "oauth" THEN "bearer" ELSE "oauth"])
  /\ UNCHANGED srv

\* Typed, or picked from the registry: picking never connects by itself.
ServerField ==
  /\ Open /\ ui.form.tab = "mcp" /\ Do([ui EXCEPT !.form.url = TRUE])
  /\ UNCHANGED srv

\* The sections on refreshing and on client credentials hang on the token.
TokenField ==
  /\ Open /\ ui.form.tab = "mcp" /\ Do([ui EXCEPT !.form.token = TRUE])
  /\ UNCHANGED srv

CanSubmit(u) ==
  /\ u.form.url /\ ~u.connecting
  /\ u.form.type = "bearer" => u.form.token

\* A token is stored at once; without one a popup asks the provider.  There is one
\* window of that name: a popup that is still open is led elsewhere.
submitCustom ==
  /\ Open /\ ui.form.tab = "mcp" /\ CanSubmit(ui)
  /\ Do([ui EXCEPT !.connecting = TRUE])
  /\ srv' = IF ui.form.type = "bearer" \/ ui.form.token
            THEN [srv EXCEPT !.bearer = @ \cup {ui.modal}] ELSE [srv EXCEPT !.popup = TRUE]

createBearerCred ==
  /\ On
  /\ \E b \in srv.bearer :
       LET failed == [ui EXCEPT !.connecting = @ /\ ui.modal # b]
       IN \/ /\ Room
             /\ srv' = [Stored(srv) EXCEPT !.bearer = @ \ {b}]
             /\ ui' \in {onCreated(ui), Untold(failed)}
          \/ srv' = [srv EXCEPT !.bearer = @ \ {b}] /\ ui' = failed
  /\ UNCHANGED left

Channels == {"message", "broadcast"}

\* Neither report of a credential has arrived.
Unreported(c) == {c} \X Channels \subseteq srv.reports

\* The popup stores the credential and reports on both channels, or goes before it
\* reports, or before it stores anything: then nothing tells the modal, which stays
\* connecting.
PopupCompletes ==
  /\ On /\ srv.popup /\ Room
  /\ \/ /\ srv' = [Stored(srv) EXCEPT !.popup = FALSE,
                                      !.reports = @ \cup ({srv.next} \X Channels)]
        /\ ui' = ui
     \/ /\ srv' = [Stored(srv) EXCEPT !.popup = FALSE]
        /\ ui' = Untold(ui)
  /\ UNCHANGED left

\* Refused, or the code could not be exchanged: reported like a credential.
NoCred == 0
PopupFails ==
  /\ On /\ srv.popup
  /\ srv' = [srv EXCEPT !.popup = FALSE, !.reports = @ \cup ({NoCred} \X Channels)]
  /\ UNCHANGED <<ui, left>>

PopupCloses ==
  /\ On /\ srv.popup
  /\ srv' = [srv EXCEPT !.popup = FALSE]
  /\ UNCHANGED <<ui, left>>

\* Only an open modal listens; it is closed by a report of any popup.
handleOAuthMessage ==
  /\ On
  /\ \E r \in srv.reports :
       /\ srv' = [srv EXCEPT !.reports = @ \ {r}]
       /\ ui' = IF ui.modal # 0 THEN [onCreated(ui) EXCEPT !.connecting = FALSE]
                ELSE [ui EXCEPT !.gap = @ \/ (r[1] \in srv.creds /\ Unreported(r[1]))]
  /\ UNCHANGED left

-----------------------------------------------------------------------------
(***************************************************************************)
(* CLI tokens and the device flow.                                         *)
(***************************************************************************)
Polling(u) == u.flow # None /\ u.flow.status = "polling"

CliTab ==
  /\ Open /\ ~Polling(ui)
  /\ \/ Do([ui EXCEPT !.form.tab = "cli"])
     \/ ui.form.tab = "cli" /\ Do([ui EXCEPT !.form.cliToken = TRUE])
     \/ ui.form.tab = "cli" /\ Do([ui EXCEPT !.flow = None])
  /\ UNCHANGED srv

\* Nothing keeps the button from a second click.
createCapCliCred ==
  /\ Open /\ ui.form.tab = "cli" /\ ~Polling(ui) /\ ui.form.cliToken
  /\ Do(ui)
  /\ srv' = [srv EXCEPT !.cli = @ + 1]

CapCliCreated ==
  /\ On /\ srv.cli > 0
  /\ \/ /\ Room /\ srv' = [Stored(srv) EXCEPT !.cli = @ - 1]
        /\ ui' \in {onCreated(ui), Untold(ui)}
     \/ srv' = [srv EXCEPT !.cli = @ - 1] /\ ui' = ui
  /\ UNCHANGED left

Flow(s, st) == [session |-> s, status |-> st]

startDeviceFlow ==
  /\ Open /\ ui.form.tab = "cli" /\ ui.flow = None
  /\ Do(ui)
  /\ srv' = [srv EXCEPT !.inits = @ \cup {[session |-> left, of |-> ui.modal]}]

\* A state setter of a modal that is gone has no effect.
Mine(l) == ui.modal = l.of

Initiated ==
  /\ On
  /\ \E l \in srv.inits :
       \/ /\ srv.capCli
          /\ srv' = [srv EXCEPT !.inits = @ \ {l}, !.loops = @ \cup {l}]
          /\ ui' = IF Mine(l) THEN [ui EXCEPT !.flow = Flow(l.session, "polling")]
                   ELSE ui
       \/ /\ srv' = [srv EXCEPT !.inits = @ \ {l}]
          /\ ui' = IF Mine(l) THEN [ui EXCEPT !.flow = Flow(None, "error")] ELSE ui
  /\ UNCHANGED left

\* Cancel drops what is shown; the loop goes on.
CancelFlow ==
  /\ Open /\ Polling(ui)
  /\ Do([ui EXCEPT !.flow = None])
  /\ UNCHANGED srv

\* The state that is shown is updated, whichever flow it is of.
Shows(l, st) ==
  IF Mine(l) /\ ui.flow # None THEN [ui EXCEPT !.flow.status = st] ELSE ui

PollReady ==
  /\ On /\ Room
  /\ \E l \in srv.loops :
       /\ srv' = [Stored(srv) EXCEPT !.loops = @ \ {l}, !.dismiss = @ \cup {l}]
       /\ ui' = onCreated(Shows(l, "ready"))
  /\ UNCHANGED left

Dismiss ==
  /\ On
  /\ \E l \in srv.dismiss :
       /\ srv' = [srv EXCEPT !.dismiss = @ \ {l}]
       /\ ui' = IF Mine(l) THEN [ui EXCEPT !.flow = None] ELSE ui
  /\ UNCHANGED left

\* Slip: a failed poll ends the loop without a word.
PollEndsSilently ==
  /\ On
  /\ \E l \in srv.loops : srv' = [srv EXCEPT !.loops = @ \ {l}]
  /\ UNCHANGED <<ui, left>>

\* Expired, denied, an error, a failed request, or out of time.
PollEnds ==
  /\ On
  /\ \E l \in srv.loops, st \in {"expired", "denied", "error"} :
       /\ srv' = [srv EXCEPT !.loops = @ \ {l}]
       /\ ui' = Shows(l, st)
  /\ UNCHANGED left

\* The request that found the authorization granted, and whose answer was lost.
PollLost ==
  /\ On /\ Room
  /\ \E l \in srv.loops :
       /\ srv' = [Stored(srv) EXCEPT !.loops = @ \ {l}]
       /\ ui' = Untold(Shows(l, "error"))
  /\ UNCHANGED left

Next ==
  \/ CredentialsArrive \/ CredentialsFail \/ WindowFocus \/ StatusFilter \/ deleteCred \/ Deleted \/ archive \/ del
  \/ AddCredential \/ onClose
  \/ TypeField \/ ServerField \/ TokenField \/ submitCustom \/ createBearerCred
  \/ PopupCompletes \/ PopupFails \/ PopupCloses \/ handleOAuthMessage
  \/ CliTab \/ createCapCliCred \/ CapCliCreated
  \/ startDeviceFlow \/ Initiated \/ CancelFlow \/ PollReady \/ Dismiss \/ PollEnds
  \/ PollLost

-----------------------------------------------------------------------------
\* A modal that says it waits for confirmation has a loop that asks for it,
\* however flows were cancelled, restarted and answered.
PollingHasLoop ==
  Open /\ Polling(ui) =>
    [session |-> ui.flow.session, of |-> ui.modal] \in srv.loops

\* Once nothing is to be read again the page lists what the vault holds, unless the
\* page was not told: an answer was lost, a read failed, or a popup reported to a
\* modal that was closed, not at all, or has yet to.
CredentialsShown ==
  On /\ ~ui.stale /\ ~ui.gap /\ (\A c \in srv.creds : ~Unreported(c)) =>
    ui.list = srv.creds

\* VaultDetail.tsx: a device flow is never waited for in vain nor missed.
FlowsAreFollowed == PollingHasLoop /\ CredentialsShown
=============================================================================
