------------------------------ MODULE Console ------------------------------
(***************************************************************************)
(* The web console, page by page.  The console is one page application:    *)
(* a page is mounted when the user goes to it, with fresh state, and       *)
(* nothing but the server outlives it, so a behaviour of Console is a      *)
(* behaviour of one of the pages that Pages names.  Each page module       *)
(* describes, over the variables                                           *)
(*   ui    what the page keeps (ui.page says where the user is by now),    *)
(*   srv   the rows of the server the page works on, with its other users, *)
(*   left  how many more actions of the user and how many more failures    *)
(*         are looked at,                                                  *)
(* the handlers of the page, the answers that arrive and, where the page   *)
(* depends on them, the handlers of the server.                            *)
(***************************************************************************)
EXTENDS Integers, FiniteSets

CONSTANTS
  Pages,      \* the pages of the instance
  Steps,      \* bound: user actions and failures on each page
  None,
  \* AgentForm
  Cards, DefaultCard, Fallback, Gateways, Runtimes, Detected, AcpDefault, Local,
  Tools, Skills, Servers, Callable, Pasted,
  \* PromptInput
  MaxFiles,
  \* SessionForm, PublishWizard, BindWizard
  Agents, LocalAgents, Vaults, MaxRows, MaxPubs, MaxTicks,
  \* VaultPage, SkillsPage, LoginPage
  MaxCreds, BuiltIn, Custom, MaxVersions, Emails,
  \* MemoryPage, EnvironmentPage
  Paths, Contents, MaxMemories, MaxRequests, Managers, Specs, Hidden,
  \* ResourceList
  Kinds, Ids, PageSize, MaxTime, MaxSlots,
  \* EventViews, WorkspacePage
  MaxEvents, Plain, Pubs, Caps, MaxRules,
  \* AccountPages, EvalPages, TeamPanel
  Tenants, MaxKeys, Runs, Teams, MaxMessages

\* Identifiers and times are compared; a page of a list has rows.
ASSUME ConsoleAssumption ==
  /\ Ids \subseteq Nat /\ Teams \subseteq Nat
  /\ PageSize \in Nat \ {0} /\ MaxTime \in Nat /\ MaxFiles \in Nat
  /\ \A p \in Pages : Steps[p] \in Nat

VARIABLES ui, srv, left,
  route   \* the page of this behaviour

AF == INSTANCE AgentForm WITH Agents <- Callable
PI == INSTANCE PromptInput
SF == INSTANCE SessionForm
VP == INSTANCE VaultPage
SK == INSTANCE SkillsPage
PW == INSTANCE PublishWizard
BW == INSTANCE BindWizard
LP == INSTANCE LoginPage
MP == INSTANCE MemoryPage
EP == INSTANCE EnvironmentPage
RL == INSTANCE ResourceList
EV == INSTANCE EventViews
WP == INSTANCE WorkspacePage
AC == INSTANCE AccountPages
EL == INSTANCE EvalPages
TP == INSTANCE TeamPanel

\* No call under way is a value like any other (null is no object).
ASSUME CallAssumption == None \notin LP!Ops

\* Neither is a reward that has not been given.
ASSUME RewardAssumption == None # "1"

\* A hash that is asked for is that of a content; null is no memory.
ASSUME MemoryAssumption ==
  /\ None \notin Contents /\ "agent" \notin Contents
  /\ None \notin [id : Nat, path : Paths, content : Contents]

\* The form offers a fixed list of package managers; null is no environment.
ASSUME EnvironmentAssumption ==
  IsFiniteSet(Managers) /\ Managers # {} /\ None \notin EP!Stored

\* Events that no tool is part of are neither uses nor results; null is no id.
ASSUME EventAssumption == Plain \cap (EV!Uses \cup EV!Results) = {} /\ None \notin Nat

\* The harness of a runtime is none of the gateways; nor is it, or the one that
\* old rows have, the empty name.
ASSUME HarnessAssumption ==
  "acp-proxy" \notin Gateways /\ None \notin {"acp-proxy", "managed"}

Init ==
  /\ route \in Pages /\ left = Steps[route]
  /\ \/ route = "agent_form" /\ AF!Init
     \/ route = "prompt" /\ PI!Init
     \/ route = "session_form" /\ SF!Init
     \/ route = "vault" /\ VP!Init
     \/ route = "skills" /\ SK!Init
     \/ route = "publish" /\ PW!Init
     \/ route = "bind" /\ BW!Init
     \/ route = "login" /\ LP!Init
     \/ route = "memory" /\ MP!Init
     \/ route = "environment" /\ EP!Init
     \/ route = "list" /\ RL!Init
     \/ route = "events" /\ EV!Init
     \/ route = "workspace" /\ WP!Init
     \/ route = "account" /\ AC!Init
     \/ route = "evals" /\ EL!Init
     \/ route = "team" /\ TP!Init

Next ==
  /\ UNCHANGED route
  /\ \/ route = "agent_form" /\ AF!Next
     \/ route = "prompt" /\ PI!Next
     \/ route = "session_form" /\ SF!Next
     \/ route = "vault" /\ VP!Next
     \/ route = "skills" /\ SK!Next
     \/ route = "publish" /\ PW!Next
     \/ route = "bind" /\ BW!Next
     \/ route = "login" /\ LP!Next
     \/ route = "memory" /\ MP!Next
     \/ route = "environment" /\ EP!Next
     \/ route = "list" /\ RL!Next
     \/ route = "events" /\ EV!Next
     \/ route = "workspace" /\ WP!Next
     \/ route = "account" /\ AC!Next
     \/ route = "evals" /\ EL!Next
     \/ route = "team" /\ TP!Next

Spec == Init /\ [][Next]_<<ui, srv, left, route>>

-----------------------------------------------------------------------------
\* Turning the form into text and back, with nothing edited, leaves the agent
\* that create would post, but for the model, which gets a default.
FormRoundTrips == route = "agent_form" => AF!FormRoundTrips

\* The URLs in use are those of the files listed: a submit, a removal or an
\* unmount in any order neither leaks one nor leaves a file without.
UrlsMatchItems == route = "prompt" => PI!UrlsMatchItems

\* Once no request counts any more, the warning about MCP servers is computed
\* from the servers of the agent in the form, whatever was answered late; and a
\* secret is in clear only in the row it was asked for, though rows shift.
FormFollowsUser == route = "session_form" => SF!FormFollowsUser

\* A modal that says it waits for confirmation has a loop that asks for it,
\* however flows were cancelled, restarted and answered; and once nothing is to be
\* read again the page lists what the vault holds, what a late loop stored included,
\* unless the page was not told: an answer was lost, a read failed, or a popup
\* reported to a modal that was closed or not at all.
FlowsAreFollowed == route = "vault" => VP!FlowsAreFollowed

\* The files listed under a version are that version's, also after another was
\* uploaded; unless a second dialog was opened while a first was still read.
FilesOfVersion == route = "skills" => SK!FilesOfVersion

\* Past the first step the URL names the publication whose form and whose
\* install link are shown, so that loading the page again resumes that one,
\* also after the user went back and published another.
PinnedIsShown == route = "publish" => PW!PinnedIsShown

\* What is polled is the publication whose form is shown and whose id a reload
\* would resume; unless the user bound one while another was being resumed.
PollsPinned == route = "bind" => BW!PollsPinned

\* Login.tsx "tokens are single-use": no attempt and no resend starts with a token
\* that a call was sent with; but one attempt sends a token twice if its first call
\* is told that the e-mail is not verified.
TokensOnce == route = "login" => LP!TokensOnce

\* Save, delete and roll back replace only the content the dialog was opened
\* with, unless another write lands between a request's check and its write.
GuardHolds == route = "memory" => MP!GuardHolds

\* EnvironmentDetail.tsx "it must round-trip untouched": the type, the dockerfile and
\* gem packages survive every save unless another client changed them after the form
\* was seeded, and an environment of type "sandbox" keeps config.sandbox; any other
\* loses by a save what the page has no name for.
HiddenSurvives == route = "environment" => EP!HiddenSurvives

\* However rows come and go while pages are read, a list shows no row twice,
\* keeps the server's order, and skips no row: one that was there when the first
\* page was read, is there still and sorts before the last row is in the list.
\* It does not hold of files, whose cursor does not follow their order.
NoRowSkipped == route = "list" => RL!NoRowSkipped

\* EventDetail.tsx, View in Debug: an event selected in the transcript is the one
\* the debug tab shows, though the tabs group the messages differently and more
\* events arrive meanwhile; only what that tab hides by default is not.  And
\* selecting a tool's use or its result, in any of its wire forms, shows both.
DebugShowsEvent == route = "events" => EV!DebugShowsEvent

\* bridge.go "publication is unpublished": an install that was discarded, or an
\* agent that was taken down, stays so, whatever an administrator's credentials or
\* the provider's callback that read the row before do to it afterwards.
UnpublishedStays == route = "workspace" => WP!UnpublishedStays

\* CliLogin.tsx "One mint failure aborts the whole batch": the client receives an
\* entry for every workspace that was approved or none at all, however the calls
\* fail, are repeated and overtake each other; and no entry has a token, which this
\* server's answer calls "key".
TokensAllOrNone == route = "account" => AC!TokensAllOrNone

\* EvalRunDetail.tsx "auto-poll while the run is unfinished": a page that has
\* stopped asking shows the state the server has, and a completed run shows its
\* reward even when the trajectory was fetched while the trial was running.
ShownIsFinal == route = "evals" => EL!ShownIsFinal

\* SessionDetail.tsx 537: a message that comes both in an answer and as an event is
\* shown once, whichever comes first (React would otherwise get two equal keys).
MessagesOnce == route = "team" => TP!MessagesOnce
=============================================================================
