------------------------------ MODULE TeamPanel ------------------------------
(***************************************************************************)
(* The team view of a session (session-detail/TeamPanel.tsx with the team  *)
(* events of SessionDetail.tsx): teams, a member of each, its mailbox and  *)
(* its tasks.  What is shown comes from answers of the server and from the *)
(* session's event stream, in whatever order they arrive.  The lead agent  *)
(* (the harness) makes teams, sends messages and changes tasks.            *)
(***************************************************************************)
EXTENDS Integers, Sequences, FiniteSets

CONSTANTS Teams,        \* numbers; teams are made in this order
          MaxMessages,  \* bound: messages of a session
          MaxRequests,  \* bound: mailbox requests in flight
          None

VARIABLES ui, srv, left

On == ui.page = "team"
Do(u) == ui' = u /\ left > 0 /\ left' = left - 1
See(u) == ui' = u /\ UNCHANGED left

-----------------------------------------------------------------------------
(***************************************************************************)
(* The server: rows, and the log the stream delivers in order.             *)
(***************************************************************************)
Init ==
  /\ srv = [status |-> [t \in Teams |-> "none"], box |-> [t \in Teams |-> <<>>],
            task |-> [t \in Teams |-> 0], log |-> <<>>]
  /\ ui = [page |-> "team", read |-> 0, teams |-> [t \in {} |-> ""], asks |-> 1,
           box |-> [t \in {} |-> <<>>], calls |-> {}, selected |-> None,
           view |-> "mailbox", task |-> 0, polls |-> {}, busy |-> None]

Event(kind, t, n) == [kind |-> kind, t |-> t, n |-> n]
Made == {t \in Teams : srv.status[t] # "none"}

CreateTeam ==
  /\ On /\ left > 0 /\ left' = left - 1
  /\ \E t \in Teams :
       /\ srv.status[t] = "none" /\ \A x \in Teams : x < t => x \in Made
       /\ srv' = [srv EXCEPT !.status[t] = "active", !.log = Append(@, Event("team_created", t, 0))]
  /\ UNCHANGED ui

Sent == UNION {{srv.box[t][i] : i \in DOMAIN srv.box[t]} : t \in Teams}

\* The row first, the event after it.
SendMessage(s, t) ==
  LET n == Cardinality(Sent) + 1
  IN [s EXCEPT !.box[t] = Append(@, n), !.log = Append(@, Event("message", t, n))]

TeamMessage ==
  /\ On /\ left > 0 /\ left' = left - 1 /\ Cardinality(Sent) < MaxMessages
  /\ \E t \in Made : srv' = SendMessage(srv, t)
  /\ UNCHANGED ui

TaskChanges ==
  /\ On /\ left > 0 /\ left' = left - 1
  /\ \E t \in Made : srv.task[t] < 1 /\ srv' = [srv EXCEPT !.task[t] = @ + 1]
  /\ UNCHANGED ui

\* The member's thread takes the request from its mailbox and ends.
MemberShutsDown ==
  /\ On
  /\ \E t \in Made :
       /\ srv.status[t] = "shutting_down"
       /\ srv' = [srv EXCEPT !.status[t] = "shutdown", !.log = Append(@, Event("shutdown", t, 0))]
  /\ UNCHANGED <<ui, left>>

\* Refused for a member that is shut down or about to be.
ShutdownTeamMember(t) ==
  [SendMessage(srv, t) EXCEPT !.status[t] = "shutting_down",
     !.log = srv.log \o <<Event("shutting_down", t, 0),
                          Event("message", t, Cardinality(Sent) + 1)>>]

ListTeams == [t \in Made |-> srv.status[t]]

-----------------------------------------------------------------------------
(***************************************************************************)
(* Events of the stream.                                                   *)
(***************************************************************************)
MailboxOf(t) == IF t \in DOMAIN ui.box THEN ui.box[t] ELSE <<>>
WithBox(t, list) == [x \in DOMAIN ui.box \cup {t} |-> IF x = t THEN list ELSE ui.box[x]]

\* Slip: the row is appended whether it is there or not.
AppendAlways(t, n) == [ui EXCEPT !.box = WithBox(t, Append(MailboxOf(t), n))]

\* A message that is in the list already is left out.
AppendMessage(t, n) ==
  IF \E i \in DOMAIN MailboxOf(t) : MailboxOf(t)[i] = n THEN ui
  ELSE [ui EXCEPT !.box = WithBox(t, Append(MailboxOf(t), n))]

MemberBecomes(t, status) ==
  [ui EXCEPT !.teams = [x \in DOMAIN @ |-> IF x = t THEN status ELSE @[x]]]

StreamEvent ==
  /\ On /\ ui.read < Len(srv.log)
  /\ LET e == srv.log[ui.read + 1]
         u == CASE e.kind = "team_created" -> [ui EXCEPT !.asks = @ + 1]
                [] e.kind = "message" -> AppendMessage(e.t, e.n)
                [] OTHER -> MemberBecomes(e.t, e.kind)
     IN See([u EXCEPT !.read = @ + 1])
  /\ UNCHANGED srv

-----------------------------------------------------------------------------
(***************************************************************************)
(* The teams.                                                              *)
(***************************************************************************)
\* The selected team, as long as there is one; the first otherwise.
Selected(teams, selected) ==
  IF teams = {} THEN None
  ELSE IF selected \in teams THEN selected ELSE CHOOSE t \in teams : \A x \in teams : t <= x

Load(u, t) ==
  [u EXCEPT !.calls = IF Cardinality(@) < MaxRequests
                      THEN @ \cup {[t |-> t, list |-> None, after |-> Cardinality(@)]} ELSE @]

\* A team whose mailbox has not been read is read when it becomes the selected one.
Settle(u) ==
  LET t == Selected(DOMAIN u.teams, u.selected)
      s == [u EXCEPT !.selected = t]
  IN IF t # None /\ t \notin DOMAIN u.box /\ (\A c \in u.calls : c.t # t) THEN Load(s, t) ELSE s

\* Asked when the page opens, for every new team and after a shutdown; the page's
\* own refresh shows no team when it fails.
TeamsAnswer ==
  /\ On /\ ui.asks > 0
  /\ \/ See(Settle([ui EXCEPT !.asks = @ - 1, !.teams = ListTeams]))
     \/ ui.busy # None /\ Do(Settle([ui EXCEPT !.asks = @ - 1, !.teams = [t \in {} |-> ""]]))
     \/ Do([ui EXCEPT !.asks = @ - 1])
  /\ UNCHANGED srv

SelectTeam ==
  /\ On /\ (\E t \in DOMAIN ui.teams \ {ui.selected} : Do(Settle([ui EXCEPT !.selected = t])))
  /\ UNCHANGED srv

-----------------------------------------------------------------------------
(***************************************************************************)
(* The mailbox and the tasks of the selected team.                         *)
(***************************************************************************)
\* The server reads the rows at some time before its answer is shown.
MessagesRead ==
  /\ On
  /\ \E c \in ui.calls :
       c.list = None /\ See([ui EXCEPT !.calls = (@ \ {c}) \cup {[c EXCEPT !.list = srv.box[c.t]]}])
  /\ UNCHANGED srv

\* The answer replaces the list; a failure empties it.
loadMessages ==
  /\ On
  /\ \E c \in ui.calls :
       \/ c.list # None /\ See([ui EXCEPT !.calls = @ \ {c}, !.box = WithBox(c.t, c.list)])
       \/ Do([ui EXCEPT !.calls = @ \ {c}, !.box = WithBox(c.t, <<>>)])
  /\ UNCHANGED srv

Refresh ==
  /\ On /\ ui.selected # None /\ ui.view = "mailbox" /\ ui.calls = {}
  /\ Do(Load(ui, ui.selected)) /\ UNCHANGED srv

RightView ==
  /\ On /\ ui.selected # None
  /\ \E v \in {"mailbox", "tasks"} \ {ui.view} :
       Do([ui EXCEPT !.view = v, !.polls = IF v = "tasks" THEN @ \cup {ui.selected} ELSE @])
  /\ UNCHANGED srv

\* Whatever team was asked for, its answer is what the list shows; a failure
\* empties it.
fetchTasks ==
  /\ On
  /\ \E t \in ui.polls :
       \/ See([ui EXCEPT !.polls = @ \ {t}, !.task = srv.task[t]])
       \/ Do([ui EXCEPT !.polls = @ \ {t}, !.task = 0])
  /\ UNCHANGED srv

PollTasks ==
  /\ On /\ ui.view = "tasks" /\ ui.selected # None /\ ui.selected \notin ui.polls
  /\ Do([ui EXCEPT !.polls = @ \cup {ui.selected}]) /\ UNCHANGED srv

-----------------------------------------------------------------------------
(***************************************************************************)
(* Shutting a member down; a refusal leaves everything as it was.          *)
(***************************************************************************)
CanShutdown(t) == t # None /\ ui.teams[t] \notin {"shutdown", "shutting_down"} /\ ui.busy # t

shutdownMember ==
  /\ On /\ ui.selected \in DOMAIN ui.teams /\ CanShutdown(ui.selected)
  /\ IF srv.status[ui.selected] = "active" /\ Cardinality(Sent) < MaxMessages
     THEN /\ srv' = ShutdownTeamMember(ui.selected)
          /\ Do(Load([ui EXCEPT !.busy = ui.selected, !.asks = @ + 1], ui.selected))
     ELSE Do(ui) /\ UNCHANGED srv

ShutdownDone ==
  /\ On /\ ui.busy # None /\ ui.calls = {} /\ ui.asks = 0
  /\ See([ui EXCEPT !.busy = None]) /\ UNCHANGED srv

Next ==
  \/ CreateTeam \/ TeamMessage \/ TaskChanges \/ MemberShutsDown \/ StreamEvent \/ TeamsAnswer
  \/ SelectTeam \/ MessagesRead \/ loadMessages \/ Refresh \/ RightView \/ fetchTasks
  \/ PollTasks \/ shutdownMember \/ ShutdownDone

-----------------------------------------------------------------------------
\* SessionDetail.tsx 537: a message that comes both in an answer and as an event is
\* shown once, whichever comes first (React would otherwise get two equal keys).
MessagesOnce ==
  On => \A t \in DOMAIN ui.box : \A i, j \in DOMAIN ui.box[t] :
          ui.box[t][i] = ui.box[t][j] => i = j
=============================================================================
