------------------------------ MODULE EvalPages ------------------------------
(***************************************************************************)
(* The evaluation pages (EvalRunsList.tsx, EvalRunDetail.tsx): both ask    *)
(* again every five seconds while they show an unfinished run, and the     *)
(* page of one run fetches the trajectory of a trial once, when its task   *)
(* is opened.  The runs are advanced by the worker and can be deleted.     *)
(***************************************************************************)
EXTENDS Integers, FiniteSets

CONSTANTS Runs, None

VARIABLES ui, srv, left

On == ui.page = "evals"
AtView(v) == On /\ ui.view = v
Statuses == {"pending", "running", "completed", "failed"}
Active == {"pending", "running"}

Do(u) == ui' = u /\ left > 0 /\ left' = left - 1
See(u) == ui' = u /\ UNCHANGED left

-----------------------------------------------------------------------------
(***************************************************************************)
(* The server: a run has one task of one trial; its reward is written when *)
(* the trial has been scored, and a reward of zero is left out.            *)
(***************************************************************************)
NewRun == [status |-> "pending", session |-> FALSE, reward |-> None]

Advance ==
  /\ On /\ left > 0 /\ left' = left - 1
  /\ \E r \in DOMAIN srv :
       \/ srv[r].status = "pending"
          /\ srv' = [srv EXCEPT ![r].status = "running", ![r].session = TRUE]
       \/ srv[r].status = "running"
          /\ \/ srv' = [srv EXCEPT ![r].status = "completed", ![r].reward = "1"]
             \/ srv' = [srv EXCEPT ![r].status = "failed"]
  /\ UNCHANGED ui

\* An unfinished run is failed first; the row goes in any case.
Without(r) == [x \in DOMAIN srv \ {r} |-> srv[x]]

List(filter) ==
  [r \in {x \in DOMAIN srv : filter = "any" \/ srv[x].status = filter} |-> srv[r]]

-----------------------------------------------------------------------------
(***************************************************************************)
(* What the pages keep: the rows of the last good answer, whether a        *)
(* request is out and whether the timer of the next one runs.              *)
(***************************************************************************)
Opened(view, id) ==
  [page |-> "evals", view |-> view, id |-> id, filter |-> "any", rows |-> [r \in {} |-> NewRun],
   known |-> FALSE, call |-> TRUE, poll |-> FALSE, error |-> FALSE, open |-> FALSE,
   trajectory |-> "none"]

Init ==
  /\ srv = [r \in Runs |-> NewRun]
  /\ ui = Opened("list", None)

\* Slip: only a run that has started keeps the timer going.
IntervalRunning(rows) == \E r \in DOMAIN rows : rows[r].status = "running"

\* refetchInterval: asks again while a run of the answer is unfinished.
Interval(rows) == \E r \in DOMAIN rows : rows[r].status \in Active

Shows(rows) ==
  [ui EXCEPT !.rows = rows, !.known = TRUE, !.call = FALSE, !.error = FALSE,
             !.poll = Interval(rows)]

RunsAnswer == AtView("list") /\ ui.call /\ See(Shows(List(ui.filter))) /\ UNCHANGED srv

RunAnswer ==
  /\ AtView("detail") /\ ui.call /\ ui.id \in DOMAIN srv
  /\ See(Shows([r \in {ui.id} |-> srv[r]]))
  /\ UNCHANGED srv

\* A failing request leaves the rows and their timer; the page of a run shows the
\* error in place of the run.
LoadFails ==
  /\ On /\ ui.call
  /\ Do([ui EXCEPT !.call = FALSE, !.error = TRUE, !.poll = ui.known /\ Interval(ui.rows)])
  /\ UNCHANGED srv

Tick == On /\ ui.poll /\ ~ui.call /\ See([ui EXCEPT !.call = TRUE, !.poll = FALSE]) /\ UNCHANGED srv

-----------------------------------------------------------------------------
(***************************************************************************)
(* The list.                                                               *)
(***************************************************************************)
\* Another filter is another request; its rows are not known yet.
StatusFilter ==
  /\ AtView("list")
  /\ \E s \in ({"any"} \cup Statuses) \ {ui.filter} :
       Do([Opened("list", None) EXCEPT !.filter = s])
  /\ UNCHANGED srv

Refetch(u) == [u EXCEPT !.call = TRUE, !.poll = FALSE]

CancelRun ==
  /\ AtView("list")
  /\ \E r \in DOMAIN ui.rows \cap DOMAIN srv :
       ui.rows[r].status \in Active /\ Do(Refetch(ui)) /\ srv' = Without(r)

DeleteRun ==
  /\ AtView("list")
  /\ \E r \in DOMAIN ui.rows \cap DOMAIN srv : Do(Refetch(ui)) /\ srv' = Without(r)

OpenRun ==
  /\ AtView("list") /\ (\E r \in DOMAIN ui.rows : Do(Opened("detail", r))) /\ UNCHANGED srv

-----------------------------------------------------------------------------
(***************************************************************************)
(* The page of a run.                                                      *)
(***************************************************************************)
Rendered == AtView("detail") /\ ui.known /\ ~ui.error
Shown == ui.rows[ui.id]

\* Opening a task fetches the trajectory unless it has been asked for.
toggleExpand ==
  /\ Rendered
  /\ Do([ui EXCEPT !.open = ~@,
                   !.trajectory = IF @ = "none" /\ Shown.session THEN "loading" ELSE @])
  /\ UNCHANGED srv

\* A session that is still at work has a trajectory without a reward.
fetchTrajectory ==
  /\ AtView("detail") /\ ui.trajectory = "loading"
  /\ \/ ui.id \in DOMAIN srv
        /\ See([ui EXCEPT !.trajectory = IF srv[ui.id].reward = None THEN "no reward" ELSE "1"])
     \/ See([ui EXCEPT !.trajectory = "error"])
  /\ UNCHANGED srv

\* The cell of a trial: the trajectory's reward, or the one of the run's row.
TrialReward(trajectory, fallback) ==
  IF trajectory \in {"1", "loading"} THEN trajectory
  ELSE IF fallback # None THEN fallback
  ELSE IF trajectory = "error" THEN "unavailable" ELSE "-"

BackToList ==
  AtView("detail") /\ Do(Opened("list", None)) /\ UNCHANGED srv

Next ==
  \/ Advance \/ RunsAnswer \/ RunAnswer \/ LoadFails \/ Tick \/ StatusFilter \/ CancelRun
  \/ DeleteRun \/ OpenRun \/ toggleExpand \/ fetchTrajectory \/ BackToList

-----------------------------------------------------------------------------
\* EvalRunDetail.tsx "auto-poll while the run is unfinished": a page that has
\* stopped asking shows the state the server has, and a completed run shows its
\* reward even when the trajectory was fetched while the trial was running.
ShownIsFinal ==
  On /\ ~ui.call /\ ~ui.poll =>
    /\ \A r \in DOMAIN ui.rows \cap DOMAIN srv : ui.rows[r].status = srv[r].status
    /\ Rendered /\ Shown.status = "completed"
         => TrialReward(ui.trajectory, Shown.reward) \in {"1", "loading"}
=============================================================================
