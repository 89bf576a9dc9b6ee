---------------------------- MODULE EvalWorker ----------------------------
(***************************************************************************)
(* One evaluation run (internal/eval/worker.go, internal/store/            *)
(* eval_runs.go, internal/api/eval_dispatch.go): every tick the worker     *)
(* takes the run's trials as they were stored, moves each on by one step,  *)
(* and stores the result.  A trial is a session that gets one message      *)
(* after another, each as soon as the session's row says idle.             *)
(***************************************************************************)
EXTENDS Naturals, FiniteSets, Sequences

CONSTANTS Trials,       \* the trials, in order, as numbers
          TaskOf,       \* the task of each
          LastMessage,  \* messages of a task are 0..LastMessage
          MaxCrashes,   \* bound: failed calls and crashes
          None

EvalAssumption == Trials \subseteq Nat /\ LastMessage \in Nat

VARIABLES
  run,       \* the row: its status and the trials as stored
  work,      \* the tick's copy: the trials, those not looked at, what changed
  sessions,  \* the sessions created for trials: where the turn of each is
  late,      \* those that were started longer ago than the timeout
  deleting,  \* the request that deletes the run
  crashes

evars == <<run, work, sessions, late, deleting, crashes>>

Fresh == [status |-> "pending", session |-> None, index |-> 0]
AtRest == [on |-> FALSE, trials |-> [t \in Trials |-> Fresh], todo |-> {},
           progressed |-> FALSE]

Init ==
  /\ run = [status |-> "pending", trials |-> [t \in Trials |-> Fresh]]
  /\ work = AtRest /\ sessions = <<>> /\ late = {} /\ deleting = "no" /\ crashes = 0

Active == run.status \in {"pending", "running"}

Ended(t) == t.status \in {"completed", "failed"}

-----------------------------------------------------------------------------
(***************************************************************************)
(* The worker.                                                             *)
(***************************************************************************)
Tick ==
  /\ ~work.on /\ Active
  /\ work' = [on |-> TRUE, trials |-> run.trials, progressed |-> FALSE,
              todo |-> {t \in Trials : ~Ended(run.trials[t])}]
  /\ UNCHANGED <<run, sessions, late, deleting, crashes>>

\* The trial is looked at, and is now as given.
Moved(t, to) ==
  work' = [work EXCEPT !.trials[t] = to, !.todo = @ \ {t}, !.progressed = TRUE]

Failed(trial) == [trial EXCEPT !.status = "failed"]

Fails == crashes < MaxCrashes /\ crashes' = crashes + 1

\* A session and its first message; what fails leaves the session behind.
StartTrial(t) ==
  LET started == [status |-> "running", session |-> Len(sessions) + 1, index |-> 0]
  IN \/ /\ sessions' = Append(sessions, "queued")
        /\ Moved(t, started) /\ UNCHANGED crashes
     \/ /\ Fails
        /\ \/ UNCHANGED sessions /\ Moved(t, Failed(Fresh))
           \/ sessions' = Append(sessions, "idle") /\ Moved(t, Failed(started))

\* Slip: a trial is never too old.
NeverTimesOut(trial) == FALSE

TimedOut(trial) == trial.session \in late

\* The session's row says idle until the turn of what was queued begins, and when
\* its turn has ended; never after a restart cut the turn off.
SaysIdle(s) == sessions[s] \in {"queued", "idle"}

NextMessage(t, trial) ==
  \/ /\ sessions' = [sessions EXCEPT ![trial.session] = "queued"]
     /\ Moved(t, [trial EXCEPT !.index = @ + 1]) /\ UNCHANGED crashes
  \/ Fails /\ Moved(t, Failed(trial)) /\ UNCHANGED sessions

\* The rubric is satisfied, or not, or cannot be judged.
ScoreTrial(t, trial) ==
  /\ \E verdict \in {"completed", "failed"} : Moved(t, [trial EXCEPT !.status = verdict])
  /\ UNCHANGED <<sessions, crashes>>

AdvanceTrial ==
  /\ work.on /\ work.todo # {}
  /\ LET t == CHOOSE u \in work.todo : \A v \in work.todo : u <= v
         trial == work.trials[t]
     IN IF trial.status = "pending" THEN StartTrial(t)
        ELSE IF TimedOut(trial)
        THEN Moved(t, Failed(trial)) /\ UNCHANGED <<sessions, crashes>>
        ELSE IF ~SaysIdle(trial.session)
        THEN work' = [work EXCEPT !.todo = @ \ {t}] /\ UNCHANGED <<sessions, crashes>>
        ELSE IF trial.index < LastMessage THEN NextMessage(t, trial)
        ELSE ScoreTrial(t, trial)
  /\ UNCHANGED <<run, late, deleting>>

\* A task completes with all its trials; a run fails if no task completes.
Outcome ==
  IF \E k \in {TaskOf[t] : t \in Trials} :
       \A t \in Trials : TaskOf[t] = k => work.trials[t].status = "completed"
  THEN "completed" ELSE "failed"

\* The row is written whatever its status is by now; a row that was deleted is not
\* found.  What cannot be stored is tried again by the next tick, from what was
\* stored before, or fails the run.
Save ==
  /\ work.on /\ work.todo = {}
  /\ work' = AtRest
  /\ \/ /\ UNCHANGED crashes
        /\ run' = IF run.status = "gone" THEN run
                  ELSE IF \A t \in Trials : Ended(work.trials[t])
                  THEN [status |-> Outcome, trials |-> work.trials]
                  ELSE IF work.progressed
                  THEN [status |-> "running", trials |-> work.trials] ELSE run
     \/ /\ Fails
        /\ \/ UNCHANGED run
           \/ run.status # "gone" /\ run' = [run EXCEPT !.status = "failed"]
  /\ UNCHANGED <<sessions, late, deleting>>

-----------------------------------------------------------------------------
(***************************************************************************)
(* Around it: the sessions' turns, time, the user, crashes.                *)
(***************************************************************************)
Turn(s) ==
  /\ \/ sessions[s] = "queued" /\ sessions' = [sessions EXCEPT ![s] = "running"]
     \/ sessions[s] = "running" /\ sessions' = [sessions EXCEPT ![s] = "idle"]
  /\ UNCHANGED <<run, work, late, deleting, crashes>>

\* All that was started so far is too old by now.
TimePasses ==
  /\ late # DOMAIN sessions /\ late' = DOMAIN sessions
  /\ UNCHANGED <<run, work, sessions, deleting, crashes>>

\* DELETE reads the run, marks an active one failed, and deletes the row.
DeleteRun ==
  /\ \/ /\ deleting = "no" /\ run.status # "gone"
        /\ deleting' = "marked"
        /\ run' = IF Active THEN [run EXCEPT !.status = "failed"] ELSE run
     \/ /\ deleting = "marked" /\ deleting' = "done"
        /\ run' = [run EXCEPT !.status = "gone"]
  /\ UNCHANGED <<work, sessions, late, crashes>>

\* On boot a turn that was running is marked interrupted; nothing resumes what was
\* queued, nor the request that was deleting.
Crash ==
  /\ Fails
  /\ work' = AtRest
  /\ sessions' = [s \in DOMAIN sessions |->
                    IF sessions[s] = "running" THEN "interrupted" ELSE sessions[s]]
  /\ deleting' = IF deleting = "marked" THEN "done" ELSE deleting
  /\ UNCHANGED <<run, late>>

Worker == Tick \/ AdvanceTrial \/ Save

Next ==
  \/ Worker \/ TimePasses \/ DeleteRun \/ Crash
  \/ \E s \in DOMAIN sessions : Turn(s)

\* The worker ticks for ever and the clock does not stop; a turn need not end.
Fairness ==
  /\ WF_evars(Worker)
  /\ WF_evars(TimePasses)

-----------------------------------------------------------------------------
\* worker.go, the timeout of a trial: every run ends, or is deleted, though a
\* session's turn may never end, a restart may leave it interrupted, and calls fail.
EveryRunEnds == <>[](~Active)
=============================================================================
