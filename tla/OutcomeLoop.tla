---------------------------- MODULE OutcomeLoop ----------------------------
(***************************************************************************)
(* The outcome supervisor of one session (internal/session,                *)
(* outcome_supervisor.go and outcome_state.go) and everything else that    *)
(* writes the metadata of the session's row.  After a turn the worker      *)
(* judges the output against the active outcome and runs revision turns    *)
(* until the verdict is final; requests define outcomes, edit the metadata *)
(* and interrupt.  Every write reads the whole metadata, merges its keys   *)
(* into it and writes all of it back in a later statement.  SessionLane    *)
(* has the inside of a turn and of the queue.                              *)
(***************************************************************************)
EXTENDS Naturals, Sequences, FiniteSets

CONSTANTS
  Definers,  \* POSTs of user.define_outcome; the outcome has its request's name
  Stops,     \* POSTs of user.interrupt
  Editors,   \* POSTs of other metadata of the session
  Max,       \* max_iterations of each outcome
  MaxCrash,  \* bound on crashes
  None       \* no outcome

Callers == Definers \cup Stops \cup Editors

ASSUME OutcomeAssumption ==
  /\ Max \in [Definers -> Nat \ {0}] /\ MaxCrash \in Nat /\ None \notin Definers
  /\ Definers \cap (Stops \cup Editors) = {} /\ Stops \cap Editors = {}

VARIABLES
  meta,     \* the row's metadata: outcome, outcome_iteration, outcome_evaluations
  log,      \* the span.outcome_evaluation_start and _end events
  jobs,     \* jobs in turnCh
  phase,    \* where the worker is
  run,      \* the supervisor's locals: outcome, iteration, evaluations, verdict, span
  patch,    \* the keys the worker is about to write
  after,    \* where the worker goes when they are written
  snap,     \* what each writer last read of the row
  ctxDone,  \* the turn's context is cancelled
  openUse,  \* the log has a custom tool use without its result
  pc,       \* where each request is
  defined,  \* history: the outcome that was accepted last
  later,    \* history: how many outcomes were accepted after each one
  cuts,     \* history: turns that a cancellation or a crash has cut off
  lost,     \* history: a write has overwritten one it had not read
  crashes

worker  == <<phase, run, patch, after>>
history == <<defined, later, cuts, lost, crashes>>
vars    == <<meta, log, jobs, worker, snap, ctxDone, openUse, pc, history>>

Worker   == "worker"
Results  == {"satisfied", "needs_revision", "max_iterations_reached", "failed"}
Terminal == Results \ {"needs_revision"}
Goals    == Definers \cup {None}
Records  == [outcome : Definers, result : Results, iteration : Nat]
Metadata == [outcome : Goals, iteration : Nat, evaluations : Seq(Records)]
Runs     == [outcome : Goals, iteration : Nat, evaluations : Seq(Records),
             verdict : Results, span : BOOLEAN]
Starts   == [event : {"start"}, outcome : Definers, iteration : Nat]
Ends     == [event : {"end"}, outcome : Definers, result : Results, iteration : Nat,
             span : BOOLEAN]
Phases   == {"idle", "turn", "enter", "check", "reread", "resolve", "model", "loop",
             "evaluate", "verdict", "load", "store", "reload", "next", "feedback",
             "revise", "ended", "release"}

TypeOK ==
  /\ meta \in Metadata
  /\ log \in Seq(Starts \cup Ends)
  /\ jobs \in Nat /\ phase \in Phases /\ run \in Runs
  /\ DOMAIN patch \subseteq {"outcome", "iteration", "evaluations"}
  /\ after \in Phases
  /\ snap \in [Callers \cup {Worker} -> Metadata]
  /\ ctxDone \in BOOLEAN /\ openUse \in BOOLEAN
  /\ pc \in [Callers -> {"new", "write", "event", "read", "done"}]
  /\ defined \in Goals /\ later \in [Definers -> Nat] /\ cuts \in Nat
  /\ lost \in BOOLEAN /\ crashes \in 0..MaxCrash

Fresh == [outcome |-> None, iteration |-> 0, evaluations |-> << >>]
Blank == [outcome |-> None, iteration |-> 0, evaluations |-> << >>,
          verdict |-> "failed", span |-> FALSE]

Init ==
  /\ meta = Fresh /\ log = << >> /\ jobs = 0
  /\ phase = "idle" /\ run = Blank /\ patch = << >> /\ after = "idle"
  /\ snap = [w \in Callers \cup {Worker} |-> Fresh]
  /\ ctxDone = FALSE /\ openUse = FALSE /\ pc = [a \in Callers |-> "new"]
  /\ defined = None /\ later = [o \in Definers |-> 0]
  /\ cuts = 0 /\ lost = FALSE /\ crashes = 0

-----------------------------------------------------------------------------
(***************************************************************************)
(* SessionRepo.Update and mergeSessionMetadataJSON.                        *)
(***************************************************************************)
Read(w) == snap' = [snap EXCEPT ![w] = meta]

Merged(w, p) ==
  [outcome |-> IF "outcome" \in DOMAIN p THEN p["outcome"] ELSE snap[w].outcome,
   iteration |-> IF "iteration" \in DOMAIN p THEN p["iteration"] ELSE snap[w].iteration,
   evaluations |-> IF "evaluations" \in DOMAIN p THEN p["evaluations"]
                   ELSE snap[w].evaluations]

Write(w, p) ==
  /\ meta' = Merged(w, p)
  /\ lost' = (lost \/ meta # snap[w])

\* The worker goes to p.
To(p) == phase' = p /\ UNCHANGED <<patch, after>>

\* Every statement and publication of a turn fails when its context is cancelled,
\* and the error ends the turn.
CutOff ==
  /\ ctxDone /\ To("release")
  /\ cuts' = cuts + 1
  /\ UNCHANGED <<meta, log, jobs, run, snap, ctxDone, openUse, pc, defined, later, lost,
                 crashes>>

\* persistOutcomePatch begins.
Persist(p, then) == patch' = p /\ after' = then /\ phase' = "load"

Load ==
  /\ phase = "load" /\ (~ctxDone \/ after = "release")
  /\ Read(Worker) /\ To("store")
  /\ UNCHANGED <<meta, log, jobs, run, ctxDone, openUse, pc, history>>

Store ==
  /\ phase = "store" /\ (~ctxDone \/ after = "release")
  /\ Write(Worker, patch)
  /\ phase' = after /\ patch' = << >> /\ UNCHANGED after
  /\ UNCHANGED <<log, jobs, run, snap, ctxDone, openUse, pc, defined, later, cuts,
                 crashes>>

-----------------------------------------------------------------------------
(***************************************************************************)
(* The turn of a job, and the way into the supervisor.                     *)
(***************************************************************************)
StartTurn ==
  /\ phase = "idle" /\ jobs > 0
  /\ jobs' = jobs - 1 /\ ctxDone' = FALSE /\ run' = Blank /\ To("turn")
  /\ UNCHANGED <<meta, log, snap, openUse, pc, history>>

\* runSingleHarnessTurn returns nil, after an error of the stream too (failTurn).  The
\* supervisor is for turns of the primary thread; that of another one is over.
TurnEnds ==
  /\ phase = "turn" /\ ~ctxDone
  /\ openUse' \in BOOLEAN /\ (To("enter") \/ To("ended"))
  /\ UNCHANGED <<meta, log, jobs, run, snap, ctxDone, pc, history>>

\* An error before the harness runs (row, sandbox, workdir) ends the job.
TurnErrs ==
  /\ phase = "turn" /\ ~ctxDone /\ To("release")
  /\ UNCHANGED <<meta, log, jobs, run, snap, ctxDone, openUse, pc, history>>

\* maybeRunOutcomeSupervisor: the first read of the row.
Enter ==
  /\ phase = "enter" /\ ~ctxDone
  /\ run' = [Blank EXCEPT !.outcome = meta.outcome, !.iteration = meta.iteration,
                          !.evaluations = meta.evaluations]
  /\ To(IF meta.outcome = None THEN "ended" ELSE "check")
  /\ UNCHANGED <<meta, log, jobs, snap, ctxDone, openUse, pc, history>>

Waits ==
  /\ phase = "check" /\ ~ctxDone /\ openUse /\ To("ended")
  /\ UNCHANGED <<meta, log, jobs, run, snap, ctxDone, openUse, pc, history>>

\* A failed verdict without a span: no evaluator, no rubric, no model.
GivesUp ==
  /\ \/ phase = "check" /\ ~openUse
     \/ phase \in {"resolve", "model"}
  /\ ~ctxDone /\ To("verdict")
  /\ run' = [run EXCEPT !.verdict = "failed", !.span = FALSE]
  /\ UNCHANGED <<meta, log, jobs, snap, ctxDone, openUse, pc, history>>

Supervise ==
  /\ phase = "check" /\ ~ctxDone /\ ~openUse /\ To("reread")
  /\ UNCHANGED <<meta, log, jobs, run, snap, ctxDone, openUse, pc, history>>

\* RunOutcomeSupervisor reads again: the outcome is of this read, the iteration
\* (InitialIteration) of the one before.
Reread ==
  /\ phase = "reread" /\ ~ctxDone
  /\ run' = [run EXCEPT !.outcome = meta.outcome, !.evaluations = meta.evaluations]
  /\ To(IF meta.outcome = None THEN "ended" ELSE "resolve")
  /\ UNCHANGED <<meta, log, jobs, snap, ctxDone, openUse, pc, history>>

\* ensureOutcomeRubricResolved: nothing to resolve, or the content is written back.
Resolve ==
  /\ phase = "resolve" /\ ~ctxDone
  /\ \/ To("model")
     \/ Persist([outcome |-> run.outcome], "model")
  /\ UNCHANGED <<meta, log, jobs, run, snap, ctxDone, openUse, pc, history>>

ResolveModel ==
  /\ phase = "model" /\ ~ctxDone /\ To("loop")
  /\ UNCHANGED <<meta, log, jobs, run, snap, ctxDone, openUse, pc, history>>

-----------------------------------------------------------------------------
(***************************************************************************)
(* The loop of RunOutcomeSupervisor.                                       *)
(***************************************************************************)
\* The head of the loop; its exit gives the verdict on the iteration before.
Iterate ==
  /\ phase = "loop" /\ ~ctxDone
  /\ IF run.iteration < Max[run.outcome]
     THEN /\ log' = Append(log, [event |-> "start", outcome |-> run.outcome,
                                 iteration |-> run.iteration])
          /\ To("evaluate") /\ UNCHANGED run
     ELSE /\ To("verdict") /\ UNCHANGED log
          /\ run' = [run EXCEPT !.verdict = "max_iterations_reached", !.span = FALSE,
                                !.iteration = @ - 1]
  /\ UNCHANGED <<meta, jobs, snap, ctxDone, openUse, pc, history>>

\* mapEvaluatorVerdict: whatever is not a pass asks for a revision, or is the last.
Rejected ==
  IF run.iteration + 1 >= Max[run.outcome] THEN "max_iterations_reached"
  ELSE "needs_revision"

\* An error of the evaluator, a cancelled call's too, is a failed verdict.
Evaluate ==
  /\ phase = "evaluate" /\ To("verdict")
  /\ \E v \in {"satisfied", "failed", Rejected} :
       run' = [run EXCEPT !.verdict = v, !.span = TRUE]
  /\ UNCHANGED <<meta, log, jobs, snap, ctxDone, openUse, pc, history>>

Verdict == [outcome |-> run.outcome, result |-> run.verdict, iteration |-> run.iteration]

\* What emitOutcomeVerdict writes: a final verdict takes the outcome away.
VerdictPatch ==
  IF run.verdict \in Terminal
  THEN [outcome |-> None, evaluations |-> Append(run.evaluations, Verdict)]
  ELSE [outcome |-> run.outcome, iteration |-> run.iteration,
        evaluations |-> Append(run.evaluations, Verdict)]

\* Slip: a verdict without a span is recorded but not published.
QuietVerdict ==
  /\ phase = "verdict" /\ ~ctxDone
  /\ log' = IF run.span THEN Append(log, [event |-> "end", outcome |-> run.outcome,
                                          result |-> run.verdict,
                                          iteration |-> run.iteration, span |-> TRUE])
            ELSE log
  /\ Persist(VerdictPatch, IF run.span THEN "reload" ELSE "ended")
  /\ UNCHANGED <<meta, jobs, run, snap, ctxDone, openUse, pc, history>>

\* Slip: an evaluator that fails ends the supervisor without a verdict.
DropFailed ==
  /\ phase = "verdict" /\ ~ctxDone
  /\ IF run.verdict = "failed" THEN To("ended") /\ UNCHANGED log
     ELSE /\ log' = Append(log, [event |-> "end", outcome |-> run.outcome,
                                 result |-> run.verdict, iteration |-> run.iteration,
                                 span |-> run.span])
          /\ Persist(VerdictPatch, IF run.span THEN "reload" ELSE "ended")
  /\ UNCHANGED <<meta, jobs, run, snap, ctxDone, openUse, pc, history>>

\* emitOutcomeVerdict: first the event, then the row.
EmitVerdict ==
  /\ phase = "verdict" /\ ~ctxDone
  /\ log' = Append(log, [event |-> "end", outcome |-> run.outcome,
                         result |-> run.verdict, iteration |-> run.iteration,
                         span |-> run.span])
  /\ Persist(VerdictPatch, IF run.span THEN "reload" ELSE "ended")
  /\ UNCHANGED <<meta, jobs, run, snap, ctxDone, openUse, pc, history>>

\* The state is read again for its evaluations; the outcome stays the local one.
Reload ==
  /\ phase = "reload" /\ ~ctxDone
  /\ run' = [run EXCEPT !.evaluations = meta.evaluations]
  /\ To(IF run.verdict \in Terminal THEN "ended" ELSE "next")
  /\ UNCHANGED <<meta, log, jobs, snap, ctxDone, openUse, pc, history>>

\* Slip: the loop begins again with the first iteration.
NextUnsaved ==
  /\ phase = "next" /\ ~ctxDone
  /\ run' = [run EXCEPT !.iteration = 0] /\ To("feedback")
  /\ UNCHANGED <<meta, log, jobs, snap, ctxDone, openUse, pc, history>>

NextIteration ==
  /\ phase = "next" /\ ~ctxDone
  /\ run' = [run EXCEPT !.iteration = @ + 1]
  /\ Persist([outcome |-> run.outcome, iteration |-> run.iteration + 1], "feedback")
  /\ UNCHANGED <<meta, log, jobs, snap, ctxDone, openUse, pc, history>>

\* The feedback is published as a user.message.
Feedback ==
  /\ phase = "feedback" /\ ~ctxDone /\ To("revise")
  /\ UNCHANGED <<meta, log, jobs, run, snap, ctxDone, openUse, pc, history>>

\* The revision turn returns nil; whether a tool use is open is not looked at.
Revise ==
  /\ phase = "revise" /\ ~ctxDone
  /\ openUse' \in BOOLEAN /\ To("loop")
  /\ UNCHANGED <<meta, log, jobs, run, snap, ctxDone, pc, history>>

\* An error before the harness runs is the verdict "harness crashed".
RevisionErrs ==
  /\ phase = "revise" /\ ~ctxDone /\ To("verdict")
  /\ run' = [run EXCEPT !.verdict = "failed", !.span = FALSE]
  /\ UNCHANGED <<meta, log, jobs, snap, ctxDone, openUse, pc, history>>

\* publishStatusIdle writes pending_tool_calls, on a context of its own.
PublishIdle ==
  /\ phase = "ended" /\ Persist(<< >>, "release")
  /\ UNCHANGED <<meta, log, jobs, run, snap, ctxDone, openUse, pc, history>>

Release ==
  /\ phase = "release" /\ To("idle") /\ run' = Blank
  /\ UNCHANGED <<meta, log, jobs, snap, ctxDone, openUse, pc, history>>

\* Where a step of the turn notices that its context is cancelled.
InTurn == \/ phase \notin {"idle", "evaluate", "load", "store", "ended", "release"}
          \/ phase \in {"load", "store"} /\ after # "release"

Cancelled == InTurn /\ CutOff

-----------------------------------------------------------------------------
(***************************************************************************)
(* The requests.                                                           *)
(***************************************************************************)
Goto(a, l) == pc' = [pc EXCEPT ![a] = l]

\* A read of the whole metadata, to be merged and written back.
StartUpdate(a) ==
  /\ a \in Definers \cup Editors /\ pc[a] = "new"
  /\ Read(a) /\ Goto(a, "write")
  /\ UNCHANGED <<meta, log, jobs, worker, ctxDone, openUse, history>>

\* ActivateOutcomeFromEvent.
Define(d) ==
  /\ d \in Definers /\ pc[d] = "write"
  /\ Write(d, [outcome |-> d, iteration |-> 0])
  /\ defined' = d /\ Goto(d, "event")
  /\ later' = [o \in Definers |-> IF o = d THEN 0 ELSE later[o] + 1]
  /\ UNCHANGED <<log, jobs, worker, snap, ctxDone, openUse, cuts, crashes>>

\* The event is appended, and a message of the same request starts a turn.
Accept(d) ==
  /\ pc[d] = "event" /\ Goto(d, "done")
  /\ jobs' \in {jobs, jobs + 1}
  /\ UNCHANGED <<meta, log, worker, snap, ctxDone, openUse, history>>

\* handleSessionUpdate, and syncPendingToolCallsMetadata of an interrupt.
Edit(a) ==
  /\ a \in Editors \cup Stops /\ pc[a] = "write"
  /\ Write(a, << >>) /\ Goto(a, "done")
  /\ UNCHANGED <<log, jobs, worker, snap, ctxDone, openUse, defined, later, cuts,
                 crashes>>

\* CancelActiveTurn and drainPendingTurns; PublishInterruptIdle follows if one of
\* them had something to do.
Interrupt(s) ==
  /\ s \in Stops /\ pc[s] = "new"
  /\ ctxDone' = (ctxDone \/ phase # "idle") /\ jobs' = 0
  /\ Goto(s, IF phase # "idle" \/ jobs > 0 THEN "read" ELSE "done")
  /\ UNCHANGED <<meta, log, worker, snap, openUse, history>>

StartIdle(s) ==
  /\ s \in Stops /\ pc[s] = "read"
  /\ Read(s) /\ Goto(s, "write")
  /\ UNCHANGED <<meta, log, jobs, worker, ctxDone, openUse, history>>

\* The process dies with its worker, its channel and its requests.
Crash ==
  /\ crashes < MaxCrash /\ crashes' = crashes + 1
  /\ phase' = "idle" /\ run' = Blank /\ patch' = << >> /\ after' = "idle"
  /\ jobs' = 0 /\ ctxDone' = FALSE
  /\ cuts' = IF phase = "idle" THEN cuts ELSE cuts + 1
  /\ pc' = [a \in Callers |-> IF pc[a] = "new" THEN "new" ELSE "done"]
  /\ UNCHANGED <<meta, log, snap, openUse, defined, later, lost>>

-----------------------------------------------------------------------------
Turn == \/ StartTurn \/ TurnEnds \/ TurnErrs \/ Enter \/ Waits \/ GivesUp \/ Supervise
        \/ Reread \/ Resolve \/ ResolveModel \/ Load \/ Store \/ Cancelled
        \/ PublishIdle \/ Release
Loop == \/ Iterate \/ Evaluate \/ EmitVerdict \/ Reload \/ NextIteration \/ Feedback
        \/ Revise \/ RevisionErrs
Request(a) == \/ StartUpdate(a) \/ Define(a) \/ Accept(a) \/ Edit(a) \/ Interrupt(a)
              \/ StartIdle(a)

Next == Turn \/ Loop \/ Crash \/ \E a \in Callers : Request(a)

\* The worker runs on: an evaluator call has a time limit; that the harness ends its
\* stream is assumed, as the platform sets it none.
Spec     == Init /\ [][Next]_vars
FairSpec == Spec /\ WF_vars(Turn \/ Loop)

-----------------------------------------------------------------------------
StartsOf(o) == {i \in 1..Len(log) : log[i].event = "start" /\ log[i].outcome = o}
EndsOf(o)   == {i \in 1..Len(log) : log[i].event = "end" /\ log[i].outcome = o}
FinalOf(o)  == {i \in EndsOf(o) : log[i].result \in Terminal}

\* outcome_supervisor.go, "for iteration < maxIterations" over the stored iteration:
\* when no write of the metadata was lost, an outcome costs at most its maximum of
\* evaluations, one more for each turn that was cut off, and once more its maximum for
\* each outcome accepted after it: that one sets the iteration to 0, and the rubric of
\* the first, written back, takes the place of the second without it.
IterationsBounded ==
  ~lost => \A o \in Definers :
    Cardinality(StartsOf(o)) <= Max[o] * (1 + later[o]) + cuts

\* emitOutcomeVerdict: every evaluation span is closed but the one that runs and
\* those of turns that were cut off.
SpansClosed ==
  LET starts == {i \in 1..Len(log) : log[i].event = "start"}
      closed == {i \in 1..Len(log) : log[i].event = "end" /\ log[i].span}
  IN  Cardinality(starts) <= Cardinality(closed) + cuts
                             + IF phase \in {"evaluate", "verdict"} THEN 1 ELSE 0

\* outcome_supervisor.go, "patch[outcome] = nil": an outcome with a final verdict is
\* not judged again, unless a turn was cut off or a write of the metadata lost.
TerminalIsFinal ==
  cuts = 0 /\ ~lost => \A o \in Definers : \A i \in FinalOf(o) :
    \A j \in StartsOf(o) \cup EndsOf(o) : j <= i

Recorded(e) == [outcome |-> e.outcome, result |-> e.result, iteration |-> e.iteration]
IsEnd(e)    == e.event = "end"

\* outcome_supervisor.go, publishEvents before persistOutcomePatch: the metadata has
\* no record without its event, whatever is lost, cut off or written concurrently.
RecordsAreLogged ==
  \A i \in 1..Len(meta.evaluations) : \E j \in 1..Len(log) :
    IsEnd(log[j]) /\ meta.evaluations[i] = Recorded(log[j])

AllEnds == {i \in 1..Len(log) : IsEnd(log[i])}

\* outcome_supervisor.go, "append(prior, record)": between turns every verdict of the
\* log has its record, in order, unless a turn was cut off or a write lost.
RecordsComplete ==
  phase = "idle" /\ cuts = 0 /\ ~lost =>
    /\ Len(meta.evaluations) = Cardinality(AllEnds)
    /\ \A i \in AllEnds :
         meta.evaluations[Cardinality({j \in AllEnds : j <= i})] = Recorded(log[i])

\* outcome_supervisor.go, the loop and emitOutcomeVerdict: through cancellations, a
\* crash and writes that overwrite each other, no outcome costs more evaluations than
\* it may, no evaluation stays open, no final verdict is given twice and no verdict
\* goes unrecorded, but for turns cut off and writes lost.
EvaluationsAreSound ==
  IterationsBounded /\ SpansClosed /\ TerminalIsFinal /\ RecordsComplete

\* outcome_supervisor.go: an outcome that the supervisor finds in the row gets a
\* final verdict, unless a tool use is open, the turn is cut off, a write is lost or
\* another outcome is defined.
OutcomeIsJudged ==
  \A o \in Definers :
    (phase = "enter" /\ meta.outcome = o) ~>
      \/ FinalOf(o) # {}
      \/ openUse \/ ctxDone \/ cuts > 0 \/ lost
      \/ \E d \in Definers \ {o} : pc[d] # "new"

-----------------------------------------------------------------------------
\* session-events.md: an outcome that was registered is evaluated later; the verdict
\* on the one before does not end it, even when no write is lost.
VerdictSparesNext ==
  ~lost /\ defined # None /\ FinalOf(defined) = {} => meta.outcome = defined
=============================================================================
