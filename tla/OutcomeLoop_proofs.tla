------------------------- MODULE OutcomeLoop_proofs -------------------------
(***************************************************************************)
(* Proofs about the outcome supervisor and the writers of its row.  First  *)
(* that a recorded verdict always has its event in the log: the event is   *)
(* published first, and every copy of the records came from the row.  Then *)
(* that evaluations stay sound: they are bounded, their spans closed, a    *)
(* final verdict is the last and every verdict is recorded.                *)
(***************************************************************************)
EXTENDS OutcomeLoop, FiniteSetTheorems, TLAPS

\* Where the supervisor has an outcome to judge.
Judging == {"check", "resolve", "model", "loop", "evaluate", "verdict", "reload", "next",
            "feedback", "revise"}

HasOutcome ==
  phase \in Judging \/ (phase \in {"load", "store"} /\ after \in Judging)
    => run.outcome \in Definers

PatchTyped ==
  /\ "outcome" \in DOMAIN patch => patch["outcome"] \in Goals
  /\ "iteration" \in DOMAIN patch => patch["iteration"] \in Nat
  /\ "evaluations" \in DOMAIN patch => patch["evaluations"] \in Seq(Records)

Typed == TypeOK /\ HasOutcome /\ PatchTyped

\* Every record of s has its event in l.
LoggedIn(s, l) ==
  \A i \in 1..Len(s) : \E j \in 1..Len(l) : IsEnd(l[j]) /\ s[i] = Recorded(l[j])

Logged(s) == LoggedIn(s, log)

\* So have the copies that writers hold and the patch that is on its way.
CopiesLogged ==
  /\ Logged(meta.evaluations) /\ Logged(run.evaluations)
  /\ \A w \in Callers \cup {Worker} : Logged(snap[w].evaluations)
  /\ "evaluations" \in DOMAIN patch => Logged(patch["evaluations"])

IInv == Typed /\ CopiesLogged

-----------------------------------------------------------------------------
LEMMA LoggedGrows ==
  ASSUME NEW s, NEW l, NEW k, LoggedIn(s, l), Len(l) \in Nat, Len(k) \in Nat,
         Len(k) >= Len(l), \A j \in 1..Len(l) : k[j] = l[j]
  PROVE  LoggedIn(s, k)
BY DEF LoggedIn

LEMMA LoggedAppend ==
  ASSUME NEW s \in Seq(Records), NEW r \in Records, NEW l, LoggedIn(s, l),
         \E j \in 1..Len(l) : IsEnd(l[j]) /\ r = Recorded(l[j])
  PROVE  LoggedIn(Append(s, r), l)
<1>1. Len(Append(s, r)) = Len(s) + 1 /\ Append(s, r)[Len(s) + 1] = r
      /\ \A i \in 1..Len(s) : Append(s, r)[i] = s[i]
  OBVIOUS
<1> QED
  BY <1>1 DEF LoggedIn

LEMMA InitOutcome ==
  ASSUME OutcomeAssumption, Init
  PROVE  IInv
<1> USE DEF Init, OutcomeAssumption, Fresh, Blank, Goals
<1>1. meta \in Metadata /\ run \in Runs /\ snap \in [Callers \cup {Worker} -> Metadata]
  BY DEF Metadata, Runs, Results
<1>2. HasOutcome /\ PatchTyped
  BY DEF HasOutcome, PatchTyped, Judging
<1>3. /\ pc \in [Callers -> {"new", "write", "event", "read", "done"}]
      /\ DOMAIN patch \subseteq {"outcome", "iteration", "evaluations"}
      /\ log \in Seq(Starts \cup Ends) /\ phase \in Phases /\ after \in Phases
  BY DEF Phases
<1>5. TypeOK
  <2>1. jobs \in Nat /\ defined \in Goals /\ cuts \in Nat
        /\ later \in [Definers -> Nat] /\ crashes \in 0..MaxCrash
    OBVIOUS
  <2>2. ctxDone \in BOOLEAN /\ openUse \in BOOLEAN /\ lost \in BOOLEAN
    OBVIOUS
  <2> HIDE DEF Init, Goals
  <2> QED
    BY <1>1, <1>3, <2>1, <2>2 DEF TypeOK
<1>4. CopiesLogged
  BY DEF CopiesLogged, Logged, LoggedIn, Worker
<1> QED
  BY <1>2, <1>4, <1>5 DEF IInv, Typed

LEMMA TypeStep ==
  ASSUME OutcomeAssumption, Typed, [Next]_vars
  PROVE  Typed'
<1> USE DEF OutcomeAssumption, Typed, TypeOK, HasOutcome, PatchTyped, Judging, To, Goto,
            worker, history, Phases, Goals
<1>1. ASSUME StartTurn
      PROVE  Typed'
  <2>1. run' = Blank /\ phase' = "turn" /\ jobs' = jobs - 1 /\ ctxDone' = FALSE
        /\ jobs > 0
        /\ UNCHANGED <<meta, log, patch, after, snap, openUse, pc, defined, later,
                       cuts, lost, crashes>>
    BY <1>1 DEF StartTurn
  <2>2. Blank \in Runs
    BY DEF Blank, Runs, Results
  <2>3. TypeOK'
    <3>1. phase' \in Phases /\ run' \in Runs /\ jobs' \in Nat
      BY <2>1, <2>2
    <3>2. ctxDone' \in BOOLEAN
      BY <2>1
    <3> QED
      BY <2>1, <3>1, <3>2
  <2>4. HasOutcome' /\ PatchTyped'
    BY <2>1
  <2> QED
    BY <2>3, <2>4
<1>2. ASSUME TurnEnds
      PROVE  Typed'
  BY <1>2 DEF TurnEnds
<1>3. ASSUME TurnErrs
      PROVE  Typed'
  BY <1>3 DEF TurnErrs
<1>4. ASSUME Enter
      PROVE  Typed'
  <2>1. run' \in Runs
    BY <1>4 DEF Enter, Runs, Results, Blank, Metadata
  <2>2. HasOutcome'
    BY <1>4 DEF Enter, Runs, Results, Blank, Metadata
  <2> QED
    BY <1>4, <2>1, <2>2 DEF Enter
<1>5. ASSUME Waits
      PROVE  Typed'
  BY <1>5 DEF Waits
<1>6. ASSUME GivesUp
      PROVE  Typed'
  <2>1. run' \in Runs
    BY <1>6 DEF GivesUp, Runs, Results
  <2>2. HasOutcome'
    BY <1>6 DEF GivesUp, Runs, Results
  <2> QED
    BY <1>6, <2>1, <2>2 DEF GivesUp
<1>7. ASSUME Supervise
      PROVE  Typed'
  BY <1>7 DEF Supervise
<1>8. ASSUME Reread
      PROVE  Typed'
  <2>1. run' \in Runs
    BY <1>8 DEF Reread, Runs, Results, Metadata
  <2>2. HasOutcome'
    BY <1>8 DEF Reread, Runs, Results, Metadata
  <2> QED
    BY <1>8, <2>1, <2>2 DEF Reread
<1>9. ASSUME Resolve
      PROVE  Typed'
  BY <1>9 DEF Resolve, Persist
<1>10. ASSUME ResolveModel
      PROVE  Typed'
  BY <1>10 DEF ResolveModel
<1>11. ASSUME Load
      PROVE  Typed'
  BY <1>11 DEF Load, Read
<1>12. ASSUME Store
      PROVE  Typed'
  <2>1. /\ phase' = after /\ patch' = << >> /\ meta' = Merged(Worker, patch)
        /\ lost' \in BOOLEAN
        /\ UNCHANGED <<after, log, jobs, run, snap, ctxDone, openUse, pc, defined, later,
                       cuts, crashes>>
    BY <1>12 DEF Store, Write
  <2>2. meta' \in Metadata
    <3>1. snap[Worker] \in Metadata
      OBVIOUS
    <3> QED
      BY <2>1, <3>1 DEF Merged, Metadata
  <2>3. HasOutcome' /\ PatchTyped'
    BY <1>12, <2>1 DEF Store
  <2> QED
    BY <2>1, <2>2, <2>3
<1>13. ASSUME Cancelled
      PROVE  Typed'
  <2>1. phase' = "release" /\ cuts' = cuts + 1
        /\ UNCHANGED <<meta, log, jobs, run, patch, after, snap, ctxDone, openUse, pc,
                       defined, later, lost, crashes>>
    BY <1>13 DEF Cancelled, CutOff
  <2> QED
    BY <2>1
<1>14. ASSUME PublishIdle
      PROVE  Typed'
  BY <1>14 DEF PublishIdle, Persist
<1>15. ASSUME Release
      PROVE  Typed'
  BY <1>15 DEF Release, Runs, Blank, Results
<1>16. ASSUME Iterate
      PROVE  Typed'
  <2>1. run.outcome \in Definers /\ Max[run.outcome] \in Nat \ {0} /\ run \in Runs
    BY <1>16 DEF Iterate
  <2>2. CASE run.iteration < Max[run.outcome]
    <3>1. [event |-> "start", outcome |-> run.outcome, iteration |-> run.iteration] \in Starts
      BY <2>1 DEF Starts, Runs
    <3> DEFINE e == [event |-> "start", outcome |-> run.outcome,
                     iteration |-> run.iteration]
    <3>2. log' \in Seq(Starts \cup Ends)
      <4>1. log' = Append(log, e) /\ e \in Starts \cup Ends
        BY <1>16, <2>2, <3>1 DEF Iterate
      <4> HIDE DEF e
      <4> QED
        BY <4>1
    <3> QED
      BY <1>16, <2>1, <2>2, <3>2 DEF Iterate
  <2>3. CASE ~(run.iteration < Max[run.outcome])
    <3>1. run.iteration \in Nat /\ run.iteration - 1 \in Nat
      BY <2>1, <2>3 DEF Runs
    <3>2. run' = [run EXCEPT !.verdict = "max_iterations_reached", !.span = FALSE,
                             !.iteration = run.iteration - 1]
      BY <1>16, <2>3 DEF Iterate
    <3>3. run' \in Runs /\ run'.outcome = run.outcome
      BY <2>1, <3>1, <3>2 DEF Runs, Results
    <3>4. phase' = "verdict" /\ UNCHANGED log
      BY <1>16, <2>3 DEF Iterate
    <3> QED
      BY <1>16, <2>1, <3>3, <3>4 DEF Iterate
  <2> QED
    BY <2>2, <2>3
<1>17. ASSUME Evaluate
      PROVE  Typed'
  <2>1. PICK v \in {"satisfied", "failed", Rejected} :
             run' = [run EXCEPT !.verdict = v, !.span = TRUE]
    BY <1>17 DEF Evaluate
  <2>2. v \in Results
    BY DEF Rejected, Results
  <2>3. run' \in Runs /\ run'.outcome = run.outcome
    BY <2>1, <2>2 DEF Runs
  <2> QED
    BY <1>17, <2>3 DEF Evaluate
<1>18. ASSUME EmitVerdict
      PROVE  Typed'
  <2>1. run.outcome \in Definers /\ run \in Runs
    BY <1>18 DEF EmitVerdict
  <2>2. Verdict \in Records /\ run.evaluations \in Seq(Records) /\ run.iteration \in Nat
    BY <2>1 DEF Verdict, Records, Runs
  <2>3. Append(run.evaluations, Verdict) \in Seq(Records)
    BY <2>2
  <2>4. log' \in Seq(Starts \cup Ends)
    <3>1. [event |-> "end", outcome |-> run.outcome, result |-> run.verdict,
           iteration |-> run.iteration, span |-> run.span] \in Ends
      BY <2>1 DEF Runs, Ends
    <3> QED
      BY <1>18, <3>1 DEF EmitVerdict
  <2>5. PatchTyped'
    BY <1>18, <2>1, <2>2, <2>3 DEF EmitVerdict, Persist, VerdictPatch
  <2> QED
    <3>1. phase' = "load" /\ after' \in {"reload", "ended"}
      BY <1>18 DEF EmitVerdict, Persist
    <3> QED
      <4>1. DOMAIN patch' \subseteq {"outcome", "iteration", "evaluations"}
        BY <1>18 DEF EmitVerdict, Persist, VerdictPatch
      <4>2. UNCHANGED <<meta, jobs, run, snap, ctxDone, openUse, pc, defined, later,
                        cuts, lost, crashes>>
        BY <1>18 DEF EmitVerdict
      <4>3. TypeOK'
        BY <2>4, <3>1, <4>1, <4>2
      <4>4. HasOutcome'
        BY <2>1, <3>1, <4>2
      <4> QED
        BY <2>5, <4>3, <4>4
<1>19. ASSUME Reload
      PROVE  Typed'
  <2>1. run' \in Runs
    BY <1>19 DEF Reload, Runs, Results, Metadata
  <2>2. HasOutcome'
    BY <1>19 DEF Reload, Runs, Results, Metadata
  <2> QED
    BY <1>19, <2>1, <2>2 DEF Reload
<1>20. ASSUME NextIteration
      PROVE  Typed'
  <2>1. run.outcome \in Definers /\ run \in Runs /\ run.iteration + 1 \in Nat
    BY <1>20 DEF NextIteration, Runs
  <2>2. run' = [run EXCEPT !.iteration = run.iteration + 1]
    BY <1>20 DEF NextIteration
  <2>3. run' \in Runs /\ run'.outcome = run.outcome
    BY <2>1, <2>2 DEF Runs
  <2>4. PatchTyped'
    BY <1>20, <2>1 DEF NextIteration, Persist
  <2>5. phase' = "load" /\ after' = "feedback"
    BY <1>20 DEF NextIteration, Persist
  <2> QED
    <3>1. TypeOK'
      BY <1>20, <2>3, <2>5 DEF NextIteration, Persist
    <3>2. HasOutcome'
      BY <2>1, <2>3, <2>5
    <3> QED
      BY <2>4, <3>1, <3>2
<1>21. ASSUME Feedback
      PROVE  Typed'
  BY <1>21 DEF Feedback
<1>22. ASSUME Revise
      PROVE  Typed'
  BY <1>22 DEF Revise
<1>23. ASSUME RevisionErrs
      PROVE  Typed'
  <2>1. run' \in Runs
    BY <1>23 DEF RevisionErrs, Runs, Results
  <2>2. HasOutcome'
    BY <1>23 DEF RevisionErrs, Runs, Results
  <2> QED
    BY <1>23, <2>1, <2>2 DEF RevisionErrs
<1>24. ASSUME Crash
      PROVE  Typed'
  <2>1. run' = Blank /\ phase' = "idle" /\ after' = "idle" /\ patch' = << >>
        /\ jobs' = 0 /\ ctxDone' = FALSE
        /\ UNCHANGED <<meta, log, snap, openUse, defined, later, lost>>
    BY <1>24 DEF Crash
  <2>2. Blank \in Runs
    BY DEF Blank, Runs, Results
  <2>3. crashes' \in 0..MaxCrash /\ cuts' \in Nat
    BY <1>24 DEF Crash
  <2>4. pc' \in [Callers -> {"new", "write", "event", "read", "done"}]
    BY <1>24 DEF Crash
  <2>5. TypeOK'
    <3>1. phase' \in Phases /\ after' \in Phases /\ run' \in Runs
      BY <2>1, <2>2
    <3>2. jobs' \in Nat /\ DOMAIN patch' = {}
      BY <2>1
    <3>3. ctxDone' \in BOOLEAN
      BY <2>1
    <3> QED
      BY <2>1, <2>3, <2>4, <3>1, <3>2, <3>3
  <2>6. HasOutcome' /\ PatchTyped'
    BY <2>1
  <2> QED
    BY <2>5, <2>6
<1>25. ASSUME NEW a \in Callers, StartUpdate(a)
      PROVE  Typed'
  BY <1>25 DEF StartUpdate, Read
<1>26. ASSUME NEW a \in Callers, Define(a)
      PROVE  Typed'
  <2>1. meta' \in Metadata /\ later' \in [Definers -> Nat]
    <3>1. meta' \in Metadata
      BY <1>26 DEF Define, Write, Merged, Metadata
    <3>2. later' = [o \in Definers |-> IF o = a THEN 0 ELSE later[o] + 1]
          /\ \A o \in Definers : later[o] \in Nat
      BY <1>26 DEF Define
    <3>3. later' \in [Definers -> Nat]
      BY <3>2
    <3> QED
      BY <3>1, <3>3
  <2>2. UNCHANGED <<log, jobs, phase, run, patch, after, snap, ctxDone, openUse, cuts,
                    crashes>>
    BY <1>26 DEF Define
  <2>3. defined' \in Goals /\ lost' \in BOOLEAN
        /\ pc' \in [Callers -> {"new", "write", "event", "read", "done"}]
    BY <1>26 DEF Define, Write
  <2> QED
    BY <2>1, <2>2, <2>3
<1>27. ASSUME NEW a \in Callers, Accept(a)
      PROVE  Typed'
  BY <1>27 DEF Accept
<1>28. ASSUME NEW a \in Callers, Edit(a)
      PROVE  Typed'
  BY <1>28 DEF Edit, Write, Merged, Metadata
<1>29. ASSUME NEW a \in Callers, Interrupt(a)
      PROVE  Typed'
  BY <1>29 DEF Interrupt
<1>30. ASSUME NEW a \in Callers, StartIdle(a)
      PROVE  Typed'
  BY <1>30 DEF StartIdle, Read
<1>31. CASE UNCHANGED vars
  BY <1>31 DEF vars
<1> QED
  BY <1>1, <1>2, <1>3, <1>4, <1>5, <1>6, <1>7, <1>8, <1>9, <1>10,
     <1>11, <1>12, <1>13, <1>14, <1>15, <1>16, <1>17, <1>18, <1>19, <1>20,
     <1>21, <1>22, <1>23, <1>24, <1>25, <1>26, <1>27, <1>28, <1>29, <1>30,
     <1>31
  DEF Next, Turn, Loop, Request

LEMMA LoggedStep ==
  ASSUME OutcomeAssumption, Typed, CopiesLogged, [Next]_vars
  PROVE  CopiesLogged'
<1> USE DEF OutcomeAssumption, Typed, TypeOK, CopiesLogged, Logged, To, Goto, worker, history
<1>1. ASSUME StartTurn
      PROVE  CopiesLogged'
  <2>1. run'.evaluations = << >> /\ UNCHANGED <<meta, log, snap, patch>>
    BY <1>1 DEF StartTurn, Blank
  <2>2. LoggedIn(<< >>, log)
    BY DEF LoggedIn
  <2> QED
    BY <2>1, <2>2
<1>2. ASSUME TurnEnds
      PROVE  CopiesLogged'
  BY <1>2 DEF TurnEnds
<1>3. ASSUME TurnErrs
      PROVE  CopiesLogged'
  BY <1>3 DEF TurnErrs
<1>4. ASSUME Enter
      PROVE  CopiesLogged'
  BY <1>4 DEF Enter, Runs, Metadata, Blank, Results
<1>5. ASSUME Waits
      PROVE  CopiesLogged'
  BY <1>5 DEF Waits
<1>6. ASSUME GivesUp
      PROVE  CopiesLogged'
  BY <1>6 DEF GivesUp, Runs, Results
<1>7. ASSUME Supervise
      PROVE  CopiesLogged'
  BY <1>7 DEF Supervise
<1>8. ASSUME Reread
      PROVE  CopiesLogged'
  BY <1>8 DEF Reread, Runs, Metadata
<1>9. ASSUME Resolve
      PROVE  CopiesLogged'
  BY <1>9 DEF Resolve, Persist
<1>10. ASSUME ResolveModel
      PROVE  CopiesLogged'
  BY <1>10 DEF ResolveModel
<1>11. ASSUME Load
      PROVE  CopiesLogged'
  BY <1>11 DEF Load, Read
<1>12. ASSUME Store
      PROVE  CopiesLogged'
  BY <1>12 DEF Store, Write, Merged, Metadata
<1>13. ASSUME Cancelled
      PROVE  CopiesLogged'
  BY <1>13 DEF Cancelled, CutOff, InTurn
<1>14. ASSUME PublishIdle
      PROVE  CopiesLogged'
  BY <1>14 DEF PublishIdle, Persist
<1>15. ASSUME Release
      PROVE  CopiesLogged'
  <2>1. run'.evaluations = << >> /\ UNCHANGED <<meta, log, snap, patch>>
    BY <1>15 DEF Release, Blank
  <2>2. LoggedIn(<< >>, log)
    BY DEF LoggedIn
  <2> QED
    BY <2>1, <2>2
<1>16. ASSUME Iterate
      PROVE  CopiesLogged'
  <2>1. /\ Len(log) \in Nat /\ Len(log') \in Nat /\ Len(log') >= Len(log)
        /\ \A j \in 1..Len(log) : log'[j] = log[j]
    BY <1>16 DEF Iterate
  <2>2. run'.evaluations = run.evaluations /\ UNCHANGED <<meta, snap, patch>>
    <3>1. run \in Runs /\ UNCHANGED <<meta, snap, patch>>
      BY <1>16 DEF Iterate
    <3>2. CASE UNCHANGED run
      BY <3>1, <3>2
    <3>3. CASE run' = [run EXCEPT !.verdict = "max_iterations_reached", !.span = FALSE,
                                  !.iteration = run.iteration - 1]
      BY <3>1, <3>3 DEF Runs
    <3> QED
      BY <1>16, <3>1, <3>2, <3>3 DEF Iterate
  <2>3. ASSUME NEW s, LoggedIn(s, log) PROVE LoggedIn(s, log')
    BY <2>1, <2>3, LoggedGrows
  <2> QED
    BY <2>2, <2>3
<1>17. ASSUME Evaluate
      PROVE  CopiesLogged'
  BY <1>17 DEF Evaluate, Rejected, Runs, Results
<1>18. ASSUME EmitVerdict
      PROVE  CopiesLogged'
  <2> DEFINE e == [event |-> "end", outcome |-> run.outcome, result |-> run.verdict,
                   iteration |-> run.iteration, span |-> run.span]
             s == Append(run.evaluations, Verdict)
  <2>1. /\ log' = Append(log, e)
        /\ patch' = VerdictPatch /\ UNCHANGED <<meta, run, snap>>
    BY <1>18 DEF EmitVerdict, Persist
  <2>2. /\ Len(log) \in Nat /\ Len(log') = Len(log) + 1 /\ log'[Len(log) + 1] = e
        /\ \A j \in 1..Len(log) : log'[j] = log[j]
    <3>1. log \in Seq(Starts \cup Ends)
      OBVIOUS
    <3> HIDE DEF e
    <3> QED
      BY <2>1, <3>1
  <2>3. IsEnd(e) /\ Verdict = Recorded(e)
    BY DEF IsEnd, Recorded, Verdict
  <2>4. VerdictPatch["evaluations"] = s
    BY DEF VerdictPatch
  <2>5. run.evaluations \in Seq(Records) /\ Verdict \in Records
    BY <1>18 DEF EmitVerdict, Runs, Verdict, Records, HasOutcome, Judging
  <2>6. ASSUME NEW r, LoggedIn(r, log) PROVE LoggedIn(r, log')
    BY <2>2, <2>6, LoggedGrows
  <2>7. LoggedIn(run.evaluations, log')
    BY <2>6
  <2>8. LoggedIn(s, log')
    <3>1. \E j \in 1..Len(log') : IsEnd(log'[j]) /\ Verdict = Recorded(log'[j])
      <4>1. Len(log) + 1 \in 1..Len(log')
        BY <2>2
      <4> QED
        BY <2>2, <2>3, <4>1
    <3> HIDE DEF s
    <3> QED
      BY <2>5, <2>7, <3>1, LoggedAppend DEF s
  <2> QED
    BY <2>1, <2>4, <2>7, <2>8, <2>6
<1>19. ASSUME Reload
      PROVE  CopiesLogged'
  BY <1>19 DEF Reload, Runs, Metadata
<1>20. ASSUME NextIteration
      PROVE  CopiesLogged'
  BY <1>20 DEF NextIteration, Persist, Runs
<1>21. ASSUME Feedback
      PROVE  CopiesLogged'
  <2>1. UNCHANGED <<meta, log, run, snap, patch>>
    BY <1>21 DEF Feedback
  <2> QED
    BY <2>1
<1>22. ASSUME Revise
      PROVE  CopiesLogged'
  BY <1>22 DEF Revise
<1>23. ASSUME RevisionErrs
      PROVE  CopiesLogged'
  BY <1>23 DEF RevisionErrs, Runs, Results
<1>24. ASSUME Crash
      PROVE  CopiesLogged'
  <2>1. run'.evaluations = << >> /\ patch' = << >> /\ UNCHANGED <<meta, log, snap>>
    BY <1>24 DEF Crash, Blank
  <2>2. LoggedIn(<< >>, log) /\ "evaluations" \notin DOMAIN << >>
    BY DEF LoggedIn
  <2> QED
    BY <2>1, <2>2
<1>25. ASSUME NEW a \in Callers, StartUpdate(a)
      PROVE  CopiesLogged'
  BY <1>25 DEF StartUpdate, Read
<1>26. ASSUME NEW a \in Callers, Define(a)
      PROVE  CopiesLogged'
  BY <1>26 DEF Define, Write, Merged, Metadata
<1>27. ASSUME NEW a \in Callers, Accept(a)
      PROVE  CopiesLogged'
  BY <1>27 DEF Accept
<1>28. ASSUME NEW a \in Callers, Edit(a)
      PROVE  CopiesLogged'
  BY <1>28 DEF Edit, Write, Merged, Metadata
<1>29. ASSUME NEW a \in Callers, Interrupt(a)
      PROVE  CopiesLogged'
  BY <1>29 DEF Interrupt
<1>30. ASSUME NEW a \in Callers, StartIdle(a)
      PROVE  CopiesLogged'
  BY <1>30 DEF StartIdle, Read
<1>31. CASE UNCHANGED vars
  BY <1>31 DEF vars
<1> QED
  BY <1>1, <1>2, <1>3, <1>4, <1>5, <1>6, <1>7, <1>8, <1>9, <1>10,
     <1>11, <1>12, <1>13, <1>14, <1>15, <1>16, <1>17, <1>18, <1>19, <1>20,
     <1>21, <1>22, <1>23, <1>24, <1>25, <1>26, <1>27, <1>28, <1>29, <1>30,
     <1>31
  DEF Next, Turn, Loop, Request

LEMMA OutcomeInvariant ==
  ASSUME OutcomeAssumption
  PROVE  Spec => []IInv
<1>1. Init => IInv
  BY InitOutcome
<1>2. IInv /\ [Next]_vars => IInv'
  BY TypeStep, LoggedStep DEF IInv
<1> QED
  BY <1>1, <1>2, PTL DEF Spec

\* outcome_supervisor.go, publishEvents before persistOutcomePatch: for any number of
\* writers that overwrite each other, cancellations and crashes, a verdict in the
\* metadata has its event in the log.
THEOREM VerdictsAreLogged ==
  ASSUME OutcomeAssumption
  PROVE  Spec => []RecordsAreLogged
<1>1. IInv => RecordsAreLogged
  BY DEF IInv, CopiesLogged, Logged, LoggedIn, RecordsAreLogged
<1> QED
  BY <1>1, OutcomeInvariant, PTL

-----------------------------------------------------------------------------
(***************************************************************************)
(* Evaluations stay sound.  What the row and the worker's locals say of    *)
(* each outcome, wherever the worker is between a read and its write.      *)
(***************************************************************************)
Storing(P) == phase \in {"load", "store"} /\ after \in P

\* The supervisor judges o.
Running(o) ==
  /\ run.outcome = o
  /\ \/ phase \in {"resolve", "model", "loop", "evaluate", "reload", "next", "feedback",
                   "revise"}
     \/ phase = "verdict" /\ run.span
     \/ Storing({"model", "reload", "feedback"})

\* The last evaluation of o is not counted yet: by the worker's own counter, by the row.
Uncounted(o) ==
  /\ run.outcome = o
  /\ \/ phase \in {"evaluate", "reload", "next"}
     \/ phase = "verdict" /\ run.span
     \/ Storing({"reload"})

Unsaved(o) == Uncounted(o) \/ (run.outcome = o /\ Storing({"feedback"}))

One(b) == IF b THEN 1 ELSE 0

\* What the worker is about to write follows from its locals.
PatchFollows ==
  /\ phase \in {"load", "store"} =>
       after \in {"model", "reload", "feedback", "ended", "release"}
  /\ Storing({"model"}) => patch = [outcome |-> run.outcome]
  /\ Storing({"feedback"}) =>
       patch = [outcome |-> run.outcome, iteration |-> run.iteration]
  /\ Storing({"reload", "ended"}) => patch = VerdictPatch
  /\ Storing({"release"}) => patch = << >>
  /\ Storing({"ended"}) => run.verdict \in Terminal
  /\ phase = "verdict" /\ ~run.span => run.verdict \in Terminal
  /\ phase = "next" => run.verdict \notin Terminal

\* An outcome that is not accepted has left no trace.
Unaccepted ==
  \A o \in Definers : pc[o] \in {"new", "write"} =>
    /\ \A i \in 1..Len(log) : log[i].outcome # o
    /\ meta.outcome # o /\ run.outcome # o

Cost(o)    == Cardinality(StartsOf(o))
Allowed(o) == Max[o] * later[o] + cuts

\* The counter of the row, when the row has o or the worker is about to write o into
\* it, and the worker's own counter account for what o has cost.  The counter that was
\* read first also bounds the outcome that the second read may find (check, reread).
Within(o) ==
  /\ Cost(o) <= Allowed(o) + Max[o]
  /\ meta.outcome = o \/ Running(o) =>
       Cost(o) <= Allowed(o) + meta.iteration + One(Unsaved(o))
  /\ Running(o) => Cost(o) <= Allowed(o) + run.iteration + One(Uncounted(o))
  /\ phase \in {"check", "reread"} /\ meta.outcome = o =>
       Cost(o) <= Allowed(o) + run.iteration
  /\ phase = "reload" /\ run.verdict \in Terminal /\ run.outcome = o => meta.outcome # o

WithinBudget == \A o \in Definers : Within(o)

BudgetInv == ~lost => Unaccepted /\ WithinBudget

Begun  == {i \in 1..Len(log) : log[i].event = "start"}
Closed == {i \in 1..Len(log) : log[i].event = "end" /\ log[i].span}

\* A verdict without a span closes nothing, and follows no evaluation.
SpansInv ==
  Cardinality(Begun) <= Cardinality(Closed) + cuts
                        + One(phase = "evaluate" \/ (phase = "verdict" /\ run.span))

\* The supervisor is past a final verdict: nothing but its write can follow.
Past ==
  \/ phase \in {"ended", "release"} \/ Storing({"release"})
  \/ (phase = "reload" \/ Storing({"reload", "ended"})) /\ run.verdict \in Terminal

FinalLast(o) == \A i \in FinalOf(o) : \A j \in StartsOf(o) \cup EndsOf(o) : j <= i

FinalStays(o) ==
  /\ FinalLast(o)
  /\ FinalOf(o) # {} =>
       /\ run.outcome = o => Past
       /\ meta.outcome = o =>
            run.outcome = o /\ Storing({"reload", "ended"}) /\ run.verdict \in Terminal

FinalInv == cuts = 0 /\ ~lost => \A o \in Definers : FinalStays(o)

EndsIn(l)     == {i \in 1..Len(l) : IsEnd(l[i])}
Rank(i, l)    == Cardinality({j \in EndsIn(l) : j <= i})
Matches(s, l) == /\ Len(s) = Cardinality(EndsIn(l))
                 /\ \A i \in EndsIn(l) : s[Rank(i, l)] = Recorded(l[i])

\* The row has the records of the log, or is about to get the last of them; so has
\* the supervisor, whose copy becomes the row.
RecordsMatch ==
  /\ Storing({"reload", "ended"}) => Matches(patch["evaluations"], log)
  /\ ~Storing({"reload", "ended"}) => Matches(meta.evaluations, log)
  /\ \/ phase \in {"check", "resolve", "model", "loop", "evaluate", "verdict", "next",
                   "feedback", "revise"}
     \/ Storing({"model", "feedback"})
     => Matches(run.evaluations, log)

RecordsInv == cuts = 0 /\ ~lost => RecordsMatch

LEMMA PatchStep ==
  ASSUME OutcomeAssumption, Typed, PatchFollows, [Next]_vars
  PROVE  PatchFollows'
<1> USE DEF PatchFollows, Storing, To, Goto, worker, history, VerdictPatch, Verdict, Terminal,
            Results, Typed, TypeOK
<1>1. ASSUME StartTurn
      PROVE  PatchFollows'
  BY <1>1 DEF StartTurn, Blank
<1>2. ASSUME TurnEnds
      PROVE  PatchFollows'
  BY <1>2 DEF TurnEnds
<1>3. ASSUME TurnErrs
      PROVE  PatchFollows'
  BY <1>3 DEF TurnErrs
<1>4. ASSUME Enter
      PROVE  PatchFollows'
  BY <1>4 DEF Enter, Blank
<1>5. ASSUME Waits
      PROVE  PatchFollows'
  BY <1>5 DEF Waits
<1>6. ASSUME GivesUp
      PROVE  PatchFollows'
  BY <1>6 DEF GivesUp, Runs, Results
<1>7. ASSUME Supervise
      PROVE  PatchFollows'
  BY <1>7 DEF Supervise
<1>8. ASSUME Reread
      PROVE  PatchFollows'
  BY <1>8 DEF Reread, Runs
<1>9. ASSUME Resolve
      PROVE  PatchFollows'
  BY <1>9 DEF Resolve, Persist
<1>10. ASSUME ResolveModel
      PROVE  PatchFollows'
  BY <1>10 DEF ResolveModel
<1>11. ASSUME Load
      PROVE  PatchFollows'
  BY <1>11 DEF Load, Read
<1>12. ASSUME Store
      PROVE  PatchFollows'
  BY <1>12 DEF Store, Write
<1>13. ASSUME Cancelled
      PROVE  PatchFollows'
  BY <1>13 DEF Cancelled, CutOff
<1>14. ASSUME PublishIdle
      PROVE  PatchFollows'
  BY <1>14 DEF PublishIdle, Persist
<1>15. ASSUME Release
      PROVE  PatchFollows'
  BY <1>15 DEF Release, Blank
<1>16. ASSUME Iterate
      PROVE  PatchFollows'
  <2>1. \/ phase' = "evaluate"
        \/ phase' = "verdict" /\ run' = [run EXCEPT !.verdict = "max_iterations_reached",
                                                !.span = FALSE,
                                                !.iteration = run.iteration - 1]
    BY <1>16 DEF Iterate
  <2>2. \/ phase' = "evaluate"
        \/ phase' = "verdict" /\ run'.verdict = "max_iterations_reached"
    BY <2>1 DEF Runs
  <2> QED
    BY <2>2
<1>17. ASSUME Evaluate
      PROVE  PatchFollows'
  BY <1>17 DEF Evaluate, Runs, Results, Rejected, Terminal
<1>18. ASSUME EmitVerdict
      PROVE  PatchFollows'
  BY <1>18 DEF EmitVerdict, Persist, VerdictPatch, Verdict
<1>19. ASSUME Reload
      PROVE  PatchFollows'
  BY <1>19 DEF Reload, Runs
<1>20. ASSUME NextIteration
      PROVE  PatchFollows'
  BY <1>20 DEF NextIteration, Persist, Runs
<1>21. ASSUME Feedback
      PROVE  PatchFollows'
  BY <1>21 DEF Feedback
<1>22. ASSUME Revise
      PROVE  PatchFollows'
  BY <1>22 DEF Revise
<1>23. ASSUME RevisionErrs
      PROVE  PatchFollows'
  BY <1>23 DEF RevisionErrs, Runs, Results
<1>24. ASSUME Crash
      PROVE  PatchFollows'
  BY <1>24 DEF Crash, Blank
<1>25. ASSUME NEW a \in Callers, StartUpdate(a)
      PROVE  PatchFollows'
  BY <1>25 DEF StartUpdate, Read
<1>26. ASSUME NEW a \in Callers, Define(a)
      PROVE  PatchFollows'
  BY <1>26 DEF Define, Write
<1>27. ASSUME NEW a \in Callers, Accept(a)
      PROVE  PatchFollows'
  BY <1>27 DEF Accept
<1>28. ASSUME NEW a \in Callers, Edit(a)
      PROVE  PatchFollows'
  BY <1>28 DEF Edit, Write
<1>29. ASSUME NEW a \in Callers, Interrupt(a)
      PROVE  PatchFollows'
  BY <1>29 DEF Interrupt
<1>30. ASSUME NEW a \in Callers, StartIdle(a)
      PROVE  PatchFollows'
  BY <1>30 DEF StartIdle, Read
<1>31. CASE UNCHANGED vars
  BY <1>31 DEF vars
<1> QED
  BY <1>1, <1>2, <1>3, <1>4, <1>5, <1>6, <1>7, <1>8, <1>9, <1>10,
     <1>11, <1>12, <1>13, <1>14, <1>15, <1>16, <1>17, <1>18, <1>19, <1>20,
     <1>21, <1>22, <1>23, <1>24, <1>25, <1>26, <1>27, <1>28, <1>29, <1>30,
     <1>31
  DEF Next, Turn, Loop, Request

-----------------------------------------------------------------------------
\* The log is left alone but by the two actions that append one event.
LEMMA LogGrowsByOne ==
  ASSUME OutcomeAssumption, Typed, [Next]_vars
  PROVE  \/ UNCHANGED log
         \/ \E e \in Starts \cup Ends : log' = Append(log, e)
<1> USE DEF Typed, TypeOK, HasOutcome, Judging, OutcomeAssumption
<1>1. CASE Iterate
  <2>1. run.outcome \in Definers /\ run.iteration \in Nat
    BY <1>1 DEF Iterate, Runs
  <2>2. [event |-> "start", outcome |-> run.outcome, iteration |-> run.iteration] \in Starts
    BY <2>1 DEF Starts
  <2> QED
    BY <1>1, <2>2 DEF Iterate
<1>2. CASE EmitVerdict
  <2>1. run.outcome \in Definers /\ run \in Runs
    BY <1>2 DEF EmitVerdict
  <2>2. [event |-> "end", outcome |-> run.outcome, result |-> run.verdict,
         iteration |-> run.iteration, span |-> run.span] \in Ends
    BY <2>1 DEF Runs, Ends
  <2> QED
    BY <1>2, <2>2 DEF EmitVerdict
<1>3. CASE ~Iterate /\ ~EmitVerdict
  BY <1>3 DEF Next, Turn, Loop, Request, vars, StartTurn, TurnEnds, TurnErrs, Enter, Waits,
       GivesUp, Supervise, Reread, Resolve, ResolveModel, Load, Store, Cancelled, CutOff,
       PublishIdle, Release, Evaluate, Reload, NextIteration, Feedback, Revise,
       RevisionErrs, Crash, StartUpdate, Define, Accept, Edit, Interrupt, StartIdle
<1> QED
  BY <1>1, <1>2, <1>3

\* What an appended event does to a sequence.
LEMMA Appended ==
  ASSUME NEW e \in Starts \cup Ends, log \in Seq(Starts \cup Ends), log' = Append(log, e)
  PROVE  /\ Len(log) \in Nat /\ Len(log') = Len(log) + 1 /\ log'[Len(log) + 1] = e
         /\ \A j \in 1..Len(log) : log'[j] = log[j]
         /\ 1..Len(log') = (1..Len(log)) \cup {Len(log) + 1}
OBVIOUS

LEMMA IndicesFinite ==
  ASSUME log \in Seq(Starts \cup Ends), NEW T \in SUBSET (1..Len(log))
  PROVE  IsFiniteSet(T) /\ Cardinality(T) \in Nat
<1>1. IsFiniteSet(1..Len(log))
  BY FS_Interval
<1> QED
  BY <1>1, FS_Subset, FS_CardinalityType

LEMMA CountOneMore ==
  ASSUME log \in Seq(Starts \cup Ends), NEW T \in SUBSET (1..Len(log))
  PROVE  Cardinality(T \cup {Len(log) + 1}) = Cardinality(T) + 1
<1>1. IsFiniteSet(T)
  BY IndicesFinite
<1>2. Len(log) + 1 \notin T
  OBVIOUS
<1> QED
  BY <1>1, <1>2, FS_AddElement

-----------------------------------------------------------------------------
\* A step begins an evaluation, of o; it publishes a verdict.
Begins     == phase = "loop" /\ phase' = "evaluate"
Started(o) == Begins /\ run.outcome = o
Rules      == phase = "verdict" /\ phase' = "load"

LEMMA CostSteps ==
  ASSUME OutcomeAssumption, Typed, [Next]_vars, NEW o \in Definers
  PROVE  /\ Cost(o) \in Nat /\ Cost(o)' \in Nat
         /\ Cost(o)' = Cost(o) + One(Started(o))
<1> USE DEF Typed, TypeOK
<1>0. StartsOf(o) \in SUBSET (1..Len(log)) /\ Typed'
  BY TypeStep DEF StartsOf
<1>1. Cost(o) \in Nat
  BY <1>0, IndicesFinite DEF Cost
<1>2. CASE Iterate /\ phase' = "evaluate"
  <2> DEFINE e == [event |-> "start", outcome |-> run.outcome, iteration |-> run.iteration]
  <2>1. log' = Append(log, e) /\ e.event = "start" /\ e.outcome = run.outcome
        /\ phase = "loop"
    BY <1>2 DEF Iterate, To
  <2>2. e \in Starts \cup Ends
    BY <2>1 DEF Starts, Runs, HasOutcome, Judging
  <2> HIDE DEF e
  <2>3. /\ Len(log) \in Nat /\ Len(log') = Len(log) + 1 /\ log'[Len(log) + 1] = e
        /\ \A j \in 1..Len(log) : log'[j] = log[j]
        /\ 1..Len(log') = (1..Len(log)) \cup {Len(log) + 1}
    BY <2>1, <2>2, Appended
  <2>4. CASE run.outcome = o
    <3>1. StartsOf(o)' = StartsOf(o) \cup {Len(log) + 1}
      BY <2>1, <2>3, <2>4 DEF StartsOf
    <3>2. Cost(o)' = Cost(o) + 1
      BY <1>0, <3>1, CountOneMore DEF Cost
    <3> QED
      BY <1>1, <1>2, <2>1, <2>4, <3>2 DEF One, Started, Begins
  <2>5. CASE run.outcome # o
    <3>1. StartsOf(o)' = StartsOf(o)
      BY <2>1, <2>3, <2>5 DEF StartsOf
    <3>2. Cost(o)' = Cost(o)
      BY <3>1 DEF Cost
    <3> QED
      BY <1>1, <2>5, <3>2 DEF One, Started, Begins
  <2> QED
    BY <2>4, <2>5
<1>3. CASE EmitVerdict
  <2> DEFINE e == [event |-> "end", outcome |-> run.outcome, result |-> run.verdict,
                   iteration |-> run.iteration, span |-> run.span]
  <2>1. log' = Append(log, e) /\ e.event = "end" /\ phase # "loop"
    BY <1>3 DEF EmitVerdict
  <2>2. e \in Starts \cup Ends
    BY <1>3 DEF EmitVerdict, Ends, Runs, HasOutcome, Judging
  <2> HIDE DEF e
  <2>3. /\ Len(log) \in Nat /\ Len(log') = Len(log) + 1 /\ log'[Len(log) + 1] = e
        /\ \A j \in 1..Len(log) : log'[j] = log[j]
        /\ 1..Len(log') = (1..Len(log)) \cup {Len(log) + 1}
    BY <2>1, <2>2, Appended
  <2>4. StartsOf(o)' = StartsOf(o)
    BY <2>1, <2>3 DEF StartsOf
  <2> QED
    BY <1>1, <2>1, <2>4 DEF Cost, One, Started, Begins
<1>4. CASE ~(Iterate /\ phase' = "evaluate") /\ ~EmitVerdict
  <2>1. UNCHANGED log /\ ~Started(o)
    BY <1>4 DEF Next, Turn, Loop, Request, vars, StartTurn, TurnEnds, TurnErrs, Enter, Waits,
       GivesUp, Supervise, Reread, Resolve, ResolveModel, Load, Store, Cancelled, CutOff,
       PublishIdle, Release, Evaluate, Reload, NextIteration, Feedback, Revise,
       RevisionErrs, Crash, StartUpdate, Define, Accept, Edit, Interrupt, StartIdle,
       Iterate, To, Persist, worker, Started, Begins
  <2>2. StartsOf(o)' = StartsOf(o)
    BY <2>1 DEF StartsOf
  <2> QED
    BY <1>1, <2>1, <2>2 DEF Cost, One
<1> QED
  BY <1>2, <1>3, <1>4

\* How much more an outcome may cost after a step.
LEMMA AllowedSteps ==
  ASSUME OutcomeAssumption, Typed, [Next]_vars, NEW o \in Definers
  PROVE  /\ Max[o] \in Nat /\ Allowed(o) \in Nat /\ Allowed(o)' \in Nat
         /\ UNCHANGED <<later, cuts>> => Allowed(o)' = Allowed(o)
         /\ UNCHANGED later /\ cuts' = cuts + 1 => Allowed(o)' = Allowed(o) + 1
         /\ \A d \in Callers : Define(d) =>
              Allowed(o)' = IF o = d THEN cuts ELSE Allowed(o) + Max[o]
<1> DEFINE m == Max[o]
<1>1. m \in Nat /\ later[o] \in Nat /\ cuts \in Nat /\ later'[o] \in Nat /\ cuts' \in Nat
  BY TypeStep DEF Typed, TypeOK, OutcomeAssumption
<1>2. \A k \in Nat : m * k \in Nat /\ m * (k + 1) = m * k + m /\ m * 0 = 0
  <2> HIDE DEF m
  <2> QED
    BY <1>1
<1>3. Allowed(o) = m * later[o] + cuts /\ Allowed(o)' = m * later'[o] + cuts'
  BY DEF Allowed
<1>4. ASSUME NEW d \in Callers, Define(d)
      PROVE  cuts' = cuts /\ later'[o] = IF o = d THEN 0 ELSE later[o] + 1
  BY <1>4 DEF Define
<1> HIDE DEF m
<1>5. ASSUME NEW d \in Callers, Define(d)
      PROVE  Allowed(o)' = IF o = d THEN cuts ELSE Allowed(o) + m
  <2>1. CASE o = d
    <3>1. cuts' = cuts /\ later'[o] = 0
      BY <1>4, <1>5, <2>1
    <3> QED
      BY <1>1, <1>2, <1>3, <2>1, <3>1
  <2>2. CASE o # d
    <3>1. cuts' = cuts /\ later'[o] = later[o] + 1
      BY <1>4, <1>5, <2>2
    <3>2. m * later'[o] = m * later[o] + m /\ m * later[o] \in Nat
      BY <1>1, <1>2, <3>1
    <3> QED
      BY <1>1, <1>3, <2>2, <3>1, <3>2
  <2> QED
    BY <2>1, <2>2
<1>6. Allowed(o) \in Nat /\ Allowed(o)' \in Nat
  BY <1>1, <1>2, <1>3
<1> QED
  BY <1>1, <1>3, <1>5, <1>6 DEF m

-----------------------------------------------------------------------------
(***************************************************************************)
(* What the steps that write the row or the log do, while no write is lost *)
(***************************************************************************)
StoredOutcome ==
  CASE after = "release" -> meta.outcome
    [] after \in {"reload", "ended"} /\ run.verdict \in Terminal -> None
    [] OTHER -> run.outcome

StoredIteration ==
  CASE after = "feedback" -> run.iteration
    [] after = "reload" /\ run.verdict \notin Terminal -> run.iteration
    [] OTHER -> meta.iteration

LEMMA StoreEffect ==
  ASSUME Typed, PatchFollows, Store, ~lost'
  PROVE  /\ phase = "store" /\ phase' = after
         /\ UNCHANGED <<run, log, pc, after, later, cuts>>
         /\ after \in {"model", "reload", "feedback", "ended", "release"} /\ ~lost
         /\ after = "ended" => run.verdict \in Terminal
         /\ meta'.outcome = StoredOutcome
         /\ meta'.iteration = StoredIteration
         /\ meta'.evaluations = IF after \in {"reload", "ended"} THEN patch["evaluations"]
                                ELSE meta.evaluations
<1>1. /\ phase = "store" /\ phase' = after
      /\ UNCHANGED <<run, log, pc, after, later, cuts>>
      /\ meta' = Merged(Worker, patch) /\ snap[Worker] = meta /\ ~lost
  BY DEF Store, Write
<1>2. /\ meta'.outcome = IF "outcome" \in DOMAIN patch THEN patch["outcome"]
                         ELSE meta.outcome
      /\ meta'.iteration = IF "iteration" \in DOMAIN patch THEN patch["iteration"]
                           ELSE meta.iteration
      /\ meta'.evaluations = IF "evaluations" \in DOMAIN patch THEN patch["evaluations"]
                             ELSE meta.evaluations
  BY <1>1 DEF Merged
<1>3. /\ after \in {"model", "reload", "feedback", "ended", "release"}
      /\ after = "ended" => run.verdict \in Terminal
  BY <1>1 DEF PatchFollows, Storing
<1>4. CASE after = "model"
  <2>1. patch = [outcome |-> run.outcome]
    BY <1>1, <1>4 DEF PatchFollows, Storing
  <2> QED
    BY <1>1, <1>2, <1>3, <1>4, <2>1 DEF StoredOutcome, StoredIteration
<1>5. CASE after = "feedback"
  <2>1. patch = [outcome |-> run.outcome, iteration |-> run.iteration]
    BY <1>1, <1>5 DEF PatchFollows, Storing
  <2> QED
    BY <1>1, <1>2, <1>3, <1>5, <2>1 DEF StoredOutcome, StoredIteration
<1>6. CASE after = "release"
  <2>1. patch = << >>
    BY <1>1, <1>6 DEF PatchFollows, Storing
  <2> QED
    BY <1>1, <1>2, <1>3, <1>6, <2>1 DEF StoredOutcome, StoredIteration
<1>7. CASE after \in {"reload", "ended"}
  <2>1. patch = VerdictPatch
    BY <1>1, <1>7 DEF PatchFollows, Storing
  <2>2. CASE run.verdict \in Terminal
    <3>1. patch = [outcome |-> None, evaluations |-> Append(run.evaluations, Verdict)]
      BY <2>1, <2>2 DEF VerdictPatch
    <3>2. /\ "outcome" \in DOMAIN patch /\ "iteration" \notin DOMAIN patch
          /\ "evaluations" \in DOMAIN patch /\ patch["outcome"] = None
      BY <3>1
    <3> QED
      BY <1>1, <1>2, <1>3, <1>7, <2>2, <3>2 DEF StoredOutcome, StoredIteration
  <2>3. CASE run.verdict \notin Terminal
    <3>1. patch = [outcome |-> run.outcome, iteration |-> run.iteration,
                   evaluations |-> Append(run.evaluations, Verdict)]
      BY <2>1, <2>3 DEF VerdictPatch
    <3>2. /\ "outcome" \in DOMAIN patch /\ "iteration" \in DOMAIN patch
          /\ "evaluations" \in DOMAIN patch /\ patch["outcome"] = run.outcome
          /\ patch["iteration"] = run.iteration
      BY <3>1
    <3> QED
      BY <1>1, <1>2, <1>3, <1>7, <2>3, <3>2 DEF StoredOutcome, StoredIteration
  <2> QED
    BY <2>2, <2>3
<1> QED
  BY <1>3, <1>4, <1>5, <1>6, <1>7

LEMMA DefineEffect ==
  ASSUME OutcomeAssumption, NEW d \in Callers, Define(d), Typed, ~lost'
  PROVE  /\ meta'.outcome = d /\ meta'.iteration = 0 /\ meta'.evaluations = meta.evaluations
         /\ d \in Definers /\ pc[d] = "write" /\ pc'[d] = "event"
         /\ \A o \in Definers : o # d => pc'[o] = pc[o]
         /\ ~lost /\ UNCHANGED <<log, worker, cuts>>
<1>1. /\ meta' = Merged(d, [outcome |-> d, iteration |-> 0]) /\ snap[d] = meta /\ ~lost
      /\ d \in Definers /\ pc[d] = "write" /\ pc' = [pc EXCEPT ![d] = "event"]
      /\ UNCHANGED <<log, worker, cuts>>
  BY DEF Define, Write, Goto, history
<1>2. /\ meta'.outcome = d /\ meta'.iteration = 0 /\ meta'.evaluations = meta.evaluations
  BY <1>1 DEF Merged
<1>3. pc'[d] = "event" /\ \A o \in Definers : o # d => pc'[o] = pc[o]
  BY <1>1 DEF Typed, TypeOK, Callers
<1> QED
  BY <1>1, <1>2, <1>3

LEMMA EditEffect ==
  ASSUME OutcomeAssumption, NEW a \in Callers, Edit(a), Typed, ~lost'
  PROVE  /\ meta'.outcome = meta.outcome /\ meta'.iteration = meta.iteration
         /\ meta'.evaluations = meta.evaluations
         /\ \A o \in Definers : pc'[o] = pc[o]
         /\ ~lost /\ UNCHANGED <<log, worker, later, cuts>>
<1>1. /\ meta' = Merged(a, << >>) /\ snap[a] = meta /\ ~lost /\ a \notin Definers
      /\ pc' = [pc EXCEPT ![a] = "done"] /\ UNCHANGED <<log, worker, later, cuts>>
  BY DEF Edit, Write, Goto, OutcomeAssumption
<1>2. /\ meta'.outcome = meta.outcome /\ meta'.iteration = meta.iteration
      /\ meta'.evaluations = meta.evaluations
  BY <1>1 DEF Merged
<1>3. \A o \in Definers : pc'[o] = pc[o]
  BY <1>1 DEF Typed, TypeOK, Callers
<1> QED
  BY <1>1, <1>2, <1>3

\* The other steps of a request leave the row, the log and the worker alone.
LEMMA RequestEffect ==
  ASSUME OutcomeAssumption, Typed, NEW a \in Callers,
         StartUpdate(a) \/ Accept(a) \/ Interrupt(a) \/ StartIdle(a)
  PROVE  /\ \A o \in Definers : pc'[o] \in {"new", "write"} => pc[o] \in {"new", "write"}
         /\ UNCHANGED <<meta, log, worker, later, cuts, lost>>
<1>1. /\ \E l \in {"write", "event", "read", "done"} : pc' = [pc EXCEPT ![a] = l]
      /\ pc'[a] \in {"new", "write"} /\ a \in Definers => pc[a] \in {"new", "write"}
  BY DEF StartUpdate, Accept, Interrupt, StartIdle, Goto, OutcomeAssumption, Typed, TypeOK
<1>2. UNCHANGED <<meta, log, worker, later, cuts, lost>>
  BY DEF StartUpdate, Accept, Interrupt, StartIdle, history
<1> QED
  BY <1>1, <1>2 DEF Typed, TypeOK, Callers

LEMMA CrashEffect ==
  ASSUME OutcomeAssumption, Typed, Crash
  PROVE  /\ phase' = "idle" /\ run'.outcome = None
         /\ UNCHANGED <<meta, log, later, lost>>
         /\ cuts' = IF phase = "idle" THEN cuts ELSE cuts + 1
         /\ \A o \in Definers : pc'[o] \in {"new", "write"} => pc[o] \in {"new", "write"}
BY DEF Crash, Blank, Callers, history

LEMMA IterateEffect ==
  ASSUME OutcomeAssumption, Typed, Iterate
  PROVE  /\ phase = "loop" /\ run.outcome \in Definers /\ run'.outcome = run.outcome
         /\ UNCHANGED <<meta, pc, later, cuts, lost, after>>
         /\ \/ /\ run.iteration < Max[run.outcome] /\ phase' = "evaluate" /\ UNCHANGED run
               /\ log' = Append(log, [event |-> "start", outcome |-> run.outcome,
                                      iteration |-> run.iteration])
            \/ /\ phase' = "verdict" /\ ~run'.span /\ run'.verdict \in Terminal
               /\ UNCHANGED log /\ run'.evaluations = run.evaluations
<1>1. phase = "loop" /\ run.outcome \in Definers /\ run \in Runs
      /\ UNCHANGED <<meta, pc, later, cuts, lost, after>>
  BY DEF Iterate, Typed, TypeOK, HasOutcome, Judging, To, history
<1>2. CASE run.iteration < Max[run.outcome]
  BY <1>1, <1>2 DEF Iterate, To
<1>3. CASE ~(run.iteration < Max[run.outcome])
  <2>1. run' = [run EXCEPT !.verdict = "max_iterations_reached", !.span = FALSE,
                           !.iteration = run.iteration - 1]
        /\ phase' = "verdict" /\ UNCHANGED log
    BY <1>3 DEF Iterate, To
  <2> QED
    BY <1>1, <2>1 DEF Runs, Terminal, Results
<1> QED
  BY <1>2, <1>3

LEMMA EmitEffect ==
  ASSUME OutcomeAssumption, Typed, EmitVerdict
  PROVE  /\ phase = "verdict" /\ run.outcome \in Definers /\ phase' = "load"
         /\ after' = IF run.span THEN "reload" ELSE "ended"
         /\ log' = Append(log, [event |-> "end", outcome |-> run.outcome,
                                result |-> run.verdict, iteration |-> run.iteration,
                                span |-> run.span])
         /\ [event |-> "end", outcome |-> run.outcome, result |-> run.verdict,
             iteration |-> run.iteration, span |-> run.span] \in Ends
         /\ patch'["evaluations"] = Append(run.evaluations, Verdict)
         /\ UNCHANGED <<meta, run, pc, later, cuts, lost>>
BY DEF EmitVerdict, Persist, VerdictPatch, Typed, TypeOK, HasOutcome, Judging, Runs, Ends,
       history

LEMMA UnacceptedStep ==
  ASSUME OutcomeAssumption, Typed, PatchFollows, Unaccepted, ~lost', [Next]_vars
  PROVE  Unaccepted'
<1> USE DEF Unaccepted, Typed, TypeOK, Goals, Metadata, OutcomeAssumption, To, worker,
            history
<1>1. ASSUME StartTurn
      PROVE  Unaccepted'
  BY <1>1 DEF StartTurn, Blank
<1>2. ASSUME TurnEnds
      PROVE  Unaccepted'
  BY <1>2 DEF TurnEnds
<1>3. ASSUME TurnErrs
      PROVE  Unaccepted'
  BY <1>3 DEF TurnErrs
<1>4. ASSUME Enter
      PROVE  Unaccepted'
  BY <1>4 DEF Enter, Blank
<1>5. ASSUME Waits
      PROVE  Unaccepted'
  BY <1>5 DEF Waits
<1>6. ASSUME GivesUp
      PROVE  Unaccepted'
  BY <1>6 DEF GivesUp, Runs, Results
<1>7. ASSUME Supervise
      PROVE  Unaccepted'
  BY <1>7 DEF Supervise
<1>8. ASSUME Reread
      PROVE  Unaccepted'
  BY <1>8 DEF Reread, Runs
<1>9. ASSUME Resolve
      PROVE  Unaccepted'
  BY <1>9 DEF Resolve, Persist
<1>10. ASSUME ResolveModel
      PROVE  Unaccepted'
  BY <1>10 DEF ResolveModel
<1>11. ASSUME Load
      PROVE  Unaccepted'
  BY <1>11 DEF Load, Read
<1>12. ASSUME Store
      PROVE  Unaccepted'
  <2>1. meta'.outcome \in {meta.outcome, run.outcome, None} /\ UNCHANGED <<run, log, pc>>
    <3> HIDE DEF Typed, TypeOK
    <3>1. UNCHANGED <<run, log, pc>>
      BY <1>12, StoreEffect
    <3>2. meta'.outcome = StoredOutcome
      BY <1>12, StoreEffect
    <3> QED
      BY <3>1, <3>2 DEF StoredOutcome
  <2> QED
    BY <2>1
<1>13. ASSUME Cancelled
      PROVE  Unaccepted'
  BY <1>13 DEF Cancelled, CutOff
<1>14. ASSUME PublishIdle
      PROVE  Unaccepted'
  BY <1>14 DEF PublishIdle, Persist
<1>15. ASSUME Release
      PROVE  Unaccepted'
  BY <1>15 DEF Release, Blank
<1>16. ASSUME Iterate
      PROVE  Unaccepted'
  <2> DEFINE e == [event |-> "start", outcome |-> run.outcome, iteration |-> run.iteration]
  <2>1. /\ UNCHANGED <<meta, pc>> /\ run'.outcome = run.outcome /\ run.outcome \in Definers
        /\ UNCHANGED log \/ log' = Append(log, e)
    BY <1>16, IterateEffect
  <2>2. run.iteration \in Nat
    BY DEF Runs
  <2>3. e \in Starts \cup Ends /\ e.outcome = run.outcome
    BY <2>1, <2>2 DEF Starts
  <2> HIDE DEF e
  <2>4. \A i \in 1..Len(log') : \/ log'[i].outcome = run.outcome
                                \/ i \in 1..Len(log) /\ log'[i] = log[i]
    BY <2>1, <2>3, Appended
  <2> HIDE DEF Typed, TypeOK, OutcomeAssumption
  <2> QED
    BY <2>1, <2>4
<1>17. ASSUME Evaluate
      PROVE  Unaccepted'
  BY <1>17 DEF Evaluate, Runs, Results
<1>18. ASSUME EmitVerdict
      PROVE  Unaccepted'
  <2> DEFINE e == [event |-> "end", outcome |-> run.outcome, result |-> run.verdict,
                   iteration |-> run.iteration, span |-> run.span]
  <2>1. UNCHANGED <<meta, pc, run>> /\ run.outcome \in Definers /\ log' = Append(log, e)
    BY <1>18, EmitEffect
  <2>2. e \in Starts \cup Ends /\ e.outcome = run.outcome
    BY <1>18, EmitEffect
  <2> HIDE DEF e
  <2>4. \A i \in 1..Len(log') : \/ log'[i].outcome = run.outcome
                                \/ i \in 1..Len(log) /\ log'[i] = log[i]
    BY <2>1, <2>2, Appended
  <2> HIDE DEF Typed, TypeOK, OutcomeAssumption
  <2> QED
    BY <2>1, <2>4
<1>19. ASSUME Reload
      PROVE  Unaccepted'
  BY <1>19 DEF Reload, Runs
<1>20. ASSUME NextIteration
      PROVE  Unaccepted'
  BY <1>20 DEF NextIteration, Persist, Runs
<1>21. ASSUME Feedback
      PROVE  Unaccepted'
  BY <1>21 DEF Feedback
<1>22. ASSUME Revise
      PROVE  Unaccepted'
  BY <1>22 DEF Revise
<1>23. ASSUME RevisionErrs
      PROVE  Unaccepted'
  BY <1>23 DEF RevisionErrs, Runs, Results
<1>24. ASSUME Crash
      PROVE  Unaccepted'
  BY <1>24, CrashEffect
<1>25. ASSUME NEW a \in Callers, StartUpdate(a)
      PROVE  Unaccepted'
  BY <1>25, RequestEffect
<1>26. ASSUME NEW a \in Callers, Define(a)
      PROVE  Unaccepted'
  <2> HIDE DEF Typed, TypeOK
  <2>1. /\ meta'.outcome = a /\ pc'[a] = "event" /\ a \in Definers
        /\ \A o \in Definers : o # a => pc'[o] = pc[o]
        /\ UNCHANGED <<log, run>>
    BY <1>26, DefineEffect DEF worker
  <2> QED
    BY <2>1
<1>27. ASSUME NEW a \in Callers, Accept(a)
      PROVE  Unaccepted'
  BY <1>27, RequestEffect
<1>28. ASSUME NEW a \in Callers, Edit(a)
      PROVE  Unaccepted'
  BY <1>28, EditEffect DEF worker
<1>29. ASSUME NEW a \in Callers, Interrupt(a)
      PROVE  Unaccepted'
  BY <1>29, RequestEffect
<1>30. ASSUME NEW a \in Callers, StartIdle(a)
      PROVE  Unaccepted'
  BY <1>30, RequestEffect
<1>31. CASE UNCHANGED vars
  BY <1>31 DEF vars
<1> QED
  BY <1>1, <1>2, <1>3, <1>4, <1>5, <1>6, <1>7, <1>8, <1>9, <1>10,
     <1>11, <1>12, <1>13, <1>14, <1>15, <1>16, <1>17, <1>18, <1>19, <1>20,
     <1>21, <1>22, <1>23, <1>24, <1>25, <1>26, <1>27, <1>28, <1>29, <1>30,
     <1>31
  DEF Next, Turn, Loop, Request

\* One outcome stays within its budget; the row and the worker's counter account for
\* what it has cost.
LEMMA WithinStep ==
  ASSUME OutcomeAssumption, Typed, PatchFollows, Unaccepted, ~lost', [Next]_vars,
         NEW o \in Definers, Within(o)
  PROVE  Within(o)'
<1>a. /\ Cost(o) \in Nat /\ Cost(o)' \in Nat /\ Cost(o)' = Cost(o) + One(Started(o))
      /\ Max[o] \in Nat /\ Allowed(o) \in Nat /\ Allowed(o)' \in Nat
      /\ UNCHANGED <<later, cuts>> => Allowed(o)' = Allowed(o)
      /\ UNCHANGED later /\ cuts' = cuts + 1 => Allowed(o)' = Allowed(o) + 1
  BY CostSteps, AllowedSteps
<1>b. /\ meta.iteration \in Nat /\ run.iteration \in Nat /\ run \in Runs /\ o # None
      /\ meta'.iteration \in Nat /\ run'.iteration \in Nat
  BY TypeStep DEF Typed, TypeOK, Metadata, Runs, OutcomeAssumption
<1> USE <1>a, <1>b DEF Within, Running, Uncounted, Unsaved, One, Storing, Started, Begins, To,
                       worker, history
<1>1. ASSUME StartTurn
      PROVE  Within(o)'
  BY <1>1 DEF StartTurn, Blank
<1>2. ASSUME TurnEnds
      PROVE  Within(o)'
  BY <1>2 DEF TurnEnds
<1>3. ASSUME TurnErrs
      PROVE  Within(o)'
  BY <1>3 DEF TurnErrs
<1>4. ASSUME Enter
      PROVE  Within(o)'
  BY <1>4 DEF Enter, Blank
<1>5. ASSUME Waits
      PROVE  Within(o)'
  BY <1>5 DEF Waits
<1>6. ASSUME GivesUp
      PROVE  Within(o)'
  <2>1. /\ phase \in {"check", "resolve", "model"} /\ phase' = "verdict"
        /\ UNCHANGED <<meta, patch, after, later, cuts, log>>
        /\ run' = [run EXCEPT !.verdict = "failed", !.span = FALSE]
    BY <1>6 DEF GivesUp
  <2>2. /\ run'.outcome = run.outcome /\ run'.iteration = run.iteration
        /\ run'.verdict = "failed" /\ run'.span = FALSE
    BY <2>1 DEF Runs
  <2> QED
    BY <2>1, <2>2
<1>7. ASSUME Supervise
      PROVE  Within(o)'
  BY <1>7 DEF Supervise
<1>8. ASSUME Reread
      PROVE  Within(o)'
  BY <1>8 DEF Reread, Runs
<1>9. ASSUME Resolve
      PROVE  Within(o)'
  BY <1>9 DEF Resolve, Persist
<1>10. ASSUME ResolveModel
      PROVE  Within(o)'
  BY <1>10 DEF ResolveModel
<1>11. ASSUME Load
      PROVE  Within(o)'
  BY <1>11 DEF Load, Read
<1>12. ASSUME Store
      PROVE  Within(o)'
  <2>1. /\ phase = "store" /\ phase' = after
        /\ UNCHANGED <<run, log, pc, after, later, cuts>>
        /\ after \in {"model", "reload", "feedback", "ended", "release"}
        /\ after = "ended" => run.verdict \in Terminal
    BY <1>12, StoreEffect
  <2>2. meta'.outcome = StoredOutcome
    BY <1>12, StoreEffect
  <2>3. meta'.iteration = StoredIteration
    BY <1>12, StoreEffect
  <2> QED
    BY <2>1, <2>2, <2>3 DEF StoredOutcome, StoredIteration
<1>13. ASSUME Cancelled
      PROVE  Within(o)'
  BY <1>13 DEF Cancelled, CutOff, InTurn
<1>14. ASSUME PublishIdle
      PROVE  Within(o)'
  BY <1>14 DEF PublishIdle, Persist
<1>15. ASSUME Release
      PROVE  Within(o)'
  BY <1>15 DEF Release, Blank
<1>16. ASSUME Iterate
      PROVE  Within(o)'
  <2>1. /\ phase = "loop" /\ run.outcome \in Definers /\ run'.outcome = run.outcome
        /\ UNCHANGED <<meta, later, cuts>>
    BY <1>16, IterateEffect
  <2>2. \/ run.iteration < Max[run.outcome] /\ phase' = "evaluate" /\ UNCHANGED run
        \/ phase' = "verdict" /\ ~run'.span
    BY <1>16, IterateEffect
  <2> QED
    BY <2>1, <2>2
<1>17. ASSUME Evaluate
      PROVE  Within(o)'
  BY <1>17 DEF Evaluate, Runs
<1>18. ASSUME EmitVerdict
      PROVE  Within(o)'
  <2>1. /\ phase = "verdict" /\ phase' = "load" /\ UNCHANGED <<meta, run, later, cuts>>
        /\ after' = IF run.span THEN "reload" ELSE "ended"
    BY <1>18, EmitEffect
  <2> QED
    BY <2>1
<1>19. ASSUME Reload
      PROVE  Within(o)'
  BY <1>19 DEF Reload, Runs, Terminal, Results
<1>20. ASSUME NextIteration
      PROVE  Within(o)'
  BY <1>20 DEF NextIteration, Persist, Runs
<1>21. ASSUME Feedback
      PROVE  Within(o)'
  BY <1>21 DEF Feedback
<1>22. ASSUME Revise
      PROVE  Within(o)'
  BY <1>22 DEF Revise
<1>23. ASSUME RevisionErrs
      PROVE  Within(o)'
  BY <1>23 DEF RevisionErrs, Runs
<1>24. ASSUME Crash
      PROVE  Within(o)'
  <2>1. /\ phase' = "idle" /\ run'.outcome = None /\ UNCHANGED <<meta, later>>
        /\ cuts' = IF phase = "idle" THEN cuts ELSE cuts + 1
    BY <1>24, CrashEffect
  <2> QED
    BY <2>1
<1>25. ASSUME NEW a \in Callers, StartUpdate(a)
      PROVE  Within(o)'
  <2>1. UNCHANGED <<meta, phase, run, after, later, cuts>>
    BY <1>25, RequestEffect
  <2> QED
    BY <2>1
<1>26. ASSUME NEW a \in Callers, Define(a)
      PROVE  Within(o)'
  <2>1. /\ meta'.outcome = a /\ meta'.iteration = 0 /\ pc[a] = "write" /\ a \in Definers
        /\ UNCHANGED <<phase, run, after>>
    BY <1>26, DefineEffect
  <2>2. Allowed(o)' = IF o = a THEN cuts ELSE Allowed(o) + Max[o]
    BY <1>26, AllowedSteps
  <2>3. CASE o = a
    <3>1. Cost(o) = 0 /\ run.outcome # o /\ cuts \in Nat
      <4>1. StartsOf(o) = {}
        BY <2>1, <2>3 DEF Unaccepted, StartsOf
      <4> QED
        BY <2>1, <2>3, <4>1, FS_EmptySet DEF Unaccepted, Cost, Typed, TypeOK
    <3> QED
      BY <2>1, <2>2, <2>3, <3>1
  <2>4. CASE o # a
    BY <2>1, <2>2, <2>4
  <2> QED
    BY <2>3, <2>4
<1>27. ASSUME NEW a \in Callers, Accept(a)
      PROVE  Within(o)'
  <2>1. UNCHANGED <<meta, phase, run, after, later, cuts>>
    BY <1>27, RequestEffect
  <2> QED
    BY <2>1
<1>28. ASSUME NEW a \in Callers, Edit(a)
      PROVE  Within(o)'
  <2>1. /\ meta'.outcome = meta.outcome /\ meta'.iteration = meta.iteration
        /\ UNCHANGED <<phase, run, after, later, cuts>>
    BY <1>28, EditEffect
  <2> QED
    BY <2>1
<1>29. ASSUME NEW a \in Callers, Interrupt(a)
      PROVE  Within(o)'
  <2>1. UNCHANGED <<meta, phase, run, after, later, cuts>>
    BY <1>29, RequestEffect
  <2> QED
    BY <2>1
<1>30. ASSUME NEW a \in Callers, StartIdle(a)
      PROVE  Within(o)'
  <2>1. UNCHANGED <<meta, phase, run, after, later, cuts>>
    BY <1>30, RequestEffect
  <2> QED
    BY <2>1
<1>31. CASE UNCHANGED vars
  BY <1>31 DEF vars
<1> QED
  BY <1>1, <1>2, <1>3, <1>4, <1>5, <1>6, <1>7, <1>8, <1>9, <1>10,
     <1>11, <1>12, <1>13, <1>14, <1>15, <1>16, <1>17, <1>18, <1>19, <1>20,
     <1>21, <1>22, <1>23, <1>24, <1>25, <1>26, <1>27, <1>28, <1>29, <1>30,
     <1>31
  DEF Next, Turn, Loop, Request

-----------------------------------------------------------------------------
\* A step leaves the log alone, begins an evaluation or publishes a verdict.
LEMMA LogSteps ==
  ASSUME OutcomeAssumption, Typed, [Next]_vars
  PROVE  \/ UNCHANGED log /\ ~Begins /\ ~Rules
         \/ Iterate /\ phase' = "evaluate"
         \/ EmitVerdict
BY DEF Begins, Rules, Next, Turn, Loop, Request, vars, StartTurn, TurnEnds, TurnErrs, Enter,
       Waits, GivesUp, Supervise, Reread, Resolve, ResolveModel, Load, Store, Cancelled,
       CutOff, PublishIdle, Release, Evaluate, Reload, NextIteration, Feedback, Revise,
       RevisionErrs, Crash, StartUpdate, Define, Accept, Edit, Interrupt, StartIdle,
       Iterate, To, Persist, worker

LEMMA SpanCounts ==
  ASSUME OutcomeAssumption, Typed, [Next]_vars
  PROVE  /\ Cardinality(Begun) \in Nat /\ Cardinality(Begun)' \in Nat
         /\ Cardinality(Closed) \in Nat /\ Cardinality(Closed)' \in Nat
         /\ Cardinality(Begun)' = Cardinality(Begun) + One(Begins)
         /\ Cardinality(Closed)' =
              Cardinality(Closed) + One(Rules /\ run.span)
<1>1. Begun \in SUBSET (1..Len(log)) /\ Closed \in SUBSET (1..Len(log))
      /\ log \in Seq(Starts \cup Ends)
  BY DEF Begun, Closed, Typed, TypeOK
<1>2. Cardinality(Begun) \in Nat /\ Cardinality(Closed) \in Nat
  BY <1>1, IndicesFinite
<1>3. CASE Iterate /\ phase' = "evaluate"
  <2> DEFINE e == [event |-> "start", outcome |-> run.outcome, iteration |-> run.iteration]
  <2>1. log' = Append(log, e) /\ e.event = "start" /\ phase = "loop"
        /\ run.outcome \in Definers
    BY <1>3, IterateEffect
  <2>2. e \in Starts \cup Ends
    BY <2>1 DEF Starts, Typed, TypeOK, Runs
  <2> HIDE DEF e
  <2>3. /\ Len(log) \in Nat /\ Len(log') = Len(log) + 1 /\ log'[Len(log) + 1] = e
        /\ \A j \in 1..Len(log) : log'[j] = log[j]
        /\ 1..Len(log') = (1..Len(log)) \cup {Len(log) + 1}
    BY <1>1, <2>1, <2>2, Appended
  <2>4. Begun' = Begun \cup {Len(log) + 1} /\ Closed' = Closed
    BY <2>1, <2>3 DEF Begun, Closed
  <2>5. Cardinality(Begun)' = Cardinality(Begun) + 1
    BY <1>1, <2>4, CountOneMore
  <2> QED
    BY <1>2, <1>3, <2>1, <2>4, <2>5 DEF One, Begins, Rules
<1>4. CASE EmitVerdict
  <2> DEFINE e == [event |-> "end", outcome |-> run.outcome, result |-> run.verdict,
                   iteration |-> run.iteration, span |-> run.span]
  <2>1. log' = Append(log, e) /\ phase = "verdict" /\ phase' = "load" /\ e \in Ends
        /\ run.span \in BOOLEAN
    BY <1>4, EmitEffect DEF Typed, TypeOK, Runs
  <2>2. e \in Starts \cup Ends /\ e.event = "end" /\ e.span = run.span
    BY <2>1
  <2> HIDE DEF e
  <2>3. /\ Len(log) \in Nat /\ Len(log') = Len(log) + 1 /\ log'[Len(log) + 1] = e
        /\ \A j \in 1..Len(log) : log'[j] = log[j]
        /\ 1..Len(log') = (1..Len(log)) \cup {Len(log) + 1}
    BY <1>1, <2>1, <2>2, Appended
  <2>4. Begun' = Begun
    BY <2>2, <2>3 DEF Begun
  <2>5. CASE run.span
    <3>1. Closed' = Closed \cup {Len(log) + 1}
      BY <2>2, <2>3, <2>5 DEF Closed
    <3>2. Cardinality(Closed)' = Cardinality(Closed) + 1
      BY <1>1, <3>1, CountOneMore
    <3> QED
      BY <1>2, <2>1, <2>4, <2>5, <3>2 DEF One, Begins, Rules
  <2>6. CASE ~run.span
    <3>1. Closed' = Closed
      BY <2>2, <2>3, <2>6 DEF Closed
    <3> QED
      BY <1>2, <2>1, <2>4, <2>6, <3>1 DEF One, Begins, Rules
  <2> QED
    BY <2>1, <2>5, <2>6
<1>5. CASE UNCHANGED log /\ ~Begins /\ ~Rules
  <2>1. Begun' = Begun /\ Closed' = Closed
    BY <1>5 DEF Begun, Closed
  <2> QED
    BY <1>2, <1>5, <2>1 DEF One, Begins, Rules
<1> QED
  BY <1>3, <1>4, <1>5, LogSteps

\* Every evaluation that begins is closed by its verdict or cut off.
LEMMA SpansStep ==
  ASSUME OutcomeAssumption, Typed, PatchFollows, SpansInv, [Next]_vars
  PROVE  SpansInv'
<1>a. /\ Cardinality(Begun) \in Nat /\ Cardinality(Begun)' \in Nat
      /\ Cardinality(Closed) \in Nat /\ Cardinality(Closed)' \in Nat
      /\ Cardinality(Begun)' = Cardinality(Begun) + One(Begins)
      /\ Cardinality(Closed)' =
           Cardinality(Closed) + One(Rules /\ run.span)
      /\ cuts \in Nat /\ run \in Runs
  BY SpanCounts DEF Typed, TypeOK
<1> USE <1>a DEF SpansInv, One, Begins, Rules, To, worker, history
<1>1. ASSUME StartTurn
      PROVE  SpansInv'
  BY <1>1 DEF StartTurn, Blank
<1>2. ASSUME TurnEnds
      PROVE  SpansInv'
  BY <1>2 DEF TurnEnds
<1>3. ASSUME TurnErrs
      PROVE  SpansInv'
  BY <1>3 DEF TurnErrs
<1>4. ASSUME Enter
      PROVE  SpansInv'
  BY <1>4 DEF Enter, Blank
<1>5. ASSUME Waits
      PROVE  SpansInv'
  BY <1>5 DEF Waits
<1>6. ASSUME GivesUp
      PROVE  SpansInv'
  BY <1>6 DEF GivesUp, Runs
<1>7. ASSUME Supervise
      PROVE  SpansInv'
  BY <1>7 DEF Supervise
<1>8. ASSUME Reread
      PROVE  SpansInv'
  BY <1>8 DEF Reread, Runs
<1>9. ASSUME Resolve
      PROVE  SpansInv'
  BY <1>9 DEF Resolve, Persist
<1>10. ASSUME ResolveModel
      PROVE  SpansInv'
  BY <1>10 DEF ResolveModel
<1>11. ASSUME Load
      PROVE  SpansInv'
  BY <1>11 DEF Load, Read
<1>12. ASSUME Store
      PROVE  SpansInv'
  <2>1. /\ phase = "store" /\ phase' = after /\ cuts' = cuts
        /\ after \notin {"evaluate", "verdict"}
    BY <1>12 DEF Store, PatchFollows, Storing
  <2> QED
    BY <2>1
<1>13. ASSUME Cancelled
      PROVE  SpansInv'
  BY <1>13 DEF Cancelled, CutOff, InTurn
<1>14. ASSUME PublishIdle
      PROVE  SpansInv'
  BY <1>14 DEF PublishIdle, Persist
<1>15. ASSUME Release
      PROVE  SpansInv'
  BY <1>15 DEF Release, Blank
<1>16. ASSUME Iterate
      PROVE  SpansInv'
  <2>1. /\ phase = "loop" /\ cuts' = cuts
        /\ \/ phase' = "evaluate"
           \/ phase' = "verdict" /\ ~run'.span
    BY <1>16, IterateEffect
  <2> QED
    BY <2>1
<1>17. ASSUME Evaluate
      PROVE  SpansInv'
  BY <1>17 DEF Evaluate, Runs
<1>18. ASSUME EmitVerdict
      PROVE  SpansInv'
  BY <1>18 DEF EmitVerdict, Persist
<1>19. ASSUME Reload
      PROVE  SpansInv'
  BY <1>19 DEF Reload, Runs
<1>20. ASSUME NextIteration
      PROVE  SpansInv'
  BY <1>20 DEF NextIteration, Persist, Runs
<1>21. ASSUME Feedback
      PROVE  SpansInv'
  BY <1>21 DEF Feedback
<1>22. ASSUME Revise
      PROVE  SpansInv'
  BY <1>22 DEF Revise
<1>23. ASSUME RevisionErrs
      PROVE  SpansInv'
  BY <1>23 DEF RevisionErrs, Runs
<1>24. ASSUME Crash
      PROVE  SpansInv'
  BY <1>24 DEF Crash
<1>25. ASSUME NEW a \in Callers, StartUpdate(a)
      PROVE  SpansInv'
  BY <1>25 DEF StartUpdate
<1>26. ASSUME NEW a \in Callers, Define(a)
      PROVE  SpansInv'
  BY <1>26 DEF Define
<1>27. ASSUME NEW a \in Callers, Accept(a)
      PROVE  SpansInv'
  BY <1>27 DEF Accept
<1>28. ASSUME NEW a \in Callers, Edit(a)
      PROVE  SpansInv'
  BY <1>28 DEF Edit
<1>29. ASSUME NEW a \in Callers, Interrupt(a)
      PROVE  SpansInv'
  BY <1>29 DEF Interrupt
<1>30. ASSUME NEW a \in Callers, StartIdle(a)
      PROVE  SpansInv'
  BY <1>30 DEF StartIdle
<1>31. CASE UNCHANGED vars
  BY <1>31 DEF vars
<1> QED
  BY <1>1, <1>2, <1>3, <1>4, <1>5, <1>6, <1>7, <1>8, <1>9, <1>10,
     <1>11, <1>12, <1>13, <1>14, <1>15, <1>16, <1>17, <1>18, <1>19, <1>20,
     <1>21, <1>22, <1>23, <1>24, <1>25, <1>26, <1>27, <1>28, <1>29, <1>30,
     <1>31
  DEF Next, Turn, Loop, Request

-----------------------------------------------------------------------------
\* The events of one outcome after a step: those before, and the one appended if it is
\* of the outcome the supervisor judges.
LEMMA EventSteps ==
  ASSUME OutcomeAssumption, Typed, [Next]_vars, NEW o \in Definers
  PROVE  \/ /\ FinalOf(o)' = FinalOf(o) /\ (FinalLast(o) => FinalLast(o)')
         \/ /\ Iterate /\ phase' = "evaluate" /\ run.outcome = o
            /\ FinalOf(o)' = FinalOf(o)
         \/ /\ EmitVerdict /\ run.outcome = o
            /\ run.verdict \in Terminal /\ (FinalOf(o) = {} => FinalLast(o)')
         \/ /\ EmitVerdict /\ run.outcome = o
            /\ run.verdict \notin Terminal /\ FinalOf(o)' = FinalOf(o)
<1>1. log \in Seq(Starts \cup Ends)
  BY DEF Typed, TypeOK
<1>2. CASE UNCHANGED log
  BY <1>2 DEF FinalLast, FinalOf, StartsOf, EndsOf
<1>3. CASE Iterate /\ phase' = "evaluate"
  <2> DEFINE e == [event |-> "start", outcome |-> run.outcome, iteration |-> run.iteration]
  <2>1. log' = Append(log, e) /\ e.event = "start" /\ e.outcome = run.outcome
        /\ run.outcome \in Definers
    BY <1>3, IterateEffect
  <2>2. e \in Starts \cup Ends
    BY <2>1 DEF Starts, Typed, TypeOK, Runs
  <2> HIDE DEF e
  <2>3. /\ Len(log) \in Nat /\ Len(log') = Len(log) + 1 /\ log'[Len(log) + 1] = e
        /\ \A j \in 1..Len(log) : log'[j] = log[j]
        /\ 1..Len(log') = (1..Len(log)) \cup {Len(log) + 1}
    BY <1>1, <2>1, <2>2, Appended
  <2>4. FinalOf(o)' = FinalOf(o) /\ EndsOf(o)' = EndsOf(o)
    BY <2>1, <2>3 DEF FinalOf, EndsOf
  <2>5. CASE run.outcome # o
    <3>1. StartsOf(o)' = StartsOf(o)
      BY <2>1, <2>3, <2>5 DEF StartsOf
    <3> QED
      BY <2>4, <3>1 DEF FinalLast
  <2> QED
    BY <1>3, <2>4, <2>5
<1>4. CASE EmitVerdict
  <2> DEFINE e == [event |-> "end", outcome |-> run.outcome, result |-> run.verdict,
                   iteration |-> run.iteration, span |-> run.span]
  <2>1. log' = Append(log, e) /\ e \in Ends
    BY <1>4, EmitEffect
  <2>2. /\ e \in Starts \cup Ends /\ e.event = "end" /\ e.outcome = run.outcome
        /\ e.result = run.verdict
    BY <2>1
  <2> HIDE DEF e
  <2>3. /\ Len(log) \in Nat /\ Len(log') = Len(log) + 1 /\ log'[Len(log) + 1] = e
        /\ \A j \in 1..Len(log) : log'[j] = log[j]
        /\ 1..Len(log') = (1..Len(log)) \cup {Len(log) + 1}
    BY <1>1, <2>1, <2>2, Appended
  <2>4. StartsOf(o)' = StartsOf(o)
    BY <2>2, <2>3 DEF StartsOf
  <2>5. CASE run.outcome # o
    <3>1. EndsOf(o)' = EndsOf(o) /\ FinalOf(o)' = FinalOf(o)
      BY <2>2, <2>3, <2>5 DEF EndsOf, FinalOf
    <3> QED
      BY <2>4, <3>1 DEF FinalLast
  <2>6. CASE run.outcome = o /\ run.verdict \notin Terminal
    <3>1. FinalOf(o)' = FinalOf(o)
      BY <2>2, <2>3, <2>6 DEF EndsOf, FinalOf
    <3> QED
      BY <1>4, <2>6, <3>1
  <2>7. CASE run.outcome = o /\ run.verdict \in Terminal
    <3>1. EndsOf(o)' = EndsOf(o) \cup {Len(log) + 1}
      BY <2>2, <2>3, <2>7 DEF EndsOf
    <3>2. FinalOf(o)' = FinalOf(o) \cup {Len(log) + 1}
      BY <2>2, <2>3, <2>7 DEF EndsOf, FinalOf
    <3>3. \A j \in StartsOf(o)' \cup EndsOf(o)' : j <= Len(log) + 1
      BY <2>3, <2>4, <3>1 DEF StartsOf, EndsOf
    <3>4. FinalOf(o) = {} => FinalLast(o)'
      BY <3>2, <3>3 DEF FinalLast
    <3> QED
      BY <1>4, <2>7, <3>4
  <2> QED
    BY <2>5, <2>6, <2>7
<1> QED
  BY <1>2, <1>3, <1>4, LogSteps

\* A final verdict stays the last event of its outcome.
LEMMA FinalStep ==
  ASSUME OutcomeAssumption, Typed, PatchFollows, Unaccepted, cuts' = 0, ~lost',
         [Next]_vars, NEW o \in Definers, FinalStays(o)
  PROVE  FinalStays(o)'
<1>a. o # None /\ cuts \in Nat /\ run \in Runs
  BY DEF Typed, TypeOK, OutcomeAssumption
<1>b. ASSUME ~Iterate, ~EmitVerdict
      PROVE  FinalOf(o)' = FinalOf(o) /\ FinalLast(o)'
  BY <1>b, EventSteps DEF FinalStays
<1> USE <1>a DEF FinalStays, Past, Storing, To, worker, history
<1>1. ASSUME StartTurn
      PROVE  FinalStays(o)'
  <2>1. FinalOf(o)' = FinalOf(o) /\ FinalLast(o)'
    BY <1>b, <1>1 DEF StartTurn, Iterate, EmitVerdict
  <2> QED
    BY <1>1, <2>1 DEF StartTurn, Blank
<1>2. ASSUME TurnEnds
      PROVE  FinalStays(o)'
  <2>1. FinalOf(o)' = FinalOf(o) /\ FinalLast(o)'
    BY <1>b, <1>2 DEF TurnEnds, Iterate, EmitVerdict
  <2> QED
    BY <1>2, <2>1 DEF TurnEnds
<1>3. ASSUME TurnErrs
      PROVE  FinalStays(o)'
  <2>1. FinalOf(o)' = FinalOf(o) /\ FinalLast(o)'
    BY <1>b, <1>3 DEF TurnErrs, Iterate, EmitVerdict
  <2> QED
    BY <1>3, <2>1 DEF TurnErrs
<1>4. ASSUME Enter
      PROVE  FinalStays(o)'
  <2>1. FinalOf(o)' = FinalOf(o) /\ FinalLast(o)'
    BY <1>b, <1>4 DEF Enter, Iterate, EmitVerdict
  <2> QED
    BY <1>4, <2>1 DEF Enter, Blank
<1>5. ASSUME Waits
      PROVE  FinalStays(o)'
  <2>1. FinalOf(o)' = FinalOf(o) /\ FinalLast(o)'
    BY <1>b, <1>5 DEF Waits, Iterate, EmitVerdict
  <2> QED
    BY <1>5, <2>1 DEF Waits
<1>6. ASSUME GivesUp
      PROVE  FinalStays(o)'
  <2>1. FinalOf(o)' = FinalOf(o) /\ FinalLast(o)'
    BY <1>b, <1>6 DEF GivesUp, Iterate, EmitVerdict
  <2> QED
    BY <1>6, <2>1 DEF GivesUp, Runs
<1>7. ASSUME Supervise
      PROVE  FinalStays(o)'
  <2>1. FinalOf(o)' = FinalOf(o) /\ FinalLast(o)'
    BY <1>b, <1>7 DEF Supervise, Iterate, EmitVerdict
  <2> QED
    BY <1>7, <2>1 DEF Supervise
<1>8. ASSUME Reread
      PROVE  FinalStays(o)'
  <2>1. FinalOf(o)' = FinalOf(o) /\ FinalLast(o)'
    BY <1>b, <1>8 DEF Reread, Iterate, EmitVerdict
  <2> QED
    BY <1>8, <2>1 DEF Reread, Runs
<1>9. ASSUME Resolve
      PROVE  FinalStays(o)'
  <2>1. FinalOf(o)' = FinalOf(o) /\ FinalLast(o)'
    BY <1>b, <1>9 DEF Resolve, Iterate, EmitVerdict
  <2> QED
    BY <1>9, <2>1 DEF Resolve, Persist
<1>10. ASSUME ResolveModel
      PROVE  FinalStays(o)'
  <2>1. FinalOf(o)' = FinalOf(o) /\ FinalLast(o)'
    BY <1>b, <1>10 DEF ResolveModel, Iterate, EmitVerdict
  <2> QED
    BY <1>10, <2>1 DEF ResolveModel
<1>11. ASSUME Load
      PROVE  FinalStays(o)'
  <2>1. FinalOf(o)' = FinalOf(o) /\ FinalLast(o)'
    BY <1>b, <1>11 DEF Load, Iterate, EmitVerdict
  <2> QED
    BY <1>11, <2>1 DEF Load, Read
<1>12. ASSUME Store
      PROVE  FinalStays(o)'
  <2>1. /\ phase = "store" /\ phase' = after /\ UNCHANGED <<run, after>>
        /\ after \in {"model", "reload", "feedback", "ended", "release"}
        /\ after = "ended" => run.verdict \in Terminal
    BY <1>12, StoreEffect
  <2>2. meta'.outcome = StoredOutcome
    BY <1>12, StoreEffect
  <2>3. ~Iterate /\ ~EmitVerdict
    BY <2>1 DEF Iterate, EmitVerdict
  <2> QED
    BY <1>b, <2>1, <2>2, <2>3 DEF StoredOutcome
<1>13. ASSUME Cancelled
      PROVE  FinalStays(o)'
  <2>1. FinalOf(o)' = FinalOf(o) /\ FinalLast(o)'
    BY <1>b, <1>13 DEF Cancelled, CutOff, InTurn, Iterate, EmitVerdict
  <2> QED
    BY <1>13, <2>1 DEF Cancelled, CutOff, InTurn
<1>14. ASSUME PublishIdle
      PROVE  FinalStays(o)'
  <2>1. FinalOf(o)' = FinalOf(o) /\ FinalLast(o)'
    BY <1>b, <1>14 DEF PublishIdle, Iterate, EmitVerdict
  <2> QED
    BY <1>14, <2>1 DEF PublishIdle, Persist
<1>15. ASSUME Release
      PROVE  FinalStays(o)'
  <2>1. FinalOf(o)' = FinalOf(o) /\ FinalLast(o)'
    BY <1>b, <1>15 DEF Release, Iterate, EmitVerdict
  <2> QED
    BY <1>15, <2>1 DEF Release, Blank
<1>16. ASSUME Iterate
      PROVE  FinalStays(o)'
  <2>1. /\ phase = "loop" /\ run'.outcome = run.outcome /\ UNCHANGED meta
        /\ phase' \in {"evaluate", "verdict"}
    BY <1>16, IterateEffect
  <2>2. FinalOf(o)' = FinalOf(o)
    BY <2>1, EventSteps DEF EmitVerdict
  <2>3. CASE FinalOf(o) = {}
    BY <2>2, <2>3 DEF FinalLast
  <2>4. CASE FinalOf(o) # {}
    <3>1. run.outcome # o /\ meta.outcome # o
      BY <2>1, <2>4
    <3>2. FinalLast(o)'
      BY <2>1, <3>1, EventSteps DEF EmitVerdict
    <3> QED
      BY <2>1, <2>2, <3>1, <3>2
  <2> QED
    BY <2>3, <2>4
<1>17. ASSUME Evaluate
      PROVE  FinalStays(o)'
  <2>1. FinalOf(o)' = FinalOf(o) /\ FinalLast(o)'
    BY <1>b, <1>17 DEF Evaluate, Iterate, EmitVerdict
  <2> QED
    BY <1>17, <2>1 DEF Evaluate, Runs
<1>18. ASSUME EmitVerdict
      PROVE  FinalStays(o)'
  <2>1. /\ phase = "verdict" /\ phase' = "load" /\ UNCHANGED <<meta, run>>
        /\ after' = IF run.span THEN "reload" ELSE "ended"
    BY <1>18, EmitEffect
  <2>2. ~Iterate
    BY <2>1 DEF Iterate
  <2>3. CASE run.outcome = o
    <3>1. FinalOf(o) = {}
      BY <2>1, <2>3
    <3>2. FinalLast(o)' /\ (FinalOf(o)' # {} => run.verdict \in Terminal)
      BY <2>2, <3>1, EventSteps DEF FinalLast
    <3> QED
      BY <2>1, <2>3, <3>2
  <2>4. CASE run.outcome # o
    <3>1. FinalOf(o)' = FinalOf(o) /\ FinalLast(o)'
      BY <2>2, <2>4, EventSteps
    <3> QED
      BY <2>1, <2>4, <3>1
  <2> QED
    BY <2>3, <2>4
<1>19. ASSUME Reload
      PROVE  FinalStays(o)'
  <2>1. FinalOf(o)' = FinalOf(o) /\ FinalLast(o)'
    BY <1>b, <1>19 DEF Reload, Iterate, EmitVerdict
  <2> QED
    BY <1>19, <2>1 DEF Reload, Runs
<1>20. ASSUME NextIteration
      PROVE  FinalStays(o)'
  <2>1. FinalOf(o)' = FinalOf(o) /\ FinalLast(o)'
    BY <1>b, <1>20 DEF NextIteration, Iterate, EmitVerdict
  <2> QED
    BY <1>20, <2>1 DEF NextIteration, Persist, Runs
<1>21. ASSUME Feedback
      PROVE  FinalStays(o)'
  <2>1. FinalOf(o)' = FinalOf(o) /\ FinalLast(o)'
    BY <1>b, <1>21 DEF Feedback, Iterate, EmitVerdict
  <2> QED
    BY <1>21, <2>1 DEF Feedback
<1>22. ASSUME Revise
      PROVE  FinalStays(o)'
  <2>1. FinalOf(o)' = FinalOf(o) /\ FinalLast(o)'
    BY <1>b, <1>22 DEF Revise, Iterate, EmitVerdict
  <2> QED
    BY <1>22, <2>1 DEF Revise
<1>23. ASSUME RevisionErrs
      PROVE  FinalStays(o)'
  <2>1. FinalOf(o)' = FinalOf(o) /\ FinalLast(o)'
    BY <1>b, <1>23 DEF RevisionErrs, Iterate, EmitVerdict
  <2> QED
    BY <1>23, <2>1 DEF RevisionErrs, Runs
<1>24. ASSUME Crash
      PROVE  FinalStays(o)'
  <2>1. phase' = "idle" /\ run'.outcome = None /\ UNCHANGED meta /\ phase = "idle"
    BY <1>24, CrashEffect
  <2>2. ~Iterate /\ ~EmitVerdict
    BY <2>1 DEF Iterate, EmitVerdict
  <2> QED
    BY <1>b, <2>1, <2>2
<1>25. ASSUME NEW a \in Callers, StartUpdate(a)
      PROVE  FinalStays(o)'
  <2>1. UNCHANGED <<meta, phase, run, after, log>>
    BY <1>25, RequestEffect
  <2>2. FinalOf(o)' = FinalOf(o) /\ FinalLast(o)'
    BY <2>1 DEF FinalLast, FinalOf, StartsOf, EndsOf
  <2> QED
    BY <2>1, <2>2
<1>26. ASSUME NEW a \in Callers, Define(a)
      PROVE  FinalStays(o)'
  <2>1. /\ meta'.outcome = a /\ pc[a] = "write" /\ a \in Definers
        /\ UNCHANGED <<phase, run, after, log>>
    BY <1>26, DefineEffect
  <2>2. FinalOf(o)' = FinalOf(o) /\ FinalLast(o)'
    BY <2>1 DEF FinalLast, FinalOf, StartsOf, EndsOf
  <2>3. CASE o = a
    <3>1. FinalOf(o) = {}
      BY <2>1, <2>3 DEF Unaccepted, FinalOf, EndsOf
    <3> QED
      BY <2>2, <3>1
  <2>4. CASE o # a
    BY <2>1, <2>2, <2>4
  <2> QED
    BY <2>3, <2>4
<1>27. ASSUME NEW a \in Callers, Accept(a)
      PROVE  FinalStays(o)'
  <2>1. UNCHANGED <<meta, phase, run, after, log>>
    BY <1>27, RequestEffect
  <2>2. FinalOf(o)' = FinalOf(o) /\ FinalLast(o)'
    BY <2>1 DEF FinalLast, FinalOf, StartsOf, EndsOf
  <2> QED
    BY <2>1, <2>2
<1>28. ASSUME NEW a \in Callers, Edit(a)
      PROVE  FinalStays(o)'
  <2>1. meta'.outcome = meta.outcome /\ UNCHANGED <<phase, run, after, log>>
    BY <1>28, EditEffect
  <2>2. FinalOf(o)' = FinalOf(o) /\ FinalLast(o)'
    BY <2>1 DEF FinalLast, FinalOf, StartsOf, EndsOf
  <2> QED
    BY <2>1, <2>2
<1>29. ASSUME NEW a \in Callers, Interrupt(a)
      PROVE  FinalStays(o)'
  <2>1. UNCHANGED <<meta, phase, run, after, log>>
    BY <1>29, RequestEffect
  <2>2. FinalOf(o)' = FinalOf(o) /\ FinalLast(o)'
    BY <2>1 DEF FinalLast, FinalOf, StartsOf, EndsOf
  <2> QED
    BY <2>1, <2>2
<1>30. ASSUME NEW a \in Callers, StartIdle(a)
      PROVE  FinalStays(o)'
  <2>1. UNCHANGED <<meta, phase, run, after, log>>
    BY <1>30, RequestEffect
  <2>2. FinalOf(o)' = FinalOf(o) /\ FinalLast(o)'
    BY <2>1 DEF FinalLast, FinalOf, StartsOf, EndsOf
  <2> QED
    BY <2>1, <2>2
<1>31. CASE UNCHANGED vars
  <2>1. FinalOf(o)' = FinalOf(o) /\ FinalLast(o)'
    BY <1>31 DEF FinalLast, FinalOf, StartsOf, EndsOf, vars
  <2> QED
    BY <1>31, <2>1 DEF vars
<1> QED
  BY <1>1, <1>2, <1>3, <1>4, <1>5, <1>6, <1>7, <1>8, <1>9, <1>10,
     <1>11, <1>12, <1>13, <1>14, <1>15, <1>16, <1>17, <1>18, <1>19, <1>20,
     <1>21, <1>22, <1>23, <1>24, <1>25, <1>26, <1>27, <1>28, <1>29, <1>30,
     <1>31
  DEF Next, Turn, Loop, Request

-----------------------------------------------------------------------------
\* Records that match a log match it when an event that is no verdict is appended ...
LEMMA MatchesKeep ==
  ASSUME log \in Seq(Starts \cup Ends), NEW e \in Starts \cup Ends, log' = Append(log, e),
         ~IsEnd(e), NEW s, Matches(s, log)
  PROVE  Matches(s, log')
<1>1. /\ Len(log) \in Nat /\ Len(log') = Len(log) + 1 /\ log'[Len(log) + 1] = e
      /\ \A j \in 1..Len(log) : log'[j] = log[j]
      /\ 1..Len(log') = (1..Len(log)) \cup {Len(log) + 1}
  BY Appended
<1>2. EndsIn(log') = EndsIn(log)
  BY <1>1 DEF EndsIn
<1>3. \A i \in EndsIn(log) : log'[i] = log[i] /\ Rank(i, log') = Rank(i, log)
  BY <1>1, <1>2 DEF EndsIn, Rank
<1> QED
  BY <1>2, <1>3 DEF Matches

\* ... and with its record when it is one.
LEMMA MatchesAppend ==
  ASSUME log \in Seq(Starts \cup Ends), NEW e \in Starts \cup Ends, log' = Append(log, e),
         IsEnd(e), NEW s \in Seq(Records), NEW r \in Records, r = Recorded(e),
         Matches(s, log)
  PROVE  Matches(Append(s, r), log')
<1> DEFINE n == Len(log) + 1
           t == Append(s, r)
<1>1. /\ Len(log) \in Nat /\ Len(log') = Len(log) + 1 /\ log'[Len(log) + 1] = e
      /\ \A j \in 1..Len(log) : log'[j] = log[j]
      /\ 1..Len(log') = (1..Len(log)) \cup {Len(log) + 1}
  BY Appended
<1>2. EndsIn(log') = EndsIn(log) \cup {n} /\ EndsIn(log) \in SUBSET (1..Len(log))
  BY <1>1 DEF EndsIn
<1>3. Cardinality(EndsIn(log')) = Cardinality(EndsIn(log)) + 1
      /\ IsFiniteSet(EndsIn(log)) /\ Cardinality(EndsIn(log)) \in Nat
  BY <1>2, CountOneMore, IndicesFinite
<1>4. Len(s) = Cardinality(EndsIn(log)) /\ Len(t) = Len(s) + 1 /\ t[Len(s) + 1] = r
      /\ \A k \in 1..Len(s) : t[k] = s[k]
  BY DEF Matches
<1>5. ASSUME NEW i \in EndsIn(log)
      PROVE  t[Rank(i, log')] = Recorded(log'[i])
  <2>1. i \in 1..Len(log) /\ IsEnd(log[i])
    BY <1>5 DEF EndsIn
  <2> DEFINE below == {j \in EndsIn(log) : j <= i}
  <2>2. {j \in EndsIn(log') : j <= i} = below
    BY <1>1, <1>2, <2>1
  <2>3. below \in SUBSET EndsIn(log) /\ i \in below /\ below \in SUBSET (1..Len(log))
    BY <1>2, <1>5, <2>1
  <2> HIDE DEF below
  <2>4. Cardinality(below) <= Cardinality(EndsIn(log)) /\ IsFiniteSet(below)
        /\ Cardinality(below) \in Nat
    BY <1>3, <2>3, FS_Subset, IndicesFinite
  <2>5. Cardinality(below) # 0
    BY <2>3, <2>4, FS_EmptySet
  <2>6. Rank(i, log') = Cardinality(below) /\ Rank(i, log) = Cardinality(below)
    BY <2>2 DEF Rank, below
  <2>7. s[Rank(i, log)] = Recorded(log[i])
    BY <1>5 DEF Matches
  <2>8. Cardinality(below) \in 1..Len(s)
    BY <1>4, <2>4, <2>5
  <2> HIDE DEF t
  <2> QED
    BY <1>1, <1>4, <2>1, <2>6, <2>7, <2>8
<1>6. Rank(n, log') = Len(s) + 1
  <2>1. {j \in EndsIn(log') : j <= n} = EndsIn(log')
    BY <1>1, <1>2
  <2> QED
    BY <1>3, <1>4, <2>1 DEF Rank
<1>7. t[Rank(n, log')] = Recorded(log'[n])
  <2> HIDE DEF t
  <2> QED
    BY <1>1, <1>4, <1>6
<1> HIDE DEF t, n
<1>8. \A i \in EndsIn(log') : t[Rank(i, log')] = Recorded(log'[i])
  BY <1>2, <1>5, <1>7
<1>9. Len(t) = Cardinality(EndsIn(log'))
  BY <1>3, <1>4
<1>10. Matches(t, log')
  BY <1>8, <1>9 DEF Matches
<1> QED
  BY <1>10 DEF t

\* The row keeps the records of every verdict.
LEMMA RecordsStep ==
  ASSUME OutcomeAssumption, Typed, PatchFollows, cuts' = 0, ~lost', RecordsMatch,
         [Next]_vars
  PROVE  RecordsMatch'
<1>a. cuts \in Nat /\ run \in Runs /\ log \in Seq(Starts \cup Ends)
  BY DEF Typed, TypeOK
<1> USE <1>a DEF RecordsMatch, Storing, To, worker, history
<1>1. ASSUME StartTurn
      PROVE  RecordsMatch'
  BY <1>1 DEF StartTurn, Blank
<1>2. ASSUME TurnEnds
      PROVE  RecordsMatch'
  BY <1>2 DEF TurnEnds
<1>3. ASSUME TurnErrs
      PROVE  RecordsMatch'
  BY <1>3 DEF TurnErrs
<1>4. ASSUME Enter
      PROVE  RecordsMatch'
  BY <1>4 DEF Enter, Blank
<1>5. ASSUME Waits
      PROVE  RecordsMatch'
  BY <1>5 DEF Waits
<1>6. ASSUME GivesUp
      PROVE  RecordsMatch'
  BY <1>6 DEF GivesUp, Runs
<1>7. ASSUME Supervise
      PROVE  RecordsMatch'
  BY <1>7 DEF Supervise
<1>8. ASSUME Reread
      PROVE  RecordsMatch'
  BY <1>8 DEF Reread, Runs
<1>9. ASSUME Resolve
      PROVE  RecordsMatch'
  BY <1>9 DEF Resolve, Persist
<1>10. ASSUME ResolveModel
      PROVE  RecordsMatch'
  BY <1>10 DEF ResolveModel
<1>11. ASSUME Load
      PROVE  RecordsMatch'
  BY <1>11 DEF Load, Read
<1>12. ASSUME Store
      PROVE  RecordsMatch'
  <2>1. /\ phase = "store" /\ phase' = after /\ UNCHANGED <<run, after, log>>
        /\ after \in {"model", "reload", "feedback", "ended", "release"}
    BY <1>12, StoreEffect
  <2>2. meta'.evaluations = IF after \in {"reload", "ended"} THEN patch["evaluations"]
                           ELSE meta.evaluations
    BY <1>12, StoreEffect
  <2> QED
    BY <2>1, <2>2
<1>13. ASSUME Cancelled
      PROVE  RecordsMatch'
  BY <1>13 DEF Cancelled, CutOff, InTurn
<1>14. ASSUME PublishIdle
      PROVE  RecordsMatch'
  BY <1>14 DEF PublishIdle, Persist
<1>15. ASSUME Release
      PROVE  RecordsMatch'
  BY <1>15 DEF Release, Blank
<1>16. ASSUME Iterate
      PROVE  RecordsMatch'
  <2>1. /\ phase = "loop" /\ UNCHANGED meta /\ phase' \in {"evaluate", "verdict"}
        /\ run.outcome \in Definers /\ run'.evaluations = run.evaluations
    BY <1>16, IterateEffect
  <2>2. Matches(meta.evaluations, log) /\ Matches(run.evaluations, log)
    BY <2>1
  <2> DEFINE e == [event |-> "start", outcome |-> run.outcome, iteration |-> run.iteration]
  <2>3. UNCHANGED log \/ log' = Append(log, e)
    BY <1>16, IterateEffect
  <2>4. e \in Starts \cup Ends /\ ~IsEnd(e)
    BY <2>1 DEF Starts, Runs, IsEnd
  <2> HIDE DEF e
  <2>5. Matches(meta.evaluations, log') /\ Matches(run.evaluations, log')
    BY <2>2, <2>3, <2>4, MatchesKeep
  <2> QED
    BY <2>1, <2>5
<1>17. ASSUME Evaluate
      PROVE  RecordsMatch'
  BY <1>17 DEF Evaluate, Runs
<1>18. ASSUME EmitVerdict
      PROVE  RecordsMatch'
  <2> DEFINE e == [event |-> "end", outcome |-> run.outcome, result |-> run.verdict,
                   iteration |-> run.iteration, span |-> run.span]
  <2>1. /\ phase = "verdict" /\ phase' = "load" /\ UNCHANGED run
        /\ after' = IF run.span THEN "reload" ELSE "ended"
        /\ run.outcome \in Definers /\ log' = Append(log, e) /\ e \in Ends
        /\ patch'["evaluations"] = Append(run.evaluations, Verdict)
    BY <1>18, EmitEffect
  <2>2. Matches(run.evaluations, log)
    BY <2>1
  <2>3. e \in Starts \cup Ends /\ IsEnd(e) /\ Verdict = Recorded(e)
        /\ run.evaluations \in Seq(Records) /\ Verdict \in Records
    BY <2>1 DEF IsEnd, Recorded, Verdict, Records, Runs
  <2> HIDE DEF e
  <2>4. Matches(Append(run.evaluations, Verdict), log')
    BY <2>1, <2>2, <2>3, MatchesAppend
  <2> QED
    BY <2>1, <2>4
<1>19. ASSUME Reload
      PROVE  RecordsMatch'
  BY <1>19 DEF Reload, Runs
<1>20. ASSUME NextIteration
      PROVE  RecordsMatch'
  BY <1>20 DEF NextIteration, Persist, Runs
<1>21. ASSUME Feedback
      PROVE  RecordsMatch'
  BY <1>21 DEF Feedback
<1>22. ASSUME Revise
      PROVE  RecordsMatch'
  BY <1>22 DEF Revise
<1>23. ASSUME RevisionErrs
      PROVE  RecordsMatch'
  BY <1>23 DEF RevisionErrs, Runs
<1>24. ASSUME Crash
      PROVE  RecordsMatch'
  <2>1. phase' = "idle" /\ UNCHANGED <<meta, log>> /\ phase = "idle"
    BY <1>24, CrashEffect
  <2> QED
    BY <2>1
<1>25. ASSUME NEW a \in Callers, StartUpdate(a)
      PROVE  RecordsMatch'
  <2>1. UNCHANGED <<meta, phase, run, after, patch, log>>
    BY <1>25, RequestEffect
  <2> QED
    BY <2>1
<1>26. ASSUME NEW a \in Callers, Define(a)
      PROVE  RecordsMatch'
  <2>1. meta'.evaluations = meta.evaluations /\ UNCHANGED <<phase, run, after, patch, log>>
    BY <1>26, DefineEffect
  <2> QED
    BY <2>1
<1>27. ASSUME NEW a \in Callers, Accept(a)
      PROVE  RecordsMatch'
  <2>1. UNCHANGED <<meta, phase, run, after, patch, log>>
    BY <1>27, RequestEffect
  <2> QED
    BY <2>1
<1>28. ASSUME NEW a \in Callers, Edit(a)
      PROVE  RecordsMatch'
  <2>1. meta'.evaluations = meta.evaluations /\ UNCHANGED <<phase, run, after, patch, log>>
    BY <1>28, EditEffect
  <2> QED
    BY <2>1
<1>29. ASSUME NEW a \in Callers, Interrupt(a)
      PROVE  RecordsMatch'
  <2>1. UNCHANGED <<meta, phase, run, after, patch, log>>
    BY <1>29, RequestEffect
  <2> QED
    BY <2>1
<1>30. ASSUME NEW a \in Callers, StartIdle(a)
      PROVE  RecordsMatch'
  <2>1. UNCHANGED <<meta, phase, run, after, patch, log>>
    BY <1>30, RequestEffect
  <2> QED
    BY <2>1
<1>31. CASE UNCHANGED vars
  BY <1>31 DEF vars
<1> QED
  BY <1>1, <1>2, <1>3, <1>4, <1>5, <1>6, <1>7, <1>8, <1>9, <1>10,
     <1>11, <1>12, <1>13, <1>14, <1>15, <1>16, <1>17, <1>18, <1>19, <1>20,
     <1>21, <1>22, <1>23, <1>24, <1>25, <1>26, <1>27, <1>28, <1>29, <1>30,
     <1>31
  DEF Next, Turn, Loop, Request

-----------------------------------------------------------------------------
SoundInv == Typed /\ PatchFollows /\ BudgetInv /\ SpansInv /\ FinalInv /\ RecordsInv

LEMMA AllowedTyped ==
  ASSUME OutcomeAssumption, Typed, NEW o \in Definers
  PROVE  Max[o] \in Nat /\ Allowed(o) \in Nat
<1> DEFINE m == Max[o]
<1>1. m \in Nat /\ later[o] \in Nat /\ cuts \in Nat
  BY DEF Typed, TypeOK, OutcomeAssumption
<1>2. Allowed(o) = m * later[o] + cuts
  BY DEF Allowed
<1> HIDE DEF m
<1>3. m * later[o] \in Nat
  BY <1>1
<1> QED
  BY <1>1, <1>2, <1>3 DEF m

LEMMA InitSound ==
  ASSUME OutcomeAssumption, Init
  PROVE  SoundInv
<1>1. Typed
  BY InitOutcome DEF IInv
<1>2. /\ meta = Fresh /\ log = << >> /\ phase = "idle" /\ run = Blank /\ cuts = 0
      /\ meta.outcome = None /\ meta.iteration = 0 /\ meta.evaluations = << >>
      /\ run.outcome = None
  BY DEF Init, Fresh, Blank
<1>3. PatchFollows
  BY <1>2 DEF PatchFollows, Storing
<1>4. ASSUME NEW o \in Definers
      PROVE  Within(o) /\ FinalStays(o)
  <2>1. StartsOf(o) = {} /\ FinalOf(o) = {}
    BY <1>2 DEF StartsOf, FinalOf, EndsOf
  <2>2. Cost(o) = 0
    BY <2>1, FS_EmptySet DEF Cost
  <2>3. Max[o] \in Nat /\ Allowed(o) \in Nat
    BY <1>1, AllowedTyped
  <2>4. Within(o)
    BY <1>2, <2>2, <2>3 DEF Within, Running, Storing, One, Unsaved, Uncounted
  <2> QED
    BY <2>1, <2>4 DEF FinalStays, FinalLast
<1>5. Unaccepted
  BY <1>2 DEF Unaccepted, OutcomeAssumption
<1>6. SpansInv
  <2>1. Begun = {} /\ Closed = {}
    BY <1>2 DEF Begun, Closed
  <2> QED
    BY <1>2, <2>1, FS_EmptySet DEF SpansInv, One
<1>7. RecordsMatch
  <2>1. EndsIn(log) = {} /\ Len(meta.evaluations) = 0
    BY <1>2 DEF EndsIn
  <2> QED
    BY <1>2, <2>1, FS_EmptySet DEF RecordsMatch, Storing, Matches
<1> QED
  BY <1>1, <1>3, <1>4, <1>5, <1>6, <1>7
  DEF SoundInv, BudgetInv, WithinBudget, FinalInv, RecordsInv

\* What has been cut off or lost stays so.
LEMMA HistoryGrows ==
  ASSUME OutcomeAssumption, Typed, [Next]_vars
  PROVE  (~lost' => ~lost) /\ (cuts' = 0 => cuts = 0)
<1>1. cuts \in Nat
  BY DEF Typed, TypeOK
<1>2. CASE Turn
  <2>1. CASE Store
    BY <2>1 DEF Store, Write
  <2>2. CASE Cancelled
    BY <1>1, <2>2 DEF Cancelled, CutOff
  <2>3. CASE Turn /\ ~Store /\ ~Cancelled
    BY <2>3 DEF Turn, StartTurn, TurnEnds, TurnErrs, Enter, Waits, GivesUp, Supervise, Reread,
         Resolve, ResolveModel, Load, PublishIdle, Release, history
  <2> QED
    BY <1>2, <2>1, <2>2, <2>3
<1>3. CASE Loop
  BY <1>3 DEF Loop, Iterate, Evaluate, EmitVerdict, Reload, NextIteration, Feedback, Revise,
       RevisionErrs, history
<1>4. CASE Crash
  BY <1>1, <1>4 DEF Crash
<1>5. ASSUME NEW a \in Callers, Request(a)
      PROVE  (~lost' => ~lost) /\ cuts' = cuts
  <2>1. CASE Define(a)
    BY <2>1 DEF Define, Write
  <2>2. CASE Edit(a)
    BY <2>2 DEF Edit, Write
  <2>3. CASE StartUpdate(a) \/ Accept(a) \/ Interrupt(a) \/ StartIdle(a)
    BY <2>3 DEF StartUpdate, Accept, Interrupt, StartIdle, history
  <2> QED
    BY <1>5, <2>1, <2>2, <2>3 DEF Request
<1> QED
  BY <1>2, <1>3, <1>4, <1>5 DEF Next, vars, history

LEMMA SoundStep ==
  ASSUME OutcomeAssumption, SoundInv, [Next]_vars
  PROVE  SoundInv'
<1>1. Typed /\ PatchFollows /\ (~lost' => ~lost) /\ (cuts' = 0 => cuts = 0)
  BY HistoryGrows DEF SoundInv
<1>2. Typed'
  BY <1>1, TypeStep
<1>3. PatchFollows'
  BY <1>1, PatchStep
<1>4. BudgetInv'
  <2>1. ASSUME ~lost'
        PROVE  Unaccepted' /\ WithinBudget'
    <3>1. Unaccepted /\ WithinBudget
      BY <1>1, <2>1 DEF SoundInv, BudgetInv
    <3>2. Unaccepted'
      BY <1>1, <2>1, <3>1, UnacceptedStep
    <3>3. \A o \in Definers : Within(o)'
      BY <1>1, <2>1, <3>1, WithinStep DEF WithinBudget
    <3> QED
      BY <3>2, <3>3 DEF WithinBudget
  <2> QED
    BY <2>1 DEF BudgetInv
<1>5. SpansInv'
  BY <1>1, SpansStep DEF SoundInv
<1>6. FinalInv'
  <2>1. ASSUME cuts' = 0, ~lost', NEW o \in Definers
        PROVE  FinalStays(o)'
    <3>1. Unaccepted /\ FinalStays(o)
      BY <1>1, <2>1 DEF SoundInv, BudgetInv, FinalInv
    <3> QED
      BY <1>1, <2>1, <3>1, FinalStep
  <2> QED
    BY <2>1 DEF FinalInv
<1>7. RecordsInv'
  <2>1. ASSUME cuts' = 0, ~lost'
        PROVE  RecordsMatch'
    <3>1. RecordsMatch
      BY <1>1, <2>1 DEF SoundInv, RecordsInv
    <3> QED
      BY <1>1, <2>1, <3>1, RecordsStep
  <2> QED
    BY <2>1 DEF RecordsInv
<1> QED
  BY <1>2, <1>3, <1>4, <1>5, <1>6, <1>7 DEF SoundInv

LEMMA SoundInvariant ==
  ASSUME OutcomeAssumption
  PROVE  Spec => []SoundInv
<1>1. Init => SoundInv
  BY InitSound
<1>2. SoundInv /\ [Next]_vars => SoundInv'
  BY SoundStep
<1> QED
  BY <1>1, <1>2, PTL DEF Spec

\* The four parts, from the invariant.
LEMMA SoundParts ==
  ASSUME OutcomeAssumption, SoundInv
  PROVE  EvaluationsAreSound
<1>1. IterationsBounded
  <2> SUFFICES ASSUME ~lost, NEW o \in Definers
               PROVE  Cardinality(StartsOf(o)) <= Max[o] * (1 + later[o]) + cuts
    BY DEF IterationsBounded
  <2> DEFINE m == Max[o]
  <2>1. Cost(o) <= Allowed(o) + m
    BY DEF SoundInv, BudgetInv, WithinBudget, Within
  <2>2. m \in Nat /\ later[o] \in Nat /\ cuts \in Nat
    BY DEF SoundInv, Typed, TypeOK, OutcomeAssumption
  <2>3. Allowed(o) = m * later[o] + cuts
    BY DEF Allowed
  <2> HIDE DEF m
  <2>4. m * (1 + later[o]) = m * later[o] + m /\ m * later[o] \in Nat
    BY <2>2
  <2>5. Cost(o) \in Nat
    <3>1. StartsOf(o) \in SUBSET (1..Len(log)) /\ log \in Seq(Starts \cup Ends)
      BY DEF StartsOf, SoundInv, Typed, TypeOK
    <3> QED
      BY <3>1, IndicesFinite DEF Cost
  <2>6. Cost(o) <= m * (1 + later[o]) + cuts
    BY <2>1, <2>2, <2>3, <2>4, <2>5
  <2> QED
    BY <2>6 DEF Cost, m
<1>2. SpansClosed
  <2>1. Begun \in SUBSET (1..Len(log)) /\ Closed \in SUBSET (1..Len(log))
        /\ log \in Seq(Starts \cup Ends) /\ cuts \in Nat
    BY DEF Begun, Closed, SoundInv, Typed, TypeOK
  <2>2. Cardinality(Begun) \in Nat /\ Cardinality(Closed) \in Nat
    BY <2>1, IndicesFinite
  <2>3. Cardinality(Begun) <= Cardinality(Closed) + cuts
                              + IF phase \in {"evaluate", "verdict"} THEN 1 ELSE 0
    BY <2>1, <2>2 DEF SoundInv, SpansInv, One
  <2> QED
    BY <2>3 DEF SpansClosed, Begun, Closed
<1>3. TerminalIsFinal
  BY DEF TerminalIsFinal, SoundInv, FinalInv, FinalStays, FinalLast
<1>4. RecordsComplete
  <2> SUFFICES ASSUME phase = "idle", cuts = 0, ~lost
               PROVE  /\ Len(meta.evaluations) = Cardinality(AllEnds)
                      /\ \A i \in AllEnds :
                           meta.evaluations[Cardinality({j \in AllEnds : j <= i})]
                             = Recorded(log[i])
    BY DEF RecordsComplete
  <2>1. Matches(meta.evaluations, log)
    BY DEF SoundInv, RecordsInv, RecordsMatch, Storing
  <2>2. AllEnds = EndsIn(log)
    BY DEF AllEnds, EndsIn
  <2> QED
    BY <2>1, <2>2 DEF Matches, Rank
<1> QED
  BY <1>1, <1>2, <1>3, <1>4 DEF EvaluationsAreSound

\* outcome_supervisor.go, the loop and emitOutcomeVerdict: for any number of outcomes,
\* requests and crashes no outcome costs more evaluations than it may, every evaluation
\* is closed but those cut off, no outcome is judged after its final verdict and no
\* verdict goes unrecorded, but for turns cut off and writes lost.
THEOREM EvaluationsStaySound ==
  ASSUME OutcomeAssumption
  PROVE  Spec => []EvaluationsAreSound
<1>1. SoundInv => EvaluationsAreSound
  BY SoundParts
<1> QED
  BY <1>1, SoundInvariant, PTL

=============================================================================
