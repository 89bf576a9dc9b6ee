---------------------------- MODULE Background ----------------------------
(***************************************************************************)
(* What the server does beside the requests and the lanes: the workers for *)
(* wakeups, evaluations and dreams, and the rooms of the local runtimes.   *)
(* They run in one process and share nothing but the database, of which    *)
(* each works on its own tables, so an instance looks at one part at a     *)
(* time and leaves the others where they start.                            *)
(***************************************************************************)
EXTENDS Naturals

CONSTANTS
  Parts,  \* the parts of the instance
  None,
  \* Wakeups
  Sessions, Callers, Ids, Cap, Batch, MaxTime, MaxFaults,
  \* EvalWorker and DreamWorker
  Trials, TaskOf, LastMessage, MaxCrashes, Paths, Contents, Large, Blank, MaxStores, MaxEdits,
  \* RuntimeRoom
  Conns

VARIABLES
  part,
  ever, live, sched, archived, calls, due, head, now, fired, excused, faults,
  run, work, sessions, late, deleting, crashes,
  dream, input, outputs, procs, cancel, copied, doubled, edits, lost,
  daemon, phase, peer, newest, row

W == INSTANCE Wakeups
E == INSTANCE EvalWorker
D == INSTANCE DreamWorker WITH crashes <- lost
R == INSTANCE RuntimeRoom

ASSUME BackgroundAssumption ==
  W!WakeupAssumption /\ E!EvalAssumption /\ D!DreamAssumption /\ R!RoomAssumption

Init == part \in Parts /\ W!Init /\ E!Init /\ D!Init /\ R!Init

wakeupVars ==
  <<ever, live, sched, archived, calls, due, head, now, fired, excused, faults>>
evalVars   == <<run, work, sessions, late, deleting, crashes>>
dreamVars  == <<dream, input, outputs, procs, cancel, copied, doubled, edits, lost>>
roomVars   == <<daemon, phase, peer, newest, row>>

Wakes   == part = "wakeups" /\ W!Next /\ UNCHANGED <<part, evalVars, dreamVars, roomVars>>
Evals   == part = "evals" /\ E!Next /\ UNCHANGED <<part, wakeupVars, dreamVars, roomVars>>
Dreams  == part = "dreams" /\ D!Next /\ UNCHANGED <<part, wakeupVars, evalVars, roomVars>>
Runtime == part = "runtimes" /\ R!Next /\ UNCHANGED <<part, wakeupVars, evalVars, dreamVars>>

Next == Wakes \/ Evals \/ Dreams \/ Runtime

Spec ==
  /\ Init /\ [][Next]_<<part, wakeupVars, evalVars, dreamVars, roomVars>>
  /\ part = "evals" => E!Fairness
  /\ part = "runtimes" => R!Fairness

-----------------------------------------------------------------------------
\* wakeup_worker.go, fire and then delete: a schedule leaves the table only after
\* it was queued, cancelled, or due in an archived session; and a one-shot is
\* queued again only if a call failed or the server crashed.
WakeupsDelivered == W!WakeupsDelivered

\* wakeup.go "pending wakeup cap reached": concurrent requests pass the check
\* together, but a session never has more rows than the cap and one for each
\* request but the first.
CapOverrun == W!CapOverrun

\* worker.go, the timeout of a trial: every run ends, or is deleted, though a
\* session's turn may never end, a restart may leave it interrupted, and calls fail.
EveryRunEnds == part = "evals" => E!EveryRunEnds

\* worker.go, the loop over ListMemories: the output store of a completed dream
\* holds every memory that was listed, a small one whole and one over 4 KB as an
\* empty one, whatever was interrupted and taken up again before; unless the request
\* and a tick worked on it at once, when the one that completes may have copied to a
\* store of its own.
CompletedCopies == D!CompletedCopies

\* readDaemon marks the runtime offline after a new daemon may have marked it
\* online; a daemon that stays is online in the end, for it keeps pinging.
ComesOnline == part = "runtimes" => R!ComesOnline
=============================================================================
