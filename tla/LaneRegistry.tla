---------------------------- MODULE LaneRegistry ----------------------------
(***************************************************************************)
(* The life of one session's lanes in the registry (internal/session,      *)
(* registry.go): requests and the wakeup worker register and look up a     *)
(* lane and send it jobs, archiving and deleting the session take it away. *)
(* SessionLane has the inside of a lane; here a job is one turn, and the   *)
(* queue and the log are left out.  A step is one critical section of the  *)
(* registry, one channel operation or one statement on the sessions row.   *)
(***************************************************************************)
EXTENDS Naturals, FiniteSets

CONSTANTS
  Posts,     \* POSTs of one user.message
  Wakes,     \* wakeups fired by the worker's goroutine
  Stops,     \* POSTs of one user.interrupt
  Archives,  \* POSTs of /archive
  Deletes,   \* DELETEs of the session
  Lanes,     \* the lanes the process can make, as numbers
  ChanCap,   \* capacity of turnCh (32 in the code)
  Gone,      \* sets of callers, one of which never comes
  None       \* no lane

Senders  == Posts \cup Wakes
Requests == Senders \cup Stops
Closers  == Archives \cup Deletes
Callers  == Requests \cup Closers

ASSUME RegistryAssumption ==
  /\ Requests \cap Closers = {} /\ Senders \cap Stops = {} /\ Posts \cap Wakes = {}
  /\ Archives \cap Deletes = {}
  /\ Lanes \subseteq Nat /\ None \notin Lanes
  /\ ChanCap \in Nat \ {0}
  /\ Gone \subseteq SUBSET Callers

VARIABLES
  row,      \* the sessions row: status, turn_id (0 for NULL), archived_at set, there
  lane,     \* lanes[sessionID] of the registry
  phase,    \* where the worker of each lane is
  open,     \* lanes whose turnCh is not closed
  jobs,     \* jobs in each turnCh
  active,   \* Machine.activeTurn of each lane, 0 when no turn runs
  ctxDone,  \* lanes whose turn's context is cancelled
  pc,       \* where each caller is
  mine,     \* the lane each caller holds
  effect,   \* interrupts that stopped or drained something
  turns,    \* turns started (turn ids are counted)
  late,     \* history: POSTs that came after an archive had answered
  sealed    \* history: the session was archived with nothing in flight

memory == <<lane, phase, open, jobs, active, ctxDone>>
vars   == <<row, memory, pc, mine, effect, turns, late, sealed>>

Statuses == {"idle", "running", "interrupted", "archived"}
Phases   == {"none", "recv", "start", "begin", "turn", "end", "release", "exit"}
PCs      == {"new", "register", "lookup", "send", "stop", "drain", "recover",
             "unmap", "cancel", "close", "wait", "erase", "done", "failed"}

TypeOK ==
  /\ row \in [status : Statuses, turn : Nat, archived : BOOLEAN, there : BOOLEAN]
  /\ lane \in Lanes \cup {None}
  /\ phase \in [Lanes -> Phases]
  /\ open \subseteq Lanes
  /\ jobs \in [Lanes -> 0..ChanCap]
  /\ active \in [Lanes -> Nat]
  /\ ctxDone \subseteq Lanes
  /\ pc \in [Callers -> PCs]
  /\ mine \in [Callers -> Lanes \cup {None}]
  /\ effect \subseteq Stops
  /\ turns \in Nat
  /\ late \subseteq Posts
  /\ sealed \in BOOLEAN

Init ==
  /\ row = [status |-> "idle", turn |-> 0, archived |-> FALSE, there |-> TRUE]
  /\ lane = None /\ phase = [l \in Lanes |-> "none"] /\ open = {}
  /\ jobs = [l \in Lanes |-> 0] /\ active = [l \in Lanes |-> 0] /\ ctxDone = {}
  /\ \E g \in Gone : pc = [a \in Callers |-> IF a \in g THEN "failed" ELSE "new"]
  /\ mine = [a \in Callers |-> None]
  /\ effect = {} /\ turns = 0 /\ late = {} /\ sealed = FALSE

At(a, l)   == pc[a] = l
Goto(a, l) == pc' = [pc EXCEPT ![a] = l]
Turn(l, p) == phase' = [phase EXCEPT ![l] = p]

Answered == {"done", "failed"}
Working(l) == phase[l] \notin {"none", "exit"}

-----------------------------------------------------------------------------
(***************************************************************************)
(* A request finds the session, registers its lane, looks it up and uses   *)
(* it; the three are separate critical sections.                           *)
(***************************************************************************)
ReadRow(r) ==
  /\ At(r, "new")
  /\ Goto(r, IF row.there /\ row.status # "archived" THEN "register" ELSE "done")
  /\ late' = IF r \in Posts /\ \E c \in Archives : At(c, "done")
             THEN late \cup {r} ELSE late
  /\ UNCHANGED <<row, memory, mine, effect, turns, sealed>>

\* newSessionLane: an open channel and a worker that waits on it.
MakeLane(l) ==
  /\ phase[l] = "none" /\ \A k \in Lanes : k < l => phase[k] # "none"
  /\ lane' = l /\ Turn(l, "recv") /\ open' = open \cup {l}
  /\ UNCHANGED <<jobs, active, ctxDone>>

\* Slip: a second registration puts a new lane in place of the old.
RegisterAgain(r) ==
  /\ At(r, "register")
  /\ \E l \in Lanes : MakeLane(l)
  /\ Goto(r, "lookup")
  /\ UNCHANGED <<row, mine, effect, turns, late, sealed>>

\* Registering again only refreshes the dependencies of the lane.
Register(r) ==
  /\ At(r, "register")
  /\ IF lane # None THEN UNCHANGED memory ELSE \E l \in Lanes : MakeLane(l)
  /\ Goto(r, "lookup")
  /\ UNCHANGED <<row, mine, effect, turns, late, sealed>>

\* ErrNotRegistered when the lane was removed in between.
Lookup(r) ==
  /\ At(r, "lookup")
  /\ mine' = [mine EXCEPT ![r] = lane]
  /\ Goto(r, IF lane = None THEN "failed" ELSE IF r \in Stops THEN "stop" ELSE "send")
  /\ UNCHANGED <<row, memory, effect, turns, late, sealed>>

\* scheduleTurn: a send on a full turnCh blocks.
Send(r) ==
  /\ At(r, "send") /\ mine[r] \in open /\ jobs[mine[r]] < ChanCap
  /\ jobs' = [jobs EXCEPT ![mine[r]] = @ + 1]
  /\ Goto(r, "done")
  /\ UNCHANGED <<row, lane, phase, open, active, ctxDone, mine, effect, turns,
                 late, sealed>>

\* A send on a closed channel panics.  The HTTP server recovers a handler's
\* goroutine and the request is lost with it.
SendPanics(r) ==
  /\ r \in Posts /\ At(r, "send") /\ mine[r] \notin open
  /\ Goto(r, "failed")
  /\ UNCHANGED <<row, memory, mine, effect, turns, late, sealed>>

\* Nothing recovers the worker's goroutine: the process dies, and the next one
\* starts without lanes and runs RecoverRunning.
WorkerPanics(r) ==
  /\ r \in Wakes /\ At(r, "send") /\ mine[r] \notin open
  /\ lane' = None /\ open' = {} /\ ctxDone' = {}
  /\ phase' = [l \in Lanes |-> IF Working(l) THEN "exit" ELSE phase[l]]
  /\ jobs' = [l \in Lanes |-> 0] /\ active' = [l \in Lanes |-> 0]
  /\ pc' = [a \in Callers |-> IF pc[a] \in {"new"} \cup Answered THEN pc[a]
                              ELSE "failed"]
  /\ row' = IF row.there /\ row.status = "running"
            THEN [row EXCEPT !.status = "interrupted", !.turn = 0] ELSE row
  /\ UNCHANGED <<mine, effect, turns, late, sealed>>

-----------------------------------------------------------------------------
(***************************************************************************)
(* handleInterrupt.                                                        *)
(***************************************************************************)
StopTurn(s) ==
  /\ At(s, "stop")
  /\ IF active[mine[s]] = 0 THEN UNCHANGED <<ctxDone, effect>>
     ELSE ctxDone' = ctxDone \cup {mine[s]} /\ effect' = effect \cup {s}
  /\ Goto(s, "drain")
  /\ UNCHANGED <<row, lane, phase, open, jobs, active, mine, turns, late, sealed>>

Drain(s) ==
  /\ At(s, "drain") /\ jobs[mine[s]] > 0
  /\ jobs' = [jobs EXCEPT ![mine[s]] = @ - 1] /\ effect' = effect \cup {s}
  /\ UNCHANGED <<row, lane, phase, open, active, ctxDone, pc, mine, turns, late, sealed>>

\* A closed channel is never empty: drainPendingTurns receives zero jobs from it,
\* counts them and receives again.
Spin(s) ==
  /\ At(s, "drain") /\ jobs[mine[s]] = 0 /\ mine[s] \notin open
  /\ UNCHANGED vars

\* The default of the select.
Drained(s) ==
  /\ At(s, "drain") /\ jobs[mine[s]] = 0 /\ mine[s] \in open
  /\ Goto(s, IF s \in effect THEN "done" ELSE "recover")
  /\ UNCHANGED <<row, memory, mine, effect, turns, late, sealed>>

\* SessionRepo.EndTurn: by turn id, else whatever is running or interrupted.
Ended(t) ==
  IF row.there /\ (row.turn = t \/ row.status \in {"running", "interrupted"})
  THEN [row EXCEPT !.status = "idle", !.turn = 0] ELSE row

\* RecoverStuckRunningOnInterrupt, its two statements in one.
Recover(s) ==
  /\ At(s, "recover")
  /\ row' = IF row.status = "running" THEN Ended(row.turn) ELSE row
  /\ Goto(s, "done")
  /\ UNCHANGED <<memory, mine, effect, turns, late, sealed>>

-----------------------------------------------------------------------------
(***************************************************************************)
(* Archiving and deleting.  Registry.Remove takes the lane out of the map, *)
(* cancels its turn, closes its channel and waits for its worker.          *)
(***************************************************************************)
\* No lane, and no request that has read the row.
Quiet ==
  /\ lane = None /\ \A l \in Lanes : ~Working(l)
  /\ \A r \in Requests : pc[r] \in {"new"} \cup Answered

\* SessionRepo.Archive: turn_id stays what it is.
ArchiveRow(c) ==
  /\ c \in Archives /\ At(c, "new")
  /\ row' = IF row.there /\ row.status # "archived"
            THEN [row EXCEPT !.status = "archived", !.archived = TRUE] ELSE row
  /\ sealed' = (sealed \/ (row.there /\ Quiet))
  /\ Goto(c, IF row.there THEN "unmap" ELSE "done")
  /\ UNCHANGED <<memory, mine, effect, turns, late>>

FindRow(c) ==
  /\ c \in Deletes /\ At(c, "new")
  /\ Goto(c, IF row.there THEN "unmap" ELSE "done")
  /\ UNCHANGED <<row, memory, mine, effect, turns, late, sealed>>

Finish(c) == IF c \in Deletes THEN "erase" ELSE "done"

Unmap(c) ==
  /\ At(c, "unmap")
  /\ mine' = [mine EXCEPT ![c] = lane] /\ lane' = None
  /\ Goto(c, IF lane = None THEN Finish(c) ELSE "cancel")
  /\ UNCHANGED <<row, phase, open, jobs, active, ctxDone, effect, turns, late, sealed>>

CancelTurn(c) ==
  /\ At(c, "cancel")
  /\ ctxDone' = IF active[mine[c]] = 0 THEN ctxDone ELSE ctxDone \cup {mine[c]}
  /\ Goto(c, "close")
  /\ UNCHANGED <<row, lane, phase, open, jobs, active, mine, effect, turns, late, sealed>>

CloseChannel(c) ==
  /\ At(c, "close")
  /\ open' = open \ {mine[c]}
  /\ Goto(c, "wait")
  /\ UNCHANGED <<row, lane, phase, jobs, active, ctxDone, mine, effect, turns, late, sealed>>

\* Slip: nobody waits for the worker.
DoNotWait(c) ==
  /\ At(c, "wait")
  /\ Goto(c, Finish(c))
  /\ UNCHANGED <<row, memory, mine, effect, turns, late, sealed>>

WaitForWorker(c) ==
  /\ At(c, "wait") /\ phase[mine[c]] = "exit"
  /\ Goto(c, Finish(c))
  /\ UNCHANGED <<row, memory, mine, effect, turns, late, sealed>>

DeleteRow(c) ==
  /\ At(c, "erase")
  /\ row' = [row EXCEPT !.there = FALSE]
  /\ Goto(c, "done")
  /\ UNCHANGED <<memory, mine, effect, turns, late, sealed>>

-----------------------------------------------------------------------------
(***************************************************************************)
(* runTurnWorker ranges over the channel: a closed one is read to its end, *)
(* so the jobs in it still get their turns.                                *)
(***************************************************************************)
Receive(l) ==
  /\ phase[l] = "recv" /\ jobs[l] > 0
  /\ jobs' = [jobs EXCEPT ![l] = @ - 1] /\ Turn(l, "start")
  /\ UNCHANGED <<row, lane, open, active, ctxDone, pc, mine, effect, turns, late, sealed>>

\* Slip: the worker does not see that the channel is closed and polls on.
PollOn(l) ==
  /\ phase[l] = "recv" /\ jobs[l] = 0 /\ l \notin open
  /\ UNCHANGED vars

Exit(l) ==
  /\ phase[l] = "recv" /\ jobs[l] = 0 /\ l \notin open
  /\ Turn(l, "exit")
  /\ UNCHANGED <<row, lane, open, jobs, active, ctxDone, pc, mine, effect, turns,
                 late, sealed>>

StartTurn(l) ==
  /\ phase[l] = "start"
  /\ turns' = turns + 1 /\ active' = [active EXCEPT ![l] = turns + 1]
  /\ ctxDone' = ctxDone \ {l} /\ Turn(l, "begin")
  /\ UNCHANGED <<row, lane, open, jobs, pc, mine, effect, late, sealed>>

\* BeginTurn asks for nothing but the row: archived or not, it is running now.
BeginTurn(l) ==
  /\ phase[l] = "begin"
  /\ IF l \in ctxDone \/ ~row.there
     THEN Turn(l, "release") /\ UNCHANGED row
     ELSE /\ Turn(l, "turn")
          /\ row' = [row EXCEPT !.status = "running", !.turn = active[l]]
  /\ UNCHANGED <<lane, open, jobs, active, ctxDone, pc, mine, effect, turns, late, sealed>>

\* The turn ends by itself or because it is cancelled.
TurnEnds(l) ==
  /\ phase[l] = "turn" /\ Turn(l, "end")
  /\ UNCHANGED <<row, lane, open, jobs, active, ctxDone, pc, mine, effect, turns,
                 late, sealed>>

EndTurn(l) ==
  /\ phase[l] = "end" /\ Turn(l, "release")
  /\ row' = Ended(active[l])
  /\ UNCHANGED <<lane, open, jobs, active, ctxDone, pc, mine, effect, turns, late, sealed>>

Release(l) ==
  /\ phase[l] = "release" /\ Turn(l, "recv")
  /\ active' = [active EXCEPT ![l] = 0] /\ ctxDone' = ctxDone \ {l}
  /\ UNCHANGED <<row, lane, open, jobs, pc, mine, effect, turns, late, sealed>>

\* Every caller is over and no worker has anything to do.
Rest ==
  /\ \A a \in Callers : pc[a] \in {"new"} \cup Answered
  /\ \A l \in Lanes : phase[l] \in {"none", "exit"} \/ (phase[l] = "recv" /\ jobs[l] = 0)
  /\ UNCHANGED vars

-----------------------------------------------------------------------------
Request(r) == Register(r) \/ Lookup(r) \/ Send(r) \/ SendPanics(r) \/ WorkerPanics(r)
Stop(s)    == StopTurn(s) \/ Drain(s) \/ Drained(s) \/ Recover(s)
Remove(c)  == Unmap(c) \/ CancelTurn(c) \/ CloseChannel(c) \/ WaitForWorker(c) \/ DeleteRow(c)
Work(l)    == \/ Receive(l) \/ Exit(l) \/ StartTurn(l) \/ BeginTurn(l)
              \/ TurnEnds(l) \/ EndTurn(l) \/ Release(l)

Next ==
  \/ \E r \in Requests : ReadRow(r) \/ Request(r)
  \/ \E s \in Stops : Stop(s) \/ Spin(s)
  \/ \E c \in Closers : ArchiveRow(c) \/ FindRow(c) \/ Remove(c)
  \/ \E l \in Lanes : Work(l)
  \/ Rest

\* Goroutines run on, and a turn comes to its end: the platform sets it no time
\* limit, so this is an assumption about the harness.
Fairness ==
  /\ \A r \in Requests : WF_vars(Request(r))
  /\ \A s \in Stops : WF_vars(Stop(s))
  /\ \A c \in Closers : WF_vars(Remove(c))
  /\ \A l \in Lanes : WF_vars(Work(l))

Spec     == Init /\ [][Next]_vars
FairSpec == Spec /\ Fairness

-----------------------------------------------------------------------------
\* registry.go, Register and Remove: a worker that runs belongs to the lane in
\* the map or to one whose remover still waits for it; none is left behind by
\* registrations and removals that cross.
NoOrphanLane ==
  \A l \in Lanes : Working(l) =>
    lane = l \/ \E c \in Closers : mine[c] = l /\ pc[c] \in {"cancel", "close", "wait"}

\* registry.go, shutdown "lane.wg.Wait()": when an archive or delete has answered,
\* or the delete goes on to the row, the lane it took away runs nothing any more.
RemovalQuiesces ==
  \A c \in Closers : (pc[c] \in {"erase", "done"} /\ mine[c] # None) =>
    phase[mine[c]] = "exit" /\ jobs[mine[c]] = 0 /\ active[mine[c]] = 0

\* sessions.go, POST "session archived": a session archived with nothing in flight
\* stays archived, no request wakes it and no lane is made for it.
SealedStaysQuiet ==
  sealed => (row.there => row.status = "archived") /\ lane = None

\* registry.go, Remove: archiving and deleting come back, though requests go on
\* sending and jobs are left in the channel.
RemoveReturns == \A c \in Closers : (pc[c] = "unmap") ~> (pc[c] \in Answered)

-----------------------------------------------------------------------------
\* sessions_lifecycle.go "Archive marks a session archived and stops further event
\* ingestion": a message that comes after the answer gets no lane.
ArchiveStopsIngestion ==
  \A p \in late : pc[p] \in {"new", "done", "failed"}
=============================================================================
