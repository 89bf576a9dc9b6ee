----------------------------- MODULE SessionLane -----------------------------
(***************************************************************************)
(* One session of the platform: the in-memory lane (internal/session       *)
(* registry and machine), the pending queue, the event log and the         *)
(* sessions row (internal/store).  Each client request is a goroutine that *)
(* walks through Registry.EnqueueEvents; one worker goroutine drains the   *)
(* lane's channel of turn jobs.  A step is what one goroutine does between *)
(* two points at which another can be observed: one database statement or  *)
(* transaction, one channel operation or one critical section.             *)
(***************************************************************************)
EXTENDS Naturals, Sequences, FiniteSets

CONSTANTS
  Messages,       \* POSTs of one user.message
  Results,        \* POSTs of one user.custom_tool_result
  Confirmations,  \* POSTs of one user.tool_confirmation
  Interrupts,     \* POSTs of one user.interrupt
  Threads,        \* session threads
  Primary,        \* the thread sthr_primary
  ThreadOf,       \* the session_thread_id of each request
  Tools,          \* ids of the custom tool uses the harness may emit
  Worker,         \* the goroutine of runTurnWorker
  None,           \* nobody, nothing
  ChanCap,        \* capacity of turnCh (32 in the code)
  HistoryLimit,   \* events of the log that are read (10000 in the code)
  MaxOpen,        \* ids in a stop reason (5 in the code)
  MaxFaults       \* bound on crashes, disconnects and failed turn set-ups

Inputs   == Messages \cup Results \cup Confirmations
Requests == Inputs \cup Interrupts
Actors   == Requests \cup {Worker}

ASSUME LaneAssumption ==
  /\ Messages \cap (Results \cup Confirmations \cup Interrupts) = {}
  /\ Results \cap (Confirmations \cup Interrupts) = {}
  /\ Confirmations \cap Interrupts = {}
  /\ Worker \notin Requests
  /\ None \notin Actors \cup Tools
  /\ Primary \in Threads
  /\ ThreadOf \in [Requests -> Threads]
  /\ {ChanCap, HistoryLimit, MaxOpen} \subseteq Nat \ {0}
  /\ MaxFaults \in Nat

VARIABLES
  pending,   \* rows of pending_events
  log,       \* session_events, by seq
  status,    \* sessions.status
  dbTurn,    \* sessions.turn_id, 0 for NULL
  hitl,      \* metadata.pending_tool_calls
  turnCh,    \* queued turn jobs
  lock,      \* holder of appendMu across a promotion
  held,      \* the row that holder has peeked
  active,    \* Machine.activeTurn, 0 when no turn runs
  ctxDone,   \* that turn's context is cancelled
  job,       \* the job the worker received
  stop,      \* the tools of the stop_reason the worker is about to publish
  pc,        \* where each goroutine is
  runTurn,   \* runTurn as the handler computed it
  answers,   \* the tool each result answers, None if it cannot be read
  effect,    \* an interrupt cancelled, stopped or drained something
  readTurn,  \* turn_id read by RecoverStuckRunningOnInterrupt
  turns,     \* turns started (turn ids are counted)
  accepted,  \* history: inputs by the order they were queued
  heard,     \* history: inputs that a turn of their thread had in its history
  faults     \* history: faults so far

lane    == <<turnCh, lock, held, active, ctxDone, job, stop>>
request == <<runTurn, answers, effect, readTurn>>
rowVars == <<status, dbTurn>>
history == <<turns, accepted, heard, faults>>
vars    == <<pending, log, hitl, pc, lane, request, rowVars, history>>

-----------------------------------------------------------------------------
Rows  == [seq : Nat, msg : Inputs, thread : Threads, cancelled : BOOLEAN]
Jobs  == [thread : Threads, promoteOnly : BOOLEAN]
Event(k, x) == [kind |-> k, ref |-> x]

\* What the lock holder has peeked is a row or nothing.
ASSUME RowAssumption == None \notin Rows

\* Events of session_events, the ones the control flow or a property tells apart.
Events ==
       [kind : {"user"},                               ref : Inputs]
  \cup [kind : {"tool_use", "tool_result"},            ref : Tools]
  \cup [kind : {"turn_start", "turn_end", "error"},    ref : Nat]
  \cup [kind : {"interrupt"},                          ref : Interrupts]
  \cup [kind : {"idle"},                               ref : SUBSET Tools]

Statuses == {"idle", "running", "interrupted"}

\* Where a goroutine can be; in Running the deferred EndTurn is still to come.
PCs == {"new", "insert", "choose", "send", "done", "failed",
        "peek", "append", "delete",
        "list", "cancel", "log", "stop", "drain", "clear", "idle", "recover", "end",
        "recv", "start", "begin", "history", "announce", "stream", "fail",
        "finish", "endturn", "abort", "supervise", "idle_read", "idle_meta",
        "idle_log", "release"}

Running == {"history", "announce", "stream", "fail", "finish", "endturn", "abort"}

\* What the events of a kind refer to.
RefsIn(l, k) == {l[i].ref : i \in {j \in DOMAIN l : l[j].kind = k}}
Refs(k)      == RefsIn(log, k)
Logged       == Refs("user")
\* Custom tool uses without a tool_result.
Unanswered   == Refs("tool_use") \ Refs("tool_result")

\* ListEvents(..., 0, 10000, true): the first events of the log, and no others.
ReadRefs(k)  == {log[i].ref : i \in {j \in DOMAIN log :
                                       j <= HistoryLimit /\ log[j].kind = k}}
OpenRead     == ReadRefs("tool_use") \ ReadRefs("tool_result")

UsedBefore(x, y) ==
  \E i, j \in DOMAIN log :
    i < j /\ log[i] = Event("tool_use", x) /\ log[j] = Event("tool_use", y)

\* PendingCustomToolIDs: of the open uses that were read, as many as a stop reason
\* may name, the oldest ones.
Named(S) ==
  /\ S \subseteq OpenRead
  /\ \A x \in S, y \in OpenRead \ S : UsedBefore(x, y)
  /\ IF Cardinality(OpenRead) <= MaxOpen
     THEN S = OpenRead ELSE Cardinality(S) = MaxOpen

\* Results whose content is not an array: appendEventsForPendingPromote has no
\* event to store for them.
Malformed  == {r \in Results : answers[r] = None}
Live(t)    == {r \in pending : r.thread = t /\ ~r.cancelled}
Goto(a, l) == pc' = [pc EXCEPT ![a] = l]
At(a, l)   == pc[a] = l

TypeOK ==
  /\ pending \in SUBSET Rows
  /\ log \in Seq(Events)
  /\ status \in Statuses
  /\ dbTurn \in Nat
  /\ hitl \in SUBSET Tools
  /\ turnCh \in Seq(Jobs)
  /\ Len(turnCh) <= ChanCap
  /\ lock \in Actors \cup {None}
  /\ held \in Rows \cup {None}
  /\ active \in Nat
  /\ ctxDone \in BOOLEAN
  /\ job \in Jobs \cup {None}
  /\ stop \in SUBSET Tools
  /\ pc \in [Actors -> PCs]
  /\ runTurn \in [Inputs -> BOOLEAN]
  /\ answers \in [Results -> Tools \cup {None}]
  /\ effect \in [Interrupts -> BOOLEAN]
  /\ readTurn \in [Interrupts -> Nat]
  /\ turns \in Nat
  /\ accepted \in Seq(Inputs)
  /\ heard \in SUBSET Inputs
  /\ faults \in 0..MaxFaults

Init ==
  /\ pending = {} /\ log = <<>>
  /\ status = "idle" /\ dbTurn = 0 /\ hitl = {}
  /\ turnCh = <<>> /\ lock = None /\ held = None
  /\ active = 0 /\ ctxDone = FALSE /\ job = None /\ stop = {}
  /\ pc = [a \in Actors |-> IF a = Worker THEN "recv" ELSE "new"]
  /\ runTurn = [r \in Inputs |-> FALSE]
  /\ answers = [r \in Results |-> None]
  /\ effect = [r \in Interrupts |-> FALSE]
  /\ readTurn = [r \in Interrupts |-> 0]
  /\ turns = 0 /\ accepted = <<>> /\ heard = {} /\ faults = 0

-----------------------------------------------------------------------------
(***************************************************************************)
(* Promotion, by the worker before a turn or by a request while no turn is *)
(* active.  appendMu is held from the peek to the delete; cancelling rows  *)
(* and queueing new ones do not take it.                                   *)
(***************************************************************************)
Thread(a) == IF a = Worker THEN job.thread ELSE ThreadOf[a]

AfterPromotion(a) ==
  IF a # Worker THEN "send" ELSE IF job.promoteOnly THEN "recv" ELSE "start"

\* Slip: promote the newest row.
PeekNewest(a) ==
  /\ At(a, "peek") /\ lock = None
  /\ \E r \in Live(Thread(a)) :
       /\ \A q \in Live(Thread(a)) : r.seq >= q.seq
       /\ held' = r
  /\ lock' = a
  /\ Goto(a, "append")
  /\ UNCHANGED <<pending, log, hitl, turnCh, active, ctxDone, job, stop,
                 request, rowVars, history>>

\* Slip: peek without appendMu.
PeekUnlocked(a) ==
  /\ At(a, "peek")
  /\ \E r \in Live(Thread(a)) :
       /\ \A q \in Live(Thread(a)) : r.seq <= q.seq
       /\ held' = r
  /\ lock' = a
  /\ Goto(a, "append")
  /\ UNCHANGED <<pending, log, hitl, turnCh, active, ctxDone, job, stop,
                 request, rowVars, history>>

Peek(a) ==
  /\ At(a, "peek") /\ lock = None
  /\ \E r \in Live(Thread(a)) :
       /\ \A q \in Live(Thread(a)) : r.seq <= q.seq
       /\ held' = r
  /\ lock' = a
  /\ Goto(a, "append")
  /\ UNCHANGED <<pending, log, hitl, turnCh, active, ctxDone, job, stop,
                 request, rowVars, history>>

\* The queue of the thread is drained: promoteAllPending returns.
PeekEmpty(a) ==
  /\ At(a, "peek") /\ lock = None
  /\ Live(Thread(a)) = {}
  /\ Goto(a, AfterPromotion(a))
  /\ UNCHANGED <<pending, log, hitl, lane, request, rowVars, history>>

\* A result is stored with the agent.tool_result it stands for.
Promoted(l, m) ==
  IF m \in Results
  THEN Append(Append(l, Event("user", m)), Event("tool_result", answers[m]))
  ELSE Append(l, Event("user", m))

PromoteAppend(a) ==
  /\ At(a, "append") /\ held.msg \notin Malformed
  /\ log' = Promoted(log, held.msg)
  /\ Goto(a, "delete")
  /\ UNCHANGED <<pending, hitl, lane, request, rowVars, history>>

\* appendEventsForPendingPromote cannot read the content of a result: the row stays
\* where it is, the request fails and the worker drops its job without a turn.
PromoteFails(a) ==
  /\ At(a, "append") /\ held.msg \in Malformed
  /\ lock' = None /\ held' = None
  /\ Goto(a, IF a = Worker THEN "recv" ELSE "failed")
  /\ UNCHANGED <<pending, log, hitl, turnCh, active, ctxDone, job, stop,
                 request, rowVars, history>>

\* Slip: delete what the thread has queued, not the promoted row.
DeleteThread(a) ==
  /\ At(a, "delete")
  /\ pending' = {r \in pending : r.thread # held.thread}
  /\ lock' = None /\ held' = None
  /\ Goto(a, "peek")
  /\ UNCHANGED <<log, hitl, turnCh, active, ctxDone, job, stop,
                 request, rowVars, history>>

PromoteDelete(a) ==
  /\ At(a, "delete")
  /\ pending' = {r \in pending : r.seq # held.seq}
  /\ lock' = None /\ held' = None
  /\ Goto(a, "peek")
  /\ UNCHANGED <<log, hitl, turnCh, active, ctxDone, job, stop,
                 request, rowVars, history>>

-----------------------------------------------------------------------------
(***************************************************************************)
(* POST /events with a queue-input event.  The handler reads the session   *)
(* row first: a result only asks for a turn if that row lists pending tool *)
(* calls.  It does not look at the content, which may be anything.         *)
(***************************************************************************)
Handle(r) ==
  /\ At(r, "new")
  /\ IF r \in Results
     THEN \E x \in Refs("tool_use") \cup {None} : answers' = [answers EXCEPT ![r] = x]
     ELSE UNCHANGED answers
  /\ runTurn' = [runTurn EXCEPT
                   ![r] = r \in Messages \/ (r \in Results /\ hitl # {})]
  /\ Goto(r, "insert")
  /\ UNCHANGED <<pending, log, hitl, lane, effect, readTurn, rowVars, history>>

\* PendingRepo.Enqueue: pending_seq is one above the largest row still there.
Insert(r) ==
  /\ At(r, "insert")
  /\ \E top \in {0} \cup {q.seq : q \in pending} :
       /\ \A q \in pending : q.seq <= top
       /\ pending' = pending \cup {[seq |-> top + 1, msg |-> r,
                                    thread |-> ThreadOf[r],
                                    cancelled |-> FALSE]}
  /\ accepted' = Append(accepted, r)
  /\ Goto(r, "choose")
  /\ UNCHANGED <<log, hitl, lane, request, rowVars, turns, heard, faults>>

\* With no active turn the request promotes before it schedules.
Choose(r) ==
  /\ At(r, "choose")
  /\ Goto(r, IF runTurn[r] /\ active = 0 THEN "peek" ELSE "send")
  /\ UNCHANGED <<pending, log, hitl, lane, request, rowVars, history>>

\* Slip: an unbounded turnCh.
SendUnbounded(r) ==
  /\ At(r, "send")
  /\ turnCh' = Append(turnCh, [thread |-> ThreadOf[r],
                               promoteOnly |-> ~runTurn[r]])
  /\ Goto(r, "done")
  /\ UNCHANGED <<pending, log, hitl, lock, held, active, ctxDone, job, stop,
                 request, rowVars, history>>

\* Slip: no turn when nothing is left to promote.
SendNoTurn(r) ==
  /\ At(r, "send") /\ Len(turnCh) < ChanCap
  /\ turnCh' = Append(turnCh, [thread |-> ThreadOf[r],
                               promoteOnly |-> ~runTurn[r]
                                               \/ Live(ThreadOf[r]) = {}])
  /\ Goto(r, "done")
  /\ UNCHANGED <<pending, log, hitl, lock, held, active, ctxDone, job, stop,
                 request, rowVars, history>>

\* scheduleTurn or schedulePromote: a send on a full turnCh blocks.
Send(r) ==
  /\ At(r, "send") /\ Len(turnCh) < ChanCap
  /\ turnCh' = Append(turnCh, [thread |-> ThreadOf[r],
                               promoteOnly |-> ~runTurn[r]])
  /\ Goto(r, "done")
  /\ UNCHANGED <<pending, log, hitl, lock, held, active, ctxDone, job, stop,
                 request, rowVars, history>>

-----------------------------------------------------------------------------
(***************************************************************************)
(* POST /events with user.interrupt.                                       *)
(***************************************************************************)
IntHandle(r) ==
  /\ At(r, "new")
  /\ Goto(r, "list")
  /\ UNCHANGED <<pending, log, hitl, lane, request, rowVars, history>>

\* CancelAllForThread lists the live rows and stamps those that are live then.
IntList(r) ==
  /\ At(r, "list")
  /\ effect' = [effect EXCEPT ![r] = Live(ThreadOf[r]) # {}]
  /\ Goto(r, IF Live(ThreadOf[r]) = {} THEN "log" ELSE "cancel")
  /\ UNCHANGED <<pending, log, hitl, lane, runTurn, answers, readTurn, rowVars,
                 history>>

IntCancel(r) ==
  /\ At(r, "cancel")
  /\ LET hit == Live(ThreadOf[r])
     IN pending' = (pending \ hit)
                   \cup {[q EXCEPT !.cancelled = TRUE] : q \in hit}
  /\ Goto(r, "log")
  /\ UNCHANGED <<log, hitl, lane, request, rowVars, history>>

IntLog(r) ==
  /\ At(r, "log") /\ lock = None
  /\ log' = Append(log, Event("interrupt", r))
  /\ Goto(r, "stop")
  /\ UNCHANGED <<pending, hitl, lane, request, rowVars, history>>

\* CancelActiveTurn: the turn's context, if RunTurn has installed one.
IntStop(r) ==
  /\ At(r, "stop")
  /\ ctxDone' = (ctxDone \/ active # 0)
  /\ effect' = [effect EXCEPT ![r] = @ \/ active # 0]
  /\ Goto(r, "drain")
  /\ UNCHANGED <<pending, log, hitl, turnCh, lock, held, active, job, stop,
                 runTurn, answers, readTurn, rowVars, history>>

\* drainPendingTurns takes the jobs of every thread, one after the other.
IntDrain(r) ==
  /\ At(r, "drain") /\ turnCh # <<>>
  /\ turnCh' = Tail(turnCh)
  /\ effect' = [effect EXCEPT ![r] = TRUE]
  /\ UNCHANGED <<pending, log, hitl, lock, held, active, ctxDone, job, stop, pc,
                 runTurn, answers, readTurn, rowVars, history>>

IntDrained(r) ==
  /\ At(r, "drain") /\ turnCh = <<>>
  /\ Goto(r, IF effect[r] THEN "clear" ELSE "recover")
  /\ UNCHANGED <<pending, log, hitl, lane, request, rowVars, history>>

\* RecoverStuckRunningOnInterrupt reads the row, then ends the turn it read.
IntRecover(r) ==
  /\ At(r, "recover")
  /\ readTurn' = [readTurn EXCEPT ![r] = dbTurn]
  /\ Goto(r, IF status = "running" THEN "end" ELSE "done")
  /\ UNCHANGED <<pending, log, hitl, lane, runTurn, answers, effect, rowVars,
                 history>>

\* SessionRepo.EndTurn: by turn id, else whatever is running or interrupted (a
\* second statement; turn ids do not come back, so one step says the same).
EndTurn(t) ==
  IF dbTurn = t \/ status \in {"running", "interrupted"}
  THEN status' = "idle" /\ dbTurn' = 0
  ELSE UNCHANGED rowVars

IntEnd(r) ==
  /\ At(r, "end")
  /\ EndTurn(readTurn[r])
  /\ Goto(r, "clear")
  /\ UNCHANGED <<pending, log, hitl, lane, request, history>>

\* SessionRepo.Update of pending_tool_calls to S by goroutine a.  The driver
\* counts changed rows: an update that changes nothing within the millisecond of
\* the row's last one counts none, which Update reports as a missing session.
WriteHitl(a, S, ok, missing) ==
  /\ hitl' = S
  /\ \E l \in {ok} \cup (IF hitl = S THEN {missing} ELSE {}) : Goto(a, l)

IntClear(r) ==
  /\ At(r, "clear")
  /\ WriteHitl(r, {}, "idle", "done")
  /\ UNCHANGED <<pending, log, lane, request, rowVars, history>>

IntIdle(r) ==
  /\ At(r, "idle") /\ lock = None
  /\ log' = Append(log, Event("idle", {}))
  /\ Goto(r, "done")
  /\ UNCHANGED <<pending, hitl, lane, request, rowVars, history>>

-----------------------------------------------------------------------------
(***************************************************************************)
(* The worker: receive a job, promote the thread's queue, run a turn.      *)
(***************************************************************************)
Receive ==
  /\ At(Worker, "recv") /\ turnCh # <<>>
  /\ job' = Head(turnCh) /\ turnCh' = Tail(turnCh)
  /\ Goto(Worker, "peek")
  /\ UNCHANGED <<pending, log, hitl, lock, held, active, ctxDone, stop,
                 request, rowVars, history>>

StartTurn ==
  /\ At(Worker, "start")
  /\ turns' = turns + 1
  /\ active' = turns + 1 /\ ctxDone' = FALSE
  /\ Goto(Worker, "begin")
  /\ UNCHANGED <<pending, log, hitl, turnCh, lock, held, job, stop, request,
                 rowVars, accepted, heard, faults>>

\* BeginTurn uses the turn's context; EndTurn is deferred only after it.
BeginTurn ==
  /\ At(Worker, "begin")
  /\ IF ctxDone
     THEN Goto(Worker, "release") /\ UNCHANGED rowVars
     ELSE /\ status' = "running" /\ dbTurn' = active
          /\ Goto(Worker, "history")
  /\ UNCHANGED <<pending, log, hitl, lane, request, history>>

\* Everything up to ListEvents, which reads no more than the limit; agent, harness
\* and model are then resolved.
ReadHistory ==
  /\ At(Worker, "history")
  /\ IF ctxDone
     THEN Goto(Worker, "abort") /\ UNCHANGED heard
     ELSE /\ heard' = heard \cup {m \in ReadRefs("user") : ThreadOf[m] = job.thread}
          /\ \E l \in {"announce", "fail"} : Goto(Worker, l)
  /\ UNCHANGED <<pending, log, hitl, lane, request, rowVars, turns, accepted,
                 faults>>

\* publishEvents: no event is stored once the turn's context is cancelled.
Publish(l, next) ==
  /\ lock = None
  /\ IF ctxDone
     THEN Goto(Worker, "abort") /\ UNCHANGED log
     ELSE Goto(Worker, next) /\ log' = l

Announce ==
  /\ At(Worker, "announce")
  /\ Publish(Append(log, Event("turn_start", active)), "stream")
  /\ UNCHANGED <<pending, hitl, lane, request, rowVars, history>>

\* The harness streams an event: here, the use of a custom tool.
Emit ==
  /\ At(Worker, "stream")
  /\ \E x \in Tools \ Refs("tool_use") :
       Publish(Append(log, Event("tool_use", x)), "stream")
  /\ UNCHANGED <<pending, hitl, lane, request, rowVars, history>>

\* RunTurnStreaming returns: cleanly, with an error, or cancelled.  What
\* finishInterruptedTurn then publishes goes through the cancelled context.
StreamEnds ==
  /\ At(Worker, "stream")
  /\ \E l \in IF ctxDone THEN {"abort"} ELSE {"finish", "fail"} :
       Goto(Worker, l)
  /\ UNCHANGED <<pending, log, hitl, lane, request, rowVars, history>>

FailTurn ==
  /\ At(Worker, "fail")
  /\ Publish(Append(Append(log, Event("error", active)),
                    Event("turn_end", active)), "endturn")
  /\ UNCHANGED <<pending, hitl, lane, request, rowVars, history>>

FinishTurn ==
  /\ At(Worker, "finish")
  /\ Publish(Append(log, Event("turn_end", active)), "endturn")
  /\ UNCHANGED <<pending, hitl, lane, request, rowVars, history>>

\* Slip: EndTurn is skipped when the turn returns an error.
LeaveSilently ==
  /\ pc[Worker] \in {"endturn", "abort"}
  /\ IF At(Worker, "endturn") THEN EndTurn(active) ELSE UNCHANGED rowVars
  /\ Goto(Worker, IF At(Worker, "endturn") THEN "supervise" ELSE "release")
  /\ UNCHANGED <<pending, log, hitl, lane, request, history>>

\* The deferred EndTurn.  After an error RunTurn returns without an idle event.
LeaveTurn ==
  /\ pc[Worker] \in {"endturn", "abort"}
  /\ EndTurn(active)
  /\ Goto(Worker, IF At(Worker, "endturn") THEN "supervise" ELSE "release")
  /\ UNCHANGED <<pending, log, hitl, lane, request, history>>

\* maybeRunOutcomeSupervisor with no outcome defined: on the primary thread it
\* still reads the row, on the turn's context.
Supervise ==
  /\ At(Worker, "supervise")
  /\ Goto(Worker, IF ctxDone /\ job.thread = Primary
                  THEN "release" ELSE "idle_read")
  /\ UNCHANGED <<pending, log, hitl, lane, request, rowVars, history>>

\* Slip: take the open tools from the row.
IdleFromRow ==
  /\ At(Worker, "idle_read")
  /\ stop' = hitl
  /\ Goto(Worker, "idle_meta")
  /\ UNCHANGED <<pending, log, hitl, turnCh, lock, held, active, ctxDone, job,
                 request, rowVars, history>>

\* publishStatusIdle runs on the worker's own context.
IdleRead ==
  /\ At(Worker, "idle_read")
  /\ \E S \in SUBSET OpenRead : Named(S) /\ stop' = S
  /\ Goto(Worker, "idle_meta")
  /\ UNCHANGED <<pending, log, hitl, turnCh, lock, held, active, ctxDone, job,
                 request, rowVars, history>>

\* Slip: an empty list does not clear the row.
IdleKeepsMeta ==
  /\ At(Worker, "idle_meta")
  /\ WriteHitl(Worker, IF stop = {} THEN hitl ELSE stop, "idle_log", "release")
  /\ UNCHANGED <<pending, log, lane, request, rowVars, history>>

IdleMeta ==
  /\ At(Worker, "idle_meta")
  /\ WriteHitl(Worker, stop, "idle_log", "release")
  /\ UNCHANGED <<pending, log, lane, request, rowVars, history>>

IdleLog ==
  /\ At(Worker, "idle_log") /\ lock = None
  /\ log' = Append(log, Event("idle", stop))
  /\ Goto(Worker, "release")
  /\ UNCHANGED <<pending, hitl, lane, request, rowVars, history>>

\* The deferred clean-up of RunTurn.
Release ==
  /\ At(Worker, "release")
  /\ active' = 0 /\ ctxDone' = FALSE
  /\ Goto(Worker, "recv")
  /\ UNCHANGED <<pending, log, hitl, turnCh, lock, held, job, stop, request,
                 rowVars, history>>

-----------------------------------------------------------------------------
(***************************************************************************)
(* Faults.                                                                 *)
(***************************************************************************)
\* The client goes away: the next statement on the request's context fails
\* and EnqueueEvents returns, releasing appendMu.
Disconnect(r) ==
  /\ faults < MaxFaults
  /\ pc[r] \in {"insert", "peek", "append", "delete", "list", "cancel",
                "log", "clear", "idle", "recover", "end"}
  /\ faults' = faults + 1
  /\ IF lock = r THEN lock' = None /\ held' = None ELSE UNCHANGED <<lock, held>>
  /\ Goto(r, "failed")
  /\ UNCHANGED <<pending, log, hitl, turnCh, active, ctxDone, job, stop,
                 request, rowVars, turns, accepted, heard>>

\* A set-up step of the turn fails before failTurn can be reached.
SetupFails ==
  /\ At(Worker, "history") /\ faults < MaxFaults
  /\ faults' = faults + 1
  /\ Goto(Worker, "abort")
  /\ UNCHANGED <<pending, log, hitl, lane, request, rowVars, turns, accepted,
                 heard>>

\* Slip: the boot does not look at the rows.
RestartOnly ==
  /\ faults < MaxFaults
  /\ faults' = faults + 1
  /\ turnCh' = <<>> /\ lock' = None /\ held' = None
  /\ active' = 0 /\ ctxDone' = FALSE /\ job' = None /\ stop' = {}
  /\ pc' = [a \in Actors |-> IF a = Worker THEN "recv"
                             ELSE IF pc[a] \in {"new", "done"} THEN pc[a]
                             ELSE "failed"]
  /\ UNCHANGED <<pending, log, hitl, request, rowVars, turns, accepted, heard>>

\* The process dies and boots: memory is lost, RecoverRunning fixes the row.
CrashAndRestart ==
  /\ faults < MaxFaults
  /\ faults' = faults + 1
  /\ turnCh' = <<>> /\ lock' = None /\ held' = None
  /\ active' = 0 /\ ctxDone' = FALSE /\ job' = None /\ stop' = {}
  /\ pc' = [a \in Actors |-> IF a = Worker THEN "recv"
                             ELSE IF pc[a] \in {"new", "done"} THEN pc[a]
                             ELSE "failed"]
  /\ IF status = "running"
     THEN status' = "interrupted" /\ dbTurn' = 0
     ELSE UNCHANGED rowVars
  /\ UNCHANGED <<pending, log, hitl, request, turns, accepted, heard>>

AtRest ==
  /\ \A r \in Requests : pc[r] \in {"new", "done", "failed"}
  /\ At(Worker, "recv") /\ turnCh = <<>>

\* Every request that came is over and the worker waits for a job that will not come.
Rest ==
  /\ AtRest
  /\ UNCHANGED vars

-----------------------------------------------------------------------------
Promote(a) ==
  Peek(a) \/ PeekEmpty(a) \/ PromoteAppend(a) \/ PromoteFails(a) \/ PromoteDelete(a)

Serve(r) == Promote(r) \/ Insert(r) \/ Choose(r) \/ Send(r)

Interrupt(r) ==
  \/ IntList(r) \/ IntCancel(r) \/ IntLog(r) \/ IntStop(r) \/ IntDrain(r)
  \/ IntDrained(r) \/ IntRecover(r) \/ IntEnd(r) \/ IntClear(r) \/ IntIdle(r)

Work ==
  \/ Promote(Worker) \/ Receive \/ StartTurn \/ BeginTurn \/ ReadHistory
  \/ Announce \/ Emit \/ StreamEnds \/ FailTurn \/ FinishTurn \/ LeaveTurn
  \/ Supervise \/ IdleRead \/ IdleMeta \/ IdleLog \/ Release

Fault == CrashAndRestart \/ SetupFails \/ \E r \in Requests : Disconnect(r)

Next ==
  \/ \E r \in Inputs : Handle(r) \/ Serve(r)
  \/ \E r \in Interrupts : IntHandle(r) \/ Interrupt(r)
  \/ Work
  \/ Fault
  \/ Rest

\* A request that arrived is served to its end and the worker keeps running;
\* nothing makes a client send a request.
Fairness ==
  /\ WF_vars(Work)
  /\ \A r \in Inputs : WF_vars(Serve(r))
  /\ \A r \in Interrupts : WF_vars(Interrupt(r))

Spec     == Init /\ [][Next]_vars
FairSpec == Spec /\ Fairness
-----------------------------------------------------------------------------
\* An input the client posted once is in the log at most once, unless a crash
\* or a disconnect fell between the append and the delete of its promotion.
NoDuplicatePromotion ==
  faults = 0 =>
    \A i, j \in DOMAIN log :
      (i # j /\ log[i].kind = "user" /\ log[j].kind = "user")
        => log[i].ref # log[j].ref

\* Inputs of a thread enter the log in the order they were queued, whoever
\* promotes them; only a cancelled one may be overtaken.
PromotedInOrder ==
  \A i, j \in DOMAIN accepted :
    (i < j /\ ThreadOf[accepted[i]] = ThreadOf[accepted[j]]) =>
      \A k \in DOMAIN log : log[k] = Event("user", accepted[j]) =>
        \/ \E h \in 1..k : log[h] = Event("user", accepted[i])
        \/ \E r \in pending : r.msg = accepted[i] /\ r.cancelled

\* A queued input is in the log or still has its row, across promotions,
\* cancellations, disconnects and crashes.
NoInputLost ==
  \A i \in DOMAIN accepted :
    accepted[i] \in Logged \/ \E r \in pending : r.msg = accepted[i]

\* A sessions row that says running belongs to the turn the worker is in, and
\* that turn still has its EndTurn before it.
NoZombieRunning ==
  status = "running" =>
    /\ active # 0 /\ dbTurn = active
    /\ pc[Worker] \in Running

\* The stop reason a turn publishes covers every custom tool use that has no
\* result when it is published, or names as many as it may: end_turn is never
\* claimed too early, as long as the log is not longer than what is read.
Covers == Unanswered \subseteq stop \/ Cardinality(stop) = MaxOpen

IdleCoversOpenTools ==
  [][(At(Worker, "idle_log") /\ log' # log /\ pc'[Worker] = "release"
        /\ Len(log) <= HistoryLimit)
       => Covers]_vars

Idles == {i \in DOMAIN log : log[i].kind = "idle"}

\* Every announced turn that is over has its turn_end in the log.
TurnsBracketed ==
  \A t \in Refs("turn_start") : t # active => t \in Refs("turn_end")

\* At rest the row's pending_tool_calls are what the last idle event said.
RowMatchesLastIdle ==
  AtRest => \A i \in Idles : (\A j \in Idles : j <= i) => hitl = log[i].ref

\* machine.go, RunTurn without interrupts: however messages, answers and errors of
\* the harness interleave, the log closes its turns and its last word is the row's.
LogClosesTurns == TurnsBracketed /\ RowMatchesLastIdle

\* The worker always comes back to its channel with the row not running.
ComesToRest == []<>(At(Worker, "recv") /\ status # "running")

\* A result that cannot be stored is in the queue of the thread: every promotion
\* of it ends there, so the thread has no more turns until it is cancelled.
Blocked(t) == \E r \in Live(t) : r.msg \in Malformed

\* A message is heard by a turn of its thread, however requests and the worker
\* promote, unless a result that cannot be stored blocks the thread (and that
\* thread only) or the log is longer than what a turn reads.
InputIsHeard ==
  \A m \in Messages :
    (\E i \in DOMAIN accepted : accepted[i] = m)
      ~> (m \in heard \/ Blocked(ThreadOf[m]) \/ Len(log) > HistoryLimit)

-----------------------------------------------------------------------------
\* The lane keeps the promise of the outbox, with or without interrupts.  A result
\* that cannot be stored is never claimed: it stays queued until it is withdrawn.
OutboxState(m) ==
  IF m \in Logged THEN "delivered"
  ELSE IF held # None /\ held.msg = m /\ m \notin Malformed THEN "claimed"
  ELSE IF \E r \in pending : r.msg = m /\ ~r.cancelled THEN "queued"
  ELSE IF \E r \in pending : r.msg = m THEN "withdrawn"
  ELSE "unsent"

Contract == INSTANCE Outbox
              WITH state <- [m \in Inputs |-> OutboxState(m)],
                   order <- accepted

\* Refinement: every step of the lane is a step of the outbox or a stutter.
KeepsOutbox == Contract!Spec

-----------------------------------------------------------------------------
(***************************************************************************)
(* What the documents say and the code does not do.                        *)
(***************************************************************************)
\* RecoverStuckRunningOnInterrupt ends the row's turn only when no turn is
\* active in memory.
RecoverSparesLiveTurn ==
  [][\A r \in Interrupts :
       (At(r, "end") /\ pc'[r] = "clear" /\ status = "running" /\ status' # status)
         => active = 0]_vars

=============================================================================
