------------------------------ MODULE Wakeups ------------------------------
(***************************************************************************)
(* Scheduled wakeups (internal/api/wakeup.go, wakeup_worker.go,            *)
(* internal/store/wakeups.go): requests that schedule and cancel them,     *)
(* concurrently, and the worker, which lists the rows that are due, and    *)
(* fires each before it deletes or reschedules it.  Time advances in the   *)
(* grain of a cron expression.                                             *)
(***************************************************************************)
EXTENDS Naturals, FiniteSets

CONSTANTS Sessions,
          Callers,     \* requests that may schedule at the same time
          Ids,         \* bound: the schedules that are ever created, as numbers
          Cap,         \* rows a session may have (20 in the code)
          Batch,       \* rows a tick takes (50 in the code)
          MaxTime,     \* bound on the clock
          MaxFaults,   \* bound: failed calls and crashes
          None

WakeupAssumption ==
  /\ Cap \in Nat \ {0} /\ Batch \in Nat \ {0} /\ MaxTime \in Nat /\ MaxFaults \in Nat
  /\ IsFiniteSet(Callers) /\ Callers # {} /\ Sessions # {}
  /\ Ids \subseteq Nat /\ None \notin Sessions \cup Ids

VARIABLES
  ever,      \* the schedules created so far
  live,      \* those whose row is in the table
  sched,     \* what each row says
  archived,  \* sessions that are terminated
  calls,     \* the session each request has counted the rows of
  due,       \* rows the tick has listed and not come to
  head,      \* the row that was fired and not settled
  now,
  fired,     \* history: how often each schedule was queued as a message
  excused,   \* history: cancelled, or due when its session was archived
  faults

wvars == <<ever, live, sched, archived, calls, due, head, now, fired, excused, faults>>

Kinds == {"one_shot", "cron"}

WakeupsTypeOK ==
  /\ ever \subseteq Ids /\ live \subseteq ever /\ due \subseteq ever
  /\ sched \in [Ids -> [session : Sessions, kind : Kinds, at : Nat]]
  /\ archived \subseteq Sessions /\ calls \in [Callers -> Sessions \cup {None}]
  /\ head \in ever \cup {None} /\ now \in Nat
  /\ fired \in [Ids -> Nat] /\ excused \subseteq ever /\ faults \in Nat

Init ==
  /\ ever = {} /\ live = {} /\ archived = {} /\ due = {} /\ head = None
  /\ sched = [i \in Ids |-> [session |-> CHOOSE s \in Sessions : TRUE,
                             kind |-> "one_shot", at |-> 0]]
  /\ calls = [c \in Callers |-> None]
  /\ now = 0 /\ fired = [i \in Ids |-> 0] /\ excused = {} /\ faults = 0

-----------------------------------------------------------------------------
(***************************************************************************)
(* Requests.                                                               *)
(***************************************************************************)
Pending(s) == {i \in live : sched[i].session = s}

\* Slip: one row too many.
BelowCapOffByOne(s) == Cardinality(Pending(s)) <= Cap

BelowCap(s) == Cardinality(Pending(s)) < Cap

\* The rows are counted in one statement and the row is inserted in another.
ScheduleCheck(c, s) ==
  /\ calls[c] = None /\ s \notin archived /\ BelowCap(s)
  /\ calls' = [calls EXCEPT ![c] = s]
  /\ UNCHANGED <<ever, live, sched, archived, due, head, now, fired, excused, faults>>

\* A one-shot is due at any time from now, a cron at its next time.
ScheduleCreate(c) ==
  /\ calls[c] # None
  /\ \E i \in Ids \ ever, k \in Kinds, t \in now..(MaxTime + 1) :
       /\ \A j \in Ids \ ever : i <= j
       /\ k = "cron" => t = now + 1
       /\ ever' = ever \cup {i} /\ live' = live \cup {i}
       /\ sched' = [sched EXCEPT ![i] = [session |-> calls[c], kind |-> k, at |-> t]]
  /\ calls' = [calls EXCEPT ![c] = None]
  /\ UNCHANGED <<archived, due, head, now, fired, excused, faults>>

CancelWakeup(i) ==
  /\ i \in live
  /\ live' = live \ {i} /\ excused' = excused \cup {i}
  /\ UNCHANGED <<ever, sched, archived, calls, due, head, now, fired, faults>>

ArchiveSession(s) ==
  /\ s \notin archived
  /\ archived' = archived \cup {s}
  /\ UNCHANGED <<ever, live, sched, calls, due, head, now, fired, excused, faults>>

-----------------------------------------------------------------------------
(***************************************************************************)
(* The worker.                                                             *)
(***************************************************************************)
DueRows == {i \in live : sched[i].at <= now}

\* The rows a tick takes: the earliest ones, at most a batch of them.
ListDue(D) ==
  /\ D \subseteq DueRows /\ Cardinality(D) <= Batch
  /\ D # DueRows => Cardinality(D) = Batch
  /\ \A i \in D, j \in DueRows \ D : sched[i].at <= sched[j].at

Tick ==
  /\ due = {} /\ head = None
  /\ \E D \in SUBSET DueRows : D # {} /\ ListDue(D) /\ due' = D
  /\ UNCHANGED <<ever, live, sched, archived, calls, head, now, fired, excused, faults>>

AtHead(i) ==
  /\ head = None /\ i \in due
  /\ \A j \in due : sched[i].at <= sched[j].at

\* The row is not read again: one that was cancelled meanwhile fires as well.  An
\* archived session gets nothing, and its row goes the way of a fired one.
Fire(i) ==
  /\ AtHead(i)
  /\ head' = i /\ due' = due \ {i}
  /\ IF sched[i].session \in archived
     THEN excused' = excused \cup {i} /\ UNCHANGED fired
     ELSE fired' = [fired EXCEPT ![i] = @ + 1] /\ UNCHANGED excused
  /\ UNCHANGED <<ever, live, sched, archived, calls, now, faults>>

Fault == faults < MaxFaults /\ faults' = faults + 1

\* Slip: the failure is logged and the loop goes on to settle the row.
FireFailsGoesOn(i) ==
  /\ AtHead(i) /\ Fault
  /\ head' = i /\ due' = due \ {i}
  /\ UNCHANGED <<ever, live, sched, archived, calls, now, fired, excused>>

\* The message may be in the queue already when the call fails.
FireFails(i) ==
  /\ AtHead(i) /\ Fault
  /\ head' = None /\ due' = {}
  /\ \/ UNCHANGED fired
     \/ /\ sched[i].session \notin archived
        /\ fired' = [fired EXCEPT ![i] = @ + 1]
  /\ UNCHANGED <<ever, live, sched, archived, calls, now, excused>>

\* Both statements match no row when the schedule was cancelled.
Settle ==
  /\ head # None
  /\ IF sched[head].kind = "one_shot"
     THEN live' = live \ {head} /\ UNCHANGED sched
     ELSE sched' = [sched EXCEPT ![head].at = now + 1] /\ UNCHANGED live
  /\ head' = None
  /\ UNCHANGED <<ever, archived, calls, due, now, fired, excused, faults>>

\* A failed statement ends the tick; the rows behind wait for the next one.
SettleFails ==
  /\ head # None /\ Fault
  /\ head' = None /\ due' = {}
  /\ UNCHANGED <<ever, live, sched, archived, calls, now, fired, excused>>

Crash ==
  /\ Fault
  /\ head' = None /\ due' = {} /\ calls' = [c \in Callers |-> None]
  /\ UNCHANGED <<ever, live, sched, archived, now, fired, excused>>

Clock ==
  /\ now < MaxTime /\ now' = now + 1
  /\ UNCHANGED <<ever, live, sched, archived, calls, due, head, fired, excused, faults>>

Next ==
  \/ \E c \in Callers, s \in Sessions : ScheduleCheck(c, s)
  \/ \E c \in Callers : ScheduleCreate(c)
  \/ \E i \in Ids : CancelWakeup(i) \/ Fire(i) \/ FireFails(i)
  \/ \E s \in Sessions : ArchiveSession(s)
  \/ Tick \/ Settle \/ SettleFails \/ Crash \/ Clock

Spec == Init /\ [][Next]_wvars

-----------------------------------------------------------------------------
\* wakeup_worker.go, fire and then delete: a schedule leaves the table only after
\* it was queued, cancelled, or due in an archived session; and a one-shot is
\* queued again only if a call failed or the server crashed.
WakeupsDelivered ==
  /\ \A i \in ever \ live : fired[i] > 0 \/ i \in excused
  /\ \A i \in ever : sched[i].kind = "one_shot" /\ fired[i] > 1 => faults > 0

\* wakeup.go "pending wakeup cap reached": concurrent requests pass the check
\* together, but a session never has more rows than the cap and one for each
\* request but the first.
CapOverrun ==
  \A s \in Sessions : Cardinality(Pending(s)) < Cap + Cardinality(Callers)
=============================================================================
