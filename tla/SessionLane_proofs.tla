-------------------------- MODULE SessionLane_proofs --------------------------
(***************************************************************************)
(* Proofs about one session lane, for every set of requests and threads,   *)
(* every channel capacity and every bound on the faults.                   *)
(***************************************************************************)
EXTENDS SessionLane, TLAPS

-----------------------------------------------------------------------------
(***************************************************************************)
(* The log.                                                                *)
(***************************************************************************)
\* Every event the code appends is one of Events.
LEMMA EventTyped ==
  /\ \A m \in Inputs : Event("user", m) \in Events
  /\ \A x \in Tools : Event("tool_use", x) \in Events
                      /\ Event("tool_result", x) \in Events
  /\ \A t \in Nat : /\ Event("turn_start", t) \in Events
                    /\ Event("turn_end", t) \in Events
                    /\ Event("error", t) \in Events
  /\ \A r \in Interrupts : Event("interrupt", r) \in Events
  /\ \A S \in SUBSET Tools : Event("idle", S) \in Events
BY DEF Event, Events

\* What the events of a kind refer to has the type of that kind.
LEMMA RefsTyped ==
  ASSUME NEW l \in Seq(Events)
  PROVE  /\ RefsIn(l, "user") \subseteq Inputs
         /\ RefsIn(l, "tool_use") \subseteq Tools
<1> SUFFICES ASSUME NEW i \in DOMAIN l
             PROVE  /\ l[i].kind = "user" => l[i].ref \in Inputs
                    /\ l[i].kind = "tool_use" => l[i].ref \in Tools
  BY DEF RefsIn
<1>1. l[i] \in Events
  OBVIOUS
<1> QED
  BY <1>1 DEF Events

\* What is read of the log is part of it, and all of it within the limit.
LEMMA ReadFacts ==
  ASSUME log \in Seq(Events), NEW k
  PROVE  /\ ReadRefs(k) \subseteq Refs(k)
         /\ Len(log) <= HistoryLimit => ReadRefs(k) = Refs(k)
<1>1. /\ DOMAIN log = 1..Len(log)
      /\ Len(log) \in Nat /\ HistoryLimit \in Nat
  BY LaneAssumption
<1>2. Len(log) <= HistoryLimit => \A j \in DOMAIN log : j <= HistoryLimit
  BY <1>1
<1> QED
  BY <1>2 DEF ReadRefs, Refs, RefsIn

\* Appending one event adds its reference to those of its kind, and only there.
LEMMA RefsAppend ==
  ASSUME NEW l \in Seq(Events), NEW e \in Events, NEW k
  PROVE  RefsIn(Append(l, e), k) = IF e.kind = k
                                   THEN RefsIn(l, k) \cup {e.ref}
                                   ELSE RefsIn(l, k)
<1> DEFINE m == Append(l, e)
<1>1. /\ Len(m) = Len(l) + 1
      /\ DOMAIN m = 1..(Len(l) + 1) /\ DOMAIN l = 1..Len(l)
      /\ Len(l) \in Nat
  OBVIOUS
<1>2. \A i \in 1..Len(l) : m[i] = l[i]
  OBVIOUS
<1>3. m[Len(l) + 1] = e
  OBVIOUS
<1>4. DOMAIN m = DOMAIN l \cup {Len(l) + 1}
  BY <1>1
<1> HIDE DEF m
<1>5. ASSUME NEW x
      PROVE  x \in RefsIn(m, k) <=> (x \in RefsIn(l, k) \/ (e.kind = k /\ x = e.ref))
  BY <1>1, <1>2, <1>3, <1>4 DEF RefsIn
<1> QED
  BY <1>5 DEF m

\* A promotion stores its input, and for a result the tool result it answers.
LEMMA PromotedTyped ==
  ASSUME NEW l \in Seq(Events), NEW m \in Inputs \ Malformed, TypeOK
  PROVE  Promoted(l, m) \in Seq(Events)
<1>1. Append(l, Event("user", m)) \in Seq(Events)
  BY EventTyped
<1>2. CASE m \in Results
  <2>1. answers[m] \in Tools
    BY <1>2 DEF TypeOK, Malformed
  <2>2. Append(Append(l, Event("user", m)), Event("tool_result", answers[m]))
          \in Seq(Events)
    BY <1>1, <2>1, EventTyped
  <2> QED
    BY <1>2, <2>2 DEF Promoted
<1>3. CASE m \notin Results
  BY <1>1, <1>3 DEF Promoted
<1> QED
  BY <1>2, <1>3

-----------------------------------------------------------------------------
(***************************************************************************)
(* Type correctness.  The promoted row is read from memory, so its type    *)
(* rests on who may hold appendMu.                                         *)
(***************************************************************************)
\* appendMu is held exactly across a promotion, and its holder has a row.
Locked ==
  /\ \A a \in Actors : pc[a] \in {"append", "delete"} <=> lock = a
  /\ lock # None => held \in Rows

\* The goroutines are distinct and none of them is nobody.
LEMMA ActorFacts ==
  /\ Worker \in Actors /\ Worker \notin Requests
  /\ None \notin Actors
  /\ Requests \subseteq Actors /\ Inputs \subseteq Requests
  /\ Interrupts \subseteq Requests /\ Inputs \cap Interrupts = {}
BY LaneAssumption DEF Actors, Requests, Inputs

\* A promotion step of any goroutine keeps the types and the lock.
LEMMA PromoteTyped ==
  ASSUME TypeOK, Locked, NEW a \in Actors, Promote(a)
  PROVE  TypeOK' /\ Locked'
<1> USE ActorFacts
<1>1. CASE Peek(a)
  <2>1. held' \in Rows
    BY <1>1 DEF Peek, TypeOK, Live
  <2>2. TypeOK'
    BY <1>1, <2>1 DEF Peek, TypeOK, Goto, At, PCs, request, rowVars, history
  <2>3. Locked'
    BY <1>1, <2>1 DEF Peek, TypeOK, Locked, Goto, At
  <2> QED
    BY <2>2, <2>3
<1>2. CASE PeekEmpty(a)
  <2>1. AfterPromotion(a) \in PCs \ {"append", "delete"}
    BY DEF AfterPromotion, PCs
  <2>2. TypeOK'
    BY <1>2, <2>1 DEF PeekEmpty, TypeOK, Goto, lane, request, rowVars, history
  <2>3. Locked'
    BY <1>2, <2>1 DEF PeekEmpty, TypeOK, Locked, Goto, At, lane
  <2> QED
    BY <2>2, <2>3
<1>3. CASE PromoteAppend(a)
  <2>1. held \in Rows
    BY <1>3 DEF PromoteAppend, Locked, At
  <2>2. log' \in Seq(Events)
    BY <1>3, <2>1, PromotedTyped DEF PromoteAppend, TypeOK, Rows
  <2>3. TypeOK'
    BY <1>3, <2>2 DEF PromoteAppend, TypeOK, Goto, PCs, lane, request, rowVars, history
  <2>4. Locked'
    BY <1>3 DEF PromoteAppend, TypeOK, Locked, Goto, At, lane
  <2> QED
    BY <2>3, <2>4
<1>4. CASE PromoteDelete(a)
  <2>1. TypeOK'
    BY <1>4 DEF PromoteDelete, TypeOK, Goto, PCs, request, rowVars, history
  <2>2. Locked'
    BY <1>4 DEF PromoteDelete, TypeOK, Locked, Goto, At
  <2> QED
    BY <2>1, <2>2
<1>5. CASE PromoteFails(a)
  <2>1. \E l \in {"recv", "failed"} : Goto(a, l)
    BY <1>5 DEF PromoteFails
  <2>2. TypeOK'
    BY <1>5, <2>1 DEF PromoteFails, TypeOK, Goto, PCs, request, rowVars, history
  <2>3. Locked'
    BY <1>5, <2>1 DEF PromoteFails, TypeOK, Locked, Goto, At
  <2> QED
    BY <2>2, <2>3
<1> QED
  BY <1>1, <1>2, <1>3, <1>4, <1>5 DEF Promote

\* So does a step of a queue-input request.
LEMMA InputTyped ==
  ASSUME TypeOK, Locked, NEW r \in Inputs,
         Handle(r) \/ Insert(r) \/ Choose(r) \/ Send(r)
  PROVE  TypeOK' /\ Locked'
<1> USE ActorFacts
<1>1. CASE Handle(r)
  <2>1. Refs("tool_use") \subseteq Tools
    BY RefsTyped DEF Refs, TypeOK
  <2>2. answers' \in [Results -> Tools \cup {None}]
    <3>1. CASE r \in Results
      <4>1. PICK x \in Refs("tool_use") \cup {None} :
              answers' = [answers EXCEPT ![r] = x]
        BY <1>1, <3>1 DEF Handle
      <4> QED
        BY <2>1, <4>1 DEF TypeOK
    <3>2. CASE r \notin Results
      BY <1>1, <3>2 DEF Handle, TypeOK
    <3> QED
      BY <3>1, <3>2
  <2>3. TypeOK'
    BY <1>1, <2>2 DEF Handle, TypeOK, Goto, PCs, lane, rowVars, history
  <2>4. Locked'
    BY <1>1 DEF Handle, TypeOK, Locked, Goto, At, lane
  <2> QED
    BY <2>3, <2>4
<1>2. CASE Insert(r)
  <2>1. pending' \in SUBSET Rows
    <3>1. PICK top \in {0} \cup {q.seq : q \in pending} :
            pending' = pending \cup {[seq |-> top + 1, msg |-> r,
                                      thread |-> ThreadOf[r],
                                      cancelled |-> FALSE]}
      BY <1>2 DEF Insert
    <3>2. top \in Nat
      BY DEF TypeOK, Rows
    <3>3. ThreadOf[r] \in Threads
      BY LaneAssumption
    <3>4. [seq |-> top + 1, msg |-> r, thread |-> ThreadOf[r],
           cancelled |-> FALSE] \in Rows
      BY <3>2, <3>3 DEF Rows
    <3> QED
      BY <3>1, <3>4 DEF TypeOK
  <2>2. TypeOK'
    BY <1>2, <2>1 DEF Insert, TypeOK, Goto, PCs, lane, request, rowVars
  <2>3. Locked'
    BY <1>2 DEF Insert, TypeOK, Locked, Goto, At, lane
  <2> QED
    BY <2>2, <2>3
<1>3. CASE Choose(r)
  <2>1. TypeOK'
    BY <1>3 DEF Choose, TypeOK, Goto, PCs, lane, request, rowVars, history
  <2>2. Locked'
    BY <1>3 DEF Choose, TypeOK, Locked, Goto, At, lane
  <2> QED
    BY <2>1, <2>2
<1>4. CASE Send(r)
  <2>1. /\ turnCh' \in Seq(Jobs)
        /\ Len(turnCh') <= ChanCap
    <3>1. [thread |-> ThreadOf[r], promoteOnly |-> ~runTurn[r]] \in Jobs
      BY LaneAssumption DEF TypeOK, Jobs
    <3> QED
      BY <1>4, <3>1, LaneAssumption DEF Send, TypeOK
  <2>2. TypeOK'
    BY <1>4, <2>1 DEF Send, TypeOK, Goto, PCs, request, rowVars, history
  <2>3. Locked'
    BY <1>4 DEF Send, TypeOK, Locked, Goto, At
  <2> QED
    BY <2>2, <2>3
<1> QED
  BY <1>1, <1>2, <1>3, <1>4

\* So does a step of an interrupt.
LEMMA InterruptTyped ==
  ASSUME TypeOK, Locked, NEW r \in Interrupts, IntHandle(r) \/ Interrupt(r)
  PROVE  TypeOK' /\ Locked'
<1> USE ActorFacts
<1>1. CASE IntHandle(r)
  <2>1. TypeOK'
    BY <1>1 DEF IntHandle, TypeOK, Goto, PCs, lane, request, rowVars, history
  <2>2. Locked'
    BY <1>1 DEF IntHandle, TypeOK, Locked, Goto, At, lane
  <2> QED
    BY <2>1, <2>2
<1>2. CASE IntCancel(r)
  <2>1. \A q \in Rows : [q EXCEPT !.cancelled = TRUE] \in Rows
    BY DEF Rows
  <2>2. pending' \in SUBSET Rows
    BY <1>2, <2>1 DEF IntCancel, TypeOK, Live
  <2>3. TypeOK'
    BY <1>2, <2>2 DEF IntCancel, TypeOK, Goto, PCs, lane, request, rowVars, history
  <2>4. Locked'
    BY <1>2 DEF IntCancel, TypeOK, Locked, Goto, At, lane
  <2> QED
    BY <2>3, <2>4
<1>3. CASE IntLog(r)
  <2>1. log' \in Seq(Events)
    BY <1>3, EventTyped DEF IntLog, TypeOK
  <2>2. TypeOK'
    BY <1>3, <2>1 DEF IntLog, TypeOK, Goto, PCs, lane, request, rowVars, history
  <2>3. Locked'
    BY <1>3 DEF IntLog, TypeOK, Locked, Goto, At, lane
  <2> QED
    BY <2>2, <2>3
<1>4. CASE IntStop(r)
  <2>1. /\ effect' \in [Interrupts -> BOOLEAN]
        /\ ctxDone' \in BOOLEAN
    BY <1>4 DEF IntStop, TypeOK
  <2>2. TypeOK'
    BY <1>4, <2>1 DEF IntStop, TypeOK, Goto, PCs, rowVars, history
  <2>3. Locked'
    BY <1>4 DEF IntStop, TypeOK, Locked, Goto, At
  <2> QED
    BY <2>2, <2>3
<1>5. CASE IntDrain(r)
  <2>1. /\ turnCh' \in Seq(Jobs) /\ Len(turnCh') <= ChanCap
        /\ effect' \in [Interrupts -> BOOLEAN]
    BY <1>5, LaneAssumption DEF IntDrain, TypeOK
  <2>2. TypeOK'
    BY <1>5, <2>1 DEF IntDrain, TypeOK, rowVars, history
  <2>3. Locked'
    BY <1>5 DEF IntDrain, Locked
  <2> QED
    BY <2>2, <2>3
<1>6. CASE IntRecover(r)
  <2>1. TypeOK'
    BY <1>6 DEF IntRecover, TypeOK, Goto, PCs, lane, rowVars, history
  <2>2. Locked'
    BY <1>6 DEF IntRecover, TypeOK, Locked, Goto, At, lane
  <2> QED
    BY <2>1, <2>2
<1>7. CASE IntEnd(r)
  <2>1. status' \in Statuses /\ dbTurn' \in Nat
    BY <1>7 DEF IntEnd, EndTurn, TypeOK, Statuses, rowVars
  <2>2. TypeOK'
    BY <1>7, <2>1 DEF IntEnd, TypeOK, Goto, PCs, lane, request, history
  <2>3. Locked'
    BY <1>7 DEF IntEnd, TypeOK, Locked, Goto, At, lane
  <2> QED
    BY <2>2, <2>3
<1>8. CASE IntClear(r)
  <2>1. /\ hitl' \in SUBSET Tools
        /\ \E l \in {"idle", "done"} : Goto(r, l)
    BY <1>8 DEF IntClear, WriteHitl
  <2>2. TypeOK'
    BY <1>8, <2>1 DEF IntClear, TypeOK, Goto, PCs, lane, request, rowVars, history
  <2>3. Locked'
    BY <1>8, <2>1 DEF IntClear, TypeOK, Locked, Goto, At, lane
  <2> QED
    BY <2>2, <2>3
<1>9. CASE IntIdle(r)
  <2>1. log' \in Seq(Events)
    BY <1>9, EventTyped DEF IntIdle, TypeOK
  <2>2. TypeOK'
    BY <1>9, <2>1 DEF IntIdle, TypeOK, Goto, PCs, lane, request, rowVars, history
  <2>3. Locked'
    BY <1>9 DEF IntIdle, TypeOK, Locked, Goto, At, lane
  <2> QED
    BY <2>2, <2>3
<1>10. CASE IntList(r)
  <2>1. TypeOK'
    BY <1>10 DEF IntList, TypeOK, Goto, PCs, lane, rowVars, history
  <2>2. Locked'
    BY <1>10 DEF IntList, TypeOK, Locked, Goto, At, lane
  <2> QED
    BY <2>1, <2>2
<1>11. CASE IntDrained(r)
  <2>1. TypeOK'
    BY <1>11 DEF IntDrained, TypeOK, Goto, PCs, lane, request, rowVars, history
  <2>2. Locked'
    BY <1>11 DEF IntDrained, TypeOK, Locked, Goto, At, lane
  <2> QED
    BY <2>1, <2>2
<1> QED
  BY <1>1, <1>2, <1>3, <1>4, <1>5, <1>6, <1>7, <1>8, <1>9, <1>10, <1>11
     DEF Interrupt

\* Publishing leads on or to abort, and stores either nothing or a typed log.
LEMMA PublishTyped ==
  ASSUME TypeOK, Locked, NEW l \in Seq(Events),
         NEW next \in PCs \ {"append", "delete"},
         pc[Worker] \notin {"append", "delete"}, Publish(l, next),
         UNCHANGED <<pending, hitl, lane, request, rowVars, history>>
  PROVE  TypeOK' /\ Locked'
<1> USE ActorFacts
<1>1. /\ log' \in Seq(Events)
      /\ \E n \in PCs \ {"append", "delete"} : Goto(Worker, n)
  BY DEF Publish, TypeOK, PCs
<1>2. TypeOK'
  BY <1>1 DEF TypeOK, Goto, lane, request, rowVars, history
<1>3. Locked'
  BY <1>1 DEF TypeOK, Locked, Goto, lane
<1> QED
  BY <1>2, <1>3

\* The steps of the worker that start and end a turn keep the types and the lock.
LEMMA TurnTyped ==
  ASSUME TypeOK, Locked,
         \/ Receive \/ StartTurn \/ BeginTurn \/ ReadHistory \/ StreamEnds
         \/ LeaveTurn \/ Supervise \/ Release
  PROVE  TypeOK' /\ Locked'
<1> USE ActorFacts
<1>1. CASE Receive
  <2>1. /\ job' \in Jobs /\ turnCh' \in Seq(Jobs)
        /\ Len(turnCh') <= ChanCap
    BY <1>1, LaneAssumption DEF Receive, TypeOK
  <2>2. TypeOK'
    BY <1>1, <2>1 DEF Receive, TypeOK, Goto, PCs, request, rowVars, history
  <2>3. Locked'
    BY <1>1 DEF Receive, TypeOK, Locked, Goto, At
  <2> QED
    BY <2>2, <2>3
<1>2. CASE StartTurn
  <2>1. turns' \in Nat /\ active' \in Nat /\ pc' \in [Actors -> PCs]
    BY <1>2 DEF StartTurn, TypeOK, Goto, PCs
  <2>2. TypeOK'
    BY <1>2, <2>1 DEF StartTurn, TypeOK, request, rowVars
  <2>3. Locked'
    BY <1>2 DEF StartTurn, TypeOK, Locked, Goto, At
  <2> QED
    BY <2>2, <2>3
<1>3. CASE BeginTurn
  <2>1. /\ status' \in Statuses /\ dbTurn' \in Nat
        /\ \E l \in {"release", "history"} : Goto(Worker, l)
    BY <1>3 DEF BeginTurn, TypeOK, Statuses, rowVars
  <2>2. TypeOK'
    BY <1>3, <2>1 DEF BeginTurn, TypeOK, Goto, PCs, lane, request, history
  <2>3. Locked'
    BY <1>3, <2>1 DEF BeginTurn, TypeOK, Locked, Goto, At, lane
  <2> QED
    BY <2>2, <2>3
<1>4. CASE ReadHistory
  <2>1. ReadRefs("user") \subseteq Inputs
    BY RefsTyped, ReadFacts DEF Refs, TypeOK
  <2>2. heard' \in SUBSET Inputs
    BY <1>4, <2>1 DEF ReadHistory, TypeOK
  <2>3. \E l \in {"abort", "announce", "fail"} : Goto(Worker, l)
    BY <1>4 DEF ReadHistory
  <2>4. TypeOK'
    BY <1>4, <2>2, <2>3 DEF ReadHistory, TypeOK, Goto, PCs, lane, request, rowVars
  <2>5. Locked'
    BY <1>4, <2>3 DEF ReadHistory, TypeOK, Locked, Goto, At, lane
  <2> QED
    BY <2>4, <2>5
<1>5. CASE StreamEnds
  <2>1. \E l \in {"abort", "finish", "fail"} : Goto(Worker, l)
    BY <1>5 DEF StreamEnds
  <2>2. TypeOK'
    BY <1>5, <2>1 DEF StreamEnds, TypeOK, Goto, PCs, lane, request, rowVars, history
  <2>3. Locked'
    BY <1>5, <2>1 DEF StreamEnds, TypeOK, Locked, Goto, At, lane
  <2> QED
    BY <2>2, <2>3
<1>6. CASE LeaveTurn
  <2>1. status' \in Statuses /\ dbTurn' \in Nat
    BY <1>6 DEF LeaveTurn, EndTurn, TypeOK, Statuses, rowVars
  <2>2. TypeOK'
    BY <1>6, <2>1 DEF LeaveTurn, TypeOK, Goto, PCs, lane, request, history
  <2>3. Locked'
    BY <1>6 DEF LeaveTurn, TypeOK, Locked, Goto, At, lane
  <2> QED
    BY <2>2, <2>3
<1>7. CASE Supervise
  <2>1. TypeOK'
    BY <1>7 DEF Supervise, TypeOK, Goto, PCs, lane, request, rowVars, history
  <2>2. Locked'
    BY <1>7 DEF Supervise, TypeOK, Locked, Goto, At, lane
  <2> QED
    BY <2>1, <2>2
<1>8. CASE Release
  <2>1. TypeOK'
    BY <1>8 DEF Release, TypeOK, Goto, PCs, request, rowVars, history
  <2>2. Locked'
    BY <1>8 DEF Release, TypeOK, Locked, Goto, At
  <2> QED
    BY <2>1, <2>2
<1> QED
  BY <1>1, <1>2, <1>3, <1>4, <1>5, <1>6, <1>7, <1>8

\* So do the steps that publish the turn's events and the idle event.
LEMMA EventsTyped ==
  ASSUME TypeOK, Locked,
         \/ Announce \/ Emit \/ FailTurn \/ FinishTurn
         \/ IdleRead \/ IdleMeta \/ IdleLog
  PROVE  TypeOK' /\ Locked'
<1> USE ActorFacts
<1>1. CASE Announce
  <2>1. Append(log, Event("turn_start", active)) \in Seq(Events)
    BY EventTyped DEF TypeOK
  <2> QED
    BY <1>1, <2>1, PublishTyped DEF Announce, At, PCs
<1>2. CASE Emit
  <2>1. PICK x \in Tools \ Refs("tool_use") :
          Publish(Append(log, Event("tool_use", x)), "stream")
    BY <1>2 DEF Emit
  <2>2. Append(log, Event("tool_use", x)) \in Seq(Events)
    BY EventTyped DEF TypeOK
  <2> QED
    BY <1>2, <2>1, <2>2, PublishTyped DEF Emit, At, PCs
<1>3. CASE FailTurn
  <2>1. Append(Append(log, Event("error", active)), Event("turn_end", active))
          \in Seq(Events)
    BY EventTyped DEF TypeOK
  <2> QED
    BY <1>3, <2>1, PublishTyped DEF FailTurn, At, PCs
<1>4. CASE FinishTurn
  <2>1. Append(log, Event("turn_end", active)) \in Seq(Events)
    BY EventTyped DEF TypeOK
  <2> QED
    BY <1>4, <2>1, PublishTyped DEF FinishTurn, At, PCs
<1>5. CASE IdleRead
  <2>1. stop' \in SUBSET Tools
    BY <1>5, RefsTyped, ReadFacts DEF IdleRead, OpenRead, Refs, TypeOK
  <2>2. TypeOK'
    BY <1>5, <2>1 DEF IdleRead, TypeOK, Goto, PCs, request, rowVars, history
  <2>3. Locked'
    BY <1>5 DEF IdleRead, TypeOK, Locked, Goto, At
  <2> QED
    BY <2>2, <2>3
<1>6. CASE IdleMeta
  <2>1. /\ hitl' \in SUBSET Tools
        /\ \E l \in {"idle_log", "release"} : Goto(Worker, l)
    BY <1>6 DEF IdleMeta, WriteHitl, TypeOK
  <2>2. TypeOK'
    BY <1>6, <2>1 DEF IdleMeta, TypeOK, Goto, PCs, lane, request, rowVars, history
  <2>3. Locked'
    BY <1>6, <2>1 DEF IdleMeta, TypeOK, Locked, Goto, At, lane
  <2> QED
    BY <2>2, <2>3
<1>7. CASE IdleLog
  <2>1. log' \in Seq(Events)
    BY <1>7, EventTyped DEF IdleLog, TypeOK
  <2>2. TypeOK'
    BY <1>7, <2>1 DEF IdleLog, TypeOK, Goto, PCs, lane, request, rowVars, history
  <2>3. Locked'
    BY <1>7 DEF IdleLog, TypeOK, Locked, Goto, At, lane
  <2> QED
    BY <2>2, <2>3
<1> QED
  BY <1>1, <1>2, <1>3, <1>4, <1>5, <1>6, <1>7

\* So do the faults: a goroutine that dies or gives up leaves appendMu free.
LEMMA FaultTyped ==
  ASSUME TypeOK, Locked, Fault
  PROVE  TypeOK' /\ Locked'
<1> USE ActorFacts
<1>1. ASSUME faults < MaxFaults, faults' = faults + 1
      PROVE  faults' \in 0..MaxFaults
  BY <1>1, LaneAssumption DEF TypeOK
<1>2. CASE CrashAndRestart
  <2>1. /\ turnCh' \in Seq(Jobs) /\ Len(turnCh') <= ChanCap
        /\ status' \in Statuses /\ dbTurn' \in Nat
    BY <1>2, LaneAssumption DEF CrashAndRestart, TypeOK, Statuses, rowVars
  <2>2. /\ pc' \in [Actors -> PCs]
        /\ \A a \in Actors : pc'[a] \notin {"append", "delete"}
    BY <1>2 DEF CrashAndRestart, TypeOK, PCs
  <2>3. TypeOK'
    BY <1>1, <1>2, <2>1, <2>2 DEF CrashAndRestart, TypeOK, request
  <2>4. Locked'
    BY <1>2, <2>2 DEF CrashAndRestart, Locked
  <2> QED
    BY <2>3, <2>4
<1>3. CASE SetupFails
  <2>1. TypeOK'
    BY <1>1, <1>3 DEF SetupFails, TypeOK, Goto, PCs, lane, request, rowVars
  <2>2. Locked'
    BY <1>3 DEF SetupFails, TypeOK, Locked, Goto, At, lane
  <2> QED
    BY <2>1, <2>2
<1>4. CASE \E r \in Requests : Disconnect(r)
  <2>1. PICK r \in Requests : Disconnect(r)
    BY <1>4
  <2>2. TypeOK'
    BY <1>1, <2>1 DEF Disconnect, TypeOK, Goto, PCs, request, rowVars
  <2>3. Locked'
    BY <2>1 DEF Disconnect, TypeOK, Locked, Goto
  <2> QED
    BY <2>2, <2>3
<1> QED
  BY <1>2, <1>3, <1>4 DEF Fault

\* Steps that change nothing change no type.
LEMMA StutterTyped ==
  ASSUME TypeOK, Locked, UNCHANGED vars
  PROVE  TypeOK' /\ Locked'
BY DEF TypeOK, Locked, vars, lane, request, rowVars, history

\* Types and the holder of appendMu are inductive together.
LEMMA StepTyped ==
  ASSUME TypeOK, Locked, [Next]_vars
  PROVE  TypeOK' /\ Locked'
<1>1. CASE \E r \in Inputs : Handle(r) \/ Serve(r)
  BY <1>1, InputTyped, PromoteTyped, ActorFacts DEF Serve
<1>2. CASE \E r \in Interrupts : IntHandle(r) \/ Interrupt(r)
  BY <1>2, InterruptTyped
<1>3. CASE Work
  BY <1>3, PromoteTyped, TurnTyped, EventsTyped, ActorFacts DEF Work
<1>4. CASE Fault
  BY <1>4, FaultTyped
<1>5. CASE UNCHANGED vars
  BY <1>5, StutterTyped
<1> QED
  BY <1>1, <1>2, <1>3, <1>4, <1>5 DEF Next, Rest

LEMMA TypedInvariant == Spec => [](TypeOK /\ Locked)
<1>1. Init => TypeOK /\ Locked
  <2> SUFFICES ASSUME Init PROVE TypeOK /\ Locked
    OBVIOUS
  <2>1. pending \in SUBSET Rows /\ log \in Seq(Events) /\ turnCh \in Seq(Jobs)
    BY DEF Init
  <2>2. Len(turnCh) <= ChanCap /\ faults \in 0..MaxFaults
    BY LaneAssumption DEF Init
  <2>3. /\ pc \in [Actors -> PCs]
        /\ \A a \in Actors : pc[a] \notin {"append", "delete"}
    BY DEF Init, PCs
  <2>4. /\ answers \in [Results -> Tools \cup {None}]
        /\ runTurn \in [Inputs -> BOOLEAN]
        /\ effect \in [Interrupts -> BOOLEAN]
        /\ readTurn \in [Interrupts -> Nat]
        /\ accepted \in Seq(Inputs) /\ heard \in SUBSET Inputs
    BY DEF Init
  <2>5. TypeOK
    BY <2>1, <2>2, <2>3, <2>4 DEF Init, TypeOK, Statuses
  <2>6. Locked
    BY <2>3, ActorFacts DEF Init, Locked
  <2> QED
    BY <2>5, <2>6
<1>2. TypeOK /\ Locked /\ [Next]_vars => (TypeOK /\ Locked)'
  BY StepTyped
<1> QED
  BY <1>1, <1>2, PTL DEF Spec

\* Every reachable state is typed, and turnCh never holds more than its capacity.
THEOREM TypeCorrect == Spec => []TypeOK
BY TypedInvariant, PTL

-----------------------------------------------------------------------------
(***************************************************************************)
(* The log only grows, and every step says by which kinds of events.       *)
(***************************************************************************)
\* m is l with events of kinds S behind it.
Extends(l, m, S) ==
  /\ \A i \in DOMAIN l : i \in DOMAIN m /\ m[i] = l[i]
  /\ \A i \in DOMAIN m \ DOMAIN l : m[i].kind \in S
  /\ Len(l) <= Len(m)

LEMMA ExtendsSelf ==
  ASSUME NEW l \in Seq(Events), NEW S
  PROVE  Extends(l, l, S)
BY DEF Extends

LEMMA ExtendsAppend ==
  ASSUME NEW l \in Seq(Events), NEW e \in Events, NEW S, e.kind \in S
  PROVE  Extends(l, Append(l, e), S)
<1> DEFINE m == Append(l, e)
<1>1. /\ DOMAIN m = DOMAIN l \cup {Len(l) + 1}
      /\ \A i \in DOMAIN l : m[i] = l[i]
      /\ m[Len(l) + 1] = e
      /\ Len(l) <= Len(m)
  OBVIOUS
<1> HIDE DEF m
<1>2. Extends(l, m, S)
  BY <1>1 DEF Extends
<1> QED
  BY <1>2 DEF m

LEMMA ExtendsTwice ==
  ASSUME NEW l \in Seq(Events), NEW m \in Seq(Events), NEW n \in Seq(Events),
         NEW S, Extends(l, m, S), Extends(m, n, S)
  PROVE  Extends(l, n, S)
<1>1. \A i \in DOMAIN l : i \in DOMAIN n /\ n[i] = l[i]
  BY DEF Extends
<1>2. \A i \in DOMAIN n \ DOMAIN l : n[i].kind \in S
  BY DEF Extends
<1>3. Len(l) <= Len(n)
  BY DEF Extends
<1> QED
  BY <1>1, <1>2, <1>3 DEF Extends

\* What a kind refers to is kept, and changes only when an event of it comes.
LEMMA ExtendsRefs ==
  ASSUME NEW l, NEW m, NEW S, NEW k, Extends(l, m, S)
  PROVE  /\ RefsIn(l, k) \subseteq RefsIn(m, k)
         /\ k \notin S => RefsIn(m, k) = RefsIn(l, k)
BY DEF Extends, RefsIn

\* The steps that write the log, each with the kinds of events it writes.
LogSteps ==
  \/ UNCHANGED log
  \/ \E a \in Actors : PromoteAppend(a) /\ Extends(log, log', {"user", "tool_result"})
  \/ Emit /\ Extends(log, log', {"tool_use"})
  \/ Announce /\ Extends(log, log', {"turn_start"})
  \/ (FailTurn \/ FinishTurn) /\ Extends(log, log', {"error", "turn_end"})
  \/ IdleLog /\ Extends(log, log', {"idle"})
  \/ \E r \in Interrupts : (IntLog(r) \/ IntIdle(r))
                          /\ Extends(log, log', {"interrupt", "idle"})

\* What the promotion appends to the log.
LEMMA PromotedExtends ==
  ASSUME TypeOK, NEW m \in Inputs \ Malformed
  PROVE  Extends(log, Promoted(log, m), {"user", "tool_result"})
<1> DEFINE l == Append(log, Event("user", m))
<1>1. Event("user", m) \in Events /\ Event("user", m).kind = "user"
  BY EventTyped DEF Event
<1>2. log \in Seq(Events) /\ l \in Seq(Events)
  BY <1>1 DEF TypeOK
<1>3. Extends(log, l, {"user", "tool_result"})
  BY <1>1, <1>2, ExtendsAppend
<1>4. CASE m \in Results
  <2> DEFINE e == Event("tool_result", answers[m])
  <2>1. e \in Events /\ e.kind = "tool_result"
    BY <1>4, EventTyped DEF Event, TypeOK, Malformed
  <2>2. Extends(l, Append(l, e), {"user", "tool_result"})
    BY <1>2, <2>1, ExtendsAppend
  <2>3. Append(l, e) \in Seq(Events)
    BY <1>2, <2>1
  <2>4. Extends(log, Append(l, e), {"user", "tool_result"})
    BY <1>2, <1>3, <2>2, <2>3, ExtendsTwice
  <2> QED
    BY <1>4, <2>4 DEF Promoted
<1>5. CASE m \notin Results
  BY <1>3, <1>5 DEF Promoted
<1> QED
  BY <1>4, <1>5

\* Every step is one of those.
LEMMA LogGrows ==
  ASSUME TypeOK, Locked, [Next]_vars
  PROVE  LogSteps
<1> USE ActorFacts
<1>0. log \in Seq(Events)
  BY DEF TypeOK
<1>1. ASSUME NEW a \in Actors, Promote(a)
      PROVE  LogSteps
  <2>1. CASE PromoteAppend(a)
    <3>1. held.msg \in Inputs \ Malformed
      BY <2>1 DEF PromoteAppend, Locked, At, Rows
    <3> QED
      BY <2>1, <3>1, PromotedExtends DEF PromoteAppend, LogSteps
  <2>2. CASE ~PromoteAppend(a)
    BY <1>1, <2>2 DEF Promote, Peek, PeekEmpty, PromoteFails, PromoteDelete, LogSteps
  <2> QED
    BY <2>1, <2>2
<1>2. ASSUME NEW r \in Inputs, Handle(r) \/ Insert(r) \/ Choose(r) \/ Send(r)
      PROVE  LogSteps
  BY <1>2 DEF Handle, Insert, Choose, Send, LogSteps
<1>3. ASSUME NEW r \in Interrupts, IntHandle(r) \/ Interrupt(r)
      PROVE  LogSteps
  <2>1. CASE IntLog(r)
    <3>1. Event("interrupt", r) \in Events /\ Event("interrupt", r).kind = "interrupt"
      BY EventTyped DEF Event
    <3> QED
      BY <1>0, <2>1, <3>1, ExtendsAppend DEF IntLog, LogSteps
  <2>2. CASE IntIdle(r)
    <3>1. Event("idle", {}) \in Events /\ Event("idle", {}).kind = "idle"
      BY EventTyped DEF Event
    <3> QED
      BY <1>0, <2>2, <3>1, ExtendsAppend DEF IntIdle, LogSteps
  <2>3. CASE ~IntLog(r) /\ ~IntIdle(r)
    BY <1>3, <2>3 DEF IntHandle, Interrupt, IntList, IntCancel, IntStop, IntDrain,
          IntDrained, IntRecover, IntEnd, IntClear, LogSteps
  <2> QED
    BY <2>1, <2>2, <2>3
<1>4. CASE Work /\ ~Promote(Worker)
  <2>1. CASE Announce
    <3>1. /\ Event("turn_start", active) \in Events
          /\ Event("turn_start", active).kind = "turn_start"
      BY EventTyped DEF Event, TypeOK
    <3> QED
      BY <1>0, <2>1, <3>1, ExtendsAppend DEF Announce, Publish, LogSteps
  <2>2. CASE Emit
    <3>1. \A x \in Tools : /\ Event("tool_use", x) \in Events
                           /\ Event("tool_use", x).kind = "tool_use"
      BY EventTyped DEF Event
    <3>2. log' = log \/ \E x \in Tools : log' = Append(log, Event("tool_use", x))
      BY <2>2 DEF Emit, Publish
    <3> QED
      BY <1>0, <2>2, <3>1, <3>2, ExtendsAppend DEF LogSteps
  <2>3. CASE FailTurn
    <3> DEFINE e == Event("error", active)
               f == Event("turn_end", active)
    <3>1. e \in Events /\ f \in Events /\ e.kind = "error" /\ f.kind = "turn_end"
      BY EventTyped DEF Event, TypeOK
    <3> HIDE DEF e, f
    <3>2. /\ Append(log, e) \in Seq(Events)
          /\ Append(Append(log, e), f) \in Seq(Events)
      BY <1>0, <3>1
    <3>3. Extends(log, Append(log, e), {"error", "turn_end"})
      BY <1>0, <3>1, ExtendsAppend
    <3>4. Extends(Append(log, e), Append(Append(log, e), f), {"error", "turn_end"})
      BY <3>1, <3>2, ExtendsAppend
    <3>5. Extends(log, Append(Append(log, e), f), {"error", "turn_end"})
      BY <1>0, <3>2, <3>3, <3>4, ExtendsTwice
    <3> QED
      BY <2>3, <3>5 DEF FailTurn, Publish, LogSteps, e, f
  <2>4. CASE FinishTurn
    <3>1. /\ Event("turn_end", active) \in Events
          /\ Event("turn_end", active).kind = "turn_end"
      BY EventTyped DEF Event, TypeOK
    <3> QED
      BY <1>0, <2>4, <3>1, ExtendsAppend DEF FinishTurn, Publish, LogSteps
  <2>5. CASE IdleLog
    <3>1. Event("idle", stop) \in Events /\ Event("idle", stop).kind = "idle"
      BY EventTyped DEF Event, TypeOK
    <3> QED
      BY <1>0, <2>5, <3>1, ExtendsAppend DEF IdleLog, LogSteps
  <2>6. CASE \/ Receive \/ StartTurn \/ BeginTurn \/ ReadHistory \/ StreamEnds
             \/ LeaveTurn \/ Supervise \/ IdleRead \/ IdleMeta \/ Release
    BY <2>6 DEF Receive, StartTurn, BeginTurn, ReadHistory, StreamEnds, LeaveTurn,
                Supervise, IdleRead, IdleMeta, Release, LogSteps
  <2> QED
    BY <1>4, <2>1, <2>2, <2>3, <2>4, <2>5, <2>6 DEF Work
<1>5. CASE Fault \/ UNCHANGED vars
  BY <1>5 DEF Fault, CrashAndRestart, SetupFails, Disconnect, vars, LogSteps
<1> QED
  BY <1>1, <1>2, <1>3, <1>4, <1>5 DEF Next, Serve, Work, Rest

\* Which steps leave the events of a kind as they are.
LEMMA GrowsWithout ==
  ASSUME TypeOK, Locked, [Next]_vars
  PROVE  /\ \E S : Extends(log, log', S)
         /\ ~Emit => \E S : Extends(log, log', S) /\ "tool_use" \notin S
         /\ ~Announce => \E S : Extends(log, log', S) /\ "turn_start" \notin S
         /\ ~IdleLog /\ (\A r \in Interrupts : ~IntLog(r) /\ ~IntIdle(r)) =>
              \E S : Extends(log, log', S) /\ "idle" \notin S
<1>1. CASE UNCHANGED log
  <2>1. Extends(log, log', {})
    BY <1>1, ExtendsSelf DEF TypeOK
  <2> QED
    BY <2>1
<1>2. CASE ~UNCHANGED log
  <2>1. \/ Extends(log, log', {"user", "tool_result"})
        \/ Emit /\ Extends(log, log', {"tool_use"})
        \/ Announce /\ Extends(log, log', {"turn_start"})
        \/ Extends(log, log', {"error", "turn_end"})
        \/ IdleLog /\ Extends(log, log', {"idle"})
        \/ (\E r \in Interrupts : IntLog(r) \/ IntIdle(r))
           /\ Extends(log, log', {"interrupt", "idle"})
    BY <1>2, LogGrows DEF LogSteps
  <2> QED
    BY <2>1
<1> QED
  BY <1>1, <1>2

-----------------------------------------------------------------------------
(***************************************************************************)
(* The turn the worker is in, in memory and in the row.                    *)
(***************************************************************************)
\* Where the worker is while a turn is installed in memory.
InTurn == Running \cup {"begin", "supervise", "idle_read", "idle_meta",
                        "idle_log", "release"}

\* What NoZombieRunning needs to be inductive: the turn is in memory from
\* StartTurn to Release, and the row says running only before its EndTurn.
RowFollowsTurn ==
  /\ pc[Worker] \in InTurn => active # 0
  /\ status = "running" => dbTurn = active /\ pc[Worker] \in Running

\* No step of a request sets the row to running or moves the worker.
LEMMA RowRequests ==
  ASSUME TypeOK, RowFollowsTurn,
         \/ \E r \in Inputs : Handle(r) \/ Serve(r)
         \/ \E r \in Interrupts : IntHandle(r) \/ Interrupt(r)
  PROVE  RowFollowsTurn'
<1> USE ActorFacts DEF TypeOK, RowFollowsTurn, Goto
<1>1. ASSUME NEW r \in Requests, NEW l, Goto(r, l), UNCHANGED <<active, rowVars>>
      PROVE  RowFollowsTurn'
  BY <1>1 DEF rowVars
<1>2. CASE \E r \in Inputs : Handle(r) \/ Serve(r)
  <2>1. PICK r \in Inputs : Handle(r) \/ Serve(r)
    BY <1>2
  <2>2. UNCHANGED <<active, rowVars>> /\ \E l : Goto(r, l)
    BY <2>1 DEF Handle, Serve, Promote, Peek, PeekEmpty, PromoteAppend,
                PromoteFails, PromoteDelete, Insert, Choose, Send, lane
  <2> QED
    BY <2>2, <1>1
<1>3. CASE \E r \in Interrupts : IntHandle(r) \/ Interrupt(r)
  <2>1. PICK r \in Interrupts : IntHandle(r) \/ Interrupt(r)
    BY <1>3
  <2>2. CASE IntEnd(r)
    BY <2>2 DEF IntEnd, EndTurn, rowVars, lane
  <2>3. CASE IntDrain(r)
    BY <2>3 DEF IntDrain, rowVars
  <2>4. CASE ~IntEnd(r) /\ ~IntDrain(r)
    <3>1. UNCHANGED <<active, rowVars>> /\ \E l : Goto(r, l)
      BY <2>1, <2>4 DEF IntHandle, Interrupt, IntList, IntCancel, IntLog, IntStop,
                IntDrained, IntRecover, IntClear, WriteHitl, IntIdle, lane
    <3> QED
      BY <3>1, <1>1
  <2> QED
    BY <2>2, <2>3, <2>4
<1> QED
  BY <1>2, <1>3

\* BeginTurn sets the row for the turn in memory; every way out of Running
\* goes through LeaveTurn, which unsets it.
LEMMA RowWork ==
  ASSUME TypeOK, RowFollowsTurn, Work
  PROVE  RowFollowsTurn'
<1> USE ActorFacts DEF TypeOK, RowFollowsTurn, Goto, At, InTurn, Running
<1>1. CASE Promote(Worker)
  <2>1. pc'[Worker] \in {"append", "delete", "peek", "recv", "start"}
    BY <1>1 DEF Promote, Peek, PeekEmpty, PromoteAppend, PromoteFails, PromoteDelete,
                AfterPromotion
  <2>2. pc[Worker] \in {"peek", "append", "delete"} /\ UNCHANGED <<active, rowVars>>
    BY <1>1 DEF Promote, Peek, PeekEmpty, PromoteAppend, PromoteFails, PromoteDelete, lane
  <2> QED
    BY <2>1, <2>2 DEF rowVars
<1>2. CASE Receive
  BY <1>2 DEF Receive, rowVars
<1>3. CASE StartTurn
  BY <1>3 DEF StartTurn, rowVars
<1>4. CASE BeginTurn
  BY <1>4 DEF BeginTurn, rowVars, lane
<1>5. CASE ReadHistory
  BY <1>5 DEF ReadHistory, rowVars, lane
<1>6. CASE Announce \/ Emit \/ FailTurn \/ FinishTurn
  <2>1. /\ pc[Worker] \in {"announce", "stream", "fail", "finish"}
        /\ \E l \in {"abort", "stream", "endturn"} : Goto(Worker, l)
    BY <1>6 DEF Announce, Emit, FailTurn, FinishTurn, Publish
  <2>2. UNCHANGED <<active, rowVars>>
    BY <1>6 DEF Announce, Emit, FailTurn, FinishTurn, lane
  <2> QED
    BY <2>1, <2>2 DEF rowVars
<1>7. CASE StreamEnds
  BY <1>7 DEF StreamEnds, rowVars, lane
<1>8. CASE LeaveTurn
  BY <1>8 DEF LeaveTurn, EndTurn, rowVars, lane
<1>9. CASE Supervise \/ IdleRead \/ IdleMeta \/ IdleLog
  <2>1. /\ pc[Worker] \in {"supervise", "idle_read", "idle_meta", "idle_log"}
        /\ \E l \in {"release", "idle_read", "idle_meta", "idle_log"} :
             Goto(Worker, l)
        /\ UNCHANGED <<active, rowVars>>
    BY <1>9 DEF Supervise, IdleRead, IdleMeta, WriteHitl, IdleLog, lane
  <2> QED
    BY <2>1 DEF rowVars
<1>10. CASE Release
  BY <1>10 DEF Release, rowVars
<1> QED
  BY <1>1, <1>2, <1>3, <1>4, <1>5, <1>6, <1>7, <1>8, <1>9, <1>10 DEF Work

\* A crash takes the turn away and RecoverRunning the row's status with it.
LEMMA RowFault ==
  ASSUME TypeOK, RowFollowsTurn, Fault
  PROVE  RowFollowsTurn'
<1> USE ActorFacts DEF TypeOK, RowFollowsTurn, Goto, At, InTurn, Running
<1>1. CASE CrashAndRestart
  BY <1>1 DEF CrashAndRestart, rowVars
<1>2. CASE SetupFails
  BY <1>2 DEF SetupFails, rowVars, lane
<1>3. CASE \E r \in Requests : Disconnect(r)
  BY <1>3 DEF Disconnect, rowVars
<1> QED
  BY <1>1, <1>2, <1>3 DEF Fault

\* A sessions row that says running belongs to the turn the worker is in, and
\* that turn still has its EndTurn before it: no interrupt, error, crash or
\* restart leaves a running row behind.
THEOREM RunningBelongsToTurn == Spec => []NoZombieRunning
<1>1. Init => RowFollowsTurn
  BY ActorFacts DEF Init, RowFollowsTurn, InTurn, Running
<1>2. TypeOK /\ RowFollowsTurn /\ [Next]_vars => RowFollowsTurn'
  <2> SUFFICES ASSUME TypeOK, RowFollowsTurn, [Next]_vars
               PROVE  RowFollowsTurn'
    OBVIOUS
  <2>1. CASE UNCHANGED vars
    BY <2>1 DEF RowFollowsTurn, vars, lane, rowVars
  <2> QED
    BY <2>1, RowRequests, RowWork, RowFault DEF Next, Rest
<1>3. RowFollowsTurn => NoZombieRunning
  BY DEF RowFollowsTurn, NoZombieRunning, InTurn
<1> QED
  BY <1>1, <1>2, <1>3, TypeCorrect, PTL DEF Spec

-----------------------------------------------------------------------------
(***************************************************************************)
(* The stop reason of a turn, and what the log says of the turns.          *)
(***************************************************************************)
\* A step of a request leaves the worker and its turn where they are.
LEMMA RequestSteps ==
  ASSUME TypeOK,
         \/ \E r \in Inputs : Handle(r) \/ Serve(r)
         \/ \E r \in Interrupts : IntHandle(r) \/ Interrupt(r)
  PROVE  /\ pc'[Worker] = pc[Worker]
         /\ UNCHANGED <<stop, active, job, turns, faults>>
<1> USE ActorFacts DEF TypeOK, Goto
<1>1. ASSUME NEW r \in Requests, NEW l, Goto(r, l)
      PROVE  pc'[Worker] = pc[Worker]
  BY <1>1
<1>2. CASE \E r \in Inputs : Handle(r) \/ Serve(r)
  <2>1. PICK r \in Inputs : Handle(r) \/ Serve(r)
    BY <1>2
  <2>2. UNCHANGED <<stop, active, job, turns, faults>> /\ \E l : Goto(r, l)
    BY <2>1 DEF Handle, Serve, Promote, Peek, PeekEmpty, PromoteAppend,
                PromoteFails, PromoteDelete, Insert, Choose, Send, lane, history
  <2> QED
    BY <2>2, <1>1
<1>3. CASE \E r \in Interrupts : IntHandle(r) \/ Interrupt(r)
  <2>1. PICK r \in Interrupts : IntHandle(r) \/ Interrupt(r)
    BY <1>3
  <2>2. CASE IntDrain(r)
    BY <2>2 DEF IntDrain, history
  <2>3. CASE ~IntDrain(r)
    <3>1. UNCHANGED <<stop, active, job, turns, faults>> /\ \E l : Goto(r, l)
      BY <2>1, <2>3 DEF IntHandle, Interrupt, IntList, IntCancel, IntLog, IntStop,
           IntDrained, IntRecover, IntEnd, IntClear, WriteHitl, IntIdle, lane, history
    <3> QED
      BY <3>1, <1>1
  <2> QED
    BY <2>2, <2>3
<1> QED
  BY <1>2, <1>3

\* The worker reads the open tools and publishes them in later steps; between
\* them others promote, and their promotions only close tools.
StopCovers ==
  pc[Worker] \in {"idle_meta", "idle_log"} /\ Len(log) <= HistoryLimit => Covers

\* Only the worker's own Emit opens a tool.
LEMMA OpenToolsShrink ==
  ASSUME TypeOK, Locked, [Next]_vars, ~Emit
  PROVE  /\ Unanswered' \subseteq Unanswered
         /\ Len(log') <= HistoryLimit => Len(log) <= HistoryLimit
<1>1. /\ Refs("tool_use")' = Refs("tool_use")
      /\ Refs("tool_result") \subseteq Refs("tool_result")'
  BY GrowsWithout, ExtendsRefs DEF Refs
<1>2. Len(log) <= Len(log')
  BY GrowsWithout DEF Extends
<1>3. log' \in Seq(Events) /\ log \in Seq(Events)
  BY StepTyped DEF TypeOK
<1> QED
  BY <1>1, <1>2, <1>3, LaneAssumption DEF Unanswered

LEMMA StopCoversStep ==
  ASSUME TypeOK, Locked, StopCovers, [Next]_vars
  PROVE  StopCovers'
<1> USE ActorFacts
<1>1. CASE pc'[Worker] = pc[Worker] /\ stop' = stop /\ ~Emit
  BY <1>1, OpenToolsShrink DEF StopCovers, Covers
<1>2. CASE \/ \E r \in Inputs : Handle(r) \/ Serve(r)
           \/ \E r \in Interrupts : IntHandle(r) \/ Interrupt(r)
  <2>1. pc'[Worker] = pc[Worker] /\ stop' = stop
    BY <1>2, RequestSteps
  <2>2. CASE Emit
    BY <2>1, <2>2 DEF Emit, At, StopCovers
  <2> QED
    BY <1>1, <2>1, <2>2
<1>3. CASE Work
  <2>1. CASE IdleRead
    <3>1. PICK S \in SUBSET OpenRead : Named(S) /\ stop' = S /\ log' = log
      BY <2>1 DEF IdleRead
    <3>2. CASE Len(log) <= HistoryLimit
      <4>1. OpenRead = Unanswered
        BY <3>2, ReadFacts DEF OpenRead, Unanswered, TypeOK
      <4>2. S = Unanswered \/ Cardinality(S) = MaxOpen
        BY <3>1, <4>1 DEF Named
      <4> QED
        BY <3>1, <4>2 DEF StopCovers, Covers, Unanswered, Refs
    <3>3. CASE ~(Len(log) <= HistoryLimit)
      BY <3>1, <3>3 DEF StopCovers
    <3> QED
      BY <3>2, <3>3
  <2>2. CASE IdleMeta
    <3>1. pc[Worker] = "idle_meta" /\ stop' = stop /\ log' = log
      BY <2>2 DEF IdleMeta, At, lane
    <3> QED
      BY <3>1 DEF StopCovers, Covers, Unanswered, Refs
  <2>3. CASE ~IdleRead /\ ~IdleMeta
    <3>1. pc'[Worker] \notin {"idle_meta", "idle_log"}
      <4>1. CASE Promote(Worker) \/ Receive \/ StartTurn \/ BeginTurn \/ ReadHistory
        BY <4>1 DEF Promote, Peek, PeekEmpty, PromoteAppend, PromoteFails, PromoteDelete,
             AfterPromotion, Receive, StartTurn, BeginTurn, ReadHistory, Goto, TypeOK
      <4>2. CASE Announce \/ Emit \/ StreamEnds \/ FailTurn \/ FinishTurn
        BY <4>2 DEF Announce, Emit, StreamEnds, FailTurn, FinishTurn, Publish, Goto,
             TypeOK
      <4>3. CASE LeaveTurn \/ Supervise \/ IdleLog \/ Release
        BY <4>3 DEF LeaveTurn, Supervise, IdleLog, Release, Goto, TypeOK
      <4> QED
        BY <1>3, <2>3, <4>1, <4>2, <4>3 DEF Work
    <3> QED
      BY <3>1 DEF StopCovers
  <2> QED
    BY <2>1, <2>2, <2>3
<1>4. CASE Fault
  <2>1. CASE CrashAndRestart \/ SetupFails
    <3>1. pc'[Worker] \notin {"idle_meta", "idle_log"}
      BY <2>1 DEF CrashAndRestart, SetupFails, Goto, TypeOK
    <3> QED
      BY <3>1 DEF StopCovers
  <2>2. CASE \E r \in Requests : Disconnect(r)
    <3>1. pc'[Worker] = pc[Worker] /\ stop' = stop /\ log' = log
      BY <2>2 DEF Disconnect, Goto, TypeOK
    <3> QED
      BY <3>1 DEF StopCovers, Covers, Unanswered, Refs
  <2> QED
    BY <1>4, <2>1, <2>2 DEF Fault
<1>5. CASE UNCHANGED vars
  BY <1>5 DEF vars, lane, StopCovers, Covers, Unanswered, Refs
<1> QED
  BY <1>2, <1>3, <1>4, <1>5 DEF Next, Rest

\* publishStatusIdle, "stop_reason": though the tools are read before they are
\* published, no custom tool use without a result is left out of a published stop
\* reason unless it names as many as it may, as long as the log is within the limit
\* of what is read.
THEOREM IdleNamesOpenTools == Spec => IdleCoversOpenTools
<1>1. Init => StopCovers
  BY ActorFacts DEF Init, StopCovers
<1>2. TypeOK /\ Locked /\ StopCovers /\ [Next]_vars => StopCovers'
  BY StopCoversStep
<1>3. StopCovers /\ [Next]_vars =>
        [(At(Worker, "idle_log") /\ log' # log /\ pc'[Worker] = "release"
            /\ Len(log) <= HistoryLimit)
           => Covers]_vars
  BY DEF StopCovers, At
<1> QED
  BY <1>1, <1>2, <1>3, TypedInvariant, PTL DEF Spec, IdleCoversOpenTools

-----------------------------------------------------------------------------
(***************************************************************************)
(* Behaviours in which nothing fails and no interrupt comes.               *)
(***************************************************************************)
Undisturbed == faults = 0 /\ \A r \in Interrupts : pc[r] = "new"

\* A turn that was announced has ended in the log or is the one in memory, with
\* its end before it, and what the last idle event said is in the row.
TurnsClose ==
  /\ ~ctxDone /\ pc[Worker] # "abort"
  /\ \A t \in Refs("turn_start") :
       \/ t \in Refs("turn_end")
       \/ t = active /\ pc[Worker] \in {"stream", "fail", "finish"}
RowSaid ==
  IF pc[Worker] = "idle_log"
  THEN hitl = stop
  ELSE \A i \in Idles : (\A j \in Idles : j <= i) => hitl = log[i].ref

\* Only inputs and the worker take steps then.
LEMMA UndisturbedSteps ==
  ASSUME TypeOK, [Next]_vars, Undisturbed, Undisturbed'
  PROVE  (\E r \in Inputs : Handle(r) \/ Serve(r)) \/ Work \/ UNCHANGED vars
<1> USE ActorFacts
<1>1. ASSUME NEW r \in Interrupts, IntHandle(r) \/ Interrupt(r)
      PROVE  FALSE
  <2>1. pc[r] = "new" /\ pc'[r] = "new"
    BY DEF Undisturbed
  <2>2. IntHandle(r)
    BY <1>1, <2>1 DEF Interrupt, IntList, IntCancel, IntLog, IntStop, IntDrain,
          IntDrained, IntRecover, IntEnd, IntClear, IntIdle, At
  <2> QED
    BY <2>1, <2>2 DEF IntHandle, Goto, TypeOK
<1>2. ~Fault
  BY DEF Fault, CrashAndRestart, SetupFails, Disconnect, Undisturbed
<1> QED
  BY <1>1, <1>2 DEF Next, Rest

\* The deferred end of a turn comes after its turn_end.
LEMMA TurnsCloseStep ==
  ASSUME TypeOK, Locked, [Next]_vars, Undisturbed, Undisturbed', TurnsClose
  PROVE  TurnsClose'
<1> USE ActorFacts
<1>1. /\ Refs("turn_end") \subseteq Refs("turn_end")'
      /\ ~Announce => Refs("turn_start")' = Refs("turn_start")
  BY GrowsWithout, ExtendsRefs DEF Refs
<1>2. log \in Seq(Events)
  BY DEF TypeOK
<1>3. CASE \E r \in Inputs : Handle(r) \/ Serve(r)
  <2>1. pc'[Worker] = pc[Worker] /\ active' = active
    BY <1>3, RequestSteps
  <2>2. ctxDone' = ctxDone
    BY <1>3 DEF Handle, Serve, Promote, Peek, PeekEmpty, PromoteAppend,
                PromoteFails, PromoteDelete, Insert, Choose, Send, lane
  <2>3. CASE Announce
    BY <2>1, <2>3 DEF Announce, Publish, Goto, At, TypeOK, TurnsClose
  <2> QED
    BY <1>1, <2>1, <2>2, <2>3 DEF TurnsClose
<1>4. CASE Promote(Worker)
  <2>1. /\ pc[Worker] \in {"peek", "append", "delete"}
        /\ pc'[Worker] \in {"peek", "append", "delete", "start", "recv"}
        /\ ctxDone' = ctxDone
    BY <1>4 DEF Promote, Peek, PeekEmpty, PromoteAppend, PromoteFails, PromoteDelete,
                AfterPromotion, At, Goto, lane, TypeOK
  <2> QED
    BY <1>1, <2>1 DEF TurnsClose, Announce, At
<1>5. CASE Receive \/ StartTurn \/ BeginTurn
  <2>1. /\ pc[Worker] \in {"recv", "start", "begin"}
        /\ pc'[Worker] \in {"peek", "begin", "history"}
        /\ ~ctxDone'
    BY <1>5 DEF Receive, StartTurn, BeginTurn, At, Goto, lane, TypeOK, TurnsClose
  <2> QED
    BY <1>1, <2>1 DEF TurnsClose, Announce, At
<1>6. CASE ReadHistory \/ LeaveTurn \/ Supervise
  <2>1. /\ pc[Worker] \in {"history", "endturn", "supervise"}
        /\ pc'[Worker] \in {"announce", "fail", "supervise", "idle_read", "release"}
        /\ ~ctxDone'
    BY <1>6 DEF ReadHistory, LeaveTurn, Supervise, At, Goto, lane, TypeOK, TurnsClose
  <2> QED
    BY <1>1, <2>1 DEF TurnsClose, Announce, At
<1>7. CASE IdleRead \/ IdleMeta \/ IdleLog \/ Release
  <2>1. /\ pc[Worker] \in {"idle_read", "idle_meta", "idle_log", "release"}
        /\ pc'[Worker] \in {"idle_meta", "idle_log", "release", "recv"}
        /\ ~ctxDone'
    BY <1>7 DEF IdleRead, IdleMeta, WriteHitl, IdleLog, Release, At, Goto, lane,
                TypeOK, TurnsClose
  <2> QED
    BY <1>1, <2>1 DEF TurnsClose, Announce, At
<1>8. CASE Emit \/ StreamEnds
  <2>1. /\ pc[Worker] = "stream"
        /\ pc'[Worker] \in {"stream", "fail", "finish"}
        /\ ~ctxDone' /\ active' = active
    BY <1>8 DEF Emit, StreamEnds, Publish, At, Goto, lane, TypeOK, TurnsClose
  <2> QED
    BY <1>1, <2>1 DEF TurnsClose, Announce, At
<1>9. CASE Announce
  <2> DEFINE e == Event("turn_start", active)
  <2>1. e \in Events /\ e.kind = "turn_start" /\ e.ref = active
    BY EventTyped DEF Event, TypeOK
  <2>2. /\ log' = Append(log, e) /\ pc'[Worker] = "stream"
        /\ pc[Worker] = "announce" /\ ~ctxDone' /\ active' = active
    BY <1>9 DEF Announce, Publish, At, Goto, lane, TypeOK, TurnsClose
  <2>3. Refs("turn_start")' = Refs("turn_start") \cup {active}
    BY <1>2, <2>1, <2>2, RefsAppend DEF Refs
  <2> QED
    BY <1>1, <2>2, <2>3 DEF TurnsClose
<1>10. CASE FailTurn \/ FinishTurn
  <2> DEFINE e == Event("error", active)
             f == Event("turn_end", active)
  <2>1. e \in Events /\ f \in Events /\ f.kind = "turn_end" /\ f.ref = active
    BY EventTyped DEF Event, TypeOK
  <2>2. /\ log' = Append(Append(log, e), f) \/ log' = Append(log, f)
        /\ pc[Worker] \in {"fail", "finish"} /\ pc'[Worker] = "endturn"
        /\ ~ctxDone' /\ active' = active
    BY <1>10 DEF FailTurn, FinishTurn, Publish, At, Goto, lane, TypeOK, TurnsClose
  <2> HIDE DEF e, f
  <2>3. PICK l \in Seq(Events) : log' = Append(l, f)
    <3>1. log \in Seq(Events)
      BY <1>2
    <3>2. Append(log, e) \in Seq(Events)
      BY <2>1, <3>1
    <3> QED
      BY <2>2, <3>1, <3>2
  <2>4. active \in Refs("turn_end")'
    BY <2>1, <2>3, RefsAppend DEF Refs
  <2> QED
    BY <1>1, <2>2, <2>4 DEF TurnsClose, Announce, At
<1>11. CASE UNCHANGED vars
  BY <1>11 DEF vars, lane, TurnsClose, Refs
<1> QED
  BY <1>3, <1>4, <1>5, <1>6, <1>7, <1>8, <1>9, <1>10, <1>11, UndisturbedSteps DEF Work

\* The row is written before the event, and nobody else writes either.
LEMMA RowSaidStep ==
  ASSUME TypeOK, Locked, [Next]_vars, Undisturbed, Undisturbed', RowSaid
  PROVE  RowSaid'
<1> USE ActorFacts
<1>1. CASE IdleLog
  <2>1. /\ log' = Append(log, Event("idle", stop)) /\ hitl' = hitl
        /\ pc[Worker] = "idle_log" /\ pc'[Worker] = "release"
        /\ Event("idle", stop) \in Events
    BY <1>1, EventTyped DEF IdleLog, At, Goto, TypeOK
  <2>2. /\ DOMAIN log' = DOMAIN log \cup {Len(log) + 1}
        /\ log'[Len(log) + 1] = Event("idle", stop)
        /\ \A i \in DOMAIN log : i < Len(log) + 1
        /\ Len(log) \in Nat /\ DOMAIN log \subseteq Nat
    BY <2>1 DEF TypeOK
  <2>3. Len(log) + 1 \in Idles'
    BY <2>2 DEF Idles, Event
  <2>4. \A i \in Idles' : (\A j \in Idles' : j <= i) => i = Len(log) + 1
    BY <2>2, <2>3 DEF Idles
  <2>5. hitl' = stop
    BY <2>1 DEF RowSaid
  <2> QED
    BY <2>1, <2>2, <2>4, <2>5 DEF RowSaid, Event
<1>2. CASE ~IdleLog
  <2>1. \A r \in Interrupts : ~IntLog(r) /\ ~IntIdle(r)
    BY DEF IntLog, IntIdle, At, Undisturbed
  <2>2. PICK S : Extends(log, log', S) /\ "idle" \notin S
    BY <1>2, <2>1, GrowsWithout
  <2>3. Idles' = Idles /\ \A i \in Idles : log'[i] = log[i]
    BY <2>2 DEF Extends, Idles
  <2>4. CASE IdleMeta
    <3>1. /\ hitl' = stop /\ stop' = stop /\ pc[Worker] = "idle_meta"
          /\ pc'[Worker] = "idle_log" \/ (pc'[Worker] = "release" /\ hitl = stop)
      BY <2>4 DEF IdleMeta, WriteHitl, At, Goto, lane, TypeOK
    <3> QED
      BY <2>3, <3>1 DEF RowSaid
  <2>5. CASE ~IdleMeta
    <3>1. hitl' = hitl /\ (pc[Worker] = "idle_log" <=> pc'[Worker] = "idle_log")
          /\ (pc[Worker] = "idle_log" => stop' = stop)
      <4>1. CASE \E r \in Inputs : Handle(r) \/ Serve(r)
        <5>1. hitl' = hitl
          BY <4>1 DEF Handle, Serve, Promote, Peek, PeekEmpty, PromoteAppend,
                      PromoteFails, PromoteDelete, Insert, Choose, Send
        <5> QED
          BY <4>1, <5>1, RequestSteps
      <4>2. CASE Promote(Worker) \/ Receive \/ StartTurn \/ BeginTurn \/ ReadHistory
        BY <4>2 DEF Promote, Peek, PeekEmpty, PromoteAppend, PromoteFails,
             PromoteDelete, At, AfterPromotion, Receive, StartTurn, BeginTurn, ReadHistory, Goto, TypeOK
      <4>3. CASE Announce \/ Emit \/ StreamEnds \/ FailTurn \/ FinishTurn
        BY <4>3 DEF Announce, Emit, StreamEnds, FailTurn, FinishTurn, Publish, Goto,
             At, TypeOK
      <4>4. CASE LeaveTurn \/ Supervise \/ IdleRead \/ Release
        BY <4>4 DEF LeaveTurn, Supervise, IdleRead, Release, Goto, At, TypeOK
      <4>5. CASE UNCHANGED vars
        BY <4>5 DEF vars, lane
      <4> QED
        BY <1>2, <2>5, <4>1, <4>2, <4>3, <4>4, <4>5, UndisturbedSteps DEF Work
    <3> QED
      BY <2>3, <3>1 DEF RowSaid
  <2> QED
    BY <2>4, <2>5
<1> QED
  BY <1>1, <1>2

\* machine.go, RunTurn without interrupts: as long as nothing fails, the log closes
\* its turns and its last word is the row's, whatever errors the harness returns.
THEOREM TurnsAreClosed == Spec /\ []Undisturbed => []LogClosesTurns
<1>1. Init => TurnsClose /\ RowSaid
  <2> SUFFICES ASSUME Init PROVE TurnsClose /\ RowSaid
    OBVIOUS
  <2>1. log = <<>> /\ pc[Worker] = "recv" /\ ~ctxDone
    BY ActorFacts DEF Init
  <2>2. Idles = {} /\ Refs("turn_start") = {}
    BY <2>1 DEF Idles, Refs, RefsIn
  <2> QED
    BY <2>1, <2>2 DEF TurnsClose, RowSaid
<1>2. TypeOK /\ Locked /\ TurnsClose /\ RowSaid /\ Undisturbed /\ Undisturbed'
      /\ [Next]_vars => TurnsClose' /\ RowSaid'
  BY TurnsCloseStep, RowSaidStep
<1>3. TurnsClose /\ RowSaid => LogClosesTurns
  BY DEF TurnsClose, RowSaid, LogClosesTurns, TurnsBracketed, RowMatchesLastIdle,
         AtRest, At
<1> QED
  BY <1>1, <1>2, <1>3, TypedInvariant, PTL DEF Spec

-----------------------------------------------------------------------------
(***************************************************************************)
(* The pending queue and the log.  What a step may do to the log:          *)
(***************************************************************************)
\* No input is stored twice in a log.
UserOnce(l) ==
  \A i, j \in DOMAIN l :
    (i # j /\ l[i].kind = "user" /\ l[j].kind = "user") => l[i].ref # l[j].ref

\* The events that store no input.
OtherKinds == {"tool_use", "tool_result", "turn_start", "turn_end", "error",
               "interrupt", "idle"}

\* m goes on from l without another input.
SameInputs(l, m) == Extends(l, m, OtherKinds)

\* Then it has the inputs of l, and each as often.
LEMMA SameInputsKeep ==
  ASSUME NEW l, NEW m, SameInputs(l, m)
  PROVE  /\ RefsIn(m, "user") = RefsIn(l, "user")
         /\ UserOnce(l) => UserOnce(m)
<1>1. RefsIn(m, "user") = RefsIn(l, "user")
  BY ExtendsRefs DEF SameInputs, OtherKinds
<1>2. UserOnce(l) => UserOnce(m)
  BY DEF SameInputs, Extends, OtherKinds, UserOnce
<1> QED
  BY <1>1, <1>2

\* Appending an input that is not there, or another event, keeps inputs unique.
LEMMA OnceAppend ==
  ASSUME NEW l \in Seq(Events), NEW e \in Events, UserOnce(l),
         e.kind = "user" => e.ref \notin RefsIn(l, "user")
  PROVE  UserOnce(Append(l, e))
<1> DEFINE m == Append(l, e)
<1>1. /\ DOMAIN m = DOMAIN l \cup {Len(l) + 1}
      /\ \A i \in DOMAIN l : m[i] = l[i]
      /\ m[Len(l) + 1] = e
  OBVIOUS
<1>2. \A i \in DOMAIN l : l[i].kind = "user" => l[i].ref \in RefsIn(l, "user")
  BY DEF RefsIn
<1> HIDE DEF m
<1>3. UserOnce(m)
  BY <1>1, <1>2 DEF UserOnce
<1> QED
  BY <1>3 DEF m

\* An event that is no input leaves the inputs of the log alone.
LEMMA OtherEvents ==
  ASSUME NEW l \in Seq(Events), NEW e \in Events, e.kind # "user"
  PROVE  SameInputs(l, Append(l, e))
<1>1. e.kind \in OtherKinds
  BY DEF Events, OtherKinds
<1> QED
  BY <1>1, ExtendsAppend DEF SameInputs

\* A promotion adds its input to the log, once if it was not there.
LEMMA PromotedInput ==
  ASSUME TypeOK, NEW m \in Inputs \ Malformed
  PROVE  /\ RefsIn(Promoted(log, m), "user") = Logged \cup {m}
         /\ UserOnce(log) /\ m \notin Logged => UserOnce(Promoted(log, m))
<1> DEFINE l == Append(log, Event("user", m))
<1>1. Event("user", m) \in Events /\ Event("user", m).kind = "user"
      /\ Event("user", m).ref = m
  BY EventTyped DEF Event
<1>2. log \in Seq(Events) /\ l \in Seq(Events)
  BY <1>1 DEF TypeOK
<1>3. /\ RefsIn(l, "user") = Logged \cup {m}
      /\ UserOnce(log) /\ m \notin Logged => UserOnce(l)
  BY <1>1, <1>2, RefsAppend, OnceAppend DEF Logged, Refs
<1>4. CASE m \in Results
  <2> DEFINE e == Event("tool_result", answers[m])
  <2>1. e \in Events /\ e.kind # "user"
    BY <1>4, EventTyped DEF Event, TypeOK, Malformed
  <2>2. SameInputs(l, Append(l, e))
    BY <1>2, <2>1, OtherEvents
  <2> QED
    BY <1>3, <1>4, <2>2, SameInputsKeep DEF Promoted
<1>5. CASE m \notin Results
  BY <1>3, <1>5 DEF Promoted
<1> QED
  BY <1>4, <1>5

-----------------------------------------------------------------------------
(***************************************************************************)
(* The inductive invariant of the queue.                                   *)
(***************************************************************************)
\* pending_seq names a row, and an input has one row.
Keyed ==
  \A p, q \in pending : p.seq = q.seq \/ p.msg = q.msg => p = q

\* The holder of appendMu holds a row that is still there, cancelled or not,
\* and which is in the log when only the delete is left.
HeldRow ==
  lock # None =>
    /\ \E q \in pending : q.seq = held.seq /\ q.msg = held.msg
    /\ pc[lock] = "delete" => held.msg \in Logged

\* A request that has not queued its input yet has left no trace of it.
Fresh ==
  \A r \in Inputs : pc[r] \in {"new", "insert"} =>
    r \notin Logged /\ \A q \in pending : q.msg # r

\* Without faults a row whose input is in the log is about to be deleted.
LoggedRowLeaves ==
  faults = 0 =>
    \A q \in pending : q.msg \in Logged =>
      lock # None /\ pc[lock] = "delete" /\ held.seq = q.seq

QueueInv ==
  /\ Keyed /\ HeldRow /\ Fresh /\ LoggedRowLeaves
  /\ NoInputLost /\ NoDuplicatePromotion

\* A step of goroutine a that touches neither the queue nor the inputs.
Quiet(a) ==
  /\ pc[a] \notin {"append", "delete"}
  /\ \E l : /\ Goto(a, l)
            /\ l \notin {"append", "delete", "new"}
            /\ l = "insert" => pc[a] = "new"
  /\ UNCHANGED <<pending, lock, held, accepted, faults>>
  /\ SameInputs(log, log')

\* Such a step keeps the invariant.
LEMMA QuietKeeps ==
  ASSUME TypeOK, Locked, QueueInv, NEW a \in Actors, Quiet(a)
  PROVE  QueueInv'
<1> USE ActorFacts
<1>1. /\ Logged' = Logged
      /\ UserOnce(log) => UserOnce(log')
      /\ UNCHANGED <<pending, lock, held, accepted, faults>>
  BY SameInputsKeep DEF Quiet, Logged, Refs
<1>2. lock # None => lock \in Actors /\ pc'[lock] = pc[lock]
  BY DEF Quiet, Goto, Locked, TypeOK
<1>3. \A r \in Inputs : pc'[r] \in {"new", "insert"} => pc[r] \in {"new", "insert"}
  BY DEF Quiet, Goto, TypeOK
<1>4. Keyed' /\ HeldRow'
  BY <1>1, <1>2 DEF QueueInv, Keyed, HeldRow
<1>5. Fresh'
  BY <1>1, <1>3 DEF QueueInv, Fresh
<1>6. LoggedRowLeaves'
  BY <1>1, <1>2 DEF QueueInv, LoggedRowLeaves
<1>7. NoInputLost'
  BY <1>1 DEF QueueInv, NoInputLost
<1>8. NoDuplicatePromotion'
  BY <1>1 DEF QueueInv, NoDuplicatePromotion, UserOnce
<1> QED
  BY <1>4, <1>5, <1>6, <1>7, <1>8 DEF QueueInv

\* Most steps of the requests are quiet.
LEMMA QuietRequests ==
  ASSUME TypeOK
  PROVE  /\ \A r \in Inputs : Handle(r) \/ Choose(r) \/ Send(r) => Quiet(r)
         /\ \A r \in Interrupts :
              \/ IntHandle(r) \/ IntList(r) \/ IntLog(r) \/ IntStop(r) \/ IntDrain(r)
              \/ IntDrained(r) \/ IntRecover(r) \/ IntEnd(r) \/ IntClear(r) \/ IntIdle(r)
              => Quiet(r)
<1>1. SameInputs(log, log)
  BY ExtendsSelf DEF SameInputs, TypeOK
<1>2. ASSUME NEW r \in Inputs, Handle(r) \/ Choose(r) \/ Send(r)
      PROVE  Quiet(r)
  BY <1>1, <1>2 DEF Handle, Choose, Send, Quiet, At, Goto, lane, history
<1>3. ASSUME NEW r \in Interrupts, IntLog(r) \/ IntIdle(r)
      PROVE  Quiet(r)
  <2>1. SameInputs(log, log')
    BY <1>3, EventTyped, OtherEvents DEF IntLog, IntIdle, Event, TypeOK
  <2> QED
    BY <1>3, <2>1 DEF IntLog, IntIdle, Quiet, At, Goto, lane, history
<1>4. ASSUME NEW r \in Interrupts,
             \/ IntHandle(r) \/ IntList(r) \/ IntStop(r) \/ IntDrained(r)
             \/ IntRecover(r) \/ IntEnd(r) \/ IntClear(r)
      PROVE  Quiet(r)
  <2>1. CASE IntHandle(r) \/ IntList(r) \/ IntStop(r)
    BY <1>1, <2>1 DEF IntHandle, IntList, IntStop, Quiet, At, Goto, lane, history
  <2>2. CASE IntDrained(r) \/ IntRecover(r) \/ IntEnd(r)
    BY <1>1, <2>2 DEF IntDrained, IntRecover, IntEnd, Quiet, At, Goto, lane, history
  <2>3. CASE IntClear(r)
    BY <1>1, <2>3 DEF IntClear, WriteHitl, Quiet, At, Goto, lane, history
  <2> QED
    BY <1>4, <2>1, <2>2, <2>3
<1>5. ASSUME NEW r \in Interrupts, IntDrain(r)
      PROVE  Quiet(r)
  <2>1. pc[r] = "drain" /\ Goto(r, "drain")
    BY <1>5 DEF IntDrain, At, Goto, TypeOK
  <2> QED
    BY <1>1, <1>5, <2>1 DEF IntDrain, Quiet, history
<1> QED
  BY <1>2, <1>3, <1>4, <1>5

\* Every step of the worker outside a promotion is quiet.
LEMMA QuietWork ==
  ASSUME TypeOK, Work, ~Promote(Worker)
  PROVE  Quiet(Worker)
<1>1. SameInputs(log, log)
  BY ExtendsSelf DEF SameInputs, TypeOK
<1>2. CASE Receive \/ StartTurn \/ BeginTurn
  BY <1>1, <1>2 DEF Receive, StartTurn, BeginTurn, Quiet, At, Goto, lane, history
<1>3. CASE ReadHistory \/ StreamEnds
  BY <1>1, <1>3 DEF ReadHistory, StreamEnds, Quiet, At, Goto, lane, history
<1>4. CASE LeaveTurn \/ Supervise \/ IdleRead \/ IdleMeta \/ Release
  BY <1>1, <1>4 DEF LeaveTurn, Supervise, IdleRead, IdleMeta, WriteHitl, Release,
                    Quiet, At, Goto, lane, history
<1>5. CASE Announce \/ Emit \/ FinishTurn
  <2>1. SameInputs(log, log')
    BY <1>1, <1>5, EventTyped, OtherEvents
       DEF Announce, Emit, FinishTurn, Publish, Event, TypeOK
  <2> QED
    BY <1>5, <2>1 DEF Announce, Emit, FinishTurn, Publish, Quiet, At, Goto,
                      lane, history
<1>6. CASE FailTurn
  <2> DEFINE l == Append(log, Event("error", active))
  <2>0. /\ Event("error", active) \in Events
        /\ Event("turn_end", active) \in Events
        /\ Event("error", active).kind # "user"
        /\ Event("turn_end", active).kind # "user"
        /\ log \in Seq(Events)
    BY EventTyped DEF Event, TypeOK
  <2>1. l \in Seq(Events) /\ SameInputs(log, l)
    BY <2>0, OtherEvents
  <2>2. SameInputs(l, Append(l, Event("turn_end", active)))
    BY <2>0, <2>1, OtherEvents
  <2>3. SameInputs(log, Append(l, Event("turn_end", active)))
    <3> DEFINE m == Append(l, Event("turn_end", active))
    <3>1. m \in Seq(Events)
      BY <2>0, <2>1
    <3> HIDE DEF l, m
    <3>2. SameInputs(l, m)
      BY <2>2 DEF m
    <3>3. SameInputs(log, m)
      BY <2>0, <2>1, <3>1, <3>2, ExtendsTwice DEF SameInputs
    <3> QED
      BY <3>3 DEF m
  <2>4. SameInputs(log, log')
    BY <1>1, <1>6, <2>3 DEF FailTurn, Publish
  <2> QED
    BY <1>6, <2>4 DEF FailTurn, Publish, Quiet, At, Goto, lane, history
<1>7. CASE IdleLog
  <2>1. SameInputs(log, log')
    BY <1>7, EventTyped, OtherEvents DEF IdleLog, Event, TypeOK
  <2>2. pc[Worker] = "idle_log" /\ Goto(Worker, "release")
        /\ UNCHANGED <<pending, lock, held, accepted, faults>>
    BY <1>7 DEF IdleLog, At, lane, history
  <2> QED
    BY <2>1, <2>2 DEF Quiet
<1> QED
  BY <1>2, <1>3, <1>4, <1>5, <1>6, <1>7 DEF Work

\* A promotion keeps the queue and the log in step.
LEMMA PromoteKeeps ==
  ASSUME TypeOK, Locked, QueueInv, NEW a \in Actors, Promote(a)
  PROVE  QueueInv'
<1> USE ActorFacts DEF Goto, At
<1>1. CASE PeekEmpty(a)
  <2>1. AfterPromotion(a) \notin {"append", "delete", "new", "insert"}
    BY DEF AfterPromotion
  <2>2. SameInputs(log, log')
    BY <1>1, ExtendsSelf DEF PeekEmpty, SameInputs, TypeOK
  <2>3. Quiet(a)
    BY <1>1, <2>1, <2>2 DEF PeekEmpty, Quiet, lane, history
  <2> QED
    BY <2>3, QuietKeeps
<1>2. CASE Peek(a)
  <2>1. held' \in pending
    BY <1>2 DEF Peek, Live
  <2>2. UNCHANGED <<pending, log, accepted, faults>> /\ pc' = [pc EXCEPT ![a] = "append"]
        /\ lock = None /\ lock' = a
    BY <1>2 DEF Peek, history
  <2>3. Keyed' /\ Fresh' /\ NoInputLost' /\ NoDuplicatePromotion'
    BY <2>2 DEF QueueInv, Keyed, Fresh, NoInputLost, NoDuplicatePromotion,
                Logged, Refs, TypeOK
  <2>4. HeldRow' /\ LoggedRowLeaves'
    BY <2>1, <2>2 DEF QueueInv, HeldRow, LoggedRowLeaves, Logged, Refs, TypeOK
  <2> QED
    BY <2>3, <2>4 DEF QueueInv
<1>3. CASE PromoteAppend(a)
  <2>1. /\ lock = a /\ held \in Rows /\ held.msg \in Inputs \ Malformed
        /\ \E q \in pending : q.seq = held.seq /\ q.msg = held.msg
    BY <1>3 DEF PromoteAppend, Locked, QueueInv, HeldRow, Rows
  <2>2. UNCHANGED <<pending, lock, held, accepted, faults>>
        /\ pc' = [pc EXCEPT ![a] = "delete"] /\ pc[a] = "append"
    BY <1>3 DEF PromoteAppend, lane, history
  <2>3. Logged' = Logged \cup {held.msg}
    BY <1>3, <2>1, PromotedInput DEF PromoteAppend, Logged, Refs
  <2>4. faults = 0 => held.msg \notin Logged
    BY <2>1, <2>2 DEF QueueInv, LoggedRowLeaves
  <2>5. Keyed' /\ NoInputLost'
    BY <2>2, <2>3 DEF QueueInv, Keyed, NoInputLost
  <2>6. HeldRow'
    BY <2>1, <2>2, <2>3 DEF HeldRow, TypeOK
  <2>7. Fresh'
    BY <2>1, <2>2, <2>3 DEF QueueInv, Fresh, TypeOK
  <2>8. LoggedRowLeaves'
    BY <2>1, <2>2, <2>3 DEF QueueInv, LoggedRowLeaves, Keyed, TypeOK
  <2>9. NoDuplicatePromotion'
    <3>1. UserOnce(log) /\ held.msg \notin Logged => UserOnce(log')
      BY <1>3, <2>1, PromotedInput DEF PromoteAppend
    <3> QED
      BY <2>2, <2>4, <3>1 DEF QueueInv, NoDuplicatePromotion, UserOnce
  <2> QED
    BY <2>5, <2>6, <2>7, <2>8, <2>9 DEF QueueInv
<1>4. CASE PromoteDelete(a)
  <2>1. /\ lock = a /\ lock' = None
        /\ UNCHANGED <<log, accepted, faults>>
        /\ pc[a] = "delete" /\ pc' = [pc EXCEPT ![a] = "peek"]
        /\ pending' = {r \in pending : r.seq # held.seq}
    BY <1>4 DEF PromoteDelete, Locked, history
  <2>2. Logged' = Logged
    BY <2>1 DEF Logged, Refs
  <2>3. \A q \in pending : q.seq = held.seq => q.msg \in Logged
    BY <2>1 DEF QueueInv, HeldRow, Keyed
  <2>4. Keyed' /\ HeldRow'
    BY <2>1 DEF QueueInv, Keyed, HeldRow
  <2>5. Fresh'
    BY <2>1, <2>2 DEF QueueInv, Fresh, TypeOK
  <2>6. LoggedRowLeaves' /\ NoDuplicatePromotion'
    BY <2>1, <2>2 DEF QueueInv, LoggedRowLeaves, NoDuplicatePromotion
  <2>7. NoInputLost'
    BY <2>1, <2>2, <2>3 DEF QueueInv, NoInputLost
  <2> QED
    BY <2>4, <2>5, <2>6, <2>7 DEF QueueInv
<1>5. CASE PromoteFails(a)
  <2>1. /\ lock = a /\ lock' = None
        /\ UNCHANGED <<pending, log, accepted, faults>>
        /\ pc[a] = "append"
        /\ \E l \in {"recv", "failed"} : pc' = [pc EXCEPT ![a] = l]
    BY <1>5 DEF PromoteFails, Locked, history
  <2>2. Logged' = Logged
    BY <2>1 DEF Logged, Refs
  <2>3. Keyed' /\ HeldRow' /\ NoInputLost' /\ NoDuplicatePromotion'
    BY <2>1, <2>2 DEF QueueInv, Keyed, HeldRow, NoInputLost, NoDuplicatePromotion
  <2>4. Fresh'
    BY <2>1, <2>2 DEF QueueInv, Fresh, TypeOK
  <2>5. LoggedRowLeaves'
    BY <2>1, <2>2 DEF QueueInv, LoggedRowLeaves
  <2> QED
    BY <2>3, <2>4, <2>5 DEF QueueInv
<1> QED
  BY <1>1, <1>2, <1>3, <1>4, <1>5 DEF Promote

\* A new row has a key and an input of its own.
LEMMA InsertKeeps ==
  ASSUME TypeOK, Locked, QueueInv, NEW r \in Inputs, Insert(r)
  PROVE  QueueInv'
<1> USE ActorFacts
<1>1. PICK top \in {0} \cup {q.seq : q \in pending} :
        /\ \A q \in pending : q.seq <= top
        /\ pending' = pending \cup {[seq |-> top + 1, msg |-> r,
                                     thread |-> ThreadOf[r],
                                     cancelled |-> FALSE]}
  BY DEF Insert
<1> DEFINE new == [seq |-> top + 1, msg |-> r, thread |-> ThreadOf[r],
                   cancelled |-> FALSE]
<1>2. pending' = pending \cup {new} /\ new.msg = r
  BY <1>1
<1>3. \A q \in pending : q.seq # new.seq
  <2>1. top \in Nat /\ \A q \in pending : q.seq \in Nat
    BY DEF TypeOK, Rows
  <2> QED
    BY <1>1, <2>1
<1> HIDE DEF new
<1>4. r \notin Logged /\ \A q \in pending : q.msg # r
  BY DEF Insert, At, QueueInv, Fresh
<1>5. /\ UNCHANGED <<log, lock, held, faults>> /\ accepted' = Append(accepted, r)
      /\ pc[r] = "insert" /\ pc' = [pc EXCEPT ![r] = "choose"]
  BY DEF Insert, At, Goto, lane
<1>6. Logged' = Logged
  BY <1>5 DEF Logged, Refs
<1>7. lock # r
  BY <1>5 DEF Locked
<1>8. Keyed'
  BY <1>2, <1>3, <1>4 DEF QueueInv, Keyed
<1>9. HeldRow' /\ LoggedRowLeaves'
  BY <1>2, <1>4, <1>5, <1>6, <1>7 DEF QueueInv, HeldRow, LoggedRowLeaves, TypeOK
<1>10. Fresh'
  BY <1>2, <1>5, <1>6 DEF QueueInv, Fresh, TypeOK
<1>11. NoInputLost'
  <2>1. \A i \in DOMAIN accepted' :
          accepted'[i] = r \/ (i \in DOMAIN accepted /\ accepted'[i] = accepted[i])
    BY <1>5 DEF TypeOK
  <2> QED
    BY <1>2, <1>6, <2>1 DEF QueueInv, NoInputLost
<1>12. NoDuplicatePromotion'
  BY <1>5 DEF QueueInv, NoDuplicatePromotion
<1> QED
  BY <1>8, <1>9, <1>10, <1>11, <1>12 DEF QueueInv

\* Cancelling rows keeps their keys and inputs.
LEMMA CancelKeeps ==
  ASSUME TypeOK, Locked, QueueInv, NEW r \in Interrupts, IntCancel(r)
  PROVE  QueueInv'
<1> USE ActorFacts
<1> DEFINE hit == Live(ThreadOf[r])
           stamp(q) == [q EXCEPT !.cancelled = TRUE]
<1>1. \A q \in pending : stamp(q).seq = q.seq /\ stamp(q).msg = q.msg
  BY DEF TypeOK, Rows
<1>2. pending' = (pending \ hit) \cup {stamp(q) : q \in hit} /\ hit \subseteq pending
  BY DEF IntCancel, Live
<1>3. /\ UNCHANGED <<log, lock, held, accepted, faults>>
      /\ pc[r] = "cancel" /\ pc' = [pc EXCEPT ![r] = "log"]
  BY DEF IntCancel, At, Goto, lane, history
<1> HIDE DEF hit, stamp
<1>4. \A p \in pending' : \E q \in pending :
        /\ p.seq = q.seq /\ p.msg = q.msg
        /\ p = IF q \in hit THEN stamp(q) ELSE q
  BY <1>1, <1>2
<1>5. \A q \in pending : \E p \in pending' : p.seq = q.seq /\ p.msg = q.msg
  BY <1>1, <1>2
<1>6. Logged' = Logged
  BY <1>3 DEF Logged, Refs
<1>7. lock # None => pc'[lock] = pc[lock]
  BY <1>3 DEF Locked, TypeOK
<1>8. Keyed'
  BY <1>4 DEF QueueInv, Keyed
<1>9. HeldRow' /\ LoggedRowLeaves'
  <2>1. HeldRow'
    BY <1>3, <1>5, <1>6, <1>7 DEF QueueInv, HeldRow
  <2>2. LoggedRowLeaves'
    BY <1>3, <1>4, <1>6, <1>7 DEF QueueInv, LoggedRowLeaves
  <2> QED
    BY <2>1, <2>2
<1>10. Fresh'
  <2>1. \A m \in Inputs : pc'[m] \in {"new", "insert"} => pc[m] \in {"new", "insert"}
    BY <1>3 DEF TypeOK
  <2>2. \A m \in Inputs :
           pc[m] \in {"new", "insert"} => m \notin Logged /\ \A q \in pending : q.msg # m
    BY DEF QueueInv, Fresh
  <2> QED
    BY <1>4, <1>6, <2>1, <2>2 DEF Fresh
<1>11. NoInputLost'
  BY <1>3, <1>5, <1>6 DEF QueueInv, NoInputLost
<1>12. NoDuplicatePromotion'
  BY <1>3 DEF QueueInv, NoDuplicatePromotion
<1> QED
  BY <1>8, <1>9, <1>10, <1>11, <1>12 DEF QueueInv

\* A fault brings no request back to where it has not queued its input, and
\* leaves the holder of appendMu alone or takes it away.
LEMMA FaultSpares ==
  ASSUME TypeOK, Locked, Fault
  PROVE  /\ \A r \in Inputs : pc'[r] \in {"new", "insert"} => pc[r] \in {"new", "insert"}
         /\ lock' # None => lock' = lock /\ held' = held /\ pc'[lock] = pc[lock]
         /\ UNCHANGED <<lock, held>> \/ held' = None
<1> USE ActorFacts
<1>1. \A r \in Inputs : pc'[r] \in {"new", "insert"} => pc[r] \in {"new", "insert"}
  <2>1. CASE CrashAndRestart
    BY <2>1 DEF CrashAndRestart, TypeOK
  <2>2. CASE SetupFails
    BY <2>2 DEF SetupFails, Goto, TypeOK
  <2>3. CASE \E r \in Requests : Disconnect(r)
    BY <2>3 DEF Disconnect, Goto, TypeOK
  <2> QED
    BY <2>1, <2>2, <2>3 DEF Fault
<1>2. lock' # None => lock' = lock /\ held' = held /\ pc'[lock] = pc[lock]
  <2>1. CASE CrashAndRestart
    BY <2>1 DEF CrashAndRestart
  <2>2. CASE SetupFails
    BY <2>2 DEF SetupFails, At, Goto, Locked, TypeOK, lane
  <2>3. CASE \E r \in Requests : Disconnect(r)
    BY <2>3 DEF Disconnect, Goto, TypeOK
  <2> QED
    BY <2>1, <2>2, <2>3 DEF Fault
<1>3. UNCHANGED <<lock, held>> \/ held' = None
  BY DEF Fault, CrashAndRestart, SetupFails, Disconnect, lane
<1> QED
  BY <1>1, <1>2, <1>3

\* A fault loses memory, never a row or an event; after one, a row may stay
\* behind whose input is in the log.
LEMMA FaultKeeps ==
  ASSUME TypeOK, Locked, QueueInv, Fault
  PROVE  QueueInv'
<1> USE ActorFacts
<1>1. faults' # 0 /\ UNCHANGED <<pending, log, accepted>>
  BY DEF Fault, CrashAndRestart, SetupFails, Disconnect, TypeOK
<1>2. Logged' = Logged
  BY <1>1 DEF Logged, Refs
<1>3. /\ \A r \in Inputs : pc'[r] \in {"new", "insert"} => pc[r] \in {"new", "insert"}
      /\ lock' # None => lock' = lock /\ held' = held /\ pc'[lock] = pc[lock]
  BY FaultSpares
<1>5. Keyed' /\ Fresh' /\ NoInputLost'
  BY <1>1, <1>2, <1>3 DEF QueueInv, Keyed, Fresh, NoInputLost
<1>6. HeldRow'
  BY <1>1, <1>2, <1>3 DEF QueueInv, HeldRow
<1>7. LoggedRowLeaves' /\ NoDuplicatePromotion'
  BY <1>1 DEF LoggedRowLeaves, NoDuplicatePromotion
<1> QED
  BY <1>5, <1>6, <1>7 DEF QueueInv

\* The queue's invariant holds in every reachable state.
LEMMA QueueInvariant == Spec => []QueueInv
<1>1. Init => QueueInv
  <2> SUFFICES ASSUME Init PROVE QueueInv
    OBVIOUS
  <2>1. pending = {} /\ log = <<>> /\ accepted = <<>> /\ lock = None
    BY DEF Init
  <2>2. Logged = {}
    BY <2>1 DEF Logged, Refs, RefsIn
  <2> QED
    BY <2>1, <2>2 DEF QueueInv, Keyed, HeldRow, Fresh, LoggedRowLeaves,
                      NoInputLost, NoDuplicatePromotion
<1>2. TypeOK /\ Locked /\ QueueInv /\ [Next]_vars => QueueInv'
  <2> SUFFICES ASSUME TypeOK, Locked, QueueInv, [Next]_vars
               PROVE  QueueInv'
    OBVIOUS
  <2>1. CASE \E r \in Inputs : Handle(r) \/ Serve(r)
    BY <2>1, QuietRequests, QuietKeeps, PromoteKeeps, InsertKeeps, ActorFacts
       DEF Serve
  <2>2. CASE \E r \in Interrupts : IntHandle(r) \/ Interrupt(r)
    BY <2>2, QuietRequests, QuietKeeps, CancelKeeps, ActorFacts DEF Interrupt
  <2>3. CASE Work
    BY <2>3, QuietWork, QuietKeeps, PromoteKeeps, ActorFacts
  <2>4. CASE Fault
    BY <2>4, FaultKeeps
  <2>5. CASE UNCHANGED vars
    BY <2>5 DEF QueueInv, Keyed, HeldRow, Fresh, LoggedRowLeaves, NoInputLost,
                NoDuplicatePromotion, Logged, Refs, vars, lane, history
  <2> QED
    BY <2>1, <2>2, <2>3, <2>4, <2>5 DEF Next, Rest
<1> QED
  BY <1>1, <1>2, TypedInvariant, PTL DEF Spec

\* A queued input is in the log or still has its row, across promotions by the
\* worker and by requests, cancellations, disconnects and crashes.
THEOREM InputsAreKept == Spec => []NoInputLost
<1>1. QueueInv => NoInputLost
  BY DEF QueueInv
<1> QED
  BY <1>1, QueueInvariant, PTL

\* While nothing fails, no input is promoted twice, although the worker and
\* the requests promote the same queue concurrently.
THEOREM PromotedAtMostOnce == Spec => []NoDuplicatePromotion
<1>1. QueueInv => NoDuplicatePromotion
  BY DEF QueueInv
<1> QED
  BY <1>1, QueueInvariant, PTL

-----------------------------------------------------------------------------
(***************************************************************************)
(* The order of the queue.  pending_seq is reused after a delete, so only  *)
(* the rows that are there together are in the order they were queued.     *)
(***************************************************************************)
\* The accepted inputs i and j are of one thread, and i was queued first.
Earlier(i, j) == i < j /\ ThreadOf[accepted[i]] = ThreadOf[accepted[j]]

\* Where the log stores an input, and whether an interrupt stamped its row.
StoredAt(m)  == {k \in DOMAIN log : log[k] = Event("user", m)}
Cancelled(m) == \E r \in pending : r.msg = m /\ r.cancelled

\* An input is queued once, by a request that has come that far.
AcceptedOnce ==
  /\ \A i, j \in DOMAIN accepted : accepted[i] = accepted[j] => i = j
  /\ \A r \in Inputs : pc[r] \in {"new", "insert"} =>
       \A i \in DOMAIN accepted : accepted[i] # r

\* Every row is that of an accepted input, on the input's thread.
RowsAccepted ==
  \A q \in pending : /\ q.thread = ThreadOf[q.msg]
                     /\ \E i \in DOMAIN accepted : accepted[i] = q.msg

RowsInOrder ==
  \A i, j \in DOMAIN accepted : i < j =>
    \A p, q \in pending :
      p.msg = accepted[i] /\ q.msg = accepted[j] => p.seq < q.seq

\* What is about to be appended is the next of its thread.
OldestHeld ==
  lock # None /\ pc[lock] = "append" =>
    \A i, j \in DOMAIN accepted :
      Earlier(i, j) /\ accepted[j] = held.msg =>
        accepted[i] \in Logged \/ Cancelled(accepted[i])

\* The row that is about to be deleted is not the reason that it was overtaken.
HeldNotOvertaken ==
  lock # None =>
    \A i, j \in DOMAIN accepted :
      Earlier(i, j) /\ accepted[i] = held.msg =>
        \A k \in StoredAt(accepted[j]) : \E h \in StoredAt(accepted[i]) : h <= k

StoredInOrder ==
  \A i, j \in DOMAIN accepted : Earlier(i, j) =>
    \A k \in StoredAt(accepted[j]) :
      (\E h \in StoredAt(accepted[i]) : h <= k) \/ Cancelled(accepted[i])

\* appendMu and the row that was peeked under it are given back together.
NoneHeld == lock = None => held = None

OrderInv ==
  /\ NoneHeld /\ AcceptedOnce /\ RowsAccepted /\ RowsInOrder
  /\ OldestHeld /\ HeldNotOvertaken /\ StoredInOrder

LEMMA AcceptedTyped ==
  ASSUME TypeOK
  PROVE  /\ DOMAIN accepted = 1..Len(accepted) /\ Len(accepted) \in Nat
         /\ \A i \in DOMAIN accepted : accepted[i] \in Inputs
BY DEF TypeOK

\* An input is in the log exactly if it is stored somewhere.
LEMMA StoredLogged ==
  ASSUME TypeOK, NEW m
  PROVE  m \in Logged <=> StoredAt(m) # {}
<1>1. ASSUME NEW k \in DOMAIN log, log[k].kind = "user", log[k].ref = m
      PROVE  log[k] = Event("user", m)
  <2>1. log[k] \in Events
    BY DEF TypeOK
  <2>2. log[k] \in [kind : {"user"}, ref : Inputs]
    BY <1>1, <2>1 DEF Events
  <2> QED
    BY <1>1, <2>2 DEF Event
<1>2. m \in Logged => StoredAt(m) # {}
  BY <1>1 DEF Logged, Refs, RefsIn, StoredAt
<1>3. StoredAt(m) # {} => m \in Logged
  BY DEF Logged, Refs, RefsIn, StoredAt, Event
<1> QED
  BY <1>2, <1>3

\* Other events leave the stored inputs where they are.
LEMMA StoredKept ==
  ASSUME SameInputs(log, log')
  PROVE  \A m : StoredAt(m)' = StoredAt(m)
BY DEF SameInputs, Extends, OtherKinds, StoredAt, Event

\* A promotion stores its input behind everything else.
LEMMA StoredPromoted ==
  ASSUME TypeOK, NEW m \in Inputs \ Malformed, log' = Promoted(log, m), NEW x
  PROVE  \A k \in StoredAt(x)' :
           k \in StoredAt(x) \/ (x = m /\ \A h \in DOMAIN log : h <= k)
<1> SUFFICES ASSUME NEW k \in StoredAt(x)', k \notin StoredAt(x)
             PROVE  x = m /\ \A h \in DOMAIN log : h <= k
  OBVIOUS
<1>1. log \in Seq(Events)
  BY DEF TypeOK
<1> DEFINE e == Event("user", m)
<1>2. e \in Events /\ e.kind = "user" /\ e.ref = m
  BY EventTyped DEF Event
<1>3. Extends(log, log', {"user", "tool_result"})
  BY PromotedExtends
<1>4. k \in DOMAIN log' /\ log'[k] = Event("user", x)
  BY DEF StoredAt
<1>5. k \notin DOMAIN log
  BY <1>3, <1>4 DEF Extends, StoredAt
<1>6. /\ DOMAIN log = 1..Len(log) /\ Len(log) \in Nat
      /\ Append(log, e) \in Seq(Events)
      /\ Len(Append(log, e)) = Len(log) + 1
      /\ Append(log, e)[Len(log) + 1] = e
  BY <1>1, <1>2
<1>7. CASE m \in Results
  <2> DEFINE l == Append(log, e)
             f == Event("tool_result", answers[m])
  <2>1. log' = Append(l, f) /\ f.kind = "tool_result" /\ f \in Events
    BY <1>7, EventTyped DEF Promoted, Event, TypeOK, Malformed
  <2> HIDE DEF e, l, f
  <2>2. l \in Seq(Events) /\ Len(l) = Len(log) + 1 /\ l[Len(log) + 1] = e
    BY <1>6 DEF l
  <2>3. /\ DOMAIN log' = 1..(Len(log) + 2)
        /\ log'[Len(log) + 1] = e /\ log'[Len(log) + 2] = f
    BY <1>6, <2>1, <2>2
  <2>4. k = Len(log) + 1 \/ k = Len(log) + 2
    BY <1>4, <1>5, <1>6, <2>3
  <2>5. k # Len(log) + 2
    BY <1>4, <2>1, <2>3 DEF Event
  <2>6. x = m
    BY <1>2, <1>4, <2>3, <2>4, <2>5 DEF Event
  <2> QED
    BY <1>6, <2>4, <2>6
<1>8. CASE m \notin Results
  <2>1. log' = Append(log, e)
    BY <1>8 DEF Promoted
  <2> HIDE DEF e
  <2>2. DOMAIN log' = 1..(Len(log) + 1) /\ log'[Len(log) + 1] = e
    BY <1>1, <2>1
  <2>3. k = Len(log) + 1
    BY <1>4, <1>5, <1>6, <2>2
  <2>4. x = m
    BY <1>2, <1>4, <2>2, <2>3 DEF Event
  <2> QED
    BY <1>6, <2>3, <2>4
<1> QED
  BY <1>7, <1>8

\* What is stored stays stored.
LEMMA StoredStays ==
  ASSUME NEW S, Extends(log, log', S), NEW m
  PROVE  StoredAt(m) \subseteq StoredAt(m)'
BY DEF Extends, StoredAt

\* A quiet step keeps the order.
LEMMA QuietOrder ==
  ASSUME TypeOK, Locked, OrderInv, NEW a \in Actors, Quiet(a)
  PROVE  OrderInv'
<1> USE ActorFacts
<1>1. /\ UNCHANGED <<pending, lock, held, accepted>>
      /\ Logged' = Logged
      /\ \A m : StoredAt(m)' = StoredAt(m)
      /\ \A m : Cancelled(m)' = Cancelled(m)
  BY SameInputsKeep, StoredKept DEF Quiet, Logged, Refs, Cancelled
<1>2. lock # None => lock \in Actors /\ pc'[lock] = pc[lock]
  BY DEF Quiet, Goto, Locked, TypeOK
<1>3. \A r \in Inputs : pc'[r] \in {"new", "insert"} => pc[r] \in {"new", "insert"}
  BY DEF Quiet, Goto, TypeOK
<1>4. NoneHeld' /\ AcceptedOnce' /\ RowsAccepted' /\ RowsInOrder'
  BY <1>1, <1>3 DEF OrderInv, NoneHeld, AcceptedOnce, RowsAccepted, RowsInOrder
<1>5. OldestHeld'
  BY <1>1, <1>2 DEF OrderInv, OldestHeld, Earlier
<1>6. HeldNotOvertaken' /\ StoredInOrder'
  BY <1>1 DEF OrderInv, HeldNotOvertaken, StoredInOrder, Earlier
<1> QED
  BY <1>4, <1>5, <1>6 DEF OrderInv

\* A promotion takes the oldest live row of its thread and stores it next.
LEMMA PromoteOrder ==
  ASSUME TypeOK, Locked, QueueInv, OrderInv, NEW a \in Actors, Promote(a)
  PROVE  OrderInv'
<1> USE ActorFacts, AcceptedTyped DEF Goto, At
<1>1. CASE PeekEmpty(a)
  <2>1. AfterPromotion(a) \notin {"append", "delete", "new", "insert"}
    BY DEF AfterPromotion
  <2>2. SameInputs(log, log')
    BY <1>1, ExtendsSelf DEF PeekEmpty, SameInputs, TypeOK
  <2>3. Quiet(a)
    BY <1>1, <2>1, <2>2 DEF PeekEmpty, Quiet, lane, history
  <2> QED
    BY <2>3, QuietOrder
<1>2. CASE Peek(a)
  <2>1. /\ held' \in Live(Thread(a))
        /\ \A q \in Live(Thread(a)) : held'.seq <= q.seq
        /\ lock' = a
    BY <1>2 DEF Peek
  <2>2. UNCHANGED <<pending, log, accepted>> /\ pc' = [pc EXCEPT ![a] = "append"]
    BY <1>2 DEF Peek, history
  <2>3. held' \in pending /\ ~held'.cancelled /\ held'.thread = Thread(a)
    BY <2>1 DEF Live
  <2>4. \A p \in pending : p.seq \in Nat
    BY DEF TypeOK, Rows
  <2>5. Logged' = Logged /\ (\A m : StoredAt(m)' = StoredAt(m))
        /\ (\A m : Cancelled(m)' = Cancelled(m))
    BY <2>2 DEF Logged, Refs, StoredAt, Cancelled
  <2>6. NoneHeld' /\ AcceptedOnce' /\ RowsAccepted' /\ RowsInOrder'
    BY <2>1, <2>2 DEF OrderInv, NoneHeld, AcceptedOnce, RowsAccepted, RowsInOrder,
                      TypeOK
  <2>7. StoredInOrder'
    BY <2>2, <2>5 DEF OrderInv, StoredInOrder, Earlier
  <2>8. OldestHeld'
    <3> SUFFICES ASSUME NEW i \in DOMAIN accepted, NEW j \in DOMAIN accepted,
                        Earlier(i, j), accepted[j] = held'.msg,
                        accepted[i] \notin Logged, ~Cancelled(accepted[i])
                 PROVE  FALSE
      BY <2>2, <2>5 DEF OldestHeld, Earlier
    <3>1. PICK p \in pending : p.msg = accepted[i]
      BY DEF QueueInv, NoInputLost
    <3>2. ~p.cancelled
      BY <3>1 DEF Cancelled
    <3>3. p.thread = held'.thread
      BY <3>1, <2>3 DEF OrderInv, RowsAccepted, Earlier
    <3>4. held'.seq <= p.seq
      BY <2>1, <2>3, <3>1, <3>2, <3>3 DEF Live
    <3>5. p.seq < held'.seq
      BY <2>3, <3>1 DEF OrderInv, RowsInOrder, Earlier
    <3> QED
      BY <2>3, <2>4, <3>1, <3>4, <3>5
  <2>9. HeldNotOvertaken'
    <3>1. ~Cancelled(held'.msg)
      BY <2>3 DEF Cancelled, QueueInv, Keyed
    <3> QED
      BY <2>2, <2>5, <3>1 DEF HeldNotOvertaken, Earlier, OrderInv, StoredInOrder
  <2> QED
    BY <2>6, <2>7, <2>8, <2>9 DEF OrderInv
<1>3. CASE PromoteAppend(a)
  <2>1. lock = a /\ held.msg \in Inputs \ Malformed
    BY <1>3 DEF PromoteAppend, Locked, Rows
  <2>2. /\ UNCHANGED <<pending, lock, held, accepted>>
        /\ pc' = [pc EXCEPT ![a] = "delete"] /\ pc[a] = "append"
        /\ log' = Promoted(log, held.msg)
    BY <1>3 DEF PromoteAppend, lane, history
  <2>3. \A x : \A k \in StoredAt(x)' :
          k \in StoredAt(x) \/ (x = held.msg /\ \A h \in DOMAIN log : h <= k)
    BY <2>1, <2>2, StoredPromoted
  <2>4. \A x : StoredAt(x) \subseteq StoredAt(x)'
    BY <2>1, <2>2, PromotedExtends, StoredStays
  <2>5. \A m : Cancelled(m)' = Cancelled(m)
    BY <2>2 DEF Cancelled
  <2>6. NoneHeld' /\ AcceptedOnce' /\ RowsAccepted' /\ RowsInOrder'
    BY <2>2 DEF OrderInv, NoneHeld, AcceptedOnce, RowsAccepted, RowsInOrder, TypeOK
  <2>7. OldestHeld'
    BY <2>1, <2>2 DEF OldestHeld, TypeOK
  <2>8. HeldNotOvertaken'
    <3> SUFFICES ASSUME NEW i \in DOMAIN accepted, NEW j \in DOMAIN accepted,
                        Earlier(i, j), accepted[i] = held.msg,
                        NEW k \in StoredAt(accepted[j])'
                 PROVE  \E h \in StoredAt(accepted[i])' : h <= k
      BY <2>2 DEF HeldNotOvertaken, Earlier
    <3>1. accepted[j] # held.msg
      BY DEF OrderInv, AcceptedOnce, Earlier
    <3>2. k \in StoredAt(accepted[j])
      BY <2>2, <2>3, <3>1
    <3>3. \E h \in StoredAt(accepted[i]) : h <= k
      BY <2>1, <3>2 DEF OrderInv, HeldNotOvertaken
    <3> QED
      BY <2>2, <2>4, <3>3
  <2>9. StoredInOrder'
    <3> SUFFICES ASSUME NEW i \in DOMAIN accepted, NEW j \in DOMAIN accepted,
                        Earlier(i, j), NEW k \in StoredAt(accepted[j])',
                        ~Cancelled(accepted[i])
                 PROVE  \E h \in StoredAt(accepted[i])' : h <= k
      BY <2>2, <2>5 DEF StoredInOrder, Earlier
    <3>1. CASE k \in StoredAt(accepted[j])
      BY <2>2, <2>4, <3>1 DEF OrderInv, StoredInOrder
    <3>2. CASE accepted[j] = held.msg /\ \A h \in DOMAIN log : h <= k
      <4>1. accepted[i] \in Logged
        BY <2>1, <2>2, <3>2 DEF OrderInv, OldestHeld
      <4>2. PICK h \in StoredAt(accepted[i]) : TRUE
        BY <4>1, StoredLogged
      <4> QED
        BY <2>2, <2>4, <3>2, <4>2 DEF StoredAt
    <3> QED
      BY <2>2, <2>3, <3>1, <3>2
  <2> QED
    BY <2>6, <2>7, <2>8, <2>9 DEF OrderInv
<1>4. CASE PromoteDelete(a)
  <2>1. /\ lock = a /\ lock' = None /\ held' = None
        /\ UNCHANGED <<log, accepted>>
        /\ pc' = [pc EXCEPT ![a] = "peek"]
        /\ pending' = {r \in pending : r.seq # held.seq}
    BY <1>4 DEF PromoteDelete, Locked, history
  <2>2. \A m : StoredAt(m)' = StoredAt(m)
    BY <2>1 DEF StoredAt
  <2>3. \A m : Cancelled(m) /\ m # held.msg => Cancelled(m)'
    BY <2>1 DEF Cancelled, QueueInv, HeldRow, Keyed
  <2>4. NoneHeld' /\ AcceptedOnce' /\ RowsAccepted' /\ RowsInOrder'
    BY <2>1 DEF OrderInv, NoneHeld, AcceptedOnce, RowsAccepted, RowsInOrder, TypeOK
  <2>5. OldestHeld' /\ HeldNotOvertaken'
    BY <2>1 DEF OldestHeld, HeldNotOvertaken
  <2>6. StoredInOrder'
    BY <2>1, <2>2, <2>3 DEF OrderInv, StoredInOrder, HeldNotOvertaken, Earlier
  <2> QED
    BY <2>4, <2>5, <2>6 DEF OrderInv
<1>5. CASE PromoteFails(a)
  <2>1. /\ lock' = None /\ held' = None
        /\ UNCHANGED <<pending, log, accepted>>
        /\ \E l \in {"recv", "failed"} : pc' = [pc EXCEPT ![a] = l]
    BY <1>5 DEF PromoteFails, history
  <2>2. /\ \A m : StoredAt(m)' = StoredAt(m)
        /\ \A m : Cancelled(m)' = Cancelled(m)
    BY <2>1 DEF StoredAt, Cancelled
  <2>3. NoneHeld' /\ AcceptedOnce' /\ RowsAccepted' /\ RowsInOrder'
    BY <2>1 DEF OrderInv, NoneHeld, AcceptedOnce, RowsAccepted, RowsInOrder, TypeOK
  <2>4. OldestHeld' /\ HeldNotOvertaken'
    BY <2>1 DEF OldestHeld, HeldNotOvertaken
  <2>5. StoredInOrder'
    BY <2>1, <2>2 DEF OrderInv, StoredInOrder, Earlier
  <2> QED
    BY <2>3, <2>4, <2>5 DEF OrderInv
<1> QED
  BY <1>1, <1>2, <1>3, <1>4, <1>5 DEF Promote

\* A new row is behind every row that is there.
LEMMA InsertOrder ==
  ASSUME TypeOK, Locked, QueueInv, OrderInv, NEW r \in Inputs, Insert(r)
  PROVE  OrderInv'
<1> USE ActorFacts, AcceptedTyped
<1>1. PICK top \in {0} \cup {q.seq : q \in pending} :
        /\ \A q \in pending : q.seq <= top
        /\ pending' = pending \cup {[seq |-> top + 1, msg |-> r,
                                     thread |-> ThreadOf[r],
                                     cancelled |-> FALSE]}
  BY DEF Insert
<1> DEFINE new == [seq |-> top + 1, msg |-> r, thread |-> ThreadOf[r],
                   cancelled |-> FALSE]
<1>2. /\ pending' = pending \cup {new} /\ new.msg = r /\ new.thread = ThreadOf[r]
      /\ new.cancelled = FALSE
  BY <1>1
<1>3. \A q \in pending : q.seq < new.seq
  <2>1. top \in Nat /\ \A q \in pending : q.seq \in Nat
    BY DEF TypeOK, Rows
  <2> QED
    BY <1>1, <2>1
<1> HIDE DEF new
<1>4. r \notin Logged /\ \A q \in pending : q.msg # r
  BY DEF Insert, At, QueueInv, Fresh
<1>5. \A i \in DOMAIN accepted : accepted[i] # r
  BY DEF Insert, At, OrderInv, AcceptedOnce
<1>6. /\ UNCHANGED <<log, lock, held>> /\ accepted' = Append(accepted, r)
      /\ pc[r] = "insert" /\ pc' = [pc EXCEPT ![r] = "choose"]
  BY DEF Insert, At, Goto, lane
<1> DEFINE n == Len(accepted) + 1
<1>7. /\ DOMAIN accepted' = DOMAIN accepted \cup {n}
      /\ \A i \in DOMAIN accepted : accepted'[i] = accepted[i] /\ i < n
      /\ accepted'[n] = r /\ n \notin DOMAIN accepted /\ n \in Nat
      /\ DOMAIN accepted \subseteq Nat
  BY <1>6 DEF TypeOK
<1> HIDE DEF n
<1>8. /\ Logged' = Logged /\ (\A m : StoredAt(m)' = StoredAt(m))
      /\ StoredAt(r) = {}
      /\ (\A m : Cancelled(m)' = Cancelled(m))
  BY <1>2, <1>4, <1>6, StoredLogged DEF Logged, Refs, StoredAt, Cancelled
<1>9. \A i, j \in DOMAIN accepted' : i < j =>
        /\ i \in DOMAIN accepted /\ accepted'[i] = accepted[i]
        /\ j \in DOMAIN accepted \/ j = n
  BY <1>7
<1>10. lock # None => pc'[lock] = pc[lock] /\ held.msg # r
  BY <1>4, <1>6 DEF QueueInv, HeldRow, Locked, TypeOK
<1>11. NoneHeld' /\ AcceptedOnce'
  BY <1>5, <1>6, <1>7 DEF OrderInv, NoneHeld, AcceptedOnce, TypeOK
<1>12. RowsAccepted'
  BY <1>2, <1>7 DEF OrderInv, RowsAccepted
<1>13. RowsInOrder'
  <2> SUFFICES ASSUME NEW i \in DOMAIN accepted', NEW j \in DOMAIN accepted', i < j,
                      NEW p \in pending', NEW q \in pending',
                      p.msg = accepted'[i], q.msg = accepted'[j]
               PROVE  p.seq < q.seq
    BY DEF RowsInOrder
  <2>1. i \in DOMAIN accepted /\ p.msg = accepted[i] /\ p \in pending
    BY <1>2, <1>5, <1>9
  <2>2. CASE j = n
    <3>1. q = new
      BY <1>2, <1>4, <1>7, <2>2
    <3> QED
      BY <1>3, <2>1, <3>1
  <2>3. CASE j \in DOMAIN accepted
    <3>1. q.msg = accepted[j] /\ q \in pending
      BY <1>2, <1>5, <1>7, <2>3
    <3> QED
      BY <2>1, <2>3, <3>1 DEF OrderInv, RowsInOrder
  <2> QED
    BY <1>9, <2>2, <2>3
<1>14. OldestHeld'
  BY <1>6, <1>7, <1>8, <1>9, <1>10 DEF OrderInv, OldestHeld, Earlier
<1>15. HeldNotOvertaken'
  BY <1>6, <1>7, <1>8, <1>9, <1>10 DEF OrderInv, HeldNotOvertaken, Earlier
<1>16. StoredInOrder'
  BY <1>7, <1>8, <1>9 DEF OrderInv, StoredInOrder, Earlier
<1> QED
  BY <1>11, <1>12, <1>13, <1>14, <1>15, <1>16 DEF OrderInv

\* A cancelled row keeps its place, and stays cancelled.
LEMMA CancelOrder ==
  ASSUME TypeOK, Locked, QueueInv, OrderInv, NEW r \in Interrupts, IntCancel(r)
  PROVE  OrderInv'
<1> USE ActorFacts
<1> DEFINE hit == Live(ThreadOf[r])
           stamp(q) == [q EXCEPT !.cancelled = TRUE]
<1>1. \A q \in pending : /\ stamp(q).seq = q.seq /\ stamp(q).msg = q.msg
                         /\ stamp(q).thread = q.thread /\ stamp(q).cancelled
  BY DEF TypeOK, Rows
<1>2. pending' = (pending \ hit) \cup {stamp(q) : q \in hit} /\ hit \subseteq pending
  BY DEF IntCancel, Live
<1>3. /\ UNCHANGED <<log, lock, held, accepted>>
      /\ pc[r] = "cancel" /\ pc' = [pc EXCEPT ![r] = "log"]
  BY DEF IntCancel, At, Goto, lane, history
<1> HIDE DEF hit, stamp
<1>4. \A p \in pending' : \E q \in pending :
        p.seq = q.seq /\ p.msg = q.msg /\ p.thread = q.thread
  BY <1>1, <1>2
<1>5. \A m : Cancelled(m) => Cancelled(m)'
  BY <1>1, <1>2 DEF Cancelled
<1>6. Logged' = Logged /\ (\A m : StoredAt(m)' = StoredAt(m))
  BY <1>3 DEF Logged, Refs, StoredAt
<1>7. lock # None => pc'[lock] = pc[lock]
  BY <1>3 DEF Locked, TypeOK
<1>8. NoneHeld' /\ AcceptedOnce' /\ RowsAccepted' /\ RowsInOrder'
  <2>1. NoneHeld' /\ AcceptedOnce'
    BY <1>3 DEF OrderInv, NoneHeld, AcceptedOnce, TypeOK
  <2>2. RowsAccepted'
    BY <1>3, <1>4 DEF OrderInv, RowsAccepted
  <2>3. RowsInOrder'
    <3> SUFFICES ASSUME NEW i \in DOMAIN accepted, NEW j \in DOMAIN accepted, i < j,
                        NEW p \in pending', NEW q \in pending',
                        p.msg = accepted[i], q.msg = accepted[j]
                 PROVE  p.seq < q.seq
      BY <1>3 DEF RowsInOrder
    <3>1. PICK p0 \in pending : p.seq = p0.seq /\ p.msg = p0.msg
      BY <1>4
    <3>2. PICK q0 \in pending : q.seq = q0.seq /\ q.msg = q0.msg
      BY <1>4
    <3> QED
      BY <3>1, <3>2 DEF OrderInv, RowsInOrder
  <2> QED
    BY <2>1, <2>2, <2>3
<1>9. OldestHeld'
  BY <1>3, <1>5, <1>6, <1>7 DEF OrderInv, OldestHeld, Earlier
<1>10. HeldNotOvertaken' /\ StoredInOrder'
  BY <1>3, <1>5, <1>6 DEF OrderInv, HeldNotOvertaken, StoredInOrder, Earlier
<1> QED
  BY <1>8, <1>9, <1>10 DEF OrderInv

\* A fault gives appendMu back and leaves rows and log as they are.
LEMMA FaultOrder ==
  ASSUME TypeOK, Locked, QueueInv, OrderInv, Fault
  PROVE  OrderInv'
<1> USE ActorFacts
<1>1. UNCHANGED <<pending, log, accepted>>
  BY DEF Fault, CrashAndRestart, SetupFails, Disconnect
<1>2. /\ Logged' = Logged /\ (\A m : StoredAt(m)' = StoredAt(m))
      /\ (\A m : Cancelled(m)' = Cancelled(m))
  BY <1>1 DEF Logged, Refs, StoredAt, Cancelled
<1>3. /\ \A r \in Inputs : pc'[r] \in {"new", "insert"} => pc[r] \in {"new", "insert"}
      /\ lock' # None => lock' = lock /\ held' = held /\ pc'[lock] = pc[lock]
      /\ UNCHANGED <<lock, held>> \/ held' = None
  BY FaultSpares
<1>4. NoneHeld' /\ AcceptedOnce' /\ RowsAccepted' /\ RowsInOrder'
  BY <1>1, <1>3 DEF OrderInv, NoneHeld, AcceptedOnce, RowsAccepted, RowsInOrder
<1>5. OldestHeld' /\ HeldNotOvertaken' /\ StoredInOrder'
  BY <1>1, <1>2, <1>3 DEF OrderInv, OldestHeld, HeldNotOvertaken, StoredInOrder,
                          Earlier
<1> QED
  BY <1>4, <1>5 DEF OrderInv

\* The order holds in every reachable state.
LEMMA OrderInvariant == Spec => []OrderInv
<1>1. Init => OrderInv
  <2> SUFFICES ASSUME Init PROVE OrderInv
    OBVIOUS
  <2>1. pending = {} /\ accepted = <<>> /\ lock = None /\ held = None
    BY DEF Init
  <2> QED
    BY <2>1 DEF OrderInv, NoneHeld, AcceptedOnce, RowsAccepted, RowsInOrder, OldestHeld,
                HeldNotOvertaken, StoredInOrder
<1>2. TypeOK /\ Locked /\ QueueInv /\ OrderInv /\ [Next]_vars => OrderInv'
  <2> SUFFICES ASSUME TypeOK, Locked, QueueInv, OrderInv, [Next]_vars
               PROVE  OrderInv'
    OBVIOUS
  <2>1. CASE \E r \in Inputs : Handle(r) \/ Serve(r)
    BY <2>1, QuietRequests, QuietOrder, PromoteOrder, InsertOrder, ActorFacts
       DEF Serve
  <2>2. CASE \E r \in Interrupts : IntHandle(r) \/ Interrupt(r)
    BY <2>2, QuietRequests, QuietOrder, CancelOrder, ActorFacts DEF Interrupt
  <2>3. CASE Work
    BY <2>3, QuietWork, QuietOrder, PromoteOrder, ActorFacts
  <2>4. CASE Fault
    BY <2>4, FaultOrder
  <2>5. CASE UNCHANGED vars
    BY <2>5 DEF OrderInv, NoneHeld, AcceptedOnce, RowsAccepted, RowsInOrder, OldestHeld,
                HeldNotOvertaken, StoredInOrder, Earlier, StoredAt, Cancelled,
                Logged, Refs, vars, lane, history
  <2> QED
    BY <2>1, <2>2, <2>3, <2>4, <2>5 DEF Next, Rest
<1> QED
  BY <1>1, <1>2, TypedInvariant, QueueInvariant, PTL DEF Spec

\* Inputs of a thread enter the log in the order they were queued, whoever
\* promotes them and however often a promotion was broken off: only one that an
\* interrupt cancelled is overtaken.
THEOREM InputsKeepOrder == Spec => []PromotedInOrder
<1>1. TypeOK /\ OrderInv => PromotedInOrder
  <2> SUFFICES ASSUME TypeOK, OrderInv,
                      NEW i \in DOMAIN accepted, NEW j \in DOMAIN accepted,
                      Earlier(i, j), NEW k \in StoredAt(accepted[j]),
                      ~Cancelled(accepted[i])
               PROVE  \E h \in 1..k : log[h] = Event("user", accepted[i])
    BY DEF PromotedInOrder, Earlier, StoredAt, Cancelled
  <2>1. PICK h \in StoredAt(accepted[i]) : h <= k
    BY DEF OrderInv, StoredInOrder
  <2>2. h \in 1..k
    BY <2>1 DEF StoredAt, TypeOK
  <2> QED
    BY <2>1, <2>2 DEF StoredAt
<1> QED
  BY <1>1, TypedInvariant, OrderInvariant, PTL

-----------------------------------------------------------------------------
(***************************************************************************)
(* The lane implements the outbox as long as no promotion is broken off.   *)
(***************************************************************************)
\* The abstract state of the inputs.
BoxState == [m \in Inputs |-> OutboxState(m)]

\* What each state of an input means for its row, the log and appendMu.
LEMMA BoxFacts ==
  ASSUME TypeOK, Locked, QueueInv, OrderInv, faults = 0, NEW m \in Inputs
  PROVE  /\ OutboxState(m) = "delivered" <=> m \in Logged
         /\ OutboxState(m) = "claimed" <=>
              /\ m \notin Logged /\ m \notin Malformed
              /\ lock # None /\ held.msg = m
         /\ OutboxState(m) = "queued" <=>
              /\ m \notin Logged /\ \E q \in pending : q.msg = m /\ ~q.cancelled
              /\ ~(lock # None /\ held.msg = m /\ m \notin Malformed)
         /\ OutboxState(m) = "unsent" <=>
              m \notin Logged /\ \A q \in pending : q.msg # m
<1>1. held # None <=> lock # None
  BY RowAssumption DEF Locked, OrderInv, NoneHeld
<1>2. lock # None => \E q \in pending : q.seq = held.seq /\ q.msg = held.msg
  BY DEF QueueInv, HeldRow
<1>3. \A q \in pending : q.msg \in Logged => lock # None /\ held.msg = q.msg
  BY <1>2 DEF QueueInv, LoggedRowLeaves, Keyed
<1> QED
  BY <1>1, <1>2, <1>3 DEF OutboxState

\* An input whose row, log entry and claim stay as they are keeps its state.
LEMMA BoxSame ==
  ASSUME NEW m, (m \in Logged)' <=> (m \in Logged),
         (held # None /\ held.msg = m /\ m \notin Malformed)'
           <=> (held # None /\ held.msg = m /\ m \notin Malformed),
         (\E q \in pending : q.msg = m /\ ~q.cancelled)'
           <=> (\E q \in pending : q.msg = m /\ ~q.cancelled),
         (\E q \in pending : q.msg = m)' <=> (\E q \in pending : q.msg = m)
  PROVE  OutboxState(m)' = OutboxState(m)
BY DEF OutboxState

\* What an input answers is settled before its row can be held.
LEMMA HeldAnswers ==
  ASSUME TypeOK, Locked, QueueInv, OrderInv, [Next]_vars
  PROVE  held # None => (held.msg \in Malformed' <=> held.msg \in Malformed)
<1> USE ActorFacts
<1>1. UNCHANGED answers \/ \E r \in Inputs : Handle(r)
  <2>1. CASE \E r \in Inputs : Serve(r)
    BY <2>1 DEF Serve, Promote, Peek, PeekEmpty, PromoteAppend, PromoteFails,
                PromoteDelete, Insert, Choose, Send, request
  <2>2. CASE \E r \in Interrupts : IntHandle(r) \/ Interrupt(r)
    BY <2>2 DEF IntHandle, Interrupt, IntList, IntCancel, IntLog, IntStop, IntDrain,
                IntDrained, IntRecover, IntEnd, IntClear, IntIdle, request
  <2>3. CASE Work
    <3>1. CASE Promote(Worker) \/ Receive \/ StartTurn \/ BeginTurn \/ ReadHistory
      BY <3>1 DEF Promote, Peek, PeekEmpty, PromoteAppend, PromoteFails,
           PromoteDelete, Receive, StartTurn, BeginTurn, ReadHistory, request
    <3>2. CASE Announce \/ Emit \/ StreamEnds \/ FailTurn \/ FinishTurn
      BY <3>2 DEF Announce, Emit, StreamEnds, FailTurn, FinishTurn, request
    <3>3. CASE LeaveTurn \/ Supervise \/ IdleRead \/ IdleMeta \/ IdleLog \/ Release
      BY <3>3 DEF LeaveTurn, Supervise, IdleRead, IdleMeta, IdleLog, Release, request
    <3> QED
      BY <2>3, <3>1, <3>2, <3>3 DEF Work
  <2>4. CASE Fault \/ UNCHANGED vars
    BY <2>4 DEF Fault, CrashAndRestart, SetupFails, Disconnect, vars, request
  <2> QED
    BY <2>1, <2>2, <2>3, <2>4 DEF Next, Rest
<1>2. CASE UNCHANGED answers
  BY <1>2 DEF Malformed
<1>3. CASE \E r \in Inputs : Handle(r)
  <2>1. PICK r \in Inputs : Handle(r)
    BY <1>3
  <2>2. \A m \in Results : m # r => answers'[m] = answers[m]
    BY <2>1 DEF Handle, TypeOK
  <2>3. held # None => held.msg # r
    BY <2>1 DEF Handle, At, OrderInv, NoneHeld, QueueInv, HeldRow, Fresh
  <2> QED
    BY <2>2, <2>3 DEF Malformed
<1> QED
  BY <1>1, <1>2, <1>3

\* A quiet step is a stutter of the outbox.
LEMMA QuietBox ==
  ASSUME TypeOK, Locked, QueueInv, OrderInv, [Next]_vars, NEW a \in Actors, Quiet(a)
  PROVE  UNCHANGED <<BoxState, accepted>>
<1>1. Logged' = Logged /\ UNCHANGED <<pending, held, accepted>>
  BY SameInputsKeep DEF Quiet, Logged, Refs
<1> QED
  BY <1>1, HeldAnswers DEF BoxState, OutboxState

\* Queueing a row queues its input.
LEMMA InsertBox ==
  ASSUME TypeOK, Locked, QueueInv, OrderInv, faults = 0, NEW r \in Inputs, Insert(r)
  PROVE  Contract!Queue(r)
<1> USE ActorFacts
<1>1. PICK new : /\ pending' = pending \cup {new} /\ new.msg = r
                 /\ ~new.cancelled
  BY DEF Insert
<1>2. r \notin Logged /\ \A q \in pending : q.msg # r
  BY DEF Insert, At, QueueInv, Fresh
<1>3. UNCHANGED <<log, lock, held, answers>> /\ accepted' = Append(accepted, r)
  BY DEF Insert, lane, request
<1>4. Logged' = Logged /\ Malformed' = Malformed
  BY <1>3 DEF Logged, Refs, Malformed
<1>5. OutboxState(r) = "unsent"
  BY <1>2, BoxFacts
<1>6. held # None => held.msg # r
  BY <1>2 DEF OrderInv, NoneHeld, QueueInv, HeldRow
<1>7. OutboxState(r)' = "queued"
  BY <1>1, <1>2, <1>3, <1>4, <1>6 DEF OutboxState
<1>8. ASSUME NEW m \in Inputs, m # r
      PROVE  OutboxState(m)' = OutboxState(m)
  BY <1>1, <1>3, <1>4, <1>8, BoxSame
<1>9. BoxState' = [BoxState EXCEPT ![r] = "queued"]
  BY <1>7, <1>8 DEF BoxState
<1> QED
  BY <1>3, <1>5, <1>9 DEF Contract!Queue, BoxState

\* Peeking a row claims the oldest queued input of its thread.
LEMMA PeekBox ==
  ASSUME TypeOK, Locked, QueueInv, OrderInv, faults = 0, NEW a \in Actors, Peek(a),
         held'.msg \notin Malformed
  PROVE  \E i \in DOMAIN accepted : Contract!Claim(i)
<1> USE ActorFacts, AcceptedTyped
<1>1. /\ lock = None /\ lock' = a /\ held = None
      /\ held' \in Live(Thread(a))
      /\ \A q \in Live(Thread(a)) : held'.seq <= q.seq
      /\ UNCHANGED <<pending, log, accepted, answers>>
  BY DEF Peek, history, request, OrderInv, NoneHeld
<1>2. held' \in pending /\ ~held'.cancelled /\ held'.thread = Thread(a)
  BY <1>1 DEF Live
<1>3. Logged' = Logged /\ Malformed' = Malformed
  BY <1>1 DEF Logged, Refs, Malformed
<1>4. \A p \in pending : p.seq \in Nat /\ p \in Rows /\ p.msg \in Inputs
  BY DEF TypeOK, Rows
<1>5. PICK i \in DOMAIN accepted : accepted[i] = held'.msg
  BY <1>2 DEF OrderInv, RowsAccepted
<1>6. held' # None
  BY <1>2, <1>4, RowAssumption
<1>7. OutboxState(accepted[i]) = "queued" /\ OutboxState(accepted[i])' = "claimed"
  <2>1. accepted[i] \notin Logged
    BY <1>1, <1>2, <1>5 DEF QueueInv, LoggedRowLeaves
  <2> QED
    BY <1>1, <1>2, <1>3, <1>5, <1>6, <2>1 DEF OutboxState
<1>8. \A m \in Inputs : OutboxState(m) # "claimed"
  BY <1>1, BoxFacts
<1>9. ASSUME NEW j \in 1..(i - 1), ThreadOf[accepted[j]] = ThreadOf[accepted[i]]
      PROVE  j \in DOMAIN accepted /\ OutboxState(accepted[j]) # "queued"
  <2>1. j \in DOMAIN accepted /\ j < i
    BY <1>5
  <2> SUFFICES ASSUME OutboxState(accepted[j]) = "queued" PROVE FALSE
    BY <2>1
  <2>2. PICK q \in pending : q.msg = accepted[j] /\ ~q.cancelled
    BY <2>1, BoxFacts
  <2>3. q.thread = held'.thread
    BY <1>2, <1>5, <1>9, <2>2 DEF OrderInv, RowsAccepted
  <2>4. held'.seq <= q.seq
    BY <1>1, <1>2, <2>2, <2>3 DEF Live
  <2>5. q.seq < held'.seq
    BY <1>2, <1>5, <2>1, <2>2 DEF OrderInv, RowsInOrder
  <2> QED
    BY <1>2, <1>4, <2>2, <2>4, <2>5
<1>10. ASSUME NEW m \in Inputs, m # accepted[i]
       PROVE  OutboxState(m)' = OutboxState(m)
  BY <1>1, <1>3, <1>5, <1>10 DEF OutboxState
<1>11. BoxState' = [BoxState EXCEPT ![accepted[i]] = "claimed"]
  BY <1>1, <1>5, <1>7, <1>10 DEF BoxState
<1>12. \A m \in Inputs : BoxState[m] = OutboxState(m)
  BY DEF BoxState
<1>13. Contract!Claim(i)
  BY <1>1, <1>7, <1>8, <1>9, <1>11, <1>12 DEF Contract!Claim, BoxState
<1> QED
  BY <1>13

\* Storing the held input delivers it; that its row was cancelled in between
\* makes no difference.
LEMMA AppendBox ==
  ASSUME TypeOK, Locked, QueueInv, OrderInv, faults = 0, NEW a \in Actors,
         PromoteAppend(a)
  PROVE  held.msg \in Inputs /\ Contract!Deliver(held.msg)
<1> USE ActorFacts DEF At
<1>1. lock = a /\ held \in Rows /\ held.msg \in Inputs \ Malformed /\ held # None
  BY RowAssumption DEF PromoteAppend, Locked, Rows
<1>2. /\ UNCHANGED <<pending, lock, held, accepted>> /\ Malformed' = Malformed
      /\ log' = Promoted(log, held.msg) /\ pc[a] = "append"
  BY DEF PromoteAppend, lane, history, request, Malformed
<1>3. Logged' = Logged \cup {held.msg}
  BY <1>1, <1>2, PromotedInput DEF Logged, Refs
<1>4. held.msg \notin Logged
  BY <1>1, <1>2 DEF QueueInv, HeldRow, LoggedRowLeaves
<1>5. OutboxState(held.msg) = "claimed"
  BY <1>1, <1>4 DEF OutboxState
<1>6. ASSUME NEW m \in Inputs
      PROVE  OutboxState(m)' = IF m = held.msg THEN "delivered" ELSE OutboxState(m)
  BY <1>2, <1>3 DEF OutboxState
<1>7. BoxState' = [BoxState EXCEPT ![held.msg] = "delivered"]
  BY <1>6 DEF BoxState
<1> QED
  BY <1>1, <1>2, <1>5, <1>7 DEF Contract!Deliver, BoxState

\* Deleting the row of a delivered input changes nothing for the client.
LEMMA DeleteBox ==
  ASSUME TypeOK, Locked, QueueInv, OrderInv, NEW a \in Actors, PromoteDelete(a)
  PROVE  UNCHANGED <<BoxState, accepted>>
<1> USE ActorFacts DEF At
<1>1. /\ lock = a /\ held' = None /\ UNCHANGED <<log, accepted, answers>>
      /\ pc[a] = "delete"
      /\ pending' = {r \in pending : r.seq # held.seq}
  BY DEF PromoteDelete, Locked, history, request
<1>2. Logged' = Logged /\ Malformed' = Malformed
  BY <1>1 DEF Logged, Refs, Malformed
<1>3. held.msg \in Logged
  BY <1>1 DEF QueueInv, HeldRow
<1>4. \A q \in pending : q.seq = held.seq => q.msg = held.msg
  BY <1>1 DEF QueueInv, HeldRow, Keyed
<1>5. ASSUME NEW m \in Inputs
      PROVE  OutboxState(m)' = OutboxState(m)
  <2>1. CASE m \in Logged
    BY <1>2, <2>1 DEF OutboxState
  <2>2. CASE m \notin Logged
    BY <1>1, <1>2, <1>3, <1>4, <2>2 DEF OutboxState
  <2> QED
    BY <2>1, <2>2
<1> QED
  BY <1>1, <1>5 DEF BoxState

\* Holding and letting go of a row that cannot be stored is a stutter: the input is
\* queued all along, or withdrawn.
LEMMA MalformedBox ==
  ASSUME TypeOK, Locked, NoneHeld, NEW a \in Actors,
         \/ Peek(a) /\ held'.msg \in Malformed
         \/ PromoteFails(a)
  PROVE  UNCHANGED <<BoxState, accepted>>
<1>1. UNCHANGED <<pending, log, accepted, answers>>
  BY DEF Peek, PromoteFails, request, history
<1>2. Logged' = Logged /\ Malformed' = Malformed
  BY <1>1 DEF Logged, Refs, Malformed
<1>3. /\ held # None => held.msg \in Malformed
      /\ held' # None => held'.msg \in Malformed
  BY DEF Peek, PromoteFails, NoneHeld
<1> QED
  BY <1>1, <1>2, <1>3 DEF BoxState, OutboxState

\* An interrupt withdraws what its thread has queued, except a claimed input.
LEMMA CancelBox ==
  ASSUME TypeOK, Locked, QueueInv, OrderInv, faults = 0, NEW r \in Interrupts,
         IntCancel(r)
  PROVE  Contract!Withdraw(ThreadOf[r])
<1> USE ActorFacts
<1> DEFINE hit == Live(ThreadOf[r])
           stamp(q) == [q EXCEPT !.cancelled = TRUE]
<1>1. \A q \in pending : stamp(q).msg = q.msg /\ stamp(q).cancelled
  BY DEF TypeOK, Rows
<1>2. pending' = (pending \ hit) \cup {stamp(q) : q \in hit} /\ hit \subseteq pending
  BY DEF IntCancel, Live
<1>3. UNCHANGED <<log, lock, held, accepted, answers>>
  BY DEF IntCancel, lane, history, request
<1>4. \A q \in pending : q \in hit <=> ThreadOf[q.msg] = ThreadOf[r] /\ ~q.cancelled
  BY DEF Live, OrderInv, RowsAccepted
<1> HIDE DEF hit, stamp
<1>5. Logged' = Logged /\ Malformed' = Malformed
  BY <1>3 DEF Logged, Refs, Malformed
<1>6. ASSUME NEW m \in Inputs
      PROVE  OutboxState(m)' = IF ThreadOf[m] = ThreadOf[r] /\ OutboxState(m) = "queued"
                               THEN "withdrawn" ELSE OutboxState(m)
  <2>1. (\E q \in pending : q.msg = m)' <=> (\E q \in pending : q.msg = m)
    BY <1>1, <1>2
  <2>2. CASE ThreadOf[m] # ThreadOf[r]
    <3>1. (\E q \in pending : q.msg = m /\ ~q.cancelled)'
            <=> (\E q \in pending : q.msg = m /\ ~q.cancelled)
      BY <1>1, <1>2, <1>4, <2>2
    <3>2. OutboxState(m)' = OutboxState(m)
      BY <1>3, <1>5, <2>1, <3>1, BoxSame
    <3> QED
      BY <2>2, <3>2
  <2>3. CASE ThreadOf[m] = ThreadOf[r]
    <3>1. ~\E q \in pending' : q.msg = m /\ ~q.cancelled
      BY <1>1, <1>2, <1>4, <2>3
    <3> QED
      BY <1>3, <1>5, <2>1, <2>3, <3>1 DEF OutboxState
  <2> QED
    BY <2>2, <2>3
<1>7. BoxState' = [m \in Inputs |->
                     IF ThreadOf[m] = ThreadOf[r] /\ BoxState[m] = "queued"
                     THEN "withdrawn" ELSE BoxState[m]]
  BY <1>6 DEF BoxState
<1> QED
  BY <1>3, <1>7 DEF Contract!Withdraw, BoxState

\* As long as nothing fails the lane keeps the promise of the outbox: a client's
\* input is claimed and delivered in turn, and an interrupt withdraws what is not
\* claimed yet.  A promotion that a fault breaks off leaves a claim undelivered.
THEOREM LaneKeepsOutbox == Spec /\ [](faults = 0) => KeepsOutbox
<1>1. Init => Contract!Init
  <2> SUFFICES ASSUME Init PROVE Contract!Init
    OBVIOUS
  <2>1. pending = {} /\ log = <<>> /\ accepted = <<>> /\ held = None
    BY DEF Init
  <2>2. Logged = {}
    BY <2>1 DEF Logged, Refs, RefsIn
  <2>3. \A m \in Inputs : OutboxState(m) = "unsent"
    BY <2>1, <2>2 DEF OutboxState
  <2> QED
    BY <2>1, <2>3 DEF Contract!Init
<1>2. TypeOK /\ Locked /\ QueueInv /\ OrderInv /\ faults = 0 /\ (faults = 0)'
      /\ [Next]_vars => [Contract!Next]_(Contract!vars)
  <2> SUFFICES ASSUME TypeOK, Locked, QueueInv, OrderInv, faults = 0, (faults = 0)',
                      [Next]_vars
               PROVE  [Contract!Next]_(Contract!vars)
    OBVIOUS
  <2>1. ASSUME UNCHANGED <<BoxState, accepted>>
        PROVE  UNCHANGED (Contract!vars)
    BY <2>1 DEF Contract!vars, BoxState
  <2>2. ASSUME NEW a \in Actors, Quiet(a)
        PROVE  UNCHANGED (Contract!vars)
    BY <2>1, <2>2, QuietBox
  <2>3. ASSUME NEW a \in Actors, Promote(a)
        PROVE  [Contract!Next]_(Contract!vars)
    <3>1. CASE Peek(a) /\ held'.msg \notin Malformed
      BY <3>1, PeekBox DEF Contract!Next
    <3>2. CASE PeekEmpty(a)
      <4>1. UNCHANGED <<pending, log, held, accepted, answers>>
        BY <3>2 DEF PeekEmpty, lane, history, request
      <4> QED
        BY <2>1, <4>1 DEF BoxState, OutboxState, Logged, Refs, Malformed
    <3>3. CASE PromoteAppend(a)
      BY <3>3, AppendBox DEF Contract!Next
    <3>4. CASE PromoteDelete(a)
      BY <2>1, <3>4, DeleteBox
    <3>5. CASE (Peek(a) /\ held'.msg \in Malformed) \/ PromoteFails(a)
      BY <2>1, <3>5, MalformedBox DEF OrderInv
    <3> QED
      BY <2>3, <3>1, <3>2, <3>3, <3>4, <3>5 DEF Promote
  <2>4. CASE \E r \in Inputs : Handle(r) \/ Serve(r)
    <3>1. PICK r \in Inputs : Handle(r) \/ Serve(r)
      BY <2>4
    <3>2. CASE Insert(r)
      BY <3>2, InsertBox DEF Contract!Next
    <3> QED
      BY <2>2, <2>3, <3>1, <3>2, QuietRequests, ActorFacts DEF Serve
  <2>5. CASE \E r \in Interrupts : IntHandle(r) \/ Interrupt(r)
    <3>1. PICK r \in Interrupts : IntHandle(r) \/ Interrupt(r)
      BY <2>5
    <3>2. CASE IntCancel(r)
      <4>1. ThreadOf[r] \in Threads
        BY LaneAssumption, ActorFacts
      <4> QED
        BY <3>2, <4>1, CancelBox DEF Contract!Next
    <3> QED
      BY <2>2, <3>1, <3>2, QuietRequests, ActorFacts DEF Interrupt
  <2>6. CASE Work
    BY <2>2, <2>3, <2>6, QuietWork, ActorFacts
  <2>7. CASE Fault
    BY <2>7 DEF Fault, CrashAndRestart, SetupFails, Disconnect
  <2>8. CASE UNCHANGED vars
    BY <2>1, <2>8 DEF BoxState, OutboxState, Logged, Refs, Malformed, vars, lane,
                      request, history
  <2> QED
    BY <2>4, <2>5, <2>6, <2>7, <2>8 DEF Next, Rest
<1> QED
  BY <1>1, <1>2, TypedInvariant, QueueInvariant, OrderInvariant, PTL
     DEF Spec, KeepsOutbox, Contract!Spec
=============================================================================
