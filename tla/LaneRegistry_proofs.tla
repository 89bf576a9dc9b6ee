------------------------ MODULE LaneRegistry_proofs ------------------------
(***************************************************************************)
(* Proofs about the registry: however registrations, requests and removals *)
(* cross, no worker is left without an owner, and a removal that comes     *)
(* back leaves nothing running in the lane it took away.                   *)
(***************************************************************************)
EXTENDS LaneRegistry, TLAPS

Holds(c) == pc[c] \in {"cancel", "close", "wait"}

\* Whoever is past the look-up holds a lane.
HoldersHold ==
  \A a \in Callers :
    pc[a] \in {"send", "stop", "drain", "cancel", "close", "wait"} => mine[a] \in Lanes

Typed == TypeOK /\ HoldersHold

\* The lane in the map runs and can be sent to.
LaneRuns == lane # None => phase[lane] \notin {"none", "exit"} /\ lane \in open

\* A lane that was not made yet or is over takes no job and has none.
OverIsEmpty ==
  \A l \in Lanes : phase[l] \in {"none", "exit"} => l \notin open /\ jobs[l] = 0

\* A worker between two turns has no active one.
WaitsIdle ==
  \A l \in Lanes : phase[l] \in {"none", "exit", "recv", "start"} => active[l] = 0

\* A remover holds a lane that was made and is no longer in the map.
HeldIsUnmapped ==
  \A c \in Closers : Holds(c) =>
    mine[c] \in Lanes /\ mine[c] # lane /\ phase[mine[c]] # "none"

FreshHoldsNone == \A c \in Closers : pc[c] = "new" => mine[c] = None

\* Once sealed nothing is in flight: the strengthening of SealedStaysQuiet.
SealedIsStill ==
  sealed => /\ row.there => row.status = "archived"
            /\ lane = None
            /\ \A l \in Lanes : phase[l] \in {"none", "exit"}
            /\ \A r \in Requests : pc[r] \in {"new", "done", "failed"}

OwnInv == /\ LaneRuns /\ OverIsEmpty /\ WaitsIdle /\ HeldIsUnmapped
          /\ FreshHoldsNone /\ NoOrphanLane /\ RemovalQuiesces

IInv == Typed /\ OwnInv /\ SealedIsStill

-----------------------------------------------------------------------------
LEMMA InitRegistry ==
  ASSUME RegistryAssumption, Init
  PROVE  IInv
<1>1. /\ row = [status |-> "idle", turn |-> 0, archived |-> FALSE, there |-> TRUE]
      /\ lane = None /\ phase = [l \in Lanes |-> "none"] /\ open = {}
      /\ jobs = [l \in Lanes |-> 0] /\ active = [l \in Lanes |-> 0] /\ ctxDone = {}
      /\ mine = [a \in Callers |-> None]
      /\ effect = {} /\ turns = 0 /\ late = {} /\ sealed = FALSE
  BY DEF Init
<1>2. pc \in [Callers -> {"new", "failed"}]
  BY DEF Init
<1>3. Typed
  <2>1. /\ row \in [status : Statuses, turn : Nat, archived : BOOLEAN, there : BOOLEAN]
        /\ jobs \in [Lanes -> 0..ChanCap] /\ phase \in [Lanes -> Phases]
        /\ active \in [Lanes -> Nat]
    BY <1>1 DEF Statuses, Phases, RegistryAssumption
  <2>2. /\ lane \in Lanes \cup {None} /\ open \subseteq Lanes /\ ctxDone \subseteq Lanes
        /\ mine \in [Callers -> Lanes \cup {None}]
        /\ effect \subseteq Stops /\ turns \in Nat /\ late \subseteq Posts
        /\ sealed \in BOOLEAN
    BY <1>1
  <2>3. pc \in [Callers -> PCs]
    BY <1>2 DEF PCs
  <2>4. HoldersHold
    BY <1>2 DEF HoldersHold
  <2> QED
    BY <2>1, <2>2, <2>3, <2>4 DEF Typed, TypeOK
<1>4. OwnInv
  <2>1. LaneRuns /\ OverIsEmpty /\ WaitsIdle /\ NoOrphanLane
    BY <1>1 DEF LaneRuns, OverIsEmpty, WaitsIdle, NoOrphanLane, Working
  <2>2. \A c \in Closers : mine[c] = None /\ pc[c] \in {"new", "failed"}
    BY <1>1, <1>2 DEF Callers
  <2>3. HeldIsUnmapped /\ FreshHoldsNone /\ RemovalQuiesces
    BY <2>2 DEF HeldIsUnmapped, FreshHoldsNone, RemovalQuiesces, Holds
  <2> QED
    BY <2>1, <2>3 DEF OwnInv
<1>5. SealedIsStill
  BY <1>1 DEF SealedIsStill
<1> QED
  BY <1>3, <1>4, <1>5 DEF IInv

LEMMA TypeStep ==
  ASSUME RegistryAssumption, Typed, [Next]_vars
  PROVE  Typed'
<1> USE DEF RegistryAssumption, Typed, TypeOK, HoldersHold, Statuses, Phases, PCs, Callers, Senders, Requests,
            Closers, At, Goto, Turn, memory
<1>1. ASSUME NEW r \in Requests, ReadRow(r)
      PROVE  Typed'
  BY <1>1 DEF ReadRow
<1>2. ASSUME NEW r \in Requests, Register(r)
      PROVE  Typed'
  <2>1. r \in Callers /\ pc' = [pc EXCEPT ![r] = "lookup"]
        /\ UNCHANGED <<row, jobs, active, ctxDone, mine, effect, turns, late, sealed>>
    BY <1>2 DEF Register, MakeLane
  <2>2. CASE UNCHANGED memory
    BY <2>1, <2>2
  <2>3. CASE \E l \in Lanes : MakeLane(l)
    <3>1. PICK l \in Lanes : MakeLane(l)
      BY <2>3
    <3>2. lane' \in Lanes /\ open' \subseteq Lanes /\ phase' \in [Lanes -> Phases]
      BY <3>1 DEF MakeLane
    <3> QED
      BY <2>1, <3>2
  <2> QED
    BY <1>2, <2>2, <2>3 DEF Register
<1>3. ASSUME NEW r \in Requests, Lookup(r)
      PROVE  Typed'
  BY <1>3 DEF Lookup
<1>4. ASSUME NEW r \in Requests, Send(r)
      PROVE  Typed'
  <2>1. mine[r] \in Lanes /\ jobs[mine[r]] < ChanCap
    BY <1>4 DEF Send
  <2>2. jobs[mine[r]] + 1 \in 0..ChanCap
    <3> DEFINE n == jobs[mine[r]]
    <3>1. n \in 0..ChanCap /\ n < ChanCap /\ ChanCap \in Nat
      BY <2>1
    <3> HIDE DEF n
    <3>2. n + 1 \in 0..ChanCap
      BY <3>1
    <3> QED
      BY <3>2 DEF n
  <2>3. jobs' \in [Lanes -> 0..ChanCap]
    BY <1>4, <2>1, <2>2 DEF Send
  <2> QED
    BY <1>4, <2>3 DEF Send
<1>5. ASSUME NEW r \in Requests, SendPanics(r)
      PROVE  Typed'
  BY <1>5 DEF SendPanics
<1>6. ASSUME NEW r \in Requests, WorkerPanics(r)
      PROVE  Typed'
  <2>1. row' \in [status : Statuses, turn : Nat, archived : BOOLEAN, there : BOOLEAN]
    <3>1. CASE UNCHANGED row
      BY <3>1
    <3>2. CASE row' = [row EXCEPT !.status = "interrupted", !.turn = 0]
      BY <3>2
    <3> QED
      BY <1>6, <3>1, <3>2 DEF WorkerPanics
  <2>2. phase' \in [Lanes -> Phases] /\ lane' = None
    BY <1>6 DEF WorkerPanics
  <2>3. jobs' \in [Lanes -> 0..ChanCap] /\ active' \in [Lanes -> Nat]
    BY <1>6 DEF WorkerPanics
  <2>4. /\ pc' \in [Callers -> PCs]
        /\ \A a \in Callers : pc'[a] \in {"new", "done", "failed"}
    BY <1>6 DEF WorkerPanics, Answered
  <2> QED
    BY <1>6, <2>1, <2>2, <2>3, <2>4 DEF WorkerPanics
<1>7. ASSUME NEW s \in Stops, StopTurn(s)
      PROVE  Typed'
  <2>1. s \in Callers /\ mine[s] \in Lanes
    BY <1>7 DEF StopTurn
  <2>2. /\ ctxDone' = ctxDone \/ ctxDone' = ctxDone \cup {mine[s]}
        /\ effect' = effect \/ effect' = effect \cup {s}
    BY <1>7 DEF StopTurn
  <2>3. ctxDone' \subseteq Lanes /\ effect' \subseteq Stops
    BY <2>1, <2>2
  <2> QED
    BY <1>7, <2>1, <2>3 DEF StopTurn
<1>8. ASSUME NEW s \in Stops, Drain(s)
      PROVE  Typed'
  <2>1. mine[s] \in Lanes /\ jobs[mine[s]] > 0
    BY <1>8 DEF Drain
  <2>2. jobs[mine[s]] - 1 \in 0..ChanCap
    <3> DEFINE n == jobs[mine[s]]
    <3>1. n \in 0..ChanCap /\ n > 0 /\ ChanCap \in Nat
      BY <2>1
    <3> HIDE DEF n
    <3>2. n - 1 \in 0..ChanCap
      BY <3>1
    <3> QED
      BY <3>2 DEF n
  <2>3. jobs' \in [Lanes -> 0..ChanCap]
    BY <1>8, <2>1, <2>2 DEF Drain
  <2> QED
    BY <1>8, <2>3 DEF Drain
<1>9. ASSUME NEW s \in Stops, Spin(s)
      PROVE  Typed'
  BY <1>9 DEF Spin, vars
<1>10. ASSUME NEW s \in Stops, Drained(s)
      PROVE  Typed'
  BY <1>10 DEF Drained
<1>11. ASSUME NEW s \in Stops, Recover(s)
      PROVE  Typed'
  BY <1>11 DEF Recover, Ended
<1>12. ASSUME NEW c \in Closers, ArchiveRow(c)
      PROVE  Typed'
  BY <1>12 DEF ArchiveRow, Quiet
<1>13. ASSUME NEW c \in Closers, FindRow(c)
      PROVE  Typed'
  BY <1>13 DEF FindRow
<1>14. ASSUME NEW c \in Closers, Unmap(c)
      PROVE  Typed'
  BY <1>14 DEF Unmap, Finish
<1>15. ASSUME NEW c \in Closers, CancelTurn(c)
      PROVE  Typed'
  <2>1. mine[c] \in Lanes /\ ctxDone' \subseteq Lanes
    BY <1>15 DEF CancelTurn
  <2> QED
    BY <1>15, <2>1 DEF CancelTurn
<1>16. ASSUME NEW c \in Closers, CloseChannel(c)
      PROVE  Typed'
  BY <1>16 DEF CloseChannel
<1>17. ASSUME NEW c \in Closers, WaitForWorker(c)
      PROVE  Typed'
  BY <1>17 DEF WaitForWorker, Finish
<1>18. ASSUME NEW c \in Closers, DeleteRow(c)
      PROVE  Typed'
  BY <1>18 DEF DeleteRow
<1>19. ASSUME NEW l \in Lanes, Receive(l)
      PROVE  Typed'
  BY <1>19 DEF Receive
<1>20. ASSUME NEW l \in Lanes, Exit(l)
      PROVE  Typed'
  BY <1>20 DEF Exit
<1>21. ASSUME NEW l \in Lanes, StartTurn(l)
      PROVE  Typed'
  BY <1>21 DEF StartTurn
<1>22. ASSUME NEW l \in Lanes, BeginTurn(l)
      PROVE  Typed'
  <2>1. row' \in [status : Statuses, turn : Nat, archived : BOOLEAN, there : BOOLEAN]
    <3>1. CASE UNCHANGED row
      BY <3>1
    <3>2. CASE row' = [row EXCEPT !.status = "running", !.turn = active[l]]
      BY <3>2
    <3> QED
      BY <1>22, <3>1, <3>2 DEF BeginTurn
  <2>2. phase' \in [Lanes -> Phases]
    BY <1>22 DEF BeginTurn
  <2> QED
    BY <1>22, <2>1, <2>2 DEF BeginTurn
<1>23. ASSUME NEW l \in Lanes, TurnEnds(l)
      PROVE  Typed'
  BY <1>23 DEF TurnEnds
<1>24. ASSUME NEW l \in Lanes, EndTurn(l)
      PROVE  Typed'
  BY <1>24 DEF EndTurn, Ended
<1>25. ASSUME NEW l \in Lanes, Release(l)
      PROVE  Typed'
  BY <1>25 DEF Release
<1>26. CASE Rest
  BY <1>26 DEF Rest, vars, memory
<1>27. CASE UNCHANGED vars
  BY <1>27 DEF vars, memory
<1> QED
  BY <1>1, <1>2, <1>3, <1>4, <1>5, <1>6, <1>7, <1>8, <1>9,
     <1>10, <1>11, <1>12, <1>13, <1>14, <1>15, <1>16, <1>17, <1>18,
     <1>19, <1>20, <1>21, <1>22, <1>23, <1>24, <1>25, <1>26, <1>27
  DEF Next, Request, Stop, Remove, Work

LEMMA OwnStep ==
  ASSUME RegistryAssumption, Typed, OwnInv, [Next]_vars
  PROVE  OwnInv'
<1> USE DEF RegistryAssumption, Typed, TypeOK, HoldersHold, Callers, Senders, Requests, Closers, At, Goto,
            Turn, memory, OwnInv, LaneRuns, OverIsEmpty, WaitsIdle, HeldIsUnmapped,
            FreshHoldsNone, NoOrphanLane, RemovalQuiesces, Holds, Working
<1>1. ASSUME NEW r \in Requests, ReadRow(r)
      PROVE  OwnInv'
  BY <1>1 DEF ReadRow
<1>2. ASSUME NEW r \in Requests, Register(r)
      PROVE  OwnInv'
  <2>1. r \in Callers /\ r \notin Closers /\ pc' = [pc EXCEPT ![r] = "lookup"]
        /\ UNCHANGED <<jobs, active, mine>>
    BY <1>2 DEF Register, MakeLane
  <2>2. \A c \in Closers : pc'[c] = pc[c]
    BY <2>1
  <2>3. CASE UNCHANGED memory
    BY <2>1, <2>2, <2>3
  <2>4. CASE lane = None /\ \E l \in Lanes : MakeLane(l)
    <3>1. PICK l \in Lanes : MakeLane(l)
      BY <2>4
    <3>2. /\ lane' = l /\ phase[l] = "none" /\ phase' = [phase EXCEPT ![l] = "recv"]
          /\ open' = open \cup {l}
      BY <3>1 DEF MakeLane
    <3>3. /\ phase'[l] = "recv"
          /\ \A k \in Lanes : k # l => phase'[k] = phase[k]
      BY <3>2
    <3>4. (LaneRuns /\ OverIsEmpty /\ WaitsIdle /\ FreshHoldsNone)'
      BY <2>1, <2>2, <3>2, <3>3
    <3>5. (HeldIsUnmapped /\ RemovalQuiesces)'
      BY <2>1, <2>2, <3>2, <3>3
    <3>6. NoOrphanLane'
      <4>1. SUFFICES ASSUME NEW k \in Lanes, Working(k)', k # l
                     PROVE  \E c \in Closers : /\ mine[c] = k
                                               /\ pc'[c] \in {"cancel", "close", "wait"}
        BY <2>1, <3>2
      <4>2. Working(k) /\ lane # k
        BY <2>4, <3>3, <4>1
      <4>3. PICK c \in Closers : mine[c] = k /\ pc[c] \in {"cancel", "close", "wait"}
        BY <4>2
      <4> QED
        BY <2>2, <4>3
    <3> QED
      BY <3>4, <3>5, <3>6
  <2> QED
    BY <1>2, <2>3, <2>4 DEF Register
<1>3. ASSUME NEW r \in Requests, Lookup(r)
      PROVE  OwnInv'
  BY <1>3 DEF Lookup
<1>4. ASSUME NEW r \in Requests, Send(r)
      PROVE  OwnInv'
  <2>1. /\ r \in Callers /\ r \notin Closers /\ mine[r] \in Lanes /\ mine[r] \in open
        /\ pc' = [pc EXCEPT ![r] = "done"]
        /\ jobs' = [jobs EXCEPT ![mine[r]] = @ + 1]
        /\ UNCHANGED <<lane, phase, open, active, mine>>
    BY <1>4 DEF Send
  <2>2. \A c \in Closers : pc'[c] = pc[c]
    BY <2>1
  <2>3. \A l \in Lanes : l # mine[r] => jobs'[l] = jobs[l]
    BY <2>1
  <2>4. phase[mine[r]] \notin {"none", "exit"}
    BY <2>1
  <2> QED
    BY <2>1, <2>2, <2>3, <2>4
<1>5. ASSUME NEW r \in Requests, SendPanics(r)
      PROVE  OwnInv'
  BY <1>5 DEF SendPanics
<1>6. ASSUME NEW r \in Requests, WorkerPanics(r)
      PROVE  OwnInv'
  BY <1>6 DEF WorkerPanics
<1>7. ASSUME NEW s \in Stops, StopTurn(s)
      PROVE  OwnInv'
  BY <1>7 DEF StopTurn
<1>8. ASSUME NEW s \in Stops, Drain(s)
      PROVE  OwnInv'
  BY <1>8 DEF Drain
<1>9. ASSUME NEW s \in Stops, Spin(s)
      PROVE  OwnInv'
  BY <1>9 DEF Spin, vars
<1>10. ASSUME NEW s \in Stops, Drained(s)
      PROVE  OwnInv'
  BY <1>10 DEF Drained
<1>11. ASSUME NEW s \in Stops, Recover(s)
      PROVE  OwnInv'
  BY <1>11 DEF Recover, Ended
<1>12. ASSUME NEW c \in Closers, ArchiveRow(c)
      PROVE  OwnInv'
  BY <1>12 DEF ArchiveRow, Quiet
<1>13. ASSUME NEW c \in Closers, FindRow(c)
      PROVE  OwnInv'
  BY <1>13 DEF FindRow
<1>14. ASSUME NEW c \in Closers, Unmap(c)
      PROVE  OwnInv'
  BY <1>14 DEF Unmap, Finish
<1>15. ASSUME NEW c \in Closers, CancelTurn(c)
      PROVE  OwnInv'
  BY <1>15 DEF CancelTurn
<1>16. ASSUME NEW c \in Closers, CloseChannel(c)
      PROVE  OwnInv'
  BY <1>16 DEF CloseChannel
<1>17. ASSUME NEW c \in Closers, WaitForWorker(c)
      PROVE  OwnInv'
  <2>1. /\ c \in Callers /\ pc[c] = "wait" /\ phase[mine[c]] = "exit" /\ mine[c] \in Lanes
        /\ \E p \in {"erase", "done"} : pc' = [pc EXCEPT ![c] = p]
        /\ UNCHANGED <<lane, phase, open, jobs, active, mine>>
    BY <1>17 DEF WaitForWorker, Finish
  <2>2. pc'[c] \in {"erase", "done"} /\ \A d \in Closers : d # c => pc'[d] = pc[d]
    BY <2>1
  <2>3. jobs[mine[c]] = 0 /\ active[mine[c]] = 0
    BY <2>1
  <2>4. NoOrphanLane'
    <3>1. SUFFICES ASSUME NEW l \in Lanes, Working(l), lane # l
                   PROVE  \E d \in Closers : mine[d] = l /\ pc'[d] \in {"cancel", "close", "wait"}
      BY <2>1
    <3>2. PICK d \in Closers : mine[d] = l /\ pc[d] \in {"cancel", "close", "wait"}
      BY <3>1
    <3>3. d # c
      BY <2>1, <3>1, <3>2
    <3> QED
      BY <2>2, <3>2, <3>3
  <2>5. RemovalQuiesces'
    BY <2>1, <2>2, <2>3
  <2> QED
    BY <2>1, <2>2, <2>4, <2>5
<1>18. ASSUME NEW c \in Closers, DeleteRow(c)
      PROVE  OwnInv'
  BY <1>18 DEF DeleteRow
<1>19. ASSUME NEW l \in Lanes, Receive(l)
      PROVE  OwnInv'
  BY <1>19 DEF Receive
<1>20. ASSUME NEW l \in Lanes, Exit(l)
      PROVE  OwnInv'
  BY <1>20 DEF Exit
<1>21. ASSUME NEW l \in Lanes, StartTurn(l)
      PROVE  OwnInv'
  BY <1>21 DEF StartTurn
<1>22. ASSUME NEW l \in Lanes, BeginTurn(l)
      PROVE  OwnInv'
  BY <1>22 DEF BeginTurn
<1>23. ASSUME NEW l \in Lanes, TurnEnds(l)
      PROVE  OwnInv'
  BY <1>23 DEF TurnEnds
<1>24. ASSUME NEW l \in Lanes, EndTurn(l)
      PROVE  OwnInv'
  BY <1>24 DEF EndTurn, Ended
<1>25. ASSUME NEW l \in Lanes, Release(l)
      PROVE  OwnInv'
  BY <1>25 DEF Release
<1>26. CASE Rest
  BY <1>26 DEF Rest, vars, memory
<1>27. CASE UNCHANGED vars
  BY <1>27 DEF vars, memory
<1> QED
  BY <1>1, <1>2, <1>3, <1>4, <1>5, <1>6, <1>7, <1>8, <1>9,
     <1>10, <1>11, <1>12, <1>13, <1>14, <1>15, <1>16, <1>17, <1>18,
     <1>19, <1>20, <1>21, <1>22, <1>23, <1>24, <1>25, <1>26, <1>27
  DEF Next, Request, Stop, Remove, Work

LEMMA SealStep ==
  ASSUME RegistryAssumption, Typed, OwnInv, SealedIsStill, [Next]_vars
  PROVE  SealedIsStill'
<1> USE DEF RegistryAssumption, Typed, TypeOK, HoldersHold, Callers, Senders, Requests, Closers, At, Goto,
            Turn, memory, OwnInv, OverIsEmpty, SealedIsStill, Working, Answered
<1>1. ASSUME NEW r \in Requests, ReadRow(r)
      PROVE  SealedIsStill'
  BY <1>1 DEF ReadRow
<1>2. ASSUME NEW r \in Requests, Register(r)
      PROVE  SealedIsStill'
  BY <1>2 DEF Register, MakeLane, Turn
<1>3. ASSUME NEW r \in Requests, Lookup(r)
      PROVE  SealedIsStill'
  BY <1>3 DEF Lookup
<1>4. ASSUME NEW r \in Requests, Send(r)
      PROVE  SealedIsStill'
  BY <1>4 DEF Send
<1>5. ASSUME NEW r \in Requests, SendPanics(r)
      PROVE  SealedIsStill'
  BY <1>5 DEF SendPanics
<1>6. ASSUME NEW r \in Requests, WorkerPanics(r)
      PROVE  SealedIsStill'
  BY <1>6 DEF WorkerPanics
<1>7. ASSUME NEW s \in Stops, StopTurn(s)
      PROVE  SealedIsStill'
  BY <1>7 DEF StopTurn
<1>8. ASSUME NEW s \in Stops, Drain(s)
      PROVE  SealedIsStill'
  BY <1>8 DEF Drain
<1>9. ASSUME NEW s \in Stops, Spin(s)
      PROVE  SealedIsStill'
  BY <1>9 DEF Spin, vars
<1>10. ASSUME NEW s \in Stops, Drained(s)
      PROVE  SealedIsStill'
  BY <1>10 DEF Drained
<1>11. ASSUME NEW s \in Stops, Recover(s)
      PROVE  SealedIsStill'
  BY <1>11 DEF Recover, Ended
<1>12. ASSUME NEW c \in Closers, ArchiveRow(c)
      PROVE  SealedIsStill'
  BY <1>12 DEF ArchiveRow, Quiet
<1>13. ASSUME NEW c \in Closers, FindRow(c)
      PROVE  SealedIsStill'
  BY <1>13 DEF FindRow
<1>14. ASSUME NEW c \in Closers, Unmap(c)
      PROVE  SealedIsStill'
  BY <1>14 DEF Unmap, Finish
<1>15. ASSUME NEW c \in Closers, CancelTurn(c)
      PROVE  SealedIsStill'
  BY <1>15 DEF CancelTurn
<1>16. ASSUME NEW c \in Closers, CloseChannel(c)
      PROVE  SealedIsStill'
  BY <1>16 DEF CloseChannel
<1>17. ASSUME NEW c \in Closers, WaitForWorker(c)
      PROVE  SealedIsStill'
  BY <1>17 DEF WaitForWorker, Finish
<1>18. ASSUME NEW c \in Closers, DeleteRow(c)
      PROVE  SealedIsStill'
  BY <1>18 DEF DeleteRow
<1>19. ASSUME NEW l \in Lanes, Receive(l)
      PROVE  SealedIsStill'
  BY <1>19 DEF Receive
<1>20. ASSUME NEW l \in Lanes, Exit(l)
      PROVE  SealedIsStill'
  BY <1>20 DEF Exit
<1>21. ASSUME NEW l \in Lanes, StartTurn(l)
      PROVE  SealedIsStill'
  BY <1>21 DEF StartTurn
<1>22. ASSUME NEW l \in Lanes, BeginTurn(l)
      PROVE  SealedIsStill'
  BY <1>22 DEF BeginTurn
<1>23. ASSUME NEW l \in Lanes, TurnEnds(l)
      PROVE  SealedIsStill'
  BY <1>23 DEF TurnEnds
<1>24. ASSUME NEW l \in Lanes, EndTurn(l)
      PROVE  SealedIsStill'
  BY <1>24 DEF EndTurn, Ended
<1>25. ASSUME NEW l \in Lanes, Release(l)
      PROVE  SealedIsStill'
  BY <1>25 DEF Release
<1>26. CASE Rest
  BY <1>26 DEF Rest, vars, memory
<1>27. CASE UNCHANGED vars
  BY <1>27 DEF vars, memory
<1> QED
  BY <1>1, <1>2, <1>3, <1>4, <1>5, <1>6, <1>7, <1>8, <1>9,
     <1>10, <1>11, <1>12, <1>13, <1>14, <1>15, <1>16, <1>17, <1>18,
     <1>19, <1>20, <1>21, <1>22, <1>23, <1>24, <1>25, <1>26, <1>27
  DEF Next, Request, Stop, Remove, Work

LEMMA RegistryInvariant ==
  ASSUME RegistryAssumption
  PROVE  Spec => []IInv
<1>1. Init => IInv
  BY InitRegistry
<1>2. IInv /\ [Next]_vars => IInv'
  BY TypeStep, OwnStep, SealStep DEF IInv
<1> QED
  BY <1>1, <1>2, PTL DEF Spec

\* registry.go, Register and Remove: for any number of callers, lanes and any
\* capacity, a running worker belongs to the lane in the map or to a remover that
\* waits for it.
THEOREM NoLaneIsOrphaned ==
  ASSUME RegistryAssumption
  PROVE  Spec => []NoOrphanLane
<1>1. IInv => NoOrphanLane
  BY DEF IInv, OwnInv
<1> QED
  BY <1>1, RegistryInvariant, PTL

\* registry.go, shutdown: a removal that has come back leaves its lane without a
\* worker, a job or a turn, whatever was sent to it meanwhile.
THEOREM RemovalsQuiesce ==
  ASSUME RegistryAssumption
  PROVE  Spec => []RemovalQuiesces
<1>1. IInv => RemovalQuiesces
  BY DEF IInv, OwnInv
<1> QED
  BY <1>1, RegistryInvariant, PTL

\* sessions.go, POST "session archived": what was archived with nothing in flight
\* is never woken again.
THEOREM SealedSessionsStayQuiet ==
  ASSUME RegistryAssumption
  PROVE  Spec => []SealedStaysQuiet
<1>1. IInv => SealedStaysQuiet
  BY DEF IInv, SealedIsStill, SealedStaysQuiet
<1> QED
  BY <1>1, RegistryInvariant, PTL

=============================================================================
