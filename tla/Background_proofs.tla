------------------------- MODULE Background_proofs -------------------------
(***************************************************************************)
(* Proofs about the services of the server, each over its own variables,   *)
(* and that what is proved of a service holds of the server that runs them *)
(* all: a step of the server is a step of the service or leaves it alone.  *)
(***************************************************************************)
EXTENDS Background, Sequences, FiniteSetTheorems, TLAPS

allVars == <<part, wakeupVars, evalVars, dreamVars, roomVars>>

-----------------------------------------------------------------------------
(***************************************************************************)
(* Wakeups: no schedule leaves the table undelivered, a one-shot is queued *)
(* twice only after a failure, and requests that pass the check on the cap *)
(* together overrun it by a bounded number of rows.                        *)
(***************************************************************************)
\* The instance counts as FiniteSets does.
LEMMA SameCount ==
  \A S : W!Cardinality(S) = Cardinality(S) /\ (W!IsFiniteSet(S) <=> IsFiniteSet(S))
BY Zenon DEF W!Cardinality, Cardinality, IsFiniteSet, W!IsFiniteSet

LEMMA FewCallers ==
  ASSUME W!WakeupAssumption
  PROVE  IsFiniteSet(Callers)
BY SameCount DEF W!WakeupAssumption

\* The row that was fired and not settled may already leave the table.
HeadAccounted == head # None => fired[head] > 0 \/ head \in excused

\* Nothing is queued for a schedule that was not created.
OnlyCreatedFired == \A i \in Ids \ ever : fired[i] = 0

OneShots == {i \in ever : sched[i].kind = "one_shot"}

\* Before anything fails, a one-shot that was queued is about to be deleted, or is.
QueuedOnce ==
  faults = 0 =>
    \A i \in OneShots : /\ fired[i] <= 1
                        /\ i \in due => fired[i] = 0
                        /\ fired[i] = 1 /\ i \in live => head = i

\* The requests that have passed the check for s and not inserted their row.
Passed(s) == {c \in Callers : calls[c] = s}

\* Each of these may add one row.
RoomPromised ==
  /\ IsFiniteSet(live)
  /\ \A s \in Sessions :
       Cardinality(W!Pending(s)) + Cardinality(Passed(s)) < Cap + Cardinality(Callers)

-----------------------------------------------------------------------------
LEMMA InitType ==
  ASSUME W!WakeupAssumption, W!Init
  PROVE  W!WakeupsTypeOK
<1> DEFINE s0 == CHOOSE s \in Sessions : TRUE
<1>1. s0 \in Sessions
  BY DEF W!WakeupAssumption
<1> QED
  BY <1>1 DEF W!Init, W!WakeupsTypeOK, W!Kinds

LEMMA NextType ==
  ASSUME W!WakeupAssumption, W!WakeupsTypeOK, [W!Next]_(W!wvars)
  PROVE  W!WakeupsTypeOK'
<1> USE DEF W!WakeupAssumption, W!WakeupsTypeOK, W!Kinds
<1>1. ASSUME NEW c \in Callers, NEW s \in Sessions, W!ScheduleCheck(c, s)
      PROVE  W!WakeupsTypeOK'
  BY <1>1 DEF W!ScheduleCheck
<1>2. ASSUME NEW c \in Callers, W!ScheduleCreate(c)
      PROVE  W!WakeupsTypeOK'
  BY <1>2 DEF W!ScheduleCreate
<1>3. ASSUME NEW i \in Ids, W!CancelWakeup(i)
      PROVE  W!WakeupsTypeOK'
  BY <1>3 DEF W!CancelWakeup
<1>4. ASSUME NEW i \in Ids, W!Fire(i)
      PROVE  W!WakeupsTypeOK'
  <2>1. i \in ever
    BY <1>4 DEF W!Fire, W!AtHead
  <2>2. fired' \in [Ids -> Nat] /\ excused' \subseteq ever
    <3>1. CASE sched[i].session \in archived
      BY <1>4, <2>1, <3>1 DEF W!Fire
    <3>2. CASE sched[i].session \notin archived
      <4>1. fired' = [fired EXCEPT ![i] = @ + 1] /\ excused' = excused
        BY <1>4, <3>2 DEF W!Fire
      <4>2. fired[i] + 1 \in Nat
        OBVIOUS
      <4> QED
        BY <4>1, <4>2, <2>1
    <3> QED
      BY <3>1, <3>2
  <2> QED
    BY <1>4, <2>1, <2>2 DEF W!Fire
<1>5. ASSUME NEW i \in Ids, W!FireFails(i)
      PROVE  W!WakeupsTypeOK'
  BY <1>5 DEF W!FireFails, W!AtHead, W!Fault
<1>6. ASSUME NEW s \in Sessions, W!ArchiveSession(s)
      PROVE  W!WakeupsTypeOK'
  BY <1>6 DEF W!ArchiveSession
<1>7. CASE W!Tick
  BY <1>7 DEF W!Tick, W!DueRows
<1>8. CASE W!Settle
  BY <1>8 DEF W!Settle
<1>9. CASE W!SettleFails
  BY <1>9 DEF W!SettleFails, W!Fault
<1>10. CASE W!Crash
  BY <1>10 DEF W!Crash, W!Fault
<1>11. CASE W!Clock
  BY <1>11 DEF W!Clock
<1>12. CASE UNCHANGED (W!wvars)
  BY <1>12 DEF W!wvars
<1> QED
  BY <1>1, <1>2, <1>3, <1>4, <1>5, <1>6, <1>7, <1>8, <1>9, <1>10, <1>11, <1>12
  DEF W!Next

\* The rows and what they say have their types, in every state the code reaches.
THEOREM WakeupsTypeCorrect ==
  ASSUME W!WakeupAssumption
  PROVE  W!Spec => []W!WakeupsTypeOK
<1>1. W!Init => W!WakeupsTypeOK
  BY InitType
<1>2. W!WakeupsTypeOK /\ [W!Next]_(W!wvars) => W!WakeupsTypeOK'
  BY NextType
<1> QED
  BY <1>1, <1>2, PTL DEF W!Spec

-----------------------------------------------------------------------------
\* The first half of WakeupsDelivered: only Settle and CancelWakeup take a row.
Delivered == \A i \in ever \ live : fired[i] > 0 \/ i \in excused

LEMMA NextDelivered ==
  ASSUME W!WakeupAssumption, W!WakeupsTypeOK, Delivered, HeadAccounted, [W!Next]_(W!wvars)
  PROVE  Delivered' /\ HeadAccounted'
<1> USE DEF W!WakeupAssumption, W!WakeupsTypeOK, Delivered, HeadAccounted
<1>1. ASSUME NEW i \in Ids, W!CancelWakeup(i)
      PROVE  Delivered' /\ HeadAccounted'
  BY <1>1 DEF W!CancelWakeup
<1>2. ASSUME NEW i \in Ids, W!Fire(i)
      PROVE  Delivered' /\ HeadAccounted'
  <2>1. /\ \A j \in Ids : fired[j] > 0 => fired'[j] > 0
        /\ excused \subseteq excused'
        /\ fired'[i] > 0 \/ i \in excused'
    <3>1. CASE sched[i].session \in archived
      BY <1>2, <3>1 DEF W!Fire
    <3>2. CASE sched[i].session \notin archived
      BY <1>2, <3>2 DEF W!Fire
    <3> QED
      BY <3>1, <3>2
  <2>2. head' = i /\ ever' = ever /\ live' = live
    BY <1>2 DEF W!Fire
  <2> QED
    BY <2>1, <2>2
<1>3. ASSUME NEW i \in Ids, W!FireFails(i)
      PROVE  Delivered' /\ HeadAccounted'
  BY <1>3 DEF W!FireFails, W!AtHead, W!Fault
<1>4. CASE W!Settle
  <2>1. /\ ever' = ever /\ fired' = fired /\ excused' = excused /\ head' = None
        /\ live \subseteq live' \cup {head} /\ head # None
    BY <1>4 DEF W!Settle
  <2> QED
    BY <2>1
<1>5. CASE W!Tick \/ W!SettleFails \/ W!Crash \/ W!Clock \/ UNCHANGED (W!wvars)
  BY <1>5 DEF W!Tick, W!SettleFails, W!Crash, W!Clock, W!Fault, W!wvars
<1>6. ASSUME NEW c \in Callers, NEW s \in Sessions,
             W!ScheduleCheck(c, s) \/ W!ArchiveSession(s)
      PROVE  Delivered' /\ HeadAccounted'
  BY <1>6 DEF W!ScheduleCheck, W!ArchiveSession
<1>7. ASSUME NEW c \in Callers, W!ScheduleCreate(c)
      PROVE  Delivered' /\ HeadAccounted'
  <2>1. /\ fired' = fired /\ excused' = excused /\ head' = head
        /\ ever' \ live' \subseteq ever \ live
    BY <1>7 DEF W!ScheduleCreate
  <2> QED
    BY <2>1
<1>8. PICK c \in Callers : TRUE
  OBVIOUS
<1> QED
  BY <1>1, <1>2, <1>3, <1>4, <1>5, <1>6, <1>7, <1>8 DEF W!Next

-----------------------------------------------------------------------------
\* The second half: a fault ends the claim, and without one Fire and Settle of a
\* schedule follow each other, so no tick lists a one-shot that was queued.
LEMMA NextOnce ==
  ASSUME W!WakeupAssumption, W!WakeupsTypeOK, OnlyCreatedFired, QueuedOnce, [W!Next]_(W!wvars)
  PROVE  OnlyCreatedFired' /\ QueuedOnce'
<1> USE DEF W!WakeupAssumption, W!WakeupsTypeOK, OnlyCreatedFired, QueuedOnce, OneShots, W!Kinds
<1>1. ASSUME NEW i \in Ids, W!CancelWakeup(i)
      PROVE  OnlyCreatedFired' /\ QueuedOnce'
  BY <1>1 DEF W!CancelWakeup
<1>2. ASSUME NEW i \in Ids, W!Fire(i)
      PROVE  OnlyCreatedFired' /\ QueuedOnce'
  <2>1. i \in ever /\ i \in due /\ head = None
    BY <1>2 DEF W!Fire, W!AtHead
  <2>2. UNCHANGED <<ever, live, sched, faults>> /\ head' = i /\ due' = due \ {i}
    BY <1>2 DEF W!Fire
  <2>3. \/ fired' = fired
        \/ fired' = [fired EXCEPT ![i] = @ + 1]
    BY <1>2 DEF W!Fire
  <2>4. ASSUME NEW j \in Ids
        PROVE  fired'[j] = fired[j] \/ (j = i /\ fired'[j] = fired[j] + 1)
    BY <2>3
  <2>5. OnlyCreatedFired'
    BY <2>1, <2>2, <2>4
  <2>6. ASSUME faults' = 0, NEW j \in OneShots'
        PROVE  /\ fired'[j] <= 1
               /\ j \in due' => fired'[j] = 0
               /\ fired'[j] = 1 /\ j \in live' => head' = j
    <3>1. j \in OneShots /\ faults = 0 /\ fired[j] \in Nat /\ j \in Ids
      BY <2>2, <2>6
    <3>2. CASE j = i
      BY <2>1, <2>2, <2>4, <3>1, <3>2
    <3>3. CASE j # i
      BY <2>1, <2>2, <2>4, <3>1, <3>3
    <3> QED
      BY <3>2, <3>3
  <2> QED
    BY <2>5, <2>6
<1>3. ASSUME NEW i \in Ids, W!FireFails(i)
      PROVE  OnlyCreatedFired' /\ QueuedOnce'
  <2>1. faults' # 0 /\ ever' = ever /\ i \in ever
    BY <1>3 DEF W!FireFails, W!AtHead, W!Fault
  <2>2. \A j \in Ids \ ever : fired'[j] = fired[j]
    BY <1>3, <2>1 DEF W!FireFails
  <2> QED
    BY <2>1, <2>2
<1>4. CASE W!Settle
  <2>1. /\ UNCHANGED <<ever, fired, due, faults>> /\ head' = None /\ head \in ever
        /\ live' \subseteq live
        /\ \A j \in Ids : sched'[j].kind = sched[j].kind
    BY <1>4 DEF W!Settle
  <2>2. head \notin live' \/ sched[head].kind # "one_shot"
    BY <1>4 DEF W!Settle
  <2> QED
    BY <2>1, <2>2
<1>5. CASE W!Tick
  <2>1. /\ UNCHANGED <<ever, live, sched, fired, faults, head>> /\ head = None
        /\ due' \subseteq live
    BY <1>5 DEF W!Tick, W!DueRows
  <2> QED
    BY <2>1
<1>6. CASE W!SettleFails \/ W!Crash
  BY <1>6 DEF W!SettleFails, W!Crash, W!Fault
<1>7. CASE W!Clock \/ UNCHANGED (W!wvars)
  BY <1>7 DEF W!Clock, W!wvars
<1>8. ASSUME NEW c \in Callers, NEW s \in Sessions,
             W!ScheduleCheck(c, s) \/ W!ArchiveSession(s)
      PROVE  OnlyCreatedFired' /\ QueuedOnce'
  BY <1>8 DEF W!ScheduleCheck, W!ArchiveSession
<1>9. ASSUME NEW c \in Callers, W!ScheduleCreate(c)
      PROVE  OnlyCreatedFired' /\ QueuedOnce'
  <2>1. PICK i \in Ids \ ever : /\ ever' = ever \cup {i} /\ live' = live \cup {i}
                                /\ \A j \in Ids : j # i => sched'[j] = sched[j]
    BY <1>9 DEF W!ScheduleCreate
  <2>2. UNCHANGED <<fired, due, head, faults>> /\ fired[i] = 0
    BY <1>9, <2>1 DEF W!ScheduleCreate
  <2> QED
    BY <2>1, <2>2
<1>10. PICK c \in Callers : TRUE
  OBVIOUS
<1> QED
  BY <1>1, <1>2, <1>3, <1>4, <1>5, <1>6, <1>7, <1>8, <1>9, <1>10 DEF W!Next

\* wakeup_worker.go, fire and then delete: no schedule leaves the table unless it was
\* queued, cancelled, or due in an archived session, whatever failed in between; and
\* a one-shot is queued again only after a failure.
THEOREM WakeupsAreDelivered ==
  ASSUME W!WakeupAssumption
  PROVE  W!Spec => []W!WakeupsDelivered
<1> DEFINE IInv == W!WakeupsTypeOK /\ Delivered /\ HeadAccounted
                   /\ OnlyCreatedFired /\ QueuedOnce
<1>1. W!Init => IInv
  <2> SUFFICES ASSUME W!Init PROVE IInv
    OBVIOUS
  <2>1. W!WakeupsTypeOK
    BY InitType
  <2>2. Delivered /\ HeadAccounted /\ OnlyCreatedFired /\ QueuedOnce
    BY DEF W!Init, Delivered, HeadAccounted, OnlyCreatedFired, QueuedOnce, OneShots
  <2> QED
    BY <2>1, <2>2
<1>2. IInv /\ [W!Next]_(W!wvars) => IInv'
  BY NextType, NextDelivered, NextOnce
<1>3. IInv => W!WakeupsDelivered
  <2> SUFFICES ASSUME IInv PROVE W!WakeupsDelivered
    OBVIOUS
  <2>1. \A i \in ever : sched[i].kind = "one_shot" /\ fired[i] > 1 => faults > 0
    BY DEF W!WakeupsTypeOK, QueuedOnce, OneShots
  <2> QED
    BY <2>1 DEF W!WakeupsDelivered, Delivered
<1> QED
  BY <1>1, <1>2, <1>3, PTL DEF W!Spec

-----------------------------------------------------------------------------
\* What a step does to the rows and the promises of one session: neither grows but
\* by a request that passes the check, or that turns its promise into a row.
LEMMA NextCap ==
  ASSUME W!WakeupAssumption, W!WakeupsTypeOK, RoomPromised, [W!Next]_(W!wvars)
  PROVE  RoomPromised'
<1> USE DEF W!WakeupAssumption, W!WakeupsTypeOK
<1>1. /\ \A s \in Sessions : IsFiniteSet(W!Pending(s)) /\ IsFiniteSet(Passed(s))
      /\ \A s \in Sessions : Cardinality(W!Pending(s)) \in Nat /\ Cardinality(Passed(s)) \in Nat
      /\ Cardinality(Callers) \in Nat
  <2>1. \A s \in Sessions : W!Pending(s) \in SUBSET live /\ Passed(s) \in SUBSET Callers
    BY DEF W!Pending, Passed
  <2>2. \A s \in Sessions : IsFiniteSet(W!Pending(s)) /\ IsFiniteSet(Passed(s))
    BY <2>1, FewCallers, FS_Subset DEF RoomPromised
  <2> QED
    BY <2>2, FewCallers, FS_CardinalityType
<1>2. ASSUME IsFiniteSet(live'),
             \A s \in Sessions : W!Pending(s)' \subseteq W!Pending(s)
                                 /\ Passed(s)' \subseteq Passed(s)
      PROVE  RoomPromised'
  <2> SUFFICES ASSUME NEW s \in Sessions
               PROVE  Cardinality(W!Pending(s)') + Cardinality(Passed(s)')
                        < Cap + Cardinality(Callers)
    BY <1>2 DEF RoomPromised
  <2>1. /\ IsFiniteSet(W!Pending(s)') /\ IsFiniteSet(Passed(s)')
        /\ Cardinality(W!Pending(s)') <= Cardinality(W!Pending(s))
        /\ Cardinality(Passed(s)') <= Cardinality(Passed(s))
    BY <1>1, <1>2, FS_Subset
  <2>2. Cardinality(W!Pending(s)') \in Nat /\ Cardinality(Passed(s)') \in Nat
    BY <2>1, FS_CardinalityType
  <2> QED
    BY <1>1, <2>1, <2>2 DEF RoomPromised
<1>3. ASSUME NEW c \in Callers, NEW t \in Sessions, W!ScheduleCheck(c, t)
      PROVE  RoomPromised'
  <2> SUFFICES ASSUME NEW s \in Sessions
               PROVE  Cardinality(W!Pending(s)') + Cardinality(Passed(s)')
                        < Cap + Cardinality(Callers)
    BY <1>3 DEF RoomPromised, W!ScheduleCheck
  <2>1. W!Pending(s)' = W!Pending(s)
    BY <1>3 DEF W!ScheduleCheck, W!Pending
  <2>2. CASE s = t
    <3>1. Cardinality(W!Pending(s)) < Cap
      BY <1>3, <2>2, SameCount DEF W!ScheduleCheck, W!BelowCap
    <3>2. Passed(s)' \in SUBSET Callers
      BY DEF Passed
    <3>3. IsFiniteSet(Passed(s)') /\ Cardinality(Passed(s)') <= Cardinality(Callers)
      BY <3>2, FewCallers, FS_Subset
    <3>4. Cardinality(Passed(s)') \in Nat
      BY <3>3, FS_CardinalityType
    <3> QED
      BY <1>1, <2>1, <3>1, <3>3, <3>4
  <2>3. CASE s # t
    <3>1. Passed(s)' = Passed(s)
      BY <1>3, <2>3 DEF W!ScheduleCheck, Passed
    <3> QED
      BY <2>1, <3>1 DEF RoomPromised
  <2> QED
    BY <2>2, <2>3
<1>4. ASSUME NEW c \in Callers, W!ScheduleCreate(c)
      PROVE  RoomPromised'
  <2>1. PICK i \in Ids \ ever :
          /\ live' = live \cup {i} /\ i \notin live /\ sched'[i].session = calls[c]
          /\ \A j \in Ids : j # i => sched'[j] = sched[j]
    BY <1>4 DEF W!ScheduleCreate
  <2>2. calls[c] \in Sessions /\ calls' = [calls EXCEPT ![c] = None]
    BY <1>4 DEF W!ScheduleCreate
  <2>3. IsFiniteSet(live')
    BY <2>1, FS_AddElement DEF RoomPromised
  <2> SUFFICES ASSUME NEW s \in Sessions
               PROVE  Cardinality(W!Pending(s)') + Cardinality(Passed(s)')
                        < Cap + Cardinality(Callers)
    BY <2>3 DEF RoomPromised
  <2>4. CASE s = calls[c]
    <3>1. W!Pending(s)' = W!Pending(s) \cup {i} /\ i \notin W!Pending(s)
      BY <2>1, <2>4 DEF W!Pending
    <3>2. Passed(s)' = Passed(s) \ {c} /\ c \in Passed(s)
      BY <2>2, <2>4 DEF Passed
    <3>3. Cardinality(W!Pending(s)') = Cardinality(W!Pending(s)) + 1
      BY <1>1, <3>1, FS_AddElement
    <3>4. Cardinality(Passed(s)') = Cardinality(Passed(s)) - 1
      <4>1. IsFiniteSet(Passed(s))
        BY <1>1
      <4>2. \A S, x : IsFiniteSet(S) /\ x \in S
                     => Cardinality(S \ {x}) = Cardinality(S) - 1
        BY FS_RemoveElement
      <4> QED
        BY <3>2, <4>1, <4>2
    <3> QED
      BY <1>1, <3>3, <3>4 DEF RoomPromised
  <2>5. CASE s # calls[c]
    <3>1. W!Pending(s)' = W!Pending(s)
      BY <2>1, <2>5 DEF W!Pending
    <3>2. Passed(s)' = Passed(s)
      BY <2>2, <2>5 DEF Passed
    <3> QED
      BY <3>1, <3>2 DEF RoomPromised
  <2> QED
    BY <2>4, <2>5
<1>5. ASSUME live' \subseteq live, \A j \in Ids : sched'[j].session = sched[j].session,
             \A d \in Callers : calls'[d] \in {calls[d], None}
      PROVE  RoomPromised'
  <2>1. IsFiniteSet(live')
    BY <1>5, FS_Subset DEF RoomPromised
  <2>2. \A s \in Sessions : W!Pending(s)' \subseteq W!Pending(s) /\ Passed(s)' \subseteq Passed(s)
    BY <1>5 DEF W!Pending, Passed
  <2> QED
    BY <1>2, <2>1, <2>2
<1>6. ASSUME NEW i \in Ids, W!CancelWakeup(i) \/ W!Fire(i) \/ W!FireFails(i)
      PROVE  RoomPromised'
  BY <1>5, <1>6 DEF W!CancelWakeup, W!Fire, W!FireFails
<1>7. CASE W!Settle
  BY <1>5, <1>7 DEF W!Settle
<1>8. CASE W!Tick \/ W!SettleFails \/ W!Crash \/ W!Clock \/ UNCHANGED (W!wvars)
  BY <1>5, <1>8 DEF W!Tick, W!SettleFails, W!Crash, W!Clock, W!wvars
<1>9. ASSUME NEW s \in Sessions, W!ArchiveSession(s)
      PROVE  RoomPromised'
  BY <1>5, <1>9 DEF W!ArchiveSession
<1> QED
  BY <1>3, <1>4, <1>6, <1>7, <1>8, <1>9 DEF W!Next

\* wakeup.go "pending wakeup cap reached": requests that pass the check together
\* overrun the cap, by fewer rows than there are requests at once.
THEOREM CapIsOverrunBoundedly ==
  ASSUME W!WakeupAssumption
  PROVE  W!Spec => []W!CapOverrun
<1> DEFINE IInv == W!WakeupsTypeOK /\ RoomPromised
<1>1. W!Init => IInv
  <2> SUFFICES ASSUME W!Init PROVE IInv
    OBVIOUS
  <2>1. W!WakeupsTypeOK
    BY InitType
  <2>2. IsFiniteSet(live) /\ \A s \in Sessions : W!Pending(s) = {} /\ Passed(s) = {}
    BY FS_EmptySet DEF W!Init, W!Pending, Passed, W!WakeupAssumption
  <2>3. Cardinality({}) = 0 /\ Cardinality(Callers) \in Nat /\ Cap \in Nat \ {0}
    BY FewCallers, FS_EmptySet, FS_CardinalityType DEF W!WakeupAssumption
  <2>4. \A s \in Sessions : Cardinality(W!Pending(s)) = 0 /\ Cardinality(Passed(s)) = 0
    BY <2>2, <2>3, Zenon
  <2>5. 0 + 0 < Cap + Cardinality(Callers)
    BY <2>3
  <2> QED
    BY <2>1, <2>2, <2>4, <2>5 DEF RoomPromised
<1>2. IInv /\ [W!Next]_(W!wvars) => IInv'
  BY NextType, NextCap
<1>3. IInv => W!CapOverrun
  <2> SUFFICES ASSUME IInv, NEW s \in Sessions
               PROVE  Cardinality(W!Pending(s)) < Cap + Cardinality(Callers)
    BY SameCount DEF W!CapOverrun
  <2>1. W!Pending(s) \in SUBSET live /\ Passed(s) \in SUBSET Callers
    BY DEF W!Pending, Passed
  <2>2. IsFiniteSet(W!Pending(s)) /\ IsFiniteSet(Passed(s)) /\ IsFiniteSet(Callers)
    BY <2>1, FewCallers, FS_Subset DEF RoomPromised
  <2>3. /\ Cardinality(W!Pending(s)) \in Nat /\ Cardinality(Passed(s)) \in Nat
        /\ Cardinality(Callers) \in Nat
    BY <2>2, FS_CardinalityType
  <2> QED
    BY <2>3 DEF RoomPromised, W!WakeupAssumption
<1> QED
  BY <1>1, <1>2, <1>3, PTL DEF W!Spec

-----------------------------------------------------------------------------
(***************************************************************************)
(* Dreams: the output store of a completed dream holds every memory that   *)
(* was listed, a large one as an empty one, if the request and a tick were *)
(* never at work at once.                                                  *)
(***************************************************************************)
\* One activation at a time, by assumption of what follows.
OneAtWork == \E p \in D!Procs : procs[p].at = "rest"

\* A dream that runs has a store, and it is the one that is written to.
WritesToOutput ==
  /\ dream.status \in {"running", "completed"} => dream.output # None
  /\ \A p \in D!Procs :
       /\ procs[p].at \in {"create", "mark"} => dream.output = None
       /\ procs[p].at \in {"mark", "again", "write"} => procs[p].store # None
       /\ procs[p].at \in {"again", "write"} /\ dream.status = "running" =>
            procs[p].store = dream.output

\* What is listed and no longer to do is in the store.
WrittenSoFar ==
  \A p \in D!Procs : procs[p].at = "write" =>
    \A m \in Paths : procs[p].listed[m] # None /\ m \notin procs[p].todo =>
      outputs[procs[p].store][m] = D!Inline(procs[p].listed[m])

\* When the dream has completed nobody is at work.
CompletedRests ==
  dream.status = "completed" =>
    /\ \A p \in D!Procs : procs[p].at = "rest"
    /\ \A m \in Paths : copied[m] # None => outputs[dream.output][m] = D!Inline(copied[m])

Undisturbed == OneAtWork /\ WritesToOutput /\ WrittenSoFar /\ CompletedRests

DreamInv == D!DreamTypeOK /\ (~doubled => Undisturbed)

-----------------------------------------------------------------------------
LEMMA InitDream ==
  ASSUME D!DreamAssumption, D!Init
  PROVE  DreamInv
<1> DEFINE c0 == CHOOSE c \in Contents : TRUE
<1>1. c0 \in Contents
  BY DEF D!DreamAssumption
<1>2. D!Empty \in D!Memories /\ [p \in Paths |-> c0] \in D!Memories
  BY <1>1 DEF D!Empty, D!Memories
<1>3. outputs = <<>> /\ outputs \in Seq(D!Memories) /\ Len(outputs) = 0
  BY DEF D!Init
<1>4. D!DreamTypeOK
  BY <1>2, <1>3 DEF D!Init, D!DreamTypeOK, D!Statuses, D!Points, D!Stores, D!Rest, D!Procs
<1>5. Undisturbed
  BY <1>3 DEF D!Init, Undisturbed, OneAtWork, WritesToOutput, WrittenSoFar,
              CompletedRests, D!Rest, D!Procs
<1> QED
  BY <1>4, <1>5 DEF DreamInv

\* Where an activation may be and what it may hold.
ProcType == [at : D!Points, store : D!Stores, todo : SUBSET Paths, listed : D!Memories]

LEMMA RestType ==
  ASSUME D!DreamAssumption
  PROVE  D!Empty \in D!Memories /\ D!Rest \in ProcType /\ D!Rest.at = "rest"
BY DEF D!Empty, D!Memories, D!Rest, ProcType, D!Points, D!Stores

\* A step of p leaves the other activation where it is.
LEMMA StepType ==
  ASSUME D!DreamTypeOK, NEW p \in D!Procs, NEW r \in ProcType', D!Stores \subseteq D!Stores',
         procs' = [procs EXCEPT ![p] = r],
         UNCHANGED <<input, cancel>>, outputs' \in Seq(D!Memories),
         dream' \in [status : D!Statuses, output : D!Stores'],
         doubled' \in BOOLEAN, copied' \in D!Memories, edits' \in Nat, lost' \in Nat
  PROVE  D!DreamTypeOK'
<1>1. \A q \in D!Procs : procs[q] \in ProcType'
  <2>1. ProcType \subseteq ProcType'
    BY DEF ProcType
  <2> QED
    BY <2>1 DEF D!DreamTypeOK, ProcType
<1>2. procs' \in [D!Procs -> ProcType']
  BY <1>1 DEF D!DreamTypeOK
<1>3. D!Memories' = D!Memories
  BY DEF D!Memories
<1> QED
  BY <1>2, <1>3 DEF D!DreamTypeOK, ProcType

\* And the other one is at rest, so p's part of the invariant is all there is.
LEMMA StepUndisturbed ==
  ASSUME D!DreamTypeOK, Undisturbed, NEW p \in D!Procs, procs[p].at # "rest",
         NEW r, procs' = [procs EXCEPT ![p] = r],
         dream'.status \in {"running", "completed"} => dream'.output # None,
         r.at \in {"create", "mark"} => dream'.output = None,
         r.at \in {"mark", "again", "write"} => r.store # None,
         r.at \in {"again", "write"} /\ dream'.status = "running" =>
           r.store = dream'.output,
         r.at = "write" =>
           \A m \in Paths : r.listed[m] # None /\ m \notin r.todo =>
             outputs'[r.store][m] = D!Inline(r.listed[m]),
         dream'.status = "completed" =>
           /\ r.at = "rest"
           /\ \A m \in Paths : copied'[m] # None => outputs'[dream'.output][m] = D!Inline(copied'[m])
  PROVE  Undisturbed'
<1>1. PICK q \in D!Procs : q # p /\ procs[q].at = "rest"
  BY DEF Undisturbed, OneAtWork, D!Procs
<1>2. /\ D!Procs = {p, q} /\ procs'[p] = r /\ procs'[q] = procs[q]
      /\ procs'[q].at = "rest"
  BY <1>1 DEF D!DreamTypeOK, D!Procs
<1>3. OneAtWork'
  BY <1>2 DEF OneAtWork
<1>4. WritesToOutput'
  BY <1>2 DEF WritesToOutput
<1>5. WrittenSoFar'
  BY <1>2 DEF WrittenSoFar
<1>6. CompletedRests'
  BY <1>2 DEF CompletedRests
<1> QED
  BY <1>3, <1>4, <1>5, <1>6 DEF Undisturbed

LEMMA NextProcess ==
  ASSUME D!DreamAssumption, DreamInv, NEW p \in D!Procs, D!Process(p)
  PROVE  DreamInv'
<1> USE DEF D!Goes, D!World
<1>1. /\ D!DreamTypeOK /\ procs[p] \in ProcType /\ dream.status \in D!Statuses
      /\ dream.output \in D!Stores /\ input.memories \in D!Memories
      /\ (~doubled => Undisturbed)
  BY DEF DreamInv, D!DreamTypeOK, ProcType
<1>2. D!Rest \in ProcType /\ D!Rest.at = "rest"
  BY RestType
<1>3. ASSUME NEW r \in ProcType', procs' = [procs EXCEPT ![p] = r],
             D!Stores \subseteq D!Stores', outputs' \in Seq(D!Memories), D!World' = D!World,
             dream' \in [status : D!Statuses, output : D!Stores'], copied' \in D!Memories,
             doubled' = doubled, ~doubled => Undisturbed'
      PROVE  DreamInv'
  <2>1. /\ UNCHANGED <<input, cancel>> /\ edits' \in Nat /\ lost' \in Nat
        /\ doubled' \in BOOLEAN
    BY <1>1, <1>3 DEF D!DreamTypeOK
  <2>2. D!DreamTypeOK'
    BY <1>1, <1>3, <2>1, StepType
  <2> QED
    BY <1>3, <2>2 DEF DreamInv
<1>4. CASE D!Get(p)
  <2> DEFINE r == [procs[p] EXCEPT !.store = dream.output,
                     !.at = IF dream.output = None THEN "create" ELSE "again"]
  <2>1. /\ procs[p].at = "get"
        /\ UNCHANGED <<outputs, copied, doubled, D!World>>
        /\ \/ procs' = [procs EXCEPT ![p] = D!Rest] /\ dream' \in {dream, D!MarkFailed}
           \/ D!Active /\ procs' = [procs EXCEPT ![p] = r] /\ dream' = dream
    BY <1>4 DEF D!Get, D!Returns, D!World
  <2>2. dream' \in [status : D!Statuses, output : D!Stores']
        /\ dream'.output = dream.output
        /\ (dream'.status = dream.status \/ dream'.status = "failed")
    BY <1>1, <2>1 DEF D!MarkFailed, D!Statuses, D!DreamTypeOK, D!Stores
  <2>3. /\ r \in ProcType /\ r.store = dream.output
        /\ r.at = IF dream.output = None THEN "create" ELSE "again"
        /\ D!Stores' = D!Stores /\ ProcType' = ProcType
    BY <1>1, <2>1 DEF ProcType, D!Points, D!Stores, D!Memories
  <2>4. ~doubled => Undisturbed'
    <3> SUFFICES ASSUME ~doubled PROVE Undisturbed'
      OBVIOUS
    <3>1. Undisturbed /\ dream.status \in {"running", "completed"} => dream.output # None
      BY <1>1 DEF Undisturbed, WritesToOutput
    <3>2. CASE procs' = [procs EXCEPT ![p] = D!Rest]
      <4>1. Undisturbed /\ dream.status # "completed"
        BY <1>1, <2>1 DEF Undisturbed, CompletedRests
      <4> QED
        BY <1>1, <1>2, <2>1, <2>2, <3>1, <3>2, <4>1, StepUndisturbed
    <3>3. CASE D!Active /\ procs' = [procs EXCEPT ![p] = r] /\ dream' = dream
      <4>1. dream.status # "completed"
        BY <3>3 DEF D!Active
      <4> HIDE DEF r
      <4> QED
        BY <1>1, <2>1, <2>3, <3>1, <3>3, <4>1, StepUndisturbed
    <3> QED
      BY <2>1, <3>2, <3>3
  <2>5. \E x \in ProcType' : procs' = [procs EXCEPT ![p] = x]
    BY <1>2, <2>1, <2>3
  <2> QED
    BY <1>1, <1>3, <2>1, <2>2, <2>3, <2>4, <2>5 DEF D!DreamTypeOK
<1>5. CASE D!CreateStore(p)
  <2> DEFINE r == [procs[p] EXCEPT !.store = Len(outputs) + 1, !.at = "mark"]
  <2>1. /\ procs[p].at = "create" /\ procs' = [procs EXCEPT ![p] = r]
        /\ outputs' = Append(outputs, D!Empty) /\ UNCHANGED <<dream, copied, doubled, D!World>>
    BY <1>5 DEF D!CreateStore
  <2>2. Len(outputs) \in Nat /\ Len(outputs') = Len(outputs) + 1
        /\ outputs' \in Seq(D!Memories)
        /\ \A i \in 1..Len(outputs) : outputs'[i] = outputs[i]
    BY <1>1, <2>1, RestType DEF D!DreamTypeOK
  <2>3. D!Stores \subseteq D!Stores' /\ r \in ProcType'
    <3>1. D!Stores \subseteq D!Stores' /\ Len(outputs) + 1 \in D!Stores'
      BY <2>2 DEF D!Stores
    <3> QED
      BY <1>1, <3>1 DEF ProcType, D!Points, D!Memories
  <2>4. ~doubled => Undisturbed'
    <3> SUFFICES ASSUME ~doubled PROVE Undisturbed'
      OBVIOUS
    <3>1. Undisturbed /\ dream.output = None /\ dream.status # "completed"
      BY <1>1, <2>1 DEF Undisturbed, WritesToOutput, CompletedRests
    <3>2. r.at = "mark" /\ r.store = Len(outputs) + 1 /\ r.store # None
      BY <1>1, <2>2 DEF ProcType, D!DreamAssumption
    <3> QED
      BY <1>1, <2>1, <3>1, <3>2, StepUndisturbed DEF Undisturbed, WritesToOutput
  <2>5. dream' \in [status : D!Statuses, output : D!Stores']
    BY <1>1, <2>1, <2>3 DEF D!DreamTypeOK
  <2> QED
    BY <1>1, <1>3, <2>1, <2>2, <2>3, <2>4, <2>5 DEF D!DreamTypeOK
<1>6. CASE D!MarkRunning(p)
  <2> DEFINE r == [procs[p] EXCEPT !.at = "again"]
  <2>1. /\ procs[p].at = "mark" /\ procs' = [procs EXCEPT ![p] = r]
        /\ dream' = IF dream.status = "pending"
                    THEN [status |-> "running", output |-> procs[p].store] ELSE dream
        /\ UNCHANGED <<outputs, copied, doubled, D!World>>
    BY <1>6 DEF D!MarkRunning
  <2>2. r \in ProcType' /\ r.at = "again" /\ r.store = procs[p].store
        /\ D!Stores' = D!Stores /\ procs[p].store \in D!Stores
    BY <1>1, <2>1 DEF ProcType, D!Points, D!Stores, D!Memories
  <2>3. dream' \in [status : D!Statuses, output : D!Stores']
    BY <1>1, <2>1, <2>2 DEF D!DreamTypeOK, D!Statuses
  <2>4. ~doubled => Undisturbed'
    <3> SUFFICES ASSUME ~doubled PROVE Undisturbed'
      OBVIOUS
    <3>1. /\ Undisturbed /\ dream.output = None /\ procs[p].store # None
          /\ dream.status \notin {"running", "completed"}
      BY <1>1, <2>1 DEF Undisturbed, WritesToOutput
    <3> QED
      BY <1>1, <2>1, <2>2, <3>1, StepUndisturbed
  <2> QED
    BY <1>1, <1>3, <2>1, <2>2, <2>3, <2>4 DEF D!DreamTypeOK
<1>7. CASE D!GetAgain(p)
  <2> DEFINE r == [procs[p] EXCEPT !.at = "write", !.listed = input.memories,
                     !.todo = D!ToCopy(p)]
  <2>1. /\ procs[p].at = "again" /\ UNCHANGED <<dream, outputs, copied, doubled, D!World>>
        /\ \/ procs' = [procs EXCEPT ![p] = D!Rest]
           \/ dream.status = "running" /\ procs' = [procs EXCEPT ![p] = r]
    BY <1>7 DEF D!GetAgain
  <2>2. /\ r \in ProcType /\ r.at = "write" /\ r.store = procs[p].store
        /\ r.listed = input.memories
        /\ r.todo = {m \in Paths : input.memories[m] # None}
    BY <1>1 DEF ProcType, D!Points, D!Stores, D!Memories, D!ToCopy
  <2>3. D!Stores' = D!Stores /\ ProcType' = ProcType
    BY <2>1 DEF ProcType, D!Stores
  <2>4. ~doubled => Undisturbed'
    <3> SUFFICES ASSUME ~doubled PROVE Undisturbed'
      OBVIOUS
    <3>1. Undisturbed /\ WritesToOutput /\ dream.status # "completed"
      BY <1>1, <2>1 DEF Undisturbed, CompletedRests
    <3>2. CASE procs' = [procs EXCEPT ![p] = D!Rest]
      BY <1>1, <1>2, <2>1, <3>1, <3>2, StepUndisturbed DEF WritesToOutput
    <3>3. CASE dream.status = "running" /\ procs' = [procs EXCEPT ![p] = r]
      <4>1. r.store = dream.output /\ dream.output # None
        BY <2>1, <2>2, <3>1, <3>3 DEF WritesToOutput
      <4> HIDE DEF r
      <4> QED
        BY <1>1, <2>1, <2>2, <3>1, <3>3, <4>1, StepUndisturbed
    <3> QED
      BY <2>1, <3>2, <3>3
  <2>5. \E x \in ProcType' : procs' = [procs EXCEPT ![p] = x]
    BY <1>2, <2>1, <2>2, <2>3
  <2> QED
    BY <1>1, <1>3, <2>1, <2>3, <2>4, <2>5 DEF D!DreamTypeOK
<1>8. CASE D!WriteMemory(p)
  <2>1. PICK m \in procs[p].todo :
          /\ procs[p].at = "write"
          /\ outputs' = [outputs EXCEPT ![procs[p].store][m] = D!Inline(procs[p].listed[m])]
          /\ procs' = [procs EXCEPT ![p] = [procs[p] EXCEPT !.todo = @ \ {m}]]
          /\ UNCHANGED <<dream, copied, doubled, D!World>>
    BY <1>8 DEF D!WriteMemory
  <2> DEFINE r == [procs[p] EXCEPT !.todo = @ \ {m}]
  <2>2. /\ r.at = "write" /\ r.store = procs[p].store /\ r.listed = procs[p].listed
        /\ r.todo = procs[p].todo \ {m} /\ m \in Paths
        /\ procs[p].listed[m] \in Contents \cup {None}
        /\ D!Inline(procs[p].listed[m]) \in Contents \cup {None}
    BY <1>1, <2>1 DEF ProcType, D!Memories, D!Inline, D!DreamAssumption
  <2>3. /\ outputs' \in Seq(D!Memories) /\ Len(outputs') = Len(outputs)
        /\ Len(outputs) \in Nat
        /\ \A i \in 1..Len(outputs) : outputs[i] \in D!Memories
        /\ \A i \in 1..Len(outputs) :
             outputs'[i] = IF i = procs[p].store
                           THEN [outputs[i] EXCEPT ![m] = D!Inline(procs[p].listed[m])]
                           ELSE outputs[i]
    <3>1. /\ outputs \in Seq(D!Memories) /\ Len(outputs) \in Nat
          /\ \A i \in 1..Len(outputs) : outputs[i] \in D!Memories
      BY <1>1 DEF D!DreamTypeOK
    <3>2. \A i \in 1..Len(outputs) :
            [outputs[i] EXCEPT ![m] = D!Inline(procs[p].listed[m])] \in D!Memories
      BY <2>2, <3>1 DEF D!Memories
    <3>3. outputs = [i \in 1..Len(outputs) |-> outputs[i]]
      BY <3>1
    <3>4. /\ outputs' = [i \in 1..Len(outputs) |->
                         IF i = procs[p].store
                         THEN [outputs[i] EXCEPT ![m] = D!Inline(procs[p].listed[m])]
                         ELSE outputs[i]]
      BY <2>1, <3>3
    <3>5. \A i \in 1..Len(outputs) : outputs'[i] \in D!Memories
      BY <3>1, <3>2, <3>4
    <3>6. outputs' \in Seq(D!Memories) /\ Len(outputs') = Len(outputs)
      BY <3>1, <3>4, <3>5
    <3> QED
      BY <3>1, <3>4, <3>6
  <2>4. D!Stores' = D!Stores /\ r \in ProcType'
    BY <1>1, <2>1, <2>2, <2>3 DEF D!Stores, ProcType, D!Memories
  <2>5. ~doubled => Undisturbed'
    <3> SUFFICES ASSUME ~doubled PROVE Undisturbed'
      OBVIOUS
    <3>1. /\ Undisturbed /\ WritesToOutput /\ WrittenSoFar
          /\ dream.status # "completed" /\ procs[p].store \in 1..Len(outputs)
      BY <1>1, <2>1 DEF Undisturbed, CompletedRests, WritesToOutput, ProcType, D!Stores
    <3>2. \A n \in Paths : r.listed[n] # None /\ n \notin r.todo =>
            outputs'[r.store][n] = D!Inline(r.listed[n])
      BY <2>1, <2>2, <2>3, <3>1 DEF WrittenSoFar, D!Memories
    <3> QED
      BY <1>1, <2>1, <2>2, <3>1, <3>2, StepUndisturbed DEF WritesToOutput
  <2> QED
    BY <1>1, <1>3, <2>1, <2>3, <2>4, <2>5 DEF D!DreamTypeOK
<1>9. CASE D!MarkCompleted(p)
  <2>1. /\ procs[p].at = "write" /\ procs[p].todo = {}
        /\ UNCHANGED <<outputs, doubled, D!World>> /\ procs' = [procs EXCEPT ![p] = D!Rest]
        /\ \/ /\ dream.status = "running" /\ copied' = procs[p].listed
              /\ dream' = [dream EXCEPT !.status = "completed"]
           \/ dream.status # "running" /\ copied' = copied /\ dream' \in {dream, D!MarkFailed}
    BY <1>9 DEF D!MarkCompleted, D!Returns
  <2>2. /\ dream' \in [status : D!Statuses, output : D!Stores'] /\ D!Stores' = D!Stores
        /\ copied' \in D!Memories /\ dream'.output = dream.output
        /\ dream'.status \in {dream.status, "failed", "completed"}
        /\ dream'.status = "completed" /\ dream.status # "completed" =>
             dream.status = "running" /\ copied' = procs[p].listed
    BY <1>1, <2>1 DEF D!MarkFailed, D!Statuses, D!DreamTypeOK, D!Stores, ProcType
  <2>3. ~doubled => Undisturbed'
    <3> SUFFICES ASSUME ~doubled PROVE Undisturbed'
      OBVIOUS
    <3>1. Undisturbed /\ WritesToOutput /\ WrittenSoFar /\ dream.status # "completed"
      BY <1>1, <2>1 DEF Undisturbed, CompletedRests
    <3>2. dream'.status = "completed" =>
            \A m \in Paths : copied'[m] # None => outputs'[dream'.output][m] = D!Inline(copied'[m])
      BY <2>1, <2>2, <3>1 DEF WritesToOutput, WrittenSoFar
    <3> QED
      BY <1>1, <1>2, <2>1, <2>2, <3>1, <3>2, StepUndisturbed DEF WritesToOutput
  <2> QED
    BY <1>1, <1>2, <1>3, <2>1, <2>2, <2>3 DEF D!DreamTypeOK, ProcType, D!Stores
<1>10. CASE D!StepFails(p)
  <2>1. /\ procs[p].at # "rest" /\ procs' = [procs EXCEPT ![p] = D!Rest]
        /\ dream' \in {dream, D!MarkFailed} /\ lost' = lost + 1
        /\ UNCHANGED <<input, outputs, cancel, copied, doubled, edits>>
    BY <1>10 DEF D!StepFails, D!Returns
  <2>2. /\ dream' \in [status : D!Statuses, output : D!Stores'] /\ D!Stores' = D!Stores
        /\ dream'.output = dream.output
        /\ dream'.status \in {dream.status, "failed"}
    BY <1>1, <2>1 DEF D!MarkFailed, D!Statuses, D!DreamTypeOK, D!Stores
  <2>3. D!DreamTypeOK'
    BY <1>1, <1>2, <2>1, <2>2, StepType DEF D!DreamTypeOK, ProcType, D!Stores
  <2>4. ~doubled => Undisturbed'
    <3> SUFFICES ASSUME ~doubled PROVE Undisturbed'
      OBVIOUS
    <3>1. Undisturbed /\ WritesToOutput /\ dream.status # "completed"
      BY <1>1, <2>1 DEF Undisturbed, CompletedRests
    <3> QED
      BY <1>1, <1>2, <2>1, <2>2, <3>1, StepUndisturbed DEF WritesToOutput
  <2> QED
    BY <2>1, <2>3, <2>4 DEF DreamInv
<1> QED
  BY <1>4, <1>5, <1>6, <1>7, <1>8, <1>9, <1>10 DEF D!Process

LEMMA NextDream ==
  ASSUME D!DreamAssumption, DreamInv, [D!Next]_(D!dvars)
  PROVE  DreamInv'
<1>1. D!DreamTypeOK /\ (~doubled => Undisturbed)
  BY DEF DreamInv
<1>2. ASSUME NEW p \in D!Procs, D!Process(p)
      PROVE  DreamInv'
  BY <1>2, NextProcess
<1>3. CASE D!Tick
  <2> DEFINE r == [D!Rest EXCEPT !.at = "get"]
  <2>1. /\ procs["ticker"].at = "rest" /\ D!Active
        /\ procs' = [procs EXCEPT !["ticker"] = r]
        /\ doubled' = (doubled \/ procs["request"].at # "rest")
        /\ UNCHANGED <<dream, outputs, copied, input, cancel, edits, lost>>
    BY <1>3 DEF D!Tick, D!Goes, D!World
  <2>2. r \in ProcType' /\ r.at = "get" /\ D!Stores' = D!Stores
    BY <2>1, RestType DEF ProcType, D!Points, D!Stores, D!Memories, D!Rest
  <2>3. "ticker" \in D!Procs /\ doubled' \in BOOLEAN
    BY <1>1, <2>1 DEF D!Procs, D!DreamTypeOK
  <2>4. D!DreamTypeOK'
    BY <1>1, <2>1, <2>2, <2>3, StepType DEF D!DreamTypeOK
  <2>5. ASSUME ~doubled'
        PROVE  Undisturbed'
    <3>1. /\ Undisturbed /\ procs'["request"] = procs["request"]
          /\ procs'["request"].at = "rest" /\ procs'["ticker"] = r
          /\ dream.status # "completed"
      BY <1>1, <2>1, <2>5 DEF D!DreamTypeOK, D!Procs, D!Active
    <3>2. \A p \in D!Procs : procs'[p].at \in {"rest", "get"}
      BY <2>2, <3>1 DEF D!Procs
    <3> QED
      BY <2>1, <3>1, <3>2 DEF Undisturbed, OneAtWork, WritesToOutput, WrittenSoFar,
                              CompletedRests, D!Procs
  <2> QED
    BY <2>4, <2>5 DEF DreamInv
<1>4. CASE D!Crash
  <2>1. /\ \A p \in D!Procs : procs'[p] = D!Rest
        /\ procs' = [p \in D!Procs |-> D!Rest] /\ cancel' = FALSE /\ lost' = lost + 1
        /\ UNCHANGED <<dream, input, outputs, copied, doubled, edits>>
    BY <1>4 DEF D!Crash
  <2>2. D!DreamTypeOK'
    <3>1. D!Rest \in ProcType' /\ D!Stores' = D!Stores /\ lost' \in Nat
      BY <1>1, <2>1, RestType DEF D!DreamTypeOK, ProcType, D!Stores
    <3>2. procs' \in [D!Procs -> ProcType']
      BY <2>1, <3>1
    <3> QED
      BY <1>1, <2>1, <3>1, <3>2 DEF D!DreamTypeOK, ProcType, D!Memories
  <2>3. Undisturbed => Undisturbed'
    BY <2>1, RestType DEF Undisturbed, OneAtWork, WritesToOutput, WrittenSoFar,
                          CompletedRests, D!Procs
  <2> QED
    BY <1>1, <2>1, <2>2, <2>3 DEF DreamInv
<1>5. CASE D!CancelRead \/ D!Cancel
  <2>1. /\ UNCHANGED <<input, outputs, procs, copied, doubled, edits, lost>>
        /\ cancel' \in BOOLEAN
        /\ dream' \in {dream, [dream EXCEPT !.status = "canceled"]}
    BY <1>5 DEF D!CancelRead, D!Cancel
  <2>2. D!DreamTypeOK'
    BY <1>1, <2>1 DEF D!DreamTypeOK, D!Stores, D!Statuses
  <2>3. dream'.output = dream.output /\ dream'.status \in {dream.status, "canceled"}
    BY <1>1, <2>1 DEF D!DreamTypeOK
  <2>4. Undisturbed => Undisturbed'
    BY <2>1, <2>3 DEF Undisturbed, OneAtWork, WritesToOutput, WrittenSoFar, CompletedRests
  <2> QED
    BY <1>1, <2>1, <2>2, <2>4 DEF DreamInv
<1>6. CASE D!EditInput \/ UNCHANGED (D!dvars)
  <2>1. /\ UNCHANGED <<dream, outputs, procs, cancel, copied, doubled, lost>>
        /\ edits' \in Nat /\ input' \in [memories : D!Memories, there : BOOLEAN]
    <3>1. CASE D!EditInput
      <4>1. input' \in [memories : D!Memories, there : BOOLEAN]
        <5>1. ASSUME NEW m \in Paths, NEW c \in Contents \cup {None},
                     input' = [input EXCEPT !.memories[m] = c]
              PROVE  input' \in [memories : D!Memories, there : BOOLEAN]
          <6>1. [input.memories EXCEPT ![m] = c] \in D!Memories
            BY <1>1 DEF D!DreamTypeOK, D!Memories
          <6> QED
            BY <1>1, <5>1, <6>1 DEF D!DreamTypeOK
        <5>2. CASE input' = [input EXCEPT !.there = FALSE]
          BY <1>1, <5>2 DEF D!DreamTypeOK
        <5> QED
          BY <3>1, <5>1, <5>2 DEF D!EditInput
      <4> QED
        BY <1>1, <3>1, <4>1 DEF D!EditInput, D!DreamTypeOK
    <3>2. CASE UNCHANGED (D!dvars)
      BY <1>1, <3>2 DEF D!DreamTypeOK, D!dvars
    <3> QED
      BY <1>6, <3>1, <3>2
  <2>2. D!DreamTypeOK'
    BY <1>1, <2>1 DEF D!DreamTypeOK, D!Stores
  <2>3. Undisturbed => Undisturbed'
    BY <2>1 DEF Undisturbed, OneAtWork, WritesToOutput, WrittenSoFar, CompletedRests
  <2> QED
    BY <1>1, <2>1, <2>2, <2>3 DEF DreamInv
<1> QED
  BY <1>2, <1>3, <1>4, <1>5, <1>6 DEF D!Next

\* worker.go, the loop over ListMemories: the output store of a completed dream holds
\* every memory that was listed, a small one whole and one over 4 KB as an empty one,
\* however often the dream was interrupted and taken up again, unless the request and
\* a tick worked on it at once.
THEOREM CompletedDreamsAreCopies ==
  ASSUME D!DreamAssumption
  PROVE  D!Spec => []D!CompletedCopies
<1>1. D!Init => DreamInv
  BY InitDream
<1>2. DreamInv /\ [D!Next]_(D!dvars) => DreamInv'
  BY NextDream
<1>3. DreamInv => D!CompletedCopies
  BY DEF DreamInv, Undisturbed, CompletedRests, D!CompletedCopies
<1> QED
  BY <1>1, <1>2, <1>3, PTL DEF D!Spec

-----------------------------------------------------------------------------
(***************************************************************************)
(* The server.                                                             *)
(***************************************************************************)
\* Of the steps of the server only the wakeups' own move their state.
LEMMA ServerRunsWakeups == Spec => W!Spec
<1>1. Init => W!Init
  BY DEF Init
<1>2. [Next]_allVars => [W!Next]_(W!wvars)
  BY DEF Next, Wakes, Evals, Dreams, Runtime, allVars, wakeupVars, W!wvars
<1> QED BY <1>1, <1>2, PTL DEF Spec, W!Spec, allVars

LEMMA ServerRunsDreams == Spec => D!Spec
<1>1. Init => D!Init
  BY DEF Init
<1>2. [Next]_allVars => [D!Next]_(D!dvars)
  BY DEF Next, Wakes, Evals, Dreams, Runtime, allVars, dreamVars, D!dvars
<1> QED BY <1>1, <1>2, PTL DEF Spec, D!Spec, allVars

\* wakeup_worker.go, fire and then delete: in the whole server a schedule leaves
\* the table only when it was queued, cancelled or due in an archived session, and
\* a one-shot is queued again only after a failure.
THEOREM ServerDeliversWakeups == Spec => []WakeupsDelivered
<1>1. W!WakeupAssumption
  BY BackgroundAssumption DEF BackgroundAssumption
<1>2. W!Spec => []W!WakeupsDelivered
  BY <1>1, WakeupsAreDelivered
<1> QED BY <1>2, ServerRunsWakeups, PTL DEF WakeupsDelivered

\* wakeup.go "pending wakeup cap reached": in the whole server concurrent requests
\* overrun the cap by fewer rows than there are requests.
THEOREM ServerBoundsCap == Spec => []CapOverrun
<1>1. W!WakeupAssumption
  BY BackgroundAssumption DEF BackgroundAssumption
<1>2. W!Spec => []W!CapOverrun
  BY <1>1, CapIsOverrunBoundedly
<1> QED BY <1>2, ServerRunsWakeups, PTL DEF CapOverrun

\* worker.go, the loop over ListMemories: in the whole server a dream that was worked
\* on by one activation at a time has every memory that was listed, the large ones as
\* empty ones.
THEOREM ServerCopiesDreams == Spec => []CompletedCopies
<1>1. D!DreamAssumption
  BY BackgroundAssumption DEF BackgroundAssumption
<1>2. D!Spec => []D!CompletedCopies
  BY <1>1, CompletedDreamsAreCopies
<1> QED BY <1>2, ServerRunsDreams, PTL DEF CompletedCopies

-----------------------------------------------------------------------------
(***************************************************************************)
(* The rooms of the local runtimes.                                        *)
(***************************************************************************)
\* A connection that was attached once is never accepted again.
NewestStarted == newest # None => phase[newest] \notin {"none", "upgrade"}

RoomInv == R!RoomTypeOK /\ NewestStarted /\ R!NewestIsDaemon

LEMMA InitRoom ==
  ASSUME R!RoomAssumption, R!Init
  PROVE  RoomInv
BY DEF R!Init, RoomInv, R!RoomTypeOK, NewestStarted, R!NewestIsDaemon, R!Serving, R!RoomAssumption

LEMMA NextRoom ==
  ASSUME R!RoomAssumption, RoomInv, [R!Next]_(R!rvars)
  PROVE  RoomInv'
<1> USE DEF R!RoomAssumption, RoomInv, R!RoomTypeOK, NewestStarted, R!NewestIsDaemon, R!Serving, R!Goes
<1>1. ASSUME NEW c \in Conns, R!AttachDaemon(c)
      PROVE  RoomInv'
  <2>1. phase[c] = "none" /\ c # newest /\ UNCHANGED <<newest, row>>
    BY <1>1 DEF R!AttachDaemon
  <2>2. CASE daemon' = daemon
    BY <1>1, <2>1, <2>2 DEF R!AttachDaemon
  <2>3. CASE daemon' # daemon
    <3>1. /\ daemon # None /\ daemon' = None
          /\ peer' = [peer EXCEPT ![daemon] = FALSE, ![c] = TRUE]
          /\ phase' = [phase EXCEPT ![c] = "upgrade"]
      BY <1>1, <2>3 DEF R!AttachDaemon
    <3>2. newest # None => phase'[newest] = phase[newest]
      BY <2>1, <3>1
    <3>3. newest # None /\ newest = daemon => ~peer'[newest]
      BY <2>1, <3>1
    <3>4. newest # None /\ newest # daemon => peer'[newest] = peer[newest]
      BY <2>1, <3>1
    <3>5. R!RoomTypeOK'
      BY <2>1, <3>1
    <3> QED
      BY <2>1, <3>1, <3>2, <3>3, <3>4, <3>5
  <2> QED
    BY <2>2, <2>3
<1>2. ASSUME NEW c \in Conns, R!UpgradeFails(c)
      PROVE  RoomInv'
  BY <1>2 DEF R!UpgradeFails
<1>3. ASSUME NEW c \in Conns, R!Attached(c)
      PROVE  RoomInv'
  BY <1>3 DEF R!Attached
<1>4. ASSUME NEW c \in Conns, R!MarkRuntimeOnline(c)
      PROVE  RoomInv'
  BY <1>4 DEF R!MarkRuntimeOnline
<1>5. ASSUME NEW c \in Conns, R!OnDaemonMessage(c)
      PROVE  RoomInv'
  BY <1>5 DEF R!OnDaemonMessage, R!TouchRuntimeHeartbeat
<1>6. ASSUME NEW c \in Conns, R!ReadFails(c)
      PROVE  RoomInv'
  BY <1>6 DEF R!ReadFails, R!Left
<1>7. ASSUME NEW c \in Conns, R!MarkRuntimeOffline(c)
      PROVE  RoomInv'
  BY <1>7 DEF R!MarkRuntimeOffline
<1>8. ASSUME NEW c \in Conns, R!PeerLeaves(c)
      PROVE  RoomInv'
  BY <1>8 DEF R!PeerLeaves
<1>9. CASE UNCHANGED (R!rvars)
  BY <1>9 DEF R!rvars
<1> QED
  BY <1>1, <1>2, <1>3, <1>4, <1>5, <1>6, <1>7, <1>8, <1>9 DEF R!Next

\* room.go, readDaemon "if room.daemon == conn": while the connection that was
\* attached last is there the room writes to it, whatever older ones clean up.
THEOREM RoomWritesToNewest == Spec => []R!NewestIsDaemon
<1>1. R!RoomAssumption
  BY BackgroundAssumption DEF BackgroundAssumption
<1>2. Init => RoomInv
  BY <1>1, InitRoom DEF Init
<1>3. RoomInv /\ [Next]_allVars => RoomInv'
  <2> SUFFICES ASSUME RoomInv, [Next]_allVars PROVE RoomInv'
    OBVIOUS
  <2>1. CASE Runtime
    BY <1>1, <2>1, NextRoom DEF Runtime
  <2>2. CASE Wakes \/ Evals \/ Dreams \/ UNCHANGED allVars
    BY <1>1, <2>2, NextRoom DEF Wakes, Evals, Dreams, allVars, roomVars, R!rvars
  <2> QED BY <2>1, <2>2 DEF Next
<1>4. RoomInv => R!NewestIsDaemon
  BY DEF RoomInv
<1> QED BY <1>2, <1>3, <1>4, PTL DEF Spec, allVars
=============================================================================
