-------------------------- MODULE SessionView_proofs --------------------------
(***************************************************************************)
(* The session page shows the events of the log once and in their order,   *)
(* all of them when nothing is under way, and the pill says what the log   *)
(* says.  The argument is in the two readers: a page of the history starts *)
(* where the page before it ended, and what the stream has under way has   *)
(* no hole in front of what is already shown; so whichever of them brings  *)
(* an event, the events before it are there.                               *)
(***************************************************************************)
EXTENDS SessionView, FiniteSetTheorems, WellFoundedInduction, TLAPS

EventItems == [kind : {"event"}, sess : Sessions, n : Nat]
FrameItems == [kind : FrameKinds, ref : Messages]
FrameKeys  == [kind : FrameKinds, ref : {None}]

PageStates ==
  [shown : Seq(EventItems), keys : SUBSET (EventItems \cup FrameKeys),
   outbox : SUBSET Messages, local : Messages \cup {None},
   status : {"idle", "running"}, stopped : BOOLEAN, tools : SUBSET Tools,
   threads : SUBSET Children, thought : Seq(Items \cup {None})]

Requests ==
       [what : {"history"}, sess : Sessions, after : Nat, from : Nat]
  \cup [what : {"threads"}, sess : Sessions, from : Nat]
  \cup [what : {"pending", "tools"}, sess : Sessions]
  \cup [what : {"rows"}, sess : Sessions, rows : SUBSET Messages]

-----------------------------------------------------------------------------
(***************************************************************************)
(* The inductive invariant.                                                *)
(***************************************************************************)
\* The server: the log of a session in a turn has begun one and not ended it, and a
\* promotion under way has stored its event.
ServerOK ==
  /\ log \in [Sessions -> Seq(Events)]
  /\ queue \in [Sessions -> SUBSET Messages]
  /\ \A s \in Sessions : IsFiniteSet(queue[s])
  /\ turn \in [Sessions -> {"rest", "running", "thinking"}]
  /\ moving \in [Sessions -> Messages \cup {None}]
  /\ \A s \in Sessions : /\ turn[s] # "rest" => Unended(log[s])
                         /\ moving[s] # None => Len(log[s]) > 0

\* The view shows each event once, and its keys are those of what it shows.
PageOK(v, l) ==
  /\ v \in PageStates
  /\ \A i, j \in DOMAIN v.shown : v.shown[i] = v.shown[j] => i = j
  /\ \A x \in v.keys : x.kind = "event" => \E i \in DOMAIN v.shown : v.shown[i] = x
  /\ \A i \in DOMAIN v.shown : /\ v.shown[i] \in v.keys
                               /\ v.shown[i].n \in Canonical(l[v.shown[i].sess])

\* What is shown of session s leaves no event out and is in the order of the log.
InOrder(v, l, s) ==
  /\ \A m, n \in Canonical(l[s]) :
       m < n /\ Stored(s, n) \in v.keys => Stored(s, m) \in v.keys
  /\ \A i, j \in DOMAIN v.shown :
       i < j /\ v.shown[i].sess = s /\ v.shown[j].sess = s
         => v.shown[i].n < v.shown[j].n

\* The pill is that of the last running, idle or error event shown.
StatusOK(v, l, s) ==
  (~v.stopped /\ \A i \in DOMAIN v.shown : v.shown[i].sess = s) =>
    (v.status = "running" <=>
       \E i \in DOMAIN v.shown :
         /\ l[s][v.shown[i].n].kind = "running"
         /\ \A j \in DOMAIN v.shown :
              v.shown[j].n > v.shown[i].n
                => l[s][v.shown[j].n].kind \notin {"idle", "error"})

\* A request names no event the log has not had.
CallsOK(cs, l) ==
  /\ cs \subseteq Requests
  /\ \A c \in cs : /\ c.what = "history" => c.after <= c.from
                   /\ c.what \in {"history", "threads"} => c.from <= Len(l[c.sess])

\* A page of the history has been added before the next one is asked for.
PagesOK(v, cs, l, s) ==
  \A c \in cs : c.what = "history" /\ c.sess = s =>
    \A n \in Canonical(l[s]) : n <= c.after => Stored(s, n) \in v.keys

\* The frames under way are of the session that is open.
StreamOK(l, s) ==
  /\ conn \in {"connecting", "replaying", "live", "waiting", "dead"}
  /\ replay \in Seq(Items) /\ buffer \in Seq(Items) /\ Len(buffer) <= HubBuffer
  /\ conn # "live" => replay = <<>>
  /\ ~Subscribed => buffer = <<>>
  /\ \A i \in DOMAIN replay : /\ replay[i].kind = "event" /\ replay[i].sess = s
                              /\ replay[i].n \in DOMAIN l[s]
  /\ \A i \in DOMAIN buffer : buffer[i].kind = "event" =>
                                buffer[i].sess = s /\ buffer[i].n \in DOMAIN l[s]

Pipe == replay \o buffer

\* Event n of session s is shown or among the first k frames under way.
Comes(v, s, n, k) ==
  Stored(s, n) \in v.keys \/ \E j \in DOMAIN Pipe : j <= k /\ Pipe[j] = Stored(s, n)

\* No frame under way overtakes an event before it.
NoHole(v, l, s) ==
  \A i \in DOMAIN Pipe : Pipe[i].kind = "event" =>
    \A n \in Canonical(l[s]) : n < Pipe[i].n => Comes(v, s, n, i - 1)

\* How much of the log of session s has been published.
Announced(l, mv, s) == IF mv[s] = None THEN Len(l[s]) ELSE Len(l[s]) - 1

\* Of what has been published, what is not shown is under way.
Covered(v, l, mv, s) ==
  \A n \in Canonical(l[s]) : n <= Announced(l, mv, s) => Comes(v, s, n, Len(Pipe))

Rest ==
  /\ current \in Sessions /\ unsent \subseteq Messages
  /\ post = None \/ post \in [msg : Messages, sess : Sessions, at : {"sent", "queued"}]
  /\ stopping = None \/ stopping \in [sess : Sessions, at : {"sent", "served"}]
  /\ gap \in BOOLEAN /\ faults \in 0..MaxFaults

Ordered ==
  ~gap => /\ InOrder(view, log, current) /\ StatusOK(view, log, current)
          /\ PagesOK(view, calls, log, current)

Flowing ==
  (~gap /\ conn = "live") => /\ NoHole(view, log, current)
                             /\ Covered(view, log, moving, current)

IInv == /\ ServerOK /\ Rest /\ PageOK(view, log) /\ CallsOK(calls, log)
        /\ StreamOK(log, current) /\ Ordered /\ Flowing

-----------------------------------------------------------------------------
(***************************************************************************)
(* Induction over the natural numbers, and the fold of a page.             *)
(***************************************************************************)
\* A set of numbers that is not empty has a least element.
LEMMA LeastOf ==
  ASSUME NEW S \in SUBSET Nat, S # {}
  PROVE  \E x \in S : \A y \in S : x <= y
<1> DEFINE R == OpToRel(<, Nat)
<1>1. IsWellFoundedOn(R, Nat)
  BY NatLessThanWellFounded
<1>2. \A x, y \in Nat : x < y => <<x, y>> \in R
  BY DEF OpToRel
<1> HIDE DEF R
<1>3. PICK x \in S : \A y \in S : ~ (<<y, x>> \in R)
  BY <1>1, WFMin
<1>4. \A y \in S : ~ (y < x)
  BY <1>2, <1>3
<1> QED BY <1>4

\* A set with 0 that has the successor of each number in it has every number.
LEMMA Induct ==
  ASSUME NEW S, 0 \in S, \A n \in Nat : n \in S => n + 1 \in S
  PROVE  Nat \subseteq S
<1> SUFFICES ASSUME NEW n \in Nat, n \notin S PROVE FALSE
  OBVIOUS
<1> DEFINE T == {k \in Nat : k \notin S}
<1>1. PICK x \in T : \A y \in T : x <= y
  <2> T \in SUBSET Nat /\ T # {} OBVIOUS
  <2> HIDE DEF T
  <2> QED BY LeastOf
<1>2. x # 0 /\ x \in Nat /\ x - 1 \in Nat /\ x - 1 \in S
  BY <1>1
<1> QED BY <1>1, <1>2

\* AddAll adds the events one after the other: the recursive function it is
\* defined by exists and satisfies its equation.
LEMMA AddAllSteps ==
  ASSUME NEW v, NEW xs, Len(xs) \in Nat
  PROVE  \E f : /\ f[0] = v
                /\ \A i \in 1..Len(xs) : f[i] = AddEvent(f[i-1], xs[i])
                /\ AddAll(v, xs) = f[Len(xs)]
<1> DEFINE E(f, m) ==
      f = [i \in 0..m |-> IF i = 0 THEN v ELSE AddEvent(f[i-1], xs[i])]
    S == {m \in Nat : \E f : E(f, m)}
<1>1. 0 \in S
  <2> DEFINE f == [i \in 0..0 |-> v]
  <2> f = [i \in 0..0 |-> IF i = 0 THEN v ELSE AddEvent(f[i-1], xs[i])]
    OBVIOUS
  <2> QED OBVIOUS
<1>2. ASSUME NEW m \in Nat, m \in S PROVE m + 1 \in S
  <2>1. PICK f : E(f, m)
    BY <1>2
  <2> DEFINE g == [i \in 0..(m+1) |->
                     IF i = m+1 THEN AddEvent(f[m], xs[i]) ELSE f[i]]
  <2>2. ASSUME NEW i \in 0..(m+1)
        PROVE  g[i] = IF i = 0 THEN v ELSE AddEvent(g[i-1], xs[i])
    <3>1. CASE i = 0
      <4>1. g[i] = f[0] BY <3>1
      <4>2. f[0] = v BY <2>1
      <4> QED BY <4>1, <4>2, <3>1
    <3>2. CASE i \in 1..m
      <4>1. g[i] = f[i] /\ g[i-1] = f[i-1] BY <3>2
      <4>2. f[i] = AddEvent(f[i-1], xs[i]) BY <2>1, <3>2
      <4> QED BY <4>1, <4>2, <3>2
    <3>3. CASE i = m + 1
      <4>1. g[i] = AddEvent(f[m], xs[i]) /\ g[i-1] = f[m] BY <3>3
      <4> QED BY <4>1, <3>3
    <3> QED BY <3>1, <3>2, <3>3
  <2>3. E(g, m + 1)
    BY <2>2
  <2> HIDE DEF g
  <2> QED BY <2>3
<1>3. Nat \subseteq S
  <2> HIDE DEF S
  <2> QED BY <1>1, <1>2, Induct
<1> DEFINE F == CHOOSE f : E(f, Len(xs))
<1>4. E(F, Len(xs))
  <2>1. \E f : E(f, Len(xs))
    BY <1>3
  <2> HIDE DEF E
  <2> QED BY <2>1
<1>5. AddAll(v, xs) = F[Len(xs)]
  BY DEF AddAll
<1> HIDE DEF F
<1>6. /\ F[0] = v
      /\ \A i \in 1..Len(xs) : F[i] = AddEvent(F[i-1], xs[i])
  BY <1>4
<1> QED BY <1>5, <1>6

-----------------------------------------------------------------------------
(***************************************************************************)
(* The operators of the model.                                             *)
(***************************************************************************)
\* The fields of an event that is seen: the shown events and their keys stay, the
\* status is that of a running, idle or error event, and an interrupt stops.
LEMMA EventSeenFacts ==
  ASSUME NEW v \in PageStates, NEW e \in Events
  PROVE  /\ EventSeen(v, e) \in PageStates
         /\ EventSeen(v, e).shown = v.shown /\ EventSeen(v, e).keys = v.keys
         /\ e.kind = "running" => EventSeen(v, e).status = "running"
         /\ e.kind \in {"idle", "error"} => EventSeen(v, e).status = "idle"
         /\ e.kind \notin {"running", "idle", "error"} => EventSeen(v, e).status = v.status
         /\ ~EventSeen(v, e).stopped => ~v.stopped
<1>1. CASE e.kind = "running" BY <1>1 DEF EventSeen, PageStates
<1>2. CASE e.kind = "idle" BY <1>2 DEF EventSeen, PageStates
<1>3. CASE e.kind = "error" BY <1>3 DEF EventSeen, PageStates
<1>4. CASE e.kind = "interrupt" BY <1>4 DEF EventSeen, PageStates
<1>5. CASE e.kind = "thread_created"
  <2>1. e.ref \in Children BY <1>5 DEF Events
  <2> QED BY <1>5, <2>1 DEF EventSeen, PageStates
<1>6. CASE e.kind \notin {"running", "idle", "error", "interrupt", "thread_created"}
  BY <1>6 DEF EventSeen, PageStates
<1> QED BY <1>1, <1>2, <1>3, <1>4, <1>5, <1>6

\* A frame about a queued row changes the outbox and the bubble alone.
LEMMA FrameSeenFacts ==
  ASSUME NEW v \in PageStates, NEW x \in FrameItems
  PROVE  /\ FrameSeen(v, x) \in PageStates
         /\ FrameSeen(v, x).shown = v.shown /\ FrameSeen(v, x).keys = v.keys
         /\ FrameSeen(v, x).status = v.status /\ FrameSeen(v, x).stopped = v.stopped
<1>1. x.ref \in Messages BY DEF FrameItems
<1>2. Claim(v.local, x.ref) \in Messages \cup {None} BY DEF Claim, PageStates
<1>3. CASE x.kind = "pending" BY <1>1, <1>2, <1>3 DEF FrameSeen, PageStates
<1>4. CASE x.kind # "pending" BY <1>1, <1>4 DEF FrameSeen, PageStates
<1> QED BY <1>3, <1>4

\* The text of a thinking block changes nothing else.
LEMMA ThoughtFacts ==
  ASSUME NEW v \in PageStates, NEW x \in Items
  PROVE  /\ Streamed(v, x) \in PageStates /\ Closed(v, x) \in PageStates
         /\ \A w \in {Streamed(v, x), Closed(v, x)} :
              /\ w.shown = v.shown /\ w.keys = v.keys
              /\ w.status = v.status /\ w.stopped = v.stopped
<1>1. NotThinking \in Seq(Items \cup {None}) BY DEF NotThinking
<1>2. /\ <<x>> \in Seq(Items \cup {None})
      /\ Append(v.thought, x) \in Seq(Items \cup {None})
  BY DEF PageStates
<1> HIDE DEF Items
<1>3. Streamed(v, x) \in PageStates /\ Closed(v, x) \in PageStates
  <2> DEFINE q == IF v.thought = NotThinking THEN <<x>> ELSE Append(v.thought, x)
  <2>1. Streamed(v, x) = [v EXCEPT !.thought = q]
    BY DEF Streamed
  <2>2. q \in Seq(Items \cup {None}) BY <1>2
  <2> HIDE DEF q
  <2>3. Streamed(v, x) \in PageStates BY <2>1, <2>2 DEF PageStates
  <2>4. Closed(v, x) = v \/ Closed(v, x) = [v EXCEPT !.thought = NotThinking]
    BY DEF Closed
  <2> QED BY <1>1, <2>3, <2>4 DEF PageStates
<1>4. /\ Streamed(v, x).shown = v.shown /\ Streamed(v, x).keys = v.keys
      /\ Streamed(v, x).status = v.status /\ Streamed(v, x).stopped = v.stopped
  BY DEF Streamed, PageStates
<1>5. /\ Closed(v, x).shown = v.shown /\ Closed(v, x).keys = v.keys
      /\ Closed(v, x).status = v.status /\ Closed(v, x).stopped = v.stopped
  BY DEF Closed, PageStates
<1> QED BY <1>3, <1>4, <1>5

\* What a frame or an event does to the shown events and to their keys.
LEMMA AddEventFacts ==
  ASSUME NEW v \in PageStates, NEW x \in Items, log \in [Sessions -> Seq(Events)],
         x.kind = "event" => x.n \in DOMAIN log[x.sess]
  PROVE  LET w == AddEvent(v, x) IN
         /\ w \in PageStates
         /\ x.kind = "event" \/ x \in FrameItems
         /\ \/ /\ w.shown = v.shown /\ w.keys = v.keys
               /\ w.status = v.status /\ w.stopped = v.stopped
               /\ x.kind = "event" => What(x).kind \in Transient \/ x \in v.keys
            \/ /\ x.kind # "event" /\ w.keys = v.keys \cup {Key(x)}
               /\ w.shown = v.shown /\ w.status = v.status /\ w.stopped = v.stopped
            \/ /\ x.kind = "event" /\ x \notin v.keys
               /\ What(x).kind \notin Transient
               /\ w.keys = v.keys \cup {x} /\ w.shown = Append(v.shown, x)
               /\ What(x).kind = "running" => w.status = "running"
               /\ What(x).kind \in {"idle", "error"} => w.status = "idle"
               /\ What(x).kind \notin {"running", "idle", "error"} => w.status = v.status
               /\ ~w.stopped => ~v.stopped
<1> DEFINE c == Closed(v, x)
           u == [c EXCEPT !.keys = @ \cup {Key(x)}]
<1>1. /\ x.kind = "event" => x \in EventItems /\ Key(x) = x
      /\ x.kind # "event" => x \in FrameItems /\ Key(x) \in FrameKeys
  BY DEF Items, EventItems, FrameItems, FrameKeys, Key, Frame, FrameKinds
<1>2. /\ c \in PageStates /\ c.shown = v.shown /\ c.keys = v.keys
      /\ c.status = v.status /\ c.stopped = v.stopped
  BY ThoughtFacts
<1>3. u \in PageStates /\ u.keys = v.keys \cup {Key(x)} /\ u.shown = v.shown
      /\ u.status = v.status /\ u.stopped = v.stopped
  <2>1. Key(x) \in EventItems \cup FrameKeys BY <1>1
  <2> HIDE DEF c
  <2> QED BY <1>2, <2>1 DEF PageStates
<1>4. x.kind = "event" => What(x) \in Events
  BY <1>1 DEF What, EventItems
<1>5. CASE x.kind = "event" /\ What(x).kind \in Transient
  BY <1>5, ThoughtFacts DEF AddEvent
<1>6. CASE ~(x.kind = "event" /\ What(x).kind \in Transient) /\ Key(x) \in v.keys
  <2>1. AddEvent(v, x) = c BY <1>2, <1>6 DEF AddEvent
  <2> HIDE DEF c
  <2> QED BY <1>1, <1>2, <1>6, <2>1
<1>7. CASE x.kind = "event" /\ What(x).kind \notin Transient /\ Key(x) \notin v.keys
  <2> DEFINE w == EventSeen(u, What(x))
  <2>1. AddEvent(v, x) = [w EXCEPT !.shown = Append(@, x)]
    BY <1>2, <1>7 DEF AddEvent
  <2>2. /\ w \in PageStates /\ w.shown = u.shown /\ w.keys = u.keys
        /\ What(x).kind = "running" => w.status = "running"
        /\ What(x).kind \in {"idle", "error"} => w.status = "idle"
        /\ What(x).kind \notin {"running", "idle", "error"} => w.status = u.status
        /\ ~w.stopped => ~u.stopped
    <3> HIDE DEF u
    <3> QED BY <1>3, <1>4, <1>7, EventSeenFacts
  <2>3. Append(w.shown, x) \in Seq(EventItems)
    BY <1>1, <1>7, <2>2 DEF PageStates
  <2> HIDE DEF w, u
  <2>4. AddEvent(v, x) \in PageStates BY <2>1, <2>2, <2>3 DEF PageStates
  <2>5. /\ AddEvent(v, x).shown = Append(w.shown, x) /\ AddEvent(v, x).keys = w.keys
        /\ AddEvent(v, x).status = w.status /\ AddEvent(v, x).stopped = w.stopped
    BY <2>1, <2>2 DEF PageStates
  <2> QED BY <1>1, <1>3, <1>7, <2>2, <2>4, <2>5
<1>8. CASE x.kind # "event" /\ Key(x) \notin v.keys
  <2>1. AddEvent(v, x) = FrameSeen(u, x)
    BY <1>2, <1>8 DEF AddEvent
  <2> HIDE DEF u
  <2> QED BY <1>1, <1>3, <1>8, <2>1, FrameSeenFacts
<1> QED BY <1>5, <1>6, <1>7, <1>8

\* Adding an event of the log to the view, or a frame: the view shows each event
\* once still, and the event is there unless it is a chunk.
LEMMA AddEventKeepsPage ==
  ASSUME NEW v, PageOK(v, log), NEW x \in Items, log \in [Sessions -> Seq(Events)],
         x.kind = "event" => x.n \in DOMAIN log[x.sess]
  PROVE  LET w == AddEvent(v, x) IN
         /\ PageOK(w, log)
         /\ v.keys \subseteq w.keys
         /\ \A y \in w.keys \ v.keys : y.kind = "event" => y = x
         /\ x.kind = "event" /\ x.n \in Canonical(log[x.sess]) => x \in w.keys
<1> DEFINE w == AddEvent(v, x)
<1>1. v \in PageStates /\ w \in PageStates
  BY AddEventFacts DEF PageOK
<1>2. x.kind = "event" => What(x) = log[x.sess][x.n] /\ x \in EventItems
  BY DEF What, Items, EventItems, FrameKinds
<1>3. x.kind = "event" /\ x.n \in Canonical(log[x.sess]) => What(x).kind \notin Transient
  BY <1>2 DEF Canonical
<1>4. CASE /\ w.shown = v.shown /\ w.keys = v.keys
           /\ x.kind = "event" => What(x).kind \in Transient \/ x \in v.keys
  BY <1>1, <1>3, <1>4 DEF PageOK
<1>5. CASE /\ x.kind # "event" /\ w.keys = v.keys \cup {Key(x)} /\ w.shown = v.shown
  <2>1. Key(x).kind # "event" BY <1>5 DEF Key, Frame
  <2>2. PageOK(w, log)
    <3> HIDE DEF w
    <3> QED BY <1>1, <1>5, <2>1 DEF PageOK
  <2> QED BY <1>5, <2>1, <2>2
<1>6. CASE /\ x.kind = "event" /\ x \notin v.keys /\ What(x).kind \notin Transient
           /\ w.keys = v.keys \cup {x} /\ w.shown = Append(v.shown, x)
  <2>1. /\ v.shown \in Seq(EventItems) /\ w.shown \in Seq(EventItems)
    BY <1>1 DEF PageStates
  <2> HIDE DEF w
  <2>2. /\ Len(w.shown) = Len(v.shown) + 1 /\ w.shown[Len(v.shown) + 1] = x
        /\ \A i \in DOMAIN v.shown : i \in DOMAIN w.shown /\ w.shown[i] = v.shown[i]
        /\ DOMAIN v.shown = 1..Len(v.shown) /\ DOMAIN w.shown = 1..(Len(v.shown) + 1)
        /\ Len(v.shown) \in Nat
    BY <1>6, <2>1
  <2>3. x.n \in Canonical(log[x.sess])
    BY <1>2, <1>6 DEF Canonical
  <2>4. \A i \in DOMAIN v.shown : v.shown[i] # x
    BY <1>6 DEF PageOK
  <2>5. \A i, j \in DOMAIN w.shown : w.shown[i] = w.shown[j] => i = j
    BY <2>2, <2>4 DEF PageOK
  <2>6. \A y \in w.keys : y.kind = "event" => \E i \in DOMAIN w.shown : w.shown[i] = y
    BY <1>6, <2>2 DEF PageOK
  <2>7. \A i \in DOMAIN w.shown : /\ w.shown[i] \in w.keys
                                  /\ w.shown[i].n \in Canonical(log[w.shown[i].sess])
    BY <1>6, <2>2, <2>3 DEF PageOK
  <2>8. PageOK(w, log)
    BY <1>1, <2>5, <2>6, <2>7 DEF PageOK
  <2> QED BY <1>2, <1>6, <2>8 DEF w
<1> QED BY <1>4, <1>5, <1>6, AddEventFacts, <1>1

\* When the events before it are there, the event keeps the order, and the pill is
\* that of the last event of a turn.
LEMMA AddEventKeepsOrder ==
  ASSUME NEW v, PageOK(v, log), NEW x \in Items, log \in [Sessions -> Seq(Events)],
         x.kind = "event" => x.n \in DOMAIN log[x.sess],
         NEW s \in Sessions, InOrder(v, log, s), StatusOK(v, log, s),
         x.kind = "event" /\ x.sess = s =>
           \A n \in Canonical(log[s]) : n < x.n => Stored(s, n) \in v.keys
  PROVE  InOrder(AddEvent(v, x), log, s) /\ StatusOK(AddEvent(v, x), log, s)
<1> DEFINE w == AddEvent(v, x)
<1>1. v \in PageStates /\ w \in PageStates /\ PageOK(w, log)
  BY AddEventFacts, AddEventKeepsPage DEF PageOK
<1>2. \A y \in w.keys \ v.keys : y.kind = "event" => y = x
  BY AddEventKeepsPage
<1>3. \A n : Stored(s, n).kind = "event" /\ Stored(s, n).n = n /\ Stored(s, n).sess = s
  BY DEF Stored
<1>a. v.keys \subseteq w.keys BY AddEventKeepsPage
<1>4. ASSUME NEW m \in Canonical(log[s]), NEW n \in Canonical(log[s]), m < n,
             Stored(s, n) \in w.keys
      PROVE  Stored(s, m) \in w.keys
  <2>1. CASE Stored(s, n) \in v.keys
    BY <1>4, <2>1, <1>a DEF InOrder
  <2>2. CASE Stored(s, n) \notin v.keys
    <3>1. Stored(s, n) = x BY <1>2, <1>3, <1>4, <2>2
    <3>2. x.kind = "event" /\ x.n = n /\ x.sess = s BY <1>3, <3>1
    <3> QED BY <1>4, <1>a, <3>2
  <2> QED BY <2>1, <2>2
<1> HIDE DEF w
<1>5. CASE w.shown = v.shown /\ w.status = v.status /\ w.stopped = v.stopped
  BY <1>4, <1>5 DEF InOrder, StatusOK, w
<1>6. CASE /\ x.kind = "event" /\ x \notin v.keys /\ What(x).kind \notin Transient
           /\ w.keys = v.keys \cup {x} /\ w.shown = Append(v.shown, x)
           /\ What(x).kind = "running" => w.status = "running"
           /\ What(x).kind \in {"idle", "error"} => w.status = "idle"
           /\ What(x).kind \notin {"running", "idle", "error"} => w.status = v.status
           /\ ~w.stopped => ~v.stopped
  <2>1. v.shown \in Seq(EventItems) /\ x \in EventItems
    BY <1>1, <1>6 DEF PageStates, Items, EventItems, FrameKinds
  <2>2. /\ w.shown[Len(v.shown) + 1] = x
        /\ \A i \in DOMAIN v.shown : i \in DOMAIN w.shown /\ w.shown[i] = v.shown[i]
        /\ DOMAIN v.shown = 1..Len(v.shown) /\ DOMAIN w.shown = 1..(Len(v.shown) + 1)
        /\ Len(v.shown) \in Nat
    BY <1>6, <2>1
  <2>3. \A i \in DOMAIN v.shown : v.shown[i] \in EventItems
    BY <2>1
  <2>4. ASSUME NEW i \in DOMAIN v.shown, v.shown[i].sess = s, x.sess = s
        PROVE  v.shown[i].n < x.n
    <3>1. /\ v.shown[i] = Stored(s, v.shown[i].n) /\ x = Stored(s, x.n)
      BY <1>6, <2>1, <2>3, <2>4 DEF EventItems, Stored
    <3>2. v.shown[i] \in v.keys /\ v.shown[i].n \in Canonical(log[s])
      BY <2>4 DEF PageOK
    <3>3. x.n \in Canonical(log[s])
      BY <1>6, <2>4 DEF Canonical, What
    <3>4. v.shown[i].n \in Nat /\ x.n \in Nat
      BY <2>1, <2>3 DEF EventItems
    <3>5. v.shown[i].n # x.n
      BY <1>6, <3>1, <3>2
    <3>6. ~(x.n < v.shown[i].n)
      BY <1>6, <3>1, <3>2, <3>3 DEF InOrder
    <3> QED BY <3>4, <3>5, <3>6
  <2>5. \A i, j \in DOMAIN w.shown :
          i < j /\ w.shown[i].sess = s /\ w.shown[j].sess = s
            => w.shown[i].n < w.shown[j].n
    <3> SUFFICES ASSUME NEW i \in DOMAIN w.shown, NEW j \in DOMAIN w.shown,
                        i < j, w.shown[i].sess = s, w.shown[j].sess = s
                 PROVE  w.shown[i].n < w.shown[j].n
      OBVIOUS
    <3>1. i \in DOMAIN v.shown
      BY <2>2
    <3>2. CASE j \in DOMAIN v.shown
      BY <2>2, <3>1, <3>2 DEF InOrder
    <3>3. CASE j = Len(v.shown) + 1
      BY <2>2, <2>4, <3>1, <3>3
    <3> QED BY <2>2, <3>2, <3>3
  <2>6. InOrder(w, log, s)
    BY <1>4, <2>5 DEF InOrder, w
  <2>7. ASSUME ~w.stopped, \A i \in DOMAIN w.shown : w.shown[i].sess = s
        PROVE  w.status = "running" <=>
                 \E i \in DOMAIN w.shown :
                   /\ log[s][w.shown[i].n].kind = "running"
                   /\ \A j \in DOMAIN w.shown :
                        w.shown[j].n > w.shown[i].n
                          => log[s][w.shown[j].n].kind \notin {"idle", "error"}
    <3> DEFINE k(i) == log[s][w.shown[i].n].kind
               z == Len(v.shown) + 1
               Ends(i) == k(i) \in {"idle", "error"}
               After(j, i) == w.shown[j].n > w.shown[i].n
    <3>1. x.sess = s /\ What(x).kind = k(z) /\ z \in DOMAIN w.shown
      BY <2>2, <2>7 DEF What
    <3>2. \A i \in DOMAIN v.shown : After(z, i) /\ ~After(i, z)
      <4> SUFFICES ASSUME NEW i \in DOMAIN v.shown PROVE After(z, i) /\ ~After(i, z)
        OBVIOUS
      <4>1. v.shown[i].n < x.n /\ v.shown[i].n \in Nat /\ x.n \in Nat
        BY <2>1, <2>2, <2>3, <2>4, <2>7, <3>1 DEF EventItems
      <4> QED BY <4>1, <2>2
    <3>3. ~After(z, z)
      BY <2>1, <2>2 DEF EventItems
    <3>4. \A i \in DOMAIN w.shown : i \in DOMAIN v.shown \/ i = z
      BY <2>2
    <3>5. v.status = "running" <=>
            \E i \in DOMAIN v.shown : /\ k(i) = "running"
                                      /\ \A j \in DOMAIN v.shown : After(j, i) => ~Ends(j)
      <4>1. \A i \in DOMAIN v.shown : v.shown[i].sess = s
        BY <2>2, <2>7
      <4> QED BY <1>6, <2>2, <2>7, <4>1 DEF StatusOK
    <3>6. w.status \in {"running", "idle"} BY <1>1 DEF PageStates
    <3>7. \A i \in DOMAIN v.shown : i \in DOMAIN w.shown BY <2>2
    <3> SUFFICES w.status = "running" <=>
                   \E i \in DOMAIN w.shown :
                     /\ k(i) = "running"
                     /\ \A j \in DOMAIN w.shown : After(j, i) => ~Ends(j)
      OBVIOUS
    <3>8. /\ k(z) = "running" => w.status = "running"
          /\ Ends(z) => w.status = "idle"
          /\ k(z) # "running" /\ ~Ends(z) => w.status = v.status
          /\ k(z) = "running" => ~Ends(z)
      BY <1>6, <3>1
    <3> HIDE DEF k, z, Ends, After
    <3>9. CASE k(z) = "running"
      BY <3>1, <3>2, <3>3, <3>4, <3>8, <3>9
    <3>10. CASE Ends(z)
      BY <3>1, <3>2, <3>3, <3>4, <3>8, <3>10, <3>6
    <3>11. CASE k(z) # "running" /\ ~Ends(z)
      BY <3>1, <3>2, <3>3, <3>4, <3>5, <3>7, <3>8, <3>11
    <3> QED BY <3>9, <3>10, <3>11
  <2>8. StatusOK(w, log, s)
    BY <2>7 DEF StatusOK
  <2> QED BY <2>6, <2>8 DEF w
<1>7. v \in PageStates BY DEF PageOK
<1> QED BY <1>5, <1>6, <1>7, AddEventFacts DEF w

\* A page of the history of session c.sess, from event a + 1 on: every event of it
\* is added, and in order when what comes before the page is shown.
LEMMA AddPage ==
  ASSUME PageOK(view, log), log \in [Sessions -> Seq(Events)],
         NEW r \in Sessions, NEW a \in Nat, NEW b \in Nat, a <= b, b <= Len(log[r])
  PROVE  LET w == AddAll(view, [i \in 1..(b - a) |-> Stored(r, a + i)]) IN
         /\ PageOK(w, log) /\ view.keys \subseteq w.keys
         /\ \A s \in Sessions :
              /\ InOrder(view, log, s) /\ StatusOK(view, log, s)
              /\ r = s => \A n \in Canonical(log[s]) : n <= a => Stored(s, n) \in view.keys
              => /\ InOrder(w, log, s) /\ StatusOK(w, log, s)
                 /\ r = s => \A n \in Canonical(log[s]) : n <= b => Stored(s, n) \in w.keys
<1> DEFINE xs == [i \in 1..(b - a) |-> Stored(r, a + i)]
           w == AddAll(view, xs)
           Before(s) == /\ InOrder(view, log, s) /\ StatusOK(view, log, s)
                        /\ r = s => \A n \in Canonical(log[s]) :
                                      n <= a => Stored(s, n) \in view.keys
<1>1. Len(xs) = b - a /\ b - a \in Nat /\ \A i \in 1..(b - a) : xs[i] = Stored(r, a + i)
  OBVIOUS
<1>2. PICK f : /\ f[0] = view
               /\ \A i \in 1..(b - a) : f[i] = AddEvent(f[i-1], xs[i])
               /\ w = f[b - a]
  <2> HIDE DEF xs
  <2>1. Len(xs) \in Nat /\ Len(xs) = b - a BY <1>1
  <2>2. \E f : /\ f[0] = view
               /\ \A i \in 1..Len(xs) : f[i] = AddEvent(f[i-1], xs[i])
               /\ AddAll(view, xs) = f[Len(xs)]
    BY <2>1, AddAllSteps
  <2> QED BY <2>1, <2>2
<1> DEFINE After(i) ==
      /\ PageOK(f[i], log) /\ view.keys \subseteq f[i].keys
      /\ \A s \in Sessions : Before(s) =>
           /\ InOrder(f[i], log, s) /\ StatusOK(f[i], log, s)
           /\ r = s => \A n \in Canonical(log[s]) : n <= a + i => Stored(s, n) \in f[i].keys
  S == {i \in Nat : i <= b - a => After(i)}
<1>3. 0 \in S
  BY <1>2
<1>4. ASSUME NEW i \in Nat, i \in S PROVE i + 1 \in S
  <2> SUFFICES ASSUME i + 1 <= b - a PROVE After(i + 1)
    OBVIOUS
  <2> DEFINE x == Stored(r, a + (i + 1))
  <2>1. After(i) BY <1>4, <1>1
  <2>2. f[i + 1] = AddEvent(f[i], x) BY <1>1, <1>2
  <2>3. /\ x \in Items /\ x.kind = "event" /\ x.n = a + (i + 1) /\ x.sess = r
        /\ x.n \in DOMAIN log[x.sess]
    BY <1>1 DEF Stored, Items
  <2>4. /\ PageOK(f[i + 1], log) /\ f[i].keys \subseteq f[i + 1].keys
        /\ x.n \in Canonical(log[x.sess]) => x \in f[i + 1].keys
    <3> HIDE DEF x
    <3> QED BY <2>1, <2>2, <2>3, AddEventKeepsPage
  <2>5. ASSUME NEW s \in Sessions, Before(s)
        PROVE  /\ InOrder(f[i + 1], log, s) /\ StatusOK(f[i + 1], log, s)
               /\ r = s => \A n \in Canonical(log[s]) :
                             n <= a + (i + 1) => Stored(s, n) \in f[i + 1].keys
    <3>1. /\ InOrder(f[i], log, s) /\ StatusOK(f[i], log, s)
          /\ r = s => \A n \in Canonical(log[s]) : n <= a + i => Stored(s, n) \in f[i].keys
      BY <2>1, <2>5
    <3>a. \A n \in Canonical(log[s]) : n \in Nat
      BY DEF Canonical
    <3>2. x.kind = "event" /\ x.sess = s =>
            \A n \in Canonical(log[s]) : n < x.n => Stored(s, n) \in f[i].keys
      BY <2>3, <3>1, <3>a
    <3>3. InOrder(f[i + 1], log, s) /\ StatusOK(f[i + 1], log, s)
      <4> HIDE DEF x
      <4> QED BY <2>1, <2>2, <2>3, <3>1, <3>2, AddEventKeepsOrder
    <3>4. ASSUME r = s, NEW n \in Canonical(log[s]), n <= a + (i + 1)
          PROVE  Stored(s, n) \in f[i + 1].keys
      <4>1. CASE n <= a + i BY <2>4, <3>1, <3>4, <4>1
      <4>2. CASE n = a + (i + 1) BY <2>3, <2>4, <3>4, <4>2
      <4> QED
        <5>1. n \in Nat /\ (n <= a + i \/ n = a + (i + 1)) BY <3>4, <3>a
        <5> HIDE DEF x
        <5> QED BY <4>1, <4>2, <5>1
    <3> QED BY <3>3, <3>4
  <2> HIDE DEF x, Before
  <2> QED BY <2>1, <2>4, <2>5
<1>5. After(b - a)
  <2>1. Nat \subseteq S
    <3> HIDE DEF S
    <3> QED BY <1>3, <1>4, Induct
  <2> HIDE DEF After
  <2> QED BY <1>1, <2>1
<1>6. a + (b - a) = b OBVIOUS
<1> HIDE DEF w
<1> QED BY <1>2, <1>5, <1>6 DEF w

-----------------------------------------------------------------------------
(***************************************************************************)
(* The log grows at its end, and what is published joins the channel.      *)
(***************************************************************************)
Grows(l, m) ==
  /\ l \in [Sessions -> Seq(Events)] /\ m \in [Sessions -> Seq(Events)]
  /\ \A s \in Sessions : /\ Len(l[s]) <= Len(m[s])
                         /\ \A i \in 1..Len(l[s]) : m[s][i] = l[s][i]

\* An event of the log stays where it is.
LEMMA CanonicalGrows ==
  ASSUME NEW l, NEW m, Grows(l, m), NEW s \in Sessions
  PROVE  /\ Canonical(l[s]) \subseteq Canonical(m[s])
         /\ \A n \in Canonical(m[s]) : n \in Nat /\ (n <= Len(l[s]) => n \in Canonical(l[s]))
         /\ \A n \in DOMAIN l[s] : n \in DOMAIN m[s] /\ l[s][n] = m[s][n]
<1>1. /\ l[s] \in Seq(Events) /\ m[s] \in Seq(Events) /\ Len(l[s]) <= Len(m[s])
      /\ \A i \in 1..Len(l[s]) : m[s][i] = l[s][i]
  BY DEF Grows
<1>2. /\ Len(l[s]) \in Nat /\ Len(m[s]) \in Nat
      /\ DOMAIN l[s] = 1..Len(l[s]) /\ DOMAIN m[s] = 1..Len(m[s])
  BY <1>1
<1>3. \A n \in DOMAIN l[s] : n \in DOMAIN m[s] /\ l[s][n] = m[s][n]
  BY <1>1, <1>2
<1>4. \A n \in DOMAIN m[s] : n \in Nat /\ (n <= Len(l[s]) => n \in DOMAIN l[s])
  BY <1>2
<1> QED BY <1>3, <1>4 DEF Canonical

\* What holds of the view and of the requests holds in the longer log.
LEMMA PageGrows ==
  ASSUME NEW l, NEW m, Grows(l, m), NEW v, PageOK(v, l), NEW s \in Sessions
  PROVE  /\ PageOK(v, m)
         /\ InOrder(v, l, s) => InOrder(v, m, s)
         /\ StatusOK(v, l, s) => StatusOK(v, m, s)
         /\ \A cs : CallsOK(cs, l) => CallsOK(cs, m)
         /\ \A cs : CallsOK(cs, l) /\ PagesOK(v, cs, l, s) => PagesOK(v, cs, m, s)
<1>0. /\ v.shown \in Seq(EventItems)
      /\ \A i \in DOMAIN v.shown : v.shown[i] \in EventItems /\ v.shown[i].sess \in Sessions
  <2>1. v.shown \in Seq(EventItems) BY DEF PageOK, PageStates
  <2>2. \A x \in EventItems : x.sess \in Sessions BY DEF EventItems
  <2> QED BY <2>1, <2>2
<1>1. PageOK(v, m)
  <2>1. \A i \in DOMAIN v.shown : v.shown[i].n \in Canonical(m[v.shown[i].sess])
    <3> SUFFICES ASSUME NEW i \in DOMAIN v.shown
                 PROVE  v.shown[i].n \in Canonical(m[v.shown[i].sess])
      OBVIOUS
    <3>1. v.shown[i].sess \in Sessions /\ v.shown[i].n \in Canonical(l[v.shown[i].sess])
      BY <1>0 DEF PageOK
    <3> QED BY <3>1, CanonicalGrows
  <2> QED BY <2>1 DEF PageOK
<1>2. ASSUME InOrder(v, l, s) PROVE InOrder(v, m, s)
  <2> SUFFICES ASSUME NEW j \in Canonical(m[s]), NEW n \in Canonical(m[s]), j < n,
                      Stored(s, n) \in v.keys
               PROVE  Stored(s, j) \in v.keys
    BY <1>2 DEF InOrder
  <2>1. Stored(s, n).kind = "event" /\ Stored(s, n).n = n /\ Stored(s, n).sess = s
    BY DEF Stored
  <2>2. n \in Canonical(l[s])
    BY <2>1 DEF PageOK
  <2>3. j \in Canonical(l[s])
    <3>1. j \in Nat /\ n \in Nat /\ n <= Len(l[s])
      BY <2>2, CanonicalGrows DEF Canonical, Grows
    <3>2. Len(l[s]) \in Nat BY DEF Grows
    <3> QED BY <3>1, <3>2, CanonicalGrows
  <2> QED BY <1>2, <2>2, <2>3 DEF InOrder
<1>3. ASSUME StatusOK(v, l, s) PROVE StatusOK(v, m, s)
  <2> SUFFICES ASSUME ~v.stopped, \A i \in DOMAIN v.shown : v.shown[i].sess = s
               PROVE  v.status = "running" <=>
                        \E i \in DOMAIN v.shown :
                          /\ m[s][v.shown[i].n].kind = "running"
                          /\ \A j \in DOMAIN v.shown :
                               v.shown[j].n > v.shown[i].n
                                 => m[s][v.shown[j].n].kind \notin {"idle", "error"}
    BY DEF StatusOK
  <2>1. \A i \in DOMAIN v.shown : m[s][v.shown[i].n] = l[s][v.shown[i].n]
    BY CanonicalGrows DEF PageOK, Canonical
  <2> QED BY <1>3, <2>1 DEF StatusOK
<1>4. ASSUME NEW cs, CallsOK(cs, l) PROVE CallsOK(cs, m)
  <2> SUFFICES ASSUME NEW c \in cs, c.what \in {"history", "threads"}
               PROVE  c.from <= Len(m[c.sess])
    BY <1>4 DEF CallsOK
  <2>1. c \in Requests /\ c.from <= Len(l[c.sess])
    BY <1>4 DEF CallsOK
  <2>2. c.sess \in Sessions /\ c.from \in Nat
    BY <2>1 DEF Requests
  <2> QED BY <2>1, <2>2 DEF Grows
<1>5. ASSUME NEW cs, CallsOK(cs, l), PagesOK(v, cs, l, s) PROVE PagesOK(v, cs, m, s)
  <2> SUFFICES ASSUME NEW c \in cs, c.what = "history", c.sess = s,
                      NEW n \in Canonical(m[s]), n <= c.after
               PROVE  Stored(s, n) \in v.keys
    BY DEF PagesOK
  <2>1. c.after <= c.from /\ c.from <= Len(l[s]) /\ c.after \in Nat /\ c.from \in Nat
    BY <1>5 DEF CallsOK, Requests
  <2>2. n \in Canonical(l[s])
    <3>1. n \in Nat BY CanonicalGrows
    <3>2. Len(l[s]) \in Nat BY DEF Grows
    <3>3. n <= Len(l[s]) BY <2>1, <3>1, <3>2
    <3> QED BY <3>3, CanonicalGrows
  <2> QED BY <1>5, <2>2 DEF PagesOK
<1> QED BY <1>1, <1>2, <1>3, <1>4, <1>5

\* The cancelled rows are a sequence: each set of rows that is finite has one.
LEMMA RowsInSequence ==
  ASSUME NEW S, IsFiniteSet(S)
  PROVE  SetToSeq(S) \in Seq(S)
<1>1. Cardinality(S) \in Nat
  BY FS_CardinalityType
<1>2. PICK f \in Bijection(1..Cardinality(S), S) : TRUE
  BY FS_CardinalityType DEF ExistsBijection
<1>3. f \in [1..Cardinality(S) -> S] /\ IsInjective(f)
  BY <1>2 DEF Bijection, Injection, Surjection, IsInjective
<1>4. SetToSeq(S) \in [1..Cardinality(S) -> S]
  BY <1>3 DEF SetToSeq
<1> QED BY <1>1, <1>4

\* Frames of a replay are followed by those of the channel.
LEMMA Joined ==
  ASSUME NEW r \in Seq(Items), NEW b \in Seq(Items)
  PROVE  /\ r \o b \in Seq(Items) /\ Len(r \o b) = Len(r) + Len(b)
         /\ DOMAIN (r \o b) = 1..(Len(r) + Len(b))
         /\ \A i \in 1..Len(r) : (r \o b)[i] = r[i]
         /\ \A i \in 1..Len(b) : (r \o b)[Len(r) + i] = b[i]
         /\ Len(r) \in Nat /\ Len(b) \in Nat
         /\ DOMAIN r = 1..Len(r) /\ DOMAIN b = 1..Len(b)
OBVIOUS

\* Publish appends what fits, and marks the gap when an event does not.
LEMMA PublishFacts ==
  ASSUME buffer \in Seq(Items), Len(buffer) <= HubBuffer, gap \in BOOLEAN,
         NEW s, NEW items \in Seq(Items), Publish(s, items)
  PROVE  /\ conn' = conn /\ replay' = replay
         /\ buffer' \in Seq(Items) /\ Len(buffer') <= HubBuffer
         /\ Len(buffer) <= Len(buffer')
         /\ \A i \in 1..Len(buffer) : buffer'[i] = buffer[i]
         /\ \A i \in 1..Len(buffer') : i > Len(buffer) =>
              /\ s = current /\ Subscribed
              /\ i - Len(buffer) \in 1..Len(items)
              /\ buffer'[i] = items[i - Len(buffer)]
         /\ gap' \in BOOLEAN /\ (gap => gap')
         /\ s = current /\ Subscribed /\ ~gap' =>
              \A i \in 1..Len(items) : items[i].kind = "event" =>
                /\ Len(buffer) + i \in 1..Len(buffer')
                /\ buffer'[Len(buffer) + i] = items[i]
<1>0. HubBuffer \in Nat /\ Len(buffer) \in Nat /\ Len(items) \in Nat
      /\ DOMAIN items = 1..Len(items)
  BY ViewAssumption
<1>1. CASE ~(s = current /\ Subscribed)
  <2>1. UNCHANGED <<conn, replay, buffer, gap>>
    BY <1>1 DEF Publish, stream
  <2> QED BY <1>0, <1>1, <2>1
<1>2. CASE s = current /\ Subscribed
  <2> DEFINE room == HubBuffer - Len(buffer)
             k == IF room < Len(items) THEN room ELSE Len(items)
             fits == SubSeq(items, 1, k)
  <2>1. /\ buffer' = buffer \o fits
        /\ gap' = (gap \/ \E i \in DOMAIN items : i > Len(fits) /\ items[i].kind = "event")
        /\ UNCHANGED <<conn, replay>>
    BY <1>2 DEF Publish
  <2>2. k \in 0..Len(items) /\ Len(buffer) + k <= HubBuffer
    BY <1>0
  <2> HIDE DEF k
  <2>3. /\ fits \in Seq(Items) /\ Len(fits) = k
        /\ \A i \in 1..k : fits[i] = items[i]
    BY <1>0, <2>2
  <2> HIDE DEF fits
  <2>4. /\ buffer' \in Seq(Items) /\ Len(buffer') = Len(buffer) + k
        /\ \A i \in 1..Len(buffer) : buffer'[i] = buffer[i]
        /\ \A i \in 1..k : buffer'[Len(buffer) + i] = fits[i]
    BY <2>1, <2>3, Joined
  <2>5. \A i \in 1..Len(buffer') : i > Len(buffer) =>
              /\ i - Len(buffer) \in 1..Len(items)
              /\ buffer'[i] = items[i - Len(buffer)]
    <3> SUFFICES ASSUME NEW i \in 1..Len(buffer'), i > Len(buffer)
                 PROVE  /\ i - Len(buffer) \in 1..Len(items)
                        /\ buffer'[i] = items[i - Len(buffer)]
      OBVIOUS
    <3> DEFINE j == i - Len(buffer)
    <3>1. j \in 1..k /\ i = Len(buffer) + j
      BY <1>0, <2>2, <2>4
    <3>2. j \in 1..Len(items) BY <2>2, <3>1
    <3> QED BY <2>3, <2>4, <3>1, <3>2
  <2>6. ~gap' => \A i \in 1..Len(items) : items[i].kind = "event" => i \in 1..k
    <3>1. ~gap' => \A i \in DOMAIN items : items[i].kind = "event" => ~(i > Len(fits))
      BY <2>1, Zenon
    <3>2. \A i \in 1..Len(items) : ~(i > Len(fits)) => i \in 1..k
      BY <1>0, <2>2, <2>3
    <3> QED BY <1>0, <3>1, <3>2, Zenon
  <2>7. ~gap' => \A i \in 1..Len(items) : items[i].kind = "event" =>
                /\ Len(buffer) + i \in 1..Len(buffer')
                /\ buffer'[Len(buffer) + i] = items[i]
    BY <1>0, <2>2, <2>3, <2>4, <2>6
  <2> QED BY <1>0, <1>2, <2>1, <2>2, <2>4, <2>5, <2>7
<1> QED BY <1>1, <1>2

\* What is announced is in the log.
LEMMA AnnouncedFacts ==
  ASSUME NEW l, NEW mv, NEW s, l[s] \in Seq(Events)
  PROVE  /\ Len(l[s]) \in Nat /\ DOMAIN l[s] = 1..Len(l[s])
         /\ Announced(l, mv, s) \in Int /\ Announced(l, mv, s) <= Len(l[s])
         /\ Canonical(l[s]) \subseteq 1..Len(l[s])
BY DEF Announced, Canonical

\* Publishing what has become announced, in the order of the log, keeps the stream
\* without a hole.
LEMMA PublishKeepsStream ==
  ASSUME Grows(log, log'), Rest, StreamOK(log, current), Flowing,
         view'.keys = view.keys, current' = current,
         NEW s \in Sessions, NEW items \in Seq(Items), Publish(s, items),
         \A t \in Sessions : t # s => log'[t] = log[t] /\ moving'[t] = moving[t],
         \A i \in 1..Len(items) : items[i].kind = "event" =>
           items[i].sess = s /\ items[i].n \in DOMAIN log'[s],
         \A n \in DOMAIN log'[s] :
           \/ n <= Announced(log, moving, s) \/ n > Announced(log', moving', s)
           \/ \E i \in 1..Len(items) : items[i] = Stored(s, n),
         \A i \in 1..Len(items) : items[i].kind = "event" =>
           \A n \in DOMAIN log'[s] : n < items[i].n =>
             \/ n <= Announced(log, moving, s)
             \/ \E j \in 1..Len(items) : j < i /\ items[j] = Stored(s, n)
  PROVE  StreamOK(log, current)' /\ Flowing' /\ gap' \in BOOLEAN /\ (gap => gap')
<1>0. /\ replay \in Seq(Items) /\ buffer \in Seq(Items) /\ Len(buffer) <= HubBuffer
      /\ gap \in BOOLEAN /\ current \in Sessions
      /\ log[current] \in Seq(Events) /\ log'[current] \in Seq(Events)
  BY DEF Rest, StreamOK, Grows
<1>1. /\ conn' = conn /\ replay' = replay
      /\ buffer' \in Seq(Items) /\ Len(buffer') <= HubBuffer
      /\ Len(buffer) <= Len(buffer')
      /\ \A i \in 1..Len(buffer) : buffer'[i] = buffer[i]
      /\ \A i \in 1..Len(buffer') : i > Len(buffer) =>
           /\ s = current /\ Subscribed
           /\ i - Len(buffer) \in 1..Len(items)
           /\ buffer'[i] = items[i - Len(buffer)]
      /\ gap' \in BOOLEAN /\ (gap => gap')
      /\ s = current /\ Subscribed /\ ~gap' =>
           \A i \in 1..Len(items) : items[i].kind = "event" =>
             /\ Len(buffer) + i \in 1..Len(buffer')
             /\ buffer'[Len(buffer) + i] = items[i]
  BY <1>0, PublishFacts
<1>2. /\ Len(replay) \in Nat /\ Len(buffer) \in Nat /\ Len(buffer') \in Nat
      /\ DOMAIN replay = 1..Len(replay) /\ DOMAIN buffer = 1..Len(buffer)
      /\ DOMAIN buffer' = 1..Len(buffer')
  BY <1>0, <1>1
<1>3. /\ \A n \in DOMAIN log[current] : n \in DOMAIN log'[current]
      /\ \A n \in Canonical(log'[current]) :
           n \in Nat /\ (n <= Len(log[current]) => n \in Canonical(log[current]))
  BY <1>0, CanonicalGrows
<1>4. StreamOK(log, current)'
  <2>1. \A i \in DOMAIN replay' : /\ replay'[i].kind = "event" /\ replay'[i].sess = current
                                  /\ replay'[i].n \in DOMAIN log'[current]
    BY <1>1, <1>3 DEF StreamOK
  <2>2. \A i \in DOMAIN buffer' : buffer'[i].kind = "event" =>
                buffer'[i].sess = current /\ buffer'[i].n \in DOMAIN log'[current]
    <3> SUFFICES ASSUME NEW i \in DOMAIN buffer', buffer'[i].kind = "event"
                 PROVE  buffer'[i].sess = current /\ buffer'[i].n \in DOMAIN log'[current]
      OBVIOUS
    <3>1. CASE i <= Len(buffer)
      <4>1. i \in DOMAIN buffer /\ buffer'[i] = buffer[i]
        BY <1>1, <1>2, <3>1
      <4> QED BY <1>3, <4>1 DEF StreamOK
    <3>2. CASE i > Len(buffer)
      <4> DEFINE j == i - Len(buffer)
      <4>1. s = current /\ j \in 1..Len(items) /\ buffer'[i] = items[j]
        BY <1>1, <1>2, <3>2
      <4> HIDE DEF j
      <4> QED BY <4>1
    <3> QED BY <1>2, <3>1, <3>2
  <2>3. ~Subscribed' => buffer' = <<>>
    <3> SUFFICES ASSUME ~Subscribed' PROVE buffer' = <<>>
      OBVIOUS
    <3>1. ~Subscribed /\ buffer = <<>>
      BY <1>1 DEF Subscribed, StreamOK
    <3>2. Len(buffer') = 0
      BY <1>1, <1>2, <3>1
    <3> QED BY <1>1, <3>2
  <2>4. conn \in {"connecting", "replaying", "live", "waiting", "dead"}
        /\ (conn # "live" => replay = <<>>)
    BY DEF StreamOK
  <2> HIDE DEF Items
  <2> QED BY <1>0, <1>1, <2>1, <2>2, <2>3, <2>4 DEF StreamOK
<1>5. ASSUME ~gap', conn' = "live"
      PROVE  NoHole(view, log, current)' /\ Covered(view, log, moving, current)'
  <2> DEFINE p == replay \o buffer
             q == replay' \o buffer'
             K == Len(p)
             c == current
  <2>0. NoHole(view, log, c) /\ Covered(view, log, moving, c)
        /\ conn = "live" /\ Subscribed
    BY <1>1, <1>5 DEF Flowing, Subscribed
  <2>1. /\ K \in Nat /\ DOMAIN p = 1..K
        /\ K <= Len(q) /\ Len(q) \in Nat /\ DOMAIN q = 1..Len(q)
        /\ \A j \in 1..K : q[j] = p[j]
        /\ K = Len(replay) + Len(buffer) /\ Len(q) = Len(replay) + Len(buffer')
    <3>1. /\ K = Len(replay) + Len(buffer) /\ DOMAIN p = 1..K
          /\ Len(q) = Len(replay) + Len(buffer') /\ DOMAIN q = 1..Len(q)
      BY <1>0, <1>1, Joined
    <3>2. ASSUME NEW j \in 1..K PROVE q[j] = p[j]
      <4>1. CASE j <= Len(replay)
        <5>1. j \in 1..Len(replay) BY <4>1, <1>2, <3>1
        <5> QED BY <1>0, <1>1, <5>1, Joined
      <4>2. CASE j > Len(replay)
        <5> DEFINE i == j - Len(replay)
        <5>1. i \in 1..Len(buffer) /\ i \in 1..Len(buffer') /\ j = Len(replay) + i
          BY <1>1, <1>2, <3>1, <4>2
        <5>2. p[Len(replay) + i] = buffer[i]
          BY <1>0, <5>1, Joined
        <5>3. q[Len(replay) + i] = buffer'[i]
          BY <1>0, <1>1, <5>1, Joined
        <5> HIDE DEF i, p, q
        <5> QED BY <1>1, <5>1, <5>2, <5>3
      <4> HIDE DEF p, q, K
      <4> QED BY <1>2, <3>1, <4>1, <4>2
    <3> HIDE DEF p, q
    <3> QED BY <1>1, <1>2, <3>1, <3>2
  <2>2. ASSUME NEW i \in DOMAIN q, i > K
        PROVE  s = c /\ i - K \in 1..Len(items) /\ q[i] = items[i - K]
    <3> DEFINE j == i - Len(replay)
    <3>1. j \in 1..Len(buffer') /\ j > Len(buffer) /\ i = Len(replay) + j
          /\ j - Len(buffer) = i - K
      <4>1. i \in 1..Len(q) BY <2>1
      <4> HIDE DEF p, q, K
      <4> QED BY <1>2, <2>1, <2>2, <4>1
    <3>2. q[i] = buffer'[j]
      BY <1>0, <1>1, <3>1, Joined
    <3> HIDE DEF j, p, q
    <3> QED BY <1>1, <3>1, <3>2
  <2>3. ASSUME NEW i \in 1..Len(items), items[i].kind = "event", s = c
        PROVE  K + i \in DOMAIN q /\ q[K + i] = items[i]
    <3> DEFINE j == Len(buffer) + i
    <3>1. j \in 1..Len(buffer') /\ buffer'[j] = items[i]
      BY <1>1, <1>5, <2>0, <2>3
    <3>2. q[Len(replay) + j] = buffer'[j]
      BY <1>0, <1>1, <3>1, Joined
    <3>3. Len(replay) + j = K + i /\ K + i \in DOMAIN q
      <4> HIDE DEF p, q
      <4> QED BY <1>2, <2>1, <3>1
    <3> HIDE DEF j, p, q
    <3> QED BY <3>1, <3>2, <3>3
  <2> DEFINE Here(n, k) == \/ Stored(c, n) \in view.keys
                           \/ \E j \in DOMAIN q : j <= k /\ q[j] = Stored(c, n)
  <2>4. ASSUME NEW n, NEW k \in Int, NEW k2 \in Int, Comes(view, c, n, k), k <= k2
        PROVE  Here(n, k2)
    <3>1. \/ Stored(c, n) \in view.keys
          \/ \E j \in DOMAIN p : j <= k /\ p[j] = Stored(c, n)
      BY <2>4 DEF Comes, Pipe
    <3> HIDE DEF p, q
    <3> QED BY <2>1, <2>4, <3>1
  <2>5. \A n : Stored(c, n).kind = "event"
    BY DEF Stored
  <2>6. /\ Announced(log, moving, c) \in Int /\ Announced(log, moving, c) <= Len(log[c])
        /\ Len(log[c]) \in Nat /\ Len(log'[c]) \in Nat
        /\ DOMAIN log[c] = 1..Len(log[c])
        /\ Canonical(log'[c]) \subseteq DOMAIN log'[c]
    BY <1>0, AnnouncedFacts DEF Canonical
  <2>7. ASSUME NEW n \in Canonical(log'[c]), n <= Announced(log, moving, c)
        PROVE  Comes(view, c, n, K)
    <3>1. n \in Canonical(log[c]) BY <1>3, <2>6, <2>7
    <3> QED BY <2>0, <2>7, <3>1 DEF Covered, Pipe
  <2>8. ASSUME NEW i \in DOMAIN q, q[i].kind = "event",
               NEW n \in Canonical(log'[c]), n < q[i].n
        PROVE  Here(n, i - 1)
    <3>0. i \in Int BY <2>1
    <3>1. CASE i <= K
      <4>1. i \in DOMAIN p /\ q[i] = p[i] BY <2>1, <2>8, <3>1
      <4>2. p[i].n \in DOMAIN log[c]
        <5>1. CASE i <= Len(replay)
          <6>1. i \in DOMAIN replay /\ p[i] = replay[i] BY <1>0, <1>2, <2>1, <5>1, Joined
          <6> QED BY <6>1 DEF StreamOK
        <5>2. CASE i > Len(replay)
          <6> DEFINE j == i - Len(replay)
          <6>1. j \in 1..Len(buffer) /\ i = Len(replay) + j
            <7> HIDE DEF p, q
            <7> QED BY <1>2, <2>1, <4>1, <5>2
          <6>2. p[Len(replay) + j] = buffer[j] BY <1>0, <6>1, Joined
          <6>3. j \in DOMAIN buffer BY <1>2, <6>1
          <6> HIDE DEF j, p, q
          <6>4. buffer[j].kind = "event" /\ p[i] = buffer[j]
            BY <2>8, <4>1, <6>1, <6>2
          <6> QED BY <6>3, <6>4 DEF StreamOK
        <5> HIDE DEF p, q
        <5> QED BY <1>2, <3>0, <5>1, <5>2
      <4>3. n \in Canonical(log[c])
        <5> HIDE DEF p, q
        <5> QED BY <1>3, <2>6, <2>8, <4>1, <4>2
      <4>4. Comes(view, c, n, i - 1)
        BY <2>0, <2>8, <4>1, <4>3 DEF NoHole, Pipe
      <4> HIDE DEF Here, q
      <4> QED BY <2>4, <3>0, <4>4
    <3>2. CASE i > K
      <4> DEFINE j == i - K
      <4>1. s = c /\ j \in 1..Len(items) /\ q[i] = items[j] /\ i = K + j
        <5> HIDE DEF q, K
        <5> QED BY <2>2, <2>1, <3>0, <3>2
      <4> HIDE DEF q, j, K
      <4>2. \/ n <= Announced(log, moving, c)
            \/ \E h \in 1..Len(items) : h < j /\ items[h] = Stored(c, n)
        BY <2>6, <2>8, <4>1
      <4>3. CASE n <= Announced(log, moving, c)
        <5>1. K \in Int /\ i - 1 \in Int /\ K <= i - 1 BY <2>1, <3>0, <3>2
        <5> HIDE DEF Here
        <5> QED BY <2>4, <2>7, <4>3, <5>1
      <4>4. CASE \E h \in 1..Len(items) : h < j /\ items[h] = Stored(c, n)
        <5>1. PICK h \in 1..Len(items) : h < j /\ items[h] = Stored(c, n)
          BY <4>4
        <5>2. K + h \in DOMAIN q /\ q[K + h] = Stored(c, n)
          BY <2>3, <2>5, <4>1, <5>1
        <5>3. K + h <= i - 1 BY <2>1, <4>1, <5>1
        <5> QED BY <5>2, <5>3
      <4> QED BY <4>2, <4>3, <4>4
    <3> HIDE DEF q, K
    <3> QED BY <2>1, <3>0, <3>1, <3>2
  <2>9. ASSUME NEW n \in Canonical(log'[c]), n <= Announced(log', moving', c)
        PROVE  Here(n, Len(q))
    <3> HIDE DEF q, K
    <3>1. CASE n <= Announced(log, moving, c)
      <4> HIDE DEF Here
      <4> QED BY <2>1, <2>4, <2>7, <3>1
    <3>2. CASE ~(n <= Announced(log, moving, c))
      <4>0. n \in Nat /\ Announced(log', moving', c) \in Int
        BY <1>0, <1>3, AnnouncedFacts
      <4>1. s = c
        <5> SUFFICES ASSUME s # c PROVE FALSE
          OBVIOUS
        <5>1. log'[c] = log[c] /\ moving'[c] = moving[c] BY <1>0
        <5>2. Announced(log', moving', c) = Announced(log, moving, c)
          BY <5>1 DEF Announced
        <5> QED BY <2>9, <3>2, <5>2
      <4>2. PICK h \in 1..Len(items) : items[h] = Stored(c, n)
        BY <2>6, <2>9, <3>2, <4>0, <4>1
      <4>3. K + h \in DOMAIN q /\ q[K + h] = Stored(c, n)
        BY <2>3, <2>5, <4>1, <4>2
      <4> QED BY <2>1, <4>3
    <3> QED BY <3>1, <3>2
  <2>10. NoHole(view, log, current)'
    BY <2>8 DEF NoHole, Comes, Pipe
  <2>11. Covered(view, log, moving, current)'
    BY <2>9 DEF Covered, Comes, Pipe
  <2> QED BY <2>10, <2>11
<1> QED BY <1>1, <1>4, <1>5 DEF Flowing

-----------------------------------------------------------------------------
(***************************************************************************)
(* The steps of the server.                                                *)
(***************************************************************************)
\* The view and the requests of an open session, while the log grows.
LEMMA GrowthKeeps ==
  ASSUME IInv, Grows(log, log'), UNCHANGED <<current, calls>>,
         PageOK(view', log), view'.shown = view.shown, view'.keys = view.keys,
         view'.status = view.status, view'.stopped = view.stopped, gap => gap',
         gap \in BOOLEAN, gap' \in BOOLEAN
  PROVE  PageOK(view, log)' /\ CallsOK(calls, log)' /\ Ordered'
<1>0. current \in Sessions BY DEF IInv, Rest
<1>1. PageOK(view', log') /\ CallsOK(calls', log')
  BY <1>0, PageGrows DEF IInv
<1>2. ASSUME ~gap'
      PROVE  /\ InOrder(view', log', current') /\ StatusOK(view', log', current')
             /\ PagesOK(view', calls', log', current')
  <2>1. /\ InOrder(view, log, current) /\ StatusOK(view, log, current)
        /\ PagesOK(view, calls, log, current)
    BY <1>2 DEF IInv, Ordered
  <2>2. /\ InOrder(view', log, current) /\ StatusOK(view', log, current)
        /\ PagesOK(view', calls, log, current)
    BY <2>1 DEF InOrder, StatusOK, PagesOK
  <2> QED BY <1>0, <2>2, PageGrows DEF IInv
<1>3. Ordered' BY <1>2 DEF Ordered
<1> QED BY <1>1, <1>3

\* A turn of the log after one more event.
LEMMA UnendedAppend ==
  ASSUME NEW l \in Seq(Events), NEW e \in Events
  PROVE  Unended(Append(l, e)) <=>
           e.kind = "running" \/ (Unended(l) /\ e.kind \notin {"idle", "error"})
<1> DEFINE m == Append(l, e)
           z == Len(l) + 1
<1>1. /\ Len(l) \in Nat /\ DOMAIN l = 1..Len(l) /\ DOMAIN m = 1..z /\ m[z] = e
      /\ \A i \in 1..Len(l) : m[i] = l[i]
  OBVIOUS
<1> HIDE DEF m
<1>2. \A i \in DOMAIN m : i \in DOMAIN l \/ i = z
  BY <1>1
<1>3. \A i \in DOMAIN l : i \in DOMAIN m /\ m[i] = l[i] /\ i < z /\ ~(z < i) /\ i # z
  BY <1>1
<1>4. z \in DOMAIN m /\ ~(z > z) BY <1>1
<1>5. CASE e.kind = "running"
  <2>1. \A j \in DOMAIN m : ~(j > z) BY <1>1
  <2> QED BY <1>1, <1>4, <1>5, <2>1 DEF Unended, m
<1>6. CASE e.kind \in {"idle", "error"}
  <2>1. \A i \in DOMAIN m : m[i].kind = "running" => z > i
    BY <1>1, <1>2, <1>3, <1>6
  <2> QED BY <1>1, <1>4, <1>6, <2>1 DEF Unended, m
<1>7. CASE e.kind \notin {"running", "idle", "error"}
  <2>1. ASSUME Unended(l) PROVE Unended(m)
    <3>1. PICK i \in DOMAIN l : /\ l[i].kind = "running"
                                /\ \A j \in DOMAIN l : j > i => l[j].kind \notin {"idle", "error"}
      BY <2>1 DEF Unended
    <3>2. \A j \in DOMAIN m : j > i => m[j].kind \notin {"idle", "error"}
      BY <1>1, <1>2, <1>3, <1>7, <3>1
    <3> QED BY <1>3, <3>1, <3>2 DEF Unended
  <2>2. ASSUME Unended(m) PROVE Unended(l)
    <3>1. PICK i \in DOMAIN m : /\ m[i].kind = "running"
                                /\ \A j \in DOMAIN m : j > i => m[j].kind \notin {"idle", "error"}
      BY <2>2 DEF Unended
    <3>2. i \in DOMAIN l /\ m[i] = l[i]
      BY <1>1, <1>2, <1>3, <1>7, <3>1
    <3> QED BY <1>3, <3>1, <3>2 DEF Unended
  <2> QED BY <1>7, <2>1, <2>2 DEF m
<1> QED BY <1>5, <1>6, <1>7

\* Events stored at the end of the log of session s and published, behind frames
\* about k rows: the stream and the view keep what they had.
LEMMA StoreKeeps ==
  ASSUME IInv, NEW s \in Sessions, NEW es \in Seq(Events), NEW k \in Nat,
         NEW items \in Seq(Items), Len(items) = k + Len(es),
         \A i \in 1..k : items[i].kind # "event",
         \A i \in 1..Len(es) : items[k + i] = Stored(s, Len(log[s]) + i),
         moving[s] = None, log' = [log EXCEPT ![s] = @ \o es], moving' = moving,
         Publish(s, items), UNCHANGED <<current, view, calls>>
  PROVE  /\ PageOK(view, log)' /\ CallsOK(calls, log)' /\ StreamOK(log, current)'
         /\ Ordered' /\ Flowing' /\ gap' \in BOOLEAN
         /\ log' \in [Sessions -> Seq(Events)]
<1>0. /\ log \in [Sessions -> Seq(Events)] /\ log[s] \in Seq(Events)
      /\ Len(log[s]) \in Nat /\ Len(es) \in Nat /\ Len(items) \in Nat
  BY DEF IInv, ServerOK
<1>1. /\ log[s] \o es \in Seq(Events) /\ Len(log[s] \o es) = Len(log[s]) + Len(es)
      /\ DOMAIN (log[s] \o es) = 1..(Len(log[s]) + Len(es))
      /\ \A i \in 1..Len(log[s]) : (log[s] \o es)[i] = log[s][i]
  BY <1>0
<1>2. /\ log' \in [Sessions -> Seq(Events)] /\ log'[s] = log[s] \o es
      /\ \A t \in Sessions : t # s => log'[t] = log[t]
  BY <1>0, <1>1
<1>3. Grows(log, log')
  <2>1. \A t \in Sessions : log[t] \in Seq(Events) /\ Len(log[t]) <= Len(log[t])
    BY <1>0
  <2> HIDE DEF Events
  <2> QED BY <1>0, <1>1, <1>2, <2>1 DEF Grows
<1>4. /\ Announced(log, moving, s) = Len(log[s])
      /\ Announced(log', moving', s) = Len(log[s]) + Len(es)
      /\ DOMAIN log'[s] = 1..(Len(log[s]) + Len(es))
  BY <1>1, <1>2 DEF Announced
<1>5. \A n : Stored(s, n).sess = s /\ Stored(s, n).n = n
  BY DEF Stored
<1>6. \A i \in 1..Len(items) : items[i].kind = "event" =>
         /\ i - k \in 1..Len(es) /\ items[i] = Stored(s, Len(log[s]) + (i - k))
  <2> SUFFICES ASSUME NEW i \in 1..Len(items), items[i].kind = "event"
               PROVE  /\ i - k \in 1..Len(es)
                      /\ items[i] = Stored(s, Len(log[s]) + (i - k))
    OBVIOUS
  <2>1. i \notin 1..k OBVIOUS
  <2>2. i - k \in 1..Len(es) /\ k + (i - k) = i BY <1>0, <2>1
  <2> QED BY <2>2
<1>7. \A n \in DOMAIN log'[s] :
        n > Len(log[s]) => /\ n - Len(log[s]) \in 1..Len(es)
                           /\ k + (n - Len(log[s])) \in 1..Len(items)
                           /\ items[k + (n - Len(log[s]))] = Stored(s, n)
  <2> SUFFICES ASSUME NEW n \in DOMAIN log'[s], n > Len(log[s])
               PROVE  /\ n - Len(log[s]) \in 1..Len(es)
                      /\ k + (n - Len(log[s])) \in 1..Len(items)
                      /\ items[k + (n - Len(log[s]))] = Stored(s, n)
    OBVIOUS
  <2> DEFINE i == n - Len(log[s])
  <2>1. i \in 1..Len(es) /\ k + i \in 1..Len(items) /\ Len(log[s]) + i = n
    BY <1>0, <1>4
  <2> QED BY <2>1
<1>8. \A i \in 1..Len(items) : items[i].kind = "event" =>
           items[i].sess = s /\ items[i].n \in DOMAIN log'[s]
  <2> SUFFICES ASSUME NEW i \in 1..Len(items), items[i].kind = "event"
               PROVE  items[i].sess = s /\ items[i].n \in DOMAIN log'[s]
    OBVIOUS
  <2> DEFINE n == Len(log[s]) + (i - k)
  <2>1. items[i] = Stored(s, n) /\ n \in 1..(Len(log[s]) + Len(es))
    BY <1>0, <1>6
  <2> HIDE DEF n
  <2> QED BY <1>4, <1>5, <2>1
<1>9. \A n \in DOMAIN log'[s] :
        \/ n <= Announced(log, moving, s) \/ n > Announced(log', moving', s)
        \/ \E i \in 1..Len(items) : items[i] = Stored(s, n)
  <2> SUFFICES ASSUME NEW n \in DOMAIN log'[s], ~(n <= Len(log[s]))
               PROVE  \E i \in 1..Len(items) : items[i] = Stored(s, n)
    BY <1>4
  <2>1. n > Len(log[s]) BY <1>0, <1>4
  <2> QED BY <1>7, <2>1
<1>10. \A i \in 1..Len(items) : items[i].kind = "event" =>
         \A n \in DOMAIN log'[s] : n < items[i].n =>
           \/ n <= Announced(log, moving, s)
           \/ \E j \in 1..Len(items) : j < i /\ items[j] = Stored(s, n)
  <2> SUFFICES ASSUME NEW i \in 1..Len(items), items[i].kind = "event",
                      NEW n \in DOMAIN log'[s], n < items[i].n, ~(n <= Len(log[s]))
               PROVE  \E j \in 1..Len(items) : j < i /\ items[j] = Stored(s, n)
    BY <1>4
  <2> DEFINE j == k + (n - Len(log[s]))
  <2>1. n > Len(log[s]) /\ n \in Nat BY <1>0, <1>4
  <2>2. j \in 1..Len(items) /\ items[j] = Stored(s, n)
    BY <1>7, <2>1
  <2>3. items[i].n = Len(log[s]) + (i - k)
    BY <1>5, <1>6
  <2>4. j < i BY <1>0, <2>1, <2>3
  <2> QED BY <2>2, <2>4
<1>11. StreamOK(log, current)' /\ Flowing' /\ gap' \in BOOLEAN /\ (gap => gap')
  BY <1>2, <1>3, <1>8, <1>9, <1>10, PublishKeepsStream DEF IInv
<1>12. PageOK(view, log)' /\ CallsOK(calls, log)' /\ Ordered'
  BY <1>3, <1>11, GrowthKeeps DEF IInv, Rest
<1> QED BY <1>2, <1>11, <1>12

\* One event stored and published.
LEMMA StoreOne ==
  ASSUME IInv, NEW s \in Sessions, NEW e \in Events, Store(s, <<e>>),
         turn' \in [Sessions -> {"rest", "running", "thinking"}],
         \A t \in Sessions : t # s => turn'[t] = turn[t],
         turn'[s] # "rest" =>
           e.kind = "running" \/ (turn[s] # "rest" /\ e.kind \notin {"idle", "error"}),
         UNCHANGED <<queue, moving, limit, Client>>
  PROVE  IInv'
<1> DEFINE items == [i \in 1..Len(<<e>>) |-> Stored(s, Len(log[s]) + i)]
<1>0. log[s] \in Seq(Events) /\ Len(log[s]) \in Nat /\ log \in [Sessions -> Seq(Events)]
  BY DEF IInv, ServerOK
<1>1. /\ items \in Seq(Items) /\ Len(items) = 0 + Len(<<e>>) /\ <<e>> \in Seq(Events)
      /\ \A i \in 1..Len(<<e>>) : items[0 + i] = Stored(s, Len(log[s]) + i)
  BY <1>0 DEF Stored, Items
<1>2. moving[s] = None /\ log' = [log EXCEPT ![s] = @ \o <<e>>] /\ Publish(s, items)
  BY DEF Store
<1>3. UNCHANGED <<current, view, calls, moving, queue, unsent, post, stopping, faults>>
  BY DEF Client
<1> HIDE DEF items
<1>4. /\ PageOK(view, log)' /\ CallsOK(calls, log)' /\ StreamOK(log, current)'
      /\ Ordered' /\ Flowing' /\ gap' \in BOOLEAN
      /\ log' \in [Sessions -> Seq(Events)]
  <2> DEFINE es == <<e>>
  <2>1. /\ es \in Seq(Events) /\ Len(items) = 0 + Len(es) /\ Publish(s, items)
        /\ \A i \in 1..0 : items[i].kind # "event"
        /\ \A i \in 1..Len(es) : items[0 + i] = Stored(s, Len(log[s]) + i)
        /\ log' = [log EXCEPT ![s] = @ \o es]
    BY <1>1, <1>2
  <2> HIDE DEF es
  <2> QED BY <1>1, <1>2, <1>3, <2>1, StoreKeeps
<1>5. log'[s] = Append(log[s], e) /\ \A t \in Sessions : t # s => log'[t] = log[t]
  BY <1>0, <1>2
<1>6. ServerOK'
  <2>1. \A t \in Sessions : t # s =>
          /\ turn'[t] # "rest" => Unended(log'[t])
          /\ moving'[t] # None => Len(log'[t]) > 0
    BY <1>3, <1>5 DEF IInv, ServerOK
  <2>2. turn'[s] # "rest" => Unended(log'[s])
    BY <1>0, <1>5, UnendedAppend DEF IInv, ServerOK
  <2>3. moving'[s] = None BY <1>2, <1>3
  <2> QED BY <1>3, <1>4, <2>1, <2>2, <2>3 DEF IInv, ServerOK
<1>7. Rest'
  BY <1>3, <1>4 DEF IInv, Rest
<1> QED BY <1>4, <1>6, <1>7 DEF IInv

LEMMA EventFacts ==
  /\ \A k \in {"running", "think_chunk", "thinking", "error", "interrupt"} :
       Event(k, None) \in Events
  /\ \A x \in Tools : Event("tool_use", x) \in Events /\ Event("tool_result", x) \in Events
  /\ \A c \in Children : Event("thread_created", c) \in Events
  /\ \A m \in Messages : Event("user", m) \in Events
  /\ \A T \in SUBSET Tools : Event("idle", T) \in Events
  /\ \A k, x : Event(k, x).kind = k /\ Event(k, x).ref = x
BY DEF Event, Events

\* What events of a kind refer to is of the kind's type.
LEMMA RefsTyped ==
  ASSUME NEW l \in Seq(Events)
  PROVE  /\ Open(l) \subseteq Tools /\ RefsIn(l, "tool_use") \subseteq Tools
         /\ RefsIn(l, "thread_created") \subseteq Children
<1>1. \A i \in DOMAIN l : l[i] \in Events OBVIOUS
<1>2. \A e \in Events : /\ e.kind = "tool_use" => e.ref \in Tools
                        /\ e.kind = "thread_created" => e.ref \in Children
  BY DEF Events
<1> QED BY <1>1, <1>2 DEF Open, RefsIn

LEMMA ServerStep ==
  ASSUME IInv, NEW s \in Sessions,
         TurnStarts(s) \/ Thinks(s) \/ Uses(s) \/ TurnEnds(s) \/ OthersAnswer(s)
  PROVE  IInv'
<1>0. /\ turn \in [Sessions -> {"rest", "running", "thinking"}]
      /\ log[s] \in Seq(Events) /\ turn[s] \in {"rest", "running", "thinking"}
  BY DEF IInv, ServerOK
<1>1. ASSUME NEW e \in Events, NEW t \in {"rest", "running", "thinking"}, Store(s, <<e>>),
             turn' = [turn EXCEPT ![s] = t],
             t # "rest" =>
               e.kind = "running" \/ (turn[s] # "rest" /\ e.kind \notin {"idle", "error"}),
             UNCHANGED <<queue, moving, limit, Client>>
      PROVE  IInv'
  <2>1. /\ turn' \in [Sessions -> {"rest", "running", "thinking"}] /\ turn'[s] = t
        /\ \A r \in Sessions : r # s => turn'[r] = turn[r]
    BY <1>0, <1>1
  <2> QED BY <1>1, <2>1, StoreOne
<1>2. ASSUME NEW e \in Events, Store(s, <<e>>), turn' = turn,
             e.kind \in {"tool_use", "tool_result", "thread_created"},
             UNCHANGED <<queue, moving, limit, Client>>
      PROVE  IInv'
  <2>1. turn' = [turn EXCEPT ![s] = turn[s]] BY <1>0, <1>2
  <2> QED BY <1>0, <1>1, <1>2, <2>1
<1>3. CASE TurnStarts(s)
  <2>1. Event("running", None) \in Events /\ Event("running", None).kind = "running"
    BY EventFacts
  <2> QED BY <1>1, <1>3, <2>1 DEF TurnStarts
<1>4. CASE Thinks(s)
  <2>1. /\ Event("think_chunk", None) \in Events /\ Event("thinking", None) \in Events
        /\ Event("think_chunk", None).kind = "think_chunk"
        /\ Event("thinking", None).kind = "thinking"
    BY EventFacts
  <2>2. CASE /\ turn[s] = "running" /\ Store(s, <<Event("think_chunk", None)>>)
             /\ turn' = [turn EXCEPT ![s] = "thinking"]
    BY <1>1, <1>4, <2>1, <2>2 DEF Thinks
  <2>3. CASE /\ turn[s] = "thinking" /\ Store(s, <<Event("thinking", None)>>)
             /\ turn' = [turn EXCEPT ![s] = "running"]
    BY <1>1, <1>4, <2>1, <2>3 DEF Thinks
  <2> QED BY <1>4, <2>2, <2>3 DEF Thinks
<1>5. CASE Uses(s)
  <2>1. CASE \E x \in Tools \ RefsIn(log[s], "tool_use") : Store(s, <<Event("tool_use", x)>>)
    BY <1>2, <1>5, <2>1, EventFacts DEF Uses
  <2>2. CASE \E c \in Children \ RefsIn(log[s], "thread_created") :
               Store(s, <<Event("thread_created", c)>>)
    BY <1>2, <1>5, <2>2, EventFacts DEF Uses
  <2> QED BY <1>5, <2>1, <2>2 DEF Uses
<1>6. CASE TurnEnds(s)
  <2>1. /\ Event("idle", Open(log[s])) \in Events /\ Event("error", None) \in Events
        /\ Event("idle", Open(log[s])).kind = "idle" /\ Event("error", None).kind = "error"
    BY <1>0, EventFacts, RefsTyped
  <2> QED BY <1>1, <1>6, <2>1 DEF TurnEnds
<1>7. CASE OthersAnswer(s)
  <2>1. PICK x \in Open(log[s]) : Store(s, <<Event("tool_result", x)>>)
    BY <1>7 DEF OthersAnswer
  <2>2. x \in Tools BY <1>0, RefsTyped
  <2> QED BY <1>2, <1>7, <2>1, <2>2, EventFacts DEF OthersAnswer
<1> QED BY <1>3, <1>4, <1>5, <1>6, <1>7

\* The row's event is stored and not published: what is announced stays.
LEMMA PromoteStoreStep ==
  ASSUME IInv, NEW s \in Sessions, PromoteStore(s)
  PROVE  IInv'
<1>1. PICK m \in queue[s] : /\ moving' = [moving EXCEPT ![s] = m]
                            /\ log' = [log EXCEPT ![s] = Append(@, Event("user", m))]
  BY DEF PromoteStore
<1>2. UNCHANGED <<queue, turn, limit, conn, replay, buffer, gap, current, view, calls,
                  unsent, post, stopping, faults>> /\ moving[s] = None
  BY DEF PromoteStore, Client, stream
<1>3. /\ log \in [Sessions -> Seq(Events)] /\ log[s] \in Seq(Events) /\ m \in Messages
      /\ moving \in [Sessions -> Messages \cup {None}] /\ m # None
  BY ViewAssumption DEF IInv, ServerOK
<1>4. Event("user", m) \in Events /\ Event("user", m).kind = "user"
  BY <1>3, EventFacts
<1>5. /\ log' \in [Sessions -> Seq(Events)] /\ log'[s] = Append(log[s], Event("user", m))
      /\ \A t \in Sessions : t # s => log'[t] = log[t] /\ moving'[t] = moving[t]
      /\ moving' \in [Sessions -> Messages \cup {None}] /\ moving'[s] = m
  BY <1>1, <1>3, <1>4
<1>6. /\ Len(log[s]) \in Nat /\ Len(log'[s]) = Len(log[s]) + 1
      /\ \A i \in 1..Len(log[s]) : log'[s][i] = log[s][i]
  BY <1>3, <1>4, <1>5
<1>7. Grows(log, log')
  <2> SUFFICES ASSUME NEW t \in Sessions
               PROVE  /\ Len(log[t]) <= Len(log'[t])
                      /\ \A i \in 1..Len(log[t]) : log'[t][i] = log[t][i]
    BY <1>3, <1>5 DEF Grows
  <2>1. CASE t = s BY <1>6, <2>1
  <2>2. CASE t # s
    <3>1. log[t] \in Seq(Events) /\ log'[t] = log[t] BY <1>3, <1>5, <2>2
    <3>2. Len(log[t]) \in Nat BY <3>1
    <3> QED BY <3>1, <3>2
  <2> QED BY <2>1, <2>2
<1>8. PageOK(view, log)' /\ CallsOK(calls, log)' /\ Ordered'
  BY <1>2, <1>7, GrowthKeeps DEF IInv, Rest
<1>9. ServerOK'
  <2>1. \A t \in Sessions : t # s =>
          /\ turn'[t] # "rest" => Unended(log'[t])
          /\ moving'[t] # None => Len(log'[t]) > 0
    BY <1>2, <1>5 DEF IInv, ServerOK
  <2>2. turn'[s] # "rest" => Unended(log'[s])
    <3>1. Unended(log'[s]) <=> Unended(log[s])
      BY <1>3, <1>4, <1>5, UnendedAppend
    <3> QED BY <1>2, <3>1 DEF IInv, ServerOK
  <2>3. Len(log'[s]) > 0 BY <1>6
  <2> QED BY <1>2, <1>5, <2>1, <2>2, <2>3 DEF IInv, ServerOK
<1>10. Announced(log', moving', current) = Announced(log, moving, current)
  <2>1. CASE s = current BY <1>2, <1>3, <1>5, <1>6, <2>1 DEF Announced
  <2>2. CASE s # current BY <1>5, <2>2 DEF Announced, IInv, Rest
  <2> QED BY <2>1, <2>2
<1>11. /\ \A n \in DOMAIN log[current] : n \in DOMAIN log'[current]
       /\ \A n \in Canonical(log'[current]) :
            n \in Nat /\ (n <= Len(log[current]) => n \in Canonical(log[current]))
  BY <1>7, CanonicalGrows DEF IInv, Rest
<1>12. StreamOK(log, current)'
  BY <1>2, <1>11 DEF IInv, StreamOK, Subscribed
<1>13. Flowing'
  <2> SUFFICES ASSUME ~gap, conn = "live"
               PROVE  /\ NoHole(view, log', current) /\ Covered(view, log', moving', current)
    BY <1>2 DEF Flowing, NoHole, Covered, Comes, Pipe
  <2>1. NoHole(view, log, current) /\ Covered(view, log, moving, current)
    BY DEF IInv, Flowing
  <2>2. /\ Announced(log, moving, current) \in Int
        /\ Announced(log, moving, current) <= Len(log[current])
        /\ Len(log[current]) \in Nat /\ DOMAIN log[current] = 1..Len(log[current])
    BY <1>3, AnnouncedFacts DEF IInv, Rest
  <2>3. \A i \in DOMAIN Pipe : Pipe[i].kind = "event" => Pipe[i].n \in DOMAIN log[current]
    <3>1. replay \in Seq(Items) /\ buffer \in Seq(Items) BY DEF IInv, StreamOK
    <3> SUFFICES ASSUME NEW i \in DOMAIN Pipe, Pipe[i].kind = "event"
                 PROVE  Pipe[i].n \in DOMAIN log[current]
      OBVIOUS
    <3>2. i \in 1..(Len(replay) + Len(buffer)) /\ Len(replay) \in Nat /\ Len(buffer) \in Nat
      BY <3>1, Joined DEF Pipe
    <3>3. CASE i <= Len(replay)
      <4>1. i \in DOMAIN replay /\ Pipe[i] = replay[i] BY <3>1, <3>2, <3>3, Joined DEF Pipe
      <4> QED BY <4>1 DEF IInv, StreamOK
    <3>4. CASE i > Len(replay)
      <4> DEFINE j == i - Len(replay)
      <4>1. j \in 1..Len(buffer) /\ i = Len(replay) + j BY <3>2, <3>4
      <4>2. Pipe[Len(replay) + j] = buffer[j] /\ j \in DOMAIN buffer
        BY <3>1, <4>1, Joined DEF Pipe
      <4> HIDE DEF j
      <4>3. buffer[j].kind = "event" /\ Pipe[i] = buffer[j] BY <4>1, <4>2
      <4> QED BY <4>2, <4>3 DEF IInv, StreamOK
    <3> QED BY <3>2, <3>3, <3>4
  <2>4. NoHole(view, log', current)
    <3> SUFFICES ASSUME NEW i \in DOMAIN Pipe, Pipe[i].kind = "event",
                        NEW n \in Canonical(log'[current]), n < Pipe[i].n
                 PROVE  Comes(view, current, n, i - 1)
      BY DEF NoHole
    <3>1. n \in Nat /\ n <= Len(log[current]) BY <1>11, <2>2, <2>3
    <3> QED BY <1>11, <2>1, <3>1 DEF NoHole
  <2>5. Covered(view, log', moving', current)
    <3> SUFFICES ASSUME NEW n \in Canonical(log'[current]),
                        n <= Announced(log, moving, current)
                 PROVE  Comes(view, current, n, Len(Pipe))
      BY <1>10 DEF Covered
    <3>1. n \in Nat /\ n <= Len(log[current]) BY <1>11, <2>2
    <3> QED BY <1>11, <2>1, <3>1 DEF Covered
  <2> QED BY <2>4, <2>5
<1>14. Rest' BY <1>2 DEF IInv, Rest
<1> QED BY <1>8, <1>9, <1>12, <1>13, <1>14 DEF IInv

\* The view of an action that shows nothing new: its keys, and with them all that the
\* log and the stream say of it, stay.
LEMMA SameShown ==
  ASSUME IInv, UNCHANGED <<log, current>>, view' \in PageStates,
         view'.shown = view.shown, view'.keys = view.keys,
         \/ view'.status = view.status /\ view'.stopped = view.stopped
         \/ view'.stopped,
         CallsOK(calls', log),
         \A c \in calls' : c.what = "history" => c \in calls,
         gap' \in BOOLEAN, gap => gap'
  PROVE  PageOK(view, log)' /\ CallsOK(calls, log)' /\ Ordered'
<1>1. PageOK(view', log')
  BY DEF IInv, PageOK
<1>2. ASSUME ~gap'
      PROVE  /\ InOrder(view', log', current') /\ StatusOK(view', log', current')
             /\ PagesOK(view', calls', log', current')
  <2>0. ~gap BY <1>2
  <2>1. /\ InOrder(view, log, current) /\ StatusOK(view, log, current)
        /\ PagesOK(view, calls, log, current)
    BY <2>0 DEF IInv, Ordered
  <2>2. InOrder(view', log', current') BY <2>1 DEF InOrder
  <2>3. StatusOK(view', log', current') BY <2>1 DEF StatusOK
  <2>4. PagesOK(view', calls', log', current') BY <2>1 DEF PagesOK
  <2> QED BY <2>2, <2>3, <2>4
<1> QED BY <1>1, <1>2 DEF Ordered

\* What is under way still covers the log when more of it is shown.
LEMMA MoreShown ==
  ASSUME IInv, UNCHANGED <<log, moving, current, conn, replay, buffer>>,
         view.keys \subseteq view'.keys, gap => gap', gap' \in BOOLEAN
  PROVE  StreamOK(log, current)' /\ Flowing'
<1>1. StreamOK(log, current)' BY DEF IInv, StreamOK, Subscribed
<1>2. \A n, k : Comes(view, current, n, k) => Comes(view, current, n, k)'
  BY DEF Comes, Pipe
<1>3. ASSUME ~gap', conn' = "live"
      PROVE  NoHole(view, log, current)' /\ Covered(view, log, moving, current)'
  <2>0. ~gap BY <1>3
  <2>1. NoHole(view, log, current) /\ Covered(view, log, moving, current)
    BY <2>0, <1>3 DEF IInv, Flowing
  <2>2. Pipe' = Pipe BY DEF Pipe
  <2>3. NoHole(view, log, current)'
    BY <1>2, <2>1, <2>2 DEF NoHole
  <2>4. Covered(view, log, moving, current)'
    <3>1. \A n : Comes(view, current, n, Len(Pipe)) => Comes(view, current, n, Len(Pipe))'
      BY DEF Comes, Pipe
    <3> QED BY <2>1, <3>1 DEF Covered
  <2> QED BY <2>3, <2>4
<1> QED BY <1>1, <1>3 DEF Flowing

LEMMA FrameFacts ==
  /\ \A k \in FrameKinds, m \in Messages :
       Frame(k, m) \in Items /\ Frame(k, m).kind # "event"
  /\ \A s \in Sessions, n \in Nat : Stored(s, n) \in Items
  /\ \A s, n : /\ Stored(s, n).kind = "event"
               /\ Stored(s, n).sess = s /\ Stored(s, n).n = n
BY DEF Frame, Stored, Items, FrameKinds

\* The event of the promoted row is the last of the log: publishing it makes all of
\* the log announced.
LEMMA PromotePublishStep ==
  ASSUME IInv, NEW s \in Sessions, PromotePublish(s)
  PROVE  IInv'
<1> DEFINE L == Len(log[s])
           items == <<Stored(s, L), Frame("promoted", moving[s])>>
<1>1. /\ moving[s] # None /\ queue' = [queue EXCEPT ![s] = @ \ {moving[s]}]
      /\ moving' = [moving EXCEPT ![s] = None] /\ Publish(s, items)
      /\ UNCHANGED <<log, turn, limit, current, view, calls, unsent, post, stopping, faults>>
  BY DEF PromotePublish, Client
<1>2. /\ log \in [Sessions -> Seq(Events)] /\ log[s] \in Seq(Events) /\ L \in Nat /\ L > 0
      /\ moving[s] \in Messages /\ moving \in [Sessions -> Messages \cup {None}]
      /\ queue \in [Sessions -> SUBSET Messages] /\ DOMAIN log[s] = 1..L
  BY <1>1 DEF IInv, ServerOK
<1>3. /\ items \in Seq(Items) /\ Len(items) = 2 /\ items[1] = Stored(s, L)
      /\ items[2].kind # "event"
  <2>1. Stored(s, L) \in Items /\ Frame("promoted", moving[s]) \in Items
        /\ Frame("promoted", moving[s]).kind # "event"
    BY <1>2, FrameFacts DEF FrameKinds
  <2> HIDE DEF Items
  <2> QED BY <2>1
<1> HIDE DEF items
<1>4. Announced(log, moving, s) = L - 1
  BY <1>1 DEF Announced
<1>5. \A i \in 1..Len(items) : items[i].kind = "event" => i = 1 /\ items[i] = Stored(s, L)
  BY <1>3
<1>6. Grows(log, log')
  <2>1. \A t \in Sessions : Len(log[t]) \in Nat BY <1>2
  <2> QED BY <1>1, <1>2, <2>1 DEF Grows
<1>7. \A i \in 1..Len(items) : items[i].kind = "event" =>
         items[i].sess = s /\ items[i].n \in DOMAIN log'[s] /\ items[i].n = L
  BY <1>1, <1>2, <1>5, FrameFacts
<1>8. \A n \in DOMAIN log'[s] :
        \/ n <= Announced(log, moving, s) \/ n > Announced(log', moving', s)
        \/ \E i \in 1..Len(items) : items[i] = Stored(s, n)
  <2> SUFFICES ASSUME NEW n \in 1..L, ~(n <= L - 1)
               PROVE  \E i \in 1..Len(items) : items[i] = Stored(s, n)
    BY <1>1, <1>2, <1>4
  <2>0. L \in Nat BY <1>2
  <2>1. n = L
    <3> HIDE DEF L
    <3> QED BY <2>0
  <2> QED BY <1>3, <2>1
<1>9. \A i \in 1..Len(items) : items[i].kind = "event" =>
        \A n \in DOMAIN log'[s] : n < items[i].n =>
          \/ n <= Announced(log, moving, s)
          \/ \E j \in 1..Len(items) : j < i /\ items[j] = Stored(s, n)
  <2> SUFFICES ASSUME NEW n \in 1..L, n < L PROVE n <= L - 1
    BY <1>1, <1>2, <1>4, <1>7
  <2> QED BY <1>2
<1>a. \A t \in Sessions : t # s => log'[t] = log[t] /\ moving'[t] = moving[t]
  BY <1>1, <1>2
<1>10. StreamOK(log, current)' /\ Flowing' /\ gap' \in BOOLEAN /\ (gap => gap')
  <2>1. Rest /\ StreamOK(log, current) /\ Flowing BY DEF IInv
  <2>2. view'.keys = view.keys /\ current' = current BY <1>1
  <2>3. \A i \in 1..Len(items) : items[i].kind = "event" =>
          items[i].sess = s /\ items[i].n \in DOMAIN log'[s]
    BY <1>7
  <2> HIDE DEF L
  <2> QED BY <1>1, <1>3, <1>6, <2>3, <1>8, <1>9, <1>a, <2>1, <2>2, PublishKeepsStream
<1>11. PageOK(view, log)' /\ CallsOK(calls, log)' /\ Ordered'
  BY <1>1, <1>6, <1>10, GrowthKeeps DEF IInv, Rest
<1>12. ServerOK'
  <2>1. /\ moving' \in [Sessions -> Messages \cup {None}]
        /\ \A t \in Sessions : moving'[t] = None \/ moving'[t] = moving[t]
    BY <1>1, <1>2
  <2>2. /\ queue' \in [Sessions -> SUBSET Messages]
        /\ \A t \in Sessions : queue'[t] \subseteq queue[t]
    BY <1>1, <1>2
  <2>3. \A t \in Sessions : IsFiniteSet(queue'[t])
    BY <2>2, FS_Subset DEF IInv, ServerOK
  <2> QED BY <1>1, <2>1, <2>2, <2>3 DEF IInv, ServerOK
<1>13. Rest' BY <1>1, <1>10 DEF IInv, Rest
<1> QED BY <1>10, <1>11, <1>12, <1>13 DEF IInv

\* A POST: the row is queued, then its frame is published.
LEMMA PostStep ==
  ASSUME IInv, PostQueue \/ PostAnnounce \/ PostFails
  PROVE  IInv'
<1>0. /\ view \in PageStates /\ CallsOK(calls, log) /\ gap \in BOOLEAN /\ MaxFaults \in Nat
      /\ faults \in 0..MaxFaults
  BY ViewAssumption DEF IInv, PageOK, Rest
<1>1. CASE PostQueue
  <2>1. /\ post \in [msg : Messages, sess : Sessions, at : {"sent", "queued"}]
        /\ queue' = [queue EXCEPT ![post.sess] = @ \cup {post.msg}]
        /\ post' = [post EXCEPT !.at = "queued"]
        /\ UNCHANGED <<log, turn, moving, limit, conn, replay, buffer, current, view, calls,
                       unsent, stopping, gap, faults>>
    BY <1>1 DEF PostQueue, IInv, Rest, stream
  <2>2. PageOK(view, log)' /\ CallsOK(calls, log)' /\ Ordered'
    BY <1>0, <2>1, SameShown
  <2>3. StreamOK(log, current)' /\ Flowing' BY <1>0, <2>1, MoreShown
  <2>4. post' \in [msg : Messages, sess : Sessions, at : {"sent", "queued"}] BY <2>1
  <2>5. ServerOK'
    <3>1. post.msg \in Messages /\ post.sess \in Sessions BY <2>1
    <3>2. queue \in [Sessions -> SUBSET Messages] BY DEF IInv, ServerOK
    <3>3. /\ queue' \in [Sessions -> SUBSET Messages]
          /\ \A t \in Sessions : queue'[t] = queue[t] \/ queue'[t] = queue[t] \cup {post.msg}
      BY <2>1, <3>1, <3>2
    <3>4. \A t \in Sessions : IsFiniteSet(queue'[t])
      <4>1. \A t \in Sessions : IsFiniteSet(queue[t]) BY DEF IInv, ServerOK
      <4>2. \A t \in Sessions : IsFiniteSet(queue[t] \cup {post.msg})
        BY <4>1, FS_AddElement
      <4> QED BY <3>3, <4>1, <4>2
    <3> QED BY <2>1, <3>3, <3>4 DEF IInv, ServerOK
  <2> QED BY <2>1, <2>2, <2>3, <2>4, <2>5 DEF IInv, Rest
<1>2. CASE PostAnnounce
  <2> DEFINE items == <<Frame("pending", post.msg)>>
             s == post.sess
  <2>1. /\ post \in [msg : Messages, sess : Sessions, at : {"sent", "queued"}]
        /\ Publish(s, items) /\ post' = None
        /\ view' = [view EXCEPT !.local = Claim(@, post.msg)]
        /\ UNCHANGED <<log, queue, turn, moving, limit, current, calls, unsent, stopping,
                       faults>>
    BY <1>2 DEF PostAnnounce, IInv, Rest, server
  <2>2. /\ items \in Seq(Items) /\ Len(items) = 1 /\ items[1].kind # "event"
    <3>1. /\ Frame("pending", post.msg) \in Items
          /\ Frame("pending", post.msg).kind # "event"
      BY <2>1, FrameFacts DEF FrameKinds
    <3> HIDE DEF Items
    <3> QED BY <3>1
  <2>3. /\ view' \in PageStates /\ view'.shown = view.shown /\ view'.keys = view.keys
        /\ view'.status = view.status /\ view'.stopped = view.stopped
    <3>1. Claim(view.local, post.msg) \in Messages \cup {None}
      BY <1>0 DEF Claim, PageStates
    <3> QED BY <1>0, <2>1, <3>1 DEF PageStates
  <2>4. log \in [Sessions -> Seq(Events)] BY DEF IInv, ServerOK
  <2>5. Grows(log, log')
    <3>1. \A t \in Sessions : Len(log[t]) \in Nat BY <2>4
    <3> QED BY <2>1, <2>4, <3>1 DEF Grows
  <2>6. s \in Sessions /\ \A i \in 1..Len(items) : items[i].kind # "event"
    BY <2>1, <2>2
  <2> HIDE DEF items, s
  <2>7. \A n \in DOMAIN log'[s] :
          n <= Announced(log, moving, s) \/ n > Announced(log', moving', s)
    <3>1. log[s] \in Seq(Events) BY <2>4, <2>6
    <3>2. Announced(log, moving, s) \in Int /\ DOMAIN log[s] = 1..Len(log[s]) /\ Len(log[s]) \in Nat
      BY <3>1, AnnouncedFacts
    <3> QED BY <2>1, <3>2 DEF Announced
  <2>8. StreamOK(log, current)' /\ Flowing' /\ gap' \in BOOLEAN /\ (gap => gap')
    <3>1. Rest /\ StreamOK(log, current) /\ Flowing BY DEF IInv
    <3>2. \A t \in Sessions : t # s => log'[t] = log[t] /\ moving'[t] = moving[t]
      BY <2>1
    <3> QED BY <2>1, <2>2, <2>3, <2>5, <2>6, <2>7, <3>1, <3>2, PublishKeepsStream
  <2>9. PageOK(view, log)' /\ CallsOK(calls, log)' /\ Ordered'
    BY <1>0, <2>1, <2>3, <2>8, SameShown DEF IInv
  <2>10. ServerOK' BY <2>1 DEF IInv, ServerOK
  <2> QED BY <2>1, <2>8, <2>9, <2>10 DEF IInv, Rest
<1>3. CASE PostFails
  <2>1. /\ post' = None /\ view' = [view EXCEPT !.local = None] /\ faults' = faults + 1
        /\ faults < MaxFaults
        /\ UNCHANGED <<log, queue, turn, moving, limit, conn, replay, buffer, current, calls,
                       unsent, stopping, gap>>
    BY <1>3 DEF PostFails, server, stream
  <2>2. /\ view' \in PageStates /\ view'.shown = view.shown /\ view'.keys = view.keys
        /\ view'.status = view.status /\ view'.stopped = view.stopped
    BY <1>0, <2>1 DEF PageStates
  <2>3. PageOK(view, log)' /\ CallsOK(calls, log)' /\ Ordered'
    BY <1>0, <2>1, <2>2, SameShown
  <2>4. StreamOK(log, current)' /\ Flowing' BY <1>0, <2>1, <2>2, MoreShown
  <2>5. faults' \in 0..MaxFaults BY <1>0, <2>1
  <2>6. ServerOK' BY <2>1 DEF IInv, ServerOK
  <2> QED BY <2>1, <2>3, <2>4, <2>5, <2>6 DEF IInv, Rest
<1> QED BY <1>1, <1>2, <1>3

\* The stop is served: an interrupt, and an idle event when something was stopped,
\* behind a frame for each row that was queued.
LEMMA StopServeStep ==
  ASSUME IInv, StopServe
  PROVE  IInv'
<1> DEFINE s   == stopping.sess
           busy == turn[s] # "rest" \/ queue[s] # {}
           es  == <<Event("interrupt", None)>>
                  \o IF busy THEN <<Event("idle", {})>> ELSE <<>>
           off == SetToSeq(queue[s])
           offs == [i \in DOMAIN off |-> Frame("cancelled", off[i])]
           ends == [i \in DOMAIN es |-> Stored(s, Len(log[s]) + i)]
           items == offs \o ends
<1>1. /\ stopping \in [sess : Sessions, at : {"sent", "served"}]
      /\ moving[s] = None /\ log' = [log EXCEPT ![s] = @ \o es]
      /\ Publish(s, items)
      /\ queue' = [queue EXCEPT ![s] = {}] /\ turn' = [turn EXCEPT ![s] = "rest"]
      /\ stopping' = [stopping EXCEPT !.at = "served"]
      /\ UNCHANGED <<moving, limit, current, view, calls, unsent, post, faults>>
  BY DEF StopServe, IInv, Rest
<1>2. /\ s \in Sessions /\ log \in [Sessions -> Seq(Events)] /\ log[s] \in Seq(Events)
      /\ Len(log[s]) \in Nat /\ queue \in [Sessions -> SUBSET Messages]
      /\ turn \in [Sessions -> {"rest", "running", "thinking"}]
  BY <1>1 DEF IInv, ServerOK
<1>3. /\ off \in Seq(Messages)
  <2>1. queue[s] \subseteq Messages /\ IsFiniteSet(queue[s])
    BY <1>2 DEF IInv, ServerOK
  <2>2. off \in Seq(queue[s]) BY <2>1, RowsInSequence
  <2> HIDE DEF off
  <2> QED BY <2>1, <2>2
<1> DEFINE stop == Event("interrupt", None)
           rest == Event("idle", {})
<1>4. stop \in Events /\ rest \in Events /\ stop.kind = "interrupt" /\ rest.kind = "idle"
  BY EventFacts
<1>5. es = IF busy THEN <<stop, rest>> ELSE <<stop>>
  <2>1. es = <<stop>> \o IF busy THEN <<rest>> ELSE <<>>
    OBVIOUS
  <2> HIDE DEF es, stop, rest, busy
  <2>2. <<stop>> \o <<rest>> = <<stop, rest>>
    <3> DEFINE c == <<stop>> \o <<rest>>
    <3>1. /\ <<stop>> \in Seq(Events) /\ <<rest>> \in Seq(Events)
          /\ c \in Seq(Events) /\ Len(c) = 2 /\ c[1] = stop /\ c[2] = rest
      BY <1>4
    <3>2. <<stop, rest>> \in Seq(Events) /\ Len(<<stop, rest>>) = 2
      BY <1>4
    <3> HIDE DEF c
    <3>3. c = <<stop, rest>>
      BY <3>1, <3>2
    <3> QED BY <3>3 DEF c
  <2>3. <<stop>> \o <<>> = <<stop>>
    BY <1>4
  <2> QED BY <2>1, <2>2, <2>3
<1>6. es \in Seq(Events) /\ Len(es) \in Nat /\ DOMAIN es = 1..Len(es)
  <2> HIDE DEF es, stop, rest, busy
  <2>1. <<stop, rest>> \in Seq(Events) /\ <<stop>> \in Seq(Events) BY <1>4
  <2>2. es \in Seq(Events) BY <1>5, <2>1
  <2> QED BY <2>2
<1> HIDE DEF off
<1>7. /\ offs \in Seq(Items) /\ Len(offs) = Len(off) /\ Len(off) \in Nat
      /\ \A i \in 1..Len(offs) : offs[i].kind # "event"
  <2>1. DOMAIN off = 1..Len(off) /\ \A i \in DOMAIN off : off[i] \in Messages
    BY <1>3
  <2>2. \A i \in DOMAIN off : offs[i] \in Items /\ offs[i].kind # "event"
    BY <2>1, FrameFacts DEF FrameKinds
  <2>3. offs \in [1..Len(off) -> Items] BY <2>1, <2>2
  <2> HIDE DEF offs, Items
  <2> QED BY <1>3, <2>1, <2>2, <2>3
<1> HIDE DEF es
<1>8. /\ ends \in Seq(Items) /\ Len(ends) = Len(es)
      /\ \A i \in 1..Len(es) : ends[i] = Stored(s, Len(log[s]) + i)
  <2>1. \A i \in 1..Len(es) : Stored(s, Len(log[s]) + i) \in Items
    BY <1>2, FrameFacts
  <2>2. ends \in [1..Len(es) -> Items] BY <1>6, <2>1
  <2>3. \A i \in 1..Len(es) : ends[i] = Stored(s, Len(log[s]) + i) BY <1>6
  <2> HIDE DEF ends, Items
  <2> QED BY <1>6, <2>2, <2>3
<1> DEFINE k == Len(offs)
<1> HIDE DEF offs, ends
<1>9. /\ items \in Seq(Items) /\ Len(items) = k + Len(es) /\ k \in Nat
      /\ \A i \in 1..k : items[i].kind # "event"
      /\ \A i \in 1..Len(es) : items[k + i] = Stored(s, Len(log[s]) + i)
  <2>1. /\ offs \o ends \in Seq(Items)
        /\ Len(offs \o ends) = Len(offs) + Len(ends)
        /\ \A i \in 1..Len(offs) : (offs \o ends)[i] = offs[i]
        /\ \A i \in 1..Len(ends) : (offs \o ends)[Len(offs) + i] = ends[i]
    BY <1>7, <1>8, Joined
  <2> QED BY <1>7, <1>8, <2>1
<1> HIDE DEF items, k, s
<1>10. /\ PageOK(view, log)' /\ CallsOK(calls, log)' /\ StreamOK(log, current)'
       /\ Ordered' /\ Flowing' /\ gap' \in BOOLEAN
       /\ log' \in [Sessions -> Seq(Events)]
  <2>1. UNCHANGED <<current, view, calls>> /\ moving' = moving /\ s \in Sessions
    BY <1>1, <1>2
  <2>2. moving[s] = None /\ log' = [log EXCEPT ![s] = @ \o es] /\ Publish(s, items)
    BY <1>1
  <2> QED BY <1>6, <1>9, <2>1, <2>2, StoreKeeps
<1>11. log'[s] = log[s] \o es /\ \A t \in Sessions : t # s => log'[t] = log[t]
  BY <1>1, <1>2
<1>13. ServerOK'
  <2>1. /\ queue' \in [Sessions -> SUBSET Messages]
        /\ \A t \in Sessions : queue'[t] = queue[t] \/ queue'[t] = {}
    BY <1>1, <1>2
  <2>2. \A t \in Sessions : IsFiniteSet(queue'[t])
    BY <2>1, FS_EmptySet DEF IInv, ServerOK
  <2>3. /\ turn' \in [Sessions -> {"rest", "running", "thinking"}] /\ turn'[s] = "rest"
        /\ \A t \in Sessions : t # s => turn'[t] = turn[t]
    BY <1>1, <1>2
  <2>4. \A t \in Sessions : /\ turn'[t] # "rest" => Unended(log'[t])
                            /\ moving'[t] # None => Len(log'[t]) > 0
    BY <1>1, <1>11, <2>3 DEF IInv, ServerOK
  <2> QED BY <1>1, <1>10, <2>1, <2>2, <2>3, <2>4 DEF IInv, ServerOK
<1>14. Rest'
  <2>1. stopping' \in [sess : Sessions, at : {"sent", "served"}] BY <1>1
  <2> QED BY <1>1, <1>10, <2>1 DEF IInv, Rest
<1> QED BY <1>10, <1>13, <1>14 DEF IInv

-----------------------------------------------------------------------------
(***************************************************************************)
(* The steps of the page: none of them touches the server.                 *)
(***************************************************************************)
LEMMA SendStep ==
  ASSUME IInv, (\E m \in Messages : Send(m)) \/ Stop \/ StopAnswer \/ StopFails
  PROVE  IInv'
<1>0. /\ view \in PageStates /\ CallsOK(calls, log) /\ gap \in BOOLEAN /\ MaxFaults \in Nat
      /\ faults \in 0..MaxFaults /\ current \in Sessions /\ unsent \subseteq Messages
  BY ViewAssumption DEF IInv, PageOK, Rest
<1>1. /\ UNCHANGED <<log, queue, turn, moving, limit, conn, replay, buffer, current, calls,
                     gap>>
      /\ faults' \in 0..MaxFaults
  BY <1>0 DEF Send, Stop, StopAnswer, StopFails, server, stream
<1>2. /\ view' \in PageStates /\ view'.shown = view.shown /\ view'.keys = view.keys
      /\ \/ view'.status = view.status /\ view'.stopped = view.stopped
         \/ view'.stopped
  <2>1. CASE \E m \in Messages : Send(m)
    <3>1. PICK m \in Messages : view' = [view EXCEPT !.local = m]
      BY <2>1 DEF Send
    <3> QED BY <1>0, <3>1 DEF PageStates
  <2>2. CASE Stop \/ StopFails BY <1>0, <2>2 DEF Stop, StopFails
  <2>3. CASE StopAnswer
    BY <1>0, <2>3 DEF StopAnswer, PageStates
  <2> QED BY <2>1, <2>2, <2>3
<1>3. /\ unsent' \subseteq Messages
      /\ post' = None \/ post' \in [msg : Messages, sess : Sessions, at : {"sent", "queued"}]
      /\ stopping' = None \/ stopping' \in [sess : Sessions, at : {"sent", "served"}]
  <2>1. CASE \E m \in Messages : Send(m)
    BY <1>0, <2>1 DEF Send, IInv, Rest
  <2>2. CASE Stop BY <1>0, <2>2 DEF Stop, IInv, Rest
  <2>3. CASE StopAnswer \/ StopFails BY <2>3 DEF StopAnswer, StopFails, IInv, Rest
  <2> QED BY <2>1, <2>2, <2>3
<1>4. PageOK(view, log)' /\ CallsOK(calls, log)' /\ Ordered'
  BY <1>0, <1>1, <1>2, SameShown
<1>5. StreamOK(log, current)' /\ Flowing' BY <1>0, <1>1, <1>2, MoreShown
<1>6. ServerOK' BY <1>1 DEF IInv, ServerOK
<1>7. Rest' BY <1>0, <1>1, <1>3 DEF Rest
<1> QED BY <1>4, <1>5, <1>6, <1>7 DEF IInv

\* The connection comes and goes with nothing under way.
LEMMA ConnectionStep ==
  ASSUME IInv, Connect \/ Break \/ Reconnect \/ Refused
  PROVE  IInv'
<1>0. /\ view \in PageStates /\ CallsOK(calls, log) /\ gap \in BOOLEAN /\ MaxFaults \in Nat
      /\ faults \in 0..MaxFaults
  BY ViewAssumption DEF IInv, PageOK, Rest
<1>1. /\ UNCHANGED <<log, queue, turn, moving, limit, current, view, calls, unsent, post,
                     stopping, gap>>
      /\ faults' \in 0..MaxFaults
  BY <1>0 DEF Connect, Break, Reconnect, Refused, server, Client
<1>2. /\ conn' \in {"replaying", "waiting", "connecting", "dead"}
      /\ replay' = <<>> /\ buffer' = <<>>
  <2>1. CASE Connect \/ Break BY <2>1 DEF Connect, Break
  <2>2. CASE Reconnect \/ Refused
    BY <2>2 DEF Reconnect, Refused, IInv, StreamOK, Subscribed
  <2> QED BY <2>1, <2>2
<1>3. PageOK(view, log)' /\ CallsOK(calls, log)' /\ Ordered'
  BY <1>0, <1>1, SameShown
<1>4. StreamOK(log, current)'
  <2>1. Len(<<>>) = 0 /\ <<>> \in Seq(Items) /\ HubBuffer \in Nat /\ DOMAIN <<>> = {}
    BY ViewAssumption
  <2> HIDE DEF Items
  <2> QED BY <1>2, <2>1 DEF StreamOK
<1>5. Flowing' BY <1>2 DEF Flowing
<1>6. ServerOK' BY <1>1 DEF IInv, ServerOK
<1>7. Rest' BY <1>1 DEF IInv, Rest
<1> QED BY <1>3, <1>4, <1>5, <1>6, <1>7 DEF IInv

\* The replay has the whole log in its order, and what the channel has is in it.
LEMMA ReplayStep ==
  ASSUME IInv, Replay
  PROVE  IInv'
<1> DEFINE l == log[current]
           n == IF Len(l) < ReplayLimit THEN Len(l) ELSE ReplayLimit
           r == [i \in 1..n |-> Stored(current, i)]
<1>0. /\ view \in PageStates /\ CallsOK(calls, log) /\ gap \in BOOLEAN
      /\ l \in Seq(Events) /\ current \in Sessions /\ ReplayLimit \in Nat
  BY ViewAssumption DEF IInv, PageOK, Rest, ServerOK
<1>1. /\ replay' = r /\ gap' = (gap \/ n < Len(l)) /\ conn' = "live"
      /\ conn = "replaying"
      /\ UNCHANGED <<log, queue, turn, moving, limit, buffer, current, view, calls, unsent,
                     post, stopping, faults>>
  BY DEF Replay, server, Client
<1>2. gap' \in BOOLEAN /\ (gap => gap') /\ (~gap' => ~gap /\ ~(n < Len(l)))
  BY <1>1
<1>3. n \in Nat /\ n <= Len(l) /\ Len(l) \in Nat /\ DOMAIN l = 1..Len(l)
  BY <1>0
<1> HIDE DEF n
<1>4. /\ r \in Seq(Items) /\ Len(r) = n /\ DOMAIN r = 1..n
      /\ \A i \in 1..n : r[i] = Stored(current, i)
  <2>1. \A i \in 1..n : Stored(current, i) \in Items
    BY <1>0, <1>3, FrameFacts
  <2>2. r \in [1..n -> Items] BY <2>1
  <2>3. \A i \in 1..n : r[i] = Stored(current, i) OBVIOUS
  <2> HIDE DEF r, Items
  <2> QED BY <1>3, <2>2, <2>3
<1> HIDE DEF r, l
<1>5. PageOK(view, log)' /\ CallsOK(calls, log)' /\ Ordered'
  BY <1>0, <1>1, <1>2, SameShown
<1>6. StreamOK(log, current)'
  <2>1. \A i \in DOMAIN replay' :
          /\ replay'[i].kind = "event" /\ replay'[i].sess = current
          /\ replay'[i].n \in DOMAIN l
    BY <1>1, <1>3, <1>4, FrameFacts
  <2> QED BY <1>1, <1>4, <2>1 DEF IInv, StreamOK, Subscribed, l
<1>7. Flowing'
  <2> SUFFICES ASSUME ~gap'
               PROVE  NoHole(view, log, current)' /\ Covered(view, log, moving, current)'
    BY DEF Flowing
  <2> DEFINE q == replay' \o buffer'
  <2>0. n = Len(l)
    <3> DEFINE k == Len(l)
    <3>1. ~(n < k) BY <1>2
    <3>2. n \in Nat /\ k \in Nat /\ n <= k BY <1>3
    <3> HIDE DEF k
    <3>3. n = k BY <3>1, <3>2
    <3> QED BY <3>3 DEF k
  <2>1. buffer \in Seq(Items) /\ buffer' = buffer BY <1>1 DEF IInv, StreamOK
  <2>2. /\ Len(q) = n + Len(buffer) /\ Len(buffer) \in Nat /\ DOMAIN q = 1..(n + Len(buffer))
        /\ \A i \in 1..n : q[i] = Stored(current, i)
        /\ \A i \in 1..Len(buffer) : q[n + i] = buffer[i]
        /\ DOMAIN buffer = 1..Len(buffer)
    BY <1>1, <1>4, <2>1, Joined
  <2> HIDE DEF q
  <2>3. \A m \in Canonical(l) : m \in 1..n
    BY <1>3, <2>0 DEF Canonical
  <2> DEFINE Here(m, k) == \/ Stored(current, m) \in view.keys
                           \/ \E j \in DOMAIN q : j <= k /\ q[j] = Stored(current, m)
  <2>4. ASSUME NEW i \in DOMAIN q, q[i].kind = "event",
               NEW m \in Canonical(l), m < q[i].n
        PROVE  Here(m, i - 1)
    <3>1. m \in 1..n /\ m \in DOMAIN q /\ q[m] = Stored(current, m)
      BY <1>3, <2>2, <2>3
    <3>2. CASE i <= n
      <4>1. q[i].n = i BY <2>2, <3>2, FrameFacts
      <4> QED BY <1>3, <2>2, <2>4, <3>1, <4>1
    <3>3. CASE i > n
      <4>1. m <= i - 1 BY <1>3, <2>2, <3>1, <3>3
      <4> QED BY <3>1, <4>1
    <3> QED BY <1>3, <2>2, <3>2, <3>3
  <2>5. ASSUME NEW m \in Canonical(l) PROVE Here(m, Len(q))
    <3>1. m \in 1..n /\ m \in DOMAIN q /\ q[m] = Stored(current, m) /\ m <= Len(q)
      BY <1>3, <2>2, <2>3
    <3> QED BY <3>1
  <2>6. NoHole(view, log, current)'
    BY <1>1, <2>4 DEF NoHole, Comes, Pipe, q, l
  <2>7. Covered(view, log, moving, current)'
    BY <1>1, <2>5 DEF Covered, Comes, Pipe, q, l
  <2> QED BY <2>6, <2>7
<1>8. ServerOK' BY <1>1 DEF IInv, ServerOK
<1>9. Rest' BY <1>1, <1>2 DEF IInv, Rest
<1> QED BY <1>5, <1>6, <1>7, <1>8, <1>9 DEF IInv

\* A replay that fails delivers nothing.  On a page that shows the whole log nothing is
\* missing in front of what the channel has.
LEMMA ReplayFailsStep ==
  ASSUME IInv, ReplayFails
  PROVE  IInv'
<1>0. /\ view \in PageStates /\ CallsOK(calls, log) /\ gap \in BOOLEAN
      /\ MaxFaults \in Nat /\ faults \in 0..MaxFaults
  BY ViewAssumption DEF IInv, PageOK, Rest
<1>1. /\ conn = "replaying" /\ conn' = "live" /\ faults' \in 0..MaxFaults
      /\ gap' = (gap \/ ~ShowsAll(view, log[current], current))
      /\ UNCHANGED <<log, queue, turn, moving, limit, replay, buffer, current, view,
                     calls, unsent, post, stopping>>
  BY <1>0 DEF ReplayFails, server
<1>2. gap' \in BOOLEAN /\ (gap => gap')
  BY <1>0, <1>1, Zenon
<1>3. PageOK(view, log)' /\ CallsOK(calls, log)' /\ Ordered'
  BY <1>0, <1>1, <1>2, SameShown
<1>4. StreamOK(log, current)'
  BY <1>1 DEF IInv, StreamOK, Subscribed
<1>5. Flowing'
  <2> SUFFICES ASSUME ~gap'
               PROVE  NoHole(view, log, current)' /\ Covered(view, log, moving, current)'
    BY DEF Flowing
  <2>1. ShowsAll(view, log[current], current)
    BY <1>1
  <2>2. \A n \in Canonical(log[current]) : Stored(current, n) \in view.keys
    BY <2>1 DEF ShowsAll, Range, IInv, PageOK
  <2> QED BY <1>1, <2>2 DEF NoHole, Covered, Comes
<1>6. ServerOK' BY <1>1 DEF IInv, ServerOK
<1>7. Rest' BY <1>1, <1>2 DEF IInv, Rest
<1> QED BY <1>3, <1>4, <1>5, <1>6, <1>7 DEF IInv

\* A refresh is a request for the tools of the open session.
LEMMA RefreshFacts ==
  ASSUME CallsOK(calls, log), current \in Sessions
  PROVE  /\ CallsOK(calls \cup Refreshes(view, view'), log)
         /\ \A c \in Refreshes(view, view') : c.what = "tools" /\ c.sess = current
<1>1. \A c \in Refreshes(view, view') : c = [what |-> "tools", sess |-> current]
  BY DEF Refreshes
<1>2. [what |-> "tools", sess |-> current] \in Requests
  BY DEF Requests
<1>3. \A c \in Refreshes(view, view') : c.what = "tools" /\ c.sess = current /\ c \in Requests
  BY <1>1, <1>2
<1> HIDE DEF Requests
<1> QED BY <1>3 DEF CallsOK

\* The first frame under way is added: it has no hole in front of it, and it is the
\* next one for those behind it.
LEMMA DeliverStep ==
  ASSUME IInv, Deliver
  PROVE  IInv'
<1> DEFINE x == Head(Pipe)
<1>0. /\ PageOK(view, log) /\ CallsOK(calls, log) /\ gap \in BOOLEAN
      /\ log \in [Sessions -> Seq(Events)] /\ current \in Sessions
      /\ replay \in Seq(Items) /\ buffer \in Seq(Items)
  BY DEF IInv, PageOK, Rest, ServerOK, StreamOK
<1>1. /\ conn = "live" /\ Pipe # <<>> /\ view' = AddEvent(view, x)
      /\ calls' = calls \cup Refreshes(view, view')
      /\ IF replay # <<>> THEN replay' = Tail(replay) /\ buffer' = buffer
         ELSE buffer' = Tail(buffer) /\ replay' = replay
      /\ UNCHANGED <<log, queue, turn, moving, limit, conn, current, unsent, post, stopping,
                     gap, faults>>
  BY DEF Deliver, server, Pipe
<1>2. /\ Pipe \in Seq(Items) /\ Len(Pipe) \in Nat /\ Len(Pipe) >= 1 /\ DOMAIN Pipe = 1..Len(Pipe)
      /\ x = Pipe[1] /\ x \in Items
  <2>1. Pipe \in Seq(Items) BY <1>0, Joined DEF Pipe
  <2> HIDE DEF Items
  <2> QED BY <1>1, <2>1
<1>3. /\ replay' \in Seq(Items) /\ buffer' \in Seq(Items)
      /\ Pipe' = Tail(Pipe)
      /\ \A i \in DOMAIN replay' : i + 1 \in DOMAIN replay /\ replay'[i] = replay[i + 1]
      /\ \/ buffer' = buffer
         \/ /\ Len(buffer') <= Len(buffer)
            /\ \A i \in DOMAIN buffer' : i + 1 \in DOMAIN buffer /\ buffer'[i] = buffer[i + 1]
  <2> HIDE DEF Items
  <2>1. CASE replay # <<>>
    <3>1. /\ replay' = Tail(replay) /\ buffer' = buffer BY <1>1, <2>1
    <3>2. Tail(replay) \o buffer = Tail(replay \o buffer)
      BY <1>0, <2>1
    <3> QED BY <1>0, <2>1, <3>1, <3>2 DEF Pipe
  <2>2. CASE replay = <<>>
    <3>1. /\ buffer' = Tail(buffer) /\ replay' = <<>> BY <1>1, <2>2
    <3>2. replay \o buffer = buffer /\ <<>> \o Tail(buffer) = Tail(buffer) /\ buffer # <<>>
      BY <1>0, <1>1, <2>2 DEF Pipe
    <3> QED BY <1>0, <2>2, <3>1, <3>2 DEF Pipe
  <2> QED BY <2>1, <2>2
<1>4. x.kind = "event" => x.sess = current /\ x.n \in DOMAIN log[x.sess]
  <2>1. CASE replay # <<>>
    <3>1. 1 \in DOMAIN replay /\ x = replay[1]
      BY <1>0, <1>2, <2>1, Joined DEF Pipe
    <3> QED BY <3>1 DEF IInv, StreamOK
  <2>2. CASE replay = <<>>
    <3>1. 1 \in DOMAIN buffer /\ x = buffer[1]
      BY <1>0, <1>1, <1>2, <2>2, Joined DEF Pipe
    <3> QED BY <3>1 DEF IInv, StreamOK
  <2> QED BY <2>1, <2>2
<1> HIDE DEF x
<1>5. /\ PageOK(view', log) /\ view.keys \subseteq view'.keys
      /\ x.kind = "event" /\ x.n \in Canonical(log[x.sess]) => x \in view'.keys
  BY <1>0, <1>1, <1>2, <1>4, AddEventKeepsPage
<1>6. CallsOK(calls', log)
  BY <1>0, <1>1, RefreshFacts
<1>7. ASSUME ~gap
      PROVE  /\ InOrder(view', log, current) /\ StatusOK(view', log, current)
             /\ PagesOK(view', calls', log, current)
             /\ NoHole(view, log, current)' /\ Covered(view, log, moving, current)'
  <2>1. /\ InOrder(view, log, current) /\ StatusOK(view, log, current)
        /\ PagesOK(view, calls, log, current)
        /\ NoHole(view, log, current) /\ Covered(view, log, moving, current)
    BY <1>1, <1>7 DEF IInv, Ordered, Flowing
  <2>2. ASSUME x.kind = "event", NEW n \in Canonical(log[current]), n < x.n
        PROVE  Stored(current, n) \in view.keys
    <3>1. Comes(view, current, n, 1 - 1)
      BY <1>2, <2>1, <2>2 DEF NoHole
    <3>2. \A j \in DOMAIN Pipe : ~(j <= 1 - 1) BY <1>2
    <3> QED BY <3>1, <3>2 DEF Comes
  <2>3. InOrder(view', log, current) /\ StatusOK(view', log, current)
    BY <1>0, <1>1, <1>2, <1>4, <2>1, <2>2, AddEventKeepsOrder
  <2>4. PagesOK(view', calls', log, current)
    <3>1. \A c \in calls' : c.what = "history" => c \in calls
      BY <1>0, <1>1, RefreshFacts
    <3> QED BY <1>5, <2>1, <3>1 DEF PagesOK
  <2>5. /\ DOMAIN Pipe' = 1..(Len(Pipe) - 1) /\ Len(Pipe') = Len(Pipe) - 1
        /\ \A i \in DOMAIN Pipe' : i + 1 \in DOMAIN Pipe /\ Pipe'[i] = Pipe[i + 1]
    <3> HIDE DEF Items
    <3> QED BY <1>2, <1>3
  <2>6. ASSUME NEW n \in Canonical(log[current]), NEW k \in Int,
               Comes(view, current, n, k + 1)
        PROVE  \/ Stored(current, n) \in view'.keys
               \/ \E j \in DOMAIN Pipe' : j <= k /\ Pipe'[j] = Stored(current, n)
    <3>1. CASE Stored(current, n) \in view.keys BY <1>5, <3>1
    <3>2. CASE \E j \in DOMAIN Pipe : j <= k + 1 /\ Pipe[j] = Stored(current, n)
      <4>1. PICK j \in DOMAIN Pipe : j <= k + 1 /\ Pipe[j] = Stored(current, n)
        BY <3>2
      <4>2. CASE j = 1
        <5>1. x = Stored(current, n) BY <1>2, <4>1, <4>2
        <5>2. x.kind = "event" /\ x.sess = current /\ x.n = n BY <5>1, FrameFacts
        <5> QED BY <1>5, <2>6, <5>1, <5>2
      <4>3. CASE j # 1
        <5>1. j - 1 \in DOMAIN Pipe' /\ j - 1 <= k /\ Pipe'[j - 1] = Pipe[j]
          BY <1>2, <2>5, <4>1, <4>3
        <5> QED BY <4>1, <5>1
      <4> QED BY <4>2, <4>3
    <3> QED BY <2>6, <3>1, <3>2 DEF Comes
  <2>7. NoHole(view, log, current)'
    <3>1. ASSUME NEW i \in DOMAIN Pipe', Pipe'[i].kind = "event",
                 NEW n \in Canonical(log[current]), n < Pipe'[i].n
          PROVE  \/ Stored(current, n) \in view'.keys
                 \/ \E j \in DOMAIN Pipe' : j <= i - 1 /\ Pipe'[j] = Stored(current, n)
      <4>1. i + 1 \in DOMAIN Pipe /\ Pipe'[i] = Pipe[i + 1] /\ i \in Int
        BY <1>2, <2>5
      <4>2. Comes(view, current, n, (i + 1) - 1)
        BY <2>1, <3>1, <4>1 DEF NoHole
      <4>3. (i + 1) - 1 = (i - 1) + 1 /\ i - 1 \in Int BY <4>1
      <4> QED BY <2>6, <4>2, <4>3
    <3> QED BY <1>1, <3>1 DEF NoHole, Comes
  <2>8. Covered(view, log, moving, current)'
    <3>1. ASSUME NEW n \in Canonical(log[current]),
                 n <= Announced(log, moving, current)
          PROVE  \/ Stored(current, n) \in view'.keys
                 \/ \E j \in DOMAIN Pipe' : j <= Len(Pipe') /\ Pipe'[j] = Stored(current, n)
      <4>1. Comes(view, current, n, Len(Pipe)) BY <2>1, <3>1 DEF Covered
      <4>2. Len(Pipe) = Len(Pipe') + 1 /\ Len(Pipe') \in Int BY <1>2, <2>5
      <4> QED BY <2>6, <4>1, <4>2
    <3> QED BY <1>1, <3>1 DEF Covered, Comes
  <2> QED BY <2>3, <2>4, <2>7, <2>8
<1>8. Ordered' /\ Flowing'
  BY <1>1, <1>7 DEF Ordered, Flowing
<1>9. StreamOK(log, current)'
  <2>1. \A i \in DOMAIN replay' : /\ replay'[i].kind = "event" /\ replay'[i].sess = current
                                  /\ replay'[i].n \in DOMAIN log[current]
    BY <1>3 DEF IInv, StreamOK
  <2>2. \A i \in DOMAIN buffer' : buffer'[i].kind = "event" =>
          buffer'[i].sess = current /\ buffer'[i].n \in DOMAIN log[current]
    BY <1>3 DEF IInv, StreamOK
  <2>3. Len(buffer') <= HubBuffer
    <3>1. /\ Len(buffer) \in Nat /\ Len(buffer') \in Nat /\ HubBuffer \in Nat
          /\ Len(buffer) <= HubBuffer
      BY <1>0, <1>3, ViewAssumption DEF IInv, StreamOK
    <3> QED BY <1>3, <3>1
  <2> QED BY <1>1, <1>3, <2>1, <2>2, <2>3 DEF StreamOK, Subscribed
<1>10. ServerOK' BY <1>1 DEF IInv, ServerOK
<1>11. Rest' BY <1>1 DEF IInv, Rest
<1> QED BY <1>1, <1>5, <1>6, <1>8, <1>9, <1>10, <1>11 DEF IInv

\* A page of the history starts where the page before it ended.
LEMMA HistoryStep ==
  ASSUME IInv, NEW c \in calls, HistoryPage(c)
  PROVE  IInv'
<1>0. /\ PageOK(view, log) /\ CallsOK(calls, log) /\ gap \in BOOLEAN
      /\ log \in [Sessions -> Seq(Events)] /\ current \in Sessions
  BY DEF IInv, Rest, ServerOK
<1>1. /\ c.what = "history" /\ c \in Requests
      /\ c \in [what : {"history"}, sess : Sessions, after : Nat, from : Nat]
  BY <1>0 DEF HistoryPage, CallsOK, Requests
<1>2. c.after <= c.from /\ c.from <= Len(log[c.sess]) BY <1>0, <1>1 DEF CallsOK
<1> DEFINE L == Len(log[c.sess])
           a == c.after
<1>3. PICK n \in c.from .. L :
        LET upto == IF a + PageLimit < n THEN a + PageLimit ELSE n
            page == [i \in 1..(upto - a) |-> Stored(c.sess, a + i)]
        IN /\ view' = AddAll(view, page)
           /\ calls' = (calls \ {c}) \cup Refreshes(view, view')
                       \cup (IF upto < n
                           THEN {[c EXCEPT !.after = upto, !.from = Len(log[c.sess])]}
                           ELSE {})
  BY DEF HistoryPage
<1>4. UNCHANGED <<log, queue, turn, moving, limit, conn, replay, buffer, current, unsent,
                  post, stopping, gap, faults>>
  BY DEF HistoryPage, server, stream
<1> DEFINE b == IF a + PageLimit < n THEN a + PageLimit ELSE n
           next == [c EXCEPT !.after = b, !.from = L]
           w == AddAll(view, [i \in 1..(b - a) |-> Stored(c.sess, a + i)])
<1>5. /\ c.sess \in Sessions /\ a \in Nat /\ L \in Nat /\ n \in Nat /\ n <= L /\ a <= n
      /\ PageLimit \in Nat
  BY <1>0, <1>1, <1>2, ViewAssumption
<1>6. b \in Nat /\ a <= b /\ b <= L BY <1>5
<1>7. view' = w /\ calls' \subseteq calls \cup Refreshes(view, view') \cup {next}
  BY <1>3
<1> HIDE DEF b, w
<1>8. /\ next \in Requests /\ next.what = "history" /\ next.sess = c.sess
      /\ next.after = b /\ next.from = L
  BY <1>1, <1>5, <1>6 DEF Requests
<1>9. /\ PageOK(w, log) /\ view.keys \subseteq w.keys
      /\ \A s \in Sessions :
           /\ InOrder(view, log, s) /\ StatusOK(view, log, s)
           /\ c.sess = s => \A m \in Canonical(log[s]) : m <= a => Stored(s, m) \in view.keys
           => /\ InOrder(w, log, s) /\ StatusOK(w, log, s)
              /\ c.sess = s => \A m \in Canonical(log[s]) : m <= b => Stored(s, m) \in w.keys
  BY <1>0, <1>5, <1>6, AddPage DEF w
<1> HIDE DEF next
<1>10. CallsOK(calls', log)
  <2>1. CallsOK(calls \cup Refreshes(view, view'), log) BY <1>0, RefreshFacts
  <2>2. next.after <= next.from /\ next.from <= Len(log[next.sess])
    BY <1>5, <1>6, <1>8
  <2> HIDE DEF L, a
  <2> QED BY <1>7, <1>8, <2>1, <2>2 DEF CallsOK
<1>11. ASSUME ~gap
       PROVE  /\ InOrder(w, log, current) /\ StatusOK(w, log, current)
              /\ PagesOK(w, calls', log, current)
  <2>1. /\ InOrder(view, log, current) /\ StatusOK(view, log, current)
        /\ PagesOK(view, calls, log, current)
    BY <1>11 DEF IInv, Ordered
  <2>2. c.sess = current =>
          \A m \in Canonical(log[current]) : m <= a => Stored(current, m) \in view.keys
    BY <1>1, <2>1 DEF PagesOK
  <2>3. /\ InOrder(w, log, current) /\ StatusOK(w, log, current)
        /\ c.sess = current =>
             \A m \in Canonical(log[current]) : m <= b => Stored(current, m) \in w.keys
    BY <1>0, <1>9, <2>1, <2>2
  <2>4. PagesOK(w, calls', log, current)
    <3> SUFFICES ASSUME NEW d \in calls', d.what = "history", d.sess = current,
                        NEW m \in Canonical(log[current]), m <= d.after
                 PROVE  Stored(current, m) \in w.keys
      BY DEF PagesOK
    <3>1. CASE d = next BY <1>8, <2>3, <3>1
    <3>2. CASE d # next
      <4>1. d \in calls BY <1>0, <1>7, <3>2, RefreshFacts
      <4> QED BY <1>9, <2>1, <4>1 DEF PagesOK
    <3> QED BY <3>1, <3>2
  <2> QED BY <2>3, <2>4
<1>12. Ordered' BY <1>4, <1>7, <1>11 DEF Ordered
<1>13. StreamOK(log, current)' /\ Flowing'
  BY <1>0, <1>4, <1>7, <1>9, MoreShown
<1>14. ServerOK' BY <1>4 DEF IInv, ServerOK
<1>15. Rest' BY <1>4 DEF IInv, Rest
<1> QED BY <1>4, <1>7, <1>9, <1>10, <1>12, <1>13, <1>14, <1>15 DEF IInv

\* The answers that add no event.
LEMMA AnswerStep ==
  ASSUME IInv, NEW c \in calls,
         PendingRead(c) \/ PendingAnswer(c) \/ ThreadsAnswer(c) \/ ToolsAnswer(c)
           \/ CallFails(c)
  PROVE  IInv'
<1>0. /\ view \in PageStates /\ CallsOK(calls, log) /\ gap \in BOOLEAN /\ MaxFaults \in Nat
      /\ faults \in 0..MaxFaults /\ log \in [Sessions -> Seq(Events)]
      /\ queue \in [Sessions -> SUBSET Messages] /\ c \in Requests
  BY ViewAssumption DEF IInv, PageOK, Rest, ServerOK, CallsOK
<1>1. /\ UNCHANGED <<log, queue, turn, moving, limit, conn, replay, buffer, current, unsent,
                     post, stopping>>
      /\ faults' \in 0..MaxFaults /\ gap' \in BOOLEAN /\ (gap => gap')
  <2>1. CASE PendingRead(c) \/ PendingAnswer(c) \/ ThreadsAnswer(c) \/ ToolsAnswer(c)
    BY <1>0, <2>1 DEF PendingRead, PendingAnswer, ThreadsAnswer, ToolsAnswer, server, stream
  <2>2. CASE CallFails(c)
    <3>1. gap' = (gap \/ c.what = "history") BY <2>2 DEF CallFails
    <3>2. gap' \in BOOLEAN /\ (gap => gap') BY <3>1, Zenon
    <3> QED BY <1>0, <2>2, <3>2 DEF CallFails, server, stream
  <2> QED BY <2>1, <2>2
<1>2. /\ view' \in PageStates /\ view'.shown = view.shown /\ view'.keys = view.keys
      /\ view'.status = view.status /\ view'.stopped = view.stopped
  <2>1. CASE PendingRead(c) BY <1>0, <2>1 DEF PendingRead
  <2>2. CASE PendingAnswer(c)
    <3>1. c.rows \subseteq Messages BY <1>0, <2>2 DEF PendingAnswer, Requests
    <3> QED BY <1>0, <2>2, <3>1 DEF PendingAnswer, PageStates
  <2>3. CASE ThreadsAnswer(c)
    <3>1. PICK n \in c.from .. Len(log[c.sess]) :
            view' = [view EXCEPT !.threads =
                       RefsIn(SubSeq(log[c.sess], 1, n), "thread_created")]
      BY <2>3 DEF ThreadsAnswer
    <3>2. c.sess \in Sessions /\ c.from \in Nat
      BY <1>0, <2>3 DEF ThreadsAnswer, Requests
    <3>3. SubSeq(log[c.sess], 1, n) \in Seq(Events)
      <4>1. log[c.sess] \in Seq(Events) /\ n \in Nat /\ n <= Len(log[c.sess])
        BY <1>0, <3>2
      <4> QED BY <4>1
    <3>4. RefsIn(SubSeq(log[c.sess], 1, n), "thread_created") \subseteq Children
      BY <3>3, RefsTyped
    <3> QED BY <1>0, <3>1, <3>4 DEF PageStates
  <2>4. CASE ToolsAnswer(c)
    <3>1. c.sess \in Sessions BY <1>0, <2>4 DEF ToolsAnswer, Requests
    <3>2. Open(log[c.sess]) \subseteq Tools BY <1>0, <3>1, RefsTyped
    <3> QED BY <1>0, <2>4, <3>2 DEF ToolsAnswer, PageStates
  <2>5. CASE CallFails(c)
    BY <1>0, <2>5 DEF CallFails, PageStates
  <2> QED BY <2>1, <2>2, <2>3, <2>4, <2>5
<1>3. /\ CallsOK(calls', log)
      /\ \A d \in calls' : d.what = "history" => d \in calls
  <2>1. CASE PendingRead(c)
    <3> DEFINE d == [what |-> "rows", sess |-> c.sess, rows |-> queue[c.sess]]
    <3>1. c.sess \in Sessions BY <1>0, <2>1 DEF PendingRead, Requests
    <3>2. d \in Requests /\ d.what = "rows" BY <1>0, <3>1 DEF Requests
    <3>3. calls' = (calls \ {c}) \cup {d} BY <2>1 DEF PendingRead
    <3> HIDE DEF d
    <3> QED BY <1>0, <3>2, <3>3 DEF CallsOK
  <2>2. CASE ~PendingRead(c)
    <3>1. calls' \subseteq calls
      BY <2>2 DEF PendingAnswer, ThreadsAnswer, ToolsAnswer, CallFails
    <3> QED BY <1>0, <3>1 DEF CallsOK
  <2> QED BY <2>1, <2>2
<1>4. PageOK(view, log)' /\ CallsOK(calls, log)' /\ Ordered'
  BY <1>1, <1>2, <1>3, SameShown
<1>5. StreamOK(log, current)' /\ Flowing' BY <1>1, <1>2, MoreShown
<1>6. ServerOK' BY <1>1 DEF IInv, ServerOK
<1>7. Rest' BY <1>1 DEF IInv, Rest
<1> QED BY <1>4, <1>5, <1>6, <1>7 DEF IInv

\* The view of a session just opened is empty.
LEMMA FreshFacts ==
  /\ Fresh \in PageStates /\ Fresh.shown = <<>> /\ Fresh.keys = {}
  /\ Fresh.status = "idle"
  /\ \A l, s : PageOK(Fresh, l) /\ InOrder(Fresh, l, s) /\ StatusOK(Fresh, l, s)
<1>1. NotThinking \in Seq(Items \cup {None}) /\ <<>> \in Seq(EventItems)
  BY DEF NotThinking
<1>2. Fresh \in PageStates
  BY <1>1 DEF Fresh, PageStates
<1>3. Fresh.shown = <<>> /\ Fresh.keys = {} /\ Fresh.status = "idle" /\ DOMAIN <<>> = {}
  BY DEF Fresh
<1> QED BY <1>2, <1>3 DEF PageOK, InOrder, StatusOK

\* What is asked for a session names no event past its log.
LEMMA AskedFacts ==
  ASSUME NEW s \in Sessions, log \in [Sessions -> Seq(Events)]
  PROVE  CallsOK(Asked(s), log) /\ \A c \in Asked(s) : c.what = "history" => c.after = 0
<1>1. Len(log[s]) \in Nat OBVIOUS
<1> QED BY <1>1 DEF Asked, CallsOK, Requests

LEMMA OpenStep ==
  ASSUME IInv, NEW s \in Sessions, OpenSession(s)
  PROVE  IInv'
<1>0. /\ CallsOK(calls, log) /\ MaxFaults \in Nat /\ faults \in 0..MaxFaults
      /\ log \in [Sessions -> Seq(Events)]
  BY ViewAssumption DEF IInv, Rest, ServerOK
<1>1. /\ current' = s /\ view' = Fresh /\ conn' = "connecting"
      /\ replay' = <<>> /\ buffer' = <<>>
      /\ UNCHANGED <<log, queue, turn, moving, limit, unsent, post, stopping>>
      /\ faults' \in 0..MaxFaults
      /\ gap' = \E c \in calls : c.what = "history" /\ c.sess = s /\ c.after > 0
      /\ calls' \subseteq calls \cup Asked(s)
  BY <1>0 DEF OpenSession, server
<1>2. gap' \in BOOLEAN BY <1>1
<1>3. ~gap' => \A c \in calls : ~(c.what = "history" /\ c.sess = s /\ c.after > 0)
  BY <1>1
<1>4. CallsOK(calls', log')
  <2>1. CallsOK(Asked(s), log) BY <1>0, AskedFacts
  <2> QED BY <1>0, <1>1, <2>1 DEF CallsOK
<1>5. ASSUME ~gap' PROVE PagesOK(view', calls', log', current')
  <2> SUFFICES ASSUME NEW c \in calls', c.what = "history", c.sess = s,
                      NEW n \in Canonical(log[s]), n <= c.after
               PROVE  FALSE
    BY <1>1 DEF PagesOK
  <2>1. c.after \in Nat /\ ~(c.after > 0)
    <3>1. CASE c \in calls
      <4>1. c \in Requests BY <1>0, <3>1 DEF CallsOK
      <4>2. c.after \in Nat BY <4>1 DEF Requests
      <4> QED BY <1>3, <1>5, <3>1, <4>2
    <3>2. CASE c \in Asked(s) BY <1>0, <3>2, AskedFacts
    <3> QED BY <1>1, <3>1, <3>2
  <2>2. n \in Nat /\ n >= 1 BY <1>0 DEF Canonical
  <2> QED BY <2>1, <2>2
<1>6. PageOK(view, log)' /\ Ordered'
  <2>1. PageOK(view', log') BY <1>1, FreshFacts
  <2>2. InOrder(view', log', current') /\ StatusOK(view', log', current')
    BY <1>1, FreshFacts
  <2> QED BY <1>5, <2>1, <2>2 DEF Ordered
<1>7. StreamOK(log, current)'
  <2>1. Len(<<>>) = 0 /\ <<>> \in Seq(Items) /\ HubBuffer \in Nat /\ DOMAIN <<>> = {}
    BY ViewAssumption
  <2> HIDE DEF Items
  <2> QED BY <1>1, <2>1 DEF StreamOK
<1>8. Flowing' BY <1>1 DEF Flowing
<1>9. ServerOK' BY <1>1 DEF IInv, ServerOK
<1>10. Rest' BY <1>1, <1>2 DEF IInv, Rest
<1> QED BY <1>4, <1>6, <1>7, <1>8, <1>9, <1>10 DEF IInv

-----------------------------------------------------------------------------
(***************************************************************************)
(* The invariant, and what it says of the page.                            *)
(***************************************************************************)
LEMMA InitIInv == Init => IInv
<1> SUFFICES ASSUME Init PROVE IInv
  OBVIOUS
<1>1. PICK p \in [Sessions -> UNION {Past[s] : s \in Sessions}] :
        /\ \A s \in Sessions : p[s] \in Past[s]
        /\ log = [s \in Sessions |-> p[s].log]
        /\ turn = [s \in Sessions |-> p[s].turn]
  BY DEF Init
<1>2. /\ queue = [s \in Sessions |-> {}] /\ moving = [s \in Sessions |-> None]
      /\ current = First /\ view = Fresh /\ calls \subseteq Asked(current)
      /\ conn = "connecting" /\ replay = <<>> /\ buffer = <<>>
      /\ unsent = Messages /\ post = None /\ stopping = None
      /\ gap = FALSE /\ faults = 0
  BY DEF Init
<1>3. \A s \in Sessions : /\ p[s].log \in Seq(Events)
                          /\ p[s].turn \in {"rest", "running", "thinking"}
                          /\ p[s].turn # "rest" => Unended(p[s].log)
  BY <1>1, PastAssumption
<1>4. ServerOK
  <2>1. /\ log \in [Sessions -> Seq(Events)]
        /\ turn \in [Sessions -> {"rest", "running", "thinking"}]
        /\ \A s \in Sessions : turn[s] # "rest" => Unended(log[s])
    BY <1>1, <1>3
  <2>2. /\ queue \in [Sessions -> SUBSET Messages]
        /\ \A s \in Sessions : IsFiniteSet(queue[s])
    BY <1>2, FS_EmptySet
  <2>3. /\ moving \in [Sessions -> Messages \cup {None}]
        /\ \A s \in Sessions : moving[s] = None
    BY <1>2
  <2> QED BY <2>1, <2>2, <2>3 DEF ServerOK
<1>5. Rest
  <2>1. 0 \in 0..MaxFaults /\ First \in Sessions BY ViewAssumption
  <2> QED BY <1>2, <2>1 DEF Rest
<1>6. PageOK(view, log) BY <1>2, FreshFacts
<1>7. CallsOK(calls, log) /\ \A c \in calls : c.what = "history" => c.after = 0
  <2>1. current \in Sessions /\ log \in [Sessions -> Seq(Events)]
    BY <1>4, <1>5 DEF Rest, ServerOK
  <2>2. CallsOK(Asked(current), log)
        /\ \A c \in Asked(current) : c.what = "history" => c.after = 0
    BY <2>1, AskedFacts
  <2> QED BY <1>2, <2>2 DEF CallsOK
<1>8. Ordered
  <2>1. \A n \in Canonical(log[current]) : ~(n <= 0)
    BY <1>4, <1>5 DEF Canonical, ServerOK, Rest
  <2>2. PagesOK(view, calls, log, current) BY <1>7, <2>1 DEF PagesOK
  <2> QED BY <1>2, <2>2, FreshFacts DEF Ordered
<1>9. StreamOK(log, current)
  <2>1. Len(<<>>) = 0 /\ <<>> \in Seq(Items) /\ HubBuffer \in Nat /\ DOMAIN <<>> = {}
    BY ViewAssumption
  <2> HIDE DEF Items
  <2> QED BY <1>2, <2>1 DEF StreamOK
<1>10. Flowing BY <1>2 DEF Flowing
<1> QED BY <1>4, <1>5, <1>6, <1>7, <1>8, <1>9, <1>10 DEF IInv

LEMMA NextIInv == IInv /\ [Next]_vars => IInv'
<1> SUFFICES ASSUME IInv, [Next]_vars PROVE IInv'
  OBVIOUS
<1>1. ASSUME NEW s \in Sessions, Server(s) \/ OthersAnswer(s) \/ OpenSession(s) PROVE IInv'
  BY <1>1, ServerStep, PromoteStoreStep, PromotePublishStep, OpenStep DEF Server
<1>2. CASE Streaming \/ ReplayFails \/ Break \/ Refused
  BY <1>2, ConnectionStep, ReplayStep, ReplayFailsStep, DeliverStep DEF Streaming
<1>3. ASSUME NEW c \in calls, Answer(c) \/ CallFails(c) PROVE IInv'
  BY <1>3, HistoryStep, AnswerStep DEF Answer
<1>4. CASE \E m \in Messages : Send(m)
  BY <1>4, SendStep
<1>5. CASE Posting \/ PostFails \/ Stop \/ StopFails
  BY <1>5, PostStep, StopServeStep, SendStep DEF Posting
<1>6. CASE UNCHANGED vars
  <2>1. UNCHANGED <<log, queue, turn, moving, limit, conn, replay, buffer, current, view,
                    calls, unsent, post, stopping, gap, faults>>
    BY <1>6 DEF vars, server, stream
  <2>2. view \in PageStates /\ CallsOK(calls, log) /\ gap \in BOOLEAN
    BY DEF IInv, PageOK, Rest
  <2>3. PageOK(view, log)' /\ CallsOK(calls, log)' /\ Ordered'
    BY <2>1, <2>2, SameShown
  <2>4. StreamOK(log, current)' /\ Flowing' BY <2>1, <2>2, MoreShown
  <2>5. ServerOK' BY <2>1 DEF IInv, ServerOK
  <2>6. Rest' BY <2>1 DEF IInv, Rest
  <2> QED BY <2>3, <2>4, <2>5, <2>6 DEF IInv
<1> QED BY <1>1, <1>2, <1>3, <1>4, <1>5, <1>6 DEF Next

LEMMA Invariant == Spec => []IInv
BY InitIInv, NextIInv, PTL DEF Spec

\* The variables of the session page and of what feeds it keep their types: the log of
\* the server, the outbox, the tools and threads of the view, and the channel of the
\* hub, which never holds more than its capacity.
THEOREM ViewTypeCorrect == Spec => []TypeOK
<1>1. IInv => TypeOK
  <2> SUFFICES ASSUME IInv PROVE TypeOK
    OBVIOUS
  <2>1. EventItems \subseteq Items BY DEF EventItems, Items
  <2>2. view.shown \in Seq(Items)
    <3>1. view.shown \in Seq(EventItems) BY DEF IInv, PageOK, PageStates
    <3> HIDE DEF EventItems, Items
    <3> QED BY <2>1, <3>1
  <2>3. /\ view.outbox \subseteq Messages
        /\ view.local \in Messages \cup {None} /\ view.status \in {"idle", "running"}
        /\ view.stopped \in BOOLEAN /\ view.tools \subseteq Tools
        /\ view.threads \subseteq Children
    BY DEF IInv, PageOK, PageStates
  <2>4. /\ \A s \in Sessions : /\ log[s] \in Seq(Events)
                               /\ queue[s] \subseteq Messages
                               /\ turn[s] \in {"rest", "running", "thinking"}
                               /\ moving[s] \in Messages \cup {None}
        /\ current \in Sessions /\ gap \in BOOLEAN /\ faults \in 0..MaxFaults
    BY DEF IInv, ServerOK, Rest
  <2>5. /\ conn \in {"connecting", "replaying", "live", "waiting", "dead"}
        /\ replay \in Seq(Items) /\ buffer \in Seq(Items) /\ Len(buffer) <= HubBuffer
    BY DEF IInv, StreamOK
  <2> QED BY <2>2, <2>3, <2>4, <2>5 DEF TypeOK
<1> QED BY <1>1, Invariant, PTL

LEMMA PrefixShown ==
  ASSUME IInv, ~gap
  PROVE  ShowsPrefix(view, log[current], current)
<1>0. /\ InOrder(view, log, current) /\ PageOK(view, log) /\ view.shown \in Seq(EventItems)
      /\ DOMAIN view.shown = 1..Len(view.shown) /\ Len(view.shown) \in Nat
  <2>1. view.shown \in Seq(EventItems) BY DEF IInv, PageOK, PageStates
  <2>2. DOMAIN view.shown = 1..Len(view.shown) /\ Len(view.shown) \in Nat BY <2>1
  <2> QED BY <2>1, <2>2 DEF IInv, Ordered
<1> SUFFICES ASSUME NEW i \in DOMAIN view.shown, view.shown[i].sess = current
             PROVE  /\ view.shown[i].n \in Canonical(log[current])
                    /\ \A n \in Canonical(log[current]) :
                         n < view.shown[i].n =>
                           \E j \in 1..(i-1) : view.shown[j] = Stored(current, n)
  BY DEF ShowsPrefix
<1>1. view.shown[i].n \in Canonical(log[current]) /\ view.shown[i] \in view.keys
  BY <1>0 DEF PageOK
<1>2. view.shown[i] = Stored(current, view.shown[i].n)
  <2>1. view.shown[i] \in EventItems BY <1>0
  <2> QED BY <2>1 DEF EventItems, Stored
<1>3. ASSUME NEW n \in Canonical(log[current]), n < view.shown[i].n
      PROVE  \E j \in 1..(i-1) : view.shown[j] = Stored(current, n)
  <2>1. Stored(current, n) \in view.keys
    BY <1>0, <1>1, <1>2, <1>3 DEF InOrder
  <2>2. PICK j \in DOMAIN view.shown : view.shown[j] = Stored(current, n)
    BY <1>0, <2>1, FrameFacts DEF PageOK
  <2>3. view.shown[j].n = n /\ view.shown[j].sess = current
    BY <2>2, FrameFacts
  <2>4. n \in Nat /\ view.shown[i].n \in Nat
    BY <1>1 DEF IInv, ServerOK, Rest, Canonical
  <2>5. i # j /\ ~(i < j)
    <3>1. i < j => view.shown[i].n < view.shown[j].n
      BY <1>0, <2>3 DEF InOrder
    <3> QED BY <1>3, <2>3, <2>4, <3>1
  <2>6. j \in 1..(i-1) BY <1>0, <2>5
  <2> QED BY <2>2, <2>6
<1> QED BY <1>1, <1>3

LEMMA QuietCovers ==
  ASSUME IInv, Quiet, ~gap
  PROVE  \A n \in Canonical(log[current]) : Stored(current, n) \in view.keys
<1>1. Covered(view, log, moving, current)
  BY DEF Quiet, IInv, Flowing
<1>2. current \in Sessions /\ log[current] \in Seq(Events) /\ moving[current] = None
  BY DEF IInv, Rest, ServerOK, Quiet
<1>3. Announced(log, moving, current) = Len(log[current])
  BY <1>2 DEF Announced
<1>4. Pipe = <<>> /\ DOMAIN Pipe = {} BY DEF Quiet, Pipe
<1> SUFFICES ASSUME NEW n \in Canonical(log[current])
             PROVE  Stored(current, n) \in view.keys
  OBVIOUS
<1>5. n <= Announced(log, moving, current)
  BY <1>2, <1>3 DEF Canonical
<1> QED BY <1>1, <1>4, <1>5 DEF Covered, Comes

\* What the page shows of the open session is a prefix of its log without the chunks,
\* each event once, until an event is lost to it (gap): for any log, any page and
\* channel size, any number of failures and of sessions opened one after the other.
THEOREM ShownKeepsOrder == Spec => []ShownIsPrefix
<1>1. IInv => ShownIsPrefix
  <2> SUFFICES ASSUME IInv PROVE ShownIsPrefix
    OBVIOUS
  <2>1. IsInjective(view.shown)
    BY DEF IInv, PageOK, IsInjective
  <2> QED BY <2>1, PrefixShown DEF ShownIsPrefix
<1> QED BY <1>1, Invariant, PTL

\* When nothing is under way and no event was lost to the page (gap), it shows all of
\* the log.
THEOREM QuietPageShowsAll == Spec => []QuietShowsAll
<1>1. IInv => QuietShowsAll
  <2> SUFFICES ASSUME IInv, Quiet, ~gap
               PROVE  ShowsPrefix(view, log[current], current)
                      /\ ShowsAll(view, log[current], current)
    BY DEF QuietShowsAll
  <2>1. \A n \in Canonical(log[current]) :
          \E i \in DOMAIN view.shown : view.shown[i] = Stored(current, n)
    BY QuietCovers, FrameFacts DEF IInv, PageOK
  <2>2. ShowsAll(view, log[current], current)
    BY <2>1 DEF ShowsAll, Range
  <2> QED BY <2>2, PrefixShown
<1> QED BY <1>1, Invariant, PTL

\* When nothing is under way, no event was lost to the page and the operator has not
\* stopped the session, the pill is
\* what the last running, idle or error event of the log says, a turn that a restart
\* has cut off included.
THEOREM PillMatchesLog == Spec => []StatusMatchesLog
<1>1. IInv => StatusMatchesLog
  <2> SUFFICES ASSUME IInv, Quiet, ~gap, ~view.stopped,
                      \A x \in Range(view.shown) : x.sess = current
               PROVE  view.status = "running" <=> Unended(log[current])
    BY DEF StatusMatchesLog
  <2> DEFINE l == log[current]
             k(i) == l[view.shown[i].n].kind
  <2>0. /\ current \in Sessions /\ l \in Seq(Events) /\ PageOK(view, log)
        /\ StatusOK(view, log, current)
    BY DEF IInv, Rest, ServerOK, Ordered
  <2>1. \A i \in DOMAIN view.shown : /\ view.shown[i].sess = current
                                     /\ view.shown[i].n \in DOMAIN l
    <3>1. \A i \in DOMAIN view.shown : view.shown[i].sess = current
      BY DEF Range
    <3> QED BY <2>0, <3>1 DEF PageOK, Canonical
  <2>2. view.status = "running" <=>
          \E i \in DOMAIN view.shown :
            /\ k(i) = "running"
            /\ \A j \in DOMAIN view.shown :
                 view.shown[j].n > view.shown[i].n => k(j) \notin {"idle", "error"}
    BY <2>0, <2>1 DEF StatusOK
  <2>3. \A n \in DOMAIN l : l[n].kind \in {"running", "idle", "error"} =>
          \E i \in DOMAIN view.shown : view.shown[i].n = n
    <3> SUFFICES ASSUME NEW n \in DOMAIN l, l[n].kind \in {"running", "idle", "error"}
                 PROVE  \E i \in DOMAIN view.shown : view.shown[i].n = n
      OBVIOUS
    <3>1. n \in Canonical(l) BY DEF Canonical, Transient
    <3>2. PICK i \in DOMAIN view.shown : view.shown[i] = Stored(current, n)
      BY <2>0, <3>1, QuietCovers, FrameFacts DEF PageOK
    <3> QED BY <3>2, FrameFacts
  <2>4. ASSUME Unended(l) PROVE view.status = "running"
    <3>1. PICK n \in DOMAIN l : /\ l[n].kind = "running"
                                /\ \A j \in DOMAIN l :
                                     j > n => l[j].kind \notin {"idle", "error"}
      BY <2>4 DEF Unended
    <3>2. PICK i \in DOMAIN view.shown : view.shown[i].n = n
      BY <2>3, <3>1
    <3> QED BY <2>1, <2>2, <3>1, <3>2
  <2>5. ASSUME view.status = "running" PROVE Unended(l)
    <3>1. PICK i \in DOMAIN view.shown :
            /\ k(i) = "running"
            /\ \A j \in DOMAIN view.shown :
                 view.shown[j].n > view.shown[i].n => k(j) \notin {"idle", "error"}
      BY <2>2, <2>5
    <3>2. \A n \in DOMAIN l : n > view.shown[i].n => l[n].kind \notin {"idle", "error"}
      BY <2>3, <3>1
    <3> QED BY <2>1, <3>1, <3>2 DEF Unended
  <2> QED BY <2>0, <2>4, <2>5
<1> QED BY <1>1, Invariant, PTL

=============================================================================
