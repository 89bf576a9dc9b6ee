----------------------------- MODULE SessionView -----------------------------
(***************************************************************************)
(* The console's session page and what feeds it: the event log and pending *)
(* queue of each session, the hub and the SSE handler that replays the log *)
(* and then forwards what is published (internal/stream, internal/api),    *)
(* the reconnecting client (lib/sse.ts, lib/api.ts) and the state of the   *)
(* SessionDetail component.  The component is one instance for all its     *)
(* routes: opening another session re-runs the effect, it does not drop    *)
(* the requests of the session before.                                     *)
(***************************************************************************)
EXTENDS Naturals, Sequences, FiniteSets, SequencesExt

CONSTANTS
  Sessions,     \* sessions the operator may open
  First,        \* the one opened first
  Messages,     \* messages the operator may send
  Tools,        \* custom tool uses the harness may emit
  Children,     \* sub-agent threads the harness may start
  None,
  PageLimit,    \* events per history page (200 in the code)
  ReplayLimit,  \* events a replay reads (10000 in the code)
  HubBuffer,    \* capacity of a subscriber's channel (32 in the code)
  Past,         \* bound: what each session may have done before, and how many
                \* events its log may reach
  Prompt,       \* bound: the sets of requests the server answers at all
  MaxFaults     \* bound: failed requests, broken streams, other sessions opened

ASSUME ViewAssumption ==
  /\ First \in Sessions
  /\ None \notin Sessions \cup Messages \cup Tools
  /\ {PageLimit, ReplayLimit, HubBuffer} \subseteq Nat \ {0}
  /\ MaxFaults \in Nat

VARIABLES
  log,      \* session_events of each session, by seq
  queue,    \* live rows of pending_events of each session
  turn,     \* where the turn of each session is
  moving,   \* the row whose promotion holds appendMu
  limit,    \* the bound on each log
  current,  \* the session id in the URL
  view,     \* the component's state, what the effect resets
  calls,    \* requests of the component the server has not answered
  conn,     \* the SSE connection of the current session
  replay,   \* frames of the replay on their way to the client
  buffer,   \* the subscriber's channel in the hub
  unsent,   \* messages not sent yet
  post,     \* the POST of a message in flight
  stopping, \* the POST of user.interrupt in flight
  gap,      \* history: an event will not reach this view in its place
  faults    \* failed requests, broken streams and sessions opened so far

server == <<log, queue, turn, moving, limit>>
stream == <<conn, replay, buffer>>
vars   == <<server, stream, current, view, calls, unsent, post, stopping, gap, faults>>

-----------------------------------------------------------------------------
Event(k, x) == [kind |-> k, ref |-> x]
Transient   == {"think_chunk"}

Events ==
       [kind : {"user"}, ref : Messages \cup {None}]
  \cup [kind : {"running", "think_chunk", "thinking", "error", "interrupt"}, ref : {None}]
  \cup [kind : {"tool_use", "tool_result"}, ref : Tools]
  \cup [kind : {"thread_created"}, ref : Children]
  \cup [kind : {"idle"}, ref : SUBSET Tools]

RefsIn(l, k) == {l[i].ref : i \in {j \in DOMAIN l : l[j].kind = k}}
Open(l)      == RefsIn(l, "tool_use") \ RefsIn(l, "tool_result")

\* What goes over the wire: a stored event, or a frame about a queued row.
Stored(s, n)  == [kind |-> "event", sess |-> s, n |-> n]
Frame(k, m)   == [kind |-> k, ref |-> m]
FrameKinds    == {"pending", "promoted", "cancelled"}
Items == [kind : {"event"}, sess : Sessions, n : Nat]
         \cup [kind : FrameKinds, ref : Messages]
What(x) == log[x.sess][x.n]

\* eventKey: the id of a stored event; the frames have no id, no content and no
\* tool_use_id, so the key of a frame is its type.
Key(x) == IF x.kind = "event" THEN x ELSE Frame(x.kind, None)

\* The events of the log that are shown: a chunk of thinking is not.
Canonical(l) == {n \in DOMAIN l : l[n].kind \notin Transient}

\* The page shows everything the log has to show.
ShowsAll(v, l, s) == \A n \in Canonical(l) : Stored(s, n) \in Range(v.shown)

\* A turn has begun that no idle or error event has ended.
Unended(l) ==
  \E i \in DOMAIN l :
    /\ l[i].kind = "running"
    /\ \A j \in DOMAIN l : j > i => l[j].kind \notin {"idle", "error"}

\* What a session has done before is in its log: the log of a session in a turn has
\* begun one and not ended it.  So has the log of a session whose turn a restart of
\* the server has cut off: RecoverRunning stores no idle event.
ASSUME PastAssumption ==
  \A s \in Sessions : \A p \in Past[s] :
    /\ p.log \in Seq(Events)
    /\ p.turn \in {"rest", "running", "thinking"}
    /\ p.turn # "rest" => Unended(p.log)

-----------------------------------------------------------------------------
(***************************************************************************)
(* The component's state and addEvent.                                     *)
(***************************************************************************)
NotThinking == <<None>>

Fresh == [shown |-> <<>>, keys |-> {}, outbox |-> {}, local |-> None,
          status |-> "idle", stopped |-> FALSE, tools |-> {}, threads |-> {},
          thought |-> NotThinking]

\* The text of a thinking block in flight, opened by its first chunk (or the
\* start before it); its id is its index in the message, so the blocks of
\* different turns share it.
Streamed(v, x) ==
  [v EXCEPT !.thought = IF @ = NotThinking THEN <<x>> ELSE Append(@, x)]

\* A canonical event drops the text in flight, whether or not it is a duplicate.
Closed(v, x) ==
  IF x.kind = "event" /\ What(x).kind = "thinking"
  THEN [v EXCEPT !.thought = NotThinking] ELSE v

\* The optimistic bubble goes when the server has queued the same text.
Claim(local, m) == IF local = m THEN None ELSE local

FrameSeen(v, x) ==
  IF x.kind = "pending"
  THEN [v EXCEPT !.outbox = @ \cup {x.ref}, !.local = Claim(@, x.ref)]
  ELSE [v EXCEPT !.outbox = @ \ {x.ref}]

EventSeen(v, e) ==
  CASE e.kind = "running"   -> [v EXCEPT !.status = "running"]
    [] e.kind = "idle"      -> [v EXCEPT !.status = "idle",
                                         !.tools = IF e.ref = {} THEN {} ELSE @]
    [] e.kind = "error"     -> [v EXCEPT !.status = "idle", !.outbox = {}]
    [] e.kind = "interrupt" -> [v EXCEPT !.stopped = TRUE, !.tools = {},
                                         !.outbox = {}]
    [] e.kind = "thread_created"
                            -> [v EXCEPT !.threads = @ \cup {e.ref}]
    [] OTHER                -> v

\* Slip: the status is set before the duplicate is recognised.
AddEventEarly(v, x) ==
  IF x.kind = "event" /\ What(x).kind \in Transient THEN Streamed(v, x)
  ELSE LET w == Closed(v, x)
           u == IF x.kind = "event" THEN EventSeen(w, What(x)) ELSE w
       IN IF Key(x) \in w.keys THEN u
          ELSE IF x.kind = "event"
          THEN [u EXCEPT !.keys = @ \cup {Key(x)}, !.shown = Append(@, x)]
          ELSE FrameSeen([w EXCEPT !.keys = @ \cup {Key(x)}], x)

AddEvent(v, x) ==
  IF x.kind = "event" /\ What(x).kind \in Transient THEN Streamed(v, x)
  ELSE LET w == Closed(v, x)
           u == [w EXCEPT !.keys = @ \cup {Key(x)}]
       IN IF Key(x) \in w.keys THEN w
          ELSE IF x.kind = "event"
          THEN [EventSeen(u, What(x)) EXCEPT !.shown = Append(@, x)]
          ELSE FrameSeen(u, x)

\* The events of a page, one after the other.
AddAll(v, xs) ==
  LET f[i \in 0..Len(xs)] == IF i = 0 THEN v ELSE AddEvent(f[i-1], xs[i])
  IN f[Len(xs)]

\* refreshPendingToolCalls: asked for by every idle event seen for the first
\* time that lists tools.
Refreshes(v, w) ==
  IF \E i \in Len(v.shown)+1 .. Len(w.shown) :
        What(w.shown[i]).kind = "idle" /\ What(w.shown[i]).ref # {}
  THEN {[what |-> "tools", sess |-> current]} ELSE {}

\* latestIdleStopReason: of the events shown, the last idle one.
StopReason(v) ==
  LET idles == SelectSeq(v.shown, LAMBDA x : What(x).kind = "idle")
  IN IF idles = <<>> THEN {} ELSE What(Last(idles)).ref

HitlActive(v) == ~v.stopped /\ v.status = "idle" /\ StopReason(v) # {}

\* The button of the header, the composer of the conversation, and the ViewTab
\* buttons: none of them selects the conversation, whose composer alone waits for
\* the panel that answers tool calls.
Stoppable(v) == v.status = "running" \/ HitlActive(v)
Composer(v)  == IF HitlActive(v) THEN "answer" ELSE "send"
Views        == {"transcript", "debug", "timeline", "team"}
Controls(tab, v) ==
       (IF Stoppable(v) THEN {"stop"} ELSE {})
  \cup (IF tab = "transcript" THEN {"send"} ELSE {})
  \cup (IF tab = "chat" THEN {Composer(v)} ELSE {})

TypeOK ==
  /\ \A s \in Sessions : /\ log[s] \in Seq(Events)
                         /\ queue[s] \subseteq Messages
                         /\ turn[s] \in {"rest", "running", "thinking"}
                         /\ moving[s] \in Messages \cup {None}
  /\ current \in Sessions
  /\ view.shown \in Seq(Items) /\ view.outbox \subseteq Messages
  /\ view.local \in Messages \cup {None} /\ view.status \in {"idle", "running"}
  /\ view.stopped \in BOOLEAN /\ view.tools \subseteq Tools
  /\ view.threads \subseteq Children
  /\ conn \in {"connecting", "replaying", "live", "waiting", "dead"}
  /\ replay \in Seq(Items) /\ buffer \in Seq(Items)
  /\ Len(buffer) <= HubBuffer
  /\ gap \in BOOLEAN /\ faults \in 0..MaxFaults

-----------------------------------------------------------------------------
(***************************************************************************)
(* The server: every append to the log is published before appendMu is     *)
(* released, and the frames about a queued row after the row has changed.  *)
(***************************************************************************)
Subscribed == conn \in {"replaying", "live"}

\* Hub.Publish never waits: what does not fit in the channel is dropped.
Publish(s, items) ==
  IF s = current /\ Subscribed
  THEN LET room == HubBuffer - Len(buffer)
           fits == SubSeq(items, 1, IF room < Len(items) THEN room ELSE Len(items))
       IN /\ buffer' = buffer \o fits
          /\ gap' = (gap \/ \E i \in DOMAIN items :
                               i > Len(fits) /\ items[i].kind = "event")
          /\ UNCHANGED <<conn, replay>>
  ELSE UNCHANGED <<stream, gap>>

\* publishEvents: events es of session s are stored and published.
Store(s, es) ==
  /\ moving[s] = None
  /\ Len(log[s]) + Len(es) <= limit[s]
  /\ log' = [log EXCEPT ![s] = @ \o es]
  /\ Publish(s, [i \in 1..Len(es) |-> Stored(s, Len(log[s]) + i)])

Client == <<current, view, calls, unsent, post, stopping, faults>>

\* Promotion stores the row's event, deletes the row, and only then publishes.
PromoteStore(s) ==
  /\ moving[s] = None /\ Len(log[s]) < limit[s]
  /\ \E m \in queue[s] :
       /\ moving' = [moving EXCEPT ![s] = m]
       /\ log' = [log EXCEPT ![s] = Append(@, Event("user", m))]
  /\ UNCHANGED <<queue, turn, limit, stream, gap, Client>>

PromotePublish(s) ==
  /\ moving[s] # None
  /\ queue' = [queue EXCEPT ![s] = @ \ {moving[s]}]
  /\ moving' = [moving EXCEPT ![s] = None]
  /\ Publish(s, <<Stored(s, Len(log[s])), Frame("promoted", moving[s])>>)
  /\ UNCHANGED <<log, turn, limit, Client>>

Unserved(l) ==
  \E i \in DOMAIN l : l[i].kind = "user" /\ \A j \in i..Len(l) : l[j].kind # "running"

TurnStarts(s) ==
  /\ turn[s] = "rest" /\ Unserved(log[s])
  /\ Store(s, <<Event("running", None)>>)
  /\ turn' = [turn EXCEPT ![s] = "running"]
  /\ UNCHANGED <<queue, moving, limit, Client>>

\* The harness streams a thinking block: a chunk, then the whole of it.
Thinks(s) ==
  /\ turn[s] # "rest"
  /\ \/ /\ turn[s] = "running"
        /\ Store(s, <<Event("think_chunk", None)>>)
        /\ turn' = [turn EXCEPT ![s] = "thinking"]
     \/ /\ turn[s] = "thinking"
        /\ Store(s, <<Event("thinking", None)>>)
        /\ turn' = [turn EXCEPT ![s] = "running"]
  /\ UNCHANGED <<queue, moving, limit, Client>>

Uses(s) ==
  /\ turn[s] = "running"
  /\ \/ \E x \in Tools \ RefsIn(log[s], "tool_use") :
          Store(s, <<Event("tool_use", x)>>)
     \/ \E c \in Children \ RefsIn(log[s], "thread_created") :
          Store(s, <<Event("thread_created", c)>>)
  /\ UNCHANGED <<queue, moving, limit, turn, Client>>

TurnEnds(s) ==
  /\ turn[s] = "running"
  /\ \/ Store(s, <<Event("idle", Open(log[s]))>>)
     \/ Store(s, <<Event("error", None)>>)
  /\ turn' = [turn EXCEPT ![s] = "rest"]
  /\ UNCHANGED <<queue, moving, limit, Client>>

\* Another client of the API posts the result of a tool.
OthersAnswer(s) ==
  /\ turn[s] = "rest"
  /\ \E x \in Open(log[s]) : Store(s, <<Event("tool_result", x)>>)
  /\ UNCHANGED <<queue, moving, limit, turn, Client>>

Server(s) ==
  \/ PromoteStore(s) \/ PromotePublish(s) \/ TurnStarts(s) \/ Thinks(s)
  \/ Uses(s) \/ TurnEnds(s)

-----------------------------------------------------------------------------
(***************************************************************************)
(* The stream: subscribe, replay the log, forward what is published.       *)
(***************************************************************************)
\* The handler subscribes before it answers the request.
Connect ==
  /\ conn = "connecting"
  /\ conn' = "replaying" /\ replay' = <<>> /\ buffer' = <<>>
  /\ UNCHANGED <<server, gap, Client>>

\* Slip: subscribe after the log has been read.
ReplayFirst ==
  /\ conn = "replaying"
  /\ \E n \in 0..Len(log[current]) :
       /\ n + Len(SelectSeq(buffer, LAMBDA x : x.kind = "event")) >= Len(log[current])
       /\ replay' = [i \in 1..n |-> Stored(current, i)]
  /\ conn' = "live" /\ buffer' = <<>>
  /\ UNCHANGED <<server, gap, Client>>

\* It then reads the log from the start; what follows is only forwarded.
Replay ==
  /\ conn = "replaying"
  /\ LET l == log[current]
         n == IF Len(l) < ReplayLimit THEN Len(l) ELSE ReplayLimit
     IN /\ replay' = [i \in 1..n |-> Stored(current, i)]
        /\ gap' = (gap \/ n < Len(l))
  /\ conn' = "live"
  /\ UNCHANGED <<server, buffer, Client>>

\* ListEvents fails: the handler says nothing of it and forwards what is published.
\* What the page does not show yet will not come in its place.
ReplayFails ==
  /\ conn = "replaying" /\ faults < MaxFaults
  /\ faults' = faults + 1
  /\ gap' = (gap \/ ~ShowsAll(view, log[current], current))
  /\ conn' = "live"
  /\ UNCHANGED <<server, replay, buffer, current, view, calls, unsent, post, stopping>>

\* onMessage hands the next frame to addEvent.
Deliver ==
  /\ conn = "live" /\ replay \o buffer # <<>>
  /\ view' = AddEvent(view, Head(replay \o buffer))
  /\ calls' = calls \cup Refreshes(view, view')
  /\ IF replay # <<>>
     THEN replay' = Tail(replay) /\ UNCHANGED buffer
     ELSE buffer' = Tail(buffer) /\ UNCHANGED replay
  /\ UNCHANGED <<server, conn, current, unsent, post, stopping, gap, faults>>

\* Slip: the reconnected stream does not ask for a replay.
BreakNoReplay ==
  /\ Subscribed /\ faults < MaxFaults
  /\ faults' = faults + 1
  /\ conn' = "live" /\ replay' = <<>> /\ buffer' = <<>>
  /\ UNCHANGED <<server, current, view, calls, unsent, post, stopping, gap>>

\* The connection ends; the client sleeps for the backoff and fetches again.
Break ==
  /\ Subscribed /\ faults < MaxFaults
  /\ faults' = faults + 1
  /\ conn' = "waiting" /\ replay' = <<>> /\ buffer' = <<>>
  /\ UNCHANGED <<server, current, view, calls, unsent, post, stopping, gap>>

Reconnect ==
  /\ conn = "waiting"
  /\ conn' = "connecting"
  /\ UNCHANGED <<server, replay, buffer, gap, Client>>

\* A handshake answered with a status of 400 or more is not tried again.
Refused ==
  /\ conn = "connecting" /\ faults < MaxFaults
  /\ faults' = faults + 1
  /\ conn' = "dead"
  /\ UNCHANGED <<server, replay, buffer, current, view, calls, unsent, post, stopping,
                 gap>>

-----------------------------------------------------------------------------
(***************************************************************************)
(* The effect on the session id and the answers to what it asks for.       *)
(***************************************************************************)
Asked(s) == {[what |-> "history", sess |-> s, after |-> 0, from |-> Len(log[s])],
             [what |-> "pending", sess |-> s],
             [what |-> "threads", sess |-> s, from |-> Len(log[s])],
             [what |-> "tools",   sess |-> s]}

\* A page of the history; the loop asks for the next one while there is more.
\* The server read the log at some moment since the request was sent.
HistoryPage(c) ==
  /\ c \in calls /\ c.what = "history"
  /\ \E n \in c.from .. Len(log[c.sess]) :
       LET upto == IF c.after + PageLimit < n THEN c.after + PageLimit ELSE n
           page == [i \in 1..(upto - c.after) |-> Stored(c.sess, c.after + i)]
       IN /\ view' = AddAll(view, page)
          /\ calls' = (calls \ {c}) \cup Refreshes(view, view')
                      \cup (IF upto < n
                          THEN {[c EXCEPT !.after = upto, !.from = Len(log[c.sess])]}
                          ELSE {})
  /\ UNCHANGED <<server, stream, current, unsent, post, stopping, gap, faults>>

\* The server reads the live rows for GET /pending.
PendingRead(c) ==
  /\ c \in calls /\ c.what = "pending"
  /\ calls' = (calls \ {c}) \cup {[what |-> "rows", sess |-> c.sess,
                                  rows |-> queue[c.sess]]}
  /\ UNCHANGED <<server, stream, current, view, unsent, post, stopping, gap, faults>>

\* A snapshot that is not empty replaces the outbox.
PendingAnswer(c) ==
  /\ c \in calls /\ c.what = "rows"
  /\ view' = IF c.rows = {} THEN view ELSE [view EXCEPT !.outbox = c.rows]
  /\ calls' = calls \ {c}
  /\ UNCHANGED <<server, stream, current, unsent, post, stopping, gap, faults>>

\* The list of threads replaces what the stream has added.
ThreadsAnswer(c) ==
  /\ c \in calls /\ c.what = "threads"
  /\ \E n \in c.from .. Len(log[c.sess]) :
       view' = [view EXCEPT !.threads =
                  RefsIn(SubSeq(log[c.sess], 1, n), "thread_created")]
  /\ calls' = calls \ {c}
  /\ UNCHANGED <<server, stream, current, unsent, post, stopping, gap, faults>>

\* metadata.pending_tool_calls, written before the idle event that lists them.
ToolsAnswer(c) ==
  /\ c \in calls /\ c.what = "tools"
  /\ view' = [view EXCEPT !.tools =
                 IF turn[c.sess] = "rest" THEN Open(log[c.sess]) ELSE @]
  /\ calls' = calls \ {c}
  /\ UNCHANGED <<server, stream, current, unsent, post, stopping, gap, faults>>

CallFails(c) ==
  /\ c \in calls /\ faults < MaxFaults
  /\ faults' = faults + 1
  /\ calls' = calls \ {c}
  /\ view' = IF c.what = "threads" THEN [view EXCEPT !.threads = {}] ELSE view
  /\ gap' = (gap \/ c.what = "history")
  /\ UNCHANGED <<server, stream, current, unsent, post, stopping>>

Answer(c) ==
  \/ HistoryPage(c) \/ PendingRead(c) \/ PendingAnswer(c) \/ ThreadsAnswer(c)
  \/ ToolsAnswer(c)

\* The route's id changes: the cleanup aborts the stream, the effect resets the
\* session's state and asks for the new session; nothing withdraws the old calls.
OpenSession(s) ==
  /\ s # current /\ faults < MaxFaults
  /\ faults' = faults + 1
  /\ current' = s
  /\ view' = Fresh
  /\ \E answered \in Prompt :
       calls' = calls \cup {c \in Asked(s) : c.what \in answered}
  /\ conn' = "connecting" /\ replay' = <<>> /\ buffer' = <<>>
  \* A later page of an earlier visit comes before the first one of this visit.
  /\ gap' = \E c \in calls : c.what = "history" /\ c.sess = s /\ c.after > 0
  /\ UNCHANGED <<server, unsent, post, stopping>>

-----------------------------------------------------------------------------
(***************************************************************************)
(* Sending a message and stopping the session.                             *)
(***************************************************************************)
Send(m) ==
  /\ m \in unsent /\ post = None
  /\ \E tab \in Views : "send" \in Controls(tab, view)
  /\ unsent' = unsent \ {m}
  /\ post' = [msg |-> m, sess |-> current, at |-> "sent"]
  /\ view' = [view EXCEPT !.local = m]
  /\ UNCHANGED <<server, stream, current, calls, stopping, gap, faults>>

\* The row is inserted before its frame is published.
PostQueue ==
  /\ post # None /\ post.at = "sent"
  /\ queue' = [queue EXCEPT ![post.sess] = @ \cup {post.msg}]
  /\ post' = [post EXCEPT !.at = "queued"]
  /\ UNCHANGED <<log, turn, moving, limit, stream, current, view, calls, unsent,
                 stopping, gap, faults>>

\* The answer and the frame cross; either clears the optimistic bubble.
PostAnnounce ==
  /\ post # None /\ post.at = "queued"
  /\ Publish(post.sess, <<Frame("pending", post.msg)>>)
  /\ view' = [view EXCEPT !.local = Claim(@, post.msg)]
  /\ post' = None
  /\ UNCHANGED <<server, current, calls, unsent, stopping, faults>>

PostFails ==
  /\ post # None /\ post.at = "sent" /\ faults < MaxFaults
  /\ faults' = faults + 1
  /\ view' = [view EXCEPT !.local = None]
  /\ post' = None
  /\ UNCHANGED <<server, stream, current, calls, unsent, stopping, gap>>

Stop ==
  /\ stopping = None
  /\ \E tab \in Views : "stop" \in Controls(tab, view)
  /\ stopping' = [sess |-> current, at |-> "sent"]
  /\ UNCHANGED <<server, stream, current, view, calls, unsent, post, gap, faults>>

\* The server cancels the queued rows, stores the interrupt and, if there was
\* something to stop, an idle event that asks for nothing.
StopServe ==
  /\ stopping # None /\ stopping.at = "sent"
  /\ LET s   == stopping.sess
         es  == <<Event("interrupt", None)>>
                \o IF turn[s] # "rest" \/ queue[s] # {}
                   THEN <<Event("idle", {})>> ELSE <<>>
         off == SetToSeq(queue[s])
     IN /\ moving[s] = None /\ Len(log[s]) + Len(es) <= limit[s]
        /\ log' = [log EXCEPT ![s] = @ \o es]
        /\ Publish(s, [i \in DOMAIN off |-> Frame("cancelled", off[i])]
                      \o [i \in DOMAIN es |-> Stored(s, Len(log[s]) + i)])
        /\ queue' = [queue EXCEPT ![s] = {}]
        /\ turn' = [turn EXCEPT ![s] = "rest"]
  /\ stopping' = [stopping EXCEPT !.at = "served"]
  /\ UNCHANGED <<moving, limit, current, view, calls, unsent, post, faults>>

\* The page does not wait for the events of the stop.
StopAnswer ==
  /\ stopping # None /\ stopping.at = "served"
  /\ view' = [view EXCEPT !.status = "idle", !.stopped = TRUE, !.tools = {},
                          !.outbox = {}]
  /\ stopping' = None
  /\ UNCHANGED <<server, stream, current, calls, unsent, post, gap, faults>>

StopFails ==
  /\ stopping # None /\ faults < MaxFaults
  /\ faults' = faults + 1
  /\ stopping' = None
  /\ UNCHANGED <<server, stream, current, view, calls, unsent, post, gap>>

-----------------------------------------------------------------------------
Init ==
  /\ \E p \in [Sessions -> UNION {Past[s] : s \in Sessions}] :
       /\ \A s \in Sessions : p[s] \in Past[s]
       /\ log = [s \in Sessions |-> p[s].log]
       /\ turn = [s \in Sessions |-> p[s].turn]
       /\ limit = [s \in Sessions |-> p[s].limit]
  /\ queue = [s \in Sessions |-> {}] /\ moving = [s \in Sessions |-> None]
  /\ current = First
  /\ view = Fresh
  /\ \E answered \in Prompt : calls = {c \in Asked(current) : c.what \in answered}
  /\ conn = "connecting" /\ replay = <<>> /\ buffer = <<>>
  /\ unsent = Messages /\ post = None /\ stopping = None
  /\ gap = FALSE /\ faults = 0

Streaming == Connect \/ Replay \/ Deliver \/ Reconnect
Posting   == PostQueue \/ PostAnnounce \/ StopServe \/ StopAnswer

Next ==
  \/ \E s \in Sessions : Server(s) \/ OthersAnswer(s) \/ OpenSession(s)
  \/ Streaming \/ ReplayFails \/ Break \/ Refused
  \/ \E c \in calls : Answer(c) \/ CallFails(c)
  \/ \E m \in Messages : Send(m)
  \/ Posting \/ PostFails \/ Stop \/ StopFails

Spec == Init /\ [][Next]_vars

-----------------------------------------------------------------------------
\* The events of session s in the view are the first ones of its log, in order.
ShowsPrefix(v, l, s) ==
  \A i \in DOMAIN v.shown : v.shown[i].sess = s =>
    /\ v.shown[i].n \in Canonical(l)
    /\ \A n \in Canonical(l) :
         n < v.shown[i].n => \E j \in 1..(i-1) : v.shown[j] = Stored(s, n)

\* Two readers, the history loop and the replayed and reconnected stream, feed
\* one list in any interleaving: it never repeats an event, and skips or reorders
\* none unless the channel overflowed, the replay was cut or failed on a page that
\* lacked an event, a page of the history failed, or an earlier visit to the session
\* still waits for a later page.
ShownIsPrefix ==
  /\ IsInjective(view.shown)
  /\ ~gap => ShowsPrefix(view, log[current], current)

Quiet == /\ conn = "live" /\ replay \o buffer = <<>>
         /\ \A c \in calls : c.what # "history"
         /\ \A s \in Sessions : moving[s] = None

\* When nothing is on its way the page shows the whole log, whatever broke, was
\* sent again or was asked for in between, with the same exceptions.
QuietShowsAll ==
  (Quiet /\ ~gap) => ShowsPrefix(view, log[current], current)
                     /\ ShowsAll(view, log[current], current)

\* Once every event has arrived the pill says what the log says: a replay of old
\* events does not turn it back.  A turn that a restart of the server cut off stays
\* running in both.  (Stop sets the pill ahead of the log; history pages of the
\* session that was open before may still be added to the page.)
StatusMatchesLog ==
  (Quiet /\ ~gap /\ ~view.stopped /\ \A x \in Range(view.shown) : x.sess = current) =>
    (view.status = "running" <=> Unended(log[current]))
=============================================================================
