---------------------------- MODULE RuntimeRoom ----------------------------
(***************************************************************************)
(* The room of one local runtime (internal/runtime/room.go): its daemon    *)
(* connects over a WebSocket, and connects again when the connection       *)
(* breaks; the row of the runtime says whether it is online.  A connection *)
(* is attached in several steps, and the goroutine that reads it cleans up *)
(* after it, beside the request that attaches the next one.                *)
(***************************************************************************)
EXTENDS Naturals

CONSTANTS Conns,   \* the connections the daemon makes, as numbers
          None

RoomAssumption == Conns \subseteq Nat /\ None \notin Conns

VARIABLES
  daemon,   \* the connection the room writes to
  phase,    \* where each connection is
  peer,     \* whether it is open at both ends
  newest,   \* history: the connection that was attached last
  row       \* status of the runtime's row

rvars == <<daemon, phase, peer, newest, row>>

RoomTypeOK ==
  /\ daemon \in Conns \cup {None} /\ newest \in Conns \cup {None}
  /\ phase \in [Conns -> {"none", "upgrade", "attached", "reading", "left", "closed"}]
  /\ peer \in [Conns -> BOOLEAN] /\ row \in {"online", "offline"}

Init ==
  /\ daemon = None /\ newest = None /\ row = "offline"
  /\ phase = [c \in Conns |-> "none"] /\ peer = [c \in Conns |-> FALSE]

Goes(c, p) == phase' = [phase EXCEPT ![c] = p]

\* A ping can be written to a connection whose peer is gone, and can fail on one
\* whose peer is there.  Only a connection that fails it is closed and replaced.
AttachDaemon(c) ==
  /\ phase[c] = "none"
  /\ \/ /\ daemon = None /\ Goes(c, "upgrade")
        /\ peer' = [peer EXCEPT ![c] = TRUE] /\ UNCHANGED daemon
     \/ daemon # None /\ Goes(c, "closed") /\ UNCHANGED <<peer, daemon>>
     \/ /\ daemon # None /\ daemon' = None /\ Goes(c, "upgrade")
        /\ peer' = [peer EXCEPT ![daemon] = FALSE, ![c] = TRUE]
  /\ UNCHANGED <<newest, row>>

UpgradeFails(c) ==
  /\ phase[c] = "upgrade"
  /\ Goes(c, "closed") /\ peer' = [peer EXCEPT ![c] = FALSE]
  /\ UNCHANGED <<daemon, newest, row>>

\* Another may have been attached since the check: it is replaced, not closed.
Attached(c) ==
  /\ phase[c] = "upgrade"
  /\ daemon' = c /\ newest' = c /\ Goes(c, "attached")
  /\ UNCHANGED <<peer, row>>

MarkRuntimeOnline(c) ==
  /\ phase[c] = "attached"
  /\ row' = "online" /\ Goes(c, "reading")
  /\ UNCHANGED <<daemon, peer, newest>>

\* Slip: a ping keeps the heartbeat only.
PingKeepsStatus == row

\* Hello and ping say that the runtime is online.
TouchRuntimeHeartbeat == "online"

OnDaemonMessage(c) ==
  /\ phase[c] = "reading" /\ peer[c]
  /\ row' = TouchRuntimeHeartbeat
  /\ UNCHANGED <<daemon, phase, peer, newest>>

Left(c) == IF daemon = c THEN None ELSE daemon

\* The read fails once the peer is gone; the row is written after the room.
ReadFails(c) ==
  /\ phase[c] = "reading" /\ ~peer[c]
  /\ daemon' = Left(c) /\ Goes(c, "left")
  /\ UNCHANGED <<peer, newest, row>>

MarkRuntimeOffline(c) ==
  /\ phase[c] = "left"
  /\ row' = "offline" /\ Goes(c, "closed")
  /\ UNCHANGED <<daemon, peer, newest>>

PeerLeaves(c) ==
  /\ peer[c] /\ peer' = [peer EXCEPT ![c] = FALSE]
  /\ UNCHANGED <<daemon, phase, newest, row>>

Next ==
  \E c \in Conns :
    \/ AttachDaemon(c) \/ UpgradeFails(c) \/ Attached(c) \/ MarkRuntimeOnline(c)
    \/ OnDaemonMessage(c) \/ ReadFails(c) \/ MarkRuntimeOffline(c) \/ PeerLeaves(c)

Spec == Init /\ [][Next]_rvars

\* Goroutines run on, and a daemon that is there pings.
Fairness ==
  \A c \in Conns :
    /\ WF_rvars(MarkRuntimeOnline(c)) /\ WF_rvars(OnDaemonMessage(c))
    /\ WF_rvars(ReadFails(c)) /\ WF_rvars(MarkRuntimeOffline(c))

Serving == newest # None /\ peer[newest] /\ phase[newest] \in {"attached", "reading"}

-----------------------------------------------------------------------------
\* room.go, readDaemon "if room.daemon == conn": while the connection that was
\* attached last is there the room writes to it, whatever older ones clean up.
NewestIsDaemon == Serving => daemon = newest

\* readDaemon marks the runtime offline after a new daemon may have marked it
\* online; a daemon that stays is online in the end, for it keeps pinging.
ComesOnline == <>[]Serving => <>[](row = "online")
=============================================================================
