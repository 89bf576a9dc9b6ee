----------------------------- MODULE MemoryPage -----------------------------
(***************************************************************************)
(* The page of one memory store (pages/MemoryStoreDetail.tsx) over the     *)
(* store that serves it (internal/store/memory_stores.go): a request reads *)
(* the memory, checks the hash the dialog was opened with, and writes the  *)
(* row and its version in later statements, with no transaction.  After a  *)
(* turn an agent's files are written to the same store.                    *)
(***************************************************************************)
EXTENDS Naturals, FiniteSets

CONSTANTS Paths, Contents,   \* where memories may be, and what they may hold
          MaxMemories,       \* bound: memories created in all
          MaxRequests,       \* bound: writes in flight at a time
          None

VARIABLES ui, srv, left

On == ui.page = "memory"

NoDialog == [of |-> None, editing |-> FALSE, path |-> None, content |-> None,
             versions |-> None]

Memory(id, p, c) == [id |-> id, path |-> p, content |-> c]

\* A version keeps the hash of what was written: it stands for the content.
Version(n, m) == [n |-> n, id |-> m.id, content |-> m.content, redacted |-> FALSE]

Init ==
  /\ ui = [page |-> "memory", tab |-> "memories", prefix |-> None, list |-> {},
           fresh |-> FALSE, write |-> None, dialog |-> NoDialog, gets |-> {},
           store |-> [archived |-> FALSE]]
  /\ \E p \in Paths, c \in Contents :
       srv = [memories |-> {Memory(1, p, c)}, next |-> 2,
              versions |-> {Version(1, Memory(1, p, c))}, requests |-> {},
              crossed |-> FALSE]

Do(u) == ui' = u /\ left > 0 /\ left' = left - 1

At(p) == {m \in srv.memories : m.path = p}

Free == {n \in 1..MaxRequests : \A r \in srv.requests : r.tag # n}

\* A request: what it writes, the hash it asks for, what it has read so far.
Request(kind, id, p, c, sha) ==
  [kind |-> kind, id |-> id, path |-> p, content |-> c, sha |-> sha,
   tag |-> CHOOSE n \in Free : \A k \in Free : n <= k,
   phase |-> "sent", read |-> None, raced |-> FALSE]

Sent(r) == Free # {} /\ srv' = [srv EXCEPT !.requests = @ \cup {r}]

-----------------------------------------------------------------------------
(***************************************************************************)
(* The page.                                                               *)
(***************************************************************************)
Panel == On /\ ui.tab = "memories"
Writable == ~ui.store.archived

load(u) == [u EXCEPT !.fresh = FALSE]

MemoriesArrive ==
  /\ Panel /\ ~ui.fresh
  /\ ui' = [ui EXCEPT !.fresh = TRUE,
              !.list = {m \in srv.memories : ui.prefix \in {None, m.path}}]
  /\ UNCHANGED <<srv, left>>

\* Another tab takes the panel, its dialogs and its reads off the page.
Tab ==
  /\ On /\ ui.dialog.of = None /\ ui.write = None
  /\ \E t \in {"memories", "versions", "settings"} \ {ui.tab} :
       Do([load(ui) EXCEPT !.tab = t, !.prefix = None, !.gets = {}])
  /\ UNCHANGED srv

PathPrefix ==
  /\ Panel /\ ui.dialog.of = None /\ ui.write = None
  /\ \E p \in (Paths \cup {None}) \ {ui.prefix} : Do(load([ui EXCEPT !.prefix = p]))
  /\ UNCHANGED srv

\* Both leave for the list of stores; the server refuses no write for either.
archive ==
  /\ On /\ Writable /\ ui.dialog.of = None /\ ui.write = None
  /\ Do([ui EXCEPT !.page = "memory_stores", !.store.archived = TRUE])
  /\ UNCHANGED srv

del ==
  /\ On /\ ui.dialog.of = None /\ ui.write = None
  /\ Do([ui EXCEPT !.page = "memory_stores"])
  /\ srv' = [srv EXCEPT !.memories = {}, !.versions = {}]

openMemory ==
  /\ Panel /\ ui.write = None /\ ui.dialog.of = None
  /\ \E m \in ui.list : Do([ui EXCEPT !.gets = @ \cup {m.id}])
  /\ UNCHANGED srv

\* The dialog that is open takes the memory that arrives, and keeps its fields.
Opened ==
  /\ Panel
  /\ \E id \in ui.gets :
       LET gone == {m \in srv.memories : m.id = id} = {}
           u == [ui EXCEPT !.gets = @ \ {id}]
       IN ui' = IF gone THEN u
                ELSE LET m == CHOOSE x \in srv.memories : x.id = id
                     IN IF ui.dialog.of = None
                        THEN [u EXCEPT !.dialog = [NoDialog EXCEPT !.of = m,
                                         !.path = m.path, !.content = m.content]]
                        ELSE [u EXCEPT !.dialog.of = m]
  /\ UNCHANGED <<srv, left>>

-----------------------------------------------------------------------------
(***************************************************************************)
(* The dialogs.  No button waits for the answer of the request it sent.    *)
(***************************************************************************)
NewMemory ==
  /\ Panel /\ Writable /\ ui.write = None /\ ui.dialog.of = None
  /\ \E c \in Contents : Do([ui EXCEPT !.write = c])
  /\ UNCHANGED srv

CancelNew == Panel /\ ui.write # None /\ Do([ui EXCEPT !.write = None]) /\ UNCHANGED srv

\* It asks that the path be free in words the server does not know.
Create ==
  /\ Panel /\ ui.write # None
  /\ \E p \in Paths : Sent(Request("write", None, p, ui.write, None))
  /\ Do(ui)

Dialog == Panel /\ ui.dialog.of # None
Editing == Dialog /\ ui.dialog.editing

Edit ==
  /\ Dialog /\ Writable /\ ~ui.dialog.editing
  /\ Do([ui EXCEPT !.dialog.editing = TRUE])
  /\ UNCHANGED srv

Fields ==
  /\ Editing
  /\ \/ \E p \in Paths \ {ui.dialog.path} : Do([ui EXCEPT !.dialog.path = p])
     \/ \E c \in Contents \ {ui.dialog.content} : Do([ui EXCEPT !.dialog.content = c])
  /\ UNCHANGED srv

CancelEdit ==
  /\ Editing
  /\ Do([ui EXCEPT !.dialog.editing = FALSE, !.dialog.path = ui.dialog.of.path,
                   !.dialog.content = ui.dialog.of.content])
  /\ UNCHANGED srv

onClose == Dialog /\ Do([ui EXCEPT !.dialog = NoDialog]) /\ UNCHANGED srv

Changed(new, old) == IF new = old THEN None ELSE new

save ==
  /\ Editing /\ Do(ui)
  /\ LET m == ui.dialog.of
     IN Sent(Request("update", m.id, Changed(ui.dialog.path, m.path),
                     Changed(ui.dialog.content, m.content), m.content))

remove ==
  /\ Dialog /\ Writable /\ ~ui.dialog.editing /\ Do(ui)
  /\ Sent(Request("delete", ui.dialog.of.id, None, None, ui.dialog.of.content))

loadVersions(u) ==
  [u EXCEPT !.dialog.versions = {v \in srv.versions : v.id = ui.dialog.of.id}]

Versions ==
  /\ Dialog /\ ~ui.dialog.editing
  /\ Do(IF ui.dialog.versions = None THEN loadVersions(ui)
        ELSE [ui EXCEPT !.dialog.versions = None])
  /\ UNCHANGED srv

\* The list of versions comes without their contents, so none is rolled back to.
redact ==
  /\ Dialog /\ Writable /\ ui.dialog.versions # None
  /\ \E v \in ui.dialog.versions :
       /\ ~v.redacted /\ v.content # ui.dialog.of.content
       /\ srv' = [srv EXCEPT !.versions =
                    {IF w.n = v.n THEN [w EXCEPT !.redacted = TRUE] ELSE w : w \in @}]
  /\ Do([ui EXCEPT !.dialog.versions = {v \in srv'.versions : v.id = ui.dialog.of.id}])

\* An answer closes the dialog and reads the list again, whichever was open.
onSaved(u, r) ==
  IF ~Panel \/ r.sha = "agent" THEN u
  ELSE IF r.kind = "write" THEN load([u EXCEPT !.write = None])
  ELSE load([u EXCEPT !.dialog = NoDialog])

-----------------------------------------------------------------------------
(***************************************************************************)
(* The store.                                                              *)
(***************************************************************************)

\* After a turn the agent's files are written, without a precondition.
SyncMemoryStores ==
  /\ On
  /\ \E p \in Paths, c \in Contents : Sent(Request("write", None, p, c, "agent"))
  /\ Do(ui)

\* What the request is about, as the store holds it now.
Existing(r) ==
  IF r.kind = "write" THEN At(r.path) ELSE {m \in srv.memories : m.id = r.id}

Guarded(r) == r.sha \in Contents

\* Slip: the hash is not compared.
ChecksNothing(r, m) == TRUE

Passes(r, m) == Guarded(r) => r.sha = m.content

Answered(r) == [srv EXCEPT !.requests = @ \ {r}]

Reaches(r, to) == [Answered(r) EXCEPT !.requests = @ \cup {to}]

Taken(r) == {m \in At(r.path) : m.id # r.id}

\* The read and the check: a failed precondition or a taken path ends it.
Check ==
  /\ On
  /\ \E r \in srv.requests :
       /\ r.phase = "sent"
       /\ \/ /\ Existing(r) = {}
             /\ srv' = IF r.kind = "write" THEN Reaches(r, [r EXCEPT !.phase = "checked"])
                       ELSE Answered(r)
          \/ \E m \in Existing(r) :
               srv' = IF Passes(r, m) /\ (r.kind = "update" => Taken(r) = {})
                      THEN Reaches(r, [r EXCEPT !.phase = "checked", !.read = m])
                      ELSE Answered(r)
  /\ UNCHANGED <<ui, left>>

Or(new, old) == IF new = None THEN old ELSE new

\* The row that a checked request writes: it fills in what it read before.
Row(r) ==
  IF r.read = None THEN Memory(srv.next, r.path, r.content)
  ELSE IF r.kind = "write" THEN [r.read EXCEPT !.content = r.content]
  ELSE Memory(r.id, Or(r.path, r.read.path), Or(r.content, r.read.content))

\* Everything that was checked against the row has been overtaken.
Overtaken(rs, id) ==
  {IF x.read # None /\ x.read.id = id THEN [x EXCEPT !.raced = TRUE] ELSE x : x \in rs}

\* A guarded request lands on a content it was not asked to replace.
Lost(r) == Guarded(r) /\ \E m \in srv.memories : m.id = r.read.id /\ m.content # r.sha

Landed(r, to, rows) ==
  [srv EXCEPT
     !.memories = rows, !.next = IF r.read = None THEN @ + 1 ELSE @,
     !.requests = Overtaken(@ \ {r}, IF r.read = None THEN 0 ELSE r.read.id) \cup to,
     !.crossed = @ \/ (Lost(r) /\ ~r.raced)]

\* The row is replaced by id, whatever it holds by now; one that is gone stays
\* gone, and a path another row took meanwhile fails the statement.
Write ==
  /\ On
  /\ \E r \in srv.requests :
       LET row == Row(r)
           others == {m \in srv.memories : m.id # row.id}
           there == r.read = None \/ \E m \in srv.memories : m.id = row.id
       IN /\ r.phase = "checked" /\ r.kind # "delete"
          /\ r.read = None => srv.next <= MaxMemories
          /\ srv' = IF \E m \in others : m.path = row.path THEN Answered(r)
                    ELSE Landed(r, {[r EXCEPT !.phase = "written", !.read = row]},
                                IF there THEN others \cup {row} ELSE others)
  /\ UNCHANGED <<ui, left>>

WriteVersion ==
  /\ On
  /\ \E r \in srv.requests :
       /\ r.phase = "written"
       /\ srv' = [Answered(r) EXCEPT
                    !.versions = @ \cup {Version(Cardinality(@) + 1, r.read)}]
       /\ ui' = onSaved(ui, r)
  /\ UNCHANGED left

\* A delete logs its version first.
Delete ==
  /\ On
  /\ \E r \in srv.requests :
       /\ r.phase = "checked" /\ r.kind = "delete"
       /\ srv' = [Landed(r, {}, {m \in srv.memories : m.id # r.id}) EXCEPT
                    !.versions = @ \cup {Version(Cardinality(@) + 1, r.read)}]
       /\ ui' = onSaved(ui, r)
  /\ UNCHANGED left

Next ==
  \/ MemoriesArrive \/ Tab \/ PathPrefix \/ archive \/ del \/ openMemory \/ Opened
  \/ NewMemory \/ CancelNew \/ Create \/ Edit \/ Fields \/ CancelEdit \/ onClose
  \/ save \/ remove \/ Versions \/ redact
  \/ SyncMemoryStores \/ Check \/ Write \/ WriteVersion \/ Delete

-----------------------------------------------------------------------------
\* Save, delete and roll back replace only the content the dialog was opened
\* with, unless another write lands between a request's check and its write.
GuardHolds == On => ~srv.crossed
=============================================================================
