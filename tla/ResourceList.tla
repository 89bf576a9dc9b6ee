---------------------------- MODULE ResourceList ----------------------------
(***************************************************************************)
(* The lists of the console (components/DataTable.tsx over                 *)
(* lib/useApiQuery.ts): pages fetched by cursor as the table is scrolled,  *)
(* one cached list per set of filters, and the dialogs and row menus of    *)
(* the environments, vaults, memory stores, agents and files that refresh  *)
(* it.  The server orders rows by creation and resumes after the cursor,   *)
(* which for files is an identifier drawn at random.                       *)
(***************************************************************************)
EXTENDS Integers, FiniteSets, Sequences, SequencesExt

CONSTANTS Kinds,     \* which lists: environments, vaults, stores, agents, files
          Ids,       \* identifiers of rows, drawn at random by the server
          PageSize,  \* rows of a page
          MaxTime,   \* bound: moments at which rows are created
          MaxSlots,  \* bound: sets of filters that are tried
          None

VARIABLES ui, srv, left

On == ui.page = "list"

Statuses == {"active", "any", "archived"}
Params == [status : Statuses, after : {0, MaxTime}, q : {None} \cup Ids]
Default == [status |-> "active", after |-> 0, q |-> None]

Row(i, t) == [id |-> i, at |-> t, archived |-> FALSE]

\* An entry of the query cache: the pages a list has, when the first was read,
\* whether the last came with a cursor, and the fetch under way, if any.
NoFetch == [want |-> 0, got |-> <<>>, asOf |-> 0]
Fetch(n, got, t) == [want |-> n, got |-> got, asOf |-> t]
Slot(pages, t, more, fetch) == [pages |-> pages, asOf |-> t, more |-> more, fetch |-> fetch]
Cold == Slot(<<>>, 0, FALSE, Fetch(1, <<>>, 0))

NoDialog == [open |-> FALSE, name |-> FALSE]

Init ==
  /\ \E k \in Kinds :
       ui = [page |-> "list", kind |-> k, params |-> Default, shown |-> <<>>,
             cache |-> [p \in {Default} |-> Cold],
             dialog |-> NoDialog]
  /\ \E i, j \in Ids :
       /\ i # j
       /\ srv = [rows |-> {Row(i, 1), Row(j, 2)}, now |-> 2, calls |-> {}]

Do(u) == ui' = u /\ left > 0 /\ left' = left - 1

-----------------------------------------------------------------------------
(***************************************************************************)
(* The server.                                                             *)
(***************************************************************************)
Matches(r, p) ==
  /\ p.status = "active" => ~r.archived
  /\ p.status = "archived" => r.archived
  /\ r.at >= p.after
  /\ p.q \in {None, r.id}

Oldest(r, s) == r.at < s.at \/ (r.at = s.at /\ r.id < s.id)

\* Vaults, stores and files come newest first.
Before(r, s) ==
  IF ui.kind \in {"environments", "agents"} THEN Oldest(r, s) ELSE Oldest(s, r)

\* A page is a set of rows, which are in the server's order.
LastRow(page) == CHOOSE r \in page : \A s \in page : ~Before(r, s)

Resumes(got, r) ==
  got # <<>> => LET last == LastRow(Last(got))
                IN IF ui.kind = "files" THEN r.id < last.id ELSE Before(last, r)

\* Where a row comes among those of a set.
Rank(S, r) == Cardinality({s \in S : Before(s, r)})

\* The rows of a set that make a page; the stores come in one.
Limit(S) == IF ui.kind = "memory_stores" THEN S ELSE {r \in S : Rank(S, r) < PageSize}

\* Slip: the page starts as many rows down as were read before.
ListPageByOffset(rows, p, got) ==
  LET all == {r \in rows : Matches(r, p)}
  IN {r \in all : Rank(all, r) \in PageSize * Len(got) .. PageSize * (Len(got) + 1) - 1}

\* The rows of a page: those that match, after the last one read.
ListPage(rows, p, got) == Limit({r \in rows : Matches(r, p) /\ Resumes(got, r)})

\* There is a cursor when a row follows the page.
Follows(rows, p, got) == Last(got) # {} /\ ListPage(rows, p, got) # {}

-----------------------------------------------------------------------------
(***************************************************************************)
(* The query: lib/useApiQuery.ts.                                          *)
(***************************************************************************)
Current(u) == u.cache[u.params]

With(u, slot) == [u EXCEPT !.cache[u.params] = slot]

\* Every page that the list has is read again, one after the other.
refresh(u) ==
  LET n == Len(Current(u).pages)
  IN With(u, [Current(u) EXCEPT !.fetch = Fetch(IF n = 0 THEN 1 ELSE n, <<>>, 0)])

\* What is rendered: the list, or the last one while the first page is read.
Rendered(u) ==
  IF Current(u).pages = <<>> THEN u ELSE [u EXCEPT !.shown = Current(u).pages]

\* A page arrives; the list is replaced when all that were asked for are here,
\* or when the server has no more.
PageArrives ==
  /\ On
  /\ \E p \in DOMAIN ui.cache :
       LET f == ui.cache[p].fetch
           got == Append(f.got, ListPage(srv.rows, p, f.got))
           more == Follows(srv.rows, p, got)
           t == IF f.got = <<>> THEN srv.now ELSE f.asOf
       IN /\ Len(f.got) < f.want
          /\ ui' = Rendered([ui EXCEPT !.cache[p] =
                     IF Len(got) >= f.want \/ ~more THEN Slot(got, t, more, NoFetch)
                     ELSE [@ EXCEPT !.fetch = Fetch(f.want, got, t)]])
  /\ UNCHANGED <<srv, left>>

\* Retried once by the query, then given up: the pages stay what they were.
FetchFails ==
  /\ On /\ Current(ui).fetch.want > 0
  /\ Do(With(ui, [Current(ui) EXCEPT !.fetch = NoFetch]))
  /\ UNCHANGED srv

\* The sentinel below the last row comes into view: one more page, after those
\* the list has; a refresh that is under way is dropped.
LoadMoreRow ==
  /\ On /\ Current(ui).more /\ Current(ui).fetch.want <= Len(Current(ui).pages)
  /\ LET s == Current(ui)
     IN Do(With(ui, [s EXCEPT !.fetch = Fetch(Len(s.pages) + 1, s.pages, s.asOf)]))
  /\ UNCHANGED srv

\* The window's focus reads a stale list again.
Focus == On /\ Do(refresh(ui)) /\ UNCHANGED srv

\* Other filters: their cached list, fresh or read again, or the last one shown
\* while the first page is on its way.
Filtered(u, p) ==
  LET v == [u EXCEPT !.params = p]
  IN IF p \in DOMAIN u.cache THEN Rendered(v)
     ELSE [v EXCEPT !.cache = [x \in DOMAIN u.cache \cup {p} |->
             IF x = p THEN Cold ELSE u.cache[x]]]

Filter(p) ==
  /\ p \in DOMAIN ui.cache \/ Cardinality(DOMAIN ui.cache) < MaxSlots
  /\ Do(Filtered(ui, p))

StatusChip ==
  /\ On /\ ~ui.dialog.open
  /\ \E s \in Statuses \ {ui.params.status} :
       Filter([ui.params EXCEPT !.status = s])
  /\ UNCHANGED srv

CreatedFilterChip ==
  /\ On /\ ~ui.dialog.open
  /\ Filter([ui.params EXCEPT !.after = MaxTime - @])
  /\ UNCHANGED srv

\* Only environments and agents send what is typed to the server.
Search ==
  /\ On /\ ~ui.dialog.open /\ ui.kind \in {"environments", "agents"}
  /\ \E q \in ({None} \cup Ids) \ {ui.params.q} :
       Filter([ui.params EXCEPT !.q = q])
  /\ UNCHANGED srv

-----------------------------------------------------------------------------
(***************************************************************************)
(* The pages: dialogs and row menus.                                       *)
(***************************************************************************)
Creates(k) == On /\ ui.kind = k /\ ui.dialog.open /\ ui.dialog.name

OpenCreate ==
  /\ On /\ ui.kind # "files" /\ ~ui.dialog.open
  /\ Do([ui EXCEPT !.dialog.open = TRUE])
  /\ UNCHANGED srv

\* Closing keeps what was typed.
CloseCreate ==
  /\ On /\ ui.dialog.open
  /\ Do([ui EXCEPT !.dialog.open = FALSE])
  /\ UNCHANGED srv

Name ==
  /\ On /\ ui.dialog.open /\ Do([ui EXCEPT !.dialog.name = ~@])
  /\ UNCHANGED srv

Called(c) == srv' = [srv EXCEPT !.calls = @ \cup {c}]
Call(op, id) == [op |-> op, id |-> id]

\* None of them waits for the answer of the first click.
create == Creates("environments") /\ Do(ui) /\ Called(Call("create", None))
createVault == Creates("vaults") /\ Do(ui) /\ Called(Call("create", None))
createStore == Creates("memory_stores") /\ Do(ui) /\ Called(Call("create", None))

\* The agents' dialog is a form of its own, which reports what it created.
AgentCreated ==
  /\ On /\ ui.kind = "agents" /\ ui.dialog.open /\ Do(ui)
  /\ Called(Call("create", None))

\* A row's menu: archive what is not archived, delete.
RowMenu(k) ==
  /\ On /\ ui.kind = k /\ ~ui.dialog.open /\ Do(ui)
  /\ \E page \in ToSet(ui.shown) :
       \E r \in page :
         \/ ~r.archived /\ Called(Call("archive", r.id))
         \/ Called(Call("delete", r.id))

EnvironmentMenu == RowMenu("environments")
VaultMenu == RowMenu("vaults")
StoreMenu == RowMenu("memory_stores")
AgentMenu == RowMenu("agents")

remove ==
  /\ On /\ ui.kind = "files" /\ Do(ui)
  /\ \E page \in ToSet(ui.shown) :
       \E r \in page : Called(Call("delete", r.id))

\* The list that is current by now is refreshed.
Created ==
  /\ On /\ Call("create", None) \in srv.calls
  /\ \E i \in Ids, t \in {srv.now, srv.now + 1} :
       /\ t <= MaxTime /\ \A r \in srv.rows : r.id # i
       /\ srv' = [srv EXCEPT !.rows = @ \cup {Row(i, t)}, !.now = t,
                             !.calls = @ \ {Call("create", None)}]
  /\ ui' = refresh([ui EXCEPT !.dialog = NoDialog])
  /\ UNCHANGED left

Done ==
  /\ On
  /\ \E c \in {d \in srv.calls : d.op # "create"} :
       srv' = [srv EXCEPT
         !.calls = @ \ {c},
         !.rows = {IF r.id = c.id THEN [r EXCEPT !.archived = TRUE] ELSE r :
                     r \in {s \in @ : c.op = "archive" \/ s.id # c.id}}]
  /\ ui' = refresh(ui)
  /\ UNCHANGED left

\* A failed creation leaves the dialog open, a failed menu entry says nothing.
CallFails ==
  /\ On
  /\ \E c \in srv.calls : srv' = [srv EXCEPT !.calls = @ \ {c}]
  /\ UNCHANGED <<ui, left>>

OpenRow ==
  /\ On /\ ~ui.dialog.open /\ ui.kind # "files" /\ ui.shown # <<>>
  /\ Do([ui EXCEPT !.page = "detail"])
  /\ UNCHANGED srv

\* Another client, or a session, changes the rows.
OthersChange ==
  /\ On /\ Do(ui)
  /\ \/ \E i \in Ids, t \in {srv.now, srv.now + 1} :
          /\ t <= MaxTime /\ \A r \in srv.rows : r.id # i
          /\ srv' = [srv EXCEPT !.rows = @ \cup {Row(i, t)}, !.now = t]
     \/ \E r \in srv.rows : srv' = [srv EXCEPT !.rows = @ \ {r}]

Next ==
  \/ PageArrives \/ FetchFails \/ LoadMoreRow \/ Focus
  \/ StatusChip \/ CreatedFilterChip \/ Search
  \/ OpenCreate \/ CloseCreate \/ Name \/ create \/ createVault \/ createStore
  \/ AgentCreated \/ EnvironmentMenu \/ VaultMenu \/ StoreMenu \/ AgentMenu \/ remove
  \/ Created \/ Done \/ CallFails \/ OpenRow \/ OthersChange

-----------------------------------------------------------------------------
\* However rows come and go while pages are read, a list shows no row twice,
\* keeps the server's order, and skips no row: one that was there when the first
\* page was read, is there still and sorts before the last row is in the list.
\* It does not hold of files, whose cursor does not follow their order.
NoRowSkipped ==
  ui.page = "list" /\ ui.kind # "files" =>
    \A p \in DOMAIN ui.cache :
      LET s == ui.cache[p]
          listed == UNION ToSet(s.pages)
      IN /\ \A m, n \in DOMAIN s.pages :
              m < n => \A a \in s.pages[m], b \in s.pages[n] : Before(a, b)
         /\ p.status # "archived" =>
              \A r \in srv.rows, b \in listed :
                Matches(r, p) /\ r.at < s.asOf /\ Before(r, b) => \E a \in listed : a.id = r.id
=============================================================================
