------------------------ MODULE ConsoleLists_proofs -------------------------
(***************************************************************************)
(* Theorems about the pages of the console that show what others change    *)
(* meanwhile: skills, evaluation runs, publications, a team, memories.  A  *)
(* behaviour of Console stays on its page, so the invariant of a page needs*)
(* the steps of that page only.                                            *)
(***************************************************************************)
EXTENDS Console, FiniteSetTheorems, SequenceTheorems, TLAPS

vars == <<ui, srv, left, route>>

-----------------------------------------------------------------------------
(***************************************************************************)
(* The skills.                                                             *)
(***************************************************************************)
SkillIds  == BuiltIn \cup Custom
SkillRows == [id : SkillIds, version : Nat]
Forms     == [open : BOOLEAN, zip : BOOLEAN, error : BOOLEAN, uploading : BOOLEAN]

SkillsUi ==
  [page : {"skills"}, source : {"any", "anthropic", "custom"}, create : Forms, nv : Forms,
   detail : SkillRows \cup {None}, files : SkillRows \cup {None}, loading : BOOLEAN,
   list : SUBSET SkillRows, fresh : BOOLEAN]

SkillsSrv ==
  [versions : [SkillIds -> Nat], uploads : SUBSET SkillIds, published : SUBSET SkillIds,
   reads : SUBSET [of : SkillRows, tag : Nat],
   deletes : SUBSET [id : SkillIds, dialog : BOOLEAN, tag : Nat],
   tag : Nat, crossed : BOOLEAN]

\* Every read that is out is of the version that is open, and so are the files.
OneDialog(u, s) ==
  ~s.crossed /\ u.detail # None =>
    /\ \A r \in s.reads : r.of = u.detail
    /\ ~u.loading => u.files \in {None, u.detail}

SkillsInv == ui \in SkillsUi /\ srv \in SkillsSrv /\ OneDialog(ui, srv)

LEMMA FormsKept ==
  ASSUME NEW f \in Forms, NEW b \in BOOLEAN, NEW kind
  PROVE  /\ SK!NoForm \in Forms /\ SK!accept(f, kind) \in Forms
         /\ [SK!NoForm EXCEPT !.uploading = b] \in Forms
         /\ [SK!NoForm EXCEPT !.open = TRUE, !.uploading = b] \in Forms
         /\ [f EXCEPT !.open = b] \in Forms /\ [f EXCEPT !.zip = b] \in Forms
         /\ [f EXCEPT !.error = b] \in Forms /\ [f EXCEPT !.uploading = b] \in Forms
         /\ f.uploading \in BOOLEAN
BY DEF Forms, SK!NoForm, SK!accept

\* Opening a version makes it the one that is read, or marks the race.
LEMMA ReadingOpens ==
  ASSUME NEW u \in SkillsUi, NEW s \in SkillsSrv, NEW v \in SkillRows
  PROVE  /\ SK!Shown(u, v) \in SkillsUi /\ SK!Reading(s, v) \in SkillsSrv
         /\ OneDialog(SK!Shown(u, v), SK!Reading(s, v))
<1> DEFINE f == [SK!NoForm EXCEPT !.uploading = u.nv.uploading]
           r == [of |-> v, tag |-> s.tag]
<1>1. f \in Forms /\ r \in [of : SkillRows, tag : Nat] /\ r.of = v
  BY FormsKept DEF SkillsUi, SkillsSrv
<1>2. SK!Shown(u, v) = [u EXCEPT !.detail = v, !.loading = TRUE, !.nv = f]
  BY DEF SK!Shown
<1>3. SK!Reading(s, v) = [s EXCEPT !.reads = @ \cup {r}, !.tag = @ + 1,
                                   !.crossed = s.reads # {}]
  BY DEF SK!Reading
<1> HIDE DEF f, r
<1>4. /\ SK!Shown(u, v) \in SkillsUi /\ SK!Shown(u, v).detail = v
      /\ SK!Shown(u, v).loading = TRUE
  BY <1>1, <1>2 DEF SkillsUi
<1>5. /\ SK!Reading(s, v) \in SkillsSrv /\ SK!Reading(s, v).reads = s.reads \cup {r}
      /\ SK!Reading(s, v).crossed = (s.reads # {})
  <2>1. /\ s.reads \cup {r} \subseteq [of : SkillRows, tag : Nat] /\ s.tag + 1 \in Nat
        /\ (s.reads # {}) \in BOOLEAN
    BY <1>1 DEF SkillsSrv
  <2> DEFINE q == s.reads \cup {r}
             n == s.tag + 1
             x == s.reads # {}
  <2>2. SK!Reading(s, v) = [s EXCEPT !.reads = q, !.tag = n, !.crossed = x]
    BY <1>3
  <2> HIDE DEF q, n, x
  <2>3. /\ SK!Reading(s, v) \in SkillsSrv /\ SK!Reading(s, v).reads = q
        /\ SK!Reading(s, v).crossed = x
    BY <2>1, <2>2 DEF SkillsSrv, q, n, x
  <2> QED
    BY <2>3 DEF q, x
<1> QED
  BY <1>1, <1>4, <1>5 DEF OneDialog

\* Closing leaves no version open.
LEMMA ClosedShowsNone ==
  ASSUME NEW u \in SkillsUi
  PROVE  SK!closed(u) \in SkillsUi /\ SK!closed(u).detail = None
<1> DEFINE f == [SK!NoForm EXCEPT !.uploading = u.nv.uploading]
<1>1. f \in Forms /\ SK!closed(u) = [u EXCEPT !.detail = None, !.files = None, !.nv = f]
  BY FormsKept DEF SkillsUi, SK!closed
<1> HIDE DEF f
<1> QED
  BY <1>1 DEF SkillsUi

LEMMA SkillsStep ==
  ASSUME SkillsInv, SK!Next
  PROVE  SkillsInv'
<1>a. ui \in SkillsUi /\ srv \in SkillsSrv /\ OneDialog(ui, srv)
  BY DEF SkillsInv
\* Most steps leave the open version, its files and the reads alone.
<1>b. ASSUME ui' \in SkillsUi, srv' \in SkillsSrv,
             ui'.detail = ui.detail, ui'.files = ui.files, ui'.loading = ui.loading,
             srv'.reads \subseteq srv.reads, srv'.crossed = srv.crossed
      PROVE  SkillsInv'
  BY <1>a, <1>b DEF SkillsInv, OneDialog
<1>c. /\ \A f \in Forms : [ui EXCEPT !.create = f] \in SkillsUi /\ [ui EXCEPT !.nv = f] \in SkillsUi
      /\ ui.create \in Forms /\ ui.nv \in Forms
  BY <1>a DEF SkillsUi
<1>d. ASSUME NEW f \in Forms, srv' = srv,
             ui' = [ui EXCEPT !.create = f] \/ ui' = [ui EXCEPT !.nv = f]
      PROVE  SkillsInv'
  BY <1>a, <1>b, <1>c, <1>d DEF SkillsUi
<1>1. CASE SK!SkillsArrive
  <2> DEFINE l == {SK!Version(s, srv.versions[s]) :
                     s \in {t \in BuiltIn \cup Custom :
                              /\ SK!Exists(t)
                              /\ ui.source = "anthropic" => t \in BuiltIn
                              /\ ui.source = "custom" => t \in Custom}}
  <2>1. ui' = [ui EXCEPT !.fresh = TRUE, !.list = l] /\ srv' = srv
    BY <1>1 DEF SK!SkillsArrive
  <2>2. l \subseteq SkillRows
    BY <1>a DEF SkillsSrv, SkillIds, SkillRows, SK!Version
  <2> HIDE DEF l
  <2> QED
    BY <1>a, <1>b, <2>1, <2>2 DEF SkillsUi
<1>2. CASE SK!Source
  <2>1. PICK s \in {"any", "anthropic", "custom"} :
          ui' = SK!load([ui EXCEPT !.source = s]) /\ srv' = srv
    BY <1>2 DEF SK!Source, SK!Do
  <2> QED
    BY <1>a, <1>b, <2>1 DEF SkillsUi, SK!load
<1>3. CASE SK!deleteSkillById \/ SK!deleteSkill
  <2>1. PICK i \in SkillIds, b \in BOOLEAN :
          srv' = [srv EXCEPT !.deletes = @ \cup {SK!Asked(i, b)}, !.tag = @ + 1]
    <3>1. CASE SK!deleteSkillById
      <4>1. PICK v \in ui.list :
              srv' = [srv EXCEPT !.deletes = @ \cup {SK!Asked(v.id, FALSE)}, !.tag = @ + 1]
        BY <3>1 DEF SK!deleteSkillById
      <4>2. v.id \in SkillIds
        BY <1>a, <4>1 DEF SkillsUi, SkillRows
      <4> QED
        BY <4>1, <4>2
    <3>2. CASE SK!deleteSkill
      <4>1. /\ ui.detail # None
            /\ srv' = [srv EXCEPT !.deletes = @ \cup {SK!Asked(ui.detail.id, TRUE)},
                                  !.tag = @ + 1]
        BY <3>2 DEF SK!deleteSkill
      <4>2. ui.detail.id \in SkillIds
        BY <1>a, <4>1 DEF SkillsUi, SkillRows
      <4> QED
        BY <4>1, <4>2
    <3> QED
      BY <1>3, <3>1, <3>2
  <2>2. ui' = ui
    BY <1>3 DEF SK!deleteSkillById, SK!deleteSkill, SK!Do
  <2>3. SK!Asked(i, b) \in [id : SkillIds, dialog : BOOLEAN, tag : Nat]
    BY <1>a DEF SK!Asked, SkillsSrv
  <2> DEFINE q == srv.deletes \cup {SK!Asked(i, b)}
  <2> DEFINE n == srv.tag + 1
  <2>5. /\ q \in SUBSET [id : SkillIds, dialog : BOOLEAN, tag : Nat] /\ n \in Nat
        /\ srv' = [srv EXCEPT !.deletes = q, !.tag = n]
    BY <1>a, <2>1, <2>3 DEF SkillsSrv
  <2> HIDE DEF q, n
  <2>4. srv' \in SkillsSrv /\ srv'.reads = srv.reads /\ srv'.crossed = srv.crossed
    BY <1>a, <2>5 DEF SkillsSrv
  <2> QED
    BY <1>a, <1>b, <2>2, <2>4
<1>4. CASE SK!OpenCreate \/ SK!CloseCreate \/ SK!doCreate
  <2> DEFINE c == ui.create
  <2>1. /\ srv' = srv
        /\ \/ ui' = [ui EXCEPT !.create = [c EXCEPT !.open = TRUE]]
           \/ ui' = [ui EXCEPT !.create = SK!NoForm]
           \/ ui' = [ui EXCEPT !.create = [[c EXCEPT !.uploading = TRUE] EXCEPT !.error = FALSE]]
    <3>1. CASE SK!OpenCreate
      BY <3>1 DEF SK!OpenCreate, SK!Do
    <3>2. CASE SK!CloseCreate
      BY <3>2 DEF SK!CloseCreate, SK!Do
    <3>3. CASE SK!doCreate
      BY <1>a, <3>3 DEF SK!doCreate, SK!Do, SkillsUi
    <3> QED
      BY <1>4, <3>1, <3>2, <3>3
  <2> HIDE DEF c
  <2> QED
    BY <1>c, <1>d, <2>1, FormsKept DEF c
<1>5. CASE SK!CreateFile
  <2>1. PICK k : /\ srv' = srv
                 /\ \/ ui' = [ui EXCEPT !.create = SK!accept(@, k)]
                    \/ ui' = [ui EXCEPT !.create.zip = FALSE]
    BY <1>5 DEF SK!CreateFile, SK!Do
  <2> QED
    BY <1>c, <1>d, <2>1, FormsKept
<1>6. CASE SK!CreateAnswer
  <2>1. CASE srv' = srv /\ ui' = [ui EXCEPT !.create.uploading = FALSE, !.create.error = TRUE]
    <3> DEFINE g == [[ui.create EXCEPT !.uploading = FALSE] EXCEPT !.error = TRUE]
    <3>1. g \in Forms
      BY <1>c, FormsKept
    <3>2. ui' = [ui EXCEPT !.create = g]
      BY <1>a, <2>1 DEF SkillsUi
    <3> QED
      BY <1>d, <2>1, <3>1, <3>2
  <2>2. CASE \E s \in Custom : /\ srv' = [srv EXCEPT !.versions[s] = 1]
                               /\ ui' = SK!load([ui EXCEPT !.create = SK!NoForm])
    <3>1. srv' \in SkillsSrv /\ srv'.reads = srv.reads /\ srv'.crossed = srv.crossed
      BY <1>a, <2>2 DEF SkillsSrv
    <3> QED
      BY <1>a, <1>b, <2>2, <3>1, FormsKept DEF SkillsUi, SK!load
  <2> QED
    BY <1>6, <2>1, <2>2 DEF SK!CreateAnswer
<1>7. CASE SK!openDetail
  <2>1. PICK v \in ui.list : ui' = SK!Shown(ui, v) /\ srv' = SK!Reading(srv, v)
    BY <1>7 DEF SK!openDetail, SK!Do
  <2>2. v \in SkillRows
    BY <1>a, <2>1 DEF SkillsUi
  <2> QED
    BY <1>a, <2>1, <2>2, ReadingOpens DEF SkillsInv
<1>8. CASE SK!DetailAnswer
  <2>1. PICK r \in srv.reads :
          /\ srv' = [srv EXCEPT !.reads = @ \ {r}]
          /\ \/ ui' = [ui EXCEPT !.files = r.of, !.loading = FALSE]
             \/ ui' = [ui EXCEPT !.files = None, !.loading = FALSE]
    BY <1>8 DEF SK!DetailAnswer
  <2>2. r.of \in SkillRows
    BY <1>a, <2>1 DEF SkillsSrv
  <2>3. ui' \in SkillsUi /\ ui'.files \in {None, r.of} /\ ui'.detail = ui.detail
    BY <1>a, <2>1, <2>2 DEF SkillsUi
  <2>4. /\ srv' \in SkillsSrv /\ srv'.reads \subseteq srv.reads
        /\ srv'.crossed = srv.crossed
    BY <1>a, <2>1 DEF SkillsSrv
  <2> QED
    BY <1>a, <2>1, <2>3, <2>4 DEF SkillsInv, OneDialog
<1>9. CASE SK!closeDetail
  <2>1. ui' = SK!closed(ui) /\ srv' = srv
    BY <1>9 DEF SK!closeDetail, SK!Do
  <2> QED
    BY <1>a, <2>1, ClosedShowsNone DEF SkillsInv, OneDialog
<1>10. CASE SK!Deleted
  <2>1. PICK d \in srv.deletes :
          \/ /\ srv' = [srv EXCEPT !.deletes = @ \ {d}, !.versions[d.id] = 0]
             /\ ui' = SK!load(IF d.dialog THEN SK!closed(ui) ELSE ui)
          \/ srv' = [srv EXCEPT !.deletes = @ \ {d}] /\ ui' = ui
    BY <1>10 DEF SK!Deleted
  <2>2. d.id \in SkillIds
    BY <1>a, <2>1 DEF SkillsSrv
  <2>3. srv' \in SkillsSrv /\ srv'.reads = srv.reads /\ srv'.crossed = srv.crossed
    <3> DEFINE n == [srv.versions EXCEPT ![d.id] = 0]
               q == srv.deletes \ {d}
    <3>1. /\ n \in [SkillIds -> Nat]
          /\ q \in SUBSET [id : SkillIds, dialog : BOOLEAN, tag : Nat]
      BY <1>a DEF SkillsSrv
    <3>2. srv' = [srv EXCEPT !.deletes = q, !.versions = n] \/ srv' = [srv EXCEPT !.deletes = q]
      BY <1>a, <2>1 DEF SkillsSrv
    <3> HIDE DEF n, q
    <3> QED
      BY <1>a, <3>1, <3>2 DEF SkillsSrv
  <2>4. CASE ui' = ui \/ ui' = SK!load(ui)
    BY <1>a, <1>b, <2>3, <2>4 DEF SkillsUi, SK!load
  <2>5. CASE ui' = SK!load(SK!closed(ui))
    <3>1. ui' \in SkillsUi /\ ui'.detail = None
      BY <1>a, <2>5, ClosedShowsNone DEF SkillsUi, SK!load
    <3> QED
      BY <2>3, <3>1 DEF SkillsInv, OneDialog
  <2> QED
    BY <2>1, <2>4, <2>5
<1>11. CASE SK!startNewVersion
  <2>1. /\ srv' = srv
        /\ ui' = [ui EXCEPT !.nv = [SK!NoForm EXCEPT !.open = TRUE,
                                                      !.uploading = ui.nv.uploading]]
    BY <1>11 DEF SK!startNewVersion, SK!Do
  <2> QED
    BY <1>c, <1>d, <2>1, FormsKept
<1>12. CASE SK!NvFile
  <2>1. PICK k : /\ srv' = srv
                 /\ \/ ui' = [ui EXCEPT !.nv = SK!accept(@, k)]
                    \/ ui' = [ui EXCEPT !.nv.zip = FALSE]
                    \/ ui' = [ui EXCEPT !.nv = SK!NoForm]
    BY <1>12 DEF SK!NvFile, SK!Do
  <2> QED
    BY <1>c, <1>d, <2>1, FormsKept
<1>13. CASE SK!doNewVersion
  <2> DEFINE g == [[ui.nv EXCEPT !.error = FALSE] EXCEPT !.uploading = TRUE]
  <2>1. g \in Forms
    BY <1>c, FormsKept
  <2>2. /\ ui.detail # None /\ ui' = [ui EXCEPT !.nv = g]
        /\ srv' = [srv EXCEPT !.uploads = @ \cup {ui.detail.id}]
    BY <1>13, <1>a DEF SK!doNewVersion, SK!Do, SK!Inside, SkillsUi
  <2> HIDE DEF g
  <2>3. ui.detail.id \in SkillIds
    BY <1>a, <2>2 DEF SkillsUi, SkillRows
  <2>4. srv' \in SkillsSrv /\ srv'.reads = srv.reads /\ srv'.crossed = srv.crossed
    BY <1>a, <2>2, <2>3 DEF SkillsSrv
  <2> QED
    BY <1>a, <1>b, <2>1, <2>2, <2>4 DEF SkillsUi
<1>14. CASE SK!Uploaded
  <2> DEFINE g == [[ui.nv EXCEPT !.open = FALSE] EXCEPT !.zip = FALSE]
             h == [[ui.nv EXCEPT !.error = TRUE] EXCEPT !.uploading = FALSE]
  <2>1. g \in Forms /\ h \in Forms
    BY <1>c, FormsKept
  <2>2. PICK s \in srv.uploads :
          \/ /\ srv' = [srv EXCEPT !.uploads = @ \ {s}, !.versions[s] = @ + 1,
                                   !.published = @ \cup {s}]
             /\ ui' = SK!load([ui EXCEPT !.nv = g])
          \/ srv' = [srv EXCEPT !.uploads = @ \ {s}] /\ ui' = [ui EXCEPT !.nv = h]
    BY <1>14, <1>a DEF SK!Uploaded, SkillsUi
  <2> HIDE DEF g, h
  <2>3. s \in SkillIds
    BY <1>a, <2>2 DEF SkillsSrv
  <2>4. srv' \in SkillsSrv /\ srv'.reads = srv.reads /\ srv'.crossed = srv.crossed
    <3> DEFINE n == [srv.versions EXCEPT ![s] = @ + 1]
               q == srv.uploads \ {s}
               r == srv.published \cup {s}
    <3>1. n \in [SkillIds -> Nat] /\ q \in SUBSET SkillIds /\ r \in SUBSET SkillIds
      BY <1>a, <2>3 DEF SkillsSrv
    <3>2. \/ srv' = [srv EXCEPT !.uploads = q, !.versions = n, !.published = r]
          \/ srv' = [srv EXCEPT !.uploads = q]
      BY <1>a, <2>2 DEF SkillsSrv
    <3> HIDE DEF n, q, r
    <3> QED
      BY <1>a, <3>1, <3>2 DEF SkillsSrv
  <2> QED
    BY <1>a, <1>b, <2>1, <2>2, <2>4 DEF SkillsUi, SK!load
<1>15. CASE SK!NvRefreshed
  <2> DEFINE h == [[ui.nv EXCEPT !.error = TRUE] EXCEPT !.uploading = FALSE]
  <2>1. h \in Forms
    BY <1>c, FormsKept
  <2>2. PICK s \in srv.published :
          \/ SK!Exists(s) /\ SK!Refreshed(SK!Version(s, srv.versions[s]))
          \/ srv' = [srv EXCEPT !.published = @ \ {s}] /\ ui' = [ui EXCEPT !.nv = h]
    BY <1>15, <1>a DEF SK!NvRefreshed, SkillsUi
  <2> HIDE DEF h
  <2>3. CASE srv' = [srv EXCEPT !.published = @ \ {s}] /\ ui' = [ui EXCEPT !.nv = h]
    <3>1. srv' \in SkillsSrv /\ srv'.reads = srv.reads /\ srv'.crossed = srv.crossed
      BY <1>a, <2>3 DEF SkillsSrv
    <3> QED
      BY <1>a, <1>b, <2>1, <2>3, <3>1 DEF SkillsUi
  <2>4. CASE SK!Refreshed(SK!Version(s, srv.versions[s]))
    <3> DEFINE v == SK!Version(s, srv.versions[s])
               t == [srv EXCEPT !.published = @ \ {v.id}]
               u == SK!Shown(ui, v)
    <3>1. v \in SkillRows
      BY <1>a, <2>2 DEF SkillsSrv, SkillRows, SK!Version
    <3>2. ui' = [u EXCEPT !.nv.uploading = FALSE] /\ srv' = SK!Reading(t, v)
      BY <2>4 DEF SK!Refreshed
    <3> HIDE DEF v
    <3>3. t \in SkillsSrv
      BY <1>a DEF SkillsSrv
    <3> HIDE DEF t
    <3>4. u \in SkillsUi /\ srv' \in SkillsSrv /\ OneDialog(u, srv')
      BY <1>a, <3>1, <3>2, <3>3, ReadingOpens
    <3> HIDE DEF u
    <3>5. u.nv \in Forms
      BY <3>4 DEF SkillsUi
    <3>6. [u.nv EXCEPT !.uploading = FALSE] \in Forms
      BY <3>5, FormsKept
    <3>7. /\ ui' \in SkillsUi /\ ui'.detail = u.detail /\ ui'.loading = u.loading
          /\ ui'.files = u.files
      BY <3>2, <3>4, <3>6 DEF SkillsUi
    <3> QED
      BY <3>4, <3>7 DEF SkillsInv, OneDialog
  <2> QED
    BY <2>2, <2>3, <2>4
<1> QED
  BY <1>1, <1>2, <1>3, <1>4, <1>5, <1>6, <1>7, <1>8, <1>9, <1>10, <1>11, <1>12, <1>13,
     <1>14, <1>15 DEF SK!Next

\* SkillsList.tsx: the files listed under a version are that version's, also after
\* another was uploaded; unless a second dialog was opened while a first was read.
THEOREM FilesAreOfTheirVersion == Spec => []FilesOfVersion
<1> DEFINE I == route = "skills" => SkillsInv
<1>1. Init => I
  <2> SUFFICES ASSUME Init, route = "skills" PROVE SkillsInv
    OBVIOUS
  <2>1. SK!Init
    BY DEF Init
  <2>2. ui \in SkillsUi /\ ui.detail = None
    BY <2>1 DEF SK!Init, SkillsUi, SK!NoForm, Forms
  <2>3. srv \in SkillsSrv
    BY <2>1 DEF SK!Init, SkillsSrv, SkillIds
  <2> QED
    BY <2>2, <2>3 DEF SkillsInv, OneDialog
<1>2. I /\ [Next]_vars => I'
  <2> SUFFICES ASSUME I, [Next]_vars, route' = "skills" PROVE SkillsInv'
    OBVIOUS
  <2>1. CASE Next
    <3>1. SK!Next /\ SkillsInv
      BY <2>1 DEF Next
    <3> QED
      BY <3>1, SkillsStep
  <2>2. CASE UNCHANGED vars
    BY <2>2 DEF vars, SkillsInv, OneDialog
  <2> QED
    BY <2>1, <2>2
<1>3. I => FilesOfVersion
  BY DEF FilesOfVersion, SK!FilesOfVersion, SK!On, SkillsInv, OneDialog
<1> QED
  BY <1>1, <1>2, <1>3, PTL DEF Spec, vars

-----------------------------------------------------------------------------
(***************************************************************************)
(* The evaluation pages.                                                   *)
(***************************************************************************)
\* A completed run has its reward.
EvalRuns ==
  {r \in [status : EL!Statuses, session : BOOLEAN, reward : {None, "1"}] :
     r.status = "completed" => r.reward = "1"}

EvalTables == UNION {[S -> EvalRuns] : S \in SUBSET Runs}

EvalUi ==
  [page : {"evals"}, view : {"list", "detail"}, id : Runs \cup {None},
   filter : {"any"} \cup EL!Statuses, rows : EvalTables, known : BOOLEAN, call : BOOLEAN,
   poll : BOOLEAN, error : BOOLEAN, open : BOOLEAN,
   trajectory : {"none", "loading", "no reward", "1", "error"}]

\* A row that is shown as finished is so at the server.
RowsAgree(rows, table) ==
  \A r \in DOMAIN rows \cap DOMAIN table :
    rows[r].status \notin EL!Active => rows[r].status = table[r].status

\* The page that does not ask shows nothing unfinished; one run is shown as one row.
PageIsQuiet(u) ==
  /\ ~u.known => DOMAIN u.rows = {}
  /\ ~u.call /\ ~u.poll => ~EL!Interval(u.rows)
  /\ u.view = "detail" /\ u.known => DOMAIN u.rows = {u.id}

EvalInv ==
  /\ ui \in EvalUi /\ srv \in EvalTables
  /\ RowsAgree(ui.rows, srv) /\ PageIsQuiet(ui)

LEMMA Tables ==
  ASSUME NEW f
  PROVE  /\ f \in EvalTables =>
              /\ DOMAIN f \subseteq Runs /\ f \in [DOMAIN f -> EvalRuns]
              /\ \A r \in DOMAIN f : f[r] \in EvalRuns
         /\ DOMAIN f \subseteq Runs /\ f \in [DOMAIN f -> EvalRuns] => f \in EvalTables
BY DEF EvalTables

\* A page that has just been opened.
JustOpened(u) ==
  \E view \in {"list", "detail"}, id \in Runs \cup {None}, s \in {"any"} \cup EL!Statuses :
    u \in {EL!Opened(view, id), [EL!Opened(view, id) EXCEPT !.filter = s]}

LEMMA OpenedIsQuiet ==
  ASSUME NEW u, NEW table, JustOpened(u)
  PROVE  u \in EvalUi /\ RowsAgree(u.rows, table) /\ PageIsQuiet(u)
<1>0. PICK view \in {"list", "detail"}, id \in Runs \cup {None},
           s \in {"any"} \cup EL!Statuses :
        u \in {EL!Opened(view, id), [EL!Opened(view, id) EXCEPT !.filter = s]}
  BY DEF JustOpened
<1> DEFINE none == [r \in {} |-> EL!NewRun]
<1>1. none \in EvalTables /\ DOMAIN none = {}
  BY Tables
<1>2. \E f \in {"any"} \cup EL!Statuses :
        u = [page |-> "evals", view |-> view, id |-> id, filter |-> f, rows |-> none,
             known |-> FALSE, call |-> TRUE, poll |-> FALSE, error |-> FALSE, open |-> FALSE,
             trajectory |-> "none"]
  BY <1>0 DEF EL!Opened
<1> HIDE DEF none
<1>3. u \in EvalUi /\ u.rows = none /\ ~u.known /\ u.call
  BY <1>1, <1>2 DEF EvalUi
<1> QED
  BY <1>1, <1>3 DEF RowsAgree, PageIsQuiet

\* An answer: rows that agree with the server.
LEMMA AnswerIsQuiet ==
  ASSUME EvalInv, NEW rows \in EvalTables, RowsAgree(rows, srv), ui' = EL!Shows(rows),
         ui.view = "detail" => DOMAIN rows = {ui.id}, srv' = srv
  PROVE  EvalInv'
<1> DEFINE b == EL!Interval(rows)
<1>1. b \in BOOLEAN
  BY DEF EL!Interval
<1>2. ui' = [ui EXCEPT !.rows = rows, !.known = TRUE, !.call = FALSE, !.error = FALSE,
                       !.poll = b]
  BY DEF EL!Shows
<1> HIDE DEF b
<1>a. ui \in EvalUi
  BY DEF EvalInv
<1>b. ui' \in EvalUi
  BY <1>a, <1>1, <1>2 DEF EvalUi
<1>c. ui'.rows = rows /\ ui'.known /\ ui'.poll = b
  BY <1>a, <1>2 DEF EvalUi
<1>d. ui'.view = ui.view /\ ui'.id = ui.id
  BY <1>a, <1>2 DEF EvalUi
<1>3. /\ ui' \in EvalUi /\ ui'.rows = rows /\ ui'.known /\ ui'.poll = b
      /\ ui'.view = ui.view /\ ui'.id = ui.id
  BY <1>b, <1>c, <1>d
<1>4. RowsAgree(ui'.rows, srv')
  BY <1>3
<1>5. PageIsQuiet(ui')
  BY <1>3 DEF PageIsQuiet, b
<1> QED
  BY <1>3, <1>4, <1>5 DEF EvalInv, RowsAgree, PageIsQuiet, EL!Interval

LEMMA EvalStep ==
  ASSUME EvalInv, EL!Next
  PROVE  EvalInv'
<1>a. ui \in EvalUi /\ srv \in EvalTables /\ RowsAgree(ui.rows, srv) /\ PageIsQuiet(ui)
  BY DEF EvalInv
<1>b. ui.rows \in EvalTables
  BY <1>a DEF EvalUi
<1>c. ASSUME ui' \in EvalUi, srv' \in EvalTables, RowsAgree(ui'.rows, srv'), PageIsQuiet(ui')
      PROVE  EvalInv'
  BY <1>c DEF EvalInv, RowsAgree, PageIsQuiet, EL!Interval
\* A step that leaves the rows alone, asks or is quiet as before.
<1>d. ASSUME ui' \in EvalUi, ui'.rows = ui.rows, ui'.known = ui.known, ui'.view = ui.view,
             ui'.id = ui.id, ~ui'.call /\ ~ui'.poll => ~EL!Interval(ui.rows),
             srv' \in EvalTables, RowsAgree(ui.rows, srv')
      PROVE  EvalInv'
  BY <1>a, <1>c, <1>d DEF PageIsQuiet
\* A row that goes takes nothing from the agreement.
<1>e. ASSUME NEW r PROVE EL!Without(r) \in EvalTables /\ RowsAgree(ui.rows, EL!Without(r))
  <2>1. /\ DOMAIN EL!Without(r) \subseteq DOMAIN srv
        /\ \A x \in DOMAIN EL!Without(r) : EL!Without(r)[x] = srv[x]
        /\ EL!Without(r) \in [DOMAIN EL!Without(r) -> EvalRuns]
    BY <1>a, Tables DEF EL!Without
  <2> QED
    BY <1>a, <2>1, Tables DEF RowsAgree
<1>1. CASE EL!Advance
  <2>1. PICK r \in DOMAIN srv :
          \/ /\ srv[r].status = "pending"
             /\ srv' = [srv EXCEPT ![r].status = "running", ![r].session = TRUE]
          \/ /\ srv[r].status = "running"
             /\ \/ srv' = [srv EXCEPT ![r].status = "completed", ![r].reward = "1"]
                \/ srv' = [srv EXCEPT ![r].status = "failed"]
    BY <1>1 DEF EL!Advance
  <2> DEFINE x == srv[r]
             y == srv'[r]
  <2>2. x \in EvalRuns /\ x.status \in EL!Active
    BY <1>a, <2>1, Tables DEF EL!Active
  <2>3. \/ srv' = [srv EXCEPT ![r] = [x EXCEPT !.status = "running", !.session = TRUE]]
        \/ srv' = [srv EXCEPT ![r] = [x EXCEPT !.status = "completed", !.reward = "1"]]
        \/ srv' = [srv EXCEPT ![r] = [x EXCEPT !.status = "failed"]]
    BY <2>1
  <2> HIDE DEF x
  <2>4. PICK n \in EvalRuns : srv' = [srv EXCEPT ![r] = n]
    BY <2>2, <2>3 DEF EvalRuns, EL!Statuses
  <2>5. srv' \in EvalTables /\ DOMAIN srv' = DOMAIN srv
    <3>1. srv \in [DOMAIN srv -> EvalRuns] /\ DOMAIN srv \subseteq Runs
      BY <1>a, Tables
    <3>2. srv' \in [DOMAIN srv -> EvalRuns] /\ DOMAIN srv' = DOMAIN srv
      BY <2>4, <3>1
    <3> QED
      BY <3>1, <3>2, Tables
  <2>6. RowsAgree(ui.rows, srv')
    BY <1>a, <2>2, <2>4, <2>5 DEF RowsAgree, x
  <2>7. ui' = ui
    BY <1>1 DEF EL!Advance
  <2> QED
    BY <1>a, <1>d, <2>5, <2>6, <2>7 DEF PageIsQuiet
<1>2. CASE EL!RunsAnswer
  <2> DEFINE rows == EL!List(ui.filter)
  <2>1. /\ DOMAIN rows \subseteq DOMAIN srv /\ rows \in [DOMAIN rows -> EvalRuns]
        /\ \A r \in DOMAIN rows : rows[r] = srv[r]
    BY <1>a, Tables DEF EL!List
  <2>2. ui' = EL!Shows(rows) /\ srv' = srv /\ ui.view = "list"
    BY <1>2 DEF EL!RunsAnswer, EL!See, EL!AtView
  <2> HIDE DEF rows
  <2>3. rows \in EvalTables /\ RowsAgree(rows, srv)
    BY <1>a, <2>1, Tables DEF RowsAgree
  <2> QED
    BY <2>2, <2>3, AnswerIsQuiet
<1>3. CASE EL!RunAnswer
  <2> DEFINE rows == [r \in {ui.id} |-> srv[r]]
  <2>1. ui' = EL!Shows(rows) /\ srv' = srv /\ ui.id \in DOMAIN srv
    BY <1>3 DEF EL!RunAnswer, EL!See
  <2>2. rows \in EvalTables /\ RowsAgree(rows, srv) /\ DOMAIN rows = {ui.id}
    BY <1>a, <2>1, Tables DEF RowsAgree
  <2> HIDE DEF rows
  <2> QED
    BY <2>1, <2>2, AnswerIsQuiet
<1>4. CASE EL!LoadFails
  <2> DEFINE b == ui.known /\ EL!Interval(ui.rows)
  <2>1. ui' = [ui EXCEPT !.call = FALSE, !.error = TRUE, !.poll = b] /\ srv' = srv
    BY <1>4 DEF EL!LoadFails, EL!Do
  <2>2. b \in BOOLEAN
    BY <1>a DEF EvalUi, EL!Interval
  <2>3. ~b => ~EL!Interval(ui.rows)
    BY <1>a DEF PageIsQuiet, EL!Interval, EvalUi
  <2> HIDE DEF b
  <2>4. /\ ui' \in EvalUi /\ ui'.rows = ui.rows /\ ui'.known = ui.known
        /\ ui'.view = ui.view /\ ui'.id = ui.id /\ ui'.poll = b
    BY <1>a, <2>1, <2>2 DEF EvalUi
  <2> QED
    BY <1>a, <1>d, <2>1, <2>3, <2>4
<1>5. CASE EL!Tick
  <2>1. ui' = [ui EXCEPT !.call = TRUE, !.poll = FALSE] /\ srv' = srv
    BY <1>5 DEF EL!Tick, EL!See
  <2> QED
    BY <1>a, <1>d, <2>1 DEF EvalUi
<1>6. CASE EL!StatusFilter \/ EL!OpenRun \/ EL!BackToList
  <2>1. JustOpened(ui')
    <3>1. CASE EL!StatusFilter
      BY <3>1 DEF EL!StatusFilter, EL!Do, JustOpened
    <3>2. CASE EL!OpenRun
      BY <1>b, <3>2, Tables DEF EL!OpenRun, EL!Do, JustOpened
    <3>3. CASE EL!BackToList
      BY <3>3 DEF EL!BackToList, EL!Do, JustOpened
    <3> QED
      BY <1>6, <3>1, <3>2, <3>3
  <2>2. srv' = srv
    BY <1>6 DEF EL!StatusFilter, EL!OpenRun, EL!BackToList
  <2>3. ui' \in EvalUi /\ RowsAgree(ui'.rows, srv') /\ PageIsQuiet(ui')
    BY <2>1, OpenedIsQuiet
  <2> QED
    BY <1>a, <1>c, <2>2, <2>3
<1>7. CASE EL!CancelRun \/ EL!DeleteRun
  <2>1. PICK r : ui' = EL!Refetch(ui) /\ srv' = EL!Without(r)
    BY <1>7 DEF EL!CancelRun, EL!DeleteRun, EL!Do
  <2>2. /\ ui' \in EvalUi /\ ui'.rows = ui.rows /\ ui'.known = ui.known
        /\ ui'.view = ui.view /\ ui'.id = ui.id /\ ui'.call
    BY <1>a, <2>1 DEF EvalUi, EL!Refetch
  <2> QED
    BY <1>d, <1>e, <2>1, <2>2
<1>8. CASE EL!toggleExpand \/ EL!fetchTrajectory
  <2>1. srv' = srv
    BY <1>8 DEF EL!toggleExpand, EL!fetchTrajectory
  <2> DEFINE T == {"none", "loading", "no reward", "1", "error"}
  <2>2. PICK b \in BOOLEAN, t \in T :
          ui' = [ui EXCEPT !.open = b, !.trajectory = t] \/ ui' = [ui EXCEPT !.trajectory = t]
    <3>1. CASE EL!toggleExpand
      <4> DEFINE t == IF ui.trajectory = "none" /\ EL!Shown.session THEN "loading"
                      ELSE ui.trajectory
                 b == ~ui.open
      <4>1. t \in {"none", "loading", "no reward", "1", "error"} /\ b \in BOOLEAN
        BY <1>a DEF EvalUi
      <4>2. ui' = [ui EXCEPT !.open = b, !.trajectory = t]
        BY <1>a, <3>1 DEF EL!toggleExpand, EL!Do, EvalUi
      <4> QED
        BY <4>1, <4>2
    <3>2. CASE EL!fetchTrajectory
      BY <3>2 DEF EL!fetchTrajectory, EL!See
    <3> QED
      BY <1>8, <3>1, <3>2
  <2>4. ui' \in EvalUi
    <3>1. CASE ui' = [ui EXCEPT !.open = b, !.trajectory = t]
      BY <1>a, <3>1 DEF EvalUi
    <3>2. CASE ui' = [ui EXCEPT !.trajectory = t]
      BY <1>a, <3>2 DEF EvalUi
    <3> QED
      BY <2>2, <3>1, <3>2
  <2>5. /\ ui'.rows = ui.rows /\ ui'.known = ui.known /\ ui'.view = ui.view
        /\ ui'.id = ui.id /\ ui'.call = ui.call /\ ui'.poll = ui.poll
    BY <1>a, <2>2 DEF EvalUi
  <2>3. /\ ui' \in EvalUi /\ ui'.rows = ui.rows /\ ui'.known = ui.known
        /\ ui'.view = ui.view /\ ui'.id = ui.id /\ ui'.call = ui.call /\ ui'.poll = ui.poll
    BY <2>4, <2>5
  <2> QED
    BY <1>a, <1>d, <2>1, <2>3 DEF PageIsQuiet
<1> QED
  BY <1>1, <1>2, <1>3, <1>4, <1>5, <1>6, <1>7, <1>8 DEF EL!Next

\* EvalRunDetail.tsx "auto-poll while the run is unfinished": a page that has stopped
\* asking shows the state the server has, and a completed run shows its reward.
THEOREM QuietPagesAreFinal == Spec => []ShownIsFinal
<1> DEFINE I == route = "evals" => EvalInv
<1>1. Init => I
  <2> SUFFICES ASSUME Init, route = "evals" PROVE EvalInv
    OBVIOUS
  <2>1. srv = [r \in Runs |-> EL!NewRun] /\ ui = EL!Opened("list", None)
    BY DEF Init, EL!Init
  <2>2. srv \in EvalTables
    <3>1. EL!NewRun \in EvalRuns
      BY DEF EL!NewRun, EvalRuns, EL!Statuses
    <3> QED
      BY <2>1, <3>1, Tables
  <2> QED
    BY <2>1, <2>2, OpenedIsQuiet DEF EvalInv, JustOpened
<1>2. I /\ [Next]_vars => I'
  <2> SUFFICES ASSUME I, [Next]_vars, route' = "evals" PROVE EvalInv'
    OBVIOUS
  <2>1. CASE Next
    <3>1. EL!Next /\ EvalInv
      BY <2>1 DEF Next
    <3> QED
      BY <3>1, EvalStep
  <2>2. CASE UNCHANGED vars
    BY <2>2 DEF vars, EvalInv, RowsAgree, PageIsQuiet, EL!Interval
  <2> QED
    BY <2>1, <2>2
<1>3. I => ShownIsFinal
  <2> SUFFICES ASSUME EvalInv, ~ui.call, ~ui.poll
               PROVE  /\ \A r \in DOMAIN ui.rows \cap DOMAIN srv :
                           ui.rows[r].status = srv[r].status
                      /\ EL!Rendered /\ EL!Shown.status = "completed"
                           => EL!TrialReward(ui.trajectory, EL!Shown.reward) \in {"1", "loading"}
    BY DEF ShownIsFinal, EL!ShownIsFinal
  <2>1. ui.rows \in EvalTables /\ ui.trajectory \in {"none", "loading", "no reward", "1", "error"}
    BY DEF EvalInv, EvalUi
  <2>2. \A r \in DOMAIN ui.rows : ui.rows[r].status \notin EL!Active
    BY DEF EvalInv, PageIsQuiet, EL!Interval
  <2>3. ASSUME EL!Rendered, EL!Shown.status = "completed" PROVE EL!Shown.reward = "1"
    <3>1. ui.id \in DOMAIN ui.rows
      BY <2>3 DEF EvalInv, PageIsQuiet, EL!Rendered, EL!AtView
    <3>2. ui.rows[ui.id] \in EvalRuns
      BY <2>1, <3>1, Tables
    <3> QED
      BY <2>3, <3>2 DEF EL!Shown, EvalRuns
  <2>4. EL!TrialReward(ui.trajectory, "1") \in {"1", "loading"}
    BY <2>1, RewardAssumption DEF EL!TrialReward
  <2> QED
    BY <2>2, <2>3, <2>4 DEF EvalInv, RowsAgree
<1> QED
  BY <1>1, <1>2, <1>3, PTL DEF Spec, vars

-----------------------------------------------------------------------------
(***************************************************************************)
(* The integration workspaces.                                             *)
(***************************************************************************)
\* What the argument needs of the rows of the server: one that has been taken down
\* says so.
IsRow(row) ==
  /\ DOMAIN row = {"status", "gone", "inst", "caps", "name"}
  /\ row.gone => row.status = "unpublished"

PublicationRows(s) ==
  /\ DOMAIN s = {"pubs", "submit", "oauth", "creds", "installs", "rules"}
  /\ DOMAIN s.pubs = Pubs /\ \A p \in Pubs : IsRow(s.pubs[p])

LEMMA RowReplaced ==
  ASSUME NEW s, PublicationRows(s), NEW p, NEW row, p \in Pubs => IsRow(row),
         NEW t, DOMAIN t = DOMAIN s, t.pubs = [s.pubs EXCEPT ![p] = row]
  PROVE  PublicationRows(t)
BY DEF PublicationRows

LEMMA RowsKept ==
  ASSUME NEW s, PublicationRows(s), NEW t, DOMAIN t = DOMAIN s, t.pubs = s.pubs
  PROVE  PublicationRows(t)
BY DEF PublicationRows

LEMMA RowTakenDown ==
  ASSUME PublicationRows(srv), NEW p
  PROVE  PublicationRows(WP!MarkUnpublished(p))
<1> DEFINE row == [[srv.pubs[p] EXCEPT !.status = "unpublished"] EXCEPT !.gone = TRUE]
           rows == [srv.pubs EXCEPT ![p] = row]
           t == WP!MarkUnpublished(p)
<1>1. p \in Pubs => IsRow(row)
  BY DEF PublicationRows, IsRow
<1>2. t = [srv EXCEPT !.pubs = rows]
  BY DEF PublicationRows, WP!MarkUnpublished
<1> HIDE DEF row, t
<1>3. DOMAIN t = DOMAIN srv /\ t.pubs = rows
  BY <1>2 DEF PublicationRows
<1> QED
  BY <1>1, <1>3, RowReplaced DEF t

\* The provider's callback leaves a row that was taken down as it is.
LEMMA BindingKeeps ==
  ASSUME PublicationRows(srv), NEW p, WP!BindPublication(p)
  PROVE  PublicationRows(srv')
<1> DEFINE old == srv.pubs[p]
           row == IF old.gone THEN old ELSE [old EXCEPT !.status = "live", !.inst = p]
           rows == [srv.pubs EXCEPT ![p] = row]
           keys == [srv.oauth EXCEPT ![p] = None]
<1>1. p \in Pubs => IsRow(row)
  BY DEF PublicationRows, IsRow
<1>2. srv' = [srv EXCEPT !.oauth = keys, !.pubs = rows]
  BY DEF PublicationRows, WP!BindPublication
<1> HIDE DEF row, keys
<1>3. DOMAIN srv' = DOMAIN srv /\ srv'.pubs = rows
  BY <1>2 DEF PublicationRows
<1> QED
  BY <1>1, <1>3, RowReplaced

\* So do credentials that are stored late.
LEMMA CredentialsKeep ==
  ASSUME PublicationRows(srv), NEW p, WP!SetPublicationCredentials(p)
  PROVE  PublicationRows(srv')
<1> DEFINE old == srv.pubs[p]
           row == IF old.gone THEN old ELSE [old EXCEPT !.status = "awaiting_install"]
           rows == [srv.pubs EXCEPT ![p] = row]
           sub == [srv.submit EXCEPT ![p] = FALSE]
           creds == srv.creds \cup {p}
<1>1. p \in Pubs => IsRow(row)
  BY DEF PublicationRows, IsRow
<1>2. srv' = [srv EXCEPT !.submit = sub, !.creds = creds, !.pubs = rows]
  BY DEF PublicationRows, WP!SetPublicationCredentials
<1> HIDE DEF row, sub, creds
<1>3. DOMAIN srv' = DOMAIN srv /\ srv'.pubs = rows
  BY <1>2 DEF PublicationRows
<1> QED
  BY <1>1, <1>3, RowReplaced

\* A card changes the persona or the capabilities only.
LEMMA CardKeeps ==
  ASSUME PublicationRows(srv), NEW p, NEW x
  PROVE  PublicationRows(WP!UpdatePersona(p, x)) /\ PublicationRows(WP!UpdateCapabilities(p, x))
<1> DEFINE r1 == [srv.pubs[p] EXCEPT !.name = x]
           r2 == [srv.pubs[p] EXCEPT !.caps = x]
           f1 == [srv.pubs EXCEPT ![p] = r1]
           f2 == [srv.pubs EXCEPT ![p] = r2]
           t1 == WP!UpdatePersona(p, x)
           t2 == WP!UpdateCapabilities(p, x)
<1>1. p \in Pubs => IsRow(r1) /\ IsRow(r2)
  BY DEF PublicationRows, IsRow
<1>2. t1 = [srv EXCEPT !.pubs = f1] /\ t2 = [srv EXCEPT !.pubs = f2]
  BY DEF WP!UpdatePersona, WP!UpdateCapabilities
<1> HIDE DEF r1, r2, t1, t2
<1>3. /\ DOMAIN t1 = DOMAIN srv /\ t1.pubs = f1
      /\ DOMAIN t2 = DOMAIN srv /\ t2.pubs = f2
  BY <1>2 DEF PublicationRows
<1>4. PublicationRows(t1)
  BY <1>1, <1>3, RowReplaced
<1>5. PublicationRows(t2)
  BY <1>1, <1>3, RowReplaced
<1> QED
  BY <1>4, <1>5 DEF t1, t2

LEMMA WorkspaceStep ==
  ASSUME PublicationRows(srv), WP!Next
  PROVE  PublicationRows(srv')
<1>1. CASE WP!SubmitCredentials
  <2>1. PICK p \in Pubs : srv' = [srv EXCEPT !.submit[p] = TRUE]
    BY <1>1 DEF WP!SubmitCredentials
  <2> QED
    BY <2>1, RowsKept DEF PublicationRows
<1>2. CASE WP!CredentialsStored
  BY <1>2, CredentialsKeep DEF WP!CredentialsStored
<1>3. CASE WP!CompleteOAuth
  <2>1. PICK p \in Pubs :
          \/ srv' = [srv EXCEPT !.oauth[p] = "exchanging"]
          \/ srv' = [srv EXCEPT !.oauth[p] = "installed", !.installs = @ \cup {p}]
          \/ WP!BindPublication(p)
    BY <1>3 DEF WP!CompleteOAuth
  <2>2. CASE WP!BindPublication(p)
    BY <2>2, BindingKeeps
  <2>3. CASE \/ srv' = [srv EXCEPT !.oauth[p] = "exchanging"]
             \/ srv' = [srv EXCEPT !.oauth[p] = "installed", !.installs = @ \cup {p}]
    <3> DEFINE k1 == [srv.oauth EXCEPT ![p] = "exchanging"]
               k2 == [srv.oauth EXCEPT ![p] = "installed"]
               q == srv.installs \cup {p}
    <3>1. srv' = [srv EXCEPT !.oauth = k1] \/ srv' = [srv EXCEPT !.oauth = k2, !.installs = q]
      BY <2>3
    <3> HIDE DEF k1, k2, q
    <3>2. DOMAIN srv' = DOMAIN srv /\ srv'.pubs = srv.pubs
      BY <3>1 DEF PublicationRows
    <3> QED
      BY <3>2, RowsKept
  <2> QED
    BY <2>1, <2>2, <2>3
<1>4. CASE WP!discardPending
  BY <1>4, RowTakenDown DEF WP!discardPending
<1>5. CASE WP!unpublish
  BY <1>5, RowTakenDown DEF WP!unpublish
<1>6. CASE WP!SaveAnswer
  <2>1. \/ \E x : srv' \in {WP!UpdatePersona(ui.id, x), WP!UpdateCapabilities(ui.id, x)}
        \/ srv' = srv
    BY <1>6 DEF WP!SaveAnswer
  <2> QED
    BY <2>1, CardKeeps
\* The other steps of the page touch no publication.
<1>7. CASE WP!ToggleRule \/ WP!RemoveRule \/ WP!CreateRule
  <2>1. srv' = srv \/ \E f : srv' = [srv EXCEPT !.rules = f]
    <3>1. CASE WP!ToggleRule
      BY <3>1 DEF WP!ToggleRule
    <3>2. CASE WP!RemoveRule
      BY <3>2 DEF WP!RemoveRule
    <3>3. CASE WP!CreateRule
      BY <3>3 DEF WP!CreateRule, WP!createDispatchRule
    <3> QED
      BY <1>7, <3>1, <3>2, <3>3
  <2> QED
    BY <2>1, RowsKept DEF PublicationRows
<1>8. CASE \/ WP!ListRead \/ WP!PublicationsRead \/ WP!Manage \/ WP!BackToList
           \/ WP!WorkspaceRead \/ WP!WorkspaceShown \/ WP!EditCard \/ WP!toggleCap
           \/ WP!PersonaFields \/ WP!save \/ WP!AddRule \/ WP!RuleFields
           \/ WP!InstallViaPat \/ WP!PatFields \/ WP!handleSubmit \/ WP!PersonalTokenRemoved
  <2>1. srv' = srv
    BY <1>8 DEF WP!ListRead, WP!PublicationsRead, WP!Manage, WP!BackToList,
       WP!WorkspaceRead, WP!WorkspaceShown, WP!EditCard, WP!toggleCap, WP!PersonaFields,
       WP!save, WP!AddRule, WP!RuleFields, WP!InstallViaPat, WP!PatFields,
       WP!handleSubmit, WP!PersonalTokenRemoved
  <2> QED
    BY <2>1
<1> QED
  BY <1>1, <1>2, <1>3, <1>4, <1>5, <1>6, <1>7, <1>8 DEF WP!Next

\* bridge.go "publication is unpublished": an install that was discarded, or an agent
\* that was taken down, stays so, whatever credentials or callbacks come afterwards.
THEOREM TakenDownStaysDown == Spec => []UnpublishedStays
<1> DEFINE I == route = "workspace" => PublicationRows(srv)
<1>1. Init => I
  BY DEF Init, WP!Init, PublicationRows, IsRow
<1>2. I /\ [Next]_vars => I'
  <2> SUFFICES ASSUME I, [Next]_vars, route' = "workspace" PROVE PublicationRows(srv')
    BY DEF PublicationRows, IsRow
  <2>1. CASE Next
    <3>1. WP!Next /\ PublicationRows(srv)
      BY <2>1 DEF Next
    <3> QED
      BY <3>1, WorkspaceStep
  <2>2. CASE UNCHANGED vars
    BY <2>2 DEF vars
  <2> QED
    BY <2>1, <2>2
<1>3. I => UnpublishedStays
  BY DEF UnpublishedStays, WP!UnpublishedStays, PublicationRows, IsRow
<1> QED
  BY <1>1, <1>2, <1>3, PTL DEF Spec, vars

-----------------------------------------------------------------------------
(***************************************************************************)
(* The team panel.                                                         *)
(***************************************************************************)
\* A mailbox without a message twice.
Boxes == {s \in Seq(Nat) : \A i, j \in DOMAIN s : s[i] = s[j] => i = j}

SentIn(box) == UNION {{box[t][i] : i \in DOMAIN box[t]} : t \in Teams}

\* The messages of a session are numbered as they are sent.
Numbered(box) == box \in [Teams -> Boxes] /\ \E k \in Nat : SentIn(box) = 1..k

Entries == [kind : {"team_created", "message", "shutdown", "shutting_down"}, t : Teams, n : Nat]

TeamRows(s) ==
  /\ DOMAIN s = {"status", "box", "task", "log"} /\ DOMAIN s.status = Teams
  /\ Numbered(s.box) /\ s.log \in Seq(Entries)

CallOk(c) == {"t", "list"} \subseteq DOMAIN c /\ c.t \in Teams /\ c.list \in Boxes \cup {None}

\* Whatever is shown or on its way was a mailbox of the server's.
TeamShown(u) ==
  /\ {"page", "read", "teams", "asks", "box", "calls", "selected", "view", "task", "polls",
      "busy"} = DOMAIN u
  /\ u.page = "team" /\ u.read \in Nat
  /\ DOMAIN u.teams \subseteq Teams /\ u.selected \in Teams \cup {None}
  /\ \A t \in DOMAIN u.box : u.box[t] \in Boxes
  /\ \A c \in u.calls : CallOk(c)

TeamInv == TeamShown(ui) /\ TeamRows(srv)

LEMMA BoxAppended ==
  ASSUME NEW s \in Boxes, NEW n \in Nat, \A i \in DOMAIN s : s[i] # n
  PROVE  Append(s, n) \in Boxes
<1>1. s \in Seq(Nat)
  BY DEF Boxes
<1>2. /\ Append(s, n) \in Seq(Nat) /\ DOMAIN Append(s, n) = 1..Len(s) + 1
      /\ Append(s, n)[Len(s) + 1] = n /\ DOMAIN s = 1..Len(s) /\ Len(s) \in Nat
      /\ \A i \in 1..Len(s) : Append(s, n)[i] = s[i]
  BY <1>1, AppendProperties, LenProperties
<1> DEFINE a == Append(s, n)
<1>3. ASSUME NEW i \in DOMAIN a, NEW j \in DOMAIN a, a[i] = a[j] PROVE i = j
  <2>1. /\ i \in 1..Len(s) \/ i = Len(s) + 1
        /\ j \in 1..Len(s) \/ j = Len(s) + 1
    BY <1>2
  <2>2. CASE i \in 1..Len(s) /\ j \in 1..Len(s)
    BY <1>2, <1>3, <2>2 DEF Boxes
  <2> QED
    BY <1>2, <1>3, <2>1, <2>2
<1> HIDE DEF a
<1>4. a \in Seq(Nat)
  BY <1>2 DEF a
<1>5. a \in Boxes
  BY <1>3, <1>4 DEF Boxes
<1> QED
  BY <1>5 DEF a

LEMMA EmptyBox == <<>> \in Boxes
BY DEF Boxes

\* A message that is sent gets a number of its own.
LEMMA MessageNumbered ==
  ASSUME NEW box, Numbered(box), NEW t \in Teams, NEW n, n = Cardinality(SentIn(box)) + 1
  PROVE  n \in Nat /\ Numbered([box EXCEPT ![t] = Append(@, n)])
<1>1. PICK k \in Nat : SentIn(box) = 1..k
  BY DEF Numbered
<1>2. n = k + 1 /\ n \in Nat
  <2>1. Cardinality(1..k) = k
    BY FS_Interval
  <2> QED
    BY <1>1, <2>1
<1>3. \A i \in DOMAIN box[t] : box[t][i] # n
  BY <1>1, <1>2 DEF SentIn
<1> DEFINE b == [box EXCEPT ![t] = Append(@, n)]
           s == box[t]
<1>4. s \in Boxes /\ s \in Seq(Nat)
  BY DEF Numbered, Boxes
<1>5. Append(s, n) \in Boxes
  BY <1>2, <1>3, <1>4, BoxAppended
<1>6. b \in [Teams -> Boxes]
  BY <1>5 DEF Numbered
<1>7. SentIn(b) = 1..n
  <2>1. /\ DOMAIN Append(s, n) = (DOMAIN s) \cup {Len(s) + 1} /\ Append(s, n)[Len(s) + 1] = n
        /\ \A i \in DOMAIN s : Append(s, n)[i] = s[i]
    BY <1>2, <1>4, AppendProperties, LenProperties
  <2> DEFINE a == Append(s, n)
  <2>2. b[t] = a /\ \A x \in Teams : x # t => b[x] = box[x]
    BY DEF Numbered
  <2> HIDE DEF a
  <2>3. \A m : m \in SentIn(b) => m \in SentIn(box) \cup {n}
    BY <2>1, <2>2 DEF SentIn, a
  <2>5. \A m \in SentIn(box) : m \in SentIn(b)
    BY <2>1, <2>2 DEF SentIn, a
  <2>6. n \in SentIn(b)
    BY <2>1, <2>2 DEF SentIn, a
  <2>4. SentIn(b) = SentIn(box) \cup {n}
    BY <2>3, <2>5, <2>6
  <2> HIDE DEF b
  <2>7. (1..k) \cup {k + 1} = 1..k + 1
    OBVIOUS
  <2> QED
    BY <1>1, <1>2, <2>4, <2>7
<1> QED
  BY <1>2, <1>6, <1>7 DEF Numbered

\* The instance counts as FiniteSets does.
LEMMA SameCount == \A S : TP!Cardinality(S) = Cardinality(S)
BY Zenon DEF TP!Cardinality, Cardinality, IsFiniteSet, TP!IsFiniteSet

LEMMA SentIsCounted ==
  TP!Sent = SentIn(srv.box) /\ TP!Cardinality(TP!Sent) = Cardinality(SentIn(srv.box))
BY SameCount DEF TP!Sent, SentIn

LEMMA LeastTeam ==
  ASSUME NEW T \in SUBSET Teams, T # {}
  PROVE  (CHOOSE t \in T : \A x \in T : t <= x) \in T
<1>1. T \subseteq Nat
  BY ConsoleAssumption
<1>2. PICK m \in T : TRUE
  OBVIOUS
<1> DEFINE R == StrictSubsetOrdering(1..m)
           F == {1..x : x \in {y \in T : y <= m}}
<1>4. IsWellFoundedOn(R, SUBSET (1..m))
  <2>1. IsFiniteSet(1..m)
    BY <1>1, <1>2, FS_Interval
  <2> QED
    BY <2>1, FS_FiniteSubsetsOfFinite, FS_StrictSubsetOrderingWellFounded
<1>5. F \subseteq SUBSET (1..m) /\ F # {}
  BY <1>1, <1>2
<1>6. PICK A \in F : \A B \in F : ~(<<B, A>> \in R)
  <2> HIDE DEF R, F
  <2> QED
    BY <1>4, <1>5, WFMin
<1>7. PICK t \in T : t <= m /\ A = 1..t
  BY <1>6
<1>8. ASSUME NEW x \in T, x < t PROVE FALSE
  <2>1. 1..x \in F
    BY <1>1, <1>2, <1>7, <1>8
  <2>2. 1..x \in SUBSET (1..m) /\ A \in SUBSET (1..m) /\ 1..x \subseteq A
    BY <1>1, <1>2, <1>7, <1>8
  <2>3. t \in A /\ t \notin 1..x
    BY <1>1, <1>7, <1>8
  <2>4. <<1..x, A>> \in R
    BY <2>2, <2>3 DEF StrictSubsetOrdering
  <2> QED
    BY <1>6, <2>1, <2>4
<1>3. \A x \in T : t <= x
  BY <1>1, <1>7, <1>8
<1> QED
  BY <1>3

\* The request for a mailbox is about a team.
LEMMA LoadsTeam ==
  ASSUME NEW u, TeamShown(u), NEW t \in Teams
  PROVE  TeamShown(TP!Load(u, t))
<1> DEFINE c == [t |-> t, list |-> None, after |-> TP!Cardinality(u.calls)]
           q == IF TP!Cardinality(u.calls) < MaxRequests THEN u.calls \cup {c} ELSE u.calls
<1>1. CallOk(c)
  BY DEF CallOk
<1>2. \A x \in q : CallOk(x)
  BY <1>1 DEF TeamShown
<1>3. TP!Load(u, t) = [u EXCEPT !.calls = q]
  BY DEF TP!Load
<1> HIDE DEF q
<1>4. TeamShown([u EXCEPT !.calls = q])
  BY <1>2 DEF TeamShown
<1> QED
  BY <1>3, <1>4

LEMMA SettlesTeam ==
  ASSUME NEW u, TeamShown(u)
  PROVE  TeamShown(TP!Settle(u))
<1> DEFINE t == TP!Selected(DOMAIN u.teams, u.selected)
           s == [u EXCEPT !.selected = t]
<1>1. t \in Teams \cup {None} /\ (t # None => t \in Teams)
  BY LeastTeam DEF TP!Selected, TeamShown
<1> HIDE DEF t
<1>2. TeamShown(s)
  BY <1>1 DEF TeamShown
<1>3. TP!Settle(u) \in {s} \cup {TP!Load(s, x) : x \in Teams}
  BY <1>1 DEF TP!Settle, t
<1> HIDE DEF s
<1> QED
  BY <1>2, <1>3, LoadsTeam

\* An event or an answer leaves each mailbox without a message twice.
LEMMA WithBoxOk ==
  ASSUME TeamShown(ui), NEW t, NEW box \in Boxes
  PROVE  \A x \in DOMAIN TP!WithBox(t, box) : TP!WithBox(t, box)[x] \in Boxes
BY DEF TP!WithBox, TeamShown

LEMMA MessageAppended ==
  ASSUME TeamShown(ui), NEW t, NEW n \in Nat
  PROVE  TeamShown(TP!AppendMessage(t, n))
<1>1. TP!MailboxOf(t) \in Boxes
  BY EmptyBox DEF TP!MailboxOf, TeamShown
<1>2. CASE \E i \in DOMAIN TP!MailboxOf(t) : TP!MailboxOf(t)[i] = n
  BY <1>2 DEF TP!AppendMessage
<1>3. CASE \A i \in DOMAIN TP!MailboxOf(t) : TP!MailboxOf(t)[i] # n
  <2> DEFINE b == Append(TP!MailboxOf(t), n)
             f == TP!WithBox(t, b)
  <2>1. b \in Boxes
    BY <1>1, <1>3, BoxAppended
  <2>2. TP!AppendMessage(t, n) = [ui EXCEPT !.box = f]
    BY <1>3 DEF TP!AppendMessage
  <2> HIDE DEF b
  <2>3. \A x \in DOMAIN f : f[x] \in Boxes
    BY <2>1, WithBoxOk
  <2> HIDE DEF f
  <2> QED
    BY <2>2, <2>3 DEF TeamShown
<1> QED
  BY <1>2, <1>3

LEMMA TeamStep ==
  ASSUME TeamInv, TP!Next
  PROVE  TeamInv'
<1>a. TeamShown(ui) /\ TeamRows(srv)
  BY DEF TeamInv
<1>b. ASSUME TeamShown(ui'), TeamRows(srv') PROVE TeamInv'
  BY <1>b DEF TeamInv, TeamShown, TeamRows, CallOk
<1>c. TP!Made \subseteq Teams
  BY DEF TP!Made
\* The server's side of a message.
<1>d. ASSUME NEW t \in Teams, NEW n, n = Cardinality(SentIn(srv.box)) + 1, NEW s,
             DOMAIN s = DOMAIN srv, DOMAIN s.status = Teams, s.log \in Seq(Entries),
             s.box = [srv.box EXCEPT ![t] = Append(@, n)]
      PROVE  TeamRows(s)
  BY <1>a, <1>d, MessageNumbered DEF TeamRows
<1>1. CASE TP!CreateTeam
  <2>1. PICK t \in Teams :
          srv' = [srv EXCEPT !.status[t] = "active",
                             !.log = Append(@, TP!Event("team_created", t, 0))]
    BY <1>1 DEF TP!CreateTeam
  <2> DEFINE st == [srv.status EXCEPT ![t] = "active"]
             lg == Append(srv.log, TP!Event("team_created", t, 0))
  <2>2. DOMAIN st = Teams /\ lg \in Seq(Entries)
    BY <1>a, AppendProperties DEF TeamRows, Entries, TP!Event
  <2>3. srv' = [srv EXCEPT !.status = st, !.log = lg]
    BY <2>1
  <2> HIDE DEF st, lg
  <2>4. TeamRows(srv')
    BY <1>a, <2>2, <2>3 DEF TeamRows
  <2>5. ui' = ui
    BY <1>1 DEF TP!CreateTeam
  <2> QED
    BY <1>a, <1>b, <2>4, <2>5
<1>e. ASSUME NEW t \in Teams
      PROVE  /\ TeamRows(TP!SendMessage(srv, t))
             /\ TP!SendMessage(srv, t).box =
                  [srv.box EXCEPT ![t] = Append(@, Cardinality(SentIn(srv.box)) + 1)]
  <2> DEFINE n == Cardinality(SentIn(srv.box)) + 1
             s == TP!SendMessage(srv, t)
             box == [srv.box EXCEPT ![t] = Append(@, n)]
             lg == Append(srv.log, TP!Event("message", t, n))
  <2>1. s = [srv EXCEPT !.box = box, !.log = lg]
    BY SentIsCounted DEF TP!SendMessage
  <2>2. n \in Nat
    BY <1>a, MessageNumbered DEF TeamRows
  <2>3. lg \in Seq(Entries)
    BY <1>a, <2>2, AppendProperties DEF TeamRows, Entries, TP!Event
  <2> HIDE DEF s, box, lg, n
  <2>4. s.box = box /\ DOMAIN s = DOMAIN srv /\ s.status = srv.status /\ s.log = lg
    BY <1>a, <2>1 DEF TeamRows
  <2>5. TeamRows(s)
    BY <1>a, <1>d, <2>3, <2>4 DEF TeamRows, n, box
  <2> QED
    BY <2>4, <2>5 DEF s, box, n
<1>2. CASE TP!TeamMessage
  BY <1>a, <1>b, <1>c, <1>e, <1>2 DEF TP!TeamMessage
<1>3. CASE TP!TaskChanges
  <2>1. PICK f : srv' = [srv EXCEPT !.task = f] /\ ui' = ui
    BY <1>3 DEF TP!TaskChanges
  <2>2. TeamRows(srv')
    BY <1>a, <2>1 DEF TeamRows
  <2> QED
    BY <1>a, <1>b, <2>1, <2>2
<1>4. CASE TP!MemberShutsDown
  <2>1. PICK t \in Teams :
          srv' = [srv EXCEPT !.status[t] = "shutdown",
                             !.log = Append(@, TP!Event("shutdown", t, 0))]
    BY <1>c, <1>4 DEF TP!MemberShutsDown
  <2> DEFINE st == [srv.status EXCEPT ![t] = "shutdown"]
             lg == Append(srv.log, TP!Event("shutdown", t, 0))
  <2>2. DOMAIN st = Teams /\ lg \in Seq(Entries)
    BY <1>a, AppendProperties DEF TeamRows, Entries, TP!Event
  <2>3. srv' = [srv EXCEPT !.status = st, !.log = lg]
    BY <2>1
  <2> HIDE DEF st, lg
  <2>4. TeamRows(srv')
    BY <1>a, <2>2, <2>3 DEF TeamRows
  <2>5. ui' = ui
    BY <1>4 DEF TP!MemberShutsDown
  <2> QED
    BY <1>a, <1>b, <2>4, <2>5
<1>5. CASE TP!StreamEvent
  <2> DEFINE e == srv.log[ui.read + 1]
             u == CASE e.kind = "team_created" -> [ui EXCEPT !.asks = @ + 1]
                    [] e.kind = "message" -> TP!AppendMessage(e.t, e.n)
                    [] OTHER -> TP!MemberBecomes(e.t, e.kind)
  <2>1. ui' = [u EXCEPT !.read = @ + 1] /\ srv' = srv /\ ui.read < Len(srv.log)
    BY <1>5 DEF TP!StreamEvent, TP!See
  <2>2. e \in Entries
    <3>1. srv.log \in Seq(Entries) /\ ui.read \in Nat /\ Len(srv.log) \in Nat
      BY <1>a, LenProperties DEF TeamRows, TeamShown
    <3>3. ui.read < Len(srv.log)
      BY <1>5 DEF TP!StreamEvent
    <3>2. ui.read + 1 \in 1..Len(srv.log)
      BY <3>1, <3>3
    <3> QED
      BY <3>1, <3>2, ElementOfSeq
  <2>3. TeamShown(u)
    <3>1. CASE e.kind = "team_created"
      BY <1>a, <3>1 DEF TeamShown
    <3>2. CASE e.kind = "message"
      BY <1>a, <2>2, <3>2, MessageAppended DEF Entries
    <3>3. CASE e.kind \notin {"team_created", "message"}
      <4> DEFINE f == [x \in DOMAIN ui.teams |-> IF x = e.t THEN e.kind ELSE ui.teams[x]]
      <4>1. u = [ui EXCEPT !.teams = f] /\ DOMAIN f = DOMAIN ui.teams
        BY <3>3 DEF TP!MemberBecomes
      <4> HIDE DEF f, u
      <4> QED
        BY <1>a, <4>1 DEF TeamShown
    <3> QED
      BY <3>1, <3>2, <3>3
  <2> HIDE DEF u
  <2>4. TeamShown(ui')
    BY <2>1, <2>3 DEF TeamShown
  <2> QED
    BY <1>a, <1>b, <2>1, <2>4
<1>6. CASE TP!TeamsAnswer
  <2> DEFINE n == ui.asks - 1
             u1 == [ui EXCEPT !.asks = n, !.teams = TP!ListTeams]
             u2 == [ui EXCEPT !.asks = n, !.teams = [t \in {} |-> ""]]
             u3 == [ui EXCEPT !.asks = n]
  <2>1. srv' = srv /\ ui' \in {TP!Settle(u1), TP!Settle(u2), u3}
    BY <1>6 DEF TP!TeamsAnswer, TP!See, TP!Do
  <2>2. DOMAIN TP!ListTeams \subseteq Teams
    BY <1>c DEF TP!ListTeams
  <2>3. TeamShown(u1) /\ TeamShown(u2) /\ TeamShown(u3)
    BY <1>a, <2>2 DEF TeamShown
  <2> HIDE DEF u1, u2, u3
  <2> QED
    BY <1>a, <1>b, <2>1, <2>3, SettlesTeam
<1>7. CASE TP!SelectTeam
  <2>1. PICK t \in DOMAIN ui.teams : ui' = TP!Settle([ui EXCEPT !.selected = t]) /\ srv' = srv
    BY <1>7 DEF TP!SelectTeam, TP!Do
  <2>2. TeamShown([ui EXCEPT !.selected = t])
    BY <1>a DEF TeamShown
  <2> QED
    BY <1>a, <1>b, <2>1, <2>2, SettlesTeam
<1>8. CASE TP!MessagesRead
  <2>1. PICK c \in ui.calls :
          /\ ui' = [ui EXCEPT !.calls = (@ \ {c}) \cup {[c EXCEPT !.list = srv.box[c.t]]}]
          /\ srv' = srv
    BY <1>8 DEF TP!MessagesRead, TP!See
  <2> DEFINE d == [c EXCEPT !.list = srv.box[c.t]]
             q == (ui.calls \ {c}) \cup {d}
  <2>2. CallOk(c) /\ srv.box[c.t] \in Boxes
    BY <1>a DEF TeamShown, TeamRows, Numbered, CallOk
  <2>3. CallOk(d)
    BY <2>2 DEF CallOk
  <2>4. ui' = [ui EXCEPT !.calls = q]
    BY <2>1
  <2> HIDE DEF d
  <2>5. \A x \in q : CallOk(x)
    BY <1>a, <2>3 DEF TeamShown
  <2> HIDE DEF q
  <2>6. TeamShown(ui')
    BY <1>a, <2>4, <2>5 DEF TeamShown
  <2> QED
    BY <1>a, <1>b, <2>1, <2>6
<1>9. CASE TP!loadMessages
  <2>1. PICK c \in ui.calls :
          /\ srv' = srv
          /\ \/ /\ c.list # None
                /\ ui' = [ui EXCEPT !.calls = @ \ {c}, !.box = TP!WithBox(c.t, c.list)]
             \/ ui' = [ui EXCEPT !.calls = @ \ {c}, !.box = TP!WithBox(c.t, <<>>)]
    BY <1>9 DEF TP!loadMessages, TP!See, TP!Do
  <2>2. PICK b \in Boxes : ui' = [ui EXCEPT !.calls = @ \ {c}, !.box = TP!WithBox(c.t, b)]
    <3>1. c.list # None => c.list \in Boxes
      BY <1>a DEF TeamShown, CallOk
    <3> QED
      BY <2>1, <3>1, EmptyBox
  <2> DEFINE f == TP!WithBox(c.t, b)
             q == ui.calls \ {c}
  <2>3. \A x \in DOMAIN f : f[x] \in Boxes
    BY <1>a, WithBoxOk
  <2>4. ui' = [ui EXCEPT !.calls = q, !.box = f] /\ q \subseteq ui.calls
    BY <2>2
  <2> HIDE DEF f, q
  <2>5. TeamShown(ui')
    BY <1>a, <2>3, <2>4 DEF TeamShown
  <2> QED
    BY <1>a, <1>b, <2>1, <2>5
<1>10. CASE TP!Refresh
  <2>1. ui' = TP!Load(ui, ui.selected) /\ srv' = srv /\ ui.selected \in Teams
    BY <1>a, <1>10 DEF TP!Refresh, TP!Do, TeamShown
  <2> QED
    BY <1>a, <1>b, <2>1, LoadsTeam
<1>11. CASE TP!RightView \/ TP!fetchTasks \/ TP!PollTasks \/ TP!ShutdownDone
  <2>1. /\ srv' = srv
        /\ \E v, p : \/ ui' = [ui EXCEPT !.view = v, !.polls = p]
                     \/ ui' = [ui EXCEPT !.polls = p, !.task = v]
                     \/ ui' = [ui EXCEPT !.polls = p]
                     \/ ui' = [ui EXCEPT !.busy = v]
    BY <1>11 DEF TP!RightView, TP!fetchTasks, TP!PollTasks, TP!ShutdownDone, TP!Do, TP!See
  <2>2. TeamShown(ui')
    BY <1>a, <2>1 DEF TeamShown
  <2> QED
    BY <1>a, <1>b, <2>1, <2>2
<1>12. CASE TP!shutdownMember
  <2> DEFINE t == ui.selected
             n == ui.asks + 1
             u == [ui EXCEPT !.busy = t, !.asks = n]
  <2>1. \/ srv' = TP!ShutdownTeamMember(t) /\ ui' = TP!Load(u, t)
        \/ srv' = srv /\ ui' = ui
    BY <1>12 DEF TP!shutdownMember, TP!Do
  <2>2. t \in Teams
    BY <1>a, <1>12 DEF TP!shutdownMember, TeamShown
  <2>3. TeamShown(u)
    BY <1>a DEF TeamShown
  <2> HIDE DEF u
  <2>4. TeamShown(TP!Load(u, t))
    BY <2>2, <2>3, LoadsTeam
  <2>5. TeamRows(TP!ShutdownTeamMember(t))
    <3> DEFINE s == TP!SendMessage(srv, t)
               m == TP!ShutdownTeamMember(t)
               k == Cardinality(SentIn(srv.box)) + 1
               st == [s.status EXCEPT ![t] = "shutting_down"]
               more == <<TP!Event("shutting_down", t, 0), TP!Event("message", t, k)>>
               lg == srv.log \o more
    <3>1. m = [s EXCEPT !.status = st, !.log = lg]
      BY SentIsCounted DEF TP!ShutdownTeamMember
    <3>2. TeamRows(s)
      BY <1>e, <2>2
    <3>3. k \in Nat
      BY <1>a, <2>2, MessageNumbered DEF TeamRows
    <3>4. more \in Seq(Entries)
      BY <2>2, <3>3 DEF Entries, TP!Event
    <3> HIDE DEF more
    <3>5. lg \in Seq(Entries)
      BY <1>a, <3>4, ConcatProperties DEF TeamRows
    <3> HIDE DEF m, s, lg
    <3>6. DOMAIN st = Teams
      BY <3>2 DEF TeamRows
    <3> HIDE DEF st
    <3>7. TeamRows(m)
      BY <3>1, <3>2, <3>5, <3>6 DEF TeamRows
    <3> QED
      BY <3>7 DEF m
  <2> QED
    BY <1>a, <1>b, <2>1, <2>4, <2>5
<1> QED
  BY <1>1, <1>2, <1>3, <1>4, <1>5, <1>6, <1>7, <1>8, <1>9, <1>10, <1>11, <1>12 DEF TP!Next

\* SessionDetail.tsx 537: a message that comes both in an answer and as an event is
\* shown once, whichever comes first.
THEOREM MessagesAreShownOnce == Spec => []MessagesOnce
<1> DEFINE I == route = "team" => TeamInv
<1>1. Init => I
  <2> SUFFICES ASSUME Init, route = "team" PROVE TeamInv
    OBVIOUS
  <2> DEFINE box == [t \in Teams |-> <<>>]
  <2>1. Numbered(box)
    <3>1. SentIn(box) = 1..0
      BY DEF SentIn
    <3> QED
      BY <3>1, EmptyBox DEF Numbered
  <2> HIDE DEF box
  <2>4. srv = [status |-> [t \in Teams |-> "none"], box |-> box, task |-> [t \in Teams |-> 0],
               log |-> <<>>]
    BY DEF Init, TP!Init, box
  <2>2. TeamRows(srv)
    BY <2>1, <2>4 DEF TeamRows
  <2>3. TeamShown(ui)
    BY DEF Init, TP!Init, TeamShown
  <2> QED
    BY <2>2, <2>3 DEF TeamInv
<1>2. I /\ [Next]_vars => I'
  <2> SUFFICES ASSUME I, [Next]_vars, route' = "team" PROVE TeamInv'
    OBVIOUS
  <2>1. CASE Next
    <3>1. TP!Next /\ TeamInv
      BY <2>1 DEF Next
    <3> QED
      BY <3>1, TeamStep
  <2>2. CASE UNCHANGED vars
    BY <2>2 DEF vars, TeamInv, TeamShown, TeamRows, CallOk
  <2> QED
    BY <2>1, <2>2
<1>3. I => MessagesOnce
  BY DEF MessagesOnce, TP!MessagesOnce, TeamInv, TeamShown, Boxes
<1> QED
  BY <1>1, <1>2, <1>3, PTL DEF Spec, vars

-----------------------------------------------------------------------------
(***************************************************************************)
(* The page of a memory store.                                             *)
(***************************************************************************)
MemoryRows == [id : Nat \ {0}, path : Paths, content : Contents]

\* A request, as the handlers make it: only an update or a delete asks for a hash.
RequestOk(r) ==
  /\ DOMAIN r = {"kind", "id", "path", "content", "sha", "tag", "phase", "read", "raced"}
  /\ r.kind \in {"write", "update", "delete"} /\ r.phase \in {"sent", "checked", "written"}
  /\ r.id \in (Nat \ {0}) \cup {None} /\ r.path \in Paths \cup {None}
  /\ r.content \in Contents \cup {None} /\ r.read \in MemoryRows \cup {None}
  /\ r.raced \in BOOLEAN
  /\ r.kind = "write" => r.path \in Paths /\ r.content \in Contents /\ ~MP!Guarded(r)
  /\ r.kind # "write" => r.id \in Nat \ {0}
  /\ r.kind = "update" /\ r.read # None => r.read.id = r.id
  /\ r.phase = "sent" => r.read = None
  /\ r.phase = "checked" /\ r.read = None => r.kind = "write"

\* What a checked request read is what the store holds, unless it was overtaken.
ReadIsCurrent(r, rows) ==
  r.phase = "checked" /\ r.read # None /\ ~r.raced =>
    /\ \A m \in rows : m.id = r.read.id => m.content = r.read.content
    /\ MP!Guarded(r) => r.read.content = r.sha

StoreOk(s) ==
  /\ DOMAIN s = {"memories", "next", "versions", "requests", "crossed"}
  /\ s.memories \subseteq MemoryRows /\ s.next \in Nat \ {0} /\ ~s.crossed
  /\ \A m, n \in s.memories : m.id = n.id => m = n
  /\ \A m \in s.memories : m.id < s.next
  /\ \A r \in s.requests :
       /\ RequestOk(r) /\ ReadIsCurrent(r, s.memories)
       /\ r.read # None => r.read.id < s.next

\* What the page makes its requests from.
MemoryShown(u) ==
  /\ DOMAIN u = {"page", "tab", "prefix", "list", "fresh", "write", "dialog", "gets", "store"}
  /\ DOMAIN u.dialog = {"of", "editing", "path", "content", "versions"}
  /\ u.list \subseteq MemoryRows /\ u.write \in Contents \cup {None}
  /\ u.dialog.of \in MemoryRows \cup {None} /\ u.dialog.path \in Paths \cup {None}
  /\ u.dialog.content \in Contents \cup {None}

MemoryInv == MemoryShown(ui) /\ StoreOk(srv)

LEMMA NoneIsNoMemory == None \notin MemoryRows
BY MemoryAssumption DEF MemoryRows

\* A request that is sent.
LEMMA RequestSent ==
  ASSUME StoreOk(srv), NEW kind \in {"write", "update", "delete"},
         NEW id \in (Nat \ {0}) \cup {None}, NEW p \in Paths \cup {None},
         NEW c \in Contents \cup {None}, NEW sha,
         kind = "write" => p \in Paths /\ c \in Contents /\ sha \in {None, "agent"},
         kind # "write" => id \in Nat \ {0},
         MP!Sent(MP!Request(kind, id, p, c, sha))
  PROVE  StoreOk(srv')
<1> DEFINE r == MP!Request(kind, id, p, c, sha)
           q == srv.requests \cup {r}
<1>1. /\ DOMAIN r = {"kind", "id", "path", "content", "sha", "tag", "phase", "read", "raced"}
      /\ r.kind = kind /\ r.id = id /\ r.path = p /\ r.content = c /\ r.sha = sha
      /\ r.phase = "sent" /\ r.read = None /\ r.raced = FALSE
  BY DEF MP!Request
<1>2. srv' = [srv EXCEPT !.requests = q]
  BY DEF MP!Sent
<1> HIDE DEF r
<1>3. RequestOk(r)
  BY <1>1, MemoryAssumption DEF RequestOk, MP!Guarded
<1>4. ReadIsCurrent(r, srv.memories)
  BY <1>1 DEF ReadIsCurrent
<1>5. \A x \in q : /\ RequestOk(x) /\ ReadIsCurrent(x, srv.memories)
                   /\ x.read # None => x.read.id < srv.next
  BY <1>1, <1>3, <1>4 DEF StoreOk
<1> HIDE DEF q
<1> QED
  BY <1>2, <1>5 DEF StoreOk

\* Other requests for the same rows, and fewer of them.
LEMMA RequestsKept ==
  ASSUME StoreOk(srv), NEW q, NEW s, DOMAIN s = DOMAIN srv, s.requests = q,
         s.memories \subseteq srv.memories, s.next = srv.next, ~s.crossed,
         \A r \in q : r \in srv.requests \/
                        /\ RequestOk(r) /\ ReadIsCurrent(r, srv.memories)
                        /\ r.read # None => r.read.id < srv.next
  PROVE  StoreOk(s)
<1>1. \A r \in q : /\ RequestOk(r) /\ ReadIsCurrent(r, s.memories)
                   /\ r.read # None => r.read.id < s.next
  BY DEF StoreOk, ReadIsCurrent
<1> QED
  BY <1>1 DEF StoreOk

\* A check that passes reads the one row with its id.
LEMMA CheckReads ==
  ASSUME StoreOk(srv), NEW r \in srv.requests, r.phase = "sent",
         NEW m \in MP!Existing(r), MP!Passes(r, m)
  PROVE  LET t == [r EXCEPT !.phase = "checked", !.read = m]
         IN RequestOk(t) /\ ReadIsCurrent(t, srv.memories) /\ t.read.id < srv.next
<1> DEFINE t == [r EXCEPT !.phase = "checked", !.read = m]
<1>1. RequestOk(r) /\ m \in srv.memories /\ m \in MemoryRows
  BY DEF StoreOk, MP!Existing, MP!At
<1>2. r.kind # "write" => m.id = r.id
  BY DEF MP!Existing
<1>3. /\ DOMAIN t = DOMAIN r /\ t.kind = r.kind /\ t.id = r.id /\ t.path = r.path
      /\ t.content = r.content /\ t.sha = r.sha /\ t.phase = "checked" /\ t.read = m
      /\ t.raced = r.raced
  BY <1>1 DEF RequestOk
<1> HIDE DEF t
<1>4. RequestOk(t)
  BY <1>1, <1>2, <1>3, NoneIsNoMemory DEF RequestOk, MP!Guarded
<1>5. ReadIsCurrent(t, srv.memories)
  BY <1>1, <1>3 DEF ReadIsCurrent, StoreOk, MP!Passes, MP!Guarded
<1> QED
  BY <1>1, <1>3, <1>4, <1>5 DEF StoreOk, t

\* What the store holds after a request has landed: the row it wrote, if any, is the
\* only one that changed, and whoever read that row before is marked.
LEMMA LandingMarks ==
  ASSUME StoreOk(srv), NEW r \in srv.requests, r.phase = "checked", NEW rows, NEW to,
         rows \subseteq MemoryRows, \A m, n \in rows : m.id = n.id => m = n,
         \A m \in rows : \/ m \in srv.memories
                         \/ r.read # None /\ m.id = r.read.id
                         \/ r.read = None /\ m.id = srv.next,
         \A x \in to : RequestOk(x) /\ x.phase = "written" /\ x.read # None
                         /\ (x.read.id < srv.next \/ (r.read = None /\ x.read.id = srv.next))
  PROVE  StoreOk(MP!Landed(r, to, rows))
<1> DEFINE id == IF r.read = None THEN 0 ELSE r.read.id
           n == IF r.read = None THEN srv.next + 1 ELSE srv.next
           q == MP!Overtaken(srv.requests \ {r}, id) \cup to
           c == srv.crossed \/ (MP!Lost(r) /\ ~r.raced)
           s == MP!Landed(r, to, rows)
<1>1. RequestOk(r) /\ ReadIsCurrent(r, srv.memories) /\ (r.read # None => r.read.id < srv.next)
  BY DEF StoreOk
<1>2. ~c
  <2>1. CASE r.read = None
    <3>1. ~MP!Guarded(r)
      BY <1>1, <2>1 DEF RequestOk
    <3> QED
      BY <3>1 DEF StoreOk, MP!Lost
  <2>2. CASE r.read # None
    BY <1>1, <2>2 DEF StoreOk, MP!Lost, ReadIsCurrent
  <2> QED
    BY <2>1, <2>2
<1>3. s = [srv EXCEPT !.memories = rows, !.next = n, !.requests = q, !.crossed = c]
  BY DEF MP!Landed
<1> HIDE DEF c
<1>4. n \in Nat \ {0} /\ srv.next <= n
  BY DEF StoreOk
<1>5. \A m \in rows : m.id < n
  BY <1>1, <1>4 DEF StoreOk, MemoryRows
<1>6. \A x \in srv.requests :
        /\ RequestOk(x) /\ ReadIsCurrent(x, srv.memories)
        /\ x.read # None => x.read \in MemoryRows /\ x.read.id < srv.next
  BY DEF StoreOk, RequestOk
<1>7. ASSUME NEW x \in q
      PROVE  RequestOk(x) /\ ReadIsCurrent(x, rows) /\ (x.read # None => x.read.id < n)
  <2>1. CASE x \in to
    <3>1. x.read \in MemoryRows /\ x.phase = "written"
      BY <2>1 DEF RequestOk
    <3>2. x.read.id < n
      BY <2>1, <3>1 DEF StoreOk, MemoryRows
    <3> QED
      BY <2>1, <3>1, <3>2 DEF ReadIsCurrent
  <2>2. CASE x \in srv.requests /\ ~(x.read # None /\ x.read.id = id)
    <3>1. \A m \in rows : x.read # None /\ m.id = x.read.id => m \in srv.memories
      BY <1>6, <2>2 DEF MemoryRows, StoreOk
    <3> QED
      BY <1>4, <1>6, <2>2, <3>1 DEF ReadIsCurrent, MemoryRows, StoreOk
  <2>3. ASSUME NEW y \in srv.requests, x = [y EXCEPT !.raced = TRUE]
        PROVE  RequestOk(x) /\ ReadIsCurrent(x, rows) /\ (x.read # None => x.read.id < n)
    <3>1. /\ DOMAIN x = DOMAIN y /\ x.kind = y.kind /\ x.id = y.id /\ x.path = y.path
          /\ x.content = y.content /\ x.sha = y.sha /\ x.phase = y.phase /\ x.read = y.read
          /\ x.raced = TRUE
      BY <1>6, <2>3 DEF RequestOk
    <3>3. RequestOk(y) /\ MP!Guarded(x) = MP!Guarded(y)
      BY <1>6, <3>1 DEF MP!Guarded
    <3>2. RequestOk(x)
      BY <3>1, <3>3 DEF RequestOk
    <3> QED
      BY <1>4, <1>6, <3>1, <3>2 DEF ReadIsCurrent, MemoryRows, StoreOk
  <2> QED
    BY <2>1, <2>2, <2>3 DEF MP!Overtaken
<1> HIDE DEF n, q, s
<1>8. /\ DOMAIN s = DOMAIN srv /\ s.memories = rows /\ s.next = n /\ s.requests = q
      /\ s.crossed = c
  BY <1>3 DEF StoreOk
<1>9. StoreOk(s)
  BY <1>2, <1>4, <1>5, <1>7, <1>8 DEF StoreOk
<1> QED
  BY <1>9 DEF s

LEMMA StoreStep ==
  ASSUME StoreOk(srv), MP!Check \/ MP!Write \/ MP!WriteVersion \/ MP!Delete
  PROVE  StoreOk(srv')
<1>1. CASE MP!Check
  <2>1. PICK r \in srv.requests :
          /\ r.phase = "sent"
          /\ \/ /\ MP!Existing(r) = {}
                /\ srv' = IF r.kind = "write"
                          THEN MP!Reaches(r, [r EXCEPT !.phase = "checked"]) ELSE MP!Answered(r)
             \/ \E m \in MP!Existing(r) :
                  srv' = IF MP!Passes(r, m) /\ (r.kind = "update" => MP!Taken(r) = {})
                         THEN MP!Reaches(r, [r EXCEPT !.phase = "checked", !.read = m])
                         ELSE MP!Answered(r)
    BY <1>1 DEF MP!Check
  <2> DEFINE o == [r EXCEPT !.phase = "checked"]
  <2>2. RequestOk(r)
    BY DEF StoreOk
  <2>3. r.kind = "write" => RequestOk(o) /\ o.read = None
    BY <2>1, <2>2 DEF RequestOk, MP!Guarded
  <2>4. PICK q : /\ srv' = [srv EXCEPT !.requests = q]
                 /\ \A x \in q : x \in srv.requests \/
                      /\ RequestOk(x) /\ ReadIsCurrent(x, srv.memories)
                      /\ x.read # None => x.read.id < srv.next
    <3>1. CASE srv' = MP!Answered(r)
      <4>1. srv' = [srv EXCEPT !.requests = srv.requests \ {r}]
        BY <3>1 DEF MP!Answered
      <4> QED
        BY <4>1
    <3>2. ASSUME NEW t, srv' = MP!Reaches(r, t), RequestOk(t),
                 ReadIsCurrent(t, srv.memories), t.read # None => t.read.id < srv.next
          PROVE  \E q : /\ srv' = [srv EXCEPT !.requests = q]
                        /\ \A x \in q : x \in srv.requests \/
                             /\ RequestOk(x) /\ ReadIsCurrent(x, srv.memories)
                             /\ x.read # None => x.read.id < srv.next
      <4> DEFINE a == srv.requests \ {r}
                 q == a \cup {t}
      <4>1. MP!Answered(r) = [srv EXCEPT !.requests = a]
        BY DEF MP!Answered
      <4> HIDE DEF a
      <4>2. srv' = [srv EXCEPT !.requests = q]
        BY <3>2, <4>1 DEF MP!Reaches, StoreOk
      <4>3. \A x \in q : x \in srv.requests \/ x = t
        BY DEF a
      <4> QED
        BY <3>2, <4>2, <4>3
    <3>3. CASE r.kind = "write" /\ srv' = MP!Reaches(r, o)
      <4> HIDE DEF o
      <4>1. ReadIsCurrent(o, srv.memories)
        BY <2>3, <3>3 DEF ReadIsCurrent
      <4> QED
        BY <2>3, <3>2, <3>3, <4>1
    <3>4. CASE \E m \in MP!Existing(r) :
                 /\ MP!Passes(r, m)
                 /\ srv' = MP!Reaches(r, [r EXCEPT !.phase = "checked", !.read = m])
      BY <2>1, <3>2, <3>4, CheckReads
    <3> QED
      BY <2>1, <3>1, <3>3, <3>4
  <2>5. /\ DOMAIN srv' = DOMAIN srv /\ srv'.requests = q /\ srv'.memories = srv.memories
        /\ srv'.next = srv.next /\ ~srv'.crossed
    BY <2>4 DEF StoreOk
  <2> QED
    BY <2>4, <2>5, RequestsKept
<1>2. CASE MP!Write
  <2>1. PICK r \in srv.requests :
          /\ r.phase = "checked" /\ r.kind # "delete"
          /\ LET row == MP!Row(r)
                 others == {m \in srv.memories : m.id # row.id}
                 there == r.read = None \/ \E m \in srv.memories : m.id = row.id
             IN srv' = IF \E m \in others : m.path = row.path THEN MP!Answered(r)
                       ELSE MP!Landed(r, {[r EXCEPT !.phase = "written", !.read = row]},
                                      IF there THEN others \cup {row} ELSE others)
    BY <1>2 DEF MP!Write
  <2> DEFINE row == MP!Row(r)
             others == {m \in srv.memories : m.id # row.id}
             there == r.read = None \/ \E m \in srv.memories : m.id = row.id
             rows == IF there THEN others \cup {row} ELSE others
             t == [r EXCEPT !.phase = "written", !.read = row]
  <2>2. RequestOk(r) /\ (r.read # None => r.read.id < srv.next)
    BY DEF StoreOk
  <2>3. /\ row \in MemoryRows
        /\ row.id = IF r.read = None THEN srv.next ELSE r.read.id
    <3>1. CASE r.read = None
      <4>1. row = [id |-> srv.next, path |-> r.path, content |-> r.content]
        BY <3>1 DEF MP!Row, MP!Memory
      <4>2. r.path \in Paths /\ r.content \in Contents
        BY <2>1, <2>2, <3>1 DEF RequestOk
      <4>3. srv.next \in Nat \ {0}
        BY DEF StoreOk
      <4> QED
        BY <3>1, <4>1, <4>2, <4>3 DEF MemoryRows
    <3>2. CASE r.read # None /\ r.kind = "write"
      <4>1. row = [r.read EXCEPT !.content = r.content]
        BY <3>2 DEF MP!Row
      <4>2. r.read \in MemoryRows /\ r.content \in Contents
        BY <2>2, <3>2 DEF RequestOk
      <4> QED
        BY <3>2, <4>1, <4>2 DEF MemoryRows
    <3>3. CASE r.read # None /\ r.kind = "update"
      <4>1. row = [id |-> r.id, path |-> MP!Or(r.path, r.read.path),
                   content |-> MP!Or(r.content, r.read.content)]
        BY <3>3 DEF MP!Row, MP!Memory
      <4>2. r.read \in MemoryRows /\ r.read.id = r.id
        BY <2>2, <3>3 DEF RequestOk
      <4>3. MP!Or(r.path, r.read.path) \in Paths /\ MP!Or(r.content, r.read.content) \in Contents
        BY <2>2, <4>2 DEF MP!Or, RequestOk, MemoryRows
      <4> QED
        BY <3>3, <4>1, <4>2, <4>3 DEF MemoryRows
    <3> QED
      BY <2>1, <2>2, <3>1, <3>2, <3>3 DEF RequestOk
  <2> HIDE DEF row
  <2>4. RequestOk(t) /\ t.phase = "written" /\ t.read = row
    <3>1. /\ DOMAIN t = DOMAIN r /\ t.kind = r.kind /\ t.id = r.id /\ t.path = r.path
          /\ t.content = r.content /\ t.sha = r.sha /\ t.phase = "written" /\ t.read = row
          /\ t.raced = r.raced
      BY <2>2 DEF RequestOk
    <3> HIDE DEF t
    <3>2. r.kind = "update" => row.id = r.id
      BY <2>1, <2>2, <2>3 DEF RequestOk
    <3> QED
      BY <2>2, <2>3, <3>1, <3>2 DEF RequestOk, MP!Guarded
  <2>5. row # None
    BY <2>3, NoneIsNoMemory
  <2> HIDE DEF t
  <2>6. /\ rows \subseteq MemoryRows /\ \A m, n \in rows : m.id = n.id => m = n
        /\ \A m \in rows : \/ m \in srv.memories
                           \/ r.read # None /\ m.id = r.read.id
                           \/ r.read = None /\ m.id = srv.next
    BY <2>3 DEF StoreOk
  <2>7. \A x \in {t} : RequestOk(x) /\ x.phase = "written" /\ x.read # None
                         /\ (x.read.id < srv.next \/ (r.read = None /\ x.read.id = srv.next))
    <3>1. row.id < srv.next \/ (r.read = None /\ row.id = srv.next)
      BY <2>2, <2>3
    <3> QED
      BY <2>4, <2>5, <3>1
  <2> HIDE DEF rows
  <2>8. StoreOk(MP!Landed(r, {t}, rows))
    BY <2>1, <2>6, <2>7, LandingMarks
  <2>9. StoreOk(MP!Answered(r))
    <3> DEFINE q == srv.requests \ {r}
    <3>1. MP!Answered(r) = [srv EXCEPT !.requests = q]
      BY DEF MP!Answered
    <3> HIDE DEF q
    <3>2. /\ DOMAIN MP!Answered(r) = DOMAIN srv /\ MP!Answered(r).requests = q
          /\ MP!Answered(r).memories = srv.memories /\ MP!Answered(r).next = srv.next
          /\ ~MP!Answered(r).crossed
      BY <3>1 DEF StoreOk
    <3> QED
      BY <3>2, RequestsKept DEF q
  <2> QED
    BY <2>1, <2>8, <2>9 DEF row, rows, t
<1>3. CASE MP!WriteVersion
  <2>1. PICK r \in srv.requests :
          \E v : srv' = [MP!Answered(r) EXCEPT !.versions = @ \cup {v}]
    BY <1>3 DEF MP!WriteVersion
  <2>5. PICK v : srv' = [MP!Answered(r) EXCEPT !.versions = @ \cup {v}]
    BY <2>1
  <2> DEFINE q == srv.requests \ {r}
             w == srv.versions \cup {v}
  <2>2. srv' = [srv EXCEPT !.requests = q, !.versions = w]
    BY <2>5 DEF MP!Answered, StoreOk
  <2> HIDE DEF q, w
  <2>3. /\ DOMAIN srv' = DOMAIN srv /\ srv'.requests = q /\ srv'.memories = srv.memories
        /\ srv'.next = srv.next /\ ~srv'.crossed
    BY <2>2 DEF StoreOk
  <2> QED
    BY <2>3, RequestsKept DEF q
<1>4. CASE MP!Delete
  <2>1. PICK r \in srv.requests :
          /\ r.phase = "checked"
          /\ \E v : srv' = [MP!Landed(r, {}, {m \in srv.memories : m.id # r.id}) EXCEPT
                              !.versions = @ \cup {v}]
    BY <1>4 DEF MP!Delete
  <2>5. PICK v : srv' = [MP!Landed(r, {}, {m \in srv.memories : m.id # r.id}) EXCEPT
                           !.versions = @ \cup {v}]
    BY <2>1
  <2> DEFINE rows == {m \in srv.memories : m.id # r.id}
             s == MP!Landed(r, {}, rows)
             w == s.versions \cup {v}
  <2>2. rows \subseteq MemoryRows /\ rows \subseteq srv.memories
        /\ \A m, n \in rows : m.id = n.id => m = n
    BY DEF StoreOk
  <2>3. srv' = [s EXCEPT !.versions = w]
    BY <2>5
  <2> HIDE DEF rows
  <2>4. StoreOk(s)
    BY <2>1, <2>2, LandingMarks
  <2> HIDE DEF s, w
  <2> QED
    BY <2>3, <2>4 DEF StoreOk
<1> QED
  BY <1>1, <1>2, <1>3, <1>4

\* What the user does to the page, and the answers that change only the page.
LEMMA PageStep ==
  ASSUME MemoryInv, srv' = srv,
         \/ MP!MemoriesArrive \/ MP!Tab \/ MP!PathPrefix \/ MP!archive \/ MP!openMemory
         \/ MP!Opened \/ MP!NewMemory \/ MP!CancelNew \/ MP!Edit \/ MP!Fields
         \/ MP!CancelEdit \/ MP!onClose \/ MP!Versions
  PROVE  MemoryShown(ui')
<1>a. MemoryShown(ui) /\ srv.memories \subseteq MemoryRows
  BY DEF MemoryInv, StoreOk
<1>b. ASSUME NEW d, ui' = [ui EXCEPT !.dialog = d], DOMAIN d = DOMAIN ui.dialog,
             d.of = ui.dialog.of, d.path \in Paths \cup {None}, d.content \in Contents \cup {None}
      PROVE  MemoryShown(ui')
  BY <1>a, <1>b DEF MemoryShown
<1>1. CASE MP!MemoriesArrive
  <2> DEFINE l == {m \in srv.memories : ui.prefix \in {None, m.path}}
  <2>1. ui' = [ui EXCEPT !.fresh = TRUE, !.list = l] /\ l \subseteq MemoryRows
    BY <1>a, <1>1 DEF MP!MemoriesArrive
  <2> HIDE DEF l
  <2> QED
    BY <1>a, <2>1 DEF MemoryShown
<1>2. CASE MP!Tab
  <2>1. PICK t : ui' = [[ui EXCEPT !.fresh = FALSE] EXCEPT !.tab = t, !.prefix = None, !.gets = {}]
    BY <1>2 DEF MP!Tab, MP!Do, MP!load
  <2> QED
    BY <1>a, <2>1 DEF MemoryShown
<1>3. CASE MP!PathPrefix
  <2>1. PICK p : ui' = [[ui EXCEPT !.prefix = p] EXCEPT !.fresh = FALSE]
    BY <1>3 DEF MP!PathPrefix, MP!Do, MP!load
  <2> QED
    BY <1>a, <2>1 DEF MemoryShown
<1>4. CASE MP!archive
  <2>1. PICK s : ui' = [ui EXCEPT !.page = "memory_stores", !.store = s]
    BY <1>4 DEF MP!archive, MP!Do
  <2> QED
    BY <1>a, <2>1 DEF MemoryShown
<1>5. CASE MP!openMemory
  <2>1. PICK g : ui' = [ui EXCEPT !.gets = g]
    BY <1>5 DEF MP!openMemory, MP!Do
  <2> QED
    BY <1>a, <2>1 DEF MemoryShown
<1>6. CASE MP!Opened
  <2>1. PICK id \in ui.gets :
          LET gone == {m \in srv.memories : m.id = id} = {}
              u == [ui EXCEPT !.gets = @ \ {id}]
          IN ui' = IF gone THEN u
                   ELSE LET m == CHOOSE x \in srv.memories : x.id = id
                        IN IF ui.dialog.of = None
                           THEN [u EXCEPT !.dialog = [MP!NoDialog EXCEPT !.of = m,
                                            !.path = m.path, !.content = m.content]]
                           ELSE [u EXCEPT !.dialog.of = m]
    BY <1>6 DEF MP!Opened
  <2> DEFINE u == [ui EXCEPT !.gets = @ \ {id}]
             m == CHOOSE x \in srv.memories : x.id = id
             d1 == [MP!NoDialog EXCEPT !.of = m, !.path = m.path, !.content = m.content]
             d2 == [ui.dialog EXCEPT !.of = m]
  <2>2. \/ ui' = u
        \/ m \in MemoryRows /\ ui' = [u EXCEPT !.dialog = d1]
        \/ m \in MemoryRows /\ ui' = [u EXCEPT !.dialog = d2]
    <3>1. CASE {x \in srv.memories : x.id = id} = {}
      BY <2>1, <3>1
    <3>2. CASE {x \in srv.memories : x.id = id} # {}
      <4>1. m \in MemoryRows
        BY <1>a, <3>2
      <4>2. u.dialog = ui.dialog
        BY <1>a DEF MemoryShown
      <4>3. \/ ui' = [u EXCEPT !.dialog = d1]
            \/ ui' = [u EXCEPT !.dialog.of = m]
        BY <2>1, <3>2
      <4> QED
        BY <4>1, <4>2, <4>3
    <3> QED
      BY <3>1, <3>2
  <2>3. MemoryShown(u)
    BY <1>a DEF MemoryShown
  <2> HIDE DEF u, m
  <2>4. m \in MemoryRows =>
          /\ DOMAIN d1 = {"of", "editing", "path", "content", "versions"}
          /\ d1.of \in MemoryRows /\ d1.path \in Paths /\ d1.content \in Contents
    BY DEF MP!NoDialog, MemoryRows
  <2>5. /\ DOMAIN d2 = {"of", "editing", "path", "content", "versions"}
        /\ d2.of = m /\ d2.path = ui.dialog.path /\ d2.content = ui.dialog.content
    BY <1>a DEF MemoryShown
  <2> HIDE DEF d1, d2
  <2> QED
    BY <1>a, <2>2, <2>3, <2>4, <2>5 DEF MemoryShown
<1>7. CASE MP!NewMemory \/ MP!CancelNew
  <2>1. PICK c \in Contents \cup {None} : ui' = [ui EXCEPT !.write = c]
    BY <1>7 DEF MP!NewMemory, MP!CancelNew, MP!Do
  <2> QED
    BY <1>a, <2>1 DEF MemoryShown
<1>8. CASE MP!Edit
  <2> DEFINE d == [ui.dialog EXCEPT !.editing = TRUE]
  <2>1. ui' = [ui EXCEPT !.dialog = d]
    BY <1>8 DEF MP!Edit, MP!Do
  <2>2. DOMAIN d = DOMAIN ui.dialog /\ d.of = ui.dialog.of /\ d.path = ui.dialog.path
        /\ d.content = ui.dialog.content
    BY <1>a DEF MemoryShown
  <2> HIDE DEF d
  <2> QED
    BY <1>a, <1>b, <2>1, <2>2 DEF MemoryShown
<1>9. CASE MP!Fields
  <2>1. \/ \E p \in Paths : ui' = [ui EXCEPT !.dialog.path = p]
        \/ \E c \in Contents : ui' = [ui EXCEPT !.dialog.content = c]
    BY <1>9 DEF MP!Fields, MP!Do
  <2>2. ASSUME NEW p \in Paths, ui' = [ui EXCEPT !.dialog.path = p] PROVE MemoryShown(ui')
    <3> DEFINE d == [ui.dialog EXCEPT !.path = p]
    <3>1. DOMAIN d = DOMAIN ui.dialog /\ d.of = ui.dialog.of /\ d.path = p
          /\ d.content = ui.dialog.content /\ ui' = [ui EXCEPT !.dialog = d]
      BY <1>a, <2>2 DEF MemoryShown
    <3> HIDE DEF d
    <3> QED
      BY <1>a, <1>b, <3>1 DEF MemoryShown
  <2>3. ASSUME NEW c \in Contents, ui' = [ui EXCEPT !.dialog.content = c] PROVE MemoryShown(ui')
    <3> DEFINE d == [ui.dialog EXCEPT !.content = c]
    <3>1. DOMAIN d = DOMAIN ui.dialog /\ d.of = ui.dialog.of /\ d.path = ui.dialog.path
          /\ d.content = c /\ ui' = [ui EXCEPT !.dialog = d]
      BY <1>a, <2>3 DEF MemoryShown
    <3> HIDE DEF d
    <3> QED
      BY <1>a, <1>b, <3>1 DEF MemoryShown
  <2> QED
    BY <2>1, <2>2, <2>3
<1>10. CASE MP!CancelEdit
  <2> DEFINE of == ui.dialog.of
             d == [ui.dialog EXCEPT !.editing = FALSE, !.path = of.path, !.content = of.content]
  <2>1. ui' = [ui EXCEPT !.dialog = d] /\ of # None
    BY <1>a, <1>10 DEF MP!CancelEdit, MP!Editing, MP!Dialog, MP!Do, MemoryShown
  <2>2. of.path \in Paths /\ of.content \in Contents
    BY <1>a, <2>1 DEF MemoryShown, MemoryRows
  <2>3. DOMAIN d = DOMAIN ui.dialog /\ d.of = of /\ d.path = of.path /\ d.content = of.content
    BY <1>a DEF MemoryShown
  <2> HIDE DEF d
  <2> QED
    BY <1>a, <1>b, <2>1, <2>2, <2>3 DEF MemoryShown
<1>11. CASE MP!onClose
  <2>1. ui' = [ui EXCEPT !.dialog = MP!NoDialog]
    BY <1>11 DEF MP!onClose, MP!Do
  <2> QED
    BY <1>a, <2>1 DEF MemoryShown, MP!NoDialog
<1>12. CASE MP!Versions
  <2>1. PICK v : ui' = [ui EXCEPT !.dialog.versions = v]
    BY <1>12 DEF MP!Versions, MP!loadVersions, MP!Do
  <2> DEFINE d == [ui.dialog EXCEPT !.versions = v]
  <2>2. DOMAIN d = DOMAIN ui.dialog /\ d.of = ui.dialog.of /\ d.path = ui.dialog.path
        /\ d.content = ui.dialog.content /\ ui' = [ui EXCEPT !.dialog = d]
    BY <1>a, <2>1 DEF MemoryShown
  <2> HIDE DEF d
  <2> QED
    BY <1>a, <1>b, <2>2 DEF MemoryShown
<1> QED
  BY <1>1, <1>2, <1>3, <1>4, <1>5, <1>6, <1>7, <1>8, <1>9, <1>10, <1>11, <1>12

LEMMA MemoryStep ==
  ASSUME MemoryInv, MP!Next
  PROVE  MemoryInv'
<1>a. MemoryShown(ui) /\ StoreOk(srv)
  BY DEF MemoryInv
<1>b. ASSUME MemoryShown(ui'), StoreOk(srv') PROVE MemoryInv'
  BY <1>b DEF MemoryInv, MemoryShown, StoreOk, RequestOk, ReadIsCurrent, MP!Guarded
<1>1. CASE \/ MP!MemoriesArrive \/ MP!Tab \/ MP!PathPrefix \/ MP!archive \/ MP!openMemory
           \/ MP!Opened \/ MP!NewMemory \/ MP!CancelNew \/ MP!Edit \/ MP!Fields
           \/ MP!CancelEdit \/ MP!onClose \/ MP!Versions
  <2>1. srv' = srv
    BY <1>1 DEF MP!MemoriesArrive, MP!Tab, MP!PathPrefix, MP!archive, MP!openMemory,
       MP!Opened, MP!NewMemory, MP!CancelNew, MP!Edit, MP!Fields, MP!CancelEdit,
       MP!onClose, MP!Versions
  <2> QED
    BY <1>1, <1>a, <1>b, <2>1, PageStep
<1>2. CASE MP!del
  <2>1. /\ ui' = [ui EXCEPT !.page = "memory_stores"]
        /\ srv' = [srv EXCEPT !.memories = {}, !.versions = {}]
    BY <1>2 DEF MP!del, MP!Do
  <2>2. MemoryShown(ui')
    BY <1>a, <2>1 DEF MemoryShown
  <2>3. /\ DOMAIN srv' = DOMAIN srv /\ srv'.requests = srv.requests /\ srv'.memories = {}
        /\ srv'.next = srv.next /\ ~srv'.crossed
    BY <1>a, <2>1 DEF StoreOk
  <2>4. StoreOk(srv')
    BY <1>a, <2>3, RequestsKept
  <2> QED
    BY <1>b, <2>2, <2>4
<1>3. CASE MP!Create
  <2>1. PICK p \in Paths : MP!Sent(MP!Request("write", None, p, ui.write, None))
    BY <1>3 DEF MP!Create
  <2>2. ui' = ui /\ ui.write \in Contents
    BY <1>a, <1>3 DEF MP!Create, MP!Do, MemoryShown
  <2>3. StoreOk(srv')
    BY <1>a, <2>1, <2>2, RequestSent
  <2> QED
    BY <1>a, <1>b, <2>2, <2>3
<1>4. CASE MP!save
  <2> DEFINE m == ui.dialog.of
             p == MP!Changed(ui.dialog.path, m.path)
             c == MP!Changed(ui.dialog.content, m.content)
  <2>1. MP!Sent(MP!Request("update", m.id, p, c, m.content)) /\ ui' = ui /\ m # None
    BY <1>4 DEF MP!save, MP!Do, MP!Editing, MP!Dialog
  <2>2. m.id \in Nat \ {0} /\ p \in Paths \cup {None} /\ c \in Contents \cup {None}
    BY <1>a, <2>1 DEF MemoryShown, MemoryRows, MP!Changed
  <2> HIDE DEF p, c
  <2>3. StoreOk(srv')
    BY <1>a, <2>1, <2>2, RequestSent
  <2> QED
    BY <1>a, <1>b, <2>1, <2>3
<1>5. CASE MP!remove
  <2> DEFINE m == ui.dialog.of
  <2>1. MP!Sent(MP!Request("delete", m.id, None, None, m.content)) /\ ui' = ui /\ m # None
    BY <1>5 DEF MP!remove, MP!Do, MP!Dialog
  <2>2. m.id \in Nat \ {0}
    BY <1>a, <2>1 DEF MemoryShown, MemoryRows
  <2>3. StoreOk(srv')
    BY <1>a, <2>1, <2>2, RequestSent
  <2> QED
    BY <1>a, <1>b, <2>1, <2>3
<1>6. CASE MP!SyncMemoryStores
  <2>1. PICK p \in Paths, c \in Contents : MP!Sent(MP!Request("write", None, p, c, "agent"))
    BY <1>6 DEF MP!SyncMemoryStores
  <2>2. ui' = ui
    BY <1>6 DEF MP!SyncMemoryStores, MP!Do
  <2>3. StoreOk(srv')
    BY <1>a, <2>1, RequestSent
  <2> QED
    BY <1>a, <1>b, <2>2, <2>3
<1>7. CASE MP!redact
  <2>1. \E v, w : /\ srv' = [srv EXCEPT !.versions = v]
                  /\ ui' = [ui EXCEPT !.dialog.versions = w]
    BY <1>7 DEF MP!redact, MP!Do
  <2>2. PICK v, w : /\ srv' = [srv EXCEPT !.versions = v]
                    /\ ui' = [ui EXCEPT !.dialog.versions = w]
    BY <2>1
  <2>3. StoreOk(srv')
    BY <1>a, <2>2 DEF StoreOk
  <2>4. MemoryShown(ui')
    <3> DEFINE d == [ui.dialog EXCEPT !.versions = w]
    <3>1. DOMAIN d = DOMAIN ui.dialog /\ d.of = ui.dialog.of /\ d.path = ui.dialog.path
          /\ d.content = ui.dialog.content /\ ui' = [ui EXCEPT !.dialog = d]
      BY <1>a, <2>2 DEF MemoryShown
    <3> HIDE DEF d
    <3> QED
      BY <1>a, <3>1 DEF MemoryShown
  <2> QED
    BY <1>b, <2>3, <2>4
<1>8. CASE MP!Check \/ MP!Write \/ MP!WriteVersion \/ MP!Delete
  <2>1. StoreOk(srv')
    BY <1>8, <1>a, StoreStep
  <2>2. \/ ui' = ui
        \/ ui' = [[ui EXCEPT !.write = None] EXCEPT !.fresh = FALSE]
        \/ ui' = [[ui EXCEPT !.dialog = MP!NoDialog] EXCEPT !.fresh = FALSE]
    BY <1>8 DEF MP!Check, MP!Write, MP!WriteVersion, MP!Delete, MP!onSaved, MP!load
  <2>3. MemoryShown(ui')
    <3>1. /\ DOMAIN MP!NoDialog = {"of", "editing", "path", "content", "versions"}
          /\ MP!NoDialog.of = None /\ MP!NoDialog.path = None /\ MP!NoDialog.content = None
      BY DEF MP!NoDialog
    <3>2. MemoryShown([ui EXCEPT !.write = None])
      BY <1>a DEF MemoryShown
    <3>3. MemoryShown([ui EXCEPT !.dialog = MP!NoDialog])
      BY <1>a, <3>1 DEF MemoryShown
    <3>4. ASSUME NEW u, MemoryShown(u) PROVE MemoryShown([u EXCEPT !.fresh = FALSE])
      BY <3>4 DEF MemoryShown
    <3> QED
      BY <1>a, <2>2, <3>2, <3>3, <3>4
  <2> QED
    BY <1>b, <2>1, <2>3
<1> QED
  BY <1>1, <1>2, <1>3, <1>4, <1>5, <1>6, <1>7, <1>8 DEF MP!Next

\* MemoryStoreDetail.tsx, memory_stores.go: save and delete replace only the content
\* the dialog was opened with, unless another write lands between a request's check
\* and its write.
THEOREM GuardsHold == Spec => []GuardHolds
<1> DEFINE I == route = "memory" => MemoryInv
<1>1. Init => I
  <2> SUFFICES ASSUME Init, route = "memory" PROVE MemoryInv
    OBVIOUS
  <2>1. MP!Init
    BY DEF Init
  <2>2. PICK p \in Paths, c \in Contents :
          \E v : srv = [memories |-> {MP!Memory(1, p, c)}, next |-> 2, versions |-> v,
                        requests |-> {}, crossed |-> FALSE]
    BY <2>1 DEF MP!Init
  <2>3. StoreOk(srv)
    BY <2>2 DEF StoreOk, MP!Memory, MemoryRows
  <2>4. MemoryShown(ui)
    BY <2>1 DEF MP!Init, MemoryShown, MP!NoDialog
  <2> QED
    BY <2>3, <2>4 DEF MemoryInv
<1>2. I /\ [Next]_vars => I'
  <2> SUFFICES ASSUME I, [Next]_vars, route' = "memory" PROVE MemoryInv'
    OBVIOUS
  <2>1. CASE Next
    <3>1. MP!Next /\ MemoryInv
      BY <2>1 DEF Next
    <3> QED
      BY <3>1, MemoryStep
  <2>2. CASE UNCHANGED vars
    BY <2>2 DEF vars, MemoryInv, MemoryShown, StoreOk, RequestOk, ReadIsCurrent, MP!Guarded
  <2> QED
    BY <2>1, <2>2
<1>3. I => GuardHolds
  BY DEF GuardHolds, MP!GuardHolds, MemoryInv, StoreOk
<1> QED
  BY <1>1, <1>2, <1>3, PTL DEF Spec, vars
=============================================================================
