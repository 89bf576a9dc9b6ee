--------------------------- MODULE EnvironmentPage ---------------------------
(***************************************************************************)
(* The page of one environment (pages/EnvironmentDetail.tsx).  Its form is *)
(* seeded from what was fetched, and again from whatever is fetched later; *)
(* a save replaces the whole configuration by what the form shows, with    *)
(* the type, the gem packages and the dockerfile copied from what seeded   *)
(* it.  Whatever else the configuration held (config.sandbox, fields the   *)
(* page does not know) is not sent.                                        *)
(***************************************************************************)
EXTENDS Naturals, Sequences, SequencesExt

CONSTANTS Managers,   \* package managers the form offers
          Specs,      \* package specifications
          Hidden,     \* what gem and dockerfile may hold
          MaxRows,    \* bound: rows of packages, rows of metadata
          None

VARIABLES ui, srv, left

On == ui.page = "environment"

Unrestricted == [type |-> "unrestricted", mcp |-> FALSE, hosts |-> FALSE]

\* The server refuses the type sandbox without a config.sandbox.
ValidConfig(e) == e.type = "sandbox" => e.rest

\* What the server keeps of an environment.
Stored ==
  {e \in [name : {TRUE}, description : BOOLEAN, hidden : Hidden,
           packages : [Managers -> SUBSET Specs],
           networking : [type : {"unrestricted", "limited"}, mcp : BOOLEAN,
                         hosts : BOOLEAN],
           metadata : {None} \cup Specs,
           type : {"cloud", "sandbox"},
           rest : BOOLEAN] :       \* config.sandbox, or fields the page has no name for
     ValidConfig(e)}

\* What a save is to leave as it was.
Kept(e) == [type |-> e.type, hidden |-> e.hidden]

\* One row for each manager that has packages, in the order of the managers.
packagesToRows(packages) ==
  LET has == {m \in Managers : packages[m] # {}}
  IN [i \in 1..Len(SetToSeq(has)) |->
        [manager |-> SetToSeq(has)[i], packages |-> packages[SetToSeq(has)[i]]]]

\* Rows of one manager are merged; rows without packages are left out.
rowsToPackages(rows) ==
  [m \in Managers |-> UNION {rows[i].packages : i \in
                               {j \in DOMAIN rows : rows[j].manager = m}}]

metadataToRows(metadata) == IF metadata = None THEN <<>> ELSE <<metadata>>

\* One key stands for all: of the rows that name it the last one counts.
rowsToMetadata(rows) == IF rows = <<>> THEN None ELSE Last(rows)

\* Hosts are kept for a limited network only.
buildNetworking(net) ==
  IF net.type = "unrestricted" THEN [net EXCEPT !.hosts = FALSE] ELSE net

\* The form as an environment seeds it.
applyEnv(u, e) ==
  [u EXCEPT !.env = e, !.name = e.name, !.description = e.description,
            !.networking = e.networking, !.rows = packagesToRows(e.packages),
            !.gem = e.hidden, !.metadata = metadataToRows(e.metadata)]

Init ==
  /\ ui = [page |-> "environment", env |-> None, fetched |-> None, name |-> FALSE,
           description |-> FALSE, networking |-> Unrestricted, rows |-> <<>>,
           gem |-> None, metadata |-> <<>>, saving |-> None]
  /\ \E e \in Stored :
       /\ e.networking = Unrestricted /\ e.metadata = None /\ ~e.description
       /\ srv = [env |-> e, theirs |-> Kept(e), gone |-> FALSE, crossed |-> FALSE]

Do(u) == ui' = u /\ left > 0 /\ left' = left - 1

Ready == On /\ ui.env # None

-----------------------------------------------------------------------------
(***************************************************************************)
(* Reading.                                                                *)
(***************************************************************************)

\* The first fetch, and each one on the window's focus.  Only an environment
\* that differs from the one fetched last seeds the form.
Fetched ==
  /\ On /\ ui.fetched # srv.env
  /\ ui' = applyEnv([ui EXCEPT !.fetched = srv.env], srv.env)
  /\ srv' = [srv EXCEPT !.crossed = @ /\ ui.saving # None]
  /\ UNCHANGED left

\* The page is left with the message of the failure, for good.
LoadFails ==
  /\ On /\ Do([ui EXCEPT !.page = "environments"])
  /\ UNCHANGED srv

-----------------------------------------------------------------------------
(***************************************************************************)
(* The form.                                                               *)
(***************************************************************************)
NameField == Ready /\ Do([ui EXCEPT !.name = ~@]) /\ UNCHANGED srv

DescriptionField == Ready /\ Do([ui EXCEPT !.description = ~@]) /\ UNCHANGED srv

\* The hosts are asked for, and kept in the form, whatever the type is later.
Networking ==
  /\ Ready
  /\ \/ Do([ui EXCEPT !.networking.type =
              IF @ = "limited" THEN "unrestricted" ELSE "limited"])
     \/ Do([ui EXCEPT !.networking.mcp = ~@])
     \/ /\ ui.networking.type = "limited"
        /\ Do([ui EXCEPT !.networking.hosts = ~@])
  /\ UNCHANGED srv

\* A new row is one of pip, here the first of the managers.
AddPackageRow ==
  /\ Ready /\ Len(ui.rows) < MaxRows
  /\ Do([ui EXCEPT !.rows = Append(@, [manager |-> CHOOSE m \in Managers : TRUE,
                                        packages |-> {}])])
  /\ UNCHANGED srv

PackageRow ==
  /\ Ready
  /\ \E i \in DOMAIN ui.rows :
       \/ \E m \in Managers \ {ui.rows[i].manager} : Do([ui EXCEPT !.rows[i].manager = m])
       \/ \E p \in SUBSET Specs \ {ui.rows[i].packages} :
            Do([ui EXCEPT !.rows[i].packages = p])
       \/ Do([ui EXCEPT !.rows = RemoveAt(@, i)])
  /\ UNCHANGED srv

MetadataRow ==
  /\ Ready
  /\ \/ \E v \in Specs : /\ Len(ui.metadata) < MaxRows
                         /\ Do([ui EXCEPT !.metadata = Append(@, v)])
     \/ \E i \in DOMAIN ui.metadata : Do([ui EXCEPT !.metadata = RemoveAt(@, i)])
  /\ UNCHANGED srv

-----------------------------------------------------------------------------
(***************************************************************************)
(* Saving.  The fields stay open while the request is under way.           *)
(***************************************************************************)

\* Slip: the packages that have no row are not sent.
BodyNoGem(u) ==
  [type |-> u.env.type, rest |-> FALSE,
   description |-> u.description, hidden |-> CHOOSE h \in Hidden : TRUE,
   packages |-> rowsToPackages(u.rows), networking |-> buildNetworking(u.networking),
   metadata |-> rowsToMetadata(u.metadata)]

Body(u) ==
  [type |-> u.env.type, rest |-> FALSE,
   description |-> u.description, hidden |-> u.gem,
   packages |-> rowsToPackages(u.rows), networking |-> buildNetworking(u.networking),
   metadata |-> rowsToMetadata(u.metadata)]

save ==
  /\ Ready /\ ui.saving = None /\ ui.name
  /\ Do([ui EXCEPT !.saving = Body(ui)])
  /\ UNCHANGED srv

cancel ==
  /\ Ready /\ ui.saving = None
  /\ Do([ui EXCEPT !.page = "environments"])
  /\ UNCHANGED srv

\* An empty description is left out of the request, so the old one stays; the
\* configuration is replaced whole.
updateEnvironment(e, b) ==
  [e EXCEPT !.description = b.description \/ @, !.hidden = b.hidden,
            !.packages = b.packages, !.networking = b.networking,
            !.metadata = b.metadata, !.type = b.type, !.rest = b.rest]

Saved ==
  /\ On /\ ui.saving # None /\ ~srv.gone /\ ValidConfig(ui.saving)
  /\ LET e == updateEnvironment(srv.env, ui.saving)
     IN /\ srv' = [srv EXCEPT !.env = e, !.crossed = FALSE,
                      !.theirs = IF srv.crossed THEN Kept(e) ELSE @]
        /\ ui' = applyEnv([ui EXCEPT !.saving = None], e)
  /\ UNCHANGED left

\* Archived meanwhile, of a type whose configuration is not sent whole, or not
\* answered.
SaveFails ==
  /\ On /\ ui.saving # None
  /\ ui' = [ui EXCEPT !.saving = None]
  /\ UNCHANGED <<srv, left>>

\* Another client changes what the form does not show, or archives.
OthersUpdate ==
  /\ On /\ ~srv.gone
  /\ \/ \E h \in Hidden, t \in {"cloud", "sandbox"}, r \in BOOLEAN :
          LET e == [srv.env EXCEPT !.hidden = h, !.type = t, !.rest = r]
          IN /\ ValidConfig(e) /\ e # srv.env
             /\ srv' = [srv EXCEPT !.env = e, !.theirs = Kept(e),
                                   !.crossed = ui.env # None]
     \/ srv' = [srv EXCEPT !.gone = TRUE]
  /\ Do(ui)

Next ==
  \/ Fetched \/ LoadFails \/ NameField \/ DescriptionField \/ Networking
  \/ AddPackageRow \/ PackageRow \/ MetadataRow
  \/ save \/ cancel \/ Saved \/ SaveFails \/ OthersUpdate

-----------------------------------------------------------------------------
\* The gem packages, the dockerfile and the type survive every save, unless another
\* client changed one of them after the form was seeded; so an environment of the
\* type sandbox keeps its config.sandbox, because no save of it is accepted.  Of any
\* other environment a save drops config.sandbox and the fields the page has no name
\* for: the property does not say that they survive.
HiddenSurvives ==
  On /\ ~srv.crossed => /\ Kept(srv.env) = srv.theirs
                        /\ srv.theirs.type = "sandbox" => srv.env.rest
=============================================================================
