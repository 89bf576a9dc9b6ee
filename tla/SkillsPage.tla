----------------------------- MODULE SkillsPage -----------------------------
(***************************************************************************)
(* The page of the skills (pages/SkillsList.tsx): the list, the dialog     *)
(* that uploads one, and the dialog that shows a skill, its files and its  *)
(* versions and uploads another version.  Nothing ties an answer to the    *)
(* dialog it was asked for.                                                *)
(***************************************************************************)
EXTENDS Naturals, FiniteSets

CONSTANTS BuiltIn,      \* Anthropic's skills
          Custom,       \* the skills a user may upload
          MaxVersions,  \* bound: versions of a skill
          None

VARIABLES ui, srv, left

On == ui.page = "skills"

\* What a user may pick: an archive, one over 25 MB, a file of another kind.
Files == {"zip", "big", "other"}

accept(f, file) ==
  IF file = "zip" THEN [f EXCEPT !.zip = TRUE, !.error = FALSE]
  ELSE [f EXCEPT !.error = TRUE]

NoForm == [open |-> FALSE, zip |-> FALSE, error |-> FALSE, uploading |-> FALSE]

\* A version of a skill: what its row, its dialog and its files are of.
Version(s, n) == [id |-> s, version |-> n]

Init ==
  /\ ui = [page |-> "skills", source |-> "any", create |-> NoForm, nv |-> NoForm,
           detail |-> None, files |-> None, loading |-> FALSE, list |-> {}, fresh |-> FALSE]
  /\ \E here \in SUBSET Custom :
       srv = [versions |-> [s \in BuiltIn \cup Custom |->
                              IF s \in BuiltIn \cup here THEN 1 ELSE 0],
              uploads |-> {}, published |-> {}, reads |-> {}, deletes |-> {},
              tag |-> 0, crossed |-> FALSE]

Do(u) == ui' = u /\ left > 0 /\ left' = left - 1

Exists(s) == srv.versions[s] > 0

-----------------------------------------------------------------------------
load(u) == [u EXCEPT !.fresh = FALSE]

\* The source filter is the server's: the rows are what it returned.
SkillsArrive ==
  /\ On /\ ~ui.fresh
  /\ ui' = [ui EXCEPT !.fresh = TRUE,
              !.list = {Version(s, srv.versions[s]) :
                 s \in {t \in BuiltIn \cup Custom :
                          /\ Exists(t)
                          /\ ui.source = "anthropic" => t \in BuiltIn
                          /\ ui.source = "custom" => t \in Custom}}]
  /\ UNCHANGED <<srv, left>>

Source ==
  /\ On /\ \E s \in {"any", "anthropic", "custom"} \ {ui.source} :
             Do(load([ui EXCEPT !.source = s]))
  /\ UNCHANGED srv

\* Either delete: the row's leaves the dialogs alone, the dialog's closes it.
Asked(s, dialog) == [id |-> s, dialog |-> dialog, tag |-> srv.tag]

deleteSkillById ==
  /\ On /\ ui.detail = None
  /\ \E v \in ui.list :
       /\ v.id \in Custom
       /\ srv' = [srv EXCEPT !.deletes = @ \cup {Asked(v.id, FALSE)}, !.tag = @ + 1]
  /\ Do(ui)

-----------------------------------------------------------------------------
(***************************************************************************)
(* The dialog that uploads a skill.                                        *)
(***************************************************************************)
OpenCreate ==
  /\ On /\ ui.detail = None /\ ~ui.create.open
  /\ Do([ui EXCEPT !.create.open = TRUE])
  /\ UNCHANGED srv

CloseCreate ==
  /\ On /\ ui.create.open /\ ~ui.create.uploading
  /\ Do([ui EXCEPT !.create = NoForm])
  /\ UNCHANGED srv

\* The file input takes no heed of an upload: only pointers are kept off it.
CreateFile ==
  /\ On /\ ui.create.open
  /\ \/ \E f \in Files : Do([ui EXCEPT !.create = accept(@, f)])
     \/ ui.create.zip /\ Do([ui EXCEPT !.create.zip = FALSE])
  /\ UNCHANGED srv

doCreate ==
  /\ On /\ ui.create.open /\ ui.create.zip /\ ~ui.create.uploading
  /\ Do([ui EXCEPT !.create.uploading = TRUE, !.create.error = FALSE])
  /\ UNCHANGED srv

CreateAnswer ==
  /\ On /\ ui.create.uploading
  /\ \/ \E s \in {t \in Custom : ~Exists(t)} :
          /\ srv' = [srv EXCEPT !.versions[s] = 1]
          /\ ui' = load([ui EXCEPT !.create = NoForm])
     \/ srv' = srv /\ ui' = [ui EXCEPT !.create.uploading = FALSE, !.create.error = TRUE]
  /\ UNCHANGED left

-----------------------------------------------------------------------------
(***************************************************************************)
(* The dialog of a skill.                                                  *)
(***************************************************************************)
Reading(s, v) ==
  [s EXCEPT !.reads = @ \cup {[of |-> v, tag |-> s.tag]}, !.tag = @ + 1,
            !.crossed = s.reads # {}]

Shown(u, v) == [u EXCEPT !.detail = v, !.loading = TRUE,
                         !.nv = [NoForm EXCEPT !.uploading = u.nv.uploading]]

\* Only custom skills open on a click.
openDetail ==
  /\ On /\ ui.detail = None /\ ~ui.create.open
  /\ \E v \in ui.list :
       v.id \in Custom /\ Do(Shown(ui, v)) /\ srv' = Reading(srv, v)

\* Whichever dialog is open gets the files; a read that fails empties them.
DetailAnswer ==
  /\ On
  /\ \E r \in srv.reads :
       /\ srv' = [srv EXCEPT !.reads = @ \ {r}]
       /\ \/ Exists(r.of.id) /\ ui' = [ui EXCEPT !.files = r.of, !.loading = FALSE]
          \/ ui' = [ui EXCEPT !.files = None, !.loading = FALSE]
  /\ UNCHANGED left

closed(u) == [u EXCEPT !.detail = None, !.files = None,
                       !.nv = [NoForm EXCEPT !.uploading = u.nv.uploading]]

closeDetail == On /\ ui.detail # None /\ Do(closed(ui)) /\ UNCHANGED srv

deleteSkill ==
  /\ On /\ ui.detail # None /\ ~ui.loading
  /\ Do(ui)
  /\ srv' = [srv EXCEPT !.deletes = @ \cup {Asked(ui.detail.id, TRUE)}, !.tag = @ + 1]

Deleted ==
  /\ On
  /\ \E d \in srv.deletes :
       \/ /\ srv' = [srv EXCEPT !.deletes = @ \ {d}, !.versions[d.id] = 0]
          /\ ui' = load(IF d.dialog THEN closed(ui) ELSE ui)
       \/ srv' = [srv EXCEPT !.deletes = @ \ {d}] /\ ui' = ui
  /\ UNCHANGED left

-----------------------------------------------------------------------------
(***************************************************************************)
(* Another version, uploaded from that dialog.                             *)
(***************************************************************************)
Inside == On /\ ui.detail # None /\ ~ui.loading

startNewVersion ==
  /\ Inside
  /\ Do([ui EXCEPT !.nv = [NoForm EXCEPT !.open = TRUE, !.uploading = ui.nv.uploading]])
  /\ UNCHANGED srv

NvFile ==
  /\ Inside /\ ui.nv.open
  /\ \/ \E f \in Files : Do([ui EXCEPT !.nv = accept(@, f)])
     \/ ui.nv.zip /\ Do([ui EXCEPT !.nv.zip = FALSE])
     \/ ~ui.nv.uploading /\ Do([ui EXCEPT !.nv = NoForm])
  /\ UNCHANGED srv

\* The dialog may be closed, and another skill's opened, before the answers.
doNewVersion ==
  /\ Inside /\ ui.nv.open /\ ui.nv.zip /\ ~ui.nv.uploading
  /\ Do([ui EXCEPT !.nv.error = FALSE, !.nv.uploading = TRUE])
  /\ srv' = [srv EXCEPT !.uploads = @ \cup {ui.detail.id}]

Uploaded ==
  /\ On
  /\ \E s \in srv.uploads :
       \/ /\ srv.versions[s] \in 1..(MaxVersions - 1)
          /\ srv' = [srv EXCEPT !.uploads = @ \ {s}, !.versions[s] = @ + 1,
                                !.published = @ \cup {s}]
          /\ ui' = load([ui EXCEPT !.nv.open = FALSE, !.nv.zip = FALSE])
       \/ /\ srv' = [srv EXCEPT !.uploads = @ \ {s}]
          /\ ui' = [ui EXCEPT !.nv.error = TRUE, !.nv.uploading = FALSE]
  /\ UNCHANGED left

\* Slip: the row that was read again is shown over the files already there.
RefreshedRow(v) ==
  /\ ui' = [ui EXCEPT !.detail = v, !.nv.uploading = FALSE]
  /\ srv' = [srv EXCEPT !.published = @ \ {v.id}]

\* The row is read again and its dialog opened, even if it was closed.
Refreshed(v) ==
  /\ ui' = [Shown(ui, v) EXCEPT !.nv.uploading = FALSE]
  /\ srv' = Reading([srv EXCEPT !.published = @ \ {v.id}], v)

NvRefreshed ==
  /\ On
  /\ \E s \in srv.published :
       \/ Exists(s) /\ Refreshed(Version(s, srv.versions[s]))
       \/ /\ srv' = [srv EXCEPT !.published = @ \ {s}]
          /\ ui' = [ui EXCEPT !.nv.error = TRUE, !.nv.uploading = FALSE]
  /\ UNCHANGED left

Next ==
  \/ SkillsArrive \/ Source \/ deleteSkillById \/ OpenCreate \/ CloseCreate
  \/ CreateFile \/ doCreate \/ CreateAnswer \/ openDetail \/ DetailAnswer
  \/ closeDetail \/ deleteSkill \/ Deleted \/ startNewVersion \/ NvFile
  \/ doNewVersion \/ Uploaded \/ NvRefreshed

-----------------------------------------------------------------------------
\* The files listed under a version are that version's, also after another was
\* uploaded; unless a second dialog was opened while a first was still read.
FilesOfVersion ==
  On /\ ui.detail # None /\ ~ui.loading /\ ~srv.crossed
    => ui.files \in {None, ui.detail}
=============================================================================
