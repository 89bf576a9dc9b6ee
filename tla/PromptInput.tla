----------------------------- MODULE PromptInput -----------------------------
(***************************************************************************)
(* The prompt of the session page (components/ai-elements/prompt-input.tsx): *)
(* attached files, each with a blob URL, the text, and a submit that       *)
(* converts the files before it hands the message over.  The attachments   *)
(* are the component's own, or a provider's above it.                      *)
(***************************************************************************)
EXTENDS Naturals, Sequences, FiniteSets, SequencesExt

CONSTANTS MaxFiles, None

VARIABLES ui, srv, left

On == ui.page = "prompt"

\* One file of each kind the browser may hand over; only the first passes both
\* the accept patterns and the size limit.
FileKinds == {"good", "wrong_type", "too_large"}

Init ==
  /\ ui \in [page : {"prompt"}, provider : BOOLEAN, items : {<<>>}, live : {{}},
             next : {1}, text : {FALSE}, composing : {FALSE}, generating : {FALSE},
             shots : {{}}]
  /\ srv = [sends |-> <<>>, stopped |-> FALSE]

-----------------------------------------------------------------------------
(***************************************************************************)
(* Adding and removing files.  A file gets a blob URL when it is listed and *)
(* the URL is revoked when the file goes; both are named by a number.      *)
(***************************************************************************)
matchesAccept(k) == k # "wrong_type"

\* How many of the files pass both.
Sized(ks) == Cardinality({i \in DOMAIN ks : matchesAccept(ks[i]) /\ ks[i] # "too_large"})

Listed(u, n) ==
  LET new == [i \in 1..n |-> u.next + i - 1]
  IN [u EXCEPT !.items = @ \o new, !.live = @ \cup ToSet(new), !.next = @ + n]

Room(count) == IF MaxFiles > count THEN MaxFiles - count ELSE 0
AtMost(n, room) == IF n > room THEN room ELSE n

\* The provider's add takes what it is given; the room was computed from the
\* number of files when the caller was rendered.
addWithProviderValidation(u, ks, seen) == Listed(u, AtMost(Sized(ks), Room(seen)))

\* The component's own add computes the room as the state is updated.
addLocal(u, ks, seen) == Listed(u, AtMost(Sized(ks), Room(Len(u.items))))

add(u, ks, seen) ==
  IF u.provider THEN addWithProviderValidation(u, ks, seen) ELSE addLocal(u, ks, seen)

\* An id is drawn for each file, so it is found at one place.
Place(u, id) == CHOOSE i \in DOMAIN u.items : u.items[i] = id

\* Slip: the file leaves the list and its URL is kept.
removeLeaks(u, id) == [u EXCEPT !.items = RemoveAt(@, Place(u, id))]

remove(u, id) ==
  IF id \notin ToSet(u.items) THEN u
  ELSE [u EXCEPT !.items = RemoveAt(@, Place(u, id)), !.live = @ \ {id}]

clear(u) == [u EXCEPT !.items = <<>>, !.live = @ \ ToSet(u.items)]

Do(u) == ui' = u /\ left > 0 /\ left' = left - 1 /\ UNCHANGED srv

Given == {<<k>> : k \in FileKinds} \cup {<<"good", "good">>}

\* Paste, a drop on the form or the document, and the file dialog.
handlePaste  == \E ks \in Given : On /\ Do(add(ui, ks, Len(ui.items)))
onDrop       == \E ks \in Given : On /\ Do(add(ui, ks, Len(ui.items)))
handleChange == \E ks \in Given : On /\ Do(add(ui, ks, Len(ui.items)))

\* The screenshot is added by the function the menu was rendered with.
Screenshot == On /\ Do([ui EXCEPT !.shots = @ \cup {Len(ui.items)}])

ScreenshotTaken ==
  \E seen \in (IF On THEN ui.shots ELSE {}) :
    /\ ui' = [add(ui, <<"good">>, seen) EXCEPT !.shots = @ \ {seen}]
    /\ UNCHANGED <<srv, left>>

ScreenshotRefused ==
  \E seen \in (IF On THEN ui.shots ELSE {}) :
    /\ ui' = [ui EXCEPT !.shots = @ \ {seen}]
    /\ UNCHANGED <<srv, left>>

RemoveButton == \E id \in (IF On THEN ToSet(ui.items) ELSE {}) : Do(remove(ui, id))

-----------------------------------------------------------------------------
(***************************************************************************)
(* The textarea and the submit.                                            *)
(***************************************************************************)
Type == On /\ ~ui.text /\ Do([ui EXCEPT !.text = TRUE])

Compose == On /\ Do([ui EXCEPT !.composing = ~@])

Backspace ==
  /\ On /\ ~ui.text /\ ui.items # <<>>
  /\ Do(remove(ui, Last(ui.items)))

Submits(u) == ~u.generating

\* The text of the component's own form is reset as it is captured; the files
\* stay while they are converted, and a second submit takes them again.
handleSubmit ==
  /\ left > 0
  /\ ui' = [ui EXCEPT !.text = ui.provider /\ @]
  /\ srv' = [srv EXCEPT !.sends =
               Append(@, [step |-> "convert", files |-> ui.items, text |-> ui.text])]
  /\ left' = left - 1

Enter == On /\ ~ui.composing /\ Submits(ui) /\ handleSubmit

SubmitButton == On /\ Submits(ui) /\ handleSubmit

StopButton ==
  /\ On /\ ui.generating
  /\ srv' = [srv EXCEPT !.stopped = TRUE]
  /\ UNCHANGED <<ui, left>>

\* The caller's status says whether the button submits or stops.
StatusChanges == On /\ Do([ui EXCEPT !.generating = ~@])

Sending(n, step) == On /\ n \in DOMAIN srv.sends /\ srv.sends[n].step = step

Converted(n) ==
  /\ Sending(n, "convert")
  /\ srv' = [srv EXCEPT !.sends[n].step = "submit"]
  /\ UNCHANGED <<ui, left>>

\* What is listed when the caller is done goes, sent or not.
SubmitDone(n) ==
  /\ Sending(n, "submit")
  /\ srv' = [srv EXCEPT !.sends = RemoveAt(@, n)]
  /\ ui' = [clear(ui) EXCEPT !.text = ~ui.provider /\ @]
  /\ UNCHANGED left

SubmitFails(n) ==
  /\ Sending(n, "submit")
  /\ srv' = [srv EXCEPT !.sends = RemoveAt(@, n)]
  /\ UNCHANGED <<ui, left>>

\* The component's own URLs are revoked when it goes; a provider's stay with it.
Unmount ==
  /\ On
  /\ ui' = [ui EXCEPT !.page = "prompt_gone", !.live = IF ui.provider THEN @ ELSE @ \ ToSet(ui.items),
                      !.items = IF ui.provider THEN @ ELSE <<>>]
  /\ UNCHANGED <<srv, left>>

Next ==
  \/ handlePaste \/ onDrop \/ handleChange
  \/ Screenshot \/ ScreenshotTaken \/ ScreenshotRefused \/ RemoveButton
  \/ Type \/ Compose \/ Backspace \/ Enter \/ SubmitButton \/ StopButton \/ StatusChanges
  \/ \E n \in 1..2 : Converted(n) \/ SubmitDone(n) \/ SubmitFails(n)
  \/ Unmount

-----------------------------------------------------------------------------
Here == ui.page \in {"prompt", "prompt_gone"}

\* The URLs in use are those of the files listed: a submit, a removal or an
\* unmount in any order neither leaks one nor leaves a file without.
UrlsMatchItems == Here => ui.live = ToSet(ui.items)
=============================================================================
