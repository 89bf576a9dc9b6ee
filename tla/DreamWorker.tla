---------------------------- MODULE DreamWorker ----------------------------
(***************************************************************************)
(* One dream (internal/dream/worker.go, internal/store/dreams.go): the     *)
(* memories of an input store are copied to an output store.  The request  *)
(* that creates the dream processes it at once, in the background, and so  *)
(* does every tick of the worker until the dream has ended; each statement *)
(* commits on its own.                                                     *)
(***************************************************************************)
EXTENDS Naturals, Sequences

CONSTANTS Paths, Contents,
          Large,       \* the contents over 4 KB, which are kept as blobs
          Blank,       \* the empty content
          MaxStores,   \* bound: output stores created
          MaxEdits,    \* bound: changes of the input store
          MaxCrashes,  \* bound: failed statements and crashes
          None

DreamAssumption ==
  /\ Blank \in Contents \ Large /\ None \notin Contents /\ None \notin Nat
  /\ MaxStores \in Nat /\ MaxEdits \in Nat /\ MaxCrashes \in Nat

VARIABLES
  dream,    \* the row: its status and its output store
  input,    \* the input store: its memories, and whether it can be read
  outputs,  \* the memories of each store that was created
  procs,    \* the two activations of Process: where each is and what it holds
  cancel,   \* a cancel that has read a dream it may cancel
  copied,   \* history: the memories that the completing activation listed
  doubled,  \* history: both activations were at work at once
  edits, crashes

dvars == <<dream, input, outputs, procs, cancel, copied, doubled, edits, crashes>>

Procs == {"request", "ticker"}

Statuses == {"pending", "running", "completed", "failed", "canceled"}
Points   == {"rest", "get", "create", "mark", "again", "write"}
Memories == [Paths -> Contents \cup {None}]
Stores   == {None} \cup 1..Len(outputs)

DreamTypeOK ==
  /\ outputs \in Seq(Memories)
  /\ dream \in [status : Statuses, output : Stores]
  /\ input \in [memories : Memories, there : BOOLEAN]
  /\ procs \in [Procs -> [at : Points, store : Stores, todo : SUBSET Paths,
                          listed : Memories]]
  /\ cancel \in BOOLEAN /\ doubled \in BOOLEAN /\ copied \in Memories
  /\ edits \in Nat /\ crashes \in Nat

Empty == [p \in Paths |-> None]
Rest  == [at |-> "rest", store |-> None, todo |-> {}, listed |-> Empty]

Init ==
  /\ dream = [status |-> "pending", output |-> None]
  /\ input = [memories |-> [p \in Paths |-> CHOOSE c \in Contents : TRUE], there |-> TRUE]
  /\ outputs = <<>> /\ cancel = FALSE /\ copied = Empty /\ doubled = FALSE
  /\ procs = [p \in Procs |-> IF p = "request" THEN [Rest EXCEPT !.at = "get"] ELSE Rest]
  /\ edits = 0 /\ crashes = 0

Active == dream.status \in {"pending", "running"}

Goes(p, to) == procs' = [procs EXCEPT ![p] = to]

World == <<input, cancel, edits, crashes>>

\* The worker lists the active dreams; one process ticks.
Tick ==
  /\ procs["ticker"].at = "rest" /\ Active
  /\ Goes("ticker", [Rest EXCEPT !.at = "get"])
  /\ doubled' = (doubled \/ procs["request"].at # "rest")
  /\ UNCHANGED <<dream, outputs, copied, World>>

MarkFailed == IF Active THEN [dream EXCEPT !.status = "failed"] ELSE dream

\* An error of the tick's activation fails the dream, the request's is dropped.
Returns(p, error) ==
  /\ Goes(p, Rest)
  /\ dream' = IF error /\ p = "ticker" THEN MarkFailed ELSE dream

\* The dream and its input are read; with no output yet a store is created next.
Get(p) ==
  /\ procs[p].at = "get"
  /\ IF ~Active THEN Returns(p, FALSE)
     ELSE IF ~input.there THEN Goes(p, Rest) /\ dream' = MarkFailed
     ELSE /\ Goes(p, [procs[p] EXCEPT !.store = dream.output,
                        !.at = IF dream.output = None THEN "create" ELSE "again"])
          /\ UNCHANGED dream
  /\ UNCHANGED <<outputs, copied, doubled, World>>

CreateStore(p) ==
  /\ procs[p].at = "create" /\ Len(outputs) < MaxStores
  /\ outputs' = Append(outputs, Empty)
  /\ Goes(p, [procs[p] EXCEPT !.store = Len(outputs) + 1, !.at = "mark"])
  /\ UNCHANGED <<dream, copied, doubled, World>>

\* A dream that is no longer pending keeps its store; this activation goes on
\* with the one it created.
MarkRunning(p) ==
  /\ procs[p].at = "mark"
  /\ dream' = IF dream.status = "pending"
              THEN [status |-> "running", output |-> procs[p].store] ELSE dream
  /\ Goes(p, [procs[p] EXCEPT !.at = "again"])
  /\ UNCHANGED <<outputs, copied, doubled, World>>

\* Slip: what an earlier activation wrote is left out.
ToCopyRest(p) ==
  {m \in Paths : input.memories[m] # None /\ outputs[procs[p].store][m] = None}

ToCopy(p) == {m \in Paths : input.memories[m] # None}

\* The dream is read again, and the memories to copy are listed.
GetAgain(p) ==
  /\ procs[p].at = "again"
  /\ IF dream.status # "running" THEN Goes(p, Rest)
     ELSE Goes(p, [procs[p] EXCEPT !.at = "write", !.listed = input.memories,
                     !.todo = ToCopy(p)])
  /\ UNCHANGED <<dream, outputs, copied, doubled, World>>

\* A listed row has the content that is kept in it; a blob is not read for it.
Inline(c) == IF c \in Large THEN Blank ELSE c

\* A memory replaces the one at its path.
WriteMemory(p) ==
  /\ procs[p].at = "write"
  /\ \E m \in procs[p].todo :
       /\ outputs' = [outputs EXCEPT ![procs[p].store][m] = Inline(procs[p].listed[m])]
       /\ Goes(p, [procs[p] EXCEPT !.todo = @ \ {m}])
  /\ UNCHANGED <<dream, copied, doubled, World>>

\* The row says that it was running; what was cancelled meanwhile stays so.
MarkCompleted(p) ==
  /\ procs[p].at = "write" /\ procs[p].todo = {}
  /\ IF dream.status = "running"
     THEN /\ dream' = [dream EXCEPT !.status = "completed"]
          /\ copied' = procs[p].listed
          /\ Goes(p, Rest)
     ELSE Returns(p, TRUE) /\ UNCHANGED copied
  /\ UNCHANGED <<outputs, doubled, World>>

StepFails(p) ==
  /\ procs[p].at # "rest" /\ crashes < MaxCrashes /\ crashes' = crashes + 1
  /\ Returns(p, TRUE)
  /\ UNCHANGED <<input, outputs, cancel, copied, doubled, edits>>

\* The request's activation is not started again.
Crash ==
  /\ crashes < MaxCrashes /\ crashes' = crashes + 1
  /\ procs' = [p \in Procs |-> Rest] /\ cancel' = FALSE
  /\ UNCHANGED <<dream, input, outputs, copied, doubled, edits>>

\* Cancel reads the row and then writes it, without asking for its status again.
CancelRead ==
  /\ ~cancel /\ Active /\ cancel' = TRUE
  /\ UNCHANGED <<dream, input, outputs, procs, copied, doubled, edits, crashes>>

Cancel ==
  /\ cancel /\ cancel' = FALSE
  /\ dream' = [dream EXCEPT !.status = "canceled"]
  /\ UNCHANGED <<input, outputs, procs, copied, doubled, edits, crashes>>

\* Users and agents change the input store while it is copied, or archive it.
EditInput ==
  /\ edits < MaxEdits /\ edits' = edits + 1
  /\ \/ \E m \in Paths, c \in Contents \cup {None} : input' = [input EXCEPT !.memories[m] = c]
     \/ input' = [input EXCEPT !.there = FALSE]
  /\ UNCHANGED <<dream, outputs, procs, cancel, copied, doubled, crashes>>

Process(p) ==
  Get(p) \/ CreateStore(p) \/ MarkRunning(p) \/ GetAgain(p) \/ WriteMemory(p)
  \/ MarkCompleted(p) \/ StepFails(p)

Next == Tick \/ (\E p \in Procs : Process(p)) \/ Crash \/ CancelRead \/ Cancel \/ EditInput

Spec == Init /\ [][Next]_dvars

-----------------------------------------------------------------------------
\* worker.go, the loop over ListMemories: the output store of a completed dream
\* holds every memory that was listed, a small one whole and one over 4 KB as an
\* empty one, whatever was interrupted and taken up again before; unless the request
\* and a tick worked on it at once, when the one that completes may have copied to a
\* store of its own.
CompletedCopies ==
  dream.status = "completed" /\ ~doubled =>
    \A m \in Paths : copied[m] # None => outputs[dream.output][m] = Inline(copied[m])
=============================================================================
