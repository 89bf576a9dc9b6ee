---------------------------- MODULE AccountPages ----------------------------
(***************************************************************************)
(* The pages about the user's account: the authorisation of the command    *)
(* line client (CliLogin.tsx) and of a local machine (ConnectRuntime.tsx), *)
(* the API keys and the workspace switcher, over the request helper they   *)
(* share (lib/api.ts): it sends the stored workspace pin and, when the     *)
(* server says that the user is no member, drops the pin and reloads.      *)
(***************************************************************************)
EXTENDS Integers, FiniteSets

CONSTANTS Tenants,
          MaxKeys,      \* bound: API keys ever minted
          MaxRequests,  \* bound: loads of the key list in flight
          None

VARIABLES ui, srv, left

On == ui.page = "account" /\ ~ui.reload /\ ui.sent = None
AtView(v) == On /\ ui.view = v

-----------------------------------------------------------------------------
(***************************************************************************)
(* The server's memberships and keys.                                      *)
(***************************************************************************)
\* What auth/middleware.go makes of the pin of a request.
resolveTenant(pin) ==
  IF pin = None THEN CHOOSE t \in srv.members : TRUE
  ELSE IF pin \in srv.members THEN pin ELSE None

Minted(t, source) ==
  [srv EXCEPT !.keys = @ \cup {[n |-> srv.next, tenant |-> t, source |-> source]},
              !.next = @ + 1]

\* Somebody else changes the memberships.  (EnsureTenant gives an account that has
\* lost the last one another: there always is one.)
MembershipChanges ==
  /\ On /\ left > 0 /\ left' = left - 1
  /\ \E t \in Tenants :
       /\ srv.members # {t}
       /\ srv' = [srv EXCEPT !.members = IF t \in @ THEN @ \ {t} ELSE @ \cup {t}]
  /\ UNCHANGED ui

-----------------------------------------------------------------------------
(***************************************************************************)
(* The request helper.                                                     *)
(***************************************************************************)
\* A good answer makes the next repair possible again.
Answered(u) == [u EXCEPT !.healed = FALSE]

\* "not_a_member": the stored pin goes and the page is loaded again, once.
SelfHeal(u) ==
  IF u.pin # None /\ ~u.healed
  THEN [u EXCEPT !.healed = TRUE, !.pin = None, !.reload = TRUE] ELSE u

Do(u) == ui' = u /\ left > 0 /\ left' = left - 1
See(u) == ui' = u /\ UNCHANGED left

-----------------------------------------------------------------------------
(***************************************************************************)
(* What the pages keep; "sent" is what the browser leaves with.            *)
(***************************************************************************)
Fresh(view, ok, pin, healed) ==
  [page |-> "account", view |-> view, ok |-> ok, pin |-> pin, healed |-> healed,
   reload |-> FALSE, sent |-> None, me |-> {}, tenant |-> None, selected |-> {},
   auth |-> FALSE, working |-> FALSE, error |-> FALSE, want |-> {}, batch |-> 0,
   calls |-> {}, minted |-> {}, keys |-> {}, loads |-> IF view = "keys" THEN 1 ELSE 0,
   open |-> FALSE, name |-> FALSE, created |-> None, active |-> None]

Init ==
  /\ srv = [members |-> Tenants, keys |-> {}, next |-> 1]
  /\ \E view \in {"cli", "connect", "keys", "switch"}, ok \in BOOLEAN,
        pin \in Tenants \cup {None} :
       /\ ok \/ view \in {"cli", "connect"}
       /\ ui = Fresh(view, ok, pin, FALSE)

Reload ==
  /\ ui.page = "account" /\ ui.reload
  /\ See(Fresh(ui.view, ui.ok, ui.pin, ui.healed))
  /\ UNCHANGED srv

-----------------------------------------------------------------------------
(***************************************************************************)
(* Authorising the command line client.                                    *)
(***************************************************************************)
\* Only a loopback address may receive the tokens.
CallbackOk == ui.ok

\* All the memberships, unless the client asked for one of them.
DefaultSelection(tenants, requested) ==
  IF requested \in tenants THEN {requested} ELSE tenants

\* /v1/me answers, at first or again: other memberships select afresh.
MeAnswer ==
  /\ AtView("cli") /\ CallbackOk /\ resolveTenant(ui.pin) # None
  /\ \E requested \in {None} \cup Tenants :
       See(Answered([ui EXCEPT !.me = srv.members,
             !.selected = IF ui.me = srv.members THEN @
                          ELSE DefaultSelection(srv.members, requested)]))
  /\ UNCHANGED srv

\* Signed out, or refused; the page asks to sign in from then on.
MeFails ==
  /\ On /\ ui.view \in {"cli", "connect"} /\ CallbackOk
  /\ \/ Do([ui EXCEPT !.auth = TRUE])
     \/ Do([ui EXCEPT !.error = TRUE])
     \/ resolveTenant(ui.pin) = None /\ Do(SelfHeal([ui EXCEPT !.error = TRUE]))
  /\ UNCHANGED srv

Asking == ~ui.auth /\ ui.me # {} /\ CallbackOk

Choosing == AtView("cli") /\ Asking /\ Cardinality(ui.me) > 1

toggle ==
  /\ Choosing
  /\ \E t \in ui.me :
       Do([ui EXCEPT !.selected = IF t \in @ THEN @ \ {t} ELSE @ \cup {t}])
  /\ UNCHANGED srv

SelectAllOrNone ==
  Choosing /\ (\E s \in {ui.me, {}} : Do([ui EXCEPT !.selected = s])) /\ UNCHANGED srv

\* One call per selected workspace, all at once.
approve ==
  /\ AtView("cli") /\ Asking /\ ~ui.working /\ ui.selected \cap ui.me # {}
  /\ Do([ui EXCEPT !.working = TRUE, !.error = FALSE, !.batch = @ + 1, !.minted = {},
           !.want = ui.selected \cap ui.me,
           !.calls = @ \cup {[t |-> t, n |-> ui.batch + 1] : t \in ui.selected \cap ui.me}])
  /\ UNCHANGED srv

\* What /v1/me/cli-tokens answers with, and what a script finds under a name.
cliToken(n) == [id |-> n, key |-> n]
Read(answer, field) == IF field \in DOMAIN answer THEN answer[field] ELSE None

\* One entry for the client: the workspace's name is the page's own, the token is
\* what the answer has under "token".
MintedToken(t, answer) == [tenant |-> t, token |-> Read(answer, "token")]

\* An answer of the running batch is kept until the batch is complete.
TokenAnswer ==
  /\ AtView("cli")
  /\ \E c \in ui.calls :
       /\ resolveTenant(c.t) # None
       /\ srv.next <= MaxKeys
       /\ srv' = Minted(c.t, "cli")
       /\ See(Answered([ui EXCEPT !.calls = @ \ {c},
                 !.minted = IF c.n = ui.batch /\ ui.working
                            THEN @ \cup {MintedToken(c.t, cliToken(srv.next))} ELSE @]))

Leave(kind, what) == [kind |-> kind, what |-> what]

Deliver(u) == [u EXCEPT !.sent = Leave("tokens", u.minted)]

\* Slip: what has arrived is delivered when another call fails.
DeliverPartial(c) ==
  [ui EXCEPT !.calls = @ \ {c}, !.working = FALSE, !.error = TRUE,
             !.sent = IF ui.minted = {} THEN None ELSE Leave("tokens", ui.minted)]

\* The first failure of a batch ends it; the keys already minted stay.
BatchFails(c) ==
  IF c.n = ui.batch /\ ui.working
  THEN [ui EXCEPT !.calls = @ \ {c}, !.working = FALSE, !.error = TRUE, !.minted = {}]
  ELSE [ui EXCEPT !.calls = @ \ {c}]

TokenFails ==
  /\ AtView("cli")
  /\ \E c \in ui.calls :
       Do(IF resolveTenant(c.t) # None THEN BatchFails(c)
          ELSE SelfHeal(BatchFails(c)))
  /\ UNCHANGED srv

BatchDone ==
  /\ AtView("cli") /\ ui.working /\ {c \in ui.calls : c.n = ui.batch} = {}
  /\ See(Deliver(ui)) /\ UNCHANGED srv

cancel ==
  /\ On /\ ui.view \in {"cli", "connect"} /\ Asking /\ ~ui.working
  /\ Do([ui EXCEPT !.sent = Leave("cancelled", {})])
  /\ UNCHANGED srv

-----------------------------------------------------------------------------
(***************************************************************************)
(* Authorising a machine: one code for the workspace of the pin, shown     *)
(* under the name of the workspace /v1/me answered with.                   *)
(***************************************************************************)
MachineMe ==
  /\ AtView("connect") /\ CallbackOk /\ resolveTenant(ui.pin) # None
  /\ See(Answered([ui EXCEPT !.me = srv.members, !.tenant = resolveTenant(ui.pin)]))
  /\ UNCHANGED srv

Allow ==
  /\ AtView("connect") /\ Asking /\ ~ui.working
  /\ Do([ui EXCEPT !.working = TRUE, !.error = FALSE])
  /\ UNCHANGED srv

CodeAnswer ==
  /\ AtView("connect") /\ ui.working
  /\ \/ resolveTenant(ui.pin) # None /\ See(Answered([ui EXCEPT !.sent = Leave("code", {resolveTenant(ui.pin)})]))
     \/ See([ui EXCEPT !.working = FALSE, !.error = TRUE])
     \/ resolveTenant(ui.pin) = None /\ See(SelfHeal([ui EXCEPT !.working = FALSE, !.error = TRUE]))
  /\ UNCHANGED srv

-----------------------------------------------------------------------------
(***************************************************************************)
(* API keys.                                                               *)
(***************************************************************************)
load(u) == [u EXCEPT !.loads = IF @ < MaxRequests THEN @ + 1 ELSE @]

KeysOf(t) == {k.n : k \in {x \in srv.keys : x.tenant = t}}

KeysAnswer ==
  /\ AtView("keys") /\ ui.loads > 0
  /\ \/ /\ resolveTenant(ui.pin) # None
        /\ See(Answered([ui EXCEPT !.loads = @ - 1, !.keys = KeysOf(resolveTenant(ui.pin))]))
     \/ /\ resolveTenant(ui.pin) = None
        /\ See(SelfHeal([ui EXCEPT !.loads = @ - 1]))
  /\ UNCHANGED srv

KeyDialog ==
  /\ AtView("keys")
  /\ \/ ~ui.open /\ Do([ui EXCEPT !.open = TRUE])
     \/ ui.open /\ ui.created = None /\ Do([ui EXCEPT !.name = ~@])
  /\ UNCHANGED srv

closeDialog ==
  /\ AtView("keys") /\ ui.open
  /\ Do([ui EXCEPT !.open = FALSE, !.created = None, !.name = FALSE, !.error = FALSE])
  /\ UNCHANGED srv

\* useAsyncAction: a second press while the first is out does nothing.
run(u) == IF ui.working THEN ui ELSE [u EXCEPT !.working = TRUE]

create ==
  /\ AtView("keys") /\ ui.open /\ ui.created = None
  /\ Do(run([ui EXCEPT !.error = FALSE])) /\ UNCHANGED srv

\* The dialog may have been closed meanwhile: the key waits in it.
CreateAnswer ==
  /\ AtView("keys") /\ ui.working
  /\ \/ /\ resolveTenant(ui.pin) # None /\ srv.next <= MaxKeys
        /\ srv' = Minted(resolveTenant(ui.pin), "")
        /\ See(Answered(load([ui EXCEPT !.created = srv.next, !.name = FALSE,
                                        !.working = FALSE])))
     \/ See([ui EXCEPT !.error = TRUE, !.working = FALSE]) /\ UNCHANGED srv

remove ==
  /\ AtView("keys")
  /\ \E n \in ui.keys \cap KeysOf(resolveTenant(ui.pin)) :
       /\ srv' = [srv EXCEPT !.keys = {k \in @ : k.n # n}]
       /\ Do(Answered(load(ui)))

-----------------------------------------------------------------------------
(***************************************************************************)
(* The workspace switcher.                                                 *)
(***************************************************************************)
\* The stored pin if it is still a membership, the first workspace otherwise.
SyncPin(u) ==
  IF u.pin \in u.me THEN [u EXCEPT !.active = u.pin]
  ELSE LET t == CHOOSE t \in u.me : TRUE IN [u EXCEPT !.active = t, !.pin = t]

TenantsAnswer ==
  /\ AtView("switch")
  /\ \/ resolveTenant(ui.pin) # None /\ See(SyncPin(Answered([ui EXCEPT !.me = srv.members])))
     \/ resolveTenant(ui.pin) = None /\ See(SelfHeal(ui))
  /\ UNCHANGED srv

Ready == AtView("switch") /\ ui.active # None

switchTo ==
  /\ Ready /\ (\E t \in ui.me : Do([ui EXCEPT !.pin = t, !.reload = TRUE]))
  /\ UNCHANGED srv

CreateTenant ==
  /\ Ready
  /\ \/ ~ui.working /\ Do([ui EXCEPT !.open = ~@])
     \/ ui.open /\ ~ui.working /\ Do([ui EXCEPT !.name = ~@])
  /\ UNCHANGED srv

submit ==
  /\ Ready /\ ui.open /\ ui.name /\ ~ui.working
  /\ Do([ui EXCEPT !.working = TRUE, !.error = FALSE]) /\ UNCHANGED srv

TenantCreated ==
  /\ Ready /\ ui.working
  /\ \/ \E t \in Tenants \ srv.members :
          /\ srv' = [srv EXCEPT !.members = @ \cup {t}]
          /\ See([ui EXCEPT !.pin = t, !.reload = TRUE])
     \/ See([ui EXCEPT !.error = TRUE, !.working = FALSE]) /\ UNCHANGED srv

Next ==
  \/ MembershipChanges \/ Reload \/ MeAnswer \/ MeFails \/ toggle \/ SelectAllOrNone
  \/ approve \/ TokenAnswer \/ TokenFails \/ BatchDone \/ cancel \/ MachineMe \/ Allow
  \/ CodeAnswer \/ KeysAnswer \/ KeyDialog \/ closeDialog \/ create \/ CreateAnswer
  \/ remove \/ TenantsAnswer \/ switchTo \/ CreateTenant \/ submit \/ TenantCreated

-----------------------------------------------------------------------------
\* The entry of a workspace as it reaches the client.
Untokened(t) == [tenant |-> t, token |-> None]

\* CliLogin.tsx "One mint failure aborts the whole batch": the client's address
\* receives an entry for every workspace that was approved or none at all, however
\* the calls fail, are repeated and overtake each other.  With this server no entry
\* has a token in it: the answer calls it "key", the page reads "token".
TokensAllOrNone ==
  ui.page = "account" /\ ui.view = "cli" /\ ui.sent # None
    => ui.sent \in {Leave("tokens", {Untokened(t) : t \in ui.want}),
                    Leave("cancelled", {})}
=============================================================================
