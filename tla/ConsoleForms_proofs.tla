------------------------ MODULE ConsoleForms_proofs -------------------------
(***************************************************************************)
(* Theorems about the pages of the console on which a user fills something *)
(* in: signing in, a credential, a publication, a binding, an environment, *)
(* an authorisation.  A behaviour of Console stays on its page, so the     *)
(* invariant of a page needs the steps of that page only.                  *)
(***************************************************************************)
EXTENDS Console, FiniteSetTheorems, SequenceTheorems, TLAPS

vars == <<ui, srv, left, route>>

-----------------------------------------------------------------------------
(***************************************************************************)
(* Signing in.                                                             *)
(***************************************************************************)
LoginUi ==
  [page : {"login", "signed_in"}, mode : LP!SendModes \cup LP!OtpModes,
   email : Emails \cup {None}, password : BOOLEAN, otp : BOOLEAN, error : BOOLEAN,
   op : LP!Ops \cup {None}, token : {"none", "fresh", "spent"}]

LoginSrv ==
  [verify : BOOLEAN, siteKey : BOOLEAN, google : BOOLEAN, session : BOOLEAN,
   pinned : BOOLEAN, reused : SUBSET {"start", "again"}]

\* A call that drops its token with its answer.
Sends(op) == op.kind = "resend" \/ op.mode \in LP!SendModes

\* A spent token is that of the call that is out; only such a call waits for one.
SpentIsOut(u) ==
  /\ u.token = "spent" => u.op # None /\ Sends(u.op)
  /\ u.op # None /\ LP!Waits(u.op) => Sends(u.op)

LoginInv ==
  /\ ui \in LoginUi /\ srv \in LoginSrv
  /\ ui.page = "login" => "start" \notin srv.reused /\ SpentIsOut(ui)

\* Starting a call keeps the page, and what it spends it sends.
LEMMA BuildsCall ==
  ASSUME NEW u \in LoginUi, NEW op \in LP!Ops, Sends(op), None \notin LP!Ops
  PROVE  LET v == LP!buildTurnstileOpts(u, op)
         IN /\ v \in LoginUi /\ SpentIsOut(v) /\ v.page = u.page
<1> DEFINE st == LP!Next1(op)
           st2 == IF op.stage = "start" THEN "token" ELSE "token2"
           o1 == [op EXCEPT !.stage = st]
           o2 == [op EXCEPT !.stage = st2]
           v == LP!buildTurnstileOpts(u, op)
<1>1. st \in {"call", "call2"} /\ st2 \in {"token", "token2"}
  BY DEF LP!Next1
<1> HIDE DEF st, st2
<1>2. /\ o1 \in LP!Ops /\ Sends(o1) /\ ~LP!Waits(o1)
      /\ o2 \in LP!Ops /\ Sends(o2)
  BY <1>1 DEF LP!Ops, Sends, LP!Waits
<1>3. \/ v = [u EXCEPT !.op = o1]
      \/ u.token = "none" /\ v = [u EXCEPT !.op = o2]
      \/ v = [u EXCEPT !.op = o1, !.token = "spent"]
  BY DEF LP!buildTurnstileOpts, st, st2
<1> HIDE DEF o1, o2, v
<1>4. v \in LoginUi /\ v.op \in {o1, o2} /\ v.page = u.page
  BY <1>2, <1>3 DEF LoginUi
<1> QED
  BY <1>2, <1>4 DEF SpentIsOut, v

\* A token that no call was sent with is not taken again,
LEMMA TakesOther ==
  ASSUME srv \in LoginSrv, NEW op, LP!TakesToken(op), ui.token # "spent"
  PROVE  srv' \in LoginSrv /\ srv'.reused = srv.reused
BY DEF LP!TakesToken, LoginSrv

\* and one that was, is by the second call of an attempt.
LEMMA TakesAgain ==
  ASSUME srv \in LoginSrv, NEW op, LP!TakesToken(op), op.stage = "again"
  PROVE  /\ srv' \in LoginSrv
         /\ "start" \notin srv.reused => "start" \notin srv'.reused
<1> DEFINE r == IF srv.siteKey /\ ui.token = "spent" THEN srv.reused \cup {"again"}
                ELSE srv.reused
<1>1. srv' = [srv EXCEPT !.reused = r]
  BY DEF LP!TakesToken, LoginSrv
<1>2. r \in SUBSET {"start", "again"} /\ ("start" \notin srv.reused => "start" \notin r)
  BY DEF LoginSrv
<1> HIDE DEF r
<1> QED
  BY <1>1, <1>2 DEF LoginSrv

\* An answer ends the call and drops the token it sent.
LEMMA SettlesCall ==
  ASSUME NEW u \in LoginUi, u.op \in LP!Ops
  PROVE  LET v == LP!Settled(u)
         IN /\ v \in LoginUi /\ v.page = u.page /\ v.op = None /\ v.mode = u.mode
            /\ v.password = u.password
            /\ (u.token = "spent" => Sends(u.op)) => v.token # "spent"
<1> DEFINE v == LP!Settled(u)
<1>1. v = IF Sends(u.op) THEN [u EXCEPT !.op = None, !.token = "none"]
          ELSE [u EXCEPT !.op = None]
  BY DEF LP!Settled, LP!resetTurnstile, Sends, LoginUi
<1> HIDE DEF v
<1>2. CASE Sends(u.op)
  BY <1>1, <1>2 DEF LoginUi, v
<1>3. CASE ~Sends(u.op)
  BY <1>1, <1>3 DEF LoginUi, v
<1> QED
  BY <1>2, <1>3

LEMMA LoginStep ==
  ASSUME CallAssumption, LoginInv, LP!Next
  PROVE  LoginInv'
<1>a. /\ ui \in LoginUi /\ srv \in LoginSrv /\ None \notin LP!Ops
      /\ ui.page = "login" => "start" \notin srv.reused /\ SpentIsOut(ui)
  BY DEF LoginInv, CallAssumption
<1>b. ui.op # None => ui.op \in LP!Ops
  BY <1>a DEF LoginUi
<1> SUFFICES /\ ui' \in LoginUi /\ srv' \in LoginSrv
             /\ ui'.page = "login" => "start" \notin srv'.reused /\ SpentIsOut(ui')
  BY DEF LoginInv, SpentIsOut, LP!Waits
\* The field that an edit changes is neither the call nor the token.
<1>c. ASSUME NEW u \in LoginUi, u.op = ui.op, u.token = ui.token, u.page = ui.page,
             ui' = u, srv' = srv
      PROVE  /\ ui' \in LoginUi /\ srv' \in LoginSrv
             /\ ui'.page = "login" => "start" \notin srv'.reused /\ SpentIsOut(ui')
  BY <1>a, <1>c DEF SpentIsOut
\* An answer, whatever else it changes.
<1>d. ASSUME ui.op # None, ui' \in LoginUi, ui'.op = None,
             ui'.token = LP!Settled(ui).token, ui'.page = ui.page, srv' = srv
      PROVE  /\ ui' \in LoginUi /\ srv' \in LoginSrv
             /\ ui'.page = "login" => "start" \notin srv'.reused /\ SpentIsOut(ui')
  BY <1>a, <1>b, <1>d, SettlesCall DEF SpentIsOut
<1>1. CASE LP!handleTurnstileToken
  <2>1. CASE ui.op # None /\ LP!Waits(ui.op)
    <3> DEFINE o == [ui.op EXCEPT !.stage = LP!Next1(ui.op)]
    <3>1. ui' = [ui EXCEPT !.op = o, !.token = "spent"] /\ srv' = srv /\ ui.page = "login"
      BY <1>1, <1>a, <2>1 DEF LP!handleTurnstileToken, LP!Mounted, LP!On, LoginUi
    <3>2. o \in LP!Ops /\ Sends(o) = Sends(ui.op)
      BY <1>b, <2>1 DEF LP!Ops, Sends, LP!Next1
    <3> HIDE DEF o
    <3>3. ui' \in LoginUi /\ ui'.op = o /\ ui'.page = ui.page
      BY <1>a, <3>1, <3>2 DEF LoginUi
    <3> QED
      BY <1>a, <2>1, <3>1, <3>2, <3>3 DEF SpentIsOut
  <2>2. CASE ~(ui.op # None /\ LP!Waits(ui.op))
    <3>1. ui' = [ui EXCEPT !.token = "fresh"] /\ srv' = srv
      BY <1>1, <2>2 DEF LP!handleTurnstileToken
    <3>2. ui' \in LoginUi /\ ui'.op = ui.op /\ ui'.page = ui.page /\ ui'.token = "fresh"
      BY <1>a, <3>1 DEF LoginUi
    <3> QED
      BY <1>a, <3>1, <3>2 DEF SpentIsOut
  <2> QED
    BY <2>1, <2>2
<1>2. CASE LP!onExpire
  <2>1. ui' = [ui EXCEPT !.token = "none"] /\ srv' = srv
    BY <1>2 DEF LP!onExpire, LP!Do, LP!resetTurnstile
  <2>2. ui' \in LoginUi /\ ui'.op = ui.op /\ ui'.page = ui.page /\ ui'.token = "none"
    BY <1>a, <2>1 DEF LoginUi
  <2> QED
    BY <1>a, <2>1, <2>2 DEF SpentIsOut
<1>3. CASE LP!EmailField
  <2>1. PICK e \in Emails : ui' = [ui EXCEPT !.email = e] /\ srv' = srv
    BY <1>3 DEF LP!EmailField, LP!Do
  <2> QED
    BY <1>a, <1>c, <2>1 DEF LoginUi
<1>4. CASE LP!PasswordField
  <2>1. ui' = [ui EXCEPT !.password = TRUE] /\ srv' = srv
    BY <1>4 DEF LP!PasswordField, LP!Do
  <2> QED
    BY <1>a, <1>c, <2>1 DEF LoginUi
<1>5. CASE LP!OtpField
  <2>1. ui' = [ui EXCEPT !.otp = TRUE] /\ srv' = srv
    BY <1>5 DEF LP!OtpField, LP!Do
  <2> QED
    BY <1>a, <1>c, <2>1 DEF LoginUi
<1>6. CASE LP!ModeSwitchers
  <2>1. PICK m \in LP!OtherModes(ui.mode) :
          /\ ui' = [ui EXCEPT !.mode = m, !.error = FALSE,
                              !.otp = @ /\ ui.mode \notin LP!OtpModes]
          /\ srv' = srv
    BY <1>6 DEF LP!ModeSwitchers, LP!Do
  <2>2. m \in LP!SendModes \cup LP!OtpModes
    <3>1. ui.mode \in LP!SendModes \cup LP!OtpModes
      BY <1>a DEF LoginUi
    <3> QED
      BY <3>1 DEF LP!OtherModes, LP!SendModes, LP!OtpModes
  <2> DEFINE o == ui.otp /\ ui.mode \notin LP!OtpModes
             u == [ui EXCEPT !.mode = m, !.error = FALSE, !.otp = o]
  <2>3. o \in BOOLEAN
    BY <1>a DEF LoginUi
  <2>4. ui' = u /\ srv' = srv
    BY <2>1
  <2> HIDE DEF o
  <2>5. u \in LoginUi /\ u.op = ui.op /\ u.token = ui.token /\ u.page = ui.page
    BY <1>a, <2>2, <2>3 DEF LoginUi
  <2> HIDE DEF u
  <2> QED
    BY <1>c, <2>4, <2>5
<1>7. ASSUME NEW kind \in {"submit", "resend"}, ui.op = None
      PROVE  /\ LP!Op(kind) \in LP!Ops /\ LP!Op(kind).stage = "start"
             /\ LP!Op(kind).kind = kind /\ LP!Op(kind).mode = ui.mode
             /\ LP!Started \in LoginUi /\ LP!Started.page = ui.page
             /\ LP!Started.token = ui.token
  BY <1>a, <1>7 DEF LP!Op, LP!Ops, LP!Started, LoginUi
<1>8. CASE LP!handleSubmit
  <2>1. ui.op = None /\ ui.page = "login" /\ ui.token # "spent"
    BY <1>8, <1>a DEF LP!handleSubmit, LP!On, SpentIsOut
  <2>2. srv' \in LoginSrv /\ "start" \notin srv'.reused
    <3>1. srv' = srv \/ LP!TakesToken(LP!Op("submit"))
      BY <1>8, <2>1 DEF LP!handleSubmit
    <3> QED
      BY <1>a, <2>1, <3>1, TakesOther
  <2>3. CASE ui.mode \in LP!SendModes
    <3>1. ui' = LP!buildTurnstileOpts(LP!Started, LP!Op("submit"))
      BY <1>8, <2>3 DEF LP!handleSubmit, LP!Do
    <3>2. Sends(LP!Op("submit"))
      BY <1>7, <2>1, <2>3 DEF Sends
    <3> QED
      BY <1>7, <1>a, <2>1, <2>2, <3>1, <3>2, BuildsCall
  <2>4. CASE ui.mode \notin LP!SendModes
    <3> DEFINE o == [LP!Op("submit") EXCEPT !.stage = "call"]
    <3>1. ui' = [LP!Started EXCEPT !.op = o]
      BY <1>8, <2>4 DEF LP!handleSubmit, LP!Do
    <3>2. o \in LP!Ops /\ ~LP!Waits(o)
      <4> HIDE DEF LP!Op
      <4> QED
        BY <1>7, <2>1 DEF LP!Ops, LP!Waits
    <3> HIDE DEF o
    <3>3. ui' \in LoginUi /\ ui'.op = o /\ ui'.token = ui.token
      BY <1>7, <2>1, <3>1, <3>2 DEF LoginUi
    <3> QED
      BY <2>1, <2>2, <3>2, <3>3 DEF SpentIsOut
  <2> QED
    BY <2>3, <2>4
<1>9. CASE LP!handleResend
  <2>1. /\ ui' = LP!buildTurnstileOpts(LP!Started, LP!Op("resend"))
        /\ LP!TakesToken(LP!Op("resend")) /\ ui.op = None /\ ui.page = "login"
        /\ ui.token # "spent"
    BY <1>9, <1>a DEF LP!handleResend, LP!Do, LP!On, SpentIsOut
  <2>2. Sends(LP!Op("resend"))
    BY <1>7, <2>1 DEF Sends
  <2>3. srv' \in LoginSrv /\ "start" \notin srv'.reused
    BY <1>a, <2>1, TakesOther
  <2> QED
    BY <1>7, <1>a, <2>1, <2>2, <2>3, BuildsCall
<1>10. CASE LP!handleGoogle \/ LP!AutoRedirect
  <2>1. /\ ui' = [ui EXCEPT !.page = "signed_in", !.op = None]
           \/ ui' = [ui EXCEPT !.page = "signed_in"]
        /\ srv' = [srv EXCEPT !.session = TRUE] \/ srv' = srv
    BY <1>10 DEF LP!handleGoogle, LP!AutoRedirect, LP!Do
  <2>2. ui' \in LoginUi /\ ui'.page = "signed_in"
    BY <1>a, <2>1 DEF LoginUi
  <2>3. srv' \in LoginSrv
    BY <1>a, <2>1 DEF LoginSrv
  <2> QED
    BY <2>2, <2>3
<1>11. CASE LP!TokenTimesOut \/ LP!CallFails
  <2> DEFINE u == [ui EXCEPT !.error = TRUE]
  <2>1. ui.op # None /\ ui' = LP!Settled(u) /\ srv' = srv
    BY <1>11 DEF LP!TokenTimesOut, LP!CallFails, LP!InCall, LP!Fails
  <2>2. u \in LoginUi /\ u.op = ui.op /\ u.token = ui.token /\ u.page = ui.page
    BY <1>a DEF LoginUi
  <2> HIDE DEF u
  <2> QED
    BY <1>a, <1>b, <2>1, <2>2, SettlesCall DEF SpentIsOut
<1>e. ASSUME ui.op # None
      PROVE  /\ LP!Settled(ui) \in LoginUi /\ LP!Settled(ui).op = None
             /\ LP!Settled(ui).page = ui.page /\ LP!Settled(ui).password \in BOOLEAN
  BY <1>a, <1>b, <1>e, SettlesCall DEF LoginUi
<1>12. CASE LP!SignedUp
  <2>1. ui.op # None /\ ui.op.stage = "call" /\ ui.op.mode = "signup"
    BY <1>12 DEF LP!SignedUp, LP!Call, LP!InCall
  <2>2. CASE srv.verify
    <3>1. /\ ui' = [LP!Settled(ui) EXCEPT !.otp = FALSE, !.mode = "verify-signup"]
          /\ srv' = srv
      BY <1>12, <2>2 DEF LP!SignedUp
    <3>2. /\ ui' \in LoginUi /\ ui'.op = None /\ ui'.page = ui.page
          /\ ui'.token = LP!Settled(ui).token
      BY <1>e, <2>1, <3>1 DEF LoginUi, LP!OtpModes
    <3> QED
      BY <1>d, <2>1, <3>1, <3>2
  <2>3. CASE ~srv.verify
    <3> DEFINE o == [ui.op EXCEPT !.stage = "sign_in"]
    <3>1. ui' = [ui EXCEPT !.otp = FALSE, !.op = o]
      BY <1>12, <1>a, <2>3 DEF LP!SignedUp, LoginUi
    <3>2. srv' = [srv EXCEPT !.session = TRUE]
      BY <1>12, <2>3 DEF LP!SignedUp
    <3>3. o \in LP!Ops /\ ~LP!Waits(o) /\ Sends(o) = Sends(ui.op)
      BY <1>b, <2>1 DEF LP!Ops, LP!Waits, Sends
    <3> HIDE DEF o
    <3>4. ui' \in LoginUi /\ ui'.op = o /\ ui'.token = ui.token /\ ui'.page = ui.page
      BY <1>a, <3>1, <3>3 DEF LoginUi
    <3>5. srv' \in LoginSrv /\ srv'.reused = srv.reused
      BY <1>a, <3>2 DEF LoginSrv
    <3> QED
      BY <1>a, <3>3, <3>4, <3>5 DEF SpentIsOut
  <2> QED
    BY <2>2, <2>3
<1>13. CASE LP!SignedIn
  <2>1. /\ ui.op # None /\ ui' = [LP!Settled(ui) EXCEPT !.page = "signed_in"]
        /\ srv' = [srv EXCEPT !.session = TRUE, !.pinned = FALSE]
    BY <1>13 DEF LP!SignedIn, LP!onLoginSuccess, LP!Call, LP!InCall
  <2>2. srv' \in LoginSrv /\ srv'.reused = srv.reused
    BY <1>a, <2>1 DEF LoginSrv
  <2>3. ui' \in LoginUi /\ ui'.page = "signed_in"
    BY <1>e, <2>1 DEF LoginUi
  <2> QED
    BY <2>2, <2>3
<1>14. CASE LP!NeedsVerify
  <2> DEFINE o == [ui.op EXCEPT !.stage = "again"]
  <2>1. /\ ui.op # None /\ ui.op.mode = "login"
        /\ ui' = LP!buildTurnstileOpts(ui, o) /\ LP!TakesToken(o)
    BY <1>14 DEF LP!NeedsVerify, LP!Call, LP!InCall
  <2>2. o \in LP!Ops /\ Sends(o) /\ o.stage = "again"
    BY <1>b, <2>1 DEF LP!Ops, Sends, LP!SendModes
  <2> HIDE DEF o
  <2>3. srv' \in LoginSrv /\ ("start" \notin srv.reused => "start" \notin srv'.reused)
    BY <1>a, <2>1, <2>2, TakesAgain
  <2> QED
    BY <1>a, <2>1, <2>2, <2>3, BuildsCall
<1>15. CASE LP!VerificationSent
  <2>1. /\ ui.op # None /\ srv' = srv
        /\ ui' = [LP!Settled(ui) EXCEPT !.otp = FALSE, !.mode = "verify-signup"]
    BY <1>15 DEF LP!VerificationSent, LP!InCall
  <2>2. /\ ui' \in LoginUi /\ ui'.op = None /\ ui'.page = ui.page
        /\ ui'.token = LP!Settled(ui).token
    BY <1>e, <2>1 DEF LoginUi, LP!OtpModes
  <2> QED
    BY <1>d, <2>1, <2>2
<1>16. CASE LP!CodeSent
  <2>1. PICK m \in LP!OtpModes, b \in BOOLEAN :
          /\ ui.op # None /\ srv' = srv
          /\ ui' = [LP!Settled(ui) EXCEPT !.otp = FALSE, !.mode = m, !.password = b]
    <3>1. ui.op # None
      BY <1>16 DEF LP!CodeSent, LP!Call, LP!InCall
    <3> QED
      BY <1>16, <1>e, <3>1 DEF LP!CodeSent, LP!OtpModes
  <2>2. /\ ui' \in LoginUi /\ ui'.op = None /\ ui'.page = ui.page
        /\ ui'.token = LP!Settled(ui).token
    BY <1>e, <2>1 DEF LoginUi
  <2> QED
    BY <1>d, <2>1, <2>2
<1>17. CASE LP!PasswordReset
  <2>1. /\ ui.op # None /\ srv' = srv
        /\ ui' = [LP!Settled(ui) EXCEPT !.mode = "login"]
    BY <1>17 DEF LP!PasswordReset, LP!Call, LP!InCall
  <2>2. /\ ui' \in LoginUi /\ ui'.op = None /\ ui'.page = ui.page
        /\ ui'.token = LP!Settled(ui).token
    BY <1>e, <2>1 DEF LoginUi, LP!SendModes
  <2> QED
    BY <1>d, <2>1, <2>2
<1>18. CASE LP!Resent
  <2>1. /\ ui.op # None /\ srv' = srv
        /\ ui' = [LP!Settled(ui) EXCEPT !.otp = FALSE]
    BY <1>18 DEF LP!Resent, LP!Call, LP!InCall
  <2>2. /\ ui' \in LoginUi /\ ui'.op = None /\ ui'.page = ui.page
        /\ ui'.token = LP!Settled(ui).token
    BY <1>e, <2>1 DEF LoginUi
  <2> QED
    BY <1>d, <2>1, <2>2
<1> QED
  BY <1>1, <1>2, <1>3, <1>4, <1>5, <1>6, <1>8, <1>9, <1>10, <1>11, <1>12, <1>13,
     <1>14, <1>15, <1>16, <1>17, <1>18 DEF LP!Next

\* Login.tsx "tokens are single-use": no attempt and no resend starts with a token
\* that a call was sent with, whatever modes, answers and time-outs come between; the
\* one call that may take such a token is the second of an attempt whose e-mail is not
\* verified.
THEOREM TokensAreSentOnce == Spec => []TokensOnce
<1> DEFINE I == route = "login" => LoginInv
<1>1. Init => I
  <2> SUFFICES ASSUME Init, route = "login" PROVE LoginInv
    OBVIOUS
  <2>1. LP!Init
    BY DEF Init
  <2>2. ui \in LoginUi /\ ui.op = None /\ ui.token = "none"
    BY <2>1 DEF LP!Init, LoginUi, LP!SendModes
  <2>3. srv \in LoginSrv /\ "start" \notin srv.reused
    BY <2>1 DEF LP!Init, LoginSrv
  <2> QED
    BY <2>2, <2>3 DEF LoginInv, SpentIsOut
<1>2. I /\ [Next]_vars => I'
  <2> SUFFICES ASSUME I, [Next]_vars, route' = "login" PROVE LoginInv'
    OBVIOUS
  <2>1. CASE Next
    <3>1. LP!Next /\ LoginInv
      BY <2>1 DEF Next
    <3> QED
      BY <3>1, LoginStep, CallAssumption
  <2>2. CASE UNCHANGED vars
    BY <2>2 DEF vars, LoginInv, SpentIsOut, LP!Waits
  <2> QED
    BY <2>1, <2>2
<1>3. I => TokensOnce
  BY DEF TokensOnce, LP!TokensOnce, LP!On, LoginInv, LoginSrv
<1> QED
  BY <1>1, <1>2, <1>3, PTL DEF Spec, vars

-----------------------------------------------------------------------------
(***************************************************************************)
(* Adding a credential.                                                    *)
(***************************************************************************)
\* The fields the argument is about; the others may hold anything.
VaultFields(u, s) ==
  /\ {"page", "list", "modal", "flow", "gap", "stale"} \subseteq DOMAIN u
  /\ {"creds", "reports", "inits", "loops"} \subseteq DOMAIN s
  /\ \A l \in s.inits \cup s.loops : l = [session |-> l.session, of |-> l.of]

\* A flow that is shown as waiting has its loop, while its modal is open.
WaitsForLoop(u, s) ==
  u.modal # 0 /\ VP!Polling(u) => [session |-> u.flow.session, of |-> u.modal] \in s.loops

\* What is listed is what is stored, or will be read again, or need not be.
ListIsRead(u, s) ==
  \/ u.page # "vault" \/ u.stale \/ u.gap \/ u.list = s.creds
  \/ \E c \in s.creds : {c} \X VP!Channels \subseteq s.reports

VaultInv == VaultFields(ui, srv) /\ WaitsForLoop(ui, srv) /\ ListIsRead(ui, srv)

\* The modal and the flow it shows are the same, or there is no modal any more.
FlowKept(u, v) ==
  /\ DOMAIN v = DOMAIN u
  /\ v.modal = 0 \/ (v.modal = u.modal /\ v.flow = u.flow)

\* Nothing the list depends on differs.
ListKept(u, v) ==
  /\ DOMAIN v = DOMAIN u /\ v.page = u.page /\ v.list = u.list
  /\ v.stale = u.stale /\ v.gap = u.gap

LoopsKept(s, t) ==
  /\ DOMAIN t = DOMAIN s /\ t.loops = s.loops /\ t.inits = s.inits

StoreKept(s, t) ==
  /\ DOMAIN t = DOMAIN s /\ t.creds = s.creds /\ t.reports = s.reports

LEMMA FlowStays ==
  ASSUME VaultInv, FlowKept(ui, ui'), srv.loops \subseteq srv'.loops
  PROVE  WaitsForLoop(ui', srv')
BY DEF VaultInv, WaitsForLoop, FlowKept, VP!Polling

LEMMA ListStays ==
  ASSUME VaultInv, ListKept(ui, ui'), StoreKept(srv, srv')
  PROVE  ListIsRead(ui', srv')
BY DEF VaultInv, ListIsRead, ListKept, StoreKept

\* What is created closes the modal, and the list is read again.
LEMMA CreatedCloses ==
  ASSUME NEW u, {"page", "list", "modal", "flow", "gap", "stale"} \subseteq DOMAIN u
  PROVE  LET v == VP!onCreated(u)
         IN DOMAIN v = DOMAIN u /\ v.modal = 0 /\ v.stale = TRUE /\ v.page = u.page
BY DEF VP!onCreated, VP!reloadCredentials

\* What a loop says of the flow that is shown.
LEMMA ShowsKeeps ==
  ASSUME NEW l, NEW st, VaultFields(ui, srv)
  PROVE  LET v == VP!Shows(l, st)
         IN /\ ListKept(ui, v) /\ v.modal = ui.modal
            /\ v.flow = ui.flow \/ (ui.modal = l.of /\ ui.flow # None)
            /\ st # "polling" /\ ui.modal = l.of => ~VP!Polling(v)
BY DEF VP!Shows, VP!Mine, ListKept, VaultFields, VP!Polling

LEMMA VaultStep ==
  ASSUME VaultInv, VP!Next
  PROVE  VaultInv'
<1> DEFINE Keys == {"page", "list", "modal", "flow", "gap", "stale"}
           Store == {"creds", "reports", "inits", "loops"}
<1>a. VaultFields(ui, srv) /\ WaitsForLoop(ui, srv) /\ ListIsRead(ui, srv)
  BY DEF VaultInv
<1>f. Keys \subseteq DOMAIN ui /\ Store \subseteq DOMAIN srv
  BY <1>a DEF VaultFields
<1>g. ASSUME VaultFields(ui', srv'), WaitsForLoop(ui', srv'), ListIsRead(ui', srv')
      PROVE  VaultInv'
  BY <1>g DEF VaultInv, VaultFields, WaitsForLoop, ListIsRead, VP!Polling
\* A step that touches neither flows nor what is stored.
<1>h. ASSUME FlowKept(ui, ui'), ListKept(ui, ui'), LoopsKept(srv, srv'),
             StoreKept(srv, srv')
      PROVE  VaultInv'
  <2>1. VaultFields(ui', srv')
    BY <1>a, <1>h DEF VaultFields, FlowKept, LoopsKept
  <2>2. WaitsForLoop(ui', srv')
    BY <1>h, FlowStays DEF LoopsKept
  <2>3. ListIsRead(ui', srv')
    BY <1>h, ListStays
  <2> QED
    BY <1>g, <2>1, <2>2, <2>3
\* A step after which the list is read again, or nobody looks at it.
<1>s. ASSUME FlowKept(ui, ui'), LoopsKept(srv, srv'),
             ui'.stale = TRUE \/ ui'.gap = TRUE \/ ui'.page # "vault"
      PROVE  VaultInv'
  <2>1. VaultFields(ui', srv')
    BY <1>a, <1>s DEF VaultFields, FlowKept, LoopsKept
  <2>2. WaitsForLoop(ui', srv')
    BY <1>s, FlowStays DEF LoopsKept
  <2>3. ListIsRead(ui', srv')
    BY <1>s DEF ListIsRead
  <2> QED
    BY <1>g, <2>1, <2>2, <2>3
<1>1. CASE VP!CredentialsArrive
  <2>1. ui' = [ui EXCEPT !.list = srv.creds, !.stale = FALSE, !.gap = FALSE] /\ srv' = srv
    BY <1>1 DEF VP!CredentialsArrive
  <2>2. FlowKept(ui, ui') /\ ui'.list = srv.creds
    BY <1>f, <2>1 DEF FlowKept
  <2>3. VaultFields(ui', srv')
    BY <1>a, <2>1, <2>2 DEF VaultFields, FlowKept
  <2>4. WaitsForLoop(ui', srv')
    BY <2>1, <2>2, FlowStays
  <2>5. ListIsRead(ui', srv')
    BY <2>1, <2>2 DEF ListIsRead
  <2> QED
    BY <1>g, <2>3, <2>4, <2>5
<1>b. CASE VP!CredentialsFail \/ VP!WindowFocus
  <2>1. /\ \/ ui' = [[ui EXCEPT !.stale = FALSE] EXCEPT !.gap = TRUE]
           \/ ui' = [ui EXCEPT !.stale = TRUE]
        /\ srv' = srv
    BY <1>b DEF VP!CredentialsFail, VP!WindowFocus, VP!Untold, VP!Do,
                VP!reloadCredentials
  <2> QED
    BY <1>f, <1>s, <2>1 DEF FlowKept, LoopsKept
<1>2. CASE VP!StatusFilter \/ VP!TypeField \/ VP!ServerField \/ VP!TokenField
  <2>1. /\ \/ \E x : ui' = [ui EXCEPT !.filter = x] \/ ui' = [ui EXCEPT !.form.type = x]
           \/ ui' = [ui EXCEPT !.form.url = TRUE] \/ ui' = [ui EXCEPT !.form.token = TRUE]
        /\ srv' = srv
    BY <1>2 DEF VP!StatusFilter, VP!TypeField, VP!ServerField, VP!TokenField, VP!Do
  <2> QED
    BY <1>f, <1>h, <2>1 DEF FlowKept, ListKept, LoopsKept, StoreKept
<1>3. CASE VP!deleteCred \/ VP!createCapCliCred
  <2>1. /\ ui' = ui
        /\ \E x : srv' = [srv EXCEPT !.deletes = x] \/ srv' = [srv EXCEPT !.cli = x]
    BY <1>3 DEF VP!deleteCred, VP!createCapCliCred, VP!Do
  <2> QED
    BY <1>f, <1>h, <2>1 DEF FlowKept, ListKept, LoopsKept, StoreKept
<1>4. CASE VP!Deleted
  <2>1. PICK x : \/ /\ \E y : srv' = [srv EXCEPT !.deletes = x, !.creds = y]
                    /\ ui' = [ui EXCEPT !.stale = TRUE] \/ ui' = [ui EXCEPT !.gap = TRUE]
                 \/ srv' = [srv EXCEPT !.deletes = x] /\ ui' = ui
    BY <1>4 DEF VP!Deleted, VP!reloadCredentials, VP!Untold
  <2>2. CASE srv' = [srv EXCEPT !.deletes = x] /\ ui' = ui
    BY <1>f, <1>h, <2>2 DEF FlowKept, ListKept, LoopsKept, StoreKept
  <2>3. CASE /\ \E y : srv' = [srv EXCEPT !.deletes = x, !.creds = y]
             /\ ui' = [ui EXCEPT !.stale = TRUE] \/ ui' = [ui EXCEPT !.gap = TRUE]
    BY <1>f, <1>s, <2>3 DEF FlowKept, LoopsKept
  <2> QED
    BY <2>1, <2>2, <2>3
<1>5. CASE VP!archive \/ VP!del
  <2>1. /\ ui' = [ui EXCEPT !.page = "vaults"] \/ ui' = [ui EXCEPT !.gap = TRUE]
        /\ \/ srv' = [srv EXCEPT !.archived = TRUE, !.creds = {}]
           \/ srv' = [srv EXCEPT !.gone = TRUE, !.creds = {}]
    BY <1>5 DEF VP!archive, VP!del, VP!Do, VP!Left, VP!Untold
  <2> QED
    BY <1>f, <1>s, <2>1 DEF FlowKept, LoopsKept
<1>6. CASE VP!AddCredential
  <2>1. /\ ui' = [ui EXCEPT !.modal = ui.mounts + 1, !.mounts = @ + 1, !.form = VP!NoForm,
                            !.connecting = FALSE, !.flow = None]
        /\ srv' = srv
    BY <1>6 DEF VP!AddCredential, VP!Do
  <2>2. ListKept(ui, ui') /\ ui'.flow = None
    BY <1>f, <2>1 DEF ListKept
  <2>3. VaultFields(ui', srv')
    BY <1>a, <2>1, <2>2 DEF VaultFields, ListKept
  <2>4. WaitsForLoop(ui', srv')
    BY <2>2 DEF WaitsForLoop, VP!Polling
  <2>5. ListIsRead(ui', srv')
    BY <2>1, <2>2, ListStays DEF StoreKept
  <2> QED
    BY <1>g, <2>3, <2>4, <2>5
<1>7. CASE VP!onClose
  <2>1. ui' = [ui EXCEPT !.modal = 0] /\ srv' = srv
    BY <1>7 DEF VP!onClose, VP!Do
  <2> QED
    BY <1>f, <1>h, <2>1 DEF FlowKept, ListKept, LoopsKept, StoreKept
<1>8. CASE VP!submitCustom
  <2>1. /\ ui' = [ui EXCEPT !.connecting = TRUE]
        /\ \/ srv' = [srv EXCEPT !.bearer = @ \cup {ui.modal}]
           \/ srv' = [srv EXCEPT !.popup = TRUE]
    BY <1>8 DEF VP!submitCustom, VP!Do
  <2> QED
    BY <1>f, <1>h, <2>1 DEF FlowKept, ListKept, LoopsKept, StoreKept
\* What is stored beside the loops.
<1>t. LoopsKept(srv, VP!Stored(srv))
  BY <1>f DEF LoopsKept, VP!Stored
<1>9. CASE VP!createBearerCred
  <2>1. PICK b : \/ /\ srv' = [VP!Stored(srv) EXCEPT !.bearer = @ \ {b}]
                    /\ \/ ui' = VP!onCreated(ui)
                       \/ ui' = [[ui EXCEPT !.connecting = @ /\ ui.modal # b]
                                    EXCEPT !.gap = TRUE]
                 \/ /\ srv' = [srv EXCEPT !.bearer = @ \ {b}]
                    /\ ui' = [ui EXCEPT !.connecting = @ /\ ui.modal # b]
    BY <1>9 DEF VP!createBearerCred, VP!Untold
  <2>2. CASE /\ srv' = [VP!Stored(srv) EXCEPT !.bearer = @ \ {b}]
             /\ ui' = VP!onCreated(ui)
    <3>1. LoopsKept(srv, srv')
      BY <1>f, <1>t, <2>2 DEF LoopsKept
    <3>2. FlowKept(ui, ui') /\ ui'.stale = TRUE
      BY <1>f, <2>2, CreatedCloses DEF FlowKept
    <3> QED
      BY <1>s, <3>1, <3>2
  <2>3. CASE /\ srv' = [srv EXCEPT !.bearer = @ \ {b}]
             /\ ui' = [ui EXCEPT !.connecting = @ /\ ui.modal # b]
    BY <1>f, <1>h, <2>3 DEF FlowKept, ListKept, LoopsKept, StoreKept
  <2>4. CASE /\ srv' = [VP!Stored(srv) EXCEPT !.bearer = @ \ {b}]
             /\ ui' = [[ui EXCEPT !.connecting = @ /\ ui.modal # b] EXCEPT !.gap = TRUE]
    <3>1. LoopsKept(srv, srv')
      BY <1>f, <1>t, <2>4 DEF LoopsKept
    <3>2. FlowKept(ui, ui') /\ ui'.gap = TRUE
      BY <1>f, <2>4 DEF FlowKept
    <3> QED
      BY <1>s, <3>1, <3>2
  <2> QED
    BY <2>1, <2>2, <2>3, <2>4
<1>10. CASE VP!PopupCompletes
  <2> DEFINE r == srv.reports \cup ({srv.next} \X VP!Channels)
  <2>1. CASE srv' = [VP!Stored(srv) EXCEPT !.popup = FALSE] /\ ui' = [ui EXCEPT !.gap = TRUE]
    <3>1. LoopsKept(srv, srv')
      BY <1>f, <1>t, <2>1 DEF LoopsKept
    <3>2. FlowKept(ui, ui') /\ ui'.gap = TRUE
      BY <1>f, <2>1 DEF FlowKept
    <3> QED
      BY <1>s, <3>1, <3>2
  <2>2. CASE /\ srv' = [VP!Stored(srv) EXCEPT !.popup = FALSE,
                                              !.reports = @ \cup ({srv.next} \X VP!Channels)]
             /\ ui' = ui
    <3>1. /\ DOMAIN srv' = DOMAIN srv /\ srv'.loops = srv.loops /\ srv'.inits = srv.inits
          /\ srv'.creds = srv.creds \cup {srv.next} /\ srv'.reports = r
      BY <1>f, <2>2 DEF VP!Stored
    <3>2. {srv.next} \X VP!Channels \subseteq srv'.reports /\ srv.next \in srv'.creds
      BY <3>1
    <3>3. ListIsRead(ui', srv')
      BY <3>2 DEF ListIsRead
    <3>4. VaultFields(ui', srv')
      BY <1>a, <2>2, <3>1 DEF VaultFields
    <3>5. WaitsForLoop(ui', srv')
      BY <1>a, <2>2, <3>1 DEF WaitsForLoop, VP!Polling
    <3> QED
      BY <1>g, <3>3, <3>4, <3>5
  <2> QED
    BY <1>10, <2>1, <2>2 DEF VP!PopupCompletes, VP!Untold
<1>c. CASE VP!PopupFails
  <2> DEFINE r == srv.reports \cup ({VP!NoCred} \X VP!Channels)
  <2>1. ui' = ui /\ srv' = [srv EXCEPT !.popup = FALSE, !.reports = r]
    BY <1>c DEF VP!PopupFails
  <2>2. srv.reports \subseteq r
    OBVIOUS
  <2> HIDE DEF r
  <2>3. LoopsKept(srv, srv') /\ srv'.creds = srv.creds /\ srv'.reports = r
    BY <1>f, <2>1 DEF LoopsKept
  <2>4. ListIsRead(ui', srv')
    BY <1>a, <2>1, <2>2, <2>3 DEF ListIsRead
  <2>5. VaultFields(ui', srv')
    BY <1>a, <2>1, <2>3 DEF VaultFields, LoopsKept
  <2>6. WaitsForLoop(ui', srv')
    BY <1>a, <2>1, <2>3 DEF WaitsForLoop, VP!Polling, LoopsKept
  <2> QED
    BY <1>g, <2>4, <2>5, <2>6
<1>11. CASE VP!PopupCloses
  <2>1. ui' = ui /\ srv' = [srv EXCEPT !.popup = FALSE]
    BY <1>11 DEF VP!PopupCloses
  <2> QED
    BY <1>f, <1>h, <2>1 DEF FlowKept, ListKept, LoopsKept, StoreKept
<1>12. CASE VP!handleOAuthMessage
  <2>1. PICK r \in srv.reports :
          /\ srv' = [srv EXCEPT !.reports = @ \ {r}]
          /\ ui' = IF ui.modal # 0 THEN [VP!onCreated(ui) EXCEPT !.connecting = FALSE]
                   ELSE [ui EXCEPT !.gap = @ \/ (r[1] \in srv.creds /\ VP!Unreported(r[1]))]
    BY <1>12 DEF VP!handleOAuthMessage
  <2>2. LoopsKept(srv, srv') /\ srv'.creds = srv.creds /\ srv'.reports = srv.reports \ {r}
    BY <1>f, <2>1 DEF LoopsKept
  <2>3. CASE ui.modal # 0
    <3> DEFINE v == VP!onCreated(ui)
    <3>1. ui' = [v EXCEPT !.connecting = FALSE]
      BY <2>1, <2>3
    <3>2. DOMAIN v = DOMAIN ui /\ v.modal = 0 /\ v.stale = TRUE
      BY <1>f, CreatedCloses
    <3> HIDE DEF v
    <3>3. FlowKept(ui, ui') /\ ui'.stale = TRUE
      BY <1>f, <3>1, <3>2 DEF FlowKept
    <3> QED
      BY <1>s, <2>2, <3>3
  <2>4. CASE ui.modal = 0
    <3> DEFINE new == r[1] \in srv.creds /\ VP!Unreported(r[1])
               g == ui.gap \/ new
    <3>1. ui' = [ui EXCEPT !.gap = g]
      BY <2>1, <2>4
    <3>2. CASE new
      <4>1. FlowKept(ui, ui') /\ ui'.gap = TRUE
        BY <1>f, <3>1, <3>2 DEF FlowKept
      <4> QED
        BY <1>s, <2>2, <4>1
    <3>3. CASE ~new
      <4>1. /\ FlowKept(ui, ui') /\ ui'.page = ui.page /\ ui'.list = ui.list
            /\ ui'.stale = ui.stale /\ (ui'.gap <=> ui.gap)
        <5> HIDE DEF g
        <5>1. /\ FlowKept(ui, ui') /\ ui'.page = ui.page /\ ui'.list = ui.list
              /\ ui'.stale = ui.stale /\ ui'.gap = g
          BY <1>f, <3>1 DEF FlowKept
        <5> QED
          BY <3>3, <5>1 DEF g
      <4>2. ASSUME NEW x \in srv.creds, {x} \X VP!Channels \subseteq srv.reports
            PROVE  {x} \X VP!Channels \subseteq srv'.reports
        <5>1. r \notin {x} \X VP!Channels
          <6> SUFFICES ASSUME r \in {x} \X VP!Channels PROVE FALSE
            OBVIOUS
          <6>1. r[1] = x
            OBVIOUS
          <6> QED
            BY <3>3, <4>2, <6>1 DEF VP!Unreported
        <5> QED
          BY <2>2, <4>2, <5>1
      <4>3. ListIsRead(ui', srv')
        BY <1>a, <2>2, <4>1, <4>2 DEF ListIsRead
      <4>4. WaitsForLoop(ui', srv')
        BY <2>2, <4>1, FlowStays DEF LoopsKept
      <4>5. VaultFields(ui', srv')
        BY <1>a, <2>2, <4>1 DEF VaultFields, FlowKept, LoopsKept
      <4> QED
        BY <1>g, <4>3, <4>4, <4>5
    <3> QED
      BY <3>2, <3>3
  <2> QED
    BY <2>3, <2>4
<1>13. CASE VP!CliTab \/ VP!CancelFlow
  <2>1. /\ srv' = srv
        /\ \/ ui' = [ui EXCEPT !.form.tab = "cli"] \/ ui' = [ui EXCEPT !.form.cliToken = TRUE]
           \/ ui' = [ui EXCEPT !.flow = None]
    BY <1>13 DEF VP!CliTab, VP!CancelFlow, VP!Do
  <2>2. CASE ui' = [ui EXCEPT !.flow = None]
    <3>1. ListKept(ui, ui') /\ ui'.flow = None
      BY <1>f, <2>2 DEF ListKept
    <3>2. WaitsForLoop(ui', srv')
      BY <3>1 DEF WaitsForLoop, VP!Polling
    <3>3. VaultFields(ui', srv')
      BY <1>a, <2>1, <3>1 DEF VaultFields, ListKept
    <3>4. ListIsRead(ui', srv')
      BY <2>1, <3>1, ListStays DEF StoreKept
    <3> QED
      BY <1>g, <3>2, <3>3, <3>4
  <2>3. CASE ui' = [ui EXCEPT !.form.tab = "cli"] \/ ui' = [ui EXCEPT !.form.cliToken = TRUE]
    BY <1>f, <1>h, <2>1, <2>3 DEF FlowKept, ListKept, LoopsKept, StoreKept
  <2> QED
    BY <2>1, <2>2, <2>3
<1>14. CASE VP!CapCliCreated
  <2>1. \/ /\ srv' = [VP!Stored(srv) EXCEPT !.cli = @ - 1]
           /\ ui' = VP!onCreated(ui) \/ ui' = [ui EXCEPT !.gap = TRUE]
        \/ srv' = [srv EXCEPT !.cli = @ - 1] /\ ui' = ui
    BY <1>14 DEF VP!CapCliCreated, VP!Untold
  <2>2. CASE srv' = [VP!Stored(srv) EXCEPT !.cli = @ - 1] /\ ui' = VP!onCreated(ui)
    <3>1. LoopsKept(srv, srv')
      BY <1>f, <1>t, <2>2 DEF LoopsKept
    <3>2. FlowKept(ui, ui') /\ ui'.stale = TRUE
      BY <1>f, <2>2, CreatedCloses DEF FlowKept
    <3> QED
      BY <1>s, <3>1, <3>2
  <2>3. CASE srv' = [srv EXCEPT !.cli = @ - 1] /\ ui' = ui
    BY <1>f, <1>h, <2>3 DEF FlowKept, ListKept, LoopsKept, StoreKept
  <2>4. CASE /\ srv' = [VP!Stored(srv) EXCEPT !.cli = @ - 1]
             /\ ui' = [ui EXCEPT !.gap = TRUE]
    <3>1. LoopsKept(srv, srv')
      BY <1>f, <1>t, <2>4 DEF LoopsKept
    <3>2. FlowKept(ui, ui') /\ ui'.gap = TRUE
      BY <1>f, <2>4 DEF FlowKept
    <3> QED
      BY <1>s, <3>1, <3>2
  <2> QED
    BY <2>1, <2>2, <2>3, <2>4
<1>15. CASE VP!startDeviceFlow
  <2> DEFINE l == [session |-> left, of |-> ui.modal]
             i == srv.inits \cup {l}
  <2>1. ui' = ui /\ srv' = [srv EXCEPT !.inits = i]
    BY <1>15 DEF VP!startDeviceFlow, VP!Do
  <2>2. \A x \in i : x = [session |-> x.session, of |-> x.of]
    <3>1. l = [session |-> l.session, of |-> l.of]
      OBVIOUS
    <3> QED
      BY <1>a, <3>1 DEF VaultFields
  <2> HIDE DEF i
  <2>3. StoreKept(srv, srv') /\ srv'.loops = srv.loops /\ srv'.inits = i
    BY <1>f, <2>1 DEF StoreKept
  <2>4. VaultFields(ui', srv')
    BY <1>a, <2>1, <2>2, <2>3 DEF VaultFields, StoreKept
  <2>5. WaitsForLoop(ui', srv')
    BY <1>a, <2>1, <2>3 DEF WaitsForLoop, VP!Polling
  <2>6. ListIsRead(ui', srv')
    BY <2>1, <2>3, ListStays DEF ListKept
  <2> QED
    BY <1>g, <2>4, <2>5, <2>6
<1>16. CASE VP!Initiated
  <2>1. PICK l \in srv.inits :
          \/ /\ srv' = [srv EXCEPT !.inits = @ \ {l}, !.loops = @ \cup {l}]
             /\ ui' = IF ui.modal = l.of
                      THEN [ui EXCEPT !.flow = VP!Flow(l.session, "polling")] ELSE ui
          \/ /\ srv' = [srv EXCEPT !.inits = @ \ {l}]
             /\ ui' = IF ui.modal = l.of
                      THEN [ui EXCEPT !.flow = VP!Flow(None, "error")] ELSE ui
    BY <1>16 DEF VP!Initiated, VP!Mine
  <2>2. /\ StoreKept(srv, srv') /\ srv.loops \subseteq srv'.loops
        /\ srv'.inits \cup srv'.loops \subseteq srv.inits \cup srv.loops
    BY <1>f, <2>1 DEF StoreKept
  <2>3. ListKept(ui, ui') /\ ui'.modal = ui.modal
    BY <1>f, <2>1 DEF ListKept
  <2>4. VaultFields(ui', srv')
    BY <1>a, <2>2, <2>3 DEF VaultFields, StoreKept, ListKept
  <2>5. ListIsRead(ui', srv')
    BY <2>2, <2>3, ListStays
  <2>6. WaitsForLoop(ui', srv')
    <3>1. CASE ui' = ui
      BY <1>a, <2>2, <3>1 DEF WaitsForLoop, VP!Polling
    <3>2. CASE /\ ui.modal = l.of /\ ui' = [ui EXCEPT !.flow = VP!Flow(l.session, "polling")]
               /\ l \in srv'.loops
      <4>1. ui'.flow.session = l.session /\ ui'.modal = l.of
        BY <1>f, <2>3, <3>2 DEF VP!Flow
      <4>2. [session |-> l.session, of |-> l.of] = l
        BY <1>a DEF VaultFields
      <4> QED
        BY <3>2, <4>1, <4>2 DEF WaitsForLoop
    <3>3. CASE ui' = [ui EXCEPT !.flow = VP!Flow(None, "error")]
      <4>1. ui'.flow.status = "error"
        BY <1>f, <3>3 DEF VP!Flow
      <4> QED
        BY <4>1 DEF WaitsForLoop, VP!Polling
    <3>4. CASE srv' = [srv EXCEPT !.inits = @ \ {l}, !.loops = @ \cup {l}]
      <4>1. l \in srv'.loops
        BY <1>f, <3>4
      <4> QED
        BY <2>1, <3>1, <3>2, <3>3, <4>1
    <3> QED
      BY <2>1, <3>1, <3>3, <3>4
  <2> QED
    BY <1>g, <2>4, <2>5, <2>6
<1>17. CASE VP!PollReady
  <2>1. PICK l \in srv.loops :
          /\ srv' = [VP!Stored(srv) EXCEPT !.loops = @ \ {l}, !.dismiss = @ \cup {l}]
          /\ ui' = VP!onCreated(VP!Shows(l, "ready"))
    BY <1>17 DEF VP!PollReady
  <2> DEFINE v == VP!Shows(l, "ready")
  <2>2. DOMAIN v = DOMAIN ui
    BY <1>a, ShowsKeeps DEF ListKept
  <2> HIDE DEF v
  <2>3. DOMAIN ui' = DOMAIN ui /\ ui'.modal = 0 /\ ui'.stale = TRUE
    BY <1>f, <2>1, <2>2, CreatedCloses DEF v
  <2>4. /\ DOMAIN srv' = DOMAIN srv /\ srv'.inits = srv.inits
        /\ srv'.loops = srv.loops \ {l}
    BY <1>f, <2>1 DEF VP!Stored
  <2>5. VaultFields(ui', srv')
    BY <1>a, <2>3, <2>4 DEF VaultFields
  <2>6. WaitsForLoop(ui', srv') /\ ListIsRead(ui', srv')
    BY <2>3 DEF WaitsForLoop, ListIsRead
  <2> QED
    BY <1>g, <2>5, <2>6
<1>18. CASE VP!Dismiss
  <2>1. PICK x : /\ srv' = [srv EXCEPT !.dismiss = x]
                 /\ ui' = ui \/ ui' = [ui EXCEPT !.flow = None]
    BY <1>18 DEF VP!Dismiss
  <2>2. LoopsKept(srv, srv') /\ StoreKept(srv, srv')
    BY <1>f, <2>1 DEF LoopsKept, StoreKept
  <2>3. CASE ui' = ui
    BY <1>h, <2>2, <2>3 DEF FlowKept, ListKept
  <2>4. CASE ui' = [ui EXCEPT !.flow = None]
    <3>1. ListKept(ui, ui') /\ ui'.flow = None
      BY <1>f, <2>4 DEF ListKept
    <3>2. WaitsForLoop(ui', srv')
      BY <3>1 DEF WaitsForLoop, VP!Polling
    <3>3. VaultFields(ui', srv')
      BY <1>a, <2>2, <3>1 DEF VaultFields, ListKept, LoopsKept
    <3>4. ListIsRead(ui', srv')
      BY <2>2, <3>1, ListStays
    <3> QED
      BY <1>g, <3>2, <3>3, <3>4
  <2> QED
    BY <2>1, <2>3, <2>4
\* A loop that ends ends the flow that waits for it, if its modal is open.
<1>l. ASSUME NEW l \in srv.loops, NEW st \in {"expired", "denied", "error"},
             VaultFields(ui', srv'), srv'.loops = srv.loops \ {l},
             ui'.modal = ui.modal, ui'.flow = VP!Shows(l, st).flow
      PROVE  WaitsForLoop(ui', srv')
  <2>1. /\ VP!Shows(l, st).flow = ui.flow \/ (ui.modal = l.of /\ ui.flow # None)
        /\ ui.modal = l.of => ~VP!Polling(VP!Shows(l, st))
    BY <1>a, ShowsKeeps
  <2>2. CASE ui.modal = l.of
    BY <1>l, <2>1, <2>2 DEF WaitsForLoop, VP!Polling
  <2>3. CASE ui.modal # l.of
    <3>1. ui'.flow = ui.flow /\ ui'.modal = ui.modal
      BY <1>l, <2>1, <2>3
    <3> DEFINE x == [session |-> ui.flow.session, of |-> ui.modal]
    <3>2. x.of = ui.modal
      OBVIOUS
    <3> HIDE DEF x
    <3>3. x \in srv.loops => x \in srv'.loops
      BY <1>l, <2>3, <3>2
    <3> QED
      BY <1>a, <3>1, <3>3 DEF WaitsForLoop, VP!Polling, x
  <2> QED
    BY <2>2, <2>3
<1>19. CASE VP!PollEnds
  <2>1. PICK l \in srv.loops, st \in {"expired", "denied", "error"} :
          srv' = [srv EXCEPT !.loops = @ \ {l}] /\ ui' = VP!Shows(l, st)
    BY <1>19 DEF VP!PollEnds
  <2>2. ListKept(ui, ui') /\ ui'.modal = ui.modal
    BY <1>a, <2>1, ShowsKeeps
  <2>3. StoreKept(srv, srv') /\ srv'.loops = srv.loops \ {l} /\ srv'.inits = srv.inits
    BY <1>f, <2>1 DEF StoreKept
  <2>4. VaultFields(ui', srv')
    BY <1>a, <2>2, <2>3 DEF VaultFields, StoreKept, ListKept
  <2>5. ListIsRead(ui', srv')
    BY <2>2, <2>3, ListStays
  <2>6. WaitsForLoop(ui', srv')
    BY <1>l, <2>1, <2>2, <2>3, <2>4
  <2> QED
    BY <1>g, <2>4, <2>5, <2>6
<1>20. CASE VP!PollLost
  <2>1. PICK l \in srv.loops :
          /\ srv' = [VP!Stored(srv) EXCEPT !.loops = @ \ {l}]
          /\ ui' = [VP!Shows(l, "error") EXCEPT !.gap = TRUE]
    BY <1>20 DEF VP!PollLost, VP!Untold
  <2> DEFINE v == VP!Shows(l, "error")
  <2>2. DOMAIN v = DOMAIN ui /\ v.modal = ui.modal
    BY <1>a, ShowsKeeps DEF ListKept
  <2> HIDE DEF v
  <2>3. ui' = [v EXCEPT !.gap = TRUE]
    BY <2>1 DEF v
  <2>4. /\ DOMAIN ui' = DOMAIN ui /\ ui'.modal = ui.modal /\ ui'.gap = TRUE
        /\ ui'.flow = v.flow
    BY <1>f, <2>2, <2>3
  <2>5. /\ DOMAIN srv' = DOMAIN srv /\ srv'.inits = srv.inits
        /\ srv'.loops = srv.loops \ {l}
    BY <1>f, <2>1 DEF VP!Stored
  <2>6. VaultFields(ui', srv')
    BY <1>a, <2>4, <2>5 DEF VaultFields
  <2>7. WaitsForLoop(ui', srv')
    BY <1>l, <2>4, <2>5, <2>6 DEF v
  <2>8. ListIsRead(ui', srv')
    BY <2>4 DEF ListIsRead
  <2> QED
    BY <1>g, <2>6, <2>7, <2>8
<1> QED
  BY <1>1, <1>2, <1>3, <1>4, <1>5, <1>6, <1>7, <1>8, <1>9, <1>10, <1>11, <1>12, <1>13,
     <1>14, <1>15, <1>16, <1>17, <1>18, <1>19, <1>20, <1>b, <1>c DEF VP!Next

\* A device flow that the modal waits for is asked for, and once nothing is to be read
\* again the page lists what the vault holds, unless it was not told of a change: an
\* answer was lost, a read failed, or a popup reported to a closed modal or not at all
\* (the modal of VaultDetail.tsx: flows are cancelled and restarted, popups report to
\* whatever modal is open).
THEOREM DeviceFlowsAreFollowed == Spec => []FlowsAreFollowed
<1> DEFINE I == route = "vault" => VaultInv
<1>1. Init => I
  <2> SUFFICES ASSUME Init, route = "vault" PROVE VaultInv
    OBVIOUS
  <2>1. VP!Init
    BY DEF Init
  <2>2. /\ {"page", "list", "modal", "flow", "gap", "stale"} \subseteq DOMAIN ui
        /\ ui.modal = 0 /\ ui.stale = TRUE
    BY <2>1 DEF VP!Init
  <2>3. /\ {"creds", "reports", "inits", "loops"} \subseteq DOMAIN srv
        /\ srv.inits = {} /\ srv.loops = {}
    BY <2>1 DEF VP!Init
  <2> QED
    BY <2>2, <2>3 DEF VaultInv, VaultFields, WaitsForLoop, ListIsRead
<1>2. I /\ [Next]_vars => I'
  <2> SUFFICES ASSUME I, [Next]_vars, route' = "vault" PROVE VaultInv'
    OBVIOUS
  <2>1. route = "vault" /\ VaultInv
    BY DEF Next, vars
  <2>2. CASE UNCHANGED vars
    BY <2>1, <2>2 DEF vars, VaultInv, VaultFields, WaitsForLoop, ListIsRead, VP!Polling
  <2>3. CASE Next
    <3>1. VP!Next
      BY <2>1, <2>3 DEF Next
    <3> QED
      BY <2>1, <3>1, VaultStep
  <2> QED
    BY <2>2, <2>3
<1>3. I => FlowsAreFollowed
  BY DEF FlowsAreFollowed, VP!FlowsAreFollowed, VP!PollingHasLoop, VP!CredentialsShown,
         VP!Open, VP!On, VP!Unreported, VaultInv, WaitsForLoop, ListIsRead
<1> QED
  BY <1>1, <1>2, <1>3, PTL DEF Spec, vars

-----------------------------------------------------------------------------
(***************************************************************************)
(* Publishing an agent.                                                    *)
(***************************************************************************)
\* The fields the argument is about; the others may hold anything.
PublishFields(u) ==
  {"page", "step", "url", "hydrating", "form", "link"} \subseteq DOMAIN u

\* A wizard is resumed from its first step; past it the URL names what is shown.
PublishShown(u) ==
  /\ u.hydrating => u.step = "pick"
  /\ u.step # "pick" => u.url = u.form /\ (u.step = "install" => u.url = u.link)

PublishInv == PublishFields(ui) /\ PublishShown(ui)

\* Nothing that PublishShown speaks of differs.
SameShown(u, v) ==
  /\ DOMAIN v = DOMAIN u /\ v.step = u.step /\ v.url = u.url
  /\ v.hydrating = u.hydrating /\ v.form = u.form /\ v.link = u.link

LEMMA ShownKept ==
  ASSUME NEW u, NEW v, PublishFields(u), PublishShown(u), SameShown(u, v)
  PROVE  PublishFields(v) /\ PublishShown(v)
BY DEF PublishFields, PublishShown, SameShown

\* The effect on the persona touches nothing that is pinned.
LEMMA PersonaKeeps ==
  ASSUME NEW u, PublishFields(u)
  PROVE  SameShown(u, PW!PersonaEffect(u))
BY DEF PublishFields, SameShown, PW!PersonaEffect

LEMMA BlankIsShown ==
  ASSUME NEW p, NEW url, NEW a
  PROVE  PublishFields(PW!Blank(p, url, a)) /\ PublishShown(PW!Blank(p, url, a))
BY DEF PublishFields, PublishShown, PW!Blank

LEMMA PublishStep ==
  ASSUME PublishInv, PW!Next
  PROVE  PublishInv'
<1>a. PublishFields(ui) /\ PublishShown(ui)
  BY DEF PublishInv
<1>b. ASSUME PublishFields(ui'), PublishShown(ui') PROVE PublishInv'
  BY <1>b DEF PublishInv, PublishFields, PublishShown
<1>c. ASSUME SameShown(ui, ui') PROVE PublishInv'
  BY <1>a, <1>b, <1>c, ShownKept
\* A step that names an agent lets the persona follow.
<1>d. ASSUME NEW f, SameShown(ui, f), ui' = PW!PersonaEffect(f) PROVE PublishInv'
  <2>1. PublishFields(f) /\ PublishShown(f)
    BY <1>a, <1>d, ShownKept
  <2>2. SameShown(f, ui')
    BY <1>d, <2>1, PersonaKeeps
  <2> QED
    BY <1>b, <2>1, <2>2, ShownKept
\* A publication that cannot be resumed is dropped.
<1>e. ASSUME ui.hydrating,
             ui' = PW!unpin(ui) \/ ui' = [PW!unpin(ui) EXCEPT !.error = TRUE]
      PROVE  PublishInv'
  BY <1>a, <1>b, <1>e DEF PublishFields, PublishShown, PW!unpin
<1>1. CASE PW!AgentsArrive
  <2>1. CASE ui' = [ui EXCEPT !.error = TRUE, !.loading = FALSE]
    BY <1>a, <1>c, <2>1 DEF SameShown, PublishFields
  <2>2. ASSUME NEW l, ui' = PW!PersonaEffect([ui EXCEPT !.agents = l, !.loading = FALSE])
        PROVE  PublishInv'
    <3>1. SameShown(ui, [ui EXCEPT !.agents = l, !.loading = FALSE])
      BY <1>a DEF SameShown, PublishFields
    <3> QED
      BY <1>d, <2>2, <3>1
  <2> QED
    BY <1>1, <2>1, <2>2 DEF PW!AgentsArrive
<1>2. CASE PW!Reload
  BY <1>b, <1>2, BlankIsShown DEF PW!Reload, PW!Do
<1>3. CASE PW!GetPublication
  <2>1. CASE ui' = [ui EXCEPT !.page = "integrations"] \/ ui' = [ui EXCEPT !.found = TRUE]
    BY <1>a, <1>c, <2>1 DEF SameShown, PublishFields
  <2>2. CASE ui' = PW!unpin(ui) \/ ui' = [PW!unpin(ui) EXCEPT !.error = TRUE]
    BY <1>e, <1>3, <2>2 DEF PW!GetPublication
  <2> QED
    BY <1>3, <2>1, <2>2 DEF PW!GetPublication
<1>4. CASE PW!ReissueFormToken
  <2>1. CASE ui' = [PW!unpin(ui) EXCEPT !.error = TRUE]
    BY <1>e, <1>4, <2>1 DEF PW!ReissueFormToken
  <2>2. CASE ui' = PW!Resumed(ui, ui.url)
    <3> DEFINE p == ui.url
               v == [ui EXCEPT !.form = p, !.agent = srv.agent[p], !.env = TRUE,
                               !.persona = srv.persona[p], !.step = "credentials",
                               !.hydrating = FALSE]
    <3>1. ui' = v \/ ui' = PW!PersonaEffect(v)
      BY <2>2 DEF PW!Resumed
    <3>2. PublishFields(v) /\ PublishShown(v)
      BY <1>a DEF PublishFields, PublishShown
    <3> HIDE DEF v
    <3>3. SameShown(v, PW!PersonaEffect(v))
      BY <3>2, PersonaKeeps
    <3> QED
      BY <1>b, <3>1, <3>2, <3>3, ShownKept
  <2> QED
    BY <1>4, <2>1, <2>2 DEF PW!ReissueFormToken
<1>5. CASE PW!PickStep
  <2>1. ASSUME NEW a, ui' = PW!PersonaEffect([ui EXCEPT !.agent = a]) PROVE PublishInv'
    <3>1. SameShown(ui, [ui EXCEPT !.agent = a])
      BY <1>a DEF SameShown, PublishFields
    <3> QED
      BY <1>d, <2>1, <3>1
  <2>2. CASE ui' = [ui EXCEPT !.env = TRUE]
    BY <1>a, <1>c, <2>2 DEF SameShown, PublishFields
  <2>3. ASSUME NEW n, ui' = [ui EXCEPT !.persona = n, !.edited = TRUE] PROVE PublishInv'
    BY <1>a, <1>c, <2>3 DEF SameShown, PublishFields
  <2> QED
    BY <1>5, <2>1, <2>2, <2>3 DEF PW!PickStep, PW!Do
<1>6. CASE PW!startPublish \/ PW!CredentialsStep \/ PW!submitCredentials
  BY <1>a, <1>c, <1>6 DEF PW!startPublish, PW!CredentialsStep, PW!submitCredentials, PW!Do,
                          SameShown, PublishFields
<1>7. CASE PW!NotCreated \/ PW!NotValidated
  BY <1>a, <1>c, <1>7 DEF PW!NotCreated, PW!NotValidated, PW!Failed, SameShown, PublishFields
<1>8. CASE PW!Created
  <2> DEFINE p == Len(srv.status) + 1
  <2>1. CASE ui' = PW!Blank(ui.provider, ui.url, None)
    BY <1>b, <2>1, BlankIsShown
  <2>2. ASSUME ~ui.hydrating,
               ui' = PW!pinPublicationToUrl([ui EXCEPT !.form = p, !.step = "credentials",
                                                       !.working = FALSE], p)
        PROVE  PublishInv'
    <3> HIDE DEF p
    <3>1. ui' = [[ui EXCEPT !.form = p, !.step = "credentials", !.working = FALSE]
                   EXCEPT !.url = p]
      BY <2>2 DEF PW!pinPublicationToUrl
    <3>2. PublishFields(ui') /\ ui'.form = p /\ ui'.url = p /\ ui'.step = "credentials"
          /\ ui'.hydrating = ui.hydrating
      BY <1>a, <3>1 DEF PublishFields
    <3> QED
      BY <1>b, <2>2, <3>2 DEF PublishShown
  <2> QED
    BY <1>8, <2>1, <2>2 DEF PW!Created, PW!At
<1>9. CASE PW!Validated
  <2>1. CASE ui' = PW!Blank(ui.provider, ui.url, None)
    BY <1>b, <2>1, BlankIsShown
  <2>2. ASSUME ~ui.hydrating,
               ui' = PW!pinPublicationToUrl([ui EXCEPT !.link = ui.form, !.step = "install",
                                                       !.working = FALSE], ui.form)
        PROVE  PublishInv'
    <3>1. ui' = [[ui EXCEPT !.link = ui.form, !.step = "install", !.working = FALSE]
                   EXCEPT !.url = ui.form]
      BY <2>2 DEF PW!pinPublicationToUrl
    <3>2. /\ PublishFields(ui') /\ ui'.form = ui.form /\ ui'.url = ui.form
          /\ ui'.link = ui.form /\ ui'.hydrating = ui.hydrating
      BY <1>a, <3>1 DEF PublishFields
    <3> QED
      BY <1>b, <2>2, <3>2 DEF PublishShown
  <2> QED
    BY <1>9, <2>1, <2>2 DEF PW!Validated, PW!At
<1>10. CASE PW!Change
  <2>1. ui' = [ui EXCEPT !.step = "pick"]
    BY <1>10 DEF PW!Change, PW!Do
  <2> QED
    BY <1>a, <1>b, <2>1 DEF PublishFields, PublishShown
<1>11. CASE PW!BackToCredentials
  <2>1. ui' = [ui EXCEPT !.step = "credentials"] /\ ~ui.hydrating /\ ui.step = "install"
    BY <1>11 DEF PW!BackToCredentials, PW!At, PW!Do
  <2> QED
    BY <1>a, <1>b, <2>1 DEF PublishFields, PublishShown
<1>12. CASE PW!Install \/ PW!Elsewhere
  BY <1>a, <1>c, <1>12 DEF PW!Install, PW!Elsewhere, PW!Do, SameShown, PublishFields
<1> QED
  BY <1>1, <1>2, <1>3, <1>4, <1>5, <1>6, <1>7, <1>8, <1>9, <1>10, <1>11, <1>12 DEF PW!Next

\* Past the first step the URL names the publication that is shown, so that loading
\* the page again resumes that one (pinPublicationToUrl in the wizards for Slack and
\* Linear).
THEOREM ShownPublicationIsPinned == Spec => []PinnedIsShown
<1> DEFINE I == route = "publish" => PublishInv
<1>1. Init => I
  <2> SUFFICES ASSUME Init, route = "publish" PROVE PublishInv
    OBVIOUS
  <2>1. \E p, a : ui = PW!Blank(p, None, a)
    BY DEF Init, PW!Init
  <2> QED
    BY <2>1, BlankIsShown DEF PublishInv
<1>2. I /\ [Next]_vars => I'
  <2> SUFFICES ASSUME I, [Next]_vars, route' = "publish" PROVE PublishInv'
    OBVIOUS
  <2>1. route = "publish" /\ PublishInv
    BY DEF Next, vars
  <2>2. CASE UNCHANGED vars
    BY <2>1, <2>2 DEF vars, PublishInv, PublishFields, PublishShown
  <2>3. CASE Next
    <3>1. PW!Next
      BY <2>1, <2>3 DEF Next
    <3> QED
      BY <2>1, <3>1, PublishStep
  <2> QED
    BY <2>2, <2>3
<1>3. I => PinnedIsShown
  BY DEF PinnedIsShown, PW!PinnedIsShown, PublishInv, PublishShown
<1> QED
  BY <1>1, <1>2, <1>3, PTL DEF Spec, vars

-----------------------------------------------------------------------------
(***************************************************************************)
(* Binding an agent to GitHub.                                             *)
(***************************************************************************)
\* The fields the argument is about; the others may hold anything.
BindFields(u, s) ==
  /\ {"phase", "url", "form", "poll", "ticks", "raced"} \subseteq DOMAIN u
  /\ "calls" \in DOMAIN s /\ DOMAIN s.calls = {"resume", "start", "gets"}
  /\ s.calls.resume # None => DOMAIN s.calls.resume = {"pub", "status"}

\* The phases in which no publication is being created.
Forms == {"config", "error"}

\* While a publication is being resumed nothing is polled and the URL names it, until
\* the user has bound another.
ResumeIsAlone(u, c) ==
  c.resume # None /\ (u.phase \in Forms \/ c.start # None \/ ~u.raced) =>
    u.poll = None /\ u.url = c.resume.pub

BindShown(u, s) ==
  /\ u.phase \in Forms => s.calls.start = None
  /\ s.calls.resume # None /\ ~u.raced => s.calls.start = None
  /\ ResumeIsAlone(u, s.calls)
  /\ u.poll # None /\ ~u.raced => u.poll = u.form /\ u.poll = u.url

BindInv == BindFields(ui, srv) /\ BindShown(ui, srv)

\* Nothing of the page that BindShown speaks of differs.
SameBind(u, v) ==
  /\ DOMAIN v = DOMAIN u /\ v.phase = u.phase /\ v.url = u.url /\ v.form = u.form
  /\ v.poll = u.poll /\ v.raced = u.raced

\* Nor of the calls.
SameCalls(s, t) ==
  /\ "calls" \in DOMAIN t /\ DOMAIN t.calls = DOMAIN s.calls
  /\ t.calls.resume = s.calls.resume /\ t.calls.start = s.calls.start

LEMMA BindKept ==
  ASSUME BindInv, SameBind(ui, ui'), SameCalls(srv, srv')
  PROVE  BindInv'
BY DEF BindInv, BindFields, BindShown, ResumeIsAlone, SameBind, SameCalls

LEMMA BindPersonaKeeps ==
  ASSUME NEW u, {"phase", "url", "form", "poll", "ticks", "raced"} \subseteq DOMAIN u
  PROVE  SameBind(u, BW!PersonaEffect(u))
BY DEF SameBind, BW!PersonaEffect

LEMMA BindStep ==
  ASSUME BindInv, BW!Next
  PROVE  BindInv'
<1>a. BindFields(ui, srv) /\ BindShown(ui, srv)
  BY DEF BindInv
<1> DEFINE c == srv.calls
           Keys == {"phase", "url", "form", "poll", "ticks", "raced"}
<1>f. /\ Keys \subseteq DOMAIN ui /\ "calls" \in DOMAIN srv
      /\ DOMAIN c = {"resume", "start", "gets"}
      /\ c.resume # None => DOMAIN c.resume = {"pub", "status"}
  BY <1>a DEF BindFields
<1>g. ASSUME BindFields(ui', srv'), BindShown(ui', srv') PROVE BindInv'
  BY <1>g DEF BindInv, BindFields, BindShown, ResumeIsAlone
<1>h. ASSUME NEW f, SameBind(ui, f), ui' = BW!PersonaEffect(f), srv' = srv
      PROVE  BindInv'
  <2>1. SameBind(f, ui')
    BY <1>f, <1>h, BindPersonaKeeps DEF SameBind
  <2> QED
    BY <1>f, <1>h, <2>1, BindKept DEF SameBind, SameCalls
\* The calls when the resume has ended.
<1>r. ASSUME BW!ResumeEnds
      PROVE  /\ "calls" \in DOMAIN srv' /\ DOMAIN srv'.calls = {"resume", "start", "gets"}
             /\ srv'.calls.resume = None /\ srv'.calls.start = c.start
  BY <1>f, <1>r DEF BW!ResumeEnds
<1>d. ASSUME NEW e, BW!ResumeDropped(e), c.resume # None PROVE BindInv'
  <2>1. /\ ui' = [ui EXCEPT !.url = None, !.error = e] /\ BW!ResumeEnds
    BY <1>d DEF BW!ResumeDropped
  <2>2. /\ DOMAIN ui' = DOMAIN ui /\ ui'.phase = ui.phase /\ ui'.form = ui.form
        /\ ui'.poll = ui.poll /\ ui'.raced = ui.raced
    BY <1>f, <2>1
  <2> QED
    BY <1>a, <1>d, <1>f, <1>g, <1>r, <2>1, <2>2 DEF BindFields, BindShown, ResumeIsAlone
<1>1. CASE BW!AgentsArrive
  <2>1. PICK l : ui' = BW!PersonaEffect([ui EXCEPT !.agents = l, !.loading = FALSE])
                 /\ srv' = srv
    BY <1>1 DEF BW!AgentsArrive
  <2>2. SameBind(ui, [ui EXCEPT !.agents = l, !.loading = FALSE])
    BY <1>f DEF SameBind
  <2> QED
    BY <1>h, <2>1, <2>2
<1>2. CASE BW!Reload
  <2> DEFINE r == IF ui.url = None THEN None ELSE [pub |-> ui.url, status |-> None]
  <2>1. /\ ui' = BW!Blank(ui.url, None)
        /\ srv' = [srv EXCEPT !.calls = [BW!NoCalls EXCEPT !.resume = r]]
    BY <1>2 DEF BW!Reload, BW!Do
  <2>2. r # None => DOMAIN r = {"pub", "status"} /\ r.pub = ui.url
    OBVIOUS
  <2> HIDE DEF r
  <2>3. /\ "calls" \in DOMAIN srv' /\ DOMAIN srv'.calls = {"resume", "start", "gets"}
        /\ srv'.calls.resume = r /\ srv'.calls.start = None
    BY <1>f, <2>1 DEF BW!NoCalls
  <2>4. /\ Keys \subseteq DOMAIN ui' /\ ui'.poll = None /\ ui'.url = ui.url
    BY <2>1 DEF BW!Blank
  <2> QED
    BY <1>g, <2>2, <2>3, <2>4 DEF BindFields, BindShown, ResumeIsAlone
<1>3. CASE BW!Redirected
  <2>1. /\ \E p : ui' = BW!Blank(None, p)
        /\ srv' = [srv EXCEPT !.calls = BW!NoCalls]
    BY <1>3 DEF BW!Redirected, BW!Do
  <2>2. /\ "calls" \in DOMAIN srv' /\ DOMAIN srv'.calls = {"resume", "start", "gets"}
        /\ srv'.calls.resume = None /\ srv'.calls.start = None
    BY <1>f, <2>1 DEF BW!NoCalls
  <2>3. Keys \subseteq DOMAIN ui' /\ ui'.poll = None
    BY <2>1 DEF BW!Blank
  <2> QED
    BY <1>g, <2>2, <2>3 DEF BindFields, BindShown, ResumeIsAlone
<1>4. CASE BW!ResumeStatus
  <2> DEFINE p == c.resume.pub
  <2>0. c.resume # None
    BY <1>4 DEF BW!ResumeStatus
  <2>1. CASE ui' = [ui EXCEPT !.phase = "done", !.live = p] /\ BW!ResumeEnds
    <3>1. /\ DOMAIN ui' = DOMAIN ui /\ ui'.phase = "done" /\ ui'.form = ui.form
          /\ ui'.poll = ui.poll /\ ui'.raced = ui.raced /\ ui'.url = ui.url
      BY <1>f, <2>1
    <3> QED
      BY <1>a, <1>f, <1>g, <1>r, <2>1, <3>1 DEF BindFields, BindShown, ResumeIsAlone, Forms
  <2>2. CASE BW!ResumeDropped(ui.error) \/ BW!ResumeDropped(TRUE)
    BY <1>d, <2>0, <2>2
  <2>3. ASSUME NEW st, ui' = ui, srv' = [srv EXCEPT !.calls.resume.status = st]
        PROVE  BindInv'
    <3> DEFINE r == [c.resume EXCEPT !.status = st]
               d == [c EXCEPT !.resume = r]
    <3>1. srv' = [srv EXCEPT !.calls = d]
      BY <2>3
    <3>2. DOMAIN r = {"pub", "status"} /\ r.pub = c.resume.pub
      BY <1>f, <2>0
    <3> HIDE DEF r
    <3>3. DOMAIN d = DOMAIN c /\ d.resume = r /\ d.start = c.start
      BY <1>f
    <3> HIDE DEF d
    <3>4. "calls" \in DOMAIN srv' /\ srv'.calls = d
      BY <1>f, <3>1
    <3> QED
      BY <1>a, <1>f, <1>g, <2>0, <2>3, <3>2, <3>3, <3>4
         DEF BindFields, BindShown, ResumeIsAlone
  <2> QED
    BY <1>4, <2>1, <2>2, <2>3 DEF BW!ResumeStatus
<1>5. CASE BW!ResumeForm
  <2>0. c.resume # None
    BY <1>5 DEF BW!ResumeForm
  <2>1. CASE BW!ResumeDropped(TRUE)
    BY <1>d, <2>0, <2>1
  <2>2. CASE ui' = BW!Resumed(ui, c.resume.pub, c.resume.status) /\ BW!ResumeEnds
    <3> DEFINE p == c.resume.pub
               race == ui.phase # "config" \/ c.start # None
               v == [ui EXCEPT !.form = p, !.agent = srv.agent[p], !.env = TRUE,
                               !.persona = srv.persona[p], !.raced = race]
               w == IF ui.agent = srv.agent[p] THEN v ELSE BW!PersonaEffect(v)
    <3>1. \/ ui' = [w EXCEPT !.phase = "registering"]
          \/ ui' = BW!startInstallPoll([w EXCEPT !.phase = "installing"], p)
      BY <2>2 DEF BW!Resumed
    <3> HIDE DEF race
    <3>2. /\ DOMAIN v = DOMAIN ui /\ v.form = p /\ v.url = ui.url /\ v.poll = ui.poll
          /\ v.raced = race
      BY <1>f
    <3> HIDE DEF v
    <3>3. SameBind(v, w)
      BY <1>f, <3>2, BindPersonaKeeps DEF SameBind
    <3> HIDE DEF w
    <3>4. /\ Keys \subseteq DOMAIN w /\ w.form = p /\ w.url = ui.url /\ w.poll = ui.poll
          /\ w.raced = race
      BY <1>f, <3>2, <3>3 DEF SameBind
    <3>5. /\ Keys \subseteq DOMAIN ui' /\ ui'.form = p /\ ui'.url = ui.url
          /\ ui'.raced = race /\ ui'.phase \in {"registering", "installing"}
          /\ ui'.poll \in {ui.poll, p}
      BY <3>1, <3>4 DEF BW!startInstallPoll, BW!stopPolling
    <3>6. ~race => ui.poll = None /\ ui.url = p
      BY <1>a, <2>0 DEF BindShown, ResumeIsAlone, Forms, race
    <3> QED
      BY <1>g, <1>r, <2>2, <3>5, <3>6 DEF BindFields, BindShown, ResumeIsAlone, Forms
  <2> QED
    BY <1>5, <2>1, <2>2 DEF BW!ResumeForm
<1>6. CASE BW!ConfigForm
  <2>1. ASSUME NEW a, ui' = BW!PersonaEffect([ui EXCEPT !.agent = a]), srv' = srv
        PROVE  BindInv'
    <3>1. SameBind(ui, [ui EXCEPT !.agent = a])
      BY <1>f DEF SameBind
    <3> QED
      BY <1>h, <2>1, <3>1
  <2>2. CASE ui' = [ui EXCEPT !.env = TRUE] /\ srv' = srv
    BY <1>f, <2>2, BindKept DEF SameBind, SameCalls
  <2>3. ASSUME NEW n, ui' = [ui EXCEPT !.persona = n, !.edited = TRUE], srv' = srv
        PROVE  BindInv'
    BY <1>f, <2>3, BindKept DEF SameBind, SameCalls
  <2> QED
    BY <1>6, <2>1, <2>2, <2>3 DEF BW!ConfigForm, BW!Do
<1>7. CASE BW!startBind
  <2>1. CASE ui' = [ui EXCEPT !.error = TRUE] /\ srv' = srv
    BY <1>f, <2>1, BindKept DEF SameBind, SameCalls
  <2>2. CASE BW!Ready(ui)
    <3> DEFINE race == ui.raced \/ c.resume # None
               st == [agent |-> ui.agent, persona |-> ui.persona]
    <3>1. /\ ui' = [ui EXCEPT !.error = FALSE, !.phase = "registering", !.raced = race]
          /\ srv' = [srv EXCEPT !.calls.start = st] /\ ui.phase = "config"
      BY <1>7, <2>2 DEF BW!startBind, BW!Do
    <3> HIDE DEF race, st
    <3>2. /\ DOMAIN ui' = DOMAIN ui /\ ui'.phase = "registering" /\ ui'.form = ui.form
          /\ ui'.poll = ui.poll /\ ui'.raced = race /\ ui'.url = ui.url
      BY <1>f, <3>1
    <3>3. /\ "calls" \in DOMAIN srv' /\ DOMAIN srv'.calls = DOMAIN c
          /\ srv'.calls.resume = c.resume /\ srv'.calls.start = st
      BY <1>f, <3>1
    <3>4. ui'.phase \notin Forms
      BY <3>2 DEF Forms
    <3>5. c.resume # None => ui.poll = None /\ ui.url = c.resume.pub
      BY <1>a, <3>1 DEF BindShown, ResumeIsAlone, Forms
    <3> QED
      BY <1>a, <1>f, <1>g, <3>2, <3>3, <3>4, <3>5
         DEF BindFields, BindShown, ResumeIsAlone, race
  <2> QED
    BY <1>7, <2>1, <2>2 DEF BW!startBind, BW!Do
<1>8. CASE BW!StartAnswer
  <2>0. c.start # None
    BY <1>8 DEF BW!StartAnswer
  <2>1. CASE /\ ui' = [ui EXCEPT !.error = TRUE, !.phase = "error"]
             /\ srv' = [srv EXCEPT !.calls.start = None]
    <3>1. /\ DOMAIN ui' = DOMAIN ui /\ ui'.phase = "error" /\ ui'.form = ui.form
          /\ ui'.poll = ui.poll /\ ui'.raced = ui.raced /\ ui'.url = ui.url
      BY <1>f, <2>1
    <3>2. /\ "calls" \in DOMAIN srv' /\ DOMAIN srv'.calls = DOMAIN c
          /\ srv'.calls.resume = c.resume /\ srv'.calls.start = None
      BY <1>f, <2>1
    <3> QED
      BY <1>a, <1>f, <1>g, <2>0, <3>1, <3>2 DEF BindFields, BindShown, ResumeIsAlone
  <2>2. ASSUME NEW p, NEW st, NEW ag, NEW pe, ui' = BW!Bound(ui, p),
               srv' = [srv EXCEPT !.calls.start = None, !.popup = p, !.status = st,
                                  !.agent = ag, !.persona = pe]
        PROVE  BindInv'
    <3>1. /\ Keys \subseteq DOMAIN ui' /\ ui'.phase = "installing" /\ ui'.form = p
          /\ ui'.url = p /\ ui'.poll = p /\ ui'.raced = ui.raced
      BY <1>f, <2>2 DEF BW!Bound, BW!startInstallPoll, BW!stopPolling
    <3>2. /\ "calls" \in DOMAIN srv' /\ DOMAIN srv'.calls = DOMAIN c
          /\ srv'.calls.resume = c.resume /\ srv'.calls.start = None
      BY <1>f, <2>2
    <3>3. ui'.phase \notin Forms
      BY <3>1 DEF Forms
    <3>4. c.resume # None => ui.raced
      BY <1>a, <2>0 DEF BindShown
    <3> QED
      BY <1>f, <1>g, <3>1, <3>2, <3>3, <3>4 DEF BindFields, BindShown, ResumeIsAlone
  <2> QED
    BY <1>8, <2>1, <2>2 DEF BW!StartAnswer
<1>9. CASE BW!TryAgain
  <2>1. /\ ui' = [ui EXCEPT !.phase = "config", !.error = FALSE] /\ srv' = srv
        /\ ui.phase = "error"
    BY <1>9 DEF BW!TryAgain, BW!Do
  <2>2. /\ DOMAIN ui' = DOMAIN ui /\ ui'.phase = "config" /\ ui'.form = ui.form
        /\ ui'.poll = ui.poll /\ ui'.raced = ui.raced /\ ui'.url = ui.url
    BY <1>f, <2>1
  <2> QED
    BY <1>a, <1>g, <2>1, <2>2 DEF BindFields, BindShown, ResumeIsAlone, Forms
<1>10. CASE BW!Popup \/ BW!ReopenPopup
  <2>1. /\ ui' = ui
        /\ \/ \E p, st : srv' = [srv EXCEPT !.status[p] = st]
           \/ srv' = [srv EXCEPT !.popup = ui.form]
    BY <1>10 DEF BW!Popup, BW!ReopenPopup, BW!Do
  <2> QED
    BY <1>f, <2>1, BindKept DEF SameBind, SameCalls
<1>11. CASE BW!Tick
  <2>1. CASE ui' = BW!stopPolling(ui) /\ srv' = srv
    <3>1. /\ DOMAIN ui' = DOMAIN ui /\ ui'.phase = ui.phase /\ ui'.form = ui.form
          /\ ui'.poll = None /\ ui'.raced = ui.raced /\ ui'.url = ui.url
      BY <1>f, <2>1 DEF BW!stopPolling
    <3> QED
      BY <1>a, <1>g, <2>1, <3>1 DEF BindFields, BindShown, ResumeIsAlone
  <2>2. ASSUME NEW n, NEW g, ui' = [ui EXCEPT !.ticks = n],
               srv' = [srv EXCEPT !.calls.gets = g]
        PROVE  BindInv'
    BY <1>f, <2>2, BindKept DEF SameBind, SameCalls
  <2> QED
    BY <1>11, <2>1, <2>2 DEF BW!Tick
<1>12. CASE BW!refresh
  <2>1. ui' = ui /\ srv' = [srv EXCEPT !.calls.gets = @ \cup {ui.form}]
    BY <1>12 DEF BW!refresh, BW!Do
  <2> QED
    BY <1>f, <2>1, BindKept DEF SameBind, SameCalls
<1>13. CASE BW!PollAnswer
  <2>1. PICK p : /\ srv' = [srv EXCEPT !.calls.gets = @ \ {p}]
                 /\ ui' = ui \/ ui' = BW!Live(ui, p)
    BY <1>13 DEF BW!PollAnswer
  <2>2. SameCalls(srv, srv')
    BY <1>f, <2>1 DEF SameCalls
  <2>3. CASE ui' = ui
    BY <2>2, <2>3, BindKept DEF SameBind
  <2>4. CASE ui' = BW!Live(ui, p)
    <3>1. /\ DOMAIN ui' = DOMAIN ui /\ ui'.phase = "done" /\ ui'.form = ui.form
          /\ ui'.poll = None /\ ui'.raced = ui.raced /\ ui'.url = ui.url
      BY <1>f, <2>4 DEF BW!Live, BW!stopPolling
    <3>2. ui'.phase \notin Forms
      BY <3>1 DEF Forms
    <3> QED
      BY <1>a, <1>f, <1>g, <2>2, <3>1, <3>2
         DEF BindFields, BindShown, ResumeIsAlone, SameCalls
  <2> QED
    BY <2>1, <2>3, <2>4
<1>14. CASE BW!View
  <2>1. ui' = [BW!stopPolling(ui) EXCEPT !.page = "integrations"] /\ srv' = srv
    BY <1>14 DEF BW!View, BW!Do
  <2>2. /\ DOMAIN ui' = DOMAIN ui /\ ui'.phase = ui.phase /\ ui'.form = ui.form
        /\ ui'.poll = None /\ ui'.raced = ui.raced /\ ui'.url = ui.url
    BY <1>f, <2>1 DEF BW!stopPolling
  <2> QED
    BY <1>a, <1>g, <2>1, <2>2 DEF BindFields, BindShown, ResumeIsAlone
<1> QED
  BY <1>1, <1>2, <1>3, <1>4, <1>5, <1>6, <1>7, <1>8, <1>9, <1>10, <1>11, <1>12, <1>13,
     <1>14 DEF BW!Next

\* The poll is for the publication whose form is shown and that a reload resumes,
\* unless the user bound one while another was being resumed (startInstallPoll of the
\* wizard for GitHub).
THEOREM PollIsPinned == Spec => []PollsPinned
<1> DEFINE I == route = "bind" => BindInv
<1>1. Init => I
  <2> SUFFICES ASSUME Init, route = "bind" PROVE BindInv
    OBVIOUS
  <2>1. /\ ui = BW!Blank(None, None) /\ "calls" \in DOMAIN srv /\ srv.calls = BW!NoCalls
    BY DEF Init, BW!Init
  <2>2. /\ {"phase", "url", "form", "poll", "ticks", "raced"} \subseteq DOMAIN ui
        /\ ui.poll = None
    BY <2>1 DEF BW!Blank
  <2>3. /\ DOMAIN srv.calls = {"resume", "start", "gets"}
        /\ srv.calls.resume = None /\ srv.calls.start = None
    BY <2>1 DEF BW!NoCalls
  <2> QED
    BY <2>1, <2>2, <2>3 DEF BindInv, BindFields, BindShown, ResumeIsAlone
<1>2. I /\ [Next]_vars => I'
  <2> SUFFICES ASSUME I, [Next]_vars, route' = "bind" PROVE BindInv'
    OBVIOUS
  <2>1. route = "bind" /\ BindInv
    BY DEF Next, vars
  <2>2. CASE UNCHANGED vars
    BY <2>1, <2>2 DEF vars, BindInv, BindFields, BindShown, ResumeIsAlone
  <2>3. CASE Next
    <3>1. BW!Next
      BY <2>1, <2>3 DEF Next
    <3> QED
      BY <2>1, <3>1, BindStep
  <2> QED
    BY <2>2, <2>3
<1>3. I => PollsPinned
  BY DEF PollsPinned, BW!PollsPinned, BindInv, BindShown
<1> QED
  BY <1>1, <1>2, <1>3, PTL DEF Spec, vars

-----------------------------------------------------------------------------
(***************************************************************************)
(* The page of an environment.                                             *)
(***************************************************************************)
PackageRows == [manager : Managers, packages : SUBSET Specs]

PackageLists == [Managers -> SUBSET Specs]

Networks == [type : {"unrestricted", "limited"}, mcp : BOOLEAN, hosts : BOOLEAN]

EnvironmentTypes == {"cloud", "sandbox"}

KeptParts == [type : EnvironmentTypes, hidden : Hidden]

\* What a save sends.
SaveBodies ==
  [description : BOOLEAN, hidden : Hidden, packages : PackageLists,
   networking : Networks, metadata : {None} \cup Specs, type : EnvironmentTypes,
   rest : BOOLEAN]

EnvironmentUi ==
  [page : {"environment", "environments"}, env : EP!Stored \cup {None},
   fetched : EP!Stored \cup {None}, name : BOOLEAN, description : BOOLEAN,
   networking : Networks, rows : Seq(PackageRows), gem : Hidden \cup {None},
   metadata : Seq(Specs), saving : SaveBodies \cup {None}]

EnvironmentSrv ==
  [env : EP!Stored, theirs : KeptParts, gone : BOOLEAN, crossed : BOOLEAN]

\* The hidden parts that a seeded form would send, and those that a request under way
\* sends, are what the others left there last, unless one of them came in between.
HiddenIsTheirs(u, s) ==
  /\ EP!Kept(s.env) = s.theirs
  /\ u.env # None => u.gem = u.env.hidden
  /\ u.saving # None => u.env # None
  /\ ~s.crossed => /\ u.env # None => EP!Kept(u.env) = s.theirs
                   /\ u.saving # None => EP!Kept(u.saving) = s.theirs

EnvironmentInv ==
  ui \in EnvironmentUi /\ srv \in EnvironmentSrv /\ HiddenIsTheirs(ui, srv)

LEMMA SameEnvCount == \A S : EP!Cardinality(S) = Cardinality(S)
BY Zenon DEF EP!Cardinality, Cardinality, IsFiniteSet, EP!IsFiniteSet

\* The managers in some order.
LEMMA Ordered ==
  ASSUME NEW S \in SUBSET Managers
  PROVE  EP!SetToSeq(S) \in [1..Cardinality(S) -> S] /\ Cardinality(S) \in Nat
<1>1. IsFiniteSet(S)
  BY FS_Subset, EnvironmentAssumption
<1>2. Cardinality(S) \in Nat /\ ExistsBijection(1..Cardinality(S), S)
  BY <1>1, FS_CardinalityType
<1>3. \E f \in [1..Cardinality(S) -> S] : EP!IsInjective(f)
  BY <1>2 DEF ExistsBijection, Bijection, Injection, IsInjective, EP!IsInjective
<1>4. EP!SetToSeq(S) = CHOOSE f \in [1..Cardinality(S) -> S] : EP!IsInjective(f)
  BY SameEnvCount DEF EP!SetToSeq
<1> QED
  BY <1>2, <1>3, <1>4

LEMMA RowsOfPackages ==
  ASSUME NEW p \in PackageLists
  PROVE  EP!packagesToRows(p) \in Seq(PackageRows)
<1> DEFINE has == {m \in Managers : p[m] # {}}
           q == EP!SetToSeq(has)
<1>1. q \in [1..Cardinality(has) -> has] /\ Cardinality(has) \in Nat
  BY Ordered
<1>2. EP!packagesToRows(p) = [i \in 1..Len(q) |-> [manager |-> q[i], packages |-> p[q[i]]]]
  BY DEF EP!packagesToRows
<1>3. has \subseteq Managers
  OBVIOUS
<1> HIDE DEF q, has
<1>4. Len(q) = Cardinality(has)
  BY <1>1
<1>5. \A i \in 1..Len(q) : q[i] \in Managers /\ p[q[i]] \in SUBSET Specs
  BY <1>1, <1>3, <1>4 DEF PackageLists
<1>6. \A i \in 1..Len(q) : [manager |-> q[i], packages |-> p[q[i]]] \in PackageRows
  BY <1>5 DEF PackageRows
<1> QED
  BY <1>1, <1>2, <1>4, <1>6

LEMMA PackagesOfRows ==
  ASSUME NEW rows \in Seq(PackageRows)
  PROVE  EP!rowsToPackages(rows) \in PackageLists
<1>1. ASSUME NEW i \in DOMAIN rows PROVE rows[i].packages \in SUBSET Specs
  <2>1. rows[i] \in PackageRows
    OBVIOUS
  <2> QED
    BY <2>1 DEF PackageRows
<1>2. \A m \in Managers :
        UNION {rows[i].packages : i \in {j \in DOMAIN rows : rows[j].manager = m}}
          \in SUBSET Specs
  BY <1>1
<1> QED
  BY <1>2 DEF EP!rowsToPackages, PackageLists

\* Seeding the form takes the hidden parts of what seeds it.
LEMMA SeedsForm ==
  ASSUME NEW u \in EnvironmentUi, NEW e \in EP!Stored
  PROVE  LET v == EP!applyEnv(u, e)
         IN v \in EnvironmentUi /\ v.gem = e.hidden /\ v.env = e /\ v.saving = u.saving
<1> DEFINE rows == EP!packagesToRows(e.packages)
           md == EP!metadataToRows(e.metadata)
           v == EP!applyEnv(u, e)
<1>1. rows \in Seq(PackageRows)
  BY RowsOfPackages DEF EP!Stored, PackageLists
<1>2. md \in Seq(Specs)
  BY DEF EP!Stored, EP!metadataToRows
<1>3. v = [u EXCEPT !.env = e, !.name = e.name, !.description = e.description,
                    !.networking = e.networking, !.rows = rows,
                    !.gem = e.hidden, !.metadata = md]
  BY DEF EP!applyEnv
<1>4. /\ e.name \in BOOLEAN /\ e.description \in BOOLEAN /\ e.networking \in Networks
      /\ e.hidden \in Hidden
  BY DEF EP!Stored, Networks
<1> HIDE DEF rows, md, v
<1>5. v \in EnvironmentUi
  BY <1>1, <1>2, <1>3, <1>4 DEF EnvironmentUi
<1>6. v.gem = e.hidden /\ v.env = e /\ v.saving = u.saving
  BY <1>3 DEF EnvironmentUi
<1> QED
  BY <1>5, <1>6 DEF v

\* A save that is accepted replaces the hidden parts by those of the request.
LEMMA SavesBody ==
  ASSUME NEW e \in EP!Stored, NEW b \in SaveBodies, EP!ValidConfig(b)
  PROVE  EP!updateEnvironment(e, b) \in EP!Stored
         /\ EP!Kept(EP!updateEnvironment(e, b)) = EP!Kept(b)
         /\ EP!updateEnvironment(e, b).hidden = b.hidden
BY DEF EP!updateEnvironment, EP!Stored, SaveBodies, Networks, PackageLists,
       EnvironmentTypes, EP!ValidConfig, EP!Kept

\* What the form would send.
LEMMA FormBody ==
  ASSUME NEW u \in EnvironmentUi, u.env # None, u.gem = u.env.hidden
  PROVE  EP!Body(u) \in SaveBodies /\ EP!Kept(EP!Body(u)) = EP!Kept(u.env)
<1>1. EP!rowsToPackages(u.rows) \in PackageLists
  BY PackagesOfRows DEF EnvironmentUi
<1>2. EP!buildNetworking(u.networking) \in Networks
  BY DEF EnvironmentUi, Networks, EP!buildNetworking
<1>3. EP!rowsToMetadata(u.metadata) \in {None} \cup Specs
  <2>1. u.metadata \in Seq(Specs)
    BY DEF EnvironmentUi
  <2> DEFINE md == u.metadata
  <2>2. md \in Seq(Specs)
    BY <2>1
  <2> HIDE DEF md
  <2>3. md # <<>> => md[Len(md)] \in Specs
    BY <2>2
  <2> QED
    BY <2>3 DEF EP!rowsToMetadata, EP!Last, md
<1>4. /\ u.description \in BOOLEAN /\ u.gem \in Hidden
      /\ u.env.type \in EnvironmentTypes
  BY DEF EnvironmentUi, EP!Stored, EnvironmentTypes
<1> QED
  BY <1>1, <1>2, <1>3, <1>4 DEF EP!Body, SaveBodies, EP!Kept

\* A row is removed.
LEMMA RowRemoved ==
  ASSUME NEW S, NEW s \in Seq(S), NEW i \in DOMAIN s
  PROVE  EP!RemoveAt(s, i) \in Seq(S)
<1>1. i \in 1..Len(s) /\ Len(s) \in Nat
  OBVIOUS
<1>2. SubSeq(s, 1, i-1) \in Seq(S) /\ SubSeq(s, i+1, Len(s)) \in Seq(S)
  BY <1>1
<1> QED
  BY <1>2 DEF EP!RemoveAt

LEMMA EnvironmentStep ==
  ASSUME EnvironmentInv, EP!Next
  PROVE  EnvironmentInv'
<1>a. ui \in EnvironmentUi /\ srv \in EnvironmentSrv /\ HiddenIsTheirs(ui, srv)
  BY DEF EnvironmentInv
<1>s. srv.env \in EP!Stored /\ srv.env # None /\ srv.env.hidden \in Hidden
  BY <1>a, EnvironmentAssumption DEF EnvironmentSrv, EP!Stored
\* A step of the form, or one that ends a request.
<1>b. ASSUME srv' = srv, ui' \in EnvironmentUi, ui'.env = ui.env, ui'.gem = ui.gem,
             ui'.saving \in {ui.saving, None}
      PROVE  EnvironmentInv'
  BY <1>a, <1>b DEF EnvironmentInv, HiddenIsTheirs
<1>1. CASE EP!Fetched
  <2> DEFINE f == [ui EXCEPT !.fetched = srv.env]
             c == srv.crossed /\ ui.saving # None
  <2>1. ui' = EP!applyEnv(f, srv.env) /\ srv' = [srv EXCEPT !.crossed = c]
    BY <1>1 DEF EP!Fetched
  <2>2. f \in EnvironmentUi /\ f.saving = ui.saving
    BY <1>a, <1>s DEF EnvironmentUi
  <2>c. c \in BOOLEAN
    OBVIOUS
  <2> HIDE DEF f, c
  <2>3. /\ ui' \in EnvironmentUi /\ ui'.gem = srv.env.hidden /\ ui'.env = srv.env
        /\ ui'.saving = ui.saving
    BY <1>s, <2>1, <2>2, SeedsForm
  <2>4. /\ srv' \in EnvironmentSrv /\ srv'.env = srv.env /\ srv'.theirs = srv.theirs
        /\ srv'.crossed = c
    BY <1>a, <2>1, <2>c DEF EnvironmentSrv
  <2>5. HiddenIsTheirs(ui', srv')
    BY <1>a, <1>s, <2>3, <2>4 DEF HiddenIsTheirs, c
  <2> QED
    BY <2>3, <2>4, <2>5 DEF EnvironmentInv, HiddenIsTheirs
<1>2. CASE EP!LoadFails \/ EP!cancel
  <2>1. ui' = [ui EXCEPT !.page = "environments"] /\ srv' = srv
    BY <1>2 DEF EP!LoadFails, EP!cancel, EP!Do
  <2> QED
    BY <1>a, <1>b, <2>1 DEF EnvironmentUi
<1>3. CASE EP!NameField \/ EP!DescriptionField \/ EP!Networking
  <2>1. CASE EP!NameField
    <3>1. ui' = [ui EXCEPT !.name = ~ui.name] /\ srv' = srv
      BY <2>1 DEF EP!NameField, EP!Do
    <3>2. ui.name \in BOOLEAN
      BY <1>a DEF EnvironmentUi
    <3> QED
      BY <1>a, <1>b, <3>1 DEF EnvironmentUi
  <2>2. CASE EP!DescriptionField
    <3>1. ui' = [ui EXCEPT !.description = ~ui.description] /\ srv' = srv
      BY <2>2 DEF EP!DescriptionField, EP!Do
    <3> QED
      BY <1>a, <1>b, <3>1 DEF EnvironmentUi
  <2>3. CASE EP!Networking
    <3> DEFINE net == ui.networking
               t == IF net.type = "limited" THEN "unrestricted" ELSE "limited"
    <3>1. net \in Networks
      BY <1>a DEF EnvironmentUi
    <3>2. /\ srv' = srv
          /\ \/ ui' = [ui EXCEPT !.networking = [net EXCEPT !.type = t]]
             \/ ui' = [ui EXCEPT !.networking = [net EXCEPT !.mcp = ~net.mcp]]
             \/ ui' = [ui EXCEPT !.networking = [net EXCEPT !.hosts = ~net.hosts]]
      BY <2>3 DEF EP!Networking, EP!Do
    <3> HIDE DEF net
    <3>3. /\ [net EXCEPT !.type = t] \in Networks /\ [net EXCEPT !.mcp = ~net.mcp] \in Networks
          /\ [net EXCEPT !.hosts = ~net.hosts] \in Networks
      BY <3>1 DEF Networks
    <3>4. srv' = srv /\ \E n \in Networks : ui' = [ui EXCEPT !.networking = n]
      BY <3>2, <3>3
    <3> QED
      BY <1>a, <1>b, <3>4 DEF EnvironmentUi
  <2> QED
    BY <1>3, <2>1, <2>2, <2>3
<1>4. CASE EP!AddPackageRow \/ EP!PackageRow
  <2>1. srv' = srv /\ \E r \in Seq(PackageRows) : ui' = [ui EXCEPT !.rows = r]
    <3> DEFINE rows == ui.rows
    <3>r. rows \in Seq(PackageRows)
      BY <1>a DEF EnvironmentUi
    <3>1. CASE EP!AddPackageRow
      <4> DEFINE row == [manager |-> CHOOSE m \in Managers : TRUE, packages |-> {}]
      <4>1. row \in PackageRows
        BY EnvironmentAssumption DEF PackageRows
      <4>2. srv' = srv /\ ui' = [ui EXCEPT !.rows = Append(rows, row)]
        BY <3>1 DEF EP!AddPackageRow, EP!Do
      <4> HIDE DEF rows, row
      <4>3. Append(rows, row) \in Seq(PackageRows)
        BY <3>r, <4>1
      <4> QED
        BY <4>2, <4>3
    <3>2. CASE EP!PackageRow
      <4>1. PICK i \in DOMAIN rows :
              \/ \E m \in Managers : ui' = [ui EXCEPT !.rows = [rows EXCEPT ![i].manager = m]]
              \/ \E p \in SUBSET Specs :
                   ui' = [ui EXCEPT !.rows = [rows EXCEPT ![i].packages = p]]
              \/ ui' = [ui EXCEPT !.rows = EP!RemoveAt(rows, i)]
        BY <3>2 DEF EP!PackageRow, EP!Do
      <4> HIDE DEF rows
      <4>2. EP!RemoveAt(rows, i) \in Seq(PackageRows)
        BY <3>r, RowRemoved
      <4>3. ASSUME NEW r \in PackageRows PROVE [rows EXCEPT ![i] = r] \in Seq(PackageRows)
        BY <3>r
      <4>4. rows[i] \in PackageRows
        BY <3>r
      <4>5. ASSUME NEW m \in Managers
            PROVE  [rows EXCEPT ![i].manager = m] \in Seq(PackageRows)
        <5>1. [rows[i] EXCEPT !.manager = m] \in PackageRows
          BY <4>4 DEF PackageRows
        <5> QED
          BY <4>3, <5>1
      <4>6. ASSUME NEW p \in SUBSET Specs
            PROVE  [rows EXCEPT ![i].packages = p] \in Seq(PackageRows)
        <5>1. [rows[i] EXCEPT !.packages = p] \in PackageRows
          BY <4>4 DEF PackageRows
        <5> QED
          BY <4>3, <5>1
      <4>7. srv' = srv
        BY <3>2 DEF EP!PackageRow
      <4> QED
        BY <4>1, <4>2, <4>5, <4>6, <4>7
    <3> QED
      BY <1>4, <3>1, <3>2
  <2> QED
    BY <1>a, <1>b, <2>1 DEF EnvironmentUi
<1>5. CASE EP!MetadataRow
  <2>1. srv' = srv /\ \E r \in Seq(Specs) : ui' = [ui EXCEPT !.metadata = r]
    <3> DEFINE md == ui.metadata
    <3>1. md \in Seq(Specs)
      BY <1>a DEF EnvironmentUi
    <3>2. /\ srv' = srv
          /\ \/ \E v \in Specs : ui' = [ui EXCEPT !.metadata = Append(md, v)]
             \/ \E i \in DOMAIN md : ui' = [ui EXCEPT !.metadata = EP!RemoveAt(md, i)]
      BY <1>5 DEF EP!MetadataRow, EP!Do
    <3> HIDE DEF md
    <3>3. \A v \in Specs : Append(md, v) \in Seq(Specs)
      BY <3>1
    <3>4. \A i \in DOMAIN md : EP!RemoveAt(md, i) \in Seq(Specs)
      BY <3>1, RowRemoved
    <3> QED
      BY <3>2, <3>3, <3>4
  <2> QED
    BY <1>a, <1>b, <2>1 DEF EnvironmentUi
<1>6. CASE EP!save
  <2> DEFINE b == EP!Body(ui)
  <2>1. ui' = [ui EXCEPT !.saving = b] /\ srv' = srv /\ ui.env # None
    BY <1>6 DEF EP!save, EP!Do, EP!Ready
  <2>2. b \in SaveBodies /\ EP!Kept(b) = EP!Kept(ui.env)
    BY <1>a, <2>1, FormBody DEF HiddenIsTheirs
  <2> HIDE DEF b
  <2>3. ui' \in EnvironmentUi /\ ui'.env = ui.env /\ ui'.gem = ui.gem /\ ui'.saving = b
    BY <1>a, <2>1, <2>2 DEF EnvironmentUi
  <2> QED
    BY <1>a, <2>1, <2>2, <2>3 DEF EnvironmentInv, HiddenIsTheirs
<1>7. CASE EP!Saved
  <2> DEFINE e == EP!updateEnvironment(srv.env, ui.saving)
             t == IF srv.crossed THEN EP!Kept(e) ELSE srv.theirs
             f == [ui EXCEPT !.saving = None]
  <2>1. /\ srv' = [srv EXCEPT !.env = e, !.crossed = FALSE, !.theirs = t]
        /\ ui' = EP!applyEnv(f, e) /\ ui.saving # None
        /\ EP!ValidConfig(ui.saving)
    BY <1>7 DEF EP!Saved
  <2>2. ui.saving \in SaveBodies
    BY <1>a, <2>1 DEF EnvironmentUi
  <2>3. e \in EP!Stored /\ EP!Kept(e) = EP!Kept(ui.saving)
    BY <1>s, <2>1, <2>2, SavesBody
  <2>4. t = EP!Kept(e)
    BY <1>a, <2>1, <2>3 DEF HiddenIsTheirs
  <2>5. f \in EnvironmentUi /\ f.saving = None
    BY <1>a DEF EnvironmentUi
  <2> HIDE DEF e, t, f
  <2>6. EP!Kept(e) \in KeptParts
    BY <2>3 DEF EP!Stored, EP!Kept, KeptParts, EnvironmentTypes
  <2>7. /\ ui' \in EnvironmentUi /\ ui'.gem = e.hidden /\ ui'.env = e /\ ui'.saving = None
    BY <2>1, <2>3, <2>5, SeedsForm
  <2>8. srv' \in EnvironmentSrv /\ srv'.env = e /\ srv'.theirs = t
    BY <1>a, <2>1, <2>3, <2>4, <2>6 DEF EnvironmentSrv
  <2>9. HiddenIsTheirs(ui', srv')
    BY <2>4, <2>6, <2>7, <2>8 DEF HiddenIsTheirs
  <2> QED
    BY <2>7, <2>8, <2>9 DEF EnvironmentInv, HiddenIsTheirs
<1>8. CASE EP!SaveFails
  <2>1. ui' = [ui EXCEPT !.saving = None] /\ srv' = srv
    BY <1>8 DEF EP!SaveFails
  <2> QED
    BY <1>a, <1>b, <2>1 DEF EnvironmentUi
<1>9. CASE EP!OthersUpdate
  <2>u. ui' = ui
    BY <1>9 DEF EP!OthersUpdate, EP!Do
  <2>1. CASE srv' = [srv EXCEPT !.gone = TRUE]
    <3>1. /\ srv' \in EnvironmentSrv /\ srv'.env = srv.env /\ srv'.theirs = srv.theirs
          /\ srv'.crossed = srv.crossed
      BY <1>a, <2>1 DEF EnvironmentSrv
    <3> QED
      BY <1>a, <2>u, <3>1 DEF EnvironmentInv, HiddenIsTheirs
  <2>2. ASSUME NEW h \in Hidden, NEW t \in {"cloud", "sandbox"}, NEW r \in BOOLEAN,
               LET e == [srv.env EXCEPT !.hidden = h, !.type = t, !.rest = r]
               IN /\ EP!ValidConfig(e)
                  /\ srv' = [srv EXCEPT !.env = e, !.theirs = EP!Kept(e),
                                        !.crossed = ui.env # None]
        PROVE  EnvironmentInv'
    <3> DEFINE e == [srv.env EXCEPT !.hidden = h, !.type = t, !.rest = r]
               k == EP!Kept(e)
               c == ui.env # None
    <3>1. /\ srv' = [srv EXCEPT !.env = e, !.theirs = k, !.crossed = c]
          /\ EP!ValidConfig(e)
      BY <2>2
    <3>2. e \in EP!Stored
      BY <1>s, <3>1 DEF EP!Stored, EP!ValidConfig
    <3>3. k \in KeptParts
      BY <3>2 DEF EP!Stored, EP!Kept, KeptParts, EnvironmentTypes
    <3>4. k = EP!Kept(e) /\ c \in BOOLEAN
      OBVIOUS
    <3> HIDE DEF e, k
    <3>5. srv' \in EnvironmentSrv /\ srv'.env = e /\ srv'.theirs = k /\ srv'.crossed = c
      BY <1>a, <3>1, <3>2, <3>3, <3>4 DEF EnvironmentSrv
    <3> QED
      BY <1>a, <2>u, <3>4, <3>5 DEF EnvironmentInv, HiddenIsTheirs
  <2> QED
    BY <1>9, <2>1, <2>2 DEF EP!OthersUpdate
<1> QED
  BY <1>1, <1>2, <1>3, <1>4, <1>5, <1>6, <1>7, <1>8, <1>9 DEF EP!Next

\* The gem packages, the dockerfile and the type that EnvironmentDetail.tsx copies into
\* the configuration it replaces survive every save, unless another client changed one
\* of them after the form was seeded, and an environment of the type sandbox keeps its
\* config.sandbox.  (Of any other a save drops what the page has no name for.)
THEOREM HiddenPartsSurvive == Spec => []HiddenSurvives
<1> DEFINE I == route = "environment" => EnvironmentInv
<1>1. Init => I
  <2> SUFFICES ASSUME Init, route = "environment" PROVE EnvironmentInv
    OBVIOUS
  <2>1. EP!Init
    BY DEF Init
  <2>2. ui \in EnvironmentUi /\ ui.env = None /\ ui.saving = None
    BY <2>1 DEF EP!Init, EP!Unrestricted, EnvironmentUi, Networks
  <2>3. PICK e \in EP!Stored :
          srv = [env |-> e, theirs |-> EP!Kept(e), gone |-> FALSE, crossed |-> FALSE]
    BY <2>1 DEF EP!Init
  <2>4. srv \in EnvironmentSrv /\ EP!Kept(srv.env) = srv.theirs
    <3>1. EP!Kept(e) \in KeptParts
      BY DEF EP!Stored, EP!Kept, KeptParts, EnvironmentTypes
    <3> QED
      BY <2>3, <3>1 DEF EnvironmentSrv
  <2> QED
    BY <2>2, <2>4 DEF EnvironmentInv, HiddenIsTheirs
<1>2. I /\ [Next]_vars => I'
  <2> SUFFICES ASSUME I, [Next]_vars, route' = "environment" PROVE EnvironmentInv'
    OBVIOUS
  <2>1. route = "environment" /\ EnvironmentInv
    BY DEF Next, vars
  <2>2. CASE UNCHANGED vars
    BY <2>1, <2>2 DEF vars, EnvironmentInv, HiddenIsTheirs
  <2>3. CASE Next
    <3>1. EP!Next
      BY <2>1, <2>3 DEF Next
    <3> QED
      BY <2>1, <3>1, EnvironmentStep
  <2> QED
    BY <2>2, <2>3
<1>3. I => HiddenSurvives
  <2> SUFFICES ASSUME route = "environment", EnvironmentInv, ~srv.crossed
               PROVE  /\ EP!Kept(srv.env) = srv.theirs
                      /\ srv.theirs.type = "sandbox" => srv.env.rest
    BY DEF HiddenSurvives, EP!HiddenSurvives
  <2>1. srv.env \in EP!Stored /\ EP!Kept(srv.env) = srv.theirs
    BY DEF EnvironmentInv, EnvironmentSrv, HiddenIsTheirs
  <2>2. srv.theirs.type = srv.env.type
    BY <2>1 DEF EP!Kept
  <2> QED
    BY <2>1, <2>2 DEF EP!Stored, EP!ValidConfig
<1> QED
  BY <1>1, <1>2, <1>3, PTL DEF Spec, vars

-----------------------------------------------------------------------------
(***************************************************************************)
(* The pages about the account.                                            *)
(***************************************************************************)
\* The fields the argument is about; the others may hold anything.
AccountFields(u) ==
  {"view", "sent", "working", "want", "minted", "batch", "calls"} \subseteq DOMAIN u

\* The calls of the batch that runs.
Running(u) == {c \in u.calls : c.n = u.batch}

\* The entries of the approved workspaces, none with a token.
Entries(ts) == {AC!Untokened(t) : t \in ts}

\* What was approved has its entry or is still asked for, no call is of a later
\* batch, and the browser left with all of it or with nothing.
BatchIsWhole(u) ==
  /\ u.batch \in Nat /\ \A c \in u.calls : c.n \in Nat /\ c.n <= u.batch
  /\ u.working => Entries(u.want) = u.minted \cup {AC!Untokened(c.t) : c \in Running(u)}
  /\ u.sent \in {None, AC!Leave("tokens", Entries(u.want)), AC!Leave("cancelled", {})}

AccountInv == AccountFields(ui) /\ (ui.view = "cli" => BatchIsWhole(ui))

\* Nothing that BatchIsWhole speaks of differs.
SameBatch(u, v) ==
  /\ DOMAIN v = DOMAIN u /\ v.view = u.view /\ v.sent = u.sent
  /\ v.working = u.working /\ v.want = u.want /\ v.minted = u.minted
  /\ v.batch = u.batch /\ v.calls = u.calls

\* The pages keep their kind.
SameView(u, v) == DOMAIN v = DOMAIN u /\ v.view = u.view

LEMMA BatchKept ==
  ASSUME AccountInv, SameBatch(ui, ui')
  PROVE  AccountInv'
BY DEF AccountInv, AccountFields, SameBatch, BatchIsWhole, Running

LEMMA OtherView ==
  ASSUME AccountInv, SameView(ui, ui'), ui.view # "cli"
  PROVE  AccountInv'
BY DEF AccountInv, AccountFields, SameView

\* A good answer and a repair touch nothing of a batch.
LEMMA HelperKeeps ==
  ASSUME NEW u, AccountFields(u)
  PROVE  SameBatch(u, AC!Answered(u)) /\ SameBatch(u, AC!SelfHeal(u))
BY DEF AccountFields, SameBatch, AC!Answered, AC!SelfHeal

\* The server's answer has no field that the page reads a token from.
LEMMA AnswerHasNoToken ==
  ASSUME NEW t, NEW n
  PROVE  AC!MintedToken(t, AC!cliToken(n)) = AC!Untokened(t)
BY DEF AC!MintedToken, AC!cliToken, AC!Read, AC!Untokened

\* A call that has its token, or none any more, leaves the batch.
LEMMA CallReturns ==
  ASSUME NEW u, NEW c \in u.calls, NEW v, BatchIsWhole(u),
         v.batch = u.batch, v.calls = u.calls \ {c}, v.sent = u.sent, v.want = u.want,
         \/ /\ v.working = u.working
            /\ v.minted = IF c.n = u.batch /\ u.working
                          THEN u.minted \cup {AC!Untokened(c.t)} ELSE u.minted
         \/ ~v.working
         \/ v.working = u.working /\ v.minted = u.minted /\ c.n # u.batch
  PROVE  BatchIsWhole(v)
<1>1. v.working => Entries(v.want) = v.minted \cup {AC!Untokened(x.t) : x \in Running(v)}
  <2> SUFFICES ASSUME v.working
                  PROVE  Entries(v.want) = v.minted \cup {AC!Untokened(x.t) : x \in Running(v)}
    OBVIOUS
  <2>1. u.working /\ Entries(u.want) = u.minted \cup {AC!Untokened(x.t) : x \in Running(u)}
    BY DEF BatchIsWhole
  <2>2. Running(v) = Running(u) \ {c}
    BY DEF Running
  <2>3. CASE c.n = u.batch
    <3>1. v.minted = u.minted \cup {AC!Untokened(c.t)} /\ c \in Running(u)
      BY <2>1, <2>3 DEF Running
    <3> QED
      BY <2>1, <2>2, <3>1
  <2>4. CASE c.n # u.batch
    <3>1. v.minted = u.minted /\ Running(v) = Running(u)
      BY <2>2, <2>4 DEF Running
    <3> QED
      BY <2>1, <3>1
  <2> QED
    BY <2>3, <2>4
<1> QED
  BY <1>1 DEF BatchIsWhole

LEMMA AccountStep ==
  ASSUME AccountInv, AC!Next
  PROVE  AccountInv'
<1>a. AccountFields(ui)
  BY DEF AccountInv
<1>w. ui.view = "cli" => BatchIsWhole(ui)
  BY DEF AccountInv
<1>1. CASE AC!MembershipChanges
  BY <1>a, <1>1, BatchKept DEF AC!MembershipChanges, SameBatch
<1>2. CASE AC!Reload
  <2>1. ui' = AC!Fresh(ui.view, ui.ok, ui.pin, ui.healed)
    BY <1>2 DEF AC!Reload, AC!See
  <2>2. /\ AccountFields(ui') /\ ui'.batch = 0 /\ ui'.calls = {} /\ ui'.working = FALSE
        /\ ui'.sent = None
    BY <2>1 DEF AC!Fresh, AccountFields
  <2> QED
    BY <2>2 DEF AccountInv, BatchIsWhole, AccountFields
<1>3. CASE AC!MeAnswer
  <2>1. PICK s : ui' = AC!Answered([ui EXCEPT !.me = srv.members, !.selected = s])
    BY <1>3 DEF AC!MeAnswer, AC!See
  <2> DEFINE f == [ui EXCEPT !.me = srv.members, !.selected = s]
  <2>2. SameBatch(ui, f) /\ AccountFields(f)
    BY <1>a DEF SameBatch, AccountFields
  <2> HIDE DEF f
  <2>3. SameBatch(f, ui')
    BY <2>1, <2>2, HelperKeeps DEF f
  <2> QED
    BY <2>2, <2>3, BatchKept DEF SameBatch
<1>4. CASE AC!MeFails
  <2> DEFINE f == [ui EXCEPT !.error = TRUE]
  <2>1. \/ ui' = [ui EXCEPT !.auth = TRUE] \/ ui' = f \/ ui' = AC!SelfHeal(f)
    BY <1>4 DEF AC!MeFails, AC!Do
  <2>2. SameBatch(ui, f) /\ AccountFields(f) /\ SameBatch(ui, [ui EXCEPT !.auth = TRUE])
    BY <1>a DEF SameBatch, AccountFields
  <2> HIDE DEF f
  <2>3. SameBatch(f, AC!SelfHeal(f))
    BY <2>2, HelperKeeps
  <2>4. SameBatch(ui, ui')
    BY <2>1, <2>2, <2>3 DEF SameBatch
  <2> QED
    BY <2>4, BatchKept
<1>5. CASE AC!toggle \/ AC!SelectAllOrNone
  <2>1. \E s : ui' = [ui EXCEPT !.selected = s]
    BY <1>5 DEF AC!toggle, AC!SelectAllOrNone, AC!Do
  <2> QED
    BY <1>a, <2>1, BatchKept DEF SameBatch, AccountFields
<1>6. CASE AC!approve
  <2> DEFINE W == ui.selected \cap ui.me
             n == ui.batch + 1
             new == {[t |-> t, n |-> n] : t \in W}
  <2>1. /\ ui.view = "cli" /\ ui.sent = None
        /\ ui' = [ui EXCEPT !.working = TRUE, !.error = FALSE, !.batch = n, !.minted = {},
                            !.want = W, !.calls = @ \cup new]
    BY <1>6 DEF AC!approve, AC!AtView, AC!On, AC!Do
  <2>2. /\ ui.batch \in Nat /\ \A c \in ui.calls : c.n \in Nat /\ c.n <= ui.batch
    BY <1>w, <2>1 DEF BatchIsWhole
  <2>3. /\ n \in Nat /\ n > ui.batch /\ \A c \in new : c.n = n
        /\ {AC!Untokened(c.t) : c \in new} = Entries(W)
    <3> HIDE DEF W
    <3>1. n \in Nat /\ n > ui.batch
      BY <2>2
    <3> HIDE DEF n
    <3>2. \A c \in new : c.n = n
      OBVIOUS
    <3>3. {c.t : c \in new} \subseteq W
      OBVIOUS
    <3>4. ASSUME NEW t \in W PROVE t \in {c.t : c \in new}
      <4>1. [t |-> t, n |-> n] \in new
        OBVIOUS
      <4>2. [t |-> t, n |-> n].t = t
        OBVIOUS
      <4> HIDE DEF new
      <4> QED
        BY <4>1, <4>2
    <3>5. {c.t : c \in new} = W
      BY <3>3, <3>4
    <3> HIDE DEF new
    <3>6. {AC!Untokened(c.t) : c \in new} = Entries({c.t : c \in new})
      BY DEF Entries
    <3> QED
      BY <3>1, <3>2, <3>5, <3>6
  <2> HIDE DEF W, n, new
  <2>4. /\ SameView(ui, ui') /\ ui'.batch = n /\ ui'.minted = {} /\ ui'.want = W
        /\ ui'.calls = ui.calls \cup new /\ ui'.sent = None
    BY <1>a, <2>1 DEF SameView, AccountFields
  <2>5. \A c \in ui'.calls : c.n \in Nat /\ c.n <= n
    BY <2>2, <2>3, <2>4
  <2>6. Running(ui') = new
    BY <2>2, <2>3, <2>4 DEF Running
  <2>7. BatchIsWhole(ui')
    BY <2>3, <2>4, <2>5, <2>6 DEF BatchIsWhole
  <2> QED
    BY <1>a, <2>4, <2>7 DEF AccountInv, SameView, AccountFields, BatchIsWhole, Running
<1>7. CASE AC!TokenAnswer
  <2>1. PICK c \in ui.calls :
          ui' = AC!Answered([ui EXCEPT !.calls = @ \ {c},
                  !.minted = IF c.n = ui.batch /\ ui.working
                             THEN @ \cup {AC!Untokened(c.t)} ELSE @])
    BY <1>7, AnswerHasNoToken DEF AC!TokenAnswer, AC!See
  <2> DEFINE m == IF c.n = ui.batch /\ ui.working
                  THEN ui.minted \cup {AC!Untokened(c.t)} ELSE ui.minted
             f == [ui EXCEPT !.calls = @ \ {c}, !.minted = m]
  <2>2. ui' = AC!Answered(f) /\ ui.view = "cli"
    BY <1>7, <2>1 DEF AC!TokenAnswer, AC!AtView
  <2> HIDE DEF m
  <2>3. /\ SameView(ui, f) /\ f.calls = ui.calls \ {c} /\ f.minted = m /\ f.sent = ui.sent
        /\ f.working = ui.working /\ f.want = ui.want /\ f.batch = ui.batch
    BY <1>a DEF SameView, AccountFields
  <2> HIDE DEF f
  <2>4. BatchIsWhole(f)
    BY <1>w, <2>2, <2>3, CallReturns DEF m
  <2>5. AccountFields(f) /\ SameBatch(f, ui')
    BY <1>a, <2>2, <2>3, HelperKeeps DEF SameView, AccountFields
  <2> QED
    BY <2>4, <2>5 DEF AccountInv, AccountFields, SameBatch, BatchIsWhole, Running
<1>8. CASE AC!TokenFails
  <2>1. PICK c \in ui.calls :
          ui' = AC!BatchFails(c) \/ ui' = AC!SelfHeal(AC!BatchFails(c))
    BY <1>8 DEF AC!TokenFails, AC!Do
  <2> DEFINE f == AC!BatchFails(c)
  <2>2. ui.view = "cli"
    BY <1>8 DEF AC!TokenFails, AC!AtView
  <2>3. /\ SameView(ui, f) /\ f.calls = ui.calls \ {c} /\ f.sent = ui.sent
        /\ f.want = ui.want /\ f.batch = ui.batch
        /\ IF c.n = ui.batch /\ ui.working THEN ~f.working
           ELSE f.working = ui.working /\ f.minted = ui.minted
    BY <1>a DEF AC!BatchFails, SameView, AccountFields
  <2> HIDE DEF f
  <2>4. BatchIsWhole(f)
    BY <1>w, <2>2, <2>3, CallReturns
  <2>5. AccountFields(f)
    BY <1>a, <2>3 DEF SameView, AccountFields
  <2>6. SameBatch(f, ui')
    BY <2>1, <2>5, HelperKeeps DEF f, SameBatch
  <2> QED
    BY <2>4, <2>5, <2>6 DEF AccountInv, AccountFields, SameBatch, BatchIsWhole, Running
<1>9. CASE AC!BatchDone
  <2>1. /\ ui.view = "cli" /\ ui.working /\ Running(ui) = {}
        /\ ui' = [ui EXCEPT !.sent = AC!Leave("tokens", ui.minted)]
    BY <1>9 DEF AC!BatchDone, AC!AtView, AC!See, AC!Deliver, Running
  <2>2. Entries(ui.want) = ui.minted
    BY <1>w, <2>1 DEF BatchIsWhole
  <2>3. /\ SameView(ui, ui') /\ ui'.sent = AC!Leave("tokens", Entries(ui.want))
        /\ ui'.calls = ui.calls /\ ui'.batch = ui.batch /\ ui'.want = ui.want
        /\ ui'.working = ui.working /\ ui'.minted = ui.minted
    BY <1>a, <2>1, <2>2 DEF SameView, AccountFields
  <2> QED
    BY <1>a, <1>w, <2>1, <2>3
       DEF AccountInv, BatchIsWhole, Running, SameView, AccountFields
<1>10. CASE AC!cancel
  <2>1. ui' = [ui EXCEPT !.sent = AC!Leave("cancelled", {})]
    BY <1>10 DEF AC!cancel, AC!Do
  <2>2. /\ SameView(ui, ui') /\ ui'.sent = AC!Leave("cancelled", {})
        /\ ui'.calls = ui.calls /\ ui'.batch = ui.batch /\ ui'.want = ui.want
        /\ ui'.working = ui.working /\ ui'.minted = ui.minted
    BY <1>a, <2>1 DEF SameView, AccountFields
  <2> QED
    BY <1>a, <1>w, <2>2 DEF AccountInv, BatchIsWhole, Running, SameView, AccountFields
<1>11. CASE AC!MachineMe \/ AC!Allow \/ AC!CodeAnswer
  <2>1. ui.view # "cli"
    BY <1>11 DEF AC!MachineMe, AC!Allow, AC!CodeAnswer, AC!AtView
  <2>2. SameView(ui, ui')
    BY <1>a, <1>11 DEF AC!MachineMe, AC!Allow, AC!CodeAnswer, AC!Do, AC!See, AC!Answered,
                       AC!SelfHeal, SameView, AccountFields
  <2> QED
    BY <2>1, <2>2, OtherView
<1>12. CASE AC!KeysAnswer \/ AC!KeyDialog \/ AC!closeDialog \/ AC!create
  <2>1. ui.view # "cli"
    BY <1>12 DEF AC!KeysAnswer, AC!KeyDialog, AC!closeDialog, AC!create, AC!AtView
  <2>2. SameView(ui, ui')
    BY <1>a, <1>12 DEF AC!KeysAnswer, AC!KeyDialog, AC!closeDialog, AC!create, AC!Do,
                       AC!See, AC!Answered, AC!SelfHeal, AC!run, SameView, AccountFields
  <2> QED
    BY <2>1, <2>2, OtherView
<1>13. CASE AC!CreateAnswer \/ AC!remove
  <2>1. ui.view # "cli"
    BY <1>13 DEF AC!CreateAnswer, AC!remove, AC!AtView
  <2>2. SameView(ui, ui')
    BY <1>a, <1>13 DEF AC!CreateAnswer, AC!remove, AC!Do, AC!See, AC!Answered, AC!load,
                       SameView, AccountFields
  <2> QED
    BY <2>1, <2>2, OtherView
<1>14. CASE AC!TenantsAnswer
  <2>1. ui.view # "cli"
    BY <1>14 DEF AC!TenantsAnswer, AC!AtView
  <2>2. SameView(ui, ui')
    BY <1>a, <1>14 DEF AC!TenantsAnswer, AC!See, AC!Answered, AC!SyncPin, AC!SelfHeal,
                       SameView, AccountFields
  <2> QED
    BY <2>1, <2>2, OtherView
<1>15. CASE AC!switchTo \/ AC!CreateTenant \/ AC!submit \/ AC!TenantCreated
  <2>1. ui.view # "cli"
    BY <1>15 DEF AC!switchTo, AC!CreateTenant, AC!submit, AC!TenantCreated, AC!Ready,
                 AC!AtView
  <2>2. SameView(ui, ui')
    BY <1>a, <1>15 DEF AC!switchTo, AC!CreateTenant, AC!submit, AC!TenantCreated, AC!Do,
                       AC!See, SameView, AccountFields
  <2> QED
    BY <2>1, <2>2, OtherView
<1> QED
  BY <1>1, <1>2, <1>3, <1>4, <1>5, <1>6, <1>7, <1>8, <1>9, <1>10, <1>11, <1>12, <1>13,
     <1>14, <1>15 DEF AC!Next

\* The command line client receives an entry for every workspace that was approved,
\* or none, whichever calls fail and however batches overtake each other (the
\* handler of CliLogin.tsx, which asks for all the tokens at once); and no entry has
\* a token, for the server's answer has none under the name that the page reads.
THEOREM TokensAreAllOrNone == Spec => []TokensAllOrNone
<1> DEFINE I == route = "account" => AccountInv
<1>1. Init => I
  <2> SUFFICES ASSUME Init, route = "account" PROVE AccountInv
    OBVIOUS
  <2>1. AC!Init
    BY DEF Init
  <2>2. PICK view, ok, pin : ui = AC!Fresh(view, ok, pin, FALSE)
    BY <2>1 DEF AC!Init
  <2>3. /\ AccountFields(ui) /\ ui.batch = 0 /\ ui.calls = {} /\ ui.working = FALSE
        /\ ui.sent = None
    BY <2>2 DEF AC!Fresh, AccountFields
  <2> QED
    BY <2>3 DEF AccountInv, BatchIsWhole
<1>2. I /\ [Next]_vars => I'
  <2> SUFFICES ASSUME I, [Next]_vars, route' = "account" PROVE AccountInv'
    OBVIOUS
  <2>1. route = "account" /\ AccountInv
    BY DEF Next, vars
  <2>2. CASE UNCHANGED vars
    BY <2>1, <2>2 DEF vars, AccountInv, AccountFields, BatchIsWhole, Running
  <2>3. CASE Next
    <3>1. AC!Next
      BY <2>1, <2>3 DEF Next
    <3> QED
      BY <2>1, <3>1, AccountStep
  <2> QED
    BY <2>2, <2>3
<1>3. I => TokensAllOrNone
  BY DEF TokensAllOrNone, AC!TokensAllOrNone, AccountInv, BatchIsWhole, Entries
<1> QED
  BY <1>1, <1>2, <1>3, PTL DEF Spec, vars
=============================================================================
