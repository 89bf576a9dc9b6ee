------------------------------ MODULE LoginPage ------------------------------
(***************************************************************************)
(* Signing in (pages/Login.tsx): seven modes of one form, calls to the     *)
(* auth library, and the single-use tokens of a bot challenge whose widget *)
(* is mounted in some of the modes only (components/Turnstile.tsx).        *)
(* The auth library and the challenge are external.                        *)
(***************************************************************************)
EXTENDS Naturals

CONSTANTS Emails, None

VARIABLES ui, srv, left

On == ui.page = "login"

\* A handler that is under way goes on after the page was left.
InCall == ui.page \in {"login", "signed_in"} /\ ui.op # None

SendModes == {"signup", "login", "otp-login", "forgot"}
OtpModes == {"verify-signup", "verify-login", "reset-otp"}

\* A handler that is under way: what it was started for and how far it is.
Ops == [kind : {"submit", "resend"}, mode : SendModes \cup OtpModes,
        email : Emails \cup {None},
        stage : {"start", "again", "token", "token2", "call", "call2", "sign_in"}]

\* auth-info tells what is configured; a pin of some tenant may be left over,
\* and so may a session.
Init ==
  /\ ui = [page |-> "login", mode |-> "login", email |-> None, password |-> FALSE,
           otp |-> FALSE, error |-> FALSE, op |-> None, token |-> "none"]
  /\ srv \in [verify : BOOLEAN, siteKey : BOOLEAN, google : BOOLEAN,
              session : BOOLEAN, pinned : {TRUE}, reused : {{}}]

Do(u) == ui' = u /\ left > 0 /\ left' = left - 1

-----------------------------------------------------------------------------
(***************************************************************************)
(* The bot challenge.  A token is fresh until a call has been sent with it.*)
(***************************************************************************)
Mounted == On /\ srv.siteKey /\ ui.mode \in SendModes

Waits(op) == op.stage \in {"token", "token2"}

\* The next call of a handler: with the token that is there, or once there is one.
Next1(op) == IF op.stage \in {"start", "token"} THEN "call" ELSE "call2"

buildTurnstileOpts(u, op) ==
  IF ~srv.siteKey THEN [u EXCEPT !.op = [op EXCEPT !.stage = Next1(op)]]
  ELSE IF u.token = "none"
  THEN [u EXCEPT !.op = [op EXCEPT !.stage = IF @ = "start" THEN "token" ELSE "token2"]]
  ELSE [u EXCEPT !.op = [op EXCEPT !.stage = Next1(op)], !.token = "spent"]

\* Every rendering mounts the widget anew, so tokens keep coming.
handleTurnstileToken ==
  /\ Mounted /\ ui.token # "fresh"
  /\ ui' = IF ui.op # None /\ Waits(ui.op)
           THEN [ui EXCEPT !.op.stage = Next1(ui.op), !.token = "spent"]
           ELSE [ui EXCEPT !.token = "fresh"]
  /\ UNCHANGED <<srv, left>>

\* History: the stages at which a handler took a token that was already sent.
TakesToken(op) ==
  srv' = [srv EXCEPT !.reused =
            IF srv.siteKey /\ ui.token = "spent" THEN @ \cup {op.stage} ELSE @]

resetTurnstile(u) == [u EXCEPT !.token = "none"]

onExpire ==
  /\ Mounted /\ ui.token # "none"
  /\ Do(resetTurnstile(ui))
  /\ UNCHANGED srv

-----------------------------------------------------------------------------
(***************************************************************************)
(* The form.  Nothing keeps its fields and modes from being changed while  *)
(* a handler is under way.                                                 *)
(***************************************************************************)
EmailField ==
  /\ On /\ ui.mode \notin OtpModes
  /\ \E e \in Emails \ {ui.email} : Do([ui EXCEPT !.email = e])
  /\ UNCHANGED srv

PasswordField ==
  /\ On /\ ui.mode \in {"login", "signup", "reset-otp"} /\ ~ui.password
  /\ Do([ui EXCEPT !.password = TRUE])
  /\ UNCHANGED srv

OtpField ==
  /\ On /\ ui.mode \in OtpModes /\ ~ui.otp
  /\ Do([ui EXCEPT !.otp = TRUE])
  /\ UNCHANGED srv

OtherModes(mode) ==
  CASE mode = "login" -> {"forgot", "otp-login", "signup"}
    [] mode \in {"signup", "forgot"} -> {"login"}
    [] mode = "otp-login" -> {"login", "signup"}
    [] mode = "verify-signup" -> {"signup"}
    [] mode = "verify-login" -> {"otp-login"}
    [] mode = "reset-otp" -> {"forgot"}

ModeSwitchers ==
  /\ On
  /\ \E m \in OtherModes(ui.mode) :
       Do([ui EXCEPT !.mode = m, !.error = FALSE, !.otp = @ /\ ui.mode \notin OtpModes])
  /\ UNCHANGED srv

Op(kind) == [kind |-> kind, mode |-> ui.mode, email |-> ui.email, stage |-> "start"]

Started == [ui EXCEPT !.error = FALSE]

\* The mail-sending modes wait for a token first.
handleSubmit ==
  /\ On /\ ui.op = None
  /\ IF ui.mode \in OtpModes THEN ui.otp ELSE ui.email # None
  /\ ui.mode \in {"login", "signup", "reset-otp"} => ui.password
  /\ IF ui.mode \in SendModes
     THEN Do(buildTurnstileOpts(Started, Op("submit"))) /\ TakesToken(Op("submit"))
     ELSE /\ Do([Started EXCEPT !.op = [Op("submit") EXCEPT !.stage = "call"]])
          /\ UNCHANGED srv

\* Also from the modes in which the widget is not there.
handleResend ==
  /\ On /\ ui.op = None /\ ui.mode \in OtpModes
  /\ Do(buildTurnstileOpts(Started, Op("resend"))) /\ TakesToken(Op("resend"))

handleGoogle ==
  /\ On /\ srv.google /\ ui.mode \in {"login", "signup", "otp-login"}
  /\ Do([ui EXCEPT !.page = "signed_in", !.op = None])
  /\ srv' = [srv EXCEPT !.session = TRUE]

-----------------------------------------------------------------------------
(***************************************************************************)
(* What a handler does with its answers; a token that was sent is dropped. *)
(***************************************************************************)
\* Slip: the token stays for the next attempt.
SettledKeeps(u) == [u EXCEPT !.op = None]

Settled(u) ==
  LET v == [u EXCEPT !.op = None]
  IN IF u.op.kind = "resend" \/ u.op.mode \in SendModes THEN resetTurnstile(v) ELSE v

Fails(u) == Settled([u EXCEPT !.error = TRUE])

TokenTimesOut ==
  /\ InCall /\ Waits(ui.op)
  /\ ui' = Fails(ui)
  /\ UNCHANGED <<srv, left>>

CallFails ==
  /\ InCall /\ ui.op.stage \in {"call", "call2", "sign_in"}
  /\ ui' = Fails(ui)
  /\ UNCHANGED <<srv, left>>

Call(kind, modes) ==
  InCall /\ ui.op.kind = kind /\ ui.op.stage = "call" /\ ui.op.mode \in modes

\* The tenant the last user had pinned is not pinned any more.
onLoginSuccess ==
  /\ srv' = [srv EXCEPT !.session = TRUE, !.pinned = FALSE]
  /\ ui' = [Settled(ui) EXCEPT !.page = "signed_in"]

\* Without verification signing up opens a session, and then signs in as well.
SignedUp ==
  /\ Call("submit", {"signup"})
  /\ IF srv.verify
     THEN /\ ui' = [Settled(ui) EXCEPT !.otp = FALSE, !.mode = "verify-signup"]
          /\ srv' = srv
     ELSE /\ ui' = [ui EXCEPT !.otp = FALSE, !.op.stage = "sign_in"]
          /\ srv' = [srv EXCEPT !.session = TRUE]
  /\ UNCHANGED left

\* Verified, or signed in with a password or a code.
SignedIn ==
  /\ \/ Call("submit", {"login", "verify-signup", "verify-login"})
     \/ InCall /\ ui.op.stage = "sign_in"
  /\ onLoginSuccess
  /\ UNCHANGED left

\* A second call, which takes the token of the first if no other came meanwhile.
NeedsVerify ==
  /\ Call("submit", {"login"})
  /\ LET op == [ui.op EXCEPT !.stage = "again"]
     IN ui' = buildTurnstileOpts(ui, op) /\ TakesToken(op)
  /\ UNCHANGED left

\* Whatever the answer of that call says.
VerificationSent ==
  /\ InCall /\ ui.op.stage = "call2"
  /\ ui' = [Settled(ui) EXCEPT !.otp = FALSE, !.mode = "verify-signup"]
  /\ UNCHANGED <<srv, left>>

CodeSent ==
  /\ Call("submit", {"otp-login", "forgot"})
  /\ ui' = [Settled(ui) EXCEPT !.otp = FALSE,
              !.mode = IF ui.op.mode = "forgot" THEN "reset-otp" ELSE "verify-login",
              !.password = @ /\ ui.op.mode # "forgot"]
  /\ UNCHANGED <<srv, left>>

PasswordReset ==
  /\ Call("submit", {"reset-otp"})
  /\ ui' = [Settled(ui) EXCEPT !.mode = "login"]
  /\ UNCHANGED <<srv, left>>

Resent ==
  /\ Call("resend", OtpModes)
  /\ ui' = [Settled(ui) EXCEPT !.otp = FALSE]
  /\ UNCHANGED <<srv, left>>

\* A session that is seen leaves the page, whoever opened it.
AutoRedirect ==
  /\ On /\ srv.session
  /\ ui' = [ui EXCEPT !.page = "signed_in"]
  /\ UNCHANGED <<srv, left>>

Next ==
  \/ handleTurnstileToken \/ onExpire \/ EmailField \/ PasswordField \/ OtpField
  \/ ModeSwitchers \/ handleSubmit \/ handleResend \/ handleGoogle \/ TokenTimesOut
  \/ CallFails \/ SignedUp \/ SignedIn \/ NeedsVerify \/ VerificationSent \/ CodeSent
  \/ PasswordReset \/ Resent \/ AutoRedirect

-----------------------------------------------------------------------------
\* Login.tsx "tokens are single-use": no attempt and no resend starts with a token
\* that a call was sent with.  Within one attempt a token is sent twice if the first
\* call is told that the e-mail is not verified: "need a fresh token", the code says
\* there, and asks for whichever is at hand.
TokensOnce == On => srv.reused \subseteq {"again"}
=============================================================================
