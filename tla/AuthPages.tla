----------------------------- MODULE AuthPages ------------------------------
(***************************************************************************)
(* The way in: the pages that sign a user in and set up the second factor, *)
(* and the guards, the landing menu and the password reset around them.    *)
(* They share no state.                                                    *)
(***************************************************************************)
EXTENDS FiniteSets, Integers, Sequences

-----------------------------------------------------------------------------
(***************************************************************************)
(* The signed-out pages and the 2FA settings page of the web app           *)
(* (components/auth): their steps, and the calls that are under way while  *)
(* the user goes on typing, back, or elsewhere.                            *)
(* Abstracted: an e-mail address is a model value, a code is right or      *)
(* wrong as the answer says, a secret is a number.  External: /auth.       *)
(***************************************************************************)

CONSTANTS Emails, Protected,  \* the accounts with 2FA
          MaxAsks             \* calls the pages make

VARIABLES
  authPage,      \* the page the visitor opened
  loginPage, signupPage, twofaPage, forgotPage,
  calls,         \* calls under way
  asks,
  cookies,       \* external: whose session the browser has, or "nobody"
  marked,        \* client.ts was told that a session exists
  accounts,      \* external: the registered addresses
  server2fa      \* external: is 2FA on, and the secret last handed out

authVars == <<authPage, loginPage, signupPage, twofaPage, forgotPage, calls, asks, cookies, marked,
              accounts, server2fa>>
Nobody == "nobody"

(* A call carries what it was sent with; `here` is false once the step     *)
(* that made it is unmounted, and its setters then do nothing.             *)
Send(op, arg) ==
  /\ asks < MaxAsks /\ asks' = asks + 1
  /\ calls' = calls \cup {[id |-> asks, op |-> op, arg |-> arg, here |-> TRUE]}
Under(op) == {c \in calls : c.op = op}
Done(c)   == calls' = calls \ {c} /\ UNCHANGED asks
Unmount(ops) == calls' = {[c EXCEPT !.here = c.here /\ c.op \notin ops] : c \in calls}

-----------------------------------------------------------------------------
(* LoginForm *)
LoginStart == [flow |-> "email", email |-> Nobody, loading |-> FALSE, otpStep |-> "otp",
               token |-> Nobody, away |-> FALSE]
othersOfLogin == <<signupPage, twofaPage, forgotPage, accounts, server2fa>>

EmailStep == loginPage.flow = "email" /\ ~loginPage.away /\ ~loginPage.loading

handlePasswordLogin(e) ==
  /\ EmailStep /\ loginPage' = [loginPage EXCEPT !.flow = "password", !.email = e]
  /\ UNCHANGED <<calls, asks, cookies, marked, othersOfLogin>>

handleMagicLinkSubmit(e) ==
  /\ EmailStep /\ Send("sendCode", e)
  /\ loginPage' = [loginPage EXCEPT !.loading = TRUE]
  /\ UNCHANGED <<cookies, marked, othersOfLogin>>

handleMagicLink(c) ==
  /\ c \in Under("sendCode") /\ Done(c)
  /\ loginPage' = [loginPage EXCEPT !.flow = "magic", !.email = c.arg, !.loading = FALSE,
                                    !.otpStep = "otp", !.token = Nobody]
  /\ UNCHANGED <<cookies, marked, othersOfLogin>>

sendCodeFailed(c) ==
  /\ c \in Under("sendCode") /\ Done(c)
  /\ loginPage' = [loginPage EXCEPT !.loading = FALSE]
  /\ UNCHANGED <<cookies, marked, othersOfLogin>>

(* Back to the address: the step and its state are gone, its calls are not. *)
onBack ==
  /\ loginPage.flow \in {"password", "magic"} /\ ~loginPage.away
  /\ loginPage' = [loginPage EXCEPT !.flow = "email", !.loading = FALSE]
  /\ Unmount({"login", "verifyCode", "verifyMagic2fa"})
  /\ UNCHANGED <<asks, cookies, marked, othersOfLogin>>

(* PasswordStep: one call at a time; the second factor travels with it. *)
passwordSubmit(totp) ==
  /\ loginPage.flow = "password" /\ ~loginPage.away /\ ~\E c \in Under("login") : c.here
  /\ Send("login", [email |-> loginPage.email, totp |-> totp])
  /\ UNCHANGED <<loginPage, cookies, marked, othersOfLogin>>

(* signedIn, then router.push(next), whatever step is on screen by then. *)
SignedIn(e) ==
  /\ cookies' = e /\ marked' = TRUE /\ loginPage' = [loginPage EXCEPT !.away = TRUE]

loginAnswered(c) ==
  /\ c \in Under("login") /\ Done(c)
  /\ IF c.arg.email \in accounts /\ (c.arg.email \in Protected => c.arg.totp)
     THEN SignedIn(c.arg.email) ELSE UNCHANGED <<loginPage, cookies, marked>>
  /\ UNCHANGED othersOfLogin

(* MagicLinkStep: the sixth digit sends the code, also while an earlier    *)
(* one is being checked.                                                   *)
handleVerifyOtp ==
  /\ loginPage.flow = "magic" /\ loginPage.otpStep = "otp" /\ ~loginPage.away
  /\ Send("verifyCode", loginPage.email)
  /\ UNCHANGED <<loginPage, cookies, marked, othersOfLogin>>

(* Mutant: an answer to a step that is gone still moves the page. *)
verifyAnsweredLate(c) ==
  /\ c \in Under("verifyCode") /\ Done(c)
  /\ \/ UNCHANGED <<loginPage, cookies, marked>>
     \/ /\ c.arg \in Protected /\ UNCHANGED <<cookies, marked>>
        /\ loginPage' = [loginPage EXCEPT !.otpStep = "totp", !.token = c.arg]
     \/ c.arg \notin Protected /\ SignedIn(c.arg)
  /\ UNCHANGED othersOfLogin

(* signedInUnlessChallenged: a challenge is a 200 and not a session. *)
verifyAnswered(c) ==
  /\ c \in Under("verifyCode") /\ Done(c)
  /\ \/ UNCHANGED <<loginPage, cookies, marked>>                        \* refused
     \/ /\ c.arg \in Protected /\ UNCHANGED <<cookies, marked>>
        /\ loginPage' = IF c.here THEN [loginPage EXCEPT !.otpStep = "totp", !.token = c.arg]
                        ELSE loginPage
     \/ c.arg \notin Protected /\ SignedIn(c.arg)
  /\ UNCHANGED othersOfLogin

handleTotp ==
  /\ loginPage.flow = "magic" /\ loginPage.otpStep = "totp" /\ ~loginPage.away
  /\ loginPage.token # Nobody
  /\ Send("verifyMagic2fa", loginPage.token)
  /\ UNCHANGED <<loginPage, cookies, marked, othersOfLogin>>

totpAnswered(c) ==
  /\ c \in Under("verifyMagic2fa") /\ Done(c)
  /\ SignedIn(c.arg) \/ UNCHANGED <<loginPage, cookies, marked>>
  /\ UNCHANGED othersOfLogin

backToLoginCode ==
  /\ loginPage.flow = "magic" /\ loginPage.otpStep = "totp" /\ ~loginPage.away
  /\ loginPage' = [loginPage EXCEPT !.otpStep = "otp"]
  /\ UNCHANGED <<calls, asks, cookies, marked, othersOfLogin>>

LoginNext ==
  \/ \E e \in Emails : handlePasswordLogin(e) \/ handleMagicLinkSubmit(e)
  \/ \E c \in calls : \/ handleMagicLink(c) \/ sendCodeFailed(c) \/ loginAnswered(c)
                      \/ verifyAnswered(c) \/ totpAnswered(c)
  \/ \E totp \in BOOLEAN : passwordSubmit(totp)
  \/ onBack \/ handleVerifyOtp \/ handleTotp \/ backToLoginCode

-----------------------------------------------------------------------------
(* SignupForm *)
othersOfSignup == <<loginPage, twofaPage, forgotPage, cookies, marked, server2fa>>
SignupStart == [step |-> "details", email |-> Nobody, loading |-> FALSE, resend |-> FALSE,
                away |-> FALSE]

signupSubmit(e) ==
  /\ signupPage.step = "details" /\ ~signupPage.loading /\ ~signupPage.away
  /\ Send("register", e)
  /\ signupPage' = [signupPage EXCEPT !.loading = TRUE]
  /\ UNCHANGED <<accounts, othersOfSignup>>

(* The failure stops the spinner, the success leaves it to the next step. *)
registerAnswered(c) ==
  /\ c \in Under("register") /\ Done(c)
  /\ \/ /\ c.arg \notin accounts /\ accounts' = accounts \cup {c.arg}
        /\ signupPage' = [signupPage EXCEPT !.step = "otp", !.email = c.arg, !.resend = FALSE]
     \/ /\ signupPage' = [signupPage EXCEPT !.loading = FALSE] /\ UNCHANGED accounts
  /\ UNCHANGED othersOfSignup

signupVerify ==
  /\ signupPage.step = "otp" /\ ~signupPage.away /\ Send("verifyEmail", signupPage.email)
  /\ signupPage' = [signupPage EXCEPT !.loading = TRUE]
  /\ UNCHANGED <<accounts, othersOfSignup>>

signupVerifyAnswered(c) ==
  /\ c \in Under("verifyEmail") /\ Done(c)
  /\ \E ok \in BOOLEAN :
       signupPage' = [signupPage EXCEPT !.loading = FALSE, !.away = signupPage.away \/ ok]
  /\ UNCHANGED <<accounts, othersOfSignup>>

resendCountdown ==
  /\ signupPage.step = "otp" /\ ~signupPage.resend
  /\ signupPage' = [signupPage EXCEPT !.resend = TRUE]
  /\ UNCHANGED <<calls, asks, accounts, othersOfSignup>>

signupResend ==
  /\ signupPage.step = "otp" /\ signupPage.resend /\ ~signupPage.away
  /\ Send("resendVerification", signupPage.email)
  /\ UNCHANGED <<signupPage, accounts, othersOfSignup>>

resendAnswered(c) ==
  /\ c \in Under("resendVerification") /\ Done(c)
  /\ \E ok \in BOOLEAN : signupPage' = IF ok THEN [signupPage EXCEPT !.resend = FALSE] ELSE signupPage
  /\ UNCHANGED <<accounts, othersOfSignup>>

handleBackToDetails ==
  /\ signupPage.step = "otp" /\ ~signupPage.away
  /\ signupPage' = [signupPage EXCEPT !.step = "details"]
  /\ UNCHANGED <<calls, asks, accounts, othersOfSignup>>

SignupNext ==
  \/ \E e \in Emails : signupSubmit(e)
  \/ \E c \in calls : registerAnswered(c) \/ signupVerifyAnswered(c) \/ resendAnswered(c)
  \/ signupVerify \/ resendCountdown \/ signupResend \/ handleBackToDetails

-----------------------------------------------------------------------------
(* TwoFactorPageClient.  `code` is what the boxes show, `formCode` what    *)
(* the form will submit.                                                   *)
othersOf2fa == <<loginPage, signupPage, forgotPage, cookies, marked, accounts>>
NoSecret   == 0
TwoFaStart == [status |-> "loading", step |-> "status", secret |-> NoSecret, code |-> FALSE,
               formCode |-> FALSE]

isEnabled == twofaPage.status = "on"
Loaded    == twofaPage.status # "loading"
Blank(p)  == [p EXCEPT !.code = FALSE, !.formCode = FALSE]

EnabledCard == Loaded /\ isEnabled /\ twofaPage.step = "status"
DisableForm == Loaded /\ isEnabled /\ twofaPage.step = "enable"
SetupCard   == Loaded /\ twofaPage.step = "setup" /\ twofaPage.secret # NoSecret
StartCard   == Loaded /\ ~isEnabled /\ twofaPage.step = "status"

statusAnswered(c) ==
  /\ c \in Under("status") /\ Done(c)
  /\ twofaPage' = [twofaPage EXCEPT !.status = IF server2fa.on THEN "on" ELSE "off"]
  /\ UNCHANGED <<server2fa, othersOf2fa>>

handleSetup ==
  /\ StartCard /\ Under("setup") = {} /\ Send("setup", NoSecret)
  /\ UNCHANGED <<twofaPage, server2fa, othersOf2fa>>

(* The endpoint makes a new secret every time it is asked. *)
setupServed(c) ==
  /\ c \in Under("setup") /\ c.arg = NoSecret /\ UNCHANGED asks
  /\ server2fa' = [server2fa EXCEPT !.secret = @ + 1]
  /\ calls' = (calls \ {c}) \cup {[c EXCEPT !.arg = server2fa.secret + 1]}
  /\ UNCHANGED <<twofaPage, othersOf2fa>>

setupAnswered(c) ==
  /\ c \in Under("setup") /\ c.arg # NoSecret /\ Done(c)
  /\ twofaPage' = [twofaPage EXCEPT !.secret = c.arg, !.step = "setup"]
  /\ UNCHANGED <<server2fa, othersOf2fa>>

handleCodeChange ==
  /\ SetupCard \/ DisableForm
  /\ twofaPage' = [twofaPage EXCEPT !.code = TRUE, !.formCode = TRUE]
  /\ UNCHANGED <<calls, asks, server2fa, othersOf2fa>>

handleSetupCancel ==
  /\ SetupCard
  /\ twofaPage' = Blank([twofaPage EXCEPT !.step = "status", !.secret = NoSecret])
  /\ UNCHANGED <<calls, asks, server2fa, othersOf2fa>>

handleEnable ==
  /\ SetupCard /\ twofaPage.code /\ Under("enable") = {}
  /\ Send("enable", twofaPage.secret)
  /\ UNCHANGED <<twofaPage, server2fa, othersOf2fa>>

handleDisableStep ==
  /\ EnabledCard /\ twofaPage' = [twofaPage EXCEPT !.step = "enable"]
  /\ UNCHANGED <<calls, asks, server2fa, othersOf2fa>>

handleDisableCancel ==
  /\ DisableForm /\ twofaPage' = Blank([twofaPage EXCEPT !.step = "status"])
  /\ UNCHANGED <<calls, asks, server2fa, othersOf2fa>>

handleDisableSubmit ==
  /\ DisableForm /\ twofaPage.formCode /\ Under("disable") = {} /\ Send("disable", NoSecret)
  /\ UNCHANGED <<twofaPage, server2fa, othersOf2fa>>

(* Success invalidates the status, which is read again. *)
Reread(c) == calls' = (calls \ {c}) \cup
                {[id |-> MaxAsks, op |-> "status", arg |-> NoSecret, here |-> TRUE]}

enableAnswered(c) ==
  /\ c \in Under("enable") /\ UNCHANGED asks
  /\ \/ /\ server2fa' = [server2fa EXCEPT !.on = TRUE] /\ Reread(c)
        /\ twofaPage' = Blank([twofaPage EXCEPT !.step = "status", !.secret = NoSecret])
     \/ calls' = calls \ {c} /\ UNCHANGED <<twofaPage, server2fa>>
  /\ UNCHANGED othersOf2fa

disableAnswered(c) ==
  /\ c \in Under("disable") /\ UNCHANGED asks
  /\ \/ /\ server2fa' = [server2fa EXCEPT !.on = FALSE] /\ Reread(c)
        /\ twofaPage' = Blank(twofaPage)
     \/ calls' = calls \ {c} /\ UNCHANGED <<twofaPage, server2fa>>
  /\ UNCHANGED othersOf2fa

TwoFaNext ==
  \/ \E c \in calls : \/ statusAnswered(c) \/ setupServed(c) \/ setupAnswered(c)
                      \/ enableAnswered(c) \/ disableAnswered(c)
  \/ handleSetup \/ handleCodeChange \/ handleSetupCancel \/ handleEnable
  \/ handleDisableStep \/ handleDisableCancel \/ handleDisableSubmit

-----------------------------------------------------------------------------
(* ForgotPasswordClient: the field stays editable while the call runs, and *)
(* the address shown afterwards is the field's.                            *)
othersOfForgot == <<loginPage, signupPage, twofaPage, cookies, marked, accounts, server2fa>>

typeForgotEmail(e) ==
  /\ ~forgotPage.sent /\ e # forgotPage.field
  /\ forgotPage' = [forgotPage EXCEPT !.field = e]
  /\ UNCHANGED <<calls, asks, othersOfForgot>>

sendReset ==
  /\ ~forgotPage.sent /\ forgotPage.field # Nobody /\ Under("forgotPassword") = {}
  /\ Send("forgotPassword", forgotPage.field)
  /\ UNCHANGED <<forgotPage, othersOfForgot>>

forgotAnswered(c) ==
  /\ c \in Under("forgotPassword") /\ Done(c)
  /\ \/ forgotPage' = [forgotPage EXCEPT !.sent = TRUE, !.submitted = forgotPage.field,
                                         !.mailed = c.arg]
     \/ UNCHANGED forgotPage
  /\ UNCHANGED othersOfForgot

tryADifferentEmail ==
  /\ forgotPage.sent /\ forgotPage' = [forgotPage EXCEPT !.sent = FALSE]
  /\ UNCHANGED <<calls, asks, othersOfForgot>>

ForgotNext == \/ \E e \in Emails : typeForgotEmail(e)
              \/ sendReset \/ tryADifferentEmail \/ \E c \in calls : forgotAnswered(c)

-----------------------------------------------------------------------------
AuthInit ==
  /\ authPage \in {"login", "signup", "2fa", "forgot"}
  /\ loginPage = LoginStart /\ signupPage = SignupStart /\ twofaPage = TwoFaStart
  /\ forgotPage = [sent |-> FALSE, field |-> Nobody, submitted |-> Nobody, mailed |-> Nobody]
  /\ calls = IF authPage # "2fa" THEN {}
             ELSE {[id |-> MaxAsks, op |-> "status", arg |-> NoSecret, here |-> TRUE]}
  /\ asks = 0 /\ cookies = Nobody /\ marked = FALSE
  /\ accounts \in SUBSET Emails
  /\ server2fa \in [on : BOOLEAN, secret : {NoSecret}]

AuthNext == /\ \/ authPage = "login"  /\ LoginNext
               \/ authPage = "signup" /\ SignupNext
               \/ authPage = "2fa"    /\ TwoFaNext
               \/ authPage = "forgot" /\ ForgotNext
            /\ UNCHANGED authPage

AuthSpec == AuthInit /\ [][AuthNext]_authVars

-----------------------------------------------------------------------------
AuthTypeOK ==
  /\ loginPage.flow \in {"email", "password", "magic"} /\ loginPage.otpStep \in {"otp", "totp"}
  /\ signupPage.step \in {"details", "otp"} /\ twofaPage.step \in {"status", "setup", "enable"}
  /\ asks \in 0..MaxAsks /\ cookies \in Emails \cup {Nobody} /\ accounts \subseteq Emails

(* The sign-in page is left, and the transport told that a session exists, *)
(* only once the server has set the cookies: a code accepted for an        *)
(* account with 2FA is a challenge, whatever was pressed meanwhile.        *)
(* (handleVerifyOtp, handleTotp, signedInUnlessChallenged)                 *)
ChallengeIsNotSession == (loginPage.away \/ marked) => cookies # Nobody

(* The 2FA step always holds the token of the address it is for, also      *)
(* after the user went back and named another.  (MagicLinkStep)            *)
TotpForThisAddress ==
  loginPage.flow = "magic" /\ loginPage.otpStep = "totp" => loginPage.token = loginPage.email

(* The page that asks for the mailed code asks it of an account that       *)
(* exists, and never resends to another.  (SignupForm)                     *)
OtpStepHasAccount ==
  /\ signupPage.step = "otp" => signupPage.email \in accounts
  /\ \A c \in Under("verifyEmail") \cup Under("resendVerification") : c.arg \in accounts

(* The QR code on screen is the secret the server will check a code        *)
(* against, after any number of set-ups and cancels.  (TwoFactorPageClient) *)
ShownSecretIsServers == SetupCard => twofaPage.secret = server2fa.secret

(* The digits in the boxes are the digits the form submits: the two copies *)
(* are reset together on every path.  (handleCodeChange, enableForm)       *)
CodeShownIsSubmitted == twofaPage.code = twofaPage.formCode

(* With nothing under way the page says what the server has. *)
StatusTold == calls = {} /\ Loaded => (isEnabled <=> server2fa.on)

(* Refuted: a loaded 2FA page shows one of its cards.                      *)
NeverBlank == calls = {} /\ Loaded => EnabledCard \/ DisableForm \/ SetupCard \/ StartCard

(* Refuted: with nothing under way the details can be submitted.           *)
SignupNotStuck == calls = {} /\ signupPage.step = "details" /\ ~signupPage.away
                    => ~signupPage.loading

(* Refuted: the address named is the one the code went to.                 *)
SaysWhereItWent == forgotPage.sent => forgotPage.submitted = forgotPage.mailed

-----------------------------------------------------------------------------
(***************************************************************************)
(* How a visitor gets in and about: the proxies of the storefront and of   *)
(* the operator console (web/proxy.ts, admin/proxy.ts) and the redirects   *)
(* they answer with, the drawer of the header (header.tsx) and the         *)
(* reset-password page.  A path is the sequence of its segments; "odd" is  *)
(* a session whose identity is malformed.                                  *)
(***************************************************************************)

CONSTANTS WebPaths, AdminPaths, MaxHops, MaxUpsets, MaxDoorMoves

VARIABLES entrance, session, door, wanted, hops, upsets, shownAs, pathname, menuPathname, openedAt, leftSince,
          resetPage, doorMoves

doorVars == <<session, door, wanted, hops, upsets, shownAs>>
menuVars == <<pathname, menuPathname, openedAt, leftSince>>
entranceVars == <<entrance, doorVars, menuVars, resetPage, doorMoves>>

Login == <<"login">>
Home == <<>>
NoPath == <<"none">>
Begins(path, p) == Len(path) >= Len(p) /\ SubSeq(path, 1, Len(p)) = p
DoorMove == doorMoves < MaxDoorMoves /\ doorMoves' = doorMoves + 1
Page(path) == [go |-> "page", path |-> path, next |-> NoPath]
Redirect(path, next) == [go |-> "redirect", path |-> path, next |-> next]

(***************************************************************************)
(* The proxies.  The session behind the cookies is none, plain, admin or    *)
(* odd; validating it answers the user, and "none" for an odd one and when  *)
(* the API cannot be reached.                                               *)
(***************************************************************************)
validateSession(who, blip) == IF blip \/ who = "odd" THEN "none" ELSE who

PROTECTED_PATHS == {<<"portfolio">>, <<"settings">>, <<"markets", "mine">>}
AUTH_PATHS == {Login, <<"signup">>}
isProtected(path) == \E p \in PROTECTED_PATHS : Begins(path, p)
isPlausibleIdentity(user) == user \in {"plain", "admin"}

Target(next, otherwise) == IF next = NoPath THEN otherwise ELSE next

webProxy(path, next, user) ==
  IF isProtected(path)
  THEN IF user = "none" THEN Redirect(Login, path)
       ELSE IF ~isPlausibleIdentity(user) THEN Redirect(Login, NoPath)
       ELSE Page(path)
  ELSE IF (\E p \in AUTH_PATHS : Begins(path, p)) /\ user # "none"
       THEN Redirect(Target(next, <<"portfolio">>), NoPath)
  ELSE Page(path)

adminProxy(path, next, user) ==
  IF path = Login THEN (IF user = "admin" THEN Redirect(Target(next, Home), NoPath) ELSE Page(path))
  ELSE IF user = "none" THEN Redirect(Login, path)
  ELSE IF user # "admin" THEN Redirect(Login, NoPath)
  ELSE Page(path)

proxyOf(path, next, user) == IF entrance = "web" THEN webProxy(path, next, user) ELSE adminProxy(path, next, user)

\* A visitor asks for a page; the browser follows redirects until one is shown.
goTo(path) ==
  /\ DoorMove
  /\ door.go = "page"
  /\ door' = Redirect(path, NoPath) /\ wanted' = path /\ hops' = 0 /\ shownAs' = "none"
  /\ UNCHANGED <<session, upsets>>

Follow(blip) ==
  LET user == validateSession(session, blip)
      answer == proxyOf(door.path, door.next, user)
  IN  /\ door' = IF answer.go = "page" THEN [answer EXCEPT !.next = door.next] ELSE answer
      /\ hops' = IF answer.go = "page" THEN hops ELSE hops + 1
      /\ shownAs' = user

follow ==
  /\ door.go = "redirect" /\ hops < MaxHops
  /\ \E blip \in BOOLEAN :
       /\ blip => upsets < MaxUpsets
       /\ upsets' = upsets + (IF blip THEN 1 ELSE 0)
       /\ Follow(blip)
  /\ UNCHANGED <<session, wanted, doorMoves>>

\* The login form succeeds and pushes the page it was asked to return to.
signInAt(who) ==
  /\ DoorMove
  /\ door.go = "page" /\ door.path = Login
  /\ session' = who
  /\ door' = Redirect(Target(door.next, IF entrance = "web" THEN <<"portfolio">> ELSE Home), NoPath)
  /\ hops' = 0 /\ shownAs' = "none"
  /\ UNCHANGED <<wanted, upsets>>

sessionTurns(who) ==
  /\ DoorMove
  /\ session # who /\ session' = who
  /\ upsets < MaxUpsets /\ upsets' = upsets + 1
  /\ UNCHANGED <<door, wanted, hops, shownAs>>

(***************************************************************************)
(* The header's drawer: open while the route is the one it was opened on.   *)
(***************************************************************************)
menuOpen == menuPathname # NoPath /\ menuPathname = pathname
openMenu == DoorMove /\ ~menuOpen /\ menuPathname' = pathname /\ openedAt' = pathname /\ leftSince' = FALSE /\ UNCHANGED pathname
closeMenu == DoorMove /\ menuOpen /\ menuPathname' = NoPath /\ UNCHANGED <<pathname, openedAt, leftSince>>

\* A link of the drawer closes it; the browser's back and forward do not.
MobileNavLink(path) ==
  DoorMove /\ menuOpen /\ menuPathname' = NoPath /\ pathname' = path /\ leftSince' = TRUE /\ UNCHANGED openedAt
historyMoves(path) ==
  DoorMove /\ path # pathname /\ pathname' = path /\ leftSince' = TRUE /\ UNCHANGED <<menuPathname, openedAt>>

(***************************************************************************)
(* The reset-password page.  The address and perhaps the code come from the *)
(* link; the code box shows shown while the form holds code.                *)
(***************************************************************************)
ResetPage ==
  [shown : {"", "old", "new"}, code : {"", "old", "new"}, busy : 0 .. 2, sent : {"", "old", "new"}, saw : {"", "old", "new"},
   at : {"reset", "login"}, password : {"before", "after"}, told : {"", "failed", "reset"}]

openReset == {[shown |-> c, code |-> c, busy |-> 0, sent |-> "", saw |-> "", at |-> "reset", password |-> "before", told |-> ""]
                 : c \in {"", "old"}}

OtpInput(c) ==
  /\ DoorMove /\ resetPage.at = "reset"
  /\ resetPage' = [resetPage EXCEPT !.shown = c, !.code = c]

onSubmit ==
  /\ DoorMove /\ resetPage.at = "reset" /\ resetPage.code # "" /\ resetPage.busy = 0
  /\ resetPage' = [resetPage EXCEPT !.busy = 1, !.sent = resetPage.code, !.saw = resetPage.shown, !.told = ""]

\* The server takes a code once; an answer that is lost makes the client send
\* the same request again.
resetAnswered(lost) ==
  /\ resetPage.busy > 0
  /\ LET good == resetPage.sent = "new" /\ resetPage.password = "before"
     IN  resetPage' =
           IF lost THEN [resetPage EXCEPT !.password = IF good THEN "after" ELSE @]
           ELSE [resetPage EXCEPT !.busy = @ - 1, !.password = IF good THEN "after" ELSE @,
                                  !.told = IF good THEN "reset" ELSE "failed", !.at = IF good THEN "login" ELSE @]
  /\ UNCHANGED doorMoves

(***************************************************************************)
EntrancesInit ==
  /\ entrance \in {"web", "admin", "menu", "reset"}
  /\ session \in {"none", "plain", "admin", "odd"} /\ (entrance \notin {"web", "admin"} => session = "none")
  /\ door = Page(Home) /\ wanted = Home /\ hops = 0 /\ upsets = 0 /\ shownAs = "admin"
  /\ pathname = Home /\ menuPathname = NoPath /\ openedAt = NoPath /\ leftSince = FALSE
  /\ resetPage \in openReset /\ (entrance # "reset" => resetPage.code = "")
  /\ doorMoves = 0

DoorNext ==
  \/ \E p \in (IF entrance = "web" THEN WebPaths ELSE AdminPaths) : goTo(p)
  \/ follow
  \/ \E who \in {"plain", "admin"} : signInAt(who)
  \/ \E who \in {"none", "odd"} : sessionTurns(who)

MenuNext ==
  \/ openMenu
  \/ closeMenu
  \/ \E p \in WebPaths : MobileNavLink(p)
  \/ \E p \in WebPaths : historyMoves(p)

ResetNext ==
  \/ \E c \in {"", "old", "new"} : OtpInput(c)
  \/ onSubmit
  \/ \E lost \in BOOLEAN : resetAnswered(lost)

EntrancesNext ==
  \/ entrance \in {"web", "admin"} /\ DoorNext /\ UNCHANGED <<entrance, menuVars, resetPage>>
  \/ entrance = "menu" /\ MenuNext /\ UNCHANGED <<entrance, doorVars, resetPage>>
  \/ entrance = "reset" /\ ResetNext /\ UNCHANGED <<entrance, doorVars, menuVars>>

EntrancesSpec == EntrancesInit /\ [][EntrancesNext]_entranceVars

EntrancesTypeOK ==
  /\ session \in {"none", "plain", "admin", "odd"} /\ shownAs \in {"none", "plain", "admin", "odd"}
  /\ door.go \in {"page", "redirect"} /\ hops \in 0 .. MaxHops /\ upsets \in 0 .. MaxUpsets
  /\ resetPage \in ResetPage /\ doorMoves \in 0 .. MaxDoorMoves

\* Redirects between the login page and the page behind it end: at most one,
\* and two more for each time the API could not be reached or the session ended
\* on the way, even for a session whose identity the proxies do not accept.
RedirectsEnd == hops <= 1 + 2 * upsets

\* A private page is only shown to somebody, and a page of the console only to
\* an operator.
PrivateIsGuarded ==
  door.go = "page" =>
    /\ entrance = "web" /\ (\E p \in PROTECTED_PATHS : Begins(door.path, p)) => shownAs \in {"plain", "admin"}
    /\ entrance = "admin" /\ door.path # Login => shownAs = "admin"

\* Somebody sent to the login page for want of a session is returned to the page
\* they asked for.
LoginKeepsTarget ==
  door.path = Login /\ wanted # Login /\ session = "none" /\ hops = 1 /\ doorMoves = 1 => door.next = wanted

\* The reset code that is sent is the one in the box, and one reset is on its
\* way at a time.
ResetSendsShown == resetPage.sent = resetPage.saw /\ resetPage.busy <= 1

\* Refuted: navigating always closes the drawer.  Going back to the route it was
\* opened on opens it again.
MenuClosesForGood == menuOpen => ~leftSince

\* Refuted: a reset that is said to have failed left the old password.
ResetFailureMeansOldPassword == resetPage.told = "failed" => resetPage.password = "before"

\* Refuted: an operator's target survives being signed in as somebody else.
AdminLoginKeepsTarget == entrance = "admin" /\ door.path = Login /\ wanted # Login /\ hops = 1 => door.next = wanted

=============================================================================
