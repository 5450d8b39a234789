---------------------------- MODULE AdminConsole ----------------------------
(***************************************************************************)
(* The operations of the admin console: the actions behind a step-up       *)
(* prompt, and the queues of submissions and accounts under review. They   *)
(* share no state.                                                         *)
(***************************************************************************)
EXTENDS Naturals, FiniteSets, Sequences

-----------------------------------------------------------------------------
(* Privileged actions of the admin console: a confirmation dialog states what   *)
(* will happen, the step-up flow (useStepUp) collects a password and, when the  *)
(* server asks, a code (StepUpPrompt), and the call is made with both.  Three   *)
(* pages begin such actions: the dispute queue, the fee sweep of the treasury   *)
(* page, and its card that withdraws a chosen amount.                           *)

CONSTANTS Disputes,      \* disputes open at first
          MaxBegun,      \* bound: actions taken through to step-up
          MaxAttempts    \* bound: credentials sent

VARIABLES adminPage,     \* "disputes", "fees" or "withdraw"
          ruling,        \* the confirmation dialog: NoRuling or a PendingRuling
          reading,       \* <<>> or <<dispute, detail loaded>>
          intent,        \* useStepUp: NoIntent or what is to be done
          requiresCode, errorCode, stepPending,
          password, code,          \* StepUpPrompt's fields
          seenError,               \* StepUpPrompt: errorCode at the last render
          attempts,      \* calls under way
          twoFa,         \* server: the operator's account has 2FA
          ruled,         \* server: dispute -> "open", "upheld", "dismissed"
          fees, treasuryMoves,   \* server: fees waiting, treasury movements
          shownRuled, shownMoved, shownFees,  \* what the page shows of these
          listStale,     \* queries invalidated and not yet read again
          opening,       \* ghost: how often the prompt was opened
          pwRefused,     \* ghost: the password in the field is one the server refused
          stray,         \* ghost: an answer changed a prompt opened after its own
          notes          \* ghost: rulings carried out, with whether they had a note

adminVars == <<adminPage, ruling, reading, intent, requiresCode, errorCode,
               stepPending, password, code, seenError, attempts, twoFa, ruled, fees,
               treasuryMoves, shownRuled, shownMoved, shownFees, listStale, opening, pwRefused, stray, notes>>

NoRuling == [dispute |-> 0, verdict |-> "none", note |-> FALSE]
NoIntent == [kind |-> "none", ruling |-> NoRuling]
promptPart == <<requiresCode, errorCode, stepPending, password, code, seenError, pwRefused>>
adminServer == <<twoFa, ruled, fees, treasuryMoves, notes>>
adminLists == <<shownRuled, shownMoved, shownFees, listStale>>

AdminInit ==
  /\ adminPage \in {"disputes", "fees", "withdraw"}
  /\ ruling = NoRuling /\ reading = <<>> /\ intent = NoIntent
  /\ requiresCode = FALSE /\ errorCode = "" /\ stepPending = FALSE
  /\ password = "" /\ code = "" /\ seenError = ""
  /\ attempts = {} /\ twoFa \in BOOLEAN
  /\ ruled = [d \in Disputes |-> "open"] /\ fees = 1 /\ treasuryMoves = 0
  /\ shownRuled = ruled /\ shownMoved = 0 /\ shownFees = 1 /\ listStale = {}
  /\ opening = 0 /\ pwRefused = FALSE /\ stray = FALSE /\ notes = {}

\* The prompt is on screen: the withdraw card never renders one.
promptOpen == intent # NoIntent /\ adminPage # "withdraw"

-----------------------------------------------------------------------------
\* AdminDisputesClient.  A row still open offers both rulings; the detail dialog
\* offers the ruling once it has loaded, and closes.
setPending(d, v) ==
  /\ adminPage = "disputes" /\ ~promptOpen /\ ruling = NoRuling /\ reading = <<>>
  /\ shownRuled[d] = "open"
  /\ ruling' = [dispute |-> d, verdict |-> v, note |-> FALSE]
  /\ UNCHANGED <<adminPage, reading, intent, promptPart, attempts, adminServer,
                 adminLists, opening, stray>>

setReading(d) ==
  /\ adminPage = "disputes" /\ ~promptOpen /\ ruling = NoRuling /\ reading = <<>>
  /\ reading' = <<d, FALSE>>
  /\ UNCHANGED <<adminPage, ruling, intent, promptPart, attempts, adminServer,
                 adminLists, opening, stray>>

detailLoaded ==
  /\ reading # <<>> /\ ~reading[2]
  /\ reading' = <<reading[1], TRUE>>
  /\ UNCHANGED <<adminPage, ruling, intent, promptPart, attempts, adminServer,
                 adminLists, opening, stray>>

onRule ==
  /\ reading # <<>> /\ reading[2]
  /\ ruling' = [dispute |-> reading[1], verdict |-> "upheld", note |-> FALSE]
  /\ reading' = <<>>
  /\ UNCHANGED <<adminPage, intent, promptPart, attempts, adminServer, adminLists,
                 opening, stray>>

typeNote ==
  /\ ruling.verdict = "dismissed" /\ ~ruling.note
  /\ ruling' = [ruling EXCEPT !.note = TRUE]
  /\ UNCHANGED <<adminPage, reading, intent, promptPart, attempts, adminServer,
                 adminLists, opening, stray>>

dismissDialogs ==
  /\ ruling # NoRuling \/ reading # <<>>
  /\ ruling' = NoRuling /\ reading' = <<>>
  /\ UNCHANGED <<adminPage, intent, promptPart, attempts, adminServer, adminLists,
                 opening, stray>>

\* validateRuling: a dismissal says why.
noteProblem(r) == r.verdict = "dismissed" /\ ~r.note

\* useStepUp.begin: a fresh state for every action; the prompt, when open, still
\* holds nothing (its fields went when it closed).
begin(i) ==
  /\ opening < MaxBegun
  /\ intent' = i /\ opening' = opening + 1
  /\ requiresCode' = FALSE /\ errorCode' = "" /\ stepPending' = FALSE
  /\ seenError' = "" /\ UNCHANGED <<password, code, pwRefused>>

beginStepUp ==
  /\ ruling # NoRuling /\ ~noteProblem(ruling)
  /\ ruling' = NoRuling
  /\ begin([kind |-> "adjudicate", ruling |-> ruling])
  /\ UNCHANGED <<adminPage, reading, attempts, adminServer, adminLists, stray>>

\* The treasury page: sweep what is waiting, or withdraw an amount (the two-step
\* confirmation dialogs before it hold no other state).
confirmTreasury ==
  /\ adminPage \in {"fees", "withdraw"} /\ ~promptOpen
  /\ adminPage = "fees" => shownFees > 0
  /\ begin([kind |-> adminPage, ruling |-> NoRuling])
  /\ UNCHANGED <<adminPage, ruling, reading, attempts, adminServer, adminLists, stray>>

-----------------------------------------------------------------------------
\* StepUpPrompt.  Fields are disabled while pending; the code field is mounted
\* once the server asked for it.
typePassword(p) ==
  /\ promptOpen /\ ~stepPending /\ p # password
  /\ password' = p /\ pwRefused' = FALSE
  /\ UNCHANGED <<adminPage, ruling, reading, intent, requiresCode, errorCode,
                 stepPending, code, seenError, attempts, adminServer, adminLists,
                 opening, stray>>

setCode(c) ==
  /\ promptOpen /\ ~stepPending /\ requiresCode /\ c # code
  /\ code' = c
  /\ UNCHANGED <<adminPage, ruling, reading, intent, requiresCode, errorCode,
                 stepPending, password, seenError, attempts, adminServer, adminLists,
                 opening, pwRefused, stray>>

\* Render of the prompt with a new error: the rejected field is cleared, and only
\* that one; a closed prompt has neither.
cleared(open, e) ==
  /\ seenError' = e
  /\ password' = IF ~open \/ (e # seenError /\ e = "PASSWORD_INVALID") THEN "" ELSE password
  /\ code' = IF ~open \/ (e # seenError /\ e = "2FA_INVALID") THEN "" ELSE code

\* cancel, by Escape or outside press too, which nothing blocks while pending.
cancel ==
  /\ promptOpen
  /\ intent' = NoIntent /\ requiresCode' = FALSE /\ errorCode' = ""
  /\ stepPending' = FALSE
  /\ cleared(FALSE, "") /\ pwRefused' = FALSE
  /\ UNCHANGED <<adminPage, ruling, reading, attempts, adminServer, adminLists,
                 opening, stray>>

Attempt == [of |-> opening, intent |-> intent, password |-> password,
            code |-> IF requiresCode THEN code ELSE ""]

\* submit without the pending guard.
submitAgain ==
  /\ promptOpen
  /\ password # "" /\ (requiresCode => code # "")
  /\ Cardinality(attempts) < MaxAttempts
  /\ stepPending' = TRUE /\ errorCode' = "" /\ seenError' = ""
  /\ attempts' = attempts \cup {[Attempt EXCEPT !.code = IF Attempt \in attempts
                                                         THEN "again" ELSE @]}
  /\ UNCHANGED <<adminPage, ruling, reading, intent, requiresCode, password, code,
                 adminServer, adminLists, opening, pwRefused, stray>>

\* submit: pending, the last error gone (and rendered gone), the call made.
submit ==
  /\ promptOpen /\ ~stepPending
  /\ password # "" /\ (requiresCode => code # "")
  /\ Cardinality(attempts) < MaxAttempts
  /\ stepPending' = TRUE /\ errorCode' = "" /\ seenError' = ""
  /\ attempts' = attempts \cup {Attempt}
  /\ UNCHANGED <<adminPage, ruling, reading, intent, requiresCode, password, code,
                 adminServer, adminLists, opening, pwRefused, stray>>

-----------------------------------------------------------------------------
\* The server's verdict on the credentials (external).
verdictOn(a) ==
  IF a.password # "good" THEN "PASSWORD_INVALID"
  ELSE IF ~twoFa THEN "ok"
  ELSE IF a.code = "" THEN "2FA_REQUIRED"
  ELSE IF a.code # "good" THEN "2FA_INVALID" ELSE "ok"

\* adjudicate: the ruling is carried out once; every admin list is invalidated.
adjudicate(a) ==
  /\ ruled' = [ruled EXCEPT ![a.intent.ruling.dispute] =
                 IF @ = "open" THEN a.intent.ruling.verdict ELSE @]
  /\ notes' = notes \cup {<<a.intent.ruling.verdict, a.intent.ruling.note>>}
  /\ listStale' = listStale \cup {"disputes", "treasury"}
  /\ UNCHANGED <<fees, treasuryMoves>>

\* distributed: the balance figures are read again, the movement history is not.
distributed(a) ==
  /\ treasuryMoves' = treasuryMoves + fees /\ fees' = 0
  /\ listStale' = listStale \cup {"treasury"}
  /\ UNCHANGED <<ruled, notes>>

\* run succeeded: the state is reset, whatever prompt it now describes.
stepDone(a) ==
  /\ verdictOn(a) = "ok"
  /\ IF a.intent.kind = "adjudicate" THEN adjudicate(a) ELSE distributed(a)
  /\ intent' = NoIntent /\ requiresCode' = FALSE /\ errorCode' = ""
  /\ stepPending' = FALSE
  /\ cleared(FALSE, "") /\ pwRefused' = FALSE
  /\ stray' = (stray \/ (intent # NoIntent /\ a.of # opening))
  /\ UNCHANGED twoFa

\* run failed: 2FA_REQUIRED is the next step, anything else an error.
stepRefused(a) ==
  /\ verdictOn(a) # "ok"
  /\ stepPending' = FALSE
  /\ LET e == IF verdictOn(a) = "2FA_REQUIRED" THEN "" ELSE verdictOn(a) IN
     /\ errorCode' = e
     /\ requiresCode' = (requiresCode \/ verdictOn(a) = "2FA_REQUIRED")
     /\ cleared(promptOpen, e)
     /\ pwRefused' = (e = "PASSWORD_INVALID" /\ a.of = opening /\ password' # "")
  /\ stray' = (stray \/ (intent # NoIntent /\ a.of # opening))
  /\ UNCHANGED <<intent, adminServer, listStale>>

attemptAnswers ==
  \E a \in attempts :
    /\ attempts' = attempts \ {a}
    /\ stepDone(a) \/ stepRefused(a)
    /\ UNCHANGED <<adminPage, ruling, reading, shownRuled, shownMoved, shownFees, opening>>

\* The invalidated lists are read again.
listsRead ==
  /\ listStale # {} /\ listStale' = {}
  /\ shownRuled' = IF "disputes" \in listStale THEN ruled ELSE shownRuled
  /\ shownFees' = IF "treasury" \in listStale THEN fees ELSE shownFees
  /\ UNCHANGED <<adminPage, ruling, reading, intent, promptPart, attempts,
                 adminServer, shownMoved, opening, stray>>

AdminNext ==
  \/ \E d \in Disputes : setReading(d) \/ \E v \in {"upheld", "dismissed"} : setPending(d, v)
  \/ detailLoaded \/ onRule \/ typeNote \/ dismissDialogs \/ beginStepUp
  \/ confirmTreasury
  \/ \E p \in {"good", "bad"} : typePassword(p) \/ setCode(p)
  \/ cancel \/ submit \/ attemptAnswers \/ listsRead

AdminSpec == AdminInit /\ [][AdminNext]_adminVars

-----------------------------------------------------------------------------
AdminTypeOK ==
  /\ password \in {"", "good", "bad"} /\ code \in {"", "good", "bad"}
  /\ errorCode \in {"", "PASSWORD_INVALID", "2FA_INVALID"}
  /\ \A d \in Disputes : ruled[d] \in {"open", "upheld", "dismissed"}
  /\ Cardinality(attempts) <= MaxAttempts

\* A password or code never outlives the prompt it was typed into (StepUpPrompt:
\* closing wipes both fields), whichever way the prompt went away.
CredentialsGoWithPrompt == intent = NoIntent => password = "" /\ code = ""

TwoCalls == \E a, b \in attempts : a.of = b.of /\ a # b

\* One prompt has at most one call under way, while no answer to an earlier,
\* cancelled prompt has reached it (submit's pending guard).
OneCallPerPrompt == TwoCalls => stray

\* With nothing under way, no dispute already ruled on is offered for a ruling.
QueueFollowsRulings ==
  attempts = {} /\ listStale = {} => shownRuled = ruled

\* Refuted: an action begun has a prompt to ask for its credentials ("Open the
\* prompt for an action.", use-step-up.ts).
IntentHasPrompt == intent # NoIntent => promptOpen

\* Refuted: an answer only changes the prompt it answers.
AnswerStaysWithItsPrompt == ~stray

\* Refuted: a prompt has at most one call under way, always: the late answer to a
\* cancelled prompt clears the pending flag of the one open now.
NeverTwoCalls == ~TwoCalls

\* Refuted: the movement history shows every movement made from this page.
HistoryFollowsMoves == attempts = {} /\ listStale = {} => shownMoved = treasuryMoves

-----------------------------------------------------------------------------
(* The admin console's queues: approving submitted markets one at a time and in *)
(* bulk, declining one with a reason, banning and unbanning accounts, the sign-in     *)
(* form and the gate of the shell.  An instance is one of these screens.        *)

CONSTANTS Subjects,      \* submissions (or accounts), as 1..n, in page order
          PageRowsA,     \* rows of a page
          MaxOthers,     \* bound: what colleagues, accidents and refetches do
          MaxOps         \* bound: dialogs opened, approvals and page turns in a queue

VARIABLES console,       \* "markets", "accounts", "login" or "gate"
          held,          \* server: market -> "waiting", "live", "declined";
                         \* account -> "live", "declined" (banned)
          rowsA, pageA, rowsRead,    \* subjects listed, the page, a read asked for
          selected, confirming,
          batch,         \* targets still to do, <<>> when not running
          bulkRunning, failedA, approvedA,
          report,        \* the last toast: <<kind, targets>>
          approvingA,    \* 0 or the market whose Approve button was pressed
          rejecting,     \* 0 or the subject of the open reason dialog
          reason,        \* 0 or whom the typed reason is about
          declines,      \* <<subject, reason>> sent and not answered
          loginForm,     \* [email, twoFa asked, code typed, pending]
          gate,          \* [data, status] of useCurrentUser
          meAnswer,      \* ghost: what /auth/me last answered
          others, decided, batchSeen, ops

modVars == <<console, held, rowsA, pageA, rowsRead, selected, confirming, batch,
             bulkRunning, failedA, approvedA, report, approvingA, rejecting, reason,
             declines, loginForm, gate, meAnswer, others,
             decided, batchSeen, ops>>
queuePart == <<held, rowsA, rowsRead, selected, confirming, batch, bulkRunning,
               failedA, approvedA, report, approvingA, rejecting, reason, declines,
               decided, batchSeen, ops>>
bulkPart == <<selected, confirming, batch, bulkRunning, failedA, approvedA, report,
              approvingA, batchSeen>>
dialogPart == <<rejecting, reason, declines>>
gatePart == <<loginForm, gate, meAnswer>>

stillWaiting(h) == {m \in Subjects : h[m] = "waiting"}

\* The page of a set of rows, in order (external: GET /admin/markets).
pageOf(S, p) ==
  {m \in S : LET before == Cardinality({k \in S : k < m}) IN
               (p - 1) * PageRowsA <= before /\ before < p * PageRowsA}

SeqFrom(S) == [i \in 1..Cardinality(S) |->
               CHOOSE m \in S : Cardinality({k \in S : k < m}) = i - 1]

ModInit ==
  /\ console \in {"markets", "accounts", "login", "gate"}
  /\ held = [m \in Subjects |-> IF console = "markets" THEN "waiting" ELSE "live"]
  /\ pageA = 1 /\ rowsRead = FALSE
  /\ rowsA = IF console = "markets" THEN pageOf(Subjects, 1) ELSE Subjects
  /\ selected = {} /\ confirming = FALSE /\ batch = <<>> /\ bulkRunning = FALSE
  /\ failedA = {} /\ approvedA = {} /\ report = <<"", {}>> /\ approvingA = 0
  /\ rejecting = 0 /\ reason = 0 /\ declines = {}
  /\ loginForm = [email |-> "plain", asked |-> FALSE, askedFor |-> "", code |-> FALSE, pending |-> FALSE]
  /\ gate = [data |-> "none", st |-> "loading"] /\ meAnswer = "none"
  /\ others = 0 /\ decided = {} /\ batchSeen = {} /\ ops = 0

Op == ops < MaxOps /\ ops' = ops + 1

-----------------------------------------------------------------------------
\* AdminMarketsClient, on the pending filter.
liveSelection == selected \cap rowsA

toggle(m) ==
  /\ console = "markets" /\ m \in rowsA /\ rejecting = 0 /\ ~confirming
  /\ selected' = IF m \in liveSelection THEN selected \ {m} ELSE selected \cup {m}
  /\ UNCHANGED <<console, held, rowsA, pageA, rowsRead, confirming, batch, bulkRunning,
                 failedA, approvedA, report, approvingA, dialogPart,
                 gatePart, others, decided, batchSeen, ops>>

toggleAll ==
  /\ console = "markets" /\ liveSelection # {} /\ rejecting = 0 /\ ~confirming
  /\ selected' = IF liveSelection = rowsA THEN {} ELSE rowsA
  /\ UNCHANGED <<console, held, rowsA, pageA, rowsRead, confirming, batch, bulkRunning,
                 failedA, approvedA, report, approvingA, dialogPart,
                 gatePart, others, decided, batchSeen, ops>>

clearSelection ==
  /\ console = "markets" /\ liveSelection # {} /\ ~bulkRunning /\ ~confirming
  /\ selected' = {}
  /\ UNCHANGED <<console, held, rowsA, pageA, rowsRead, confirming, batch, bulkRunning,
                 failedA, approvedA, report, approvingA, dialogPart,
                 gatePart, others, decided, batchSeen, ops>>

\* BulkApproveBar: "Approve n" opens the confirmation, which may be cancelled.
setConfirming(o) ==
  /\ console = "markets" /\ o # confirming /\ rejecting = 0
  /\ o => liveSelection # {} /\ ~bulkRunning
  /\ confirming' = o /\ IF o THEN Op ELSE UNCHANGED ops
  /\ UNCHANGED <<console, held, rowsA, pageA, rowsRead, selected, batch, bulkRunning,
                 failedA, approvedA, report, approvingA, dialogPart,
                 gatePart, others, decided, batchSeen>>

\* bulkApprove: the selected rows on screen, one request after another.
bulkApprove ==
  /\ confirming /\ confirming' = FALSE
  /\ IF liveSelection = {}
     THEN UNCHANGED <<batch, bulkRunning, failedA, approvedA, batchSeen>>
     ELSE /\ batch' = SeqFrom(liveSelection) /\ bulkRunning' = TRUE
          /\ failedA' = {} /\ approvedA' = {} /\ batchSeen' = liveSelection
  /\ UNCHANGED <<console, held, rowsA, pageA, rowsRead, selected, report, approvingA,
                 dialogPart, gatePart, others, decided, ops>>

\* POST approve (external): published; or published with the answer lost and the
\* retry refused; or refused, because it no longer waits.
approveMarket(m, ok) ==
  IF held[m] = "waiting"
  THEN /\ held' = [held EXCEPT ![m] = "live"] /\ decided' = (IF ok THEN decided \cup {m} ELSE decided)
       /\ ~ok => others < MaxOthers
       /\ others' = others + (IF ok THEN 0 ELSE 1)
  ELSE ~ok /\ UNCHANGED <<held, decided, others>>

\* The batch goes on with the next market whatever became of this one.
batchStep ==
  /\ bulkRunning /\ batch # <<>>
  /\ \E ok \in BOOLEAN :
       /\ approveMarket(batch[1], ok)
       /\ approvedA' = IF ok THEN approvedA \cup {batch[1]} ELSE approvedA
       /\ failedA' = IF ok THEN failedA ELSE failedA \cup {batch[1]}
  /\ batch' = Tail(batch)
  /\ UNCHANGED <<console, rowsA, pageA, rowsRead, selected, confirming, bulkRunning,
                 report, approvingA, dialogPart, gatePart, batchSeen, ops>>

\* The end of the batch: selection cleared, lists invalidated, one toast.
batchEnds ==
  /\ bulkRunning /\ batch = <<>>
  /\ bulkRunning' = FALSE /\ selected' = {} /\ rowsRead' = TRUE
  /\ report' = <<IF failedA = {} THEN "approved"
                 ELSE IF approvedA = {} THEN "nothing" ELSE "partly",
                 approvedA \cup failedA>>
  /\ UNCHANGED <<console, held, rowsA, pageA, confirming, batch, failedA, approvedA,
                 approvingA, dialogPart, gatePart, others, decided, batchSeen, ops>>

\* A row's own Approve button, disabled while such a request is pending.
approveOne(m) ==
  /\ Op
  /\ console = "markets" /\ m \in rowsA /\ approvingA = 0 /\ rejecting = 0 /\ ~confirming
  /\ approvingA' = m
  /\ UNCHANGED <<console, held, rowsA, pageA, rowsRead, selected, confirming, batch,
                 bulkRunning, failedA, approvedA, report, dialogPart,
                 gatePart, others, decided, batchSeen>>

\* Only a success refreshes the lists.
approveAnswered ==
  /\ approvingA # 0 /\ approvingA' = 0
  /\ \E ok \in BOOLEAN :
       /\ approveMarket(approvingA, ok)
       /\ rowsRead' = (rowsRead \/ ok)
  /\ UNCHANGED <<console, rowsA, pageA, selected, confirming, batch, bulkRunning,
                 failedA, approvedA, report, dialogPart, gatePart, batchSeen, ops>>

-----------------------------------------------------------------------------
\* RejectMarketDialog and BanUserDialog: keyed by their subject, so a dialog opens
\* with nothing typed.
openDialog(m) ==
  /\ Op
  /\ console \in {"markets", "accounts"} /\ m \in rowsA /\ rejecting = 0 /\ ~confirming
  /\ rejecting' = m /\ reason' = 0
  /\ UNCHANGED <<console, held, rowsA, pageA, rowsRead, bulkPart, declines,
                 gatePart, others, decided>>

typeReason ==
  /\ rejecting # 0 /\ reason = 0 /\ \A d \in declines : d[1] # rejecting
  /\ reason' = rejecting
  /\ UNCHANGED <<console, held, rowsA, pageA, rowsRead, bulkPart, rejecting, declines,
                 gatePart, others, decided, ops>>

\* Escape closes the dialog at any time, a request under way or not.
closeDialog ==
  /\ rejecting # 0 /\ rejecting' = 0
  /\ UNCHANGED <<console, held, rowsA, pageA, rowsRead, bulkPart, reason, declines,
                 gatePart, others, decided, ops>>

\* Submit: a reason that passes the schema, and no request of this dialog pending.
declineSubmit ==
  /\ rejecting # 0 /\ reason # 0 /\ Cardinality(declines) < 2
  /\ \A d \in declines : d[1] # rejecting
  /\ declines' = declines \cup {<<rejecting, reason>>}
  /\ UNCHANGED <<console, held, rowsA, pageA, rowsRead, bulkPart, rejecting, reason,
                 gatePart, others, decided, ops>>

\* onSuccess runs even when its dialog is gone: lists invalidated, and whichever
\* dialog is open now is closed.  A banned account is the next unban's subject.
declineDone(d) ==
  /\ held' = [held EXCEPT ![d[1]] = "declined"] /\ decided' = decided \cup {d[1]}
  /\ rowsRead' = TRUE /\ rejecting' = 0

declineAnswered ==
  \E d \in declines :
    /\ declines' = declines \ {d}
    /\ \/ /\ held[d[1]] = IF console = "markets" THEN "waiting" ELSE "live"
          /\ declineDone(d) /\ UNCHANGED others
       \/ /\ others < MaxOthers /\ others' = others + 1
          /\ UNCHANGED <<held, decided, rowsRead, rejecting>>
       \/ /\ held[d[1]] # IF console = "markets" THEN "waiting" ELSE "live"
          /\ UNCHANGED <<held, decided, rowsRead, rejecting, others>>
    /\ UNCHANGED <<console, rowsA, pageA, bulkPart, reason, gatePart, ops>>

\* A colleague decides on a submission.
colleague(m) ==
  /\ console = "markets" /\ held[m] = "waiting" /\ others < MaxOthers
  /\ others' = others + 1
  /\ held' = [held EXCEPT ![m] = "live"]
  /\ UNCHANGED <<console, rowsA, pageA, rowsRead, bulkPart, dialogPart,
                 gatePart, decided, ops>>

\* The list is read again: after an invalidation or, within the bound, by itself.
\* Accounts are listed whatever their state.
readRows ==
  /\ console = "markets"
  /\ rowsRead \/ others < MaxOthers
  /\ others' = others + (IF rowsRead THEN 0 ELSE 1)
  /\ rowsRead' = FALSE
  /\ rowsA' = pageOf(stillWaiting(held), pageA)
  /\ UNCHANGED <<console, held, pageA, bulkPart, dialogPart, gatePart, decided, ops>>

-----------------------------------------------------------------------------
\* Pagination: the last page comes from the total.
queueTotalPages(t) == IF t = 0 THEN 1 ELSE (t + PageRowsA - 1) \div PageRowsA
queueCanGoForward(p, t) == p < queueTotalPages(t)
canGoBack(p) == p > 1

\* Another page is another key: nothing is listed until it is read.
queuePageChange ==
  /\ Op
  /\ console = "markets" /\ rejecting = 0 /\ ~confirming
  /\ \/ queueCanGoForward(pageA, Cardinality(stillWaiting(held))) /\ pageA' = pageA + 1
     \/ canGoBack(pageA) /\ pageA' = pageA - 1
  /\ rowsRead' = TRUE /\ rowsA' = {}
  /\ UNCHANGED <<console, held, bulkPart, dialogPart, gatePart,
                 others, decided>>

-----------------------------------------------------------------------------
\* AdminLoginClient: fields disabled while pending; a code only when asked.
typeLogin(e) ==
  /\ console = "login" /\ ~loginForm.pending /\ e # loginForm.email
  /\ loginForm' = [loginForm EXCEPT !.email = e]
  /\ UNCHANGED <<console, queuePart, pageA, gate, meAnswer, others>>

typeLoginCode ==
  /\ console = "login" /\ ~loginForm.pending /\ loginForm.asked /\ ~loginForm.code
  /\ loginForm' = [loginForm EXCEPT !.code = TRUE]
  /\ UNCHANGED <<console, queuePart, pageA, gate, meAnswer, others>>

loginSubmit ==
  /\ console = "login" /\ ~loginForm.pending /\ (loginForm.asked => loginForm.code)
  /\ loginForm' = [loginForm EXCEPT !.pending = TRUE]
  /\ UNCHANGED <<console, queuePart, pageA, gate, meAnswer, others>>

\* "guarded" is the address whose account has 2FA.  Signed in, qc.clear() and the
\* gate starts again.
loginAnsweredAdmin ==
  /\ loginForm.pending
  /\ \/ /\ loginForm.email = "guarded" /\ ~loginForm.asked
        /\ loginForm' = [loginForm EXCEPT !.asked = TRUE, !.askedFor = loginForm.email,
                                          !.pending = FALSE]
        /\ UNCHANGED <<console, gate, meAnswer>>
     \/ /\ loginForm' = [loginForm EXCEPT !.code = FALSE, !.pending = FALSE]
        /\ UNCHANGED <<console, gate, meAnswer>>
     \/ /\ loginForm.email = "plain" \/ loginForm.code
        /\ console' = "gate" /\ gate' = [data |-> "none", st |-> "loading"]
        /\ loginForm' = [loginForm EXCEPT !.pending = FALSE]
        /\ UNCHANGED meAnswer
  /\ UNCHANGED <<queuePart, pageA, others>>

\* useCurrentUser: an answer replaces the data; an error keeps what it had.
meReads(a) ==
  /\ console = "gate" /\ meAnswer' = a
  /\ gate' = CASE a \in {"admin", "user"} -> [data |-> a, st |-> "success"]
               [] a = "401" -> [gate EXCEPT !.st = "401"]
               [] OTHER -> [gate EXCEPT !.st = "error"]
  /\ UNCHANGED <<console, queuePart, pageA, loginForm, others>>

\* AdminShell: what is on screen.
AdminShell ==
  CASE gate.st = "loading" -> "spinner"
    [] gate.st = "error" -> "gateError"
    [] gate.data # "admin" -> "noAccess"
    [] OTHER -> "console"

ModNext ==
  \/ \E m \in Subjects : toggle(m) \/ approveOne(m) \/ openDialog(m) \/ colleague(m)
  \/ toggleAll \/ clearSelection \/ (\E o \in BOOLEAN : setConfirming(o))
  \/ bulkApprove \/ batchStep \/ batchEnds \/ approveAnswered
  \/ typeReason \/ closeDialog \/ declineSubmit \/ declineAnswered \/ readRows
  \/ queuePageChange
  \/ (\E e \in {"plain", "guarded"} : typeLogin(e)) \/ typeLoginCode \/ loginSubmit
  \/ loginAnsweredAdmin
  \/ \E a \in {"admin", "user", "401", "503"} : meReads(a)

ModSpec == ModInit /\ [][ModNext]_modVars

-----------------------------------------------------------------------------
ModTypeOK ==
  /\ selected \subseteq Subjects /\ rowsA \subseteq Subjects
  /\ approvedA \cap failedA = {}
  /\ rejecting \in Subjects \cup {0} /\ reason \in Subjects \cup {0}
  /\ pageA \in 1..(1 + Cardinality(Subjects))

\* Bulk approval sends only what was selected on the page on screen when it was
\* confirmed ("nothing else in the queue is touched").
BatchOnlySeen == bulkRunning => approvedA \cup failedA \cup {batch[i] : i \in 1..Len(batch)} = batchSeen

\* A report of success covers no market that is not live, and nothing was left out.
SuccessMeansLive ==
  report[1] = "approved" => \A m \in report[2] : held[m] = "live"

\* A reason is only ever sent about the submission or account it was typed for.
ReasonIsForItsSubject == \A d \in declines : d[1] = d[2]

\* With nothing under way, no market whose decision this operator saw succeed is
\* still listed as waiting.
QueueDropsDecided ==
  ~bulkRunning /\ approvingA = 0 /\ declines = {} /\ ~rowsRead /\ console = "markets"
    => rowsA \cap decided = {}

\* Refuted: what the report says was not published is not live.
FailedMeansNotLive == ~bulkRunning => \A m \in failedA : held[m] # "live"

\* Refuted: the gate closes when /auth/me says nobody is signed in.
GateClosesOn401 == gate.st = "401" => AdminShell # "console"

\* Refuted: a code is only asked for the account the server asked it for.
CodeForThisAccount == loginForm.asked /\ ~loginForm.pending => loginForm.email = loginForm.askedFor

=============================================================================
