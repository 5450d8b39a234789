----------------------------- MODULE MoneyForms -----------------------------
(* The forms that move money: deposit and withdraw (wallet page), split and     *)
(* merge, add and remove liquidity, claim winnings, cancel an order.  Each      *)
(* sends its POST through `request` and `fetchWithRetry` (packages/api-client/  *)
(* src/client.ts), and none of them sends an idempotency key.  An instance is   *)
(* one form on one page: `moneyForm` never changes.                             *)
EXTENDS Naturals

CONSTANTS MaxMoneyPresses,   \* bound: presses of the form's button
          MaxMoneyRetries,   \* `retries` of request(): attempts after the first
          MaxSlow       \* bound: attempts the client gives up on

ASSUME MoneyAssumption ==
  MaxMoneyPresses \in Nat /\ MaxMoneyRetries \in Nat /\ MaxSlow \in Nat

MoneyFormNames == {"deposit", "withdraw", "split", "merge", "addLiquidity",
                   "removeLiquidity", "claim", "cancelOrder"}

VARIABLES moneyForm,    \* which form this page shows
          typed,        \* TRUE when a positive amount is in the field
          dialogOpen,   \* the form's dialog, for the forms that live in one
          claimedFlag,  \* ClaimWinnings' `claimed`
          presses,      \* presses so far; a press is its number
          post,         \* press |-> [attempt, told]: what the caller awaits
          onWire,       \* [press, attempt] sent and not yet handled by the server
          reply,        \* [press, attempt, status] not yet read by the client
          moneyMoves,        \* press |-> how often the server carried it out
          slow          \* attempts given up on so far

moneyVars == <<moneyForm, typed, dialogOpen, claimedFlag, presses, post,
               onWire, reply, moneyMoves, slow>>

Presses == 1..MaxMoneyPresses

Waiting(p) == p <= presses /\ post[p].told = "nothing"

\* TanStack's isPending is about the LATEST mutate call of the hook.
isPending == presses > 0 /\ Waiting(presses)

InDialog == {"deposit", "withdraw", "cancelOrder"}

MoneyInit ==
  /\ moneyForm \in MoneyFormNames
  /\ typed = FALSE
  /\ dialogOpen = FALSE
  /\ claimedFlag = FALSE
  /\ presses = 0
  /\ post = [p \in Presses |-> [attempt |-> 0, told |-> "nothing"]]
  /\ onWire = {}
  /\ reply = {}
  /\ moneyMoves = [p \in Presses |-> 0]
  /\ slow = 0

-----------------------------------------------------------------------------
\* The handlers: each is one press, guarded as its button is.

\* request(): the POST of press presses + 1, attempt 0.
Submit ==
  /\ presses < MaxMoneyPresses
  /\ presses' = presses + 1
  /\ onWire' = onWire \cup {[press |-> presses + 1, attempt |-> 0]}
  /\ UNCHANGED <<moneyForm, claimedFlag, post, reply, moneyMoves, slow>>

\* The amount field; an order to cancel and winnings to claim have none.
typeMoney ==
  /\ moneyForm \notin {"claim", "cancelOrder"}
  /\ moneyForm \in InDialog => dialogOpen
  /\ ~typed
  /\ typed' = TRUE
  /\ UNCHANGED <<moneyForm, dialogOpen, claimedFlag, presses, post, onWire,
                 reply, moneyMoves, slow>>

\* The dialog opens from its trigger and is dismissed at any time.
toggleDialog ==
  /\ moneyForm \in InDialog
  /\ dialogOpen' = ~dialogOpen
  /\ UNCHANGED <<moneyForm, typed, claimedFlag, presses, post, onWire, reply,
                 moneyMoves, slow>>

\* AmountForm: the submit button is disabled while the mutation is pending, and
\* the field is cleared as soon as the mutation has been started.
AmountForm ==
  /\ dialogOpen /\ typed /\ ~isPending
  /\ typed' = FALSE
  /\ UNCHANGED dialogOpen
  /\ Submit

handleDeposit == moneyForm = "deposit" /\ AmountForm

handleWithdraw == moneyForm = "withdraw" /\ AmountForm

\* handleSplit, handleMerge: an amount is all they ask for.  The button is
\* disabled while pending, but Enter in the amount field calls handleSubmit too.
handleSplit ==
  /\ moneyForm = "split" /\ typed
  /\ UNCHANGED <<typed, dialogOpen>>
  /\ Submit

handleMerge ==
  /\ moneyForm = "merge" /\ typed
  /\ UNCHANGED <<typed, dialogOpen>>
  /\ Submit

handleAdd ==
  /\ moneyForm = "addLiquidity" /\ typed /\ ~isPending
  /\ UNCHANGED <<typed, dialogOpen>>
  /\ Submit

handleRemove ==
  /\ moneyForm = "removeLiquidity" /\ typed /\ ~isPending
  /\ UNCHANGED <<typed, dialogOpen>>
  /\ Submit

\* ClaimWinnings: disabled while `claiming` and once `claimed`.
handleClaimWinnings ==
  /\ moneyForm = "claim" /\ ~isPending /\ ~claimedFlag
  /\ UNCHANGED <<typed, dialogOpen>>
  /\ Submit

\* CancelButton: the dialog's action is relabelled while pending, not disabled.
handleConfirm ==
  /\ moneyForm = "cancelOrder" /\ dialogOpen
  /\ UNCHANGED <<typed, dialogOpen>>
  /\ Submit

-----------------------------------------------------------------------------
\* The server, as the client uses it.  A claim and a cancellation are refused
\* once done; the other POSTs are carried out every time they arrive.
RefusesRepeat == {"claim", "cancelOrder"}

alreadyDone == \E q \in Presses : moneyMoves[q] > 0

\* The request arrives, even one the client no longer waits for.  "ok" moves
\* the money; "4xx" and "5xx" (and 429) leave it alone.
serverHandles(r, status) ==
  /\ r \in onWire
  /\ onWire' = onWire \ {r}
  /\ moneyForm \in RefusesRepeat /\ alreadyDone => status # "ok"
  /\ moneyMoves' = IF status = "ok" THEN [moneyMoves EXCEPT ![r.press] = @ + 1] ELSE moneyMoves
  /\ reply' = IF Waiting(r.press) /\ post[r.press].attempt = r.attempt
                THEN reply \cup {[press |-> r.press, attempt |-> r.attempt,
                                  status |-> status]}
                ELSE reply
  /\ UNCHANGED <<moneyForm, typed, dialogOpen, claimedFlag, presses, post, slow>>

-----------------------------------------------------------------------------
\* fetchWithRetry: what follows an attempt that did not answer 2xx or 4xx.

nextAttempt(p) == post[p].attempt + 1

\* Another attempt of the same POST, or the error once the attempts are spent.
fetchWithRetry(p) ==
  IF post[p].attempt < MaxMoneyRetries
    THEN /\ post' = [post EXCEPT ![p].attempt = nextAttempt(p)]
         /\ onWire' = onWire \cup {[press |-> p, attempt |-> nextAttempt(p)]}
    ELSE /\ post' = [post EXCEPT ![p].told = "failed"]
         /\ UNCHANGED onWire

\* The timeout aborts the attempt (or the network fails it): the catch branch.
\* What was sent may still reach the server.
attemptAborted(p) ==
  /\ Waiting(p)
  /\ slow < MaxSlow
  /\ slow' = slow + 1
  /\ reply' = {a \in reply : a.press # p}
  /\ fetchWithRetry(p)
  /\ UNCHANGED <<moneyForm, typed, dialogOpen, claimedFlag, presses, moneyMoves>>

\* onSuccess: what each form does with its fields once the answer is 2xx.
onMoneySuccess ==
  /\ typed' = (typed /\ moneyForm \in {"deposit", "withdraw"})
  /\ dialogOpen' = (dialogOpen /\ moneyForm \notin InDialog)
  /\ claimedFlag' = (claimedFlag \/ moneyForm = "claim")

\* The error branch of a form's mutation: a toast, and no field changes.
onMoneyError == UNCHANGED <<typed, dialogOpen, claimedFlag>>

attemptAnswered(a) ==
  /\ a \in reply
  /\ reply' = reply \ {a}
  /\ \/ /\ a.status = "ok"
        /\ post' = [post EXCEPT ![a.press].told = "ok"]
        /\ onMoneySuccess
        /\ UNCHANGED onWire
     \/ /\ a.status = "4xx"
        /\ post' = [post EXCEPT ![a.press].told = "failed"]
        /\ onMoneyError
        /\ UNCHANGED onWire
     \/ /\ a.status = "5xx"
        /\ fetchWithRetry(a.press)
        /\ onMoneyError
  /\ UNCHANGED <<moneyForm, presses, moneyMoves, slow>>

MoneyServer == \E r \in onWire, s \in {"ok", "4xx", "5xx"} : serverHandles(r, s)

MoneyAnswered == \E a \in reply : attemptAnswered(a)

MoneyNext ==
  \/ typeMoney \/ toggleDialog
  \/ handleDeposit \/ handleWithdraw
  \/ handleSplit \/ handleMerge
  \/ handleAdd \/ handleRemove
  \/ handleClaimWinnings \/ handleConfirm
  \/ MoneyServer \/ MoneyAnswered
  \/ \E p \in Presses : attemptAborted(p)

\* The server handles what arrives and the client's promise callbacks run.
MoneyFairness == WF_moneyVars(MoneyServer) /\ WF_moneyVars(MoneyAnswered)

MoneySpec == MoneyInit /\ [][MoneyNext]_moneyVars /\ MoneyFairness

-----------------------------------------------------------------------------
MoneyTypeOK ==
  /\ moneyForm \in MoneyFormNames
  /\ {typed, dialogOpen, claimedFlag} \subseteq BOOLEAN
  /\ presses \in 0..MaxMoneyPresses
  /\ post \in [Presses -> [attempt : 0..MaxMoneyRetries,
                           told : {"nothing", "ok", "failed"}]]
  /\ onWire \subseteq [press : Presses, attempt : 0..MaxMoneyRetries]
  /\ reply \subseteq [press : Presses, attempt : 0..MaxMoneyRetries,
                      status : {"ok", "4xx", "5xx"}]
  /\ moneyMoves \in [Presses -> Nat]
  /\ slow \in 0..MaxSlow

\* The forms whose button carries `disabled={isPending}` never have two POSTs
\* under way at once, whatever is opened, closed and retyped meanwhile.
GuardedFormsSendOne ==
  moneyForm \notin {"split", "merge", "cancelOrder"}
    => \A p, q \in Presses : Waiting(p) /\ Waiting(q) => p = q

\* A press reported as a success was carried out: retries never turn an
\* unserved POST into a success toast.
SuccessMeansMoved == \A p \in Presses : post[p].told = "ok" => moneyMoves[p] > 0

\* Every press is answered, with a success or an error, however the attempts
\* fail: the retries of fetchWithRetry come to an end.
PressIsAnswered == \A p \in Presses : Waiting(p) ~> ~Waiting(p)

\* One press carries the operation out at most once
\* (docs/docker-concurrency-realtime.md:411-412).
OnePressOneMove == \A p \in Presses : moneyMoves[p] <= 1

\* Refuted: a press reported as failed moved nothing.
FailureMeansNothingMoved ==
  \A p \in Presses : post[p].told = "failed" => moneyMoves[p] = 0
=============================================================================
