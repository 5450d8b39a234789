----------------------------- MODULE FeedProofs -----------------------------
(***************************************************************************)
(* Proofs about the parts of the client that follow the market and send    *)
(* orders: the money forms, the trade ticket, the three sockets.           *)
(***************************************************************************)
EXTENDS ChannelSockets, TradeTicket, TLAPS

-----------------------------------------------------------------------------
(* The money forms *)

Reports == {"nothing", "ok", "failed"}

(* Answers and requests name a press; an answer of success was earned.     *)
MoneyInv ==
  /\ presses \in 0..MaxMoneyPresses
  /\ post \in [Presses -> [attempt : Nat, told : Reports]]
  /\ moneyMoves \in [Presses -> Nat]
  /\ \A r \in onWire : r.press \in Presses
  /\ \A a \in reply : a.press \in Presses /\ (a.status = "ok" => moneyMoves[a.press] > 0)
  /\ SuccessMeansMoved
  /\ moneyForm \notin {"split", "merge", "cancelOrder"} =>
       \A p \in Presses : p < presses => post[p].told # "nothing"

(* A press leaves what was answered as it was.                             *)
LEMMA SubmitKeeps ==
  ASSUME MoneyInv, Submit,
         moneyForm \in {"split", "merge", "cancelOrder"} \/ ~isPending
  PROVE  MoneyInv'
<1> USE MoneyAssumption DEF MoneyInv, Presses
<1>1. presses' \in 0..MaxMoneyPresses /\ presses' = presses + 1 /\ presses' \in Presses
  BY DEF Submit
<1>2. /\ moneyForm' = moneyForm /\ post' = post /\ reply' = reply /\ moneyMoves' = moneyMoves
      /\ onWire' = onWire \cup {[press |-> presses + 1, attempt |-> 0]}
  BY DEF Submit
<1>3. \A r \in onWire' : r.press \in Presses
  BY <1>1, <1>2
<1>4. ASSUME moneyForm \notin {"split", "merge", "cancelOrder"}, NEW p \in Presses, p < presses'
      PROVE  post[p].told # "nothing"
  <2>1. CASE p < presses
    BY <1>4, <2>1
  <2>2. CASE p = presses
    BY <1>4, <2>2 DEF isPending, Waiting
  <2> QED
    BY <1>1, <1>4, <2>1, <2>2
<1> QED
  BY <1>1, <1>2, <1>3, <1>4 DEF SuccessMeansMoved

(* The server carries a request out before it says so.                     *)
LEMMA ServerKeeps ==
  ASSUME MoneyInv, NEW r \in onWire, NEW s \in {"ok", "4xx", "5xx"}, serverHandles(r, s)
  PROVE  MoneyInv'
<1> USE MoneyAssumption DEF MoneyInv
<1>1. /\ moneyForm' = moneyForm /\ presses' = presses /\ post' = post
      /\ onWire' = onWire \ {r} /\ r.press \in Presses
  BY DEF serverHandles
<1>2. /\ moneyMoves' \in [Presses -> Nat]
      /\ \A p \in Presses : moneyMoves[p] > 0 => moneyMoves'[p] > 0
      /\ s = "ok" => moneyMoves'[r.press] > 0
  BY <1>1 DEF serverHandles
<1>3. \A a \in reply' : a.press \in Presses /\ (a.status = "ok" => moneyMoves'[a.press] > 0)
  <2> TAKE a \in reply'
  <2>1. CASE a \in reply
    BY <1>2, <2>1
  <2>2. CASE a = [press |-> r.press, attempt |-> r.attempt, status |-> s]
    BY <1>1, <1>2, <2>2
  <2> QED
    BY <2>1, <2>2 DEF serverHandles
<1>4. SuccessMeansMoved'
  BY <1>1, <1>2 DEF SuccessMeansMoved
<1> QED
  BY <1>1, <1>2, <1>3, <1>4

(* Another attempt, or none left: no success is told either way.           *)
LEMMA RetryKeeps ==
  ASSUME MoneyInv, NEW p \in Presses, fetchWithRetry(p)
  PROVE  /\ post' \in [Presses -> [attempt : Nat, told : Reports]]
         /\ \A q \in Presses : post'[q].told = post[q].told \/ post'[q].told = "failed"
         /\ \A r \in onWire' : r.press \in Presses
<1> USE MoneyAssumption DEF MoneyInv, Reports
<1>1. CASE post[p].attempt < MaxMoneyRetries
  <2>1. post' = [post EXCEPT ![p].attempt = nextAttempt(p)] /\ nextAttempt(p) \in Nat
    BY <1>1 DEF fetchWithRetry, nextAttempt
  <2>2. onWire' = onWire \cup {[press |-> p, attempt |-> nextAttempt(p)]}
    BY <1>1 DEF fetchWithRetry
  <2> QED
    BY <2>1, <2>2
<1>2. CASE ~(post[p].attempt < MaxMoneyRetries)
  <2>1. post' = [post EXCEPT ![p].told = "failed"] /\ onWire' = onWire
    BY <1>2 DEF fetchWithRetry
  <2> QED
    BY <2>1
<1> QED
  BY <1>1, <1>2

(* An attempt that is given up on is retried or reported as failed.        *)
LEMMA AbortKeeps ==
  ASSUME MoneyInv, NEW p \in Presses, attemptAborted(p)
  PROVE  MoneyInv'
<1>1. /\ moneyForm' = moneyForm /\ presses' = presses /\ moneyMoves' = moneyMoves
      /\ reply' \subseteq reply /\ fetchWithRetry(p)
  BY DEF attemptAborted
<1>2. /\ post' \in [Presses -> [attempt : Nat, told : Reports]]
      /\ \A q \in Presses : post'[q].told = post[q].told \/ post'[q].told = "failed"
      /\ \A r \in onWire' : r.press \in Presses
  BY <1>1, RetryKeeps
<1> QED
  BY Zenon, <1>1, <1>2 DEF MoneyInv, SuccessMeansMoved

(* An answer is told as it is, and a success only of what was carried out. *)
LEMMA AnswerKeeps ==
  ASSUME MoneyInv, NEW a \in reply, attemptAnswered(a)
  PROVE  MoneyInv'
<1>1. /\ moneyForm' = moneyForm /\ presses' = presses /\ moneyMoves' = moneyMoves
      /\ reply' \subseteq reply /\ a.press \in Presses
  BY DEF attemptAnswered, MoneyInv
<1>2. CASE a.status = "ok" /\ post' = [post EXCEPT ![a.press].told = "ok"] /\ onWire' = onWire
  BY <1>1, <1>2 DEF MoneyInv, SuccessMeansMoved, Reports
<1>3. CASE a.status = "4xx" /\ post' = [post EXCEPT ![a.press].told = "failed"] /\ onWire' = onWire
  BY <1>1, <1>3 DEF MoneyInv, SuccessMeansMoved, Reports
<1>4. CASE fetchWithRetry(a.press)
  <2>1. /\ post' \in [Presses -> [attempt : Nat, told : Reports]]
        /\ \A q \in Presses : post'[q].told = post[q].told \/ post'[q].told = "failed"
        /\ \A r \in onWire' : r.press \in Presses
    BY <1>1, <1>4, RetryKeeps
  <2> QED
    BY <1>1, <2>1 DEF MoneyInv, SuccessMeansMoved
<1> QED
  BY <1>2, <1>3, <1>4 DEF attemptAnswered

(* Every step of a money form keeps the invariant.                          *)
LEMMA MoneyInvariant ==
  ASSUME MoneyInv, [MoneyNext]_moneyVars
  PROVE  MoneyInv'
<1>1. CASE UNCHANGED moneyVars
  BY <1>1 DEF moneyVars, MoneyInv, SuccessMeansMoved
<1>2. CASE typeMoney \/ toggleDialog
  BY <1>2 DEF typeMoney, toggleDialog, MoneyInv, SuccessMeansMoved
<1>3. CASE handleDeposit \/ handleWithdraw \/ handleAdd \/ handleRemove \/ handleClaimWinnings
  <2>1. Submit /\ ~isPending
    BY <1>3 DEF handleDeposit, handleWithdraw, AmountForm, handleAdd, handleRemove,
                handleClaimWinnings
  <2> QED
    BY <2>1, SubmitKeeps
<1>4. CASE handleSplit \/ handleMerge \/ handleConfirm
  <2>1. Submit /\ moneyForm \in {"split", "merge", "cancelOrder"}
    BY <1>4 DEF handleSplit, handleMerge, handleConfirm
  <2> QED
    BY <2>1, SubmitKeeps
<1>5. CASE MoneyServer
  BY <1>5, ServerKeeps DEF MoneyServer
<1>6. CASE MoneyAnswered
  BY <1>6, AnswerKeeps DEF MoneyAnswered
<1>7. CASE \E p \in Presses : attemptAborted(p)
  BY <1>7, AbortKeeps
<1> QED
  BY <1>1, <1>2, <1>3, <1>4, <1>5, <1>6, <1>7 DEF MoneyNext

(* A form starts with nothing pressed and nothing told.                     *)
LEMMA MoneyStarts == MoneyInit => MoneyInv
BY MoneyAssumption DEF MoneyInit, MoneyInv, Presses, Reports, SuccessMeansMoved

(* At most the latest press of a guarded form waits.                       *)
LEMMA MoneySafe == MoneyInv => GuardedFormsSendOne /\ SuccessMeansMoved
<1> SUFFICES ASSUME MoneyInv, moneyForm \notin {"split", "merge", "cancelOrder"},
                    NEW p \in Presses, Waiting(p)
             PROVE  p = presses
  BY DEF GuardedFormsSendOne, MoneyInv
<1> QED
  BY MoneyAssumption DEF MoneyInv, Waiting, Presses

-----------------------------------------------------------------------------
(* The order form *)

(* An estimate is kept with the inputs it was asked for.                   *)
QuotePaired == quote # <<>> => quote[1].for = quoteMeta[1]

(* Every copy of a POST carries the form's key, and one row was written.   *)
OneKey ==
  /\ posts = [pending |-> posts.pending, body |-> posts.body, left |-> posts.left,
              wire |-> posts.wire]
  /\ posts.pending => posts.body[1].client_order_id = clientOrderId
  /\ \A c \in posts.wire : c.body.client_order_id = clientOrderId
  /\ \A o \in accepted : o.body.client_order_id = clientOrderId
  /\ \A o1, o2 \in accepted : o1 = o2

(* The form's own steps: an estimate and its inputs change together.       *)
LEMMA FormKeepsPair ==
  ASSUME QuotePaired, TicketNext
  PROVE  QuotePaired'
<1>1. ASSUME NEW t, Edit(t)
      PROVE  QuotePaired'
  BY <1>1 DEF Edit, Render, QuotePaired
<1>2. ASSUME NEW r, quoteAnswered(r)
      PROVE  QuotePaired'
  BY <1>2 DEF quoteAnswered, Render, QuotePaired
<1>3. ASSUME NEW r, quoteFailed(r)
      PROVE  QuotePaired'
  BY <1>3 DEF quoteFailed, Render, QuotePaired
<1>4. CASE fetchQuote \/ resolvedShown
  BY <1>4 DEF fetchQuote, resolvedShown, QuotePaired
<1>5. CASE quoteExpires \/ bookFrame \/ onValid
  BY Zenon, <1>5 DEF quoteExpires, bookFrame, onValid, Render, QuotePaired
<1>6. CASE Sending
  BY <1>6 DEF Sending, QuotePaired
<1>7. postTimesOut => Sending
  BY DEF postTimesOut
<1>8. \A c \in posts.wire : postRefused(c) => Sending
  BY DEF postRefused
<1>9. \A c \in posts.wire, ok \in BOOLEAN : postArrives(c, ok) => Sending
  BY DEF postArrives
<1> QED
  BY Zenon, <1>1, <1>2, <1>3, <1>4, <1>5, <1>6, <1>7, <1>8, <1>9
     DEF TicketNext, handleOutcomeClick, handleSideClick, typeAmount, handleOrderTypeChange,
         checkPostOnly

(* A copy that arrives finds the row of its key, or writes it.             *)
LEMMA ArrivalKeeps ==
  ASSUME OneKey, NEW c \in posts.wire, NEW ok \in BOOLEAN, postArrives(c, ok)
  PROVE  OneKey'
<1>1. /\ posts' = [pending |-> posts.pending /\ ~ok, body |-> posts.body, left |-> posts.left,
                   wire |-> posts.wire \ {c}]
      /\ accepted' = place_order(c)
  BY Zenon DEF postArrives, OneKey
<1>2. /\ \A o \in accepted' : o.body.client_order_id = clientOrderId
      /\ \A o1, o2 \in accepted' : o1 = o2
  BY <1>1 DEF place_order, OneKey
<1> QED
  BY Zenon, <1>1, <1>2 DEF OneKey

(* A timed out attempt is repeated with the body it had.                   *)
LEMMA TimeoutKeeps ==
  ASSUME OneKey, postTimesOut
  PROVE  OneKey'
<1>1. accepted' = accepted /\ posts.pending
  BY DEF postTimesOut, isSubmitting
<1>2. CASE posts' = [pending |-> posts.pending, body |-> posts.body, left |-> posts.left - 1,
                     wire |-> posts.wire \cup {[body |-> posts.body[1],
                                                attempt |-> posts.left - 1]}]
  BY <1>1, <1>2 DEF OneKey
<1>3. CASE posts' = [pending |-> FALSE, body |-> posts.body, left |-> posts.left,
                     wire |-> posts.wire]
  BY <1>1, <1>3 DEF OneKey
<1> QED
  BY Zenon, <1>2, <1>3 DEF postTimesOut, retry, OneKey

(* No step of the form changes the key it sends.                            *)
LEMMA TicketKeepsKey ==
  ASSUME OneKey, TicketNext
  PROVE  OneKey'
<1>1. CASE UNCHANGED <<posts, accepted>>
  BY <1>1 DEF OneKey
<1>2. CASE onValid
  <2>1. accepted' = accepted /\ payload.client_order_id = clientOrderId
    BY Zenon, <1>2 DEF onValid, payload
  <2>2. posts' = [pending |-> TRUE, body |-> <<payload>>, left |-> MaxOrderRetries,
                  wire |-> posts.wire \cup {[body |-> payload, attempt |-> MaxOrderRetries]}]
    BY Zenon, <1>2 DEF onValid
  <2> QED
    BY <2>1, <2>2 DEF OneKey
<1>3. ASSUME NEW c \in posts.wire, postRefused(c)
      PROVE  OneKey'
  <2>1. /\ posts' = [pending |-> FALSE, body |-> posts.body, left |-> posts.left,
                     wire |-> posts.wire \ {c}]
        /\ accepted' = accepted
    BY Zenon, <1>3 DEF postRefused, OneKey
  <2> QED
    BY <2>1 DEF OneKey
<1>4. \A t : Edit(t) => UNCHANGED <<posts, accepted>>
  BY DEF Edit
<1>5. fetchQuote \/ quoteExpires \/ bookFrame \/ resolvedShown => UNCHANGED <<posts, accepted>>
  BY Zenon DEF fetchQuote, quoteExpires, bookFrame, resolvedShown
<1>6. \A r : quoteAnswered(r) \/ quoteFailed(r) => UNCHANGED <<posts, accepted>>
  BY DEF quoteAnswered, quoteFailed
<1> QED
  BY Zenon, <1>1, <1>2, <1>3, <1>4, <1>5, <1>6, ArrivalKeeps, TimeoutKeeps
     DEF TicketNext, handleOutcomeClick, handleSideClick, typeAmount, handleOrderTypeChange,
         checkPostOnly

(* Every step of the order form keeps both.                                *)
LEMMA TicketInvariant ==
  ASSUME QuotePaired, OneKey, [TicketNext]_ticketVars
  PROVE  QuotePaired' /\ OneKey'
<1>1. CASE UNCHANGED ticketVars
  BY Zenon, <1>1 DEF ticketVars, QuotePaired, OneKey
<1> QED
  BY <1>1, FormKeepsPair, TicketKeepsKey

(* The form is mounted without an estimate and without a POST.             *)
LEMMA TicketStarts == TicketInit => QuotePaired /\ OneKey
BY DEF TicketInit, QuotePaired, OneKey

(* What the two give: the estimate shown is for the inputs shown, and a     *)
(* press is one order at most.                                             *)
LEMMA TicketSafe == QuotePaired /\ OneKey => QuoteIsForWhatIsShown /\ PressIsAtMostOneOrder
<1>1. QuotePaired => QuoteIsForWhatIsShown
  BY DEF QuotePaired, QuoteIsForWhatIsShown, quoteVisible, quoteMatchesInputs
<1>2. OneKey => PressIsAtMostOneOrder
  BY DEF OneKey, PressIsAtMostOneOrder
<1> QED
  BY <1>1, <1>2

-----------------------------------------------------------------------------
(* The private notifications socket *)

UserShape ==
  /\ user = [ws |-> user.ws, status |-> user.status, subs |-> user.subs,
             retry |-> user.retry, linger |-> user.linger,
             everConnected |-> user.everConnected]
  /\ user.subs \subseteq Subscribers

UserInv == UserShape /\ ListenedIsServed /\ StatusIsShared

(* After setStatus every subscriber renders the connection's status.       *)
LEMMA ToldIsShared ==
  ASSUME user'.subs \subseteq Subscribers, seenStatus' = tell(user')
  PROVE  StatusIsShared'
BY DEF tell, StatusIsShared

(* Every step of the notifications socket keeps its invariant.             *)
LEMMA UserKeeps ==
  ASSUME UserInv, [UserNext]_userVars
  PROVE  UserInv'
<1> USE DEF UserInv, UserShape
<1>1. ASSUME NEW x \in Subscribers, Acquire(x)
      PROVE  UserInv'
  <2>1. seenStatus' = tell(user')
    BY <1>1 DEF Acquire
  <2>2. CASE user.ws = "none" /\ ~user.retry
    <3>1. user' = [ws |-> "connecting", status |-> "connecting", subs |-> user.subs \cup {x},
                   retry |-> user.retry, linger |-> FALSE, everConnected |-> user.everConnected]
      BY Zenon, <1>1, <2>2 DEF Acquire, open
    <3> QED
      BY <2>1, <3>1, ToldIsShared DEF ListenedIsServed
  <2>3. CASE ~(user.ws = "none" /\ ~user.retry)
    <3>1. user' = [ws |-> user.ws, status |-> user.status, subs |-> user.subs \cup {x},
                   retry |-> user.retry, linger |-> FALSE, everConnected |-> user.everConnected]
      BY Zenon, <1>1, <2>3 DEF Acquire, open
    <3>2. user'.ws # "none" \/ user'.retry
      BY <2>3, <3>1
    <3> QED
      BY Zenon, <2>1, <3>1, <3>2, ToldIsShared DEF ListenedIsServed
  <2> QED
    BY Zenon, <2>2, <2>3
<1>2. ASSUME NEW x \in Subscribers, ReleaseSocket(x)
      PROVE  UserInv'
  <2>1. /\ user' = [ws |-> user.ws, status |-> user.status, subs |-> user.subs \ {x},
                    retry |-> user.retry, linger |-> (user.subs = {x}),
                    everConnected |-> user.everConnected]
        /\ seenStatus' = seenStatus
    BY Zenon, <1>2 DEF ReleaseSocket
  <2> QED
    BY <2>1 DEF ListenedIsServed, StatusIsShared
<1>3. CASE LingerTimer
  <2>1. CASE user.subs # {}
    <3>1. /\ user' = [ws |-> user.ws, status |-> user.status, subs |-> user.subs,
                      retry |-> user.retry, linger |-> FALSE,
                      everConnected |-> user.everConnected]
          /\ seenStatus' = seenStatus
      BY Zenon, <1>3, <2>1 DEF LingerTimer
    <3> QED
      BY <3>1 DEF ListenedIsServed, StatusIsShared
  <2>2. CASE user.subs = {}
    BY <1>3, <2>2 DEF LingerTimer, createConnection, ListenedIsServed, StatusIsShared
  <2> QED
    BY <2>1, <2>2
<1>4. CASE UserOpen
  <2>1. /\ user' = [ws |-> "open", status |-> "connected", subs |-> user.subs,
                    retry |-> user.retry, linger |-> user.linger, everConnected |-> TRUE]
        /\ seenStatus' = tell(user')
    BY Zenon, <1>4 DEF UserOpen
  <2> QED
    BY <2>1, ToldIsShared DEF ListenedIsServed
<1>5. CASE UserError \/ GoDead
  <2>1. PICK w \in {"closing", "dead"} :
          user' = [ws |-> w, status |-> user.status, subs |-> user.subs,
                   retry |-> user.retry, linger |-> user.linger,
                   everConnected |-> user.everConnected]
    BY <1>5 DEF UserError, GoDead
  <2>2. seenStatus' = seenStatus
    BY <1>5 DEF UserError, GoDead
  <2> QED
    BY <2>1, <2>2 DEF ListenedIsServed, StatusIsShared
<1>6. CASE UserClose
  <2>1. /\ user' = [ws |-> "none", status |-> "disconnected", subs |-> user.subs,
                    retry |-> (user.subs # {}), linger |-> user.linger,
                    everConnected |-> user.everConnected]
        /\ seenStatus' = tell(user')
    BY Zenon, <1>6 DEF UserClose
  <2> QED
    BY Zenon, <2>1, ToldIsShared DEF ListenedIsServed
<1>7. CASE RetryTimer
  <2>1. seenStatus' = tell(user')
    BY <1>7 DEF RetryTimer
  <2>2. CASE user.subs # {} /\ user.ws = "none"
    <3>1. user' = [ws |-> "connecting", status |-> "connecting", subs |-> user.subs,
                   retry |-> FALSE, linger |-> user.linger,
                   everConnected |-> user.everConnected]
      BY Zenon, <1>7, <2>2 DEF RetryTimer, open
    <3> QED
      BY <2>1, <3>1, ToldIsShared DEF ListenedIsServed
  <2>3. CASE ~(user.subs # {} /\ user.ws = "none")
    <3>1. user' = [ws |-> user.ws, status |-> user.status, subs |-> user.subs,
                   retry |-> FALSE, linger |-> user.linger,
                   everConnected |-> user.everConnected]
      BY Zenon, <1>7, <2>3 DEF RetryTimer
    <3> QED
      BY Zenon, <2>1, <2>3, <3>1, ToldIsShared DEF ListenedIsServed
  <2> QED
    BY Zenon, <2>2, <2>3
<1>8. ASSUME NEW force \in BOOLEAN, UserRecover(force)
      PROVE  UserInv'
  <2>1. /\ user' = [ws |-> "connecting", status |-> "connecting", subs |-> user.subs,
                    retry |-> FALSE, linger |-> user.linger,
                    everConnected |-> user.everConnected]
        /\ seenStatus' = tell(user')
    BY Zenon, <1>8 DEF UserRecover, open
  <2> QED
    BY <2>1, ToldIsShared DEF ListenedIsServed
<1>9. CASE PrivateEvent \/ PrivateRead \/ UNCHANGED userVars
  BY Zenon, <1>9 DEF PrivateEvent, PrivateRead, userVars, ListenedIsServed, StatusIsShared
<1> QED
  BY Zenon, <1>1, <1>2, <1>3, <1>4, <1>5, <1>6, <1>7, <1>8, <1>9 DEF UserNext

(* Nobody listens to the first connection.                                 *)
LEMMA UserStarts == UserInit => UserInv
BY DEF UserInit, createConnection, UserInv, UserShape, ListenedIsServed, StatusIsShared

-----------------------------------------------------------------------------
(* The tape of trades *)

TapeShape(t) ==
  t = [ws |-> t.ws, status |-> t.status, timer |-> t.timer,
       everConnected |-> t.everConnected, mounted |-> t.mounted, late |-> t.late]

TapeInv == TapeShape(tape) /\ TapeNeverParked

RowsInv == executed \in Nat /\ wsTrades \in Seq(Nat) /\ TapeRowsDistinct

(* connect leaves a mounted feed with a socket.                            *)
LEMMA DialedServes ==
  ASSUME NEW t, TapeShape(t)
  PROVE  TapeShape(dialed(t)) /\ (dialed(t).mounted => dialed(t).ws # "none")
<1>1. CASE ~t.mounted \/ t.ws \in {"connecting", "open", "dead"}
  BY <1>1 DEF dialed
<1>2. CASE ~(~t.mounted \/ t.ws \in {"connecting", "open", "dead"})
  <2>1. PICK n : dialed(t) = [ws |-> "connecting", status |-> "connecting", timer |-> t.timer,
                     everConnected |-> t.everConnected, mounted |-> t.mounted, late |-> n]
    BY Zenon, <1>2 DEF dialed, TapeShape
  <2> QED
    BY <2>1 DEF TapeShape
<1> QED
  BY <1>1, <1>2

(* Every step of the tape's socket leaves a mounted feed a way back.       *)
LEMMA TapeKeeps ==
  ASSUME TapeInv, [TapeNext]_tapeVars
  PROVE  TapeInv'
<1>1. ASSUME NEW t, TapeShape(t), tape' = dialed(t)
      PROVE  TapeInv'
  BY <1>1, DialedServes DEF TapeInv, TapeShape, TapeNeverParked
<1>2. CASE TapeOpen
  <2>1. tape' = [ws |-> "open", status |-> "connected", timer |-> tape.timer,
                 everConnected |-> TRUE, mounted |-> tape.mounted, late |-> tape.late]
    BY Zenon, <1>2 DEF TapeOpen, TapeInv, TapeShape
  <2> QED
    BY <2>1 DEF TapeInv, TapeShape, TapeNeverParked
<1>3. CASE TapeError \/ TapeGoDead
  <2>1. PICK w \in {"closing", "dead"} :
          tape' = [ws |-> w, status |-> tape.status, timer |-> tape.timer,
                   everConnected |-> tape.everConnected, mounted |-> tape.mounted,
                   late |-> tape.late]
    BY <1>3 DEF TapeError, TapeGoDead, TapeInv, TapeShape
  <2> QED
    BY <2>1 DEF TapeInv, TapeShape, TapeNeverParked
<1>4. CASE TapeClose
  <2>1. tape' = [ws |-> "none", status |-> "disconnected", timer |-> TRUE,
                 everConnected |-> tape.everConnected, mounted |-> tape.mounted,
                 late |-> tape.late]
    BY Zenon, <1>4 DEF TapeClose, TapeInv, TapeShape
  <2> QED
    BY <2>1 DEF TapeInv, TapeShape, TapeNeverParked
<1>5. CASE TapeLateClose
  <2>1. CASE ~tape.mounted
    <3>1. tape' = [ws |-> tape.ws, status |-> tape.status, timer |-> tape.timer,
                   everConnected |-> tape.everConnected, mounted |-> tape.mounted,
                   late |-> tape.late - 1]
      BY <1>5, <2>1 DEF TapeLateClose, TapeInv, TapeShape
    <3> QED
      BY <2>1, <3>1 DEF TapeInv, TapeShape, TapeNeverParked
  <2>2. CASE tape.mounted
    <3>1. tape' = [ws |-> tape.ws, status |-> "disconnected", timer |-> TRUE,
                   everConnected |-> tape.everConnected, mounted |-> tape.mounted,
                   late |-> tape.late - 1]
      BY Zenon, <1>5, <2>2 DEF TapeLateClose, TapeInv, TapeShape
    <3> QED
      BY <2>2, <3>1 DEF TapeInv, TapeShape, TapeNeverParked
  <2> QED
    BY <2>1, <2>2
<1>6. CASE TapeTimer
  <2>1. PICK t : t = [tape EXCEPT !.timer = FALSE] /\ tape' = dialed(t)
    BY <1>6 DEF TapeTimer
  <2>2. t = [ws |-> tape.ws, status |-> tape.status, timer |-> FALSE,
             everConnected |-> tape.everConnected, mounted |-> tape.mounted,
             late |-> tape.late]
    BY Zenon, <2>1 DEF TapeInv, TapeShape
  <2> QED
    BY Zenon, <1>1, <2>1, <2>2 DEF TapeShape
<1>7. ASSUME NEW force \in BOOLEAN, TapeRecover(force)
      PROVE  TapeInv'
  <2>1. PICK t : /\ t = [tape EXCEPT !.timer = FALSE, !.ws = IF @ = "closing" THEN @ ELSE "none"]
                 /\ tape' = dialed(t)
    BY <1>7 DEF TapeRecover
  <2>2. t = [ws |-> t.ws, status |-> tape.status, timer |-> FALSE,
             everConnected |-> tape.everConnected, mounted |-> tape.mounted,
             late |-> tape.late]
    BY Zenon, <2>1 DEF TapeInv, TapeShape
  <2> QED
    BY <1>1, <2>1, <2>2 DEF TapeShape
<1>8. CASE Mount
  <2>1. PICK t : /\ t = [tape EXCEPT !.mounted = TRUE, !.everConnected = FALSE]
                 /\ tape' = dialed(t)
    BY <1>8 DEF Mount
  <2>2. t = [ws |-> tape.ws, status |-> tape.status, timer |-> tape.timer,
             everConnected |-> FALSE, mounted |-> TRUE, late |-> tape.late]
    BY Zenon, <2>1 DEF TapeInv, TapeShape
  <2> QED
    BY Zenon, <1>1, <2>1, <2>2 DEF TapeShape
<1>9. CASE Unmount
  <2>1. tape' = [ws |-> "none", status |-> tape.status, timer |-> FALSE,
                 everConnected |-> tape.everConnected, mounted |-> FALSE, late |-> tape.late]
    BY Zenon, <1>9 DEF Unmount, TapeInv, TapeShape
  <2> QED
    BY <2>1 DEF TapeInv, TapeShape, TapeNeverParked
<1>10. ASSUME UNCHANGED tape
       PROVE  TapeInv'
  BY <1>10 DEF TapeInv, TapeShape, TapeNeverParked
<1>11. Execute \/ TapeRead \/ scrollToTop \/ UNCHANGED tapeVars => UNCHANGED tape
  BY Zenon DEF Execute, TapeRead, scrollToTop, tapeVars
<1>12. \A id : Redeliver(id) => UNCHANGED tape
  BY DEF Redeliver
<1> QED
  BY <1>2, <1>3, <1>4, <1>5, <1>6, <1>7, <1>8, <1>9, <1>10, <1>11, <1>12 DEF TapeNext

(* A row put in front of rows that do not hold it leaves them distinct.    *)
LEMMA PrependDistinct ==
  ASSUME NEW s \in Seq(Nat), NEW id \in Nat, id \notin Ids(s),
         \A i, j \in DOMAIN s : s[i] = s[j] => i = j
  PROVE  /\ <<id>> \o s \in Seq(Nat)
         /\ \A i, j \in DOMAIN (<<id>> \o s) : (<<id>> \o s)[i] = (<<id>> \o s)[j] => i = j
<1> DEFINE t == <<id>> \o s
<1>0. DOMAIN s = 1..Len(s) /\ Len(s) \in Nat
  OBVIOUS
<1>4. t \in Seq(Nat) /\ Len(t) = Len(s) + 1 /\ t[1] = id
  OBVIOUS
<1>5. DOMAIN t = 1..Len(t)
  BY <1>4
<1>6. ASSUME NEW i \in 2..Len(t)
      PROVE  i - 1 \in DOMAIN s /\ t[i] = s[i - 1]
  <2>1. i \in Nat /\ i - 1 \in 1..Len(s) /\ i \in 1..(1 + Len(s)) /\ i > 1
    BY <1>0, <1>4
  <2>2. t[i] = s[i - 1]
    BY <1>0, <2>1
  <2> QED
    BY Zenon, <1>0, <2>1, <2>2
<1>1. /\ t \in Seq(Nat) /\ Len(t) = Len(s) + 1 /\ DOMAIN t = 1..Len(t)
      /\ t[1] = id /\ \A i \in 2..Len(t) : i - 1 \in DOMAIN s /\ t[i] = s[i - 1]
  BY Zenon, <1>4, <1>5, <1>6
<1>2. \A i \in 2..Len(t) : t[i] # id
  BY <1>1 DEF Ids
<1> HIDE DEF t
<1>3. ASSUME NEW i \in 1..Len(t), NEW j \in 1..Len(t), t[i] = t[j]
      PROVE  i = j
  <2>1. CASE i = 1 \/ j = 1
    BY <1>1, <1>2, <1>3, <2>1
  <2>2. CASE i # 1 /\ j # 1
    <3>1. i \in 2..Len(t) /\ j \in 2..Len(t)
      BY <1>1, <2>2
    <3>2. i - 1 = j - 1
      BY <1>1, <1>3, <3>1
    <3> QED
      BY <3>1, <3>2
  <2> QED
    BY <2>1, <2>2
<1> QED
  BY Zenon, <1>1, <1>3 DEF t

(* handleMessage never lists a trade twice.                                *)
LEMMA TradeKeepsRows ==
  ASSUME RowsInv, NEW id \in Nat, handleTrade(id)
  PROVE  wsTrades' \in Seq(Nat) /\ TapeRowsDistinct'
<1>1. CASE wsTrades' = wsTrades
  BY <1>1 DEF RowsInv, TapeRowsDistinct
<1>2. CASE id \notin Ids(wsTrades) /\ wsTrades' = <<id>> \o wsTrades
  BY Zenon, <1>2, PrependDistinct DEF RowsInv, TapeRowsDistinct
<1> QED
  BY <1>1, <1>2 DEF handleTrade

(* The rows of the tape stay distinct.                                     *)
LEMMA RowsKeep ==
  ASSUME RowsInv, [TapeNext]_tapeVars
  PROVE  RowsInv'
<1>1. ASSUME executed' \in Nat, wsTrades' = wsTrades \/ wsTrades' = <<>>
      PROVE  RowsInv'
  <2>1. CASE wsTrades' = wsTrades
    BY <1>1, <2>1 DEF RowsInv, TapeRowsDistinct
  <2>2. CASE wsTrades' = <<>>
    BY <1>1, <2>2 DEF RowsInv, TapeRowsDistinct
  <2> QED
    BY <1>1, <2>1, <2>2
<1>2. CASE Execute
  <2>1. executed' \in Nat /\ executed + 1 \in Nat
    BY <1>2 DEF Execute, RowsInv
  <2> QED
    BY <1>1, <1>2, <2>1, TradeKeepsRows DEF Execute, RowsInv
<1>3. ASSUME NEW id \in 1..Executed, Redeliver(id)
      PROVE  RowsInv'
  <2>1. id \in Nat /\ executed' = executed /\ handleTrade(id)
    BY <1>3 DEF Redeliver, RowsInv
  <2> QED
    BY <2>1, TradeKeepsRows DEF RowsInv
<1>4. TapeOpen \/ Mount \/ scrollToTop =>
        executed' = executed /\ (wsTrades' = wsTrades \/ wsTrades' = <<>>)
  BY DEF TapeOpen, Mount, scrollToTop
<1>5. TapeError \/ TapeGoDead \/ TapeClose \/ TapeLateClose \/ TapeTimer
        => executed' = executed /\ wsTrades' = wsTrades
  BY DEF TapeError, TapeGoDead, TapeClose, TapeLateClose, TapeTimer, feedVars
<1>6. Unmount \/ TapeRead \/ UNCHANGED tapeVars => executed' = executed /\ wsTrades' = wsTrades
  BY DEF Unmount, TapeRead, tapeVars
<1>7. \A force : TapeRecover(force) => executed' = executed /\ wsTrades' = wsTrades
  BY DEF TapeRecover, feedVars
<1>8. executed \in Nat
  BY DEF RowsInv
<1> QED
  BY <1>1, <1>2, <1>3, <1>4, <1>5, <1>6, <1>7, <1>8 DEF TapeNext

(* The tape starts mounted, dialling, with no rows.                        *)
LEMMA TapeStarts == TapeInit => TapeInv /\ RowsInv
BY DEF TapeInit, TapeInv, TapeShape, TapeNeverParked, RowsInv, TapeRowsDistinct

-----------------------------------------------------------------------------
(* The market socket: who is followed *)

ConnShape(k) ==
  k = [ws |-> k.ws, status |-> k.status, subs |-> k.subs, sent |-> k.sent,
       serverSubs |-> k.serverSubs, reconnect |-> k.reconnect, closeTimer |-> k.closeTimer,
       lastSeq |-> k.lastSeq, everConnected |-> k.everConnected,
       declaredGrid |-> k.declaredGrid]

SrvInv ==
  /\ srv = [asked |-> srv.asked, subs |-> srv.subs, grid |-> srv.grid]
  /\ srv.asked \subseteq Markets /\ srv.subs \subseteq Markets

(* A market counted as sent and still followed is among those the last     *)
(* socket served, and only followed markets are: so onopen replays all of  *)
(* them.                                                                   *)
FollowInv ==
  /\ ConnShape(conn) /\ SrvInv
  /\ conn.subs \in [Markets -> SUBSET Consumers]
  /\ conn.serverSubs \subseteq Following(conn)
  /\ conn.sent \cap Following(conn) \subseteq conn.serverSubs
  /\ OpenSocketAskedForAll /\ NeverParkedWhileFollowed

Registry(k) == <<k.subs, k.sent, k.serverSubs, k.lastSeq>>

(* connect gives a connection a socket and leaves its registry alone.      *)
LEMMA ConnectServes ==
  ASSUME NEW k, ConnShape(k)
  PROVE  /\ ConnShape(connect(k)) /\ Registry(connect(k)) = Registry(k)
         /\ connect(k).ws # "none"
         /\ k.ws # "none" => connect(k) = k
         /\ k.ws = "none" => connect(k).ws = "connecting"
<1>1. CASE k.ws # "none"
  BY <1>1 DEF connect
<1>2. CASE k.ws = "none"
  <2>1. connect(k) = [ws |-> "connecting", status |-> "connecting", subs |-> k.subs,
                      sent |-> k.sent, serverSubs |-> k.serverSubs, reconnect |-> FALSE,
                      closeTimer |-> FALSE, lastSeq |-> k.lastSeq,
                      everConnected |-> k.everConnected, declaredGrid |-> k.declaredGrid]
    BY Zenon, <1>2 DEF connect, ConnShape
  <2> QED
    BY <1>2, <2>1 DEF ConnShape, Registry
<1> QED
  BY <1>1, <1>2

(* A step that leaves the registry alone, opens no socket, forgets no      *)
(* queued subscribe and keeps a way back keeps the followers served.       *)
LEMMA FollowStep ==
  ASSUME FollowInv, ConnShape(conn'), SrvInv',
         conn'.subs = conn.subs, conn'.sent = conn.sent, conn'.serverSubs = conn.serverSubs,
         conn'.ws = "open" => conn.ws = "open" /\ srv'.asked = srv.asked /\ chain \subseteq chain',
         \/ Following(conn) = {} \/ conn'.ws # "none" \/ conn'.reconnect
         \/ conn'.ws = conn.ws /\ conn'.reconnect = conn.reconnect
  PROVE  FollowInv'
<1>1. Following(conn') = Following(conn)
  BY Zenon DEF Following
<1>2. OpenSocketAskedForAll'
  BY Zenon, <1>1 DEF FollowInv, OpenSocketAskedForAll
<1>3. NeverParkedWhileFollowed'
  BY Zenon, <1>1 DEF FollowInv, NeverParkedWhileFollowed
<1> QED
  BY Zenon, <1>1, <1>2, <1>3 DEF FollowInv

(* What the steps that dial do to the connection.                          *)
DialStep ==
  /\ ConnShape(conn') /\ Registry(conn') = Registry(conn)
  /\ \/ conn'.ws = conn.ws /\ conn'.reconnect = conn.reconnect
     \/ conn'.ws # "none" /\ (conn'.ws = "open" => conn.ws = "open")

(* The timer, a recovery and the grid's declaration only dial.             *)
LEMMA DialsOnly ==
  ASSUME ConnShape(conn),
         \/ ReconnectTimer \/ Online \/ OnVisible \/ \E rows \in {"rows", "empty"} : sendGrid(rows)
  PROVE  DialStep
<1>1. PICK k : /\ k = [conn EXCEPT !.reconnect = FALSE]
               /\ k = [ws |-> conn.ws, status |-> conn.status, subs |-> conn.subs,
                       sent |-> conn.sent, serverSubs |-> conn.serverSubs,
                       reconnect |-> FALSE, closeTimer |-> conn.closeTimer,
                       lastSeq |-> conn.lastSeq, everConnected |-> conn.everConnected,
                       declaredGrid |-> conn.declaredGrid]
  <2>1. PICK k : k = [conn EXCEPT !.reconnect = FALSE]
    BY Zenon
  <2> QED
    BY <2>1 DEF ConnShape
<1>2. ConnShape(k) /\ Registry(k) = Registry(conn) /\ k.ws = conn.ws
  BY Zenon, <1>1 DEF ConnShape, Registry
<1>3. CASE conn' = connect(k)
  BY <1>2, <1>3, ConnectServes DEF DialStep
<1>4. CASE conn' = recovered(conn)
  BY <1>1, <1>3, <1>4 DEF recovered, DialStep
<1>5. ASSUME NEW rows, sendGrid(rows)
      PROVE  DialStep
  <2>1. PICK c : c = connect(conn) /\ conn' = [c EXCEPT !.declaredGrid = (rows = "rows")]
    BY Zenon, <1>5 DEF sendGrid
  <2>2. /\ ConnShape(c) /\ Registry(c) = Registry(conn) /\ c.ws # "none"
        /\ (c.ws = "open" => conn.ws = "open")
    BY <2>1, ConnectServes
  <2>3. conn' = [ws |-> c.ws, status |-> c.status, subs |-> c.subs, sent |-> c.sent,
                 serverSubs |-> c.serverSubs, reconnect |-> c.reconnect,
                 closeTimer |-> c.closeTimer, lastSeq |-> c.lastSeq,
                 everConnected |-> c.everConnected, declaredGrid |-> (rows = "rows")]
    BY <2>1, <2>2 DEF ConnShape
  <2> QED
    BY Zenon, <2>2, <2>3 DEF ConnShape, Registry, DialStep
<1> QED
  BY Zenon, <1>1, <1>3, <1>4, <1>5 DEF ReconnectTimer, Online, OnVisible

(* onopen asks for every followed market.                                  *)
LEMMA OpenKeeps ==
  ASSUME FollowInv, OnOpen
  PROVE  FollowInv'
<1> DEFINE pending == {m \in Following(conn) : m \notin conn.sent \cup conn.serverSubs}
<1>1. conn' = [ws |-> "open", status |-> "connected", subs |-> conn.subs,
               sent |-> conn.sent \cup pending, serverSubs |-> conn.serverSubs \cup pending,
               reconnect |-> conn.reconnect, closeTimer |-> conn.closeTimer,
               lastSeq |-> conn.lastSeq, everConnected |-> TRUE,
               declaredGrid |-> conn.declaredGrid]
  BY Zenon DEF OnOpen, FollowInv, ConnShape
<1>2. /\ srv' = [asked |-> conn.serverSubs \cup pending, subs |-> {}, grid |-> conn.declaredGrid]
      /\ chain' = chain
  BY DEF OnOpen
<1>3. Following(conn') = Following(conn) /\ Following(conn) \subseteq Markets
  BY Zenon, <1>1 DEF Following
<1>4. conn.serverSubs \cup pending = Following(conn)
  BY Zenon DEF FollowInv
<1> HIDE DEF pending
<1>5. ConnShape(conn') /\ SrvInv'
  BY Zenon, <1>1, <1>2, <1>3, <1>4 DEF ConnShape, SrvInv
<1>6. OpenSocketAskedForAll' /\ NeverParkedWhileFollowed'
  BY Zenon, <1>1, <1>2, <1>3, <1>4 DEF OpenSocketAskedForAll, NeverParkedWhileFollowed
<1>7. /\ conn'.subs = conn.subs /\ conn'.serverSubs = Following(conn)
      /\ conn'.sent = conn.sent \cup pending
  BY Zenon, <1>1, <1>4
<1> QED
  BY Zenon, <1>3, <1>5, <1>6, <1>7 DEF FollowInv

(* subscribe: a market that gains its first handler is to be sent again.   *)
LEMMA SubscribeKeeps ==
  ASSUME FollowInv, NEW x \in Consumers, Subscribe(x)
  PROVE  FollowInv'
<1> DEFINE m == MarketOf[x]
           subs == [conn.subs EXCEPT ![m] = @ \cup {x}]
           sent == IF conn.subs[m] = {} THEN conn.sent \ {m} ELSE conn.sent
<1>0. m \in Markets
  BY SocketAssumption
<1>1. PICK k : /\ k = [ws |-> conn.ws, status |-> conn.status, subs |-> subs, sent |-> sent,
                       serverSubs |-> conn.serverSubs, reconnect |-> conn.reconnect,
                       closeTimer |-> conn.closeTimer, lastSeq |-> conn.lastSeq,
                       everConnected |-> conn.everConnected,
                       declaredGrid |-> conn.declaredGrid]
               /\ conn' = connect(k)
  <2>1. PICK k : /\ k = [conn EXCEPT !.subs[m] = @ \cup {x},
                                     !.sent = IF conn.subs[m] = {} THEN @ \ {m} ELSE @]
                 /\ conn' = connect(k)
    BY Zenon DEF Subscribe
  <2>2. k = [ws |-> conn.ws, status |-> conn.status, subs |-> subs, sent |-> sent,
             serverSubs |-> conn.serverSubs, reconnect |-> conn.reconnect,
             closeTimer |-> conn.closeTimer, lastSeq |-> conn.lastSeq,
             everConnected |-> conn.everConnected, declaredGrid |-> conn.declaredGrid]
    BY Zenon, <2>1 DEF FollowInv, ConnShape
  <2> QED
    BY Zenon, <2>1, <2>2
<1>2. /\ UNCHANGED srv /\ chain \subseteq chain'
      /\ conn.ws # "none" => m \in chain'
  BY DEF Subscribe
<1> HIDE DEF m
<1>3. ConnShape(k) /\ k.ws = conn.ws
  BY Zenon, <1>1 DEF ConnShape
<1>4. Registry(k) = <<subs, sent, conn.serverSubs, conn.lastSeq>>
  BY Zenon, <1>1 DEF Registry
<1>5. /\ ConnShape(conn') /\ conn'.ws # "none"
      /\ conn'.ws = "open" => conn.ws = "open"
  BY <1>1, <1>3, ConnectServes
<1>6. /\ conn'.subs = subs /\ conn'.sent = sent /\ conn'.serverSubs = conn.serverSubs
  <2> HIDE DEF subs, sent
  <2>1. Registry(conn') = <<subs, sent, conn.serverSubs, conn.lastSeq>>
    BY Zenon, <1>1, <1>3, <1>4, ConnectServes
  <2> QED
    BY Zenon, <2>1 DEF Registry
<1>7. subs \in [Markets -> SUBSET Consumers] /\ Following(conn') = Following(conn) \cup {m}
  BY <1>0, <1>6 DEF FollowInv, Following
<1>8. sent \cap (Following(conn) \cup {m}) \subseteq conn.serverSubs
  <2>1. CASE conn.subs[m] = {}
    BY Zenon, <2>1 DEF FollowInv
  <2>2. CASE conn.subs[m] # {}
    BY Zenon, <1>0, <2>2 DEF FollowInv, Following
  <2> QED
    BY Zenon, <2>1, <2>2
<1>9. OpenSocketAskedForAll' /\ NeverParkedWhileFollowed'
  BY Zenon, <1>2, <1>5, <1>6, <1>7 DEF FollowInv, OpenSocketAskedForAll, NeverParkedWhileFollowed
<1>10. SrvInv'
  BY Zenon, <1>2 DEF FollowInv, SrvInv
<1> QED
  BY Zenon, <1>5, <1>6, <1>7, <1>8, <1>9, <1>10 DEF FollowInv

(* wsSubscribe: the market leaves the queue for the server's list.         *)
LEMMA WsSubscribeKeeps ==
  ASSUME FollowInv, NEW m \in Markets, wsSubscribe(m)
  PROVE  FollowInv'
<1>1. chain' = chain \ {m}
  BY DEF wsSubscribe
<1>2. CASE conn.subs[m] = {} \/ m \in conn.sent
  <2>1. UNCHANGED <<conn, srv>>
    BY <1>2 DEF wsSubscribe
  <2>2. m \in Following(conn) => m \in conn.serverSubs
    BY Zenon, <1>2 DEF FollowInv, Following
  <2>3. OpenSocketAskedForAll'
    BY Zenon, <1>1, <2>1, <2>2 DEF FollowInv, OpenSocketAskedForAll, Following
  <2> QED
    BY Zenon, <2>1, <2>3 DEF FollowInv, SrvInv, ConnShape, NeverParkedWhileFollowed, Following
<1>3. CASE ~(conn.subs[m] = {} \/ m \in conn.sent)
  <2>1. conn' = [ws |-> conn.ws, status |-> conn.status, subs |-> conn.subs,
                 sent |-> conn.sent \cup {m}, serverSubs |-> conn.serverSubs \cup {m},
                 reconnect |-> conn.reconnect, closeTimer |-> conn.closeTimer,
                 lastSeq |-> conn.lastSeq, everConnected |-> conn.everConnected,
                 declaredGrid |-> conn.declaredGrid]
    BY Zenon, <1>3 DEF wsSubscribe, FollowInv, ConnShape
  <2>2. /\ SrvInv'
        /\ conn.ws = "open" => srv'.asked = srv.asked \cup {m}
    <3>1. srv' = [asked |-> srv.asked \cup {m}, subs |-> srv.subs, grid |-> srv.grid] \/ srv' = srv
      BY <1>3 DEF wsSubscribe, FollowInv, SrvInv
    <3>2. conn.ws = "open" => srv' = [asked |-> srv.asked \cup {m}, subs |-> srv.subs, grid |-> srv.grid]
      BY <1>3 DEF wsSubscribe, FollowInv, SrvInv
    <3> QED
      BY <3>1, <3>2 DEF FollowInv, SrvInv
  <2>3. /\ ConnShape(conn') /\ Following(conn') = Following(conn) /\ m \in Following(conn)
        /\ conn'.ws = conn.ws /\ conn'.reconnect = conn.reconnect /\ conn'.subs = conn.subs
        /\ conn'.sent = conn.sent \cup {m} /\ conn'.serverSubs = conn.serverSubs \cup {m}
    BY Zenon, <1>3, <2>1 DEF ConnShape, Following
  <2>4. OpenSocketAskedForAll' /\ NeverParkedWhileFollowed'
    BY Zenon, <1>1, <2>2, <2>3 DEF FollowInv, OpenSocketAskedForAll, NeverParkedWhileFollowed
  <2> QED
    BY Zenon, <2>2, <2>3, <2>4 DEF FollowInv
<1> QED
  BY Zenon, <1>2, <1>3

(* The function subscribe returned: a market without handlers leaves the   *)
(* server's list.                                                          *)
LEMMA UnsubscribeKeeps ==
  ASSUME FollowInv, NEW x \in Consumers, Unsubscribe(x)
  PROVE  FollowInv'
<1> DEFINE m == MarketOf[x]
           left == conn.subs[m] \ {x}
           subs == [conn.subs EXCEPT ![m] = left]
<1>0. m \in Markets
  BY SocketAssumption
<1>1. subs \in [Markets -> SUBSET Consumers]
  BY Zenon, <1>0 DEF FollowInv
<1>2. chain' = chain
  BY DEF Unsubscribe
<1>3. CASE conn.subs[m] = {} \/ left # {}
  <2>1. conn' = [ws |-> conn.ws, status |-> conn.status, subs |-> subs, sent |-> conn.sent,
                 serverSubs |-> conn.serverSubs, reconnect |-> conn.reconnect,
                 closeTimer |-> conn.closeTimer, lastSeq |-> conn.lastSeq,
                 everConnected |-> conn.everConnected, declaredGrid |-> conn.declaredGrid]
    BY Zenon, <1>3 DEF Unsubscribe, FollowInv, ConnShape
  <2>2. srv' = srv
    BY Zenon, <1>3 DEF Unsubscribe
  <2>3. \A n \in Markets : subs[n] = {} <=> conn.subs[n] = {}
    BY Zenon, <1>0, <1>3 DEF FollowInv
  <2> HIDE DEF subs, left, m
  <2>4. /\ ConnShape(conn') /\ conn'.subs = subs /\ conn'.sent = conn.sent
        /\ conn'.serverSubs = conn.serverSubs /\ conn'.ws = conn.ws
        /\ conn'.reconnect = conn.reconnect
    BY Zenon, <2>1 DEF ConnShape
  <2>5. Following(conn') = Following(conn)
    BY <2>3, <2>4 DEF Following
  <2>6. OpenSocketAskedForAll' /\ NeverParkedWhileFollowed' /\ SrvInv'
    BY Zenon, <1>2, <2>2, <2>4, <2>5
       DEF FollowInv, OpenSocketAskedForAll, NeverParkedWhileFollowed, SrvInv
  <2> QED
    BY Zenon, <1>1, <2>4, <2>5, <2>6 DEF FollowInv
<1>4. CASE ~(conn.subs[m] = {} \/ left # {})
  <2>1. PICK t : conn' = [ws |-> conn.ws, status |-> conn.status, subs |-> subs,
                 sent |-> conn.sent, serverSubs |-> conn.serverSubs \ {m},
                 reconnect |-> conn.reconnect, closeTimer |-> t,
                 lastSeq |-> [conn.lastSeq EXCEPT ![m] = 0],
                 everConnected |-> conn.everConnected, declaredGrid |-> conn.declaredGrid]
    BY Zenon, <1>4 DEF Unsubscribe, FollowInv, ConnShape
  <2>2. \/ srv' = srv /\ (conn.ws = "open" => m \notin conn.serverSubs)
        \/ srv' = [asked |-> srv.asked \ {m}, subs |-> srv.subs, grid |-> srv.grid]
    BY Zenon, <1>4 DEF Unsubscribe, FollowInv, SrvInv
  <2>3. SrvInv' /\ (conn.ws = "open" => srv'.asked = conn.serverSubs \ {m})
    BY <2>2 DEF FollowInv, SrvInv, OpenSocketAskedForAll
  <2>4. Following([subs |-> subs]) = Following(conn) \ {m}
    BY Zenon, <1>0, <1>4 DEF FollowInv, Following
  <2> HIDE DEF subs, left, m
  <2>5. /\ ConnShape(conn') /\ conn'.subs = subs /\ conn'.sent = conn.sent
        /\ conn'.serverSubs = conn.serverSubs \ {m} /\ conn'.ws = conn.ws
        /\ conn'.reconnect = conn.reconnect
    BY Zenon, <2>1 DEF ConnShape
  <2>6. Following(conn') = Following(conn) \ {m}
    BY Zenon, <2>4, <2>5 DEF Following
  <2>7. OpenSocketAskedForAll' /\ NeverParkedWhileFollowed'
    BY Zenon, <1>2, <2>3, <2>5, <2>6 DEF FollowInv, OpenSocketAskedForAll, NeverParkedWhileFollowed
  <2> QED
    BY Zenon, <1>1, <2>3, <2>5, <2>6, <2>7 DEF FollowInv
<1> QED
  BY Zenon, <1>3, <1>4

(* teardownSocket forgets every follower.                                  *)
LEMMA TeardownKeeps ==
  ASSUME FollowInv, Teardown
  PROVE  FollowInv'
<1>1. conn' = [ws |-> "none", status |-> conn.status, subs |-> [m \in Markets |-> {}],
               sent |-> {}, serverSubs |-> {}, reconnect |-> FALSE, closeTimer |-> FALSE,
               lastSeq |-> [m \in Markets |-> 0], everConnected |-> FALSE,
               declaredGrid |-> FALSE]
  BY Zenon DEF Teardown, FollowInv, ConnShape
<1>2. srv' = Disconnected
  BY DEF Teardown
<1>3. Following(conn') = {}
  BY Zenon, <1>1 DEF Following
<1> QED
  BY Zenon, <1>1, <1>2, <1>3 DEF FollowInv, ConnShape, SrvInv, Disconnected, OpenSocketAskedForAll,
                          NeverParkedWhileFollowed

(* A drop keeps the registry and arms the way back; the deferred close     *)
(* parks an empty registry only.                                           *)
LEMMA DropKeeps ==
  ASSUME FollowInv, OnError \/ OnClose \/ CloseTimer
  PROVE  FollowInv'
<1>1. CASE OnError \/ OnClose
  <2>1. /\ ConnShape(conn') /\ conn'.ws # "open"
        /\ conn'.subs = conn.subs /\ conn'.sent = conn.sent
        /\ conn'.serverSubs = conn.serverSubs
        /\ conn'.ws # "none" \/ conn'.reconnect
    <3>1. CASE OnError
      <4>1. conn' = [ws |-> "closing", status |-> "error", subs |-> conn.subs,
                     sent |-> conn.sent, serverSubs |-> conn.serverSubs,
                     reconnect |-> conn.reconnect, closeTimer |-> conn.closeTimer,
                     lastSeq |-> conn.lastSeq, everConnected |-> conn.everConnected,
                     declaredGrid |-> conn.declaredGrid]
        BY Zenon, <3>1 DEF OnError, FollowInv, ConnShape
      <4>2. /\ conn'.subs = conn.subs /\ conn'.sent = conn.sent
            /\ conn'.serverSubs = conn.serverSubs
        BY Zenon, <4>1
      <4>3. conn'.ws = "closing"
        BY Zenon, <4>1
      <4>4. ConnShape(conn')
        BY Zenon, <4>1 DEF ConnShape
      <4> QED
        BY Zenon, <4>2, <4>3, <4>4
    <3>2. CASE OnClose
      <4>1. conn' = [ws |-> "none", status |-> "disconnected", subs |-> conn.subs,
                     sent |-> conn.sent, serverSubs |-> conn.serverSubs,
                     reconnect |-> TRUE, closeTimer |-> conn.closeTimer,
                     lastSeq |-> conn.lastSeq, everConnected |-> conn.everConnected,
                     declaredGrid |-> conn.declaredGrid]
        BY Zenon, <3>2 DEF OnClose, FollowInv, ConnShape
      <4>2. /\ conn'.subs = conn.subs /\ conn'.sent = conn.sent
            /\ conn'.serverSubs = conn.serverSubs
        BY Zenon, <4>1
      <4>3. conn'.ws = "none" /\ conn'.reconnect = TRUE
        BY Zenon, <4>1
      <4>4. ConnShape(conn')
        BY Zenon, <4>1 DEF ConnShape
      <4> QED
        BY Zenon, <4>2, <4>3, <4>4
    <3> QED
      BY Zenon, <1>1, <3>1, <3>2
  <2>2. SrvInv'
    <3>1. srv' = Disconnected
      BY Zenon, <1>1 DEF OnError, OnClose
    <3> QED
      BY Zenon, <3>1 DEF Disconnected, SrvInv
  <2> QED
    BY Zenon, <2>1, <2>2, FollowStep
<1>2. CASE CloseTimer /\ Following(conn) # {}
  <2>1. /\ conn' = [ws |-> conn.ws, status |-> conn.status, subs |-> conn.subs,
                    sent |-> conn.sent, serverSubs |-> conn.serverSubs,
                    reconnect |-> conn.reconnect, closeTimer |-> FALSE,
                    lastSeq |-> conn.lastSeq, everConnected |-> conn.everConnected,
                    declaredGrid |-> conn.declaredGrid]
        /\ srv' = srv /\ chain' = chain
    BY Zenon, <1>2 DEF CloseTimer, FollowInv, ConnShape
  <2>2. SrvInv'
    BY Zenon, <2>1 DEF FollowInv, SrvInv
  <2> QED
    BY Zenon, <2>1, <2>2, FollowStep DEF ConnShape
<1>3. CASE CloseTimer /\ Following(conn) = {}
  <2>1. /\ conn' = [ws |-> "none", status |-> "disconnected", subs |-> conn.subs,
                    sent |-> conn.sent, serverSubs |-> conn.serverSubs,
                    reconnect |-> FALSE, closeTimer |-> FALSE,
                    lastSeq |-> conn.lastSeq, everConnected |-> conn.everConnected,
                    declaredGrid |-> conn.declaredGrid]
        /\ srv' = Disconnected
    BY Zenon, <1>3 DEF CloseTimer, FollowInv, ConnShape
  <2>2. SrvInv'
    BY Zenon, <2>1 DEF Disconnected, SrvInv
  <2> QED
    BY Zenon, <1>3, <2>1, <2>2, FollowStep DEF ConnShape
<1> QED
  BY <1>1, <1>2, <1>3

(* The steps that touch no part of the registry but its baselines.         *)
LEMMA OtherKeeps ==
  ASSUME FollowInv,
         \/ OnSupersededClose \/ LeaveGrid \/ Restore \/ OnFrame \/ OnPing \/ Apply \/ Ping
         \/ \E m \in Markets : Publish(m) \/ ServeRead(m)
         \/ UNCHANGED socketVars
  PROVE  FollowInv'
<1>1. chain' = chain
  BY Zenon DEF OnSupersededClose, LeaveGrid, Restore, OnFrame, OnPing, Apply, Ping, Publish, ServeRead,
         socketVars
<1>2. \/ conn' = conn
      \/ \E f : conn' = [conn EXCEPT !.lastSeq = f]
      \/ \E m, n : conn' = [conn EXCEPT !.lastSeq[m] = n]
  <2>1. CASE OnFrame
    BY Zenon, <2>1 DEF OnFrame
  <2>2. CASE OnPing
    BY Zenon, <2>2 DEF OnPing
  <2> QED
    BY Zenon, <2>1, <2>2
       DEF OnSupersededClose, LeaveGrid, Restore, Apply, Ping, Publish, ServeRead, socketVars
<1>3. \E f : conn' = [ws |-> conn.ws, status |-> conn.status, subs |-> conn.subs,
                      sent |-> conn.sent, serverSubs |-> conn.serverSubs,
                      reconnect |-> conn.reconnect, closeTimer |-> conn.closeTimer,
                      lastSeq |-> f, everConnected |-> conn.everConnected,
                      declaredGrid |-> conn.declaredGrid]
  <2>1. CASE conn' = conn
    BY Zenon, <2>1 DEF FollowInv, ConnShape
  <2>2. CASE \E f : conn' = [conn EXCEPT !.lastSeq = f]
    BY Zenon, <2>2 DEF FollowInv, ConnShape
  <2>3. CASE \E m, n : conn' = [conn EXCEPT !.lastSeq[m] = n]
    BY Zenon, <2>3 DEF FollowInv, ConnShape
  <2> QED
    BY Zenon, <1>2, <2>1, <2>2, <2>3
<1>4. SrvInv' /\ srv'.asked = srv.asked
  <2>1. CASE Apply
    <3>1. srv' = [asked |-> srv.asked, subs |-> srv.asked, grid |-> srv.grid]
      BY Zenon, <2>1 DEF Apply, FollowInv, SrvInv
    <3> QED
      BY Zenon, <3>1 DEF FollowInv, SrvInv
  <2>2. CASE srv' = srv
    BY Zenon, <2>2 DEF FollowInv, SrvInv
  <2> QED
    BY Zenon, <2>1, <2>2
       DEF OnSupersededClose, LeaveGrid, Restore, OnFrame, OnPing, Ping, Publish, ServeRead,
           socketVars
<1>5. /\ ConnShape(conn') /\ conn'.ws = conn.ws /\ conn'.reconnect = conn.reconnect
      /\ conn'.subs = conn.subs /\ conn'.sent = conn.sent
      /\ conn'.serverSubs = conn.serverSubs
  BY <1>3 DEF ConnShape
<1> QED
  BY Zenon, <1>1, <1>4, <1>5, FollowStep

(* Every step of the market socket keeps its followers served.             *)
LEMMA FollowKeeps ==
  ASSUME FollowInv, [SocketNext]_socketVars
  PROVE  FollowInv'
<1>1. CASE ReconnectTimer \/ Online \/ OnVisible \/ \E rows \in {"rows", "empty"} : sendGrid(rows)
  <2>1. DialStep
    BY Zenon, <1>1, DialsOnly DEF FollowInv
  <2>2. /\ conn'.subs = conn.subs /\ conn'.sent = conn.sent
        /\ conn'.serverSubs = conn.serverSubs
    BY Zenon, <2>1 DEF DialStep, Registry
  <2>3. chain' = chain
    BY Zenon, <1>1 DEF ReconnectTimer, Online, OnVisible, sendGrid
  <2>4. srv' = srv \/ \E g : srv' = [asked |-> srv.asked, subs |-> srv.subs, grid |-> g]
    BY <1>1 DEF ReconnectTimer, Online, OnVisible, sendGrid, FollowInv, SrvInv
  <2>5. SrvInv' /\ srv'.asked = srv.asked
    BY <2>4 DEF FollowInv, SrvInv
  <2>6. \/ conn'.ws = conn.ws /\ conn'.reconnect = conn.reconnect
        \/ conn'.ws # "none" /\ (conn'.ws = "open" => conn.ws = "open")
    BY <2>1 DEF DialStep
  <2> QED
    BY Zenon, <2>1, <2>2, <2>3, <2>5, <2>6, FollowStep DEF DialStep
<1> QED
  BY Zenon, <1>1, OpenKeeps, DropKeeps, TeardownKeeps, SubscribeKeeps, UnsubscribeKeeps,
     WsSubscribeKeeps, OtherKeeps DEF SocketNext

(* Nothing is followed at first.                                           *)
LEMMA FollowStarts == SocketInit => FollowInv
<1> SUFFICES ASSUME SocketInit
             PROVE  FollowInv
  OBVIOUS
<1>1. /\ conn = [ws |-> "none", status |-> "disconnected", subs |-> [m \in Markets |-> {}],
                 sent |-> {}, serverSubs |-> {}, reconnect |-> FALSE, closeTimer |-> FALSE,
                 lastSeq |-> [m \in Markets |-> 0], everConnected |-> FALSE,
                 declaredGrid |-> FALSE]
      /\ srv = Disconnected
  BY Zenon DEF SocketInit
<1>2. Following(conn) = {}
  BY Zenon, <1>1 DEF Following
<1>3. SrvInv
  BY Zenon, <1>1 DEF SrvInv, Disconnected
<1>4. /\ conn.subs \in [Markets -> SUBSET Consumers] /\ conn.sent = {}
      /\ conn.serverSubs = {} /\ conn.ws = "none" /\ ConnShape(conn)
  BY Zenon, <1>1 DEF ConnShape
<1> QED
  BY Zenon, <1>2, <1>3, <1>4 DEF FollowInv, OpenSocketAskedForAll, NeverParkedWhileFollowed

-----------------------------------------------------------------------------
(* The market socket: what is lost *)

WireMsg ==
  [type : {"frame"}, market : Markets, seq : Nat]
    \cup [type : {"ping"}, seq : UNION {[M -> Nat] : M \in SUBSET Markets}]

(* A frame carries a number its market has reached and that is not lost.   *)
Stamped(f, reached, lost) ==
  f.type = "frame" => f.seq <= reached[f.market] /\ f.seq \notin lost[f.market]

(* What a lost frame may rely on: it was stamped, it is past a baseline    *)
(* the tab has, and it is not on the wire as well.                         *)
LossInv ==
  /\ conn.lastSeq \in [Markets -> Nat] /\ pubSeq \in [Markets -> Nat]
  /\ missed \in [Markets -> SUBSET Nat]
  /\ wire \in Seq(WireMsg)
  /\ \A i \in DOMAIN wire : Stamped(wire[i], pubSeq, missed)
  /\ \A m \in Markets : conn.lastSeq[m] <= pubSeq[m]
  /\ \A m \in Markets : conn.lastSeq[m] = 0 => missed[m] = {}
  /\ \A m \in Markets : \A s \in missed[m] : s <= pubSeq[m]
  /\ NoLossPassedOver

(* What the numbers on the wire and in the registry have to do with each   *)
(* other.                                                                  *)
LEMMA LeqTransitive ==
  ASSUME NEW a \in Nat, NEW b \in Nat, NEW c \in Nat, a <= b, b <= c
  PROVE  a <= c
OBVIOUS

(* checkForGap: a frame past a lost one is a gap.                          *)
LEMMA GapSeen ==
  ASSUME NEW prev \in Nat, NEW s \in Nat, NEW t \in Nat, prev # 0, t > prev, s > t
  PROVE  isGap(prev, s)
BY DEF isGap

(* The baseline never falls, reaches the frame, and passes none beyond it. *)
LEMMA BaselineMoves ==
  ASSUME NEW prev \in Nat, NEW s \in Nat
  PROVE  /\ baseline(prev, s) \in Nat
         /\ baseline(prev, s) = 0 => prev = 0
         /\ \A top \in Nat : prev <= top /\ s <= top => baseline(prev, s) <= top
         /\ \A t \in Nat : t > prev /\ ~(s > t) /\ t # s => t > baseline(prev, s)
BY DEF baseline

(* A message of the wire is of one of its two kinds.                       *)
LEMMA MessageTyped ==
  ASSUME wire \in Seq(WireMsg), NEW i \in DOMAIN wire
  PROVE  wire[i] \in WireMsg
OBVIOUS

(* A frame names a market and a number.                                    *)
LEMMA FrameTyped ==
  ASSUME NEW f \in WireMsg, f.type = "frame"
  PROVE  f.market \in Markets /\ f.seq \in Nat
BY Zenon DEF WireMsg

(* A step that takes messages off the wire and rereads nothing.            *)
LEMMA LossStep ==
  ASSUME LossInv, conn'.lastSeq = conn.lastSeq, UNCHANGED <<pubSeq, missed>>,
         refetch \subseteq refetch', wire' \in Seq(WireMsg),
         \A i \in DOMAIN wire' : \E j \in DOMAIN wire : wire'[i] = wire[j]
  PROVE  LossInv'
<1>1. \A i \in DOMAIN wire' : Stamped(wire'[i], pubSeq', missed')
  BY Zenon DEF LossInv
<1>2. NoLossPassedOver'
  BY Zenon DEF LossInv, NoLossPassedOver
<1> QED
  BY Zenon, <1>1, <1>2 DEF LossInv

(* What is left of the wire when its head is handled.                      *)
LEMMA TailOfWire ==
  ASSUME wire \in Seq(WireMsg), wire # <<>>, wire' = Tail(wire)
  PROVE  /\ Head(wire) \in WireMsg /\ 1 \in DOMAIN wire /\ Head(wire) = wire[1]
         /\ wire' \in Seq(WireMsg)
         /\ \A i \in DOMAIN wire' : \E j \in DOMAIN wire : wire'[i] = wire[j]
<1>1. \A i \in DOMAIN wire' : i + 1 \in DOMAIN wire /\ wire'[i] = wire[i + 1]
  OBVIOUS
<1> QED
  BY <1>1

(* A socket that goes takes its frames along: those past the baseline are  *)
(* lost, and the baseline stays below them.                                *)
LEMMA LoseWireKeeps ==
  ASSUME LossInv, conn'.lastSeq = conn.lastSeq, UNCHANGED pubSeq, refetch' = refetch,
         wire' = <<>>, missed' = LoseWire(conn)
  PROVE  LossInv'
<1>1. ASSUME NEW m \in Markets, NEW s \in missed'[m]
      PROVE  \/ s \in missed[m]
             \/ /\ conn.lastSeq[m] # 0 /\ s > conn.lastSeq[m]
                /\ \E i \in DOMAIN wire :
                     wire[i].type = "frame" /\ wire[i].market = m /\ wire[i].seq = s
  BY Zenon, <1>1 DEF LoseWire
<1>2. ASSUME NEW i \in DOMAIN wire, wire[i].type = "frame"
      PROVE  /\ wire[i].market \in Markets /\ wire[i].seq \in Nat
             /\ wire[i].seq <= pubSeq[wire[i].market]
  <2>1. wire[i] \in WireMsg /\ Stamped(wire[i], pubSeq, missed)
    BY Zenon, MessageTyped DEF LossInv
  <2> QED
    BY Zenon, <1>2, <2>1, FrameTyped DEF Stamped
<1>3. missed' = [m \in Markets |-> missed'[m]]
  BY Zenon DEF LoseWire
<1>4. ASSUME NEW m \in Markets, NEW s \in missed'[m]
      PROVE  s \in Nat /\ s <= pubSeq[m]
  <2>1. CASE s \in missed[m]
    BY Zenon, <2>1 DEF LossInv
  <2>2. CASE \E i \in DOMAIN wire :
               wire[i].type = "frame" /\ wire[i].market = m /\ wire[i].seq = s
    BY Zenon, <1>2, <2>2
  <2>3. s \in missed[m] \/ \E i \in DOMAIN wire :
               wire[i].type = "frame" /\ wire[i].market = m /\ wire[i].seq = s
    BY <1>1, <1>4
  <2> QED
    BY Zenon, <2>1, <2>2, <2>3
<1>5. missed' \in [Markets -> SUBSET Nat]
  BY Zenon, <1>3, <1>4
<1>6. \A m \in Markets : conn.lastSeq[m] = 0 => missed'[m] = {}
  BY Zenon, <1>1 DEF LossInv
<1>8. \A m \in Markets : \A s \in missed'[m] : s > conn.lastSeq[m] \/ m \in refetch
  BY Zenon, <1>1 DEF LossInv, NoLossPassedOver
<1>9. wire' \in Seq(WireMsg) /\ DOMAIN wire' = {}
  OBVIOUS
<1>10. NoLossPassedOver'
  BY Zenon, <1>8 DEF NoLossPassedOver
<1> QED
  BY Zenon, <1>4, <1>5, <1>6, <1>9, <1>10 DEF LossInv

(* A market that is reread, or left together with its baseline, owes       *)
(* nothing more.                                                           *)
LEMMA ClearedKeeps ==
  ASSUME LossInv, NEW m \in Markets,
         missed' = [missed EXCEPT ![m] = {}],
         \/ conn'.lastSeq = conn.lastSeq
         \/ conn'.lastSeq = [conn.lastSeq EXCEPT ![m] = 0],
         \A n \in Markets \ {m} : n \in refetch => n \in refetch',
         UNCHANGED <<pubSeq, wire>>
  PROVE  LossInv'
<1>1. /\ missed' \in [Markets -> SUBSET Nat] /\ missed'[m] = {}
      /\ \A n \in Markets : n # m => missed'[n] = missed[n]
  BY Zenon DEF LossInv
<1>2. /\ conn'.lastSeq \in [Markets -> Nat]
      /\ \A n \in Markets : n # m => conn'.lastSeq[n] = conn.lastSeq[n]
  <2>1. CASE conn'.lastSeq = conn.lastSeq
    BY Zenon, <2>1 DEF LossInv
  <2>2. CASE conn'.lastSeq = [conn.lastSeq EXCEPT ![m] = 0]
    <3>1. 0 \in Nat
      OBVIOUS
    <3> QED
      BY Zenon, <2>2, <3>1 DEF LossInv
  <2> QED
    BY Zenon, <2>1, <2>2
<1>3. \A n \in Markets : missed'[n] \subseteq missed[n]
  BY Zenon, <1>1
<1>5. ASSUME NEW i \in DOMAIN wire
      PROVE  Stamped(wire[i], pubSeq, missed')
  <2>1. wire[i] \in WireMsg /\ Stamped(wire[i], pubSeq, missed)
    BY Zenon, MessageTyped DEF LossInv
  <2> QED
    BY Zenon, <1>3, <2>1, FrameTyped DEF Stamped
<1>6. NoLossPassedOver'
  BY Zenon, <1>1, <1>2 DEF LossInv, NoLossPassedOver
<1>7. \A n \in Markets : conn'.lastSeq[n] = 0 => missed'[n] = {}
  BY Zenon, <1>1, <1>2 DEF LossInv
<1>8. \A n \in Markets : \A s \in missed'[n] : s <= pubSeq[n]
  BY Zenon, <1>3 DEF LossInv
<1>9. \A n \in Markets : conn'.lastSeq[n] <= pubSeq[n]
  <2>1. \A n \in Markets : conn.lastSeq[n] <= pubSeq[n] /\ pubSeq[n] \in Nat
    BY Zenon DEF LossInv
  <2>2. conn'.lastSeq[m] = conn.lastSeq[m] \/ conn'.lastSeq[m] = 0
    BY Zenon DEF LossInv
  <2> QED
    BY <1>2, <2>1, <2>2
<1> QED
  BY Zenon, <1>1, <1>2, <1>5, <1>6, <1>7, <1>8, <1>9 DEF LossInv

(* checkForGap: a frame that passes a lost one asks for a reread.          *)
LEMMA FrameKeeps ==
  ASSUME LossInv, ConnShape(conn), OnFrame
  PROVE  LossInv'
<1> DEFINE m == Head(wire).market
           s == Head(wire).seq
<1>1. /\ wire # <<>> /\ wire' = Tail(wire) /\ wire \in Seq(WireMsg)
      /\ UNCHANGED <<pubSeq, missed>>
  BY Zenon DEF OnFrame, LossInv
<1>2. /\ m \in Markets /\ s \in Nat /\ s \notin missed[m] /\ s <= pubSeq[m]
  <2>1. Head(wire) \in WireMsg /\ Head(wire).type = "frame" /\ Head(wire) = wire[1]
        /\ 1 \in DOMAIN wire
    BY Zenon, <1>1, TailOfWire DEF OnFrame
  <2>2. Stamped(Head(wire), pubSeq, missed)
    BY Zenon, <2>1 DEF LossInv
  <2> QED
    BY Zenon, <2>1, <2>2, FrameTyped DEF Stamped
<1>3. CASE conn.subs[m] = {}
  <2>1. conn' = conn /\ refetch' = refetch
    BY <1>3 DEF OnFrame
  <2> QED
    BY Zenon, <1>1, <2>1, LossStep, TailOfWire
<1>4. CASE conn.subs[m] # {}
  <2>1. /\ conn'.lastSeq = [conn.lastSeq EXCEPT ![m] = baseline(conn.lastSeq[m], s)]
        /\ refetch' = refetch \cup IF isGap(conn.lastSeq[m], s) THEN {m} ELSE {}
    BY Zenon, <1>2, <1>4 DEF OnFrame, ConnShape
  <2> HIDE DEF m, s
  <2>2. /\ conn'.lastSeq \in [Markets -> Nat]
        /\ \A n \in Markets : n # m => conn'.lastSeq[n] = conn.lastSeq[n]
        /\ conn'.lastSeq[m] = baseline(conn.lastSeq[m], s) /\ conn.lastSeq[m] \in Nat
    BY Zenon, <1>2, <2>1 DEF baseline, LossInv
  <2>3. ASSUME NEW n \in Markets, NEW t \in missed[n]
        PROVE  t > conn'.lastSeq[n] \/ n \in refetch'
    <3>1. t > conn.lastSeq[n] \/ n \in refetch
      BY Zenon DEF LossInv, NoLossPassedOver
    <3>2. t \in Nat /\ conn.lastSeq[n] # 0 /\ conn.lastSeq[n] \in Nat
      BY Zenon DEF LossInv
    <3>3. CASE n = m
      <4>1. CASE n \in refetch
        BY Zenon, <2>1, <4>1
      <4>2. CASE t > conn.lastSeq[m] /\ s > t
        <5>1. isGap(conn.lastSeq[m], s)
          BY Zenon, <1>2, <3>2, <3>3, <4>2, GapSeen
        <5> QED
          BY Zenon, <2>1, <3>3, <5>1
      <4>3. CASE t > conn.lastSeq[m] /\ ~(s > t)
        <5>1. t # s
          BY Zenon, <1>2, <3>3
        <5>2. t > baseline(conn.lastSeq[m], s)
          BY Zenon, <1>2, <2>2, <3>2, <4>3, <5>1, BaselineMoves
        <5> QED
          BY Zenon, <2>2, <3>3, <5>2
      <4> QED
        BY Zenon, <3>1, <3>3, <4>1, <4>2, <4>3
    <3>4. CASE n # m
      BY Zenon, <2>1, <2>2, <3>1, <3>4
    <3> QED
      BY Zenon, <3>3, <3>4
  <2>4. \A n \in Markets : conn'.lastSeq[n] = 0 => missed[n] = {}
    <3>1. \A n \in Markets : conn.lastSeq[n] = 0 => missed[n] = {}
      BY Zenon DEF LossInv
    <3>2. conn'.lastSeq[m] = 0 => conn.lastSeq[m] = 0
      BY Zenon, <1>2, <2>2, BaselineMoves
    <3> QED
      BY Zenon, <2>2, <3>1, <3>2
  <2>5. /\ wire' \in Seq(WireMsg)
        /\ \A i \in DOMAIN wire' : \E j \in DOMAIN wire : wire'[i] = wire[j]
    BY Zenon, <1>1, TailOfWire
  <2>6. \A i \in DOMAIN wire' : Stamped(wire'[i], pubSeq, missed)
    BY Zenon, <2>5 DEF LossInv
  <2>7. \A n \in Markets : conn'.lastSeq[n] <= pubSeq[n]
    <3>1. \A n \in Markets : conn.lastSeq[n] <= pubSeq[n]
      BY Zenon DEF LossInv
    <3>2. conn'.lastSeq[m] <= pubSeq[m]
      BY Zenon, <1>2, <2>2, <3>1, BaselineMoves DEF LossInv
    <3> QED
      BY Zenon, <2>2, <3>1, <3>2
  <2> QED
    BY Zenon, <1>1, <2>2, <2>3, <2>4, <2>5, <2>6, <2>7 DEF LossInv, NoLossPassedOver
<1> QED
  BY Zenon, <1>3, <1>4

(* A published frame is on the wire or missed, never both.                 *)
LEMMA PublishKeeps ==
  ASSUME LossInv, NEW m \in Markets, Publish(m)
  PROVE  LossInv'
<1> DEFINE s == pubSeq[m] + 1
           f == [type |-> "frame", market |-> m, seq |-> s]
<1>1. /\ pubSeq[m] \in Nat /\ s \in Nat /\ pubSeq' = [pubSeq EXCEPT ![m] = s]
      /\ conn' = conn /\ refetch' = refetch
  <2>1. pubSeq[m] \in Nat
    BY Zenon DEF LossInv
  <2>2. pubSeq' = [pubSeq EXCEPT ![m] = s] /\ conn' = conn /\ refetch' = refetch
    BY Zenon DEF Publish
  <2> QED
    BY <2>1, <2>2
<1> HIDE DEF s
<1>2. /\ pubSeq' \in [Markets -> Nat] /\ pubSeq'[m] = s
      /\ \A n \in Markets : n # m => pubSeq'[n] = pubSeq[n]
  BY Zenon, <1>1 DEF LossInv
<1>3. pubSeq[m] <= s /\ s <= s /\ ~(s <= pubSeq[m])
  BY <1>1 DEF s
<1>4. \A n \in Markets : \A t \in Nat : t <= pubSeq[n] => t <= pubSeq'[n]
  BY Zenon, <1>1, <1>2, <1>3, LeqTransitive
<1>5. /\ \A n \in Markets : conn.lastSeq[n] \in Nat /\ conn.lastSeq[n] <= pubSeq'[n]
      /\ \A n \in Markets : \A t \in missed[n] : t \in Nat /\ t <= pubSeq'[n]
  BY Zenon, <1>4 DEF LossInv
<1>6. s > conn.lastSeq[m] /\ s \notin missed[m]
  <2>1. conn.lastSeq[m] \in Nat /\ conn.lastSeq[m] <= pubSeq[m]
    BY Zenon DEF LossInv
  <2>2. s > conn.lastSeq[m]
    BY <1>1, <2>1 DEF s
  <2> QED
    BY Zenon, <1>3, <2>2 DEF LossInv
<1>7. ASSUME NEW i \in DOMAIN wire
      PROVE  /\ Stamped(wire[i], pubSeq', missed)
             /\ wire[i].type = "frame" /\ wire[i].market = m => wire[i].seq # s
             /\ wire[i].type = "frame" => wire[i].market \in Markets
  <2>1. wire[i] \in WireMsg /\ Stamped(wire[i], pubSeq, missed)
    BY Zenon, MessageTyped DEF LossInv
  <2> QED
    BY Zenon, <1>3, <1>4, <2>1, FrameTyped DEF Stamped
<1>8. CASE wire' = Append(wire, f) /\ missed' = missed
  <2>1. wire \in Seq(WireMsg) /\ f \in WireMsg
    BY Zenon, <1>1 DEF LossInv, WireMsg
  <2>2. Stamped(f, pubSeq', missed)
    BY Zenon, <1>2, <1>3, <1>6 DEF Stamped
  <2> HIDE DEF f
  <2>3. /\ wire' \in Seq(WireMsg)
        /\ \A i \in DOMAIN wire' : wire'[i] = f \/ (i \in DOMAIN wire /\ wire'[i] = wire[i])
    BY <1>8, <2>1
  <2>4. \A i \in DOMAIN wire' : Stamped(wire'[i], pubSeq', missed)
    BY Zenon, <1>7, <2>2, <2>3
  <2>5. NoLossPassedOver'
    BY Zenon, <1>1, <1>8 DEF LossInv, NoLossPassedOver
  <2> QED
    BY Zenon, <1>1, <1>2, <1>5, <1>8, <2>3, <2>4, <2>5 DEF LossInv
<1>9. CASE /\ missed' = [missed EXCEPT ![m] = IF conn.lastSeq[m] # 0 THEN @ \cup {s} ELSE @]
           /\ wire' = wire
  <2>1. CASE conn.lastSeq[m] = 0
    <3>1. missed' = missed
      BY Zenon, <1>9, <2>1 DEF LossInv
    <3>2. NoLossPassedOver'
      BY Zenon, <1>1, <3>1 DEF LossInv, NoLossPassedOver
    <3> QED
      BY Zenon, <1>1, <1>2, <1>5, <1>7, <1>9, <3>1, <3>2 DEF LossInv
  <2>2. CASE conn.lastSeq[m] # 0
    <3>1. /\ missed' \in [Markets -> SUBSET Nat] /\ missed'[m] = missed[m] \cup {s}
          /\ \A n \in Markets : n # m => missed'[n] = missed[n]
      BY Zenon, <1>1, <1>9, <2>2 DEF LossInv
    <3>2. \A i \in DOMAIN wire : Stamped(wire[i], pubSeq', missed')
      BY Zenon, <1>7, <3>1 DEF Stamped
    <3>3. \A n \in Markets : \A t \in missed'[n] : t <= pubSeq'[n]
      BY Zenon, <1>2, <1>3, <1>5, <3>1
    <3>4. \A n \in Markets : conn.lastSeq[n] = 0 => missed'[n] = {}
      BY Zenon, <2>2, <3>1 DEF LossInv
    <3>5. NoLossPassedOver'
      <4>1. ASSUME NEW n \in Markets, NEW t \in missed'[n]
            PROVE  t > conn.lastSeq[n] \/ n \in refetch
        <5>1. CASE t \in missed[n]
          BY Zenon, <5>1 DEF LossInv, NoLossPassedOver
        <5> QED
          BY Zenon, <1>6, <3>1, <5>1
      <4> QED
        BY Zenon, <1>1, <4>1 DEF NoLossPassedOver
    <3> QED
      BY Zenon, <1>1, <1>2, <1>5, <1>9, <3>1, <3>2, <3>3, <3>4, <3>5 DEF LossInv
  <2> QED
    BY Zenon, <2>1, <2>2
<1> QED
  BY Zenon, <1>8, <1>9 DEF Publish, s

(* A heartbeat on the wire, or handled: it names no field the client reads.*)
LEMMA PingKeeps ==
  ASSUME LossInv, SrvInv, Ping \/ OnPing
  PROVE  LossInv'
<1>1. CASE Ping
  <2> DEFINE p == [type |-> "ping", seq |-> [m \in srv.subs |-> pubSeq[m]]]
  <2>1. /\ wire' = Append(wire, p) /\ wire \in Seq(WireMsg)
        /\ UNCHANGED <<conn, pubSeq, missed, refetch>>
    BY Zenon, <1>1 DEF Ping, LossInv
  <2>2. [m \in srv.subs |-> pubSeq[m]] \in UNION {[M -> Nat] : M \in SUBSET Markets}
    <3>1. [m \in srv.subs |-> pubSeq[m]] \in [srv.subs -> Nat]
      BY Zenon DEF LossInv, SrvInv
    <3> QED
      BY Zenon, <3>1 DEF SrvInv
  <2>3. p \in WireMsg /\ p.type # "frame"
    BY Zenon, <2>2 DEF WireMsg
  <2> HIDE DEF p
  <2>4. /\ wire' \in Seq(WireMsg)
        /\ \A i \in DOMAIN wire' : wire'[i] = p \/ (i \in DOMAIN wire /\ wire'[i] = wire[i])
    BY <2>1, <2>3
  <2>5. \A i \in DOMAIN wire' : Stamped(wire'[i], pubSeq, missed)
    BY Zenon, <2>3, <2>4 DEF LossInv, Stamped
  <2>6. NoLossPassedOver'
    BY Zenon, <2>1 DEF LossInv, NoLossPassedOver
  <2> QED
    BY Zenon, <2>1, <2>4, <2>5, <2>6 DEF LossInv
<1>2. CASE OnPing
  <2>1. /\ wire # <<>> /\ wire' = Tail(wire) /\ wire \in Seq(WireMsg)
        /\ UNCHANGED <<pubSeq, missed>>
    BY Zenon, <1>2 DEF OnPing, LossInv
  <2>2. Head(wire) \in WireMsg /\ Head(wire).type = "ping"
    BY Zenon, <1>2, <2>1, TailOfWire DEF OnPing
  <2>3. DOMAIN Head(wire) = {"type", "seq"}
    BY Zenon, <2>2 DEF WireMsg
  <2>4. UNCHANGED <<conn, refetch>>
    BY Zenon, <1>2, <2>3 DEF OnPing
  <2> QED
    BY Zenon, <2>1, <2>4, TailOfWire, LossStep
<1> QED
  BY Zenon, <1>1, <1>2

(* No step of the market socket steps over a loss in silence.              *)
LEMMA LossKeeps ==
  ASSUME LossInv, FollowInv, [SocketNext]_socketVars
  PROVE  LossInv'
<1>1. CASE ReconnectTimer \/ Online \/ OnVisible \/ \E rows \in {"rows", "empty"} : sendGrid(rows)
  <2>1. conn'.lastSeq = conn.lastSeq
    BY Zenon, <1>1, DialsOnly DEF DialStep, Registry, FollowInv
  <2>2. UNCHANGED <<pubSeq, missed, wire>> /\ refetch \subseteq refetch'
    BY Zenon, <1>1 DEF ReconnectTimer, Online, OnVisible, sendGrid
  <2> QED
    BY Zenon, <2>1, <2>2, LossStep DEF LossInv
<1>2. CASE OnOpen \/ CloseTimer \/ \E m \in Markets : wsSubscribe(m)
  <2>1. conn'.lastSeq = conn.lastSeq
    BY Zenon, <1>2 DEF OnOpen, CloseTimer, wsSubscribe, FollowInv, ConnShape
  <2>2. UNCHANGED <<pubSeq, missed>> /\ (wire' = wire \/ wire' = <<>>) /\ refetch \subseteq refetch'
    BY Zenon, <1>2 DEF OnOpen, CloseTimer, wsSubscribe
  <2>3. /\ wire' \in Seq(WireMsg)
        /\ \A i \in DOMAIN wire' : \E j \in DOMAIN wire : wire'[i] = wire[j]
    <3>1. CASE wire' = wire
      BY Zenon, <3>1 DEF LossInv
    <3>2. CASE wire' = <<>>
      BY <3>2
    <3> QED
      BY Zenon, <2>2, <3>1, <3>2
  <2> QED
    BY Zenon, <2>1, <2>2, <2>3, LossStep
<1>3. CASE OnError \/ OnClose
  <2>1. conn'.lastSeq = conn.lastSeq
    BY Zenon, <1>3 DEF OnError, OnClose, FollowInv, ConnShape
  <2>2. /\ UNCHANGED pubSeq /\ refetch' = refetch /\ wire' = <<>>
        /\ missed' = LoseWire(conn)
    BY <1>3 DEF OnError, OnClose
  <2> QED
    BY Zenon, <2>1, <2>2, LoseWireKeeps
<1>4. CASE \/ OnSupersededClose \/ LeaveGrid \/ Restore \/ Apply \/ UNCHANGED socketVars
  <2>1. UNCHANGED <<conn, pubSeq, missed, wire, refetch>>
    BY Zenon, <1>4 DEF OnSupersededClose, LeaveGrid, Restore, Apply, socketVars
  <2> QED
    BY Zenon, <2>1, LossStep DEF LossInv
<1>5. ASSUME NEW x \in Consumers, Subscribe(x)
      PROVE  LossInv'
  <2>1. PICK k : /\ k = [conn EXCEPT !.subs[MarketOf[x]] = @ \cup {x},
                           !.sent = IF conn.subs[MarketOf[x]] = {} THEN @ \ {MarketOf[x]} ELSE @]
                 /\ conn' = connect(k)
    BY Zenon, <1>5 DEF Subscribe
  <2>2. ConnShape(k) /\ k.lastSeq = conn.lastSeq
    BY Zenon, <2>1 DEF FollowInv, ConnShape
  <2>3. conn'.lastSeq = conn.lastSeq
    <3>1. Registry(conn') = Registry(k)
      BY Zenon, <2>1, <2>2, ConnectServes
    <3> QED
      BY Zenon, <2>2, <3>1 DEF Registry
  <2>4. UNCHANGED <<pubSeq, missed, wire>> /\ refetch \subseteq refetch'
    BY Zenon, <1>5 DEF Subscribe
  <2> QED
    BY Zenon, <2>3, <2>4, LossStep DEF LossInv
<1>6. ASSUME NEW x \in Consumers, Unsubscribe(x)
      PROVE  LossInv'
  <2>1. UNCHANGED <<pubSeq, wire, refetch>> /\ MarketOf[x] \in Markets
    BY Zenon, <1>6, SocketAssumption DEF Unsubscribe
  <2>2. \/ conn'.lastSeq = conn.lastSeq /\ missed' = missed
        \/ /\ conn'.lastSeq = [conn.lastSeq EXCEPT ![MarketOf[x]] = 0]
           /\ missed' = [missed EXCEPT ![MarketOf[x]] = {}]
    BY Zenon, <1>6, <2>1 DEF Unsubscribe, FollowInv, ConnShape
  <2>3. CASE conn'.lastSeq = conn.lastSeq /\ missed' = missed
    BY Zenon, <2>1, <2>3, LossStep DEF LossInv
  <2> QED
    BY Zenon, <2>1, <2>2, <2>3, ClearedKeeps
<1>7. CASE Teardown
  <2>1. /\ conn'.lastSeq = [m \in Markets |-> 0] /\ missed' = [m \in Markets |-> {}]
        /\ wire' = <<>> /\ UNCHANGED <<pubSeq, refetch>>
    BY Zenon, <1>7 DEF Teardown, FollowInv, ConnShape
  <2>2. \A m \in Markets : conn'.lastSeq[m] = 0 /\ missed'[m] = {}
    BY Zenon, <2>1
  <2>3. wire' \in Seq(WireMsg) /\ DOMAIN wire' = {}
    BY <2>1
  <2>4. 0 \in Nat /\ \A k \in Nat : 0 <= k
    OBVIOUS
  <2>5. conn'.lastSeq \in [Markets -> Nat] /\ missed' \in [Markets -> SUBSET Nat]
    BY Zenon, <2>1, <2>4
  <2>6. \A m \in Markets : conn'.lastSeq[m] <= pubSeq[m]
    BY Zenon, <2>2, <2>4 DEF LossInv
  <2>7. NoLossPassedOver'
    BY Zenon, <2>2 DEF NoLossPassedOver
  <2> QED
    BY Zenon, <2>1, <2>2, <2>3, <2>5, <2>6, <2>7 DEF LossInv
<1>8. ASSUME NEW m \in Markets, ServeRead(m)
      PROVE  LossInv'
  <2>1. /\ UNCHANGED <<conn, pubSeq, wire>> /\ missed' = [missed EXCEPT ![m] = {}]
        /\ refetch' = refetch \ {m}
    BY Zenon, <1>8 DEF ServeRead
  <2> QED
    BY Zenon, <2>1, ClearedKeeps
<1> QED
  BY Zenon, <1>1, <1>2, <1>3, <1>4, <1>5, <1>6, <1>7, <1>8, FrameKeeps, PingKeeps, PublishKeeps
     DEF SocketNext, FollowInv

(* Nothing is lost at first.                                               *)
LEMMA LossStarts == SocketInit => LossInv
<1> SUFFICES ASSUME SocketInit
             PROVE  LossInv
  OBVIOUS
<1>1. /\ conn.lastSeq = [m \in Markets |-> 0] /\ pubSeq = [m \in Markets |-> 0]
      /\ wire = <<>> /\ missed = [m \in Markets |-> {}]
  BY Zenon DEF SocketInit
<1>2. wire \in Seq(WireMsg) /\ DOMAIN wire = {} /\ 0 \in Nat /\ 0 <= 0
  BY <1>1
<1>3. \A m \in Markets : conn.lastSeq[m] = 0 /\ pubSeq[m] = 0 /\ missed[m] = {}
  BY Zenon, <1>1
<1>4. /\ conn.lastSeq \in [Markets -> Nat] /\ pubSeq \in [Markets -> Nat]
      /\ missed \in [Markets -> SUBSET Nat]
  BY Zenon, <1>1, <1>2
<1>5. NoLossPassedOver
  BY Zenon, <1>3 DEF NoLossPassedOver
<1> QED
  BY Zenon, <1>2, <1>3, <1>4, <1>5 DEF LossInv

-----------------------------------------------------------------------------
(* The theorems *)

(* However presses, retries, timeouts and late answers interleave, the     *)
(* estimate on screen is for the inputs on screen, a press of the order    *)
(* form writes at most one order, a guarded money form has one call under  *)
(* way, and a success that is told has moved the money.  (useTradeQuote,   *)
(* fetchWithRetry, client_order_id, the isPending guards)                  *)
THEOREM OrdersShown == TicketSpec /\ MoneySpec => []OrdersAsShown
<1>1. TicketSpec => [](QuotePaired /\ OneKey)
  <2>1. TicketInit => QuotePaired /\ OneKey
    BY Zenon, TicketStarts
  <2>2. (QuotePaired /\ OneKey) /\ [TicketNext]_ticketVars => (QuotePaired /\ OneKey)'
    BY Zenon, TicketInvariant
  <2> QED
    BY <2>1, <2>2, PTL DEF TicketSpec
<1>2. MoneySpec => []MoneyInv
  <2>1. MoneyInit => MoneyInv
    BY Zenon, MoneyStarts
  <2>2. MoneyInv /\ [MoneyNext]_moneyVars => MoneyInv'
    BY Zenon, MoneyInvariant
  <2> QED
    BY <2>1, <2>2, PTL DEF MoneySpec
<1>3. (QuotePaired /\ OneKey) /\ MoneyInv => OrdersAsShown
  BY Zenon, TicketSafe, MoneySafe DEF OrdersAsShown
<1> QED
  BY <1>1, <1>2, <1>3, PTL

(* Whoever follows a market, the private channel or the tape has a socket  *)
(* or a way back to one, has been subscribed for on it and is told its     *)
(* status, for every number of markets, consumers, subscribers and faults. *)
(* (wsSubscribe, acquire, connect and their onclose)                       *)
THEOREM FollowersAreServed == SocketSpec /\ UserSpec /\ TapeSpec => []FollowersServed
<1>1. SocketSpec => []FollowInv
  <2>1. FollowInv /\ [SocketNext]_socketVars => FollowInv'
    BY Zenon, FollowKeeps
  <2> QED
    BY <2>1, FollowStarts, PTL DEF SocketSpec
<1>2. UserSpec => []UserInv
  <2>1. UserInv /\ [UserNext]_userVars => UserInv'
    BY Zenon, UserKeeps
  <2> QED
    BY <2>1, UserStarts, PTL DEF UserSpec
<1>3. TapeSpec => []TapeInv
  <2>1. TapeInit => TapeInv
    BY Zenon, TapeStarts
  <2>2. TapeInv /\ [TapeNext]_tapeVars => TapeInv'
    BY Zenon, TapeKeeps
  <2> QED
    BY <2>1, <2>2, PTL DEF TapeSpec
<1>4. FollowInv /\ UserInv /\ TapeInv => FollowersServed
  BY Zenon DEF FollowInv, UserInv, TapeInv, FollowersServed
<1> QED
  BY <1>1, <1>2, <1>3, <1>4, PTL

(* A frame lost past the baseline is never stepped over in silence: the    *)
(* baseline is still below it, or a reread has been asked for.             *)
(* (checkForGap, the resync in onopen and the teardown of the registry)    *)
THEOREM LossesSeen == SocketSpec => []NoLossPassedOver
<1>1. FollowInv /\ LossInv /\ [SocketNext]_socketVars => FollowInv' /\ LossInv'
  BY Zenon, FollowKeeps, LossKeeps
<1>2. LossInv => NoLossPassedOver
  BY Zenon DEF LossInv
<1> QED
  BY <1>1, <1>2, FollowStarts, LossStarts, PTL DEF SocketSpec

(* The tape never lists a trade twice, through redelivery, resync and the  *)
(* button.  (seenIds and the check in setWsTrades)                         *)
THEOREM TapeListsOnce == TapeSpec => []TapeRowsDistinct
<1>1. TapeInit => RowsInv
  BY Zenon, TapeStarts
<1>2. RowsInv /\ [TapeNext]_tapeVars => RowsInv'
  BY Zenon, RowsKeep
<1>3. RowsInv => TapeRowsDistinct
  BY Zenon DEF RowsInv
<1> QED
  BY <1>1, <1>2, <1>3, PTL DEF TapeSpec

=============================================================================
