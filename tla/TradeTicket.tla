---------------------------- MODULE TradeTicket ----------------------------
(***************************************************************************)
(* The order form (apps/web/components/markets/trade-form.tsx), the        *)
(* request it makes (hooks/api/use-orders.ts, the retries of api-client)   *)
(* and the server's idempotency check.  The form keeps an estimate that is *)
(* fetched 300 ms after the last keystroke; answers arrive in any order.   *)
(* Abstracted: prices (a quote carries the inputs and the book it was      *)
(* computed from); a total is its amount, to be compared with Funds; error *)
(* wording.  External: the order service, by what the form relies on.      *)
(***************************************************************************)
EXTENDS MoneyForms, Naturals, FiniteSets

CONSTANTS
  Names,        \* the lower-cased outcome names of the market
  FirstName,    \* outcomes[0].name
  Amounts,      \* what may be typed; zero is an empty field
  Funds,        \* wallet.available_balance
  MaxEdits, MaxQuotes, MaxBook, MaxPresses, MaxOrderRetries, MaxFailures

ASSUME TicketAssumption == FirstName \in Names /\ 0 \in Amounts

VARIABLES
  ticket,     \* useState and useForm: what is shown and what will be sent
  quote,      \* the estimate, <<>> or one record of the inputs and book it is for
  quoteMeta,  \* the inputs it was asked for, <<>> or one record
  debounce,   \* quoteDebounceRef holds a live timer
  asked,      \* getQuote calls under way, each with the inputs of its closure
  book,       \* marketVersion: book frames seen by the page
  marketOpen, \* marketStatus # "resolved"
  pressed,    \* the payloads submitted so far, one per press of the button
  posts,      \* the mutation: is it pending, attempts left, copies on their way
  accepted,   \* external: the order rows, each with the copy that wrote it
  confirmed,  \* presses answered with a 200
  edits, quotes, failures

ticketVars == <<ticket, quote, quoteMeta, debounce, asked, book, marketOpen,
                pressed, posts, accepted, confirmed, edits, quotes, failures>>

(* Parimutuel is decided by the names; a binary market starts on "yes".    *)
isMultiOutcome == ~({"yes", "no"} \subseteq Names)

(* The params the effect, the meta and the request are made of. *)
inputs(t) == [outcome |-> t.outcome, side |-> t.side, amount |-> t.amount]

quoteMatchesInputs(t, q, m) == q # <<>> /\ m # <<>> /\ m[1] = inputs(t)

quoteVisible == ticket.type = "market" /\ quoteMatchesInputs(ticket, quote, quoteMeta)

hasInsufficientBalance == ticket.side = "buy" /\ ticket.amount > Funds

isSubmitting == posts.pending

(* Mutant: an estimate that expired does not run the effect again. *)
EffectOnEdit(t, q, m, v) ==
  IF <<inputs(t), t.type, v>> # <<inputs(ticket), ticket.type, book>>
  THEN t.amount > 0 /\ t.type = "market" /\ ~quoteMatchesInputs(t, q, m) ELSE debounce

(* The fetch effect runs when one of its dependencies changed: it clears   *)
(* the timer and, for a market order no estimate covers, sets a new one.   *)
Effect(t, q, m, v) ==
  LET deps(u, b)  == <<inputs(u), u.type, b>>
      matched     == quoteMatchesInputs(ticket, quote, quoteMeta)
      matches     == quoteMatchesInputs(t, q, m)
      ran         == deps(t, v) # deps(ticket, book) \/ matched # matches
  IN IF ran THEN t.amount > 0 /\ t.type = "market" /\ ~matches ELSE debounce

Render(t, q, m, v) ==
  /\ ticket' = t /\ quote' = q /\ quoteMeta' = m /\ book' = v
  /\ debounce' = Effect(t, q, m, v)

Edit(t) ==
  /\ edits < MaxEdits /\ edits' = edits + 1
  /\ ticket # t /\ Render(t, quote, quoteMeta, book)
  /\ UNCHANGED <<asked, marketOpen, pressed, posts, accepted, confirmed, quotes, failures>>

handleOutcomeClick(n) == Edit([ticket EXCEPT !.outcome = n, !.field = n])

handleSideClick(s) == Edit([ticket EXCEPT !.side = s])

typeAmount(a) == Edit([ticket EXCEPT !.amount = a])

handleOrderTypeChange(v) ==
  Edit([ticket EXCEPT !.type = v, !.postOnly = @ /\ v = "limit"])

checkPostOnly(b) == ticket.type = "limit" /\ Edit([ticket EXCEPT !.postOnly = b])

(* The debounce fires with the inputs its effect closed over. *)
fetchQuote ==
  /\ debounce /\ debounce' = FALSE
  /\ quotes < MaxQuotes /\ quotes' = quotes + 1
  /\ asked' = asked \cup {<<quotes, inputs(ticket)>>}
  /\ UNCHANGED <<ticket, quote, quoteMeta, book, marketOpen, pressed, posts,
                 accepted, confirmed, edits, failures>>

(* getQuote answers, for whichever inputs it was called with; a failure    *)
(* clears whatever estimate is there.                                      *)
quoteAnswered(r) ==
  /\ asked' = asked \ {r}
  /\ Render(ticket, <<[for |-> r[2], book |-> book]>>, <<r[2]>>, book)
  /\ UNCHANGED <<marketOpen, pressed, posts, accepted, confirmed, edits, quotes, failures>>

quoteFailed(r) ==
  /\ failures < MaxFailures /\ failures' = failures + 1
  /\ asked' = asked \ {r}
  /\ Render(ticket, <<>>, <<>>, book)
  /\ UNCHANGED <<marketOpen, pressed, posts, accepted, confirmed, edits, quotes>>

(* The timer of the quote's expires_at. *)
quoteExpires ==
  /\ quote # <<>> /\ quotes < MaxQuotes
  /\ Render(ticket, <<>>, <<>>, book)
  /\ UNCHANGED <<asked, marketOpen, pressed, posts, accepted, confirmed, edits, quotes, failures>>

(* An orderbook:update frame: market-detail bumps bookVersion. *)
bookFrame ==
  /\ book < MaxBook
  /\ Render(ticket, quote, quoteMeta, book + 1)
  /\ UNCHANGED <<asked, marketOpen, pressed, posts, accepted, confirmed, edits, quotes, failures>>

(* The market resolved and its row was reread. *)
resolvedShown ==
  /\ marketOpen /\ marketOpen' = FALSE
  /\ UNCHANGED <<ticket, quote, quoteMeta, debounce, asked, book, pressed, posts,
                 accepted, confirmed, edits, quotes, failures>>

(* handleSubmit(onValid) behind the button: the payload is the form's      *)
(* values with clientOrderId, which is made once per mounted form.         *)
clientOrderId == 1

payload ==
  [client_order_id |-> clientOrderId, outcome |-> ticket.field, side |-> ticket.side,
   amount |-> ticket.amount, type |-> ticket.type, postOnly |-> ticket.postOnly,
   max_slippage |-> ticket.type # "limit",
   expected |-> IF quoteVisible THEN quote ELSE <<>>,
   shown |-> inputs(ticket), press |-> Cardinality(pressed) + 1]

onValid ==
  /\ marketOpen /\ ~hasInsufficientBalance /\ ~isSubmitting
  /\ Cardinality(pressed) < MaxPresses
  /\ pressed' = pressed \cup {payload}
  /\ posts' = [pending |-> TRUE, body |-> <<payload>>, left |-> MaxOrderRetries,
               wire |-> posts.wire \cup {[body |-> payload, attempt |-> MaxOrderRetries]}]
  /\ Render(ticket, <<>>, <<>>, book)
  /\ UNCHANGED <<asked, marketOpen, accepted, confirmed, edits, quotes, failures>>

Sending == UNCHANGED <<ticket, quote, quoteMeta, debounce, asked, book, marketOpen,
                       pressed, edits, quotes, failures>>

(* External: place_order looks for a row with this key before it writes    *)
(* one; an existing row is the answer.                                     *)
place_order(c) ==
  IF \E o \in accepted : o.body.client_order_id = c.body.client_order_id
  THEN accepted
  ELSE accepted \cup {c}

(* A copy of the POST reaches the server.  The answer counts when it is    *)
(* that of the attempt the client still waits for.                         *)
postArrives(c, answered) ==
  /\ c \in posts.wire /\ c.body.amount > 0
  /\ accepted' = place_order(c)
  /\ answered => /\ isSubmitting /\ c.body = posts.body[1] /\ c.attempt = posts.left
  /\ posts' = [posts EXCEPT !.wire = @ \ {c}, !.pending = @ /\ ~answered]
  /\ confirmed' = IF answered THEN confirmed \cup {c.body} ELSE confirmed
  /\ Sending

(* Mutant: every attempt makes a key of its own. *)
retryNewKey ==
  [posts EXCEPT !.left = @ - 1,
     !.wire = @ \cup {[body |-> [posts.body[1] EXCEPT !.client_order_id = @ + 1],
                       attempt |-> posts.left - 1]}]

(* fetchWithRetry: the attempt timed out, though it may still arrive; the  *)
(* same body is sent again, or the error is thrown and shown.              *)
retry == [posts EXCEPT !.left = @ - 1,
            !.wire = @ \cup {[body |-> posts.body[1], attempt |-> posts.left - 1]}]

postTimesOut ==
  /\ isSubmitting
  /\ posts' = IF posts.left > 0 THEN retry ELSE [posts EXCEPT !.pending = FALSE]
  /\ Sending /\ UNCHANGED <<accepted, confirmed>>

(* place_order refuses (balance, slippage, closed): usePlaceOrder's onError *)
(* shows why, and the form is as it was.                                   *)
postRefused(c) ==
  /\ c \in posts.wire /\ isSubmitting /\ c.body = posts.body[1] /\ c.attempt = posts.left
  /\ posts' = [posts EXCEPT !.wire = @ \ {c}, !.pending = FALSE]
  /\ Sending /\ UNCHANGED <<accepted, confirmed>>

TicketInit ==
  /\ ticket = [outcome |-> IF isMultiOutcome THEN FirstName ELSE "yes", field |-> "yes",
               side |-> "buy", type |-> "market", amount |-> 0, postOnly |-> FALSE]
  /\ quote = <<>> /\ quoteMeta = <<>> /\ debounce = FALSE /\ asked = {} /\ book = 0
  /\ marketOpen = TRUE /\ pressed = {} /\ accepted = {} /\ confirmed = {} /\ edits = 0 /\ quotes = 0 /\ failures = 0
  /\ posts = [pending |-> FALSE, body |-> <<>>, left |-> 0, wire |-> {}]

TicketNext ==
  \/ \E n \in Names : handleOutcomeClick(n)
  \/ \E s \in {"buy", "sell"} : handleSideClick(s)
  \/ \E a \in Amounts : typeAmount(a)
  \/ \E v \in {"market", "limit", "fill_or_kill"} : handleOrderTypeChange(v)
  \/ \E b \in BOOLEAN : checkPostOnly(b)
  \/ fetchQuote \/ quoteExpires \/ bookFrame \/ resolvedShown
  \/ \E r \in asked : quoteAnswered(r) \/ quoteFailed(r)
  \/ onValid \/ postTimesOut
  \/ \E c \in posts.wire : postRefused(c) \/ \E ok \in BOOLEAN : postArrives(c, ok)

TicketFairness ==
  /\ WF_ticketVars(fetchQuote)
  /\ WF_ticketVars(\E r \in asked : quoteAnswered(r))

TicketSpec == TicketInit /\ [][TicketNext]_ticketVars /\ TicketFairness

-----------------------------------------------------------------------------
TicketTypeOK ==
  /\ ticket \in [outcome : Names \cup {"yes"}, field : Names \cup {"yes"},
                 side : {"buy", "sell"}, type : {"market", "limit", "fill_or_kill"},
                 amount : Amounts, postOnly : BOOLEAN]
  /\ debounce \in BOOLEAN /\ marketOpen \in BOOLEAN /\ book \in 0..MaxBook
  /\ Cardinality(pressed) <= MaxPresses /\ confirmed \subseteq pressed
  /\ posts.pending \in BOOLEAN /\ posts.left \in 0..MaxOrderRetries

(* The estimate on screen is the server's answer for exactly the outcome,  *)
(* side and amount on screen, whatever order the answers came in and       *)
(* whatever was typed while they were under way.  (quoteMatchesInputs)     *)
QuoteIsForWhatIsShown == quoteVisible => quote[1].for = inputs(ticket)

(* However often a POST is repeated after a timeout, and however late the  *)
(* copies arrive, one press of the button is at most one order.            *)
(* (fetchWithRetry, client_order_id)                                       *)
PressIsAtMostOneOrder ==
  \A o1, o2 \in accepted : o1.body.press = o2.body.press => o1 = o2

(* While nothing fails, a market order that is typed in gets an estimate   *)
(* for what is on screen, or the user changes it.  (the fetch effect)      *)
QuoteArrives ==
  (ticket.type = "market" /\ ticket.amount > 0 /\ quotes < MaxQuotes)
    ~> (quoteVisible \/ ticket.type # "market" \/ ticket.amount = 0
        \/ quotes = MaxQuotes \/ failures > 0)

(* Refuted on a market whose names are not Yes and No (the field still     *)
(* says "yes"): the order that is sent is for the outcome the button       *)
(* names.                                                                  *)
SubmitsWhatIsShown == \A p \in pressed : p.outcome = p.shown.outcome

(* Refuted from the second press of one mounted form on: two presses of    *)
(* the button are two orders: the key makes a repeated POST return the     *)
(* first order, not a second intent. (clientOrderId)                       *)
EveryPressIsAnOrder == \A p \in confirmed : \E o \in accepted : o.body.press = p.press

(* What the user pressed is what happens: the estimate is for what is on   *)
(* screen (quoteMatchesInputs), one press of the trade form is at most one *)
(* order (fetchWithRetry), a guarded money form has one call under way and *)
(* a success that is told has moved the money.                             *)
OrdersAsShown ==
  /\ QuoteIsForWhatIsShown /\ PressIsAtMostOneOrder
  /\ GuardedFormsSendOne /\ SuccessMeansMoved

=============================================================================
