------------------------------ MODULE Exchange ------------------------------
(***************************************************************************)
(* One binary market of the exchange: wallets, positions, the resting      *)
(* order book, the AMM pool and its escrow, and the request handlers that  *)
(* move money and shares between them (OrderService.execute_order and      *)
(* cancel_order, MatchingEngine, split, merge, order expiry).              *)
(*                                                                         *)
(* db is the committed database.  execute_order locks Market, Pool and     *)
(* Wallet first and so runs alone on its market: work is its session, the  *)
(* uncommitted copy it edits one maker at a time, and a raised error drops *)
(* work (get_db closes the session without a commit).  The handlers that   *)
(* lock the same rows wait meanwhile; cancel and expiry touch an order the *)
(* transaction does not hold, commute with it, and are taken outside it.   *)
(*                                                                         *)
(* A BUY's amount and remaining are a budget in ticks, a SELL's are shares *)
(* (the code's unit convention).  Filled taker orders are not kept: no     *)
(* trading code reads them again.  max_slippage and min_shares_out are the *)
(* caller's own numbers: whether they refuse a fill is left open.          *)
(***************************************************************************)
EXTENDS AMM, FiniteSets, FiniteSetsExt

CONSTANTS
  Users,
  Nobody,       \* the user of an order row not yet written
  Balance0,     \* wallet.balance of every user at the start
  Shares0,      \* shares of each outcome every user holds at the start
  Reserve0,     \* reserve of each outcome in the seeded pool
  Prices,       \* limit prices of the requests, in ticks per share
  Budgets,      \* amounts of BUY requests, in ticks
  Lots,         \* amounts of SELL requests, splits and merges, in shares
  Kinds,        \* order types of the requests
  PostOnly,     \* values of post_only in the requests
  Traded,       \* outcomes the requests name
  Referrer,     \* [Users -> Users]: who referred a user (oneself: nobody)
  Reward,       \* settings.referral_reward_amount
  SkipLocked,   \* whether other sessions may hold rows of the book
  SplitFeeNum,  \* settings.split_merge_fee_rate = SplitFeeNum / FeeDen
  MaxOrders,    \* bound: order rows that ever rest
  MaxRequests   \* bound: requests accepted

NoPrice == 0

ASSUME ExchangeAssumption ==
  /\ IsFiniteSet(Users) /\ Cardinality(Users) \in Nat /\ Nobody \notin Users
  /\ Balance0 \in Nat /\ Shares0 \in Nat /\ Reserve0 \in Nat \ {0}
  /\ Prices \subseteq 1..One
  /\ Budgets \subseteq Nat \ {0} /\ Lots \subseteq Nat \ {0}
  /\ Kinds \subseteq {"market", "limit", "fill_or_kill"}
  /\ PostOnly \subseteq BOOLEAN /\ Traded \subseteq Outcomes
  /\ Referrer \in [Users -> Users]
  /\ Reward \in Nat /\ SkipLocked \in BOOLEAN
  /\ SplitFeeNum \in 0..FeeDen
  /\ MaxOrders \in Nat /\ MaxRequests \in Nat

(* Values for Referrer: nobody was referred; one user referred all others. *)
NoReferrals == [u \in Users |-> u]
OneReferral == [u \in Users |-> CHOOSE v \in Users : TRUE]

VARIABLES
  db,        \* the committed ledger
  pc,        \* "idle", or "match" while execute_order holds the market
  work,      \* the ledger as execute_order's session sees it
  req,       \* the request being executed, or the last one
  makers,    \* rows find_matches returned and the loop has not reached
  filled,    \* matched_shares
  spent,     \* matched_usdc
  answer,    \* how the last request ended
  requests   \* requests accepted so far

vars == <<db, pc, work, req, makers, filled, spent, answer, requests>>

OrderIds == 1..MaxOrders   \* in created_at order

Sides == {"buy", "sell"}

Statuses == {"unused", "pending", "partial", "filled", "cancelled", "expired"}

Order == [user : Users \cup {Nobody}, outcome : Outcomes, side : Sides,
          amount : Nat, price : Nat, remaining : Int,
          status : Statuses]

Ledger == [balance : [Users -> Int], locked : [Users -> Int],
           shares : [Users -> [Outcomes -> Int]],
           collateral : Int, fees : Int, reserve : [Outcomes -> Int],
           orders : [OrderIds -> Order],
           referred : SUBSET Users, rewards : Nat]

Request == [user : Users \cup {Nobody}, outcome : Outcomes, side : Sides,
            type : Kinds \cup {"none"}, amount : Nat, price : Nat, post : BOOLEAN]

(* What execute_order can be asked: a limit order has a price, the others  *)
(* may; post_only is ignored on a market order.                            *)
Requests ==
  {r \in [user : Users, outcome : Traded, side : Sides, type : Kinds,
          amount : Budgets \cup Lots, price : Prices \cup {NoPrice},
          post : PostOnly] :
     /\ r.amount \in (IF r.side = "buy" THEN Budgets ELSE Lots)
     /\ r.type = "limit" => r.price # NoPrice
     /\ r.post => r.type # "market"}

Smaller(a, b) == IF a <= b THEN a ELSE b

Larger(a, b) == IF a >= b THEN a ELSE b

Available(d, u) == d.balance[u] - d.locked[u]

Resting(o) == o.status \in {"pending", "partial"}

-----------------------------------------------------------------------------
(* The order book *)

(* MatchingEngine.find_matches for a taker u. *)
FindMatches(d, u, outcome, side, limit) ==
  {i \in OrderIds :
     LET o == d.orders[i] IN
       /\ Resting(o) /\ o.remaining > 0
       /\ o.outcome = outcome /\ o.side # side /\ o.user # u
       /\ limit # NoPrice => IF side = "buy" THEN o.price <= limit
                                             ELSE o.price >= limit}

(* Mutant of Before: the oldest order first, whatever its price. *)
BeforeByAge(d, side, i, j) == i < j

(* Its ORDER BY: best price for the taker, then the older order. *)
Before(d, side, i, j) ==
  LET p == d.orders[i].price
      q == d.orders[j].price
  IN  IF p = q THEN i < j ELSE IF side = "buy" THEN p < q ELSE p > q

(* Mutant of MatchQty: the maker's own remainder is not a bound. *)
MatchQtyUncapped(d, side, amount, gotShares, gotUsdc, i) ==
  LET o == d.orders[i] IN
  IF side = "buy"
    THEN (amount - gotUsdc) \div o.price
    ELSE Smaller(o.remaining \div o.price, amount - gotShares)

(* match_order_against_book: how many shares of maker i the taker wants.   *)
MatchQty(d, side, amount, gotShares, gotUsdc, i) ==
  LET o == d.orders[i] IN
  IF side = "buy"
    THEN Smaller(o.remaining, (amount - gotUsdc) \div o.price)
    ELSE Smaller(o.remaining \div o.price, amount - gotShares)

Buyer(o, taker) == IF o.side = "buy" THEN o.user ELSE taker

Seller(o, taker) == IF o.side = "buy" THEN taker ELSE o.user

(* execute_match records the fee before it looks at either wallet. *)
CreditFee(d, fee) == [d EXCEPT !.collateral = @ + fee, !.fees = @ + fee]

(* Mutant of BuyerShort: the guard looks at the balance alone. *)
BuyerShortIgnoringLocks(d, i, taker, qty) ==
  d.balance[Buyer(d.orders[i], taker)] < qty * d.orders[i].price

BuyerShort(d, i, taker, qty) ==
  Available(d, Buyer(d.orders[i], taker)) < qty * d.orders[i].price

SellerShort(d, i, taker, qty) ==
  d.shares[Seller(d.orders[i], taker)][d.orders[i].outcome] < qty

(* execute_match past its guards: money, the maker's row and reservation,  *)
(* and both positions.                                                     *)
Settle(d, i, taker, qty) ==
  LET o    == d.orders[i]
      usdc == qty * o.price
      fee  == ProtocolFee(usdc)
      left == o.remaining - (IF o.side = "buy" THEN usdc ELSE qty)
      b    == Buyer(o, taker)
      s    == Seller(o, taker)
      lock == IF o.side = "buy"
                THEN Larger(0, d.locked[b] - Smaller(o.amount - left, usdc))
                ELSE d.locked[b]
      paid  == [d.balance EXCEPT ![b] = @ - usdc]
      dealt == [d.shares EXCEPT ![b][o.outcome] = @ + qty]
      row   == [o EXCEPT !.remaining = left,
                         !.status = IF left <= 0 THEN "filled" ELSE "partial"]
  IN  [d EXCEPT !.balance = [paid EXCEPT ![s] = @ + usdc - fee],
                !.locked = [d.locked EXCEPT ![b] = lock],
                !.shares = [dealt EXCEPT ![s][o.outcome] = @ - qty],
                !.orders = [d.orders EXCEPT ![i] = row]]

-----------------------------------------------------------------------------
(* execute_order *)

Ends(result) ==
  /\ pc' = "idle"
  /\ makers' = {}
  /\ filled' = 0
  /\ spent' = 0
  /\ answer' = result
  /\ UNCHANGED <<req, requests>>

(* A raised error: the session is closed and nothing was committed. *)
Rollback(result) ==
  /\ db' = db
  /\ work' = db
  /\ Ends(result)

Commit(d, result) ==
  /\ db' = d
  /\ work' = d
  /\ Ends(result)

(* Rows of the book another session has locked (a cancel, the expiry batch *)
(* or the limit sweep, which locks the rows of every market it will visit) *)
(* and find_matches, FOR UPDATE SKIP LOCKED, does not return.              *)
HeldRows == IF SkipLocked THEN SUBSET OrderIds ELSE {{}}

(* Steps 1 to 4: the locks, the position check of a sell, the book scan.   *)
ReceiveOrder(r) ==
  /\ pc = "idle"
  /\ requests < MaxRequests
  /\ r.side = "sell" => db.shares[r.user][r.outcome] >= r.amount
  /\ r.type = "limit" => \E i \in OrderIds : db.orders[i].status = "unused"
  /\ pc' = "match"
  /\ req' = r
  /\ \E held \in HeldRows :
       makers' = FindMatches(db, r.user, r.outcome, r.side, r.price) \ held
  /\ requests' = requests + 1
  /\ answer' = "none"
  /\ UNCHANGED <<db, work, filled, spent>>

(* One iteration of match_order_against_book, on the best maker left. *)
MatchMaker(i) ==
  LET qty == MatchQty(work, req.side, req.amount, filled, spent, i)
      fee == ProtocolFee(qty * work.orders[i].price)
  IN
  /\ pc = "match"
  /\ i \in makers
  /\ \A j \in makers \ {i} : Before(work, req.side, i, j)
  /\ \/ /\ qty <= 0                                        \* break
        /\ makers' = {}
        /\ UNCHANGED <<db, pc, work, req, filled, spent, answer, requests>>
     \/ /\ qty > 0 /\ BuyerShort(work, i, req.user, qty)   \* raise
        /\ Rollback("insufficient_balance")
     \/ /\ qty > 0 /\ ~BuyerShort(work, i, req.user, qty)
        /\ makers' = makers \ {i}
        /\ \/ /\ SellerShort(work, i, req.user, qty)       \* skipped
              /\ work' = CreditFee(work, fee)
              /\ UNCHANGED <<filled, spent>>
           \/ /\ ~SellerShort(work, i, req.user, qty)
              /\ work' = CreditFee(Settle(work, i, req.user, qty), fee)
              /\ filled' = filled + qty
              /\ spent' = spent + qty * work.orders[i].price
        /\ UNCHANGED <<db, pc, req, answer, requests>>

Remainder == IF req.side = "sell" THEN req.amount - filled
                                  ELSE req.amount - spent

(* post_only is refused where the code refuses it. *)
PostOnlyRefused ==
  /\ req.post /\ req.price # NoPrice
  /\ IF req.side = "buy"
       THEN ~PriceAtMost(work.reserve, req.outcome, req.price)
       ELSE ~PriceAtLeast(work.reserve, req.outcome, req.price)

CanFillAMM ==
  IF req.side = "buy" THEN PriceAtMost(work.reserve, req.outcome, req.price)
                      ELSE PriceAtLeast(work.reserve, req.outcome, req.price)

AMMLeg == req.type = "market" \/ (CanFillAMM /\ ~PostOnlyRefused)

MatchingDone == pc = "match" /\ makers = {}

(* post_only, or a fill_or_kill the AMM may not complete: an error. *)
RejectRemainder ==
  /\ MatchingDone /\ Remainder > 0 /\ ~AMMLeg
  /\ \/ PostOnlyRefused /\ Rollback("post_only_would_cross")
     \/ ~PostOnlyRefused /\ req.type = "fill_or_kill" /\ Rollback("not_fillable")

(* Mutant of NewOrder: a status the order book does not know. *)
NewOrderOpen(d, i, left) ==
  [d EXCEPT !.orders[i] =
     [user |-> req.user, outcome |-> req.outcome, side |-> req.side,
      amount |-> req.amount, price |-> req.price, remaining |-> left,
      status |-> "open"]]

NewOrder(d, i, left) ==
  [d EXCEPT !.orders[i] =
     [user |-> req.user, outcome |-> req.outcome, side |-> req.side,
      amount |-> req.amount, price |-> req.price, remaining |-> left,
      status |-> IF filled = 0 THEN "pending" ELSE "partial"]]

(* The remainder of a limit order rests; a BUY reserves it first. *)
RestRemainder(i) ==
  /\ MatchingDone /\ Remainder > 0 /\ ~AMMLeg
  /\ req.type = "limit" /\ ~PostOnlyRefused
  /\ work.orders[i].status = "unused"
  /\ \A j \in OrderIds : j < i => work.orders[j].status # "unused"
  /\ \/ /\ req.side = "buy" /\ Available(work, req.user) < Remainder
        /\ Rollback("refused")
     \/ /\ req.side = "buy" /\ Available(work, req.user) >= Remainder
        /\ Commit([NewOrder(work, i, Remainder)
                     EXCEPT !.locked[req.user] = @ + Remainder], "resting")
     \/ /\ req.side = "sell"
        /\ Commit(NewOrder(work, i, Remainder), "resting")

(* Step 7 and 8 of a filled order: a BUY's whole fill is added to the      *)
(* position, and the first fill of a referred user pays the referrer.      *)
Book(d, total) ==
  IF req.side = "buy"
    THEN [d EXCEPT !.shares[req.user][req.outcome] = @ + total]
    ELSE d

PayReferral(d) ==
  IF req.user \in d.referred
    THEN [d EXCEPT !.balance[Referrer[req.user]] = @ + Reward,
                   !.referred = @ \ {req.user},
                   !.rewards = @ + Reward]
    ELSE d

(* Everything matched in the book: no AMM leg. *)
FinishFromBook ==
  /\ MatchingDone /\ Remainder <= 0
  /\ Commit(PayReferral(Book(work, filled)), "filled")

(* A fill the request's max_slippage or min_shares_out refuses. *)
SlippageRefused ==
  /\ MatchingDone
  /\ Remainder <= 0 \/ AMMLeg
  /\ Rollback("slippage_exceeded")

(* The AMM leg of a BUY spends the whole remainder. *)
AMMBuy(d, s) ==
  [d EXCEPT !.balance[req.user] = @ - Remainder,
            !.collateral = @ + Remainder,
            !.fees = @ + ProtocolFee(Remainder),
            !.reserve[req.outcome] = @ + s]

(* amm.buy raises when it has no shares to give for the money. *)
FinishBuyAMM ==
  /\ MatchingDone /\ Remainder > 0 /\ AMMLeg /\ req.side = "buy"
  /\ IF \/ Available(work, req.user) < Remainder
        \/ BuyShares(work.reserve, req.outcome, Remainder) = {}
       THEN Rollback("refused")
       ELSE \E s \in BuyShares(work.reserve, req.outcome, Remainder) :
              Commit(PayReferral(Book(AMMBuy(work, s), filled + s)), "filled")

(* Mutant of AMMSell: the proceeds do not leave the escrow. *)
AMMSellUnfunded(d, proceeds) ==
  [d EXCEPT !.balance[req.user] = @ + proceeds,
            !.fees = @ + ProtocolFee(proceeds),
            !.shares[req.user][req.outcome] = @ - Remainder,
            !.reserve[req.outcome] = @ - Remainder]

(* The AMM leg of a SELL: shares in, proceeds out of the escrow. *)
AMMSell(d, proceeds) ==
  [d EXCEPT !.balance[req.user] = @ + proceeds,
            !.collateral = @ - proceeds,
            !.fees = @ + ProtocolFee(proceeds),
            !.shares[req.user][req.outcome] = @ - Remainder,
            !.reserve[req.outcome] = @ - Remainder]

(* Refused if the position no longer covers it, if amm.sell raises, or if  *)
(* debit_collateral does.                                                  *)
FinishSellAMM ==
  LET proceeds == SellProceeds(work.reserve, req.outcome, Remainder) IN
  /\ MatchingDone /\ Remainder > 0 /\ AMMLeg /\ req.side = "sell"
  /\ IF \/ work.shares[req.user][req.outcome] < Remainder
        \/ ~CanSell(work.reserve, req.outcome, Remainder)
        \/ proceeds > work.collateral
       THEN Rollback("refused")
       ELSE Commit(PayReferral(AMMSell(work, proceeds)), "filled")

-----------------------------------------------------------------------------
(* The other handlers *)

(* A handler that is one short transaction of its own. *)
Atomically(d) ==
  /\ pc = "idle"
  /\ db' = d
  /\ work' = d
  /\ UNCHANGED <<pc, req, makers, filled, spent, answer>>

(* Mutant of CloseOrder: releases what was filled, not what was left. *)
CloseOrderReleasingFill(d, i, status) ==
  LET o == d.orders[i] IN
  [d EXCEPT !.orders[i].status = status,
            !.locked[o.user] = IF o.side = "buy"
                                 THEN Larger(0, @ - (o.amount - o.remaining))
                                 ELSE @]

(* The row is closed and a BUY's unspent budget released. *)
CloseOrder(d, i, status) ==
  LET o == d.orders[i] IN
  [d EXCEPT !.orders[i].status = status,
            !.locked[o.user] = IF o.side = "buy" THEN Larger(0, @ - o.remaining)
                                                 ELSE @]

CancelOrder(i) ==
  /\ Resting(db.orders[i])
  /\ Atomically(CloseOrder(db, i, "cancelled"))
  /\ UNCHANGED requests

(* One row of expire_stale_orders' batch; any resting order may carry an   *)
(* expiry and time is not modelled.                                        *)
ExpireOrder(i) ==
  /\ Resting(db.orders[i])
  /\ Atomically(CloseOrder(db, i, "expired"))
  /\ UNCHANGED requests

SplitFee(amount) == (amount * SplitFeeNum) \div FeeDen

(* split: amount dollars become a pair per dollar left after the fee. *)
Split(u, amount) ==
  LET fee == SplitFee(amount) IN
  /\ requests < MaxRequests
  /\ amount * One <= Available(db, u)
  /\ Atomically([db EXCEPT
       !.balance[u] = @ - amount * One,
       !.collateral = @ + amount * One,
       !.fees = @ + fee * One,
       !.reserve = [o \in Outcomes |-> @[o] + amount - fee],
       !.shares[u] = [o \in Outcomes |-> @[o] + amount - fee]])
  /\ requests' = requests + 1

Merge(u, amount) ==
  LET fee == SplitFee(amount) IN
  /\ requests < MaxRequests
  /\ \A o \in Outcomes : db.shares[u][o] >= amount
  /\ (amount - fee) * One <= db.collateral
  /\ Atomically([db EXCEPT
       !.balance[u] = @ + (amount - fee) * One,
       !.collateral = @ - (amount - fee) * One,
       !.fees = @ + fee * One,
       !.reserve = [o \in Outcomes |-> Larger(0, @[o] - amount)],
       !.shares[u] = [o \in Outcomes |-> @[o] - amount]])
  /\ requests' = requests + 1

-----------------------------------------------------------------------------
Unused == [user |-> Nobody, outcome |-> "yes",
           side |-> "buy", amount |-> 0, price |-> 0, remaining |-> 0,
           status |-> "unused"]

(* A seeded market whose users have split, and whose fees were swept since *)
(* (distribute_protocol_fees): the escrow holds the seed and a dollar for  *)
(* each pair, the reserves the seed and the shares outstanding.            *)
Ledger0 ==
  [balance    |-> [u \in Users |-> Balance0],
   locked     |-> [u \in Users |-> 0],
   shares     |-> [u \in Users |-> [o \in Outcomes |-> Shares0]],
   collateral |-> One * (2 * Reserve0 + Cardinality(Users) * Shares0),
   fees       |-> 0,
   reserve    |-> [o \in Outcomes |-> Reserve0 + Cardinality(Users) * Shares0],
   orders     |-> [i \in OrderIds |-> Unused],
   referred   |-> {u \in Users : Referrer[u] # u},
   rewards    |-> 0]

Init ==
  /\ db = Ledger0
  /\ work = Ledger0
  /\ pc = "idle"
  /\ req = [user |-> Nobody, outcome |-> "yes",
            side |-> "buy", type |-> "none",
            amount |-> 0, price |-> NoPrice, post |-> FALSE]
  /\ makers = {}
  /\ filled = 0
  /\ spent = 0
  /\ answer = "none"
  /\ requests = 0

ExecuteOrder ==
  \/ \E r \in Requests : ReceiveOrder(r)
  \/ \E i \in OrderIds : MatchMaker(i)
  \/ \E i \in OrderIds : RestRemainder(i)
  \/ RejectRemainder
  \/ FinishFromBook
  \/ SlippageRefused
  \/ FinishBuyAMM
  \/ FinishSellAMM

Next ==
  \/ ExecuteOrder
  \/ \E i \in OrderIds : CancelOrder(i)
  \/ \E i \in OrderIds : ExpireOrder(i)
  \/ \E u \in Users, n \in Lots : Split(u, n)
  \/ \E u \in Users, n \in Lots : Merge(u, n)

Spec == Init /\ [][Next]_vars

-----------------------------------------------------------------------------
(* Properties *)

(* Every variable keeps its type: an order row has one of the statuses the *)
(* book's queries know, and what a request has matched is never negative.  *)
TypeOK ==
  /\ db \in Ledger /\ work \in Ledger
  /\ pc \in {"idle", "match"}
  /\ req \in Request
  /\ makers \subseteq OrderIds
  /\ filled \in Nat /\ spent \in Nat /\ requests \in Nat

(* The database's CHECK constraints on wallets and positions are never     *)
(* what stops a request: balances, reservations, positions and the escrow  *)
(* stay non-negative and no wallet reserves more than it holds, committed  *)
(* or not.  (models/wallet.py, models/position.py, debit_collateral)       *)
WithinConstraints(d) ==
  /\ \A u \in Users : 0 <= d.locked[u] /\ d.locked[u] <= d.balance[u]
  /\ \A u \in Users, o \in Outcomes : d.shares[u][o] >= 0
  /\ \A o \in Outcomes : d.reserve[o] >= 0
  /\ d.collateral >= 0

ChecksNeverTrip == WithinConstraints(db) /\ WithinConstraints(work)

(* A resting order is never filled beyond its own amount: with budgets in  *)
(* dollars and lots in shares on the two sides of a match, what is taken   *)
(* off a maker is within what it has left.  (execute_match's               *)
(* remaining_amount)                                                       *)
NeverOverfilled ==
  \A i \in OrderIds : /\ db.orders[i].remaining \in 0..db.orders[i].amount
                       /\ work.orders[i].remaining \in 0..work.orders[i].amount

(* What is left of each order that is a resting bid of user u. *)
BidLeft(d, u) ==
  [i \in OrderIds |->
     LET o == d.orders[i] IN
     IF Resting(o) /\ o.user = u /\ o.side = "buy" THEN o.remaining ELSE 0]

Reserved(d, u) == MapThenSumSet(LAMBDA i : BidLeft(d, u)[i], OrderIds)

(* A wallet's locked_balance is exactly the unspent budgets of its resting *)
(* bids, across partial fills, cancels and expiries.                       *)
BidsReserved == \A u \in Users : db.locked[u] = Reserved(db, u)

Held(d, o) == MapThenSumSet(LAMBDA u : d.shares[u][o], Users)

Money(d) == MapThenSumSet(LAMBDA u : d.balance[u], Users) + d.collateral

(* No request makes money for its users and the pool's backers: what they  *)
(* own together, fees owed to the treasury set aside, never grows except   *)
(* by the referral reward.                                                 *)
NoMoneyMade ==
  [][Money(db') - db'.fees - db'.rewards <= Money(db) - db.fees - db.rewards]_vars

(* Why the loop may have gone past resting order i. *)
PassedOver(i) ==
  LET o == db'.orders[i] IN
  \/ o.status = "filled"
  \/ o.side = "buy" /\ o.remaining < o.price
  \/ o.side = "sell" /\ db'.shares[o.user][o.outcome] < o.remaining

(* A taker owes order o of the book the fill before order p. *)
Ahead(o, p) ==
  IF o.side = "sell" THEN o.price < p.price ELSE o.price > p.price

(* Price-time priority across a whole request: when it fills a resting     *)
(* order, every order it could have matched at a better price, or at the   *)
(* same price and older, has been filled, is left with a budget too small  *)
(* for a share, or is an ask its owner no longer has the shares for.       *)
(* (find_matches' ORDER BY and the loop of match_order_against_book)       *)
PriceTimePriority ==
  [][(pc = "match" /\ pc' = "idle") =>
       LET found == FindMatches(db, req.user, req.outcome, req.side, req.price)
           book  == db.orders
       IN \A i, j \in found :
            /\ db'.orders[i] # book[i]
            /\ Ahead(book[j], book[i]) \/ (book[j].price = book[i].price /\ j < i)
            => PassedOver(j)]_vars

(* Refuted: dollars are moved, never created: wallets and escrow together  *)
(* change only by referral rewards. (credit_collateral: "money only ever   *)
(* enters through an explicit debit of a wallet elsewhere")                *)
MoneyConserved == Money(db) - db.rewards = Money(Ledger0)

(* Refuted: the pool's reserves and the position rows count the same       *)
(* shares: both move by the same amount.                                   *)
SharesTrackReserves ==
  \A o \in Outcomes : db.reserve[o] - Held(db, o) = Reserve0

(* Refuted for a wallet whose bid reserves most of it (the guard counts    *)
(* the reservation of the very bid it fills): a resting bid is good for    *)
(* its own budget: a holder who sells into it is never refused for lack of *)
(* the bidder's money.                                                     *)
BidsHonoured == ~(answer = "insufficient_balance" /\ req.side = "sell")

(* Refuted: a post-only order never takes liquidity.                       *)
PostOnlyNeverTakes == ~(answer = "filled" /\ req.post)

(* Refuted: a limit buyer never pays more than the limit per share, up to  *)
(* a unit of rounding.                                                     *)
WithinLimit ==
  [][(/\ pc = "match" /\ pc' = "idle" /\ answer' = "filled"
      /\ req.side = "buy" /\ req.type = "limit")
     => db.balance[req.user] - db'.balance[req.user]
          <= req.price * (db'.shares[req.user][req.outcome] + 1
                            - db.shares[req.user][req.outcome])]_vars

=============================================================================
