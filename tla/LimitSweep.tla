----------------------------- MODULE LimitSweep -----------------------------
(***************************************************************************)
(* The worker's check_limit_order_execution, running beside the request    *)
(* handlers of Exchange: it loads every resting order, then walks the list *)
(* matching each against the book (match_pending_order) and the AMM.       *)
(*                                                                         *)
(* It commits in the middle of the walk, which releases the Market, Pool   *)
(* and Order locks, and goes on in the same session.  The session is built *)
(* with expire_on_commit=False and the re-reads are plain SELECT ... FOR   *)
(* UPDATE without populate_existing, so an object the task still refers to *)
(* keeps the attributes it had: every order of the list, the pool, and the *)
(* wallet and position of the last user served.  seen holds those values.  *)
(* Within a transaction base is what the session loaded and work what it   *)
(* made of it; a commit writes the attributes that differ.                 *)
(***************************************************************************)
EXTENDS Exchange

VARIABLES
  swpc,   \* "off", "scan" between two orders, "match" on one
  queue,  \* orders of the list still to be walked
  listed, \* the orders of the list
  cur,    \* re_locked_order
  base,   \* the rows as this transaction's session loaded them
  seen,   \* the objects as the session last held them
  kept,   \* which objects besides the orders are still referred to
  sweeps  \* sweeps started

svars == <<swpc, queue, listed, cur, base, seen, kept, sweeps>>

CONSTANT MaxSweeps  \* bound: sweeps started

ASSUME SweepAssumption == MaxSweeps \in Nat

(* The pool, the owner of the wallet, the owner and outcome of the position. *)
NothingKept == [pool |-> FALSE, wallet |-> Nobody, holder |-> Nobody,
                outcome |-> "yes"]

Objects == [pool : BOOLEAN, wallet : Users \cup {Nobody},
            holder : Users \cup {Nobody}, outcome : Outcomes]

(* The rows the session sees when it starts a transaction on ledger d. *)
View(d) ==
  [d EXCEPT
     !.orders = [i \in OrderIds |-> IF i \in listed THEN seen.orders[i] ELSE @[i]],
     !.collateral = IF kept.pool THEN seen.collateral ELSE @,
     !.fees = IF kept.pool THEN seen.fees ELSE @,
     !.reserve = IF kept.pool THEN seen.reserve ELSE @,
     !.balance = [u \in Users |-> IF u = kept.wallet THEN seen.balance[u] ELSE @[u]],
     !.locked = [u \in Users |-> IF u = kept.wallet THEN seen.locked[u] ELSE @[u]],
     !.shares = [u \in Users |-> [o \in Outcomes |->
                   IF u = kept.holder /\ o = kept.outcome
                     THEN seen.shares[u][o] ELSE @[u][o]]]]

Changed(old, new, row) == IF new # old THEN new ELSE row

(* The flush of a commit: UPDATE ... SET for the attributes that changed. *)
Flushed(w) ==
  [db EXCEPT
     !.orders = [i \in OrderIds |->
        [db.orders[i] EXCEPT
           !.remaining = Changed(base.orders[i].remaining, w.orders[i].remaining,
                                 db.orders[i].remaining),
           !.status = Changed(base.orders[i].status, w.orders[i].status,
                              db.orders[i].status)]],
     !.collateral = Changed(base.collateral, w.collateral, @),
     !.fees = Changed(base.fees, w.fees, @),
     !.reserve = [o \in Outcomes |-> Changed(base.reserve[o], w.reserve[o], @[o])],
     !.balance = [u \in Users |-> Changed(base.balance[u], w.balance[u], @[u])],
     !.locked = [u \in Users |-> Changed(base.locked[u], w.locked[u], @[u])],
     !.shares = [u \in Users |-> [o \in Outcomes |->
                   Changed(base.shares[u][o], w.shares[u][o], @[u][o])]]]

-----------------------------------------------------------------------------
(* The task starts: the list, then the market lock. *)
SweepStart ==
  /\ swpc = "off" /\ pc = "idle" /\ sweeps < MaxSweeps
  /\ listed' = {i \in OrderIds : Resting(db.orders[i]) /\ db.orders[i].remaining > 0}
  /\ listed' # {}
  /\ queue' = listed'
  /\ pc' = "sweep" /\ swpc' = "scan"
  /\ base' = db /\ seen' = db
  /\ kept' = NothingKept
  /\ sweeps' = sweeps + 1
  /\ UNCHANGED <<db, work, req, makers, filled, spent, answer, requests, cur>>

(* The next statement after such a commit starts a new transaction. *)
SweepResume ==
  /\ swpc = "scan" /\ pc = "idle"
  /\ pc' = "sweep"
  /\ base' = View(db) /\ work' = View(db)
  /\ UNCHANGED <<db, req, makers, filled, spent, answer, requests,
                 swpc, queue, listed, cur, seen, kept, sweeps>>

(* An exception: the group is rolled back and given up. *)
SweepAbort ==
  /\ db' = db /\ work' = db
  /\ pc' = "idle" /\ swpc' = "off"
  /\ queue' = {} /\ listed' = {} /\ makers' = {}
  /\ base' = Ledger0 /\ seen' = Ledger0 /\ kept' = NothingKept
  /\ UNCHANGED <<cur, sweeps, req, filled, spent, answer, requests>>

(* The CHECK constraints on wallets and positions. *)
Accepted(d) ==
  /\ \A u \in Users : 0 <= d.locked[u] /\ d.locked[u] <= d.balance[u]
  /\ \A u \in Users, o \in Outcomes : d.shares[u][o] >= 0

(* A commit inside the loop: the locks go, the objects stay. *)
CommitAndGoOn(w, left, k) ==
  IF ~Accepted(Flushed(w)) THEN SweepAbort ELSE
  /\ db' = Flushed(w) /\ work' = Flushed(w)
  /\ seen' = w
  /\ queue' = left /\ kept' = k
  /\ pc' = "idle" /\ swpc' = "scan"
  /\ UNCHANGED <<listed, base, sweeps, cur, req, makers, filled, spent, answer,
                 requests>>

(* The list is walked: the last commit, and the session is closed. *)
SweepEnd ==
  /\ swpc = "scan" /\ pc = "sweep" /\ queue = {}
  /\ IF ~Accepted(Flushed(work)) THEN SweepAbort ELSE
     /\ db' = Flushed(work) /\ work' = Flushed(work)
     /\ pc' = "idle" /\ swpc' = "off"
     /\ listed' = {} /\ base' = Ledger0 /\ seen' = Ledger0 /\ kept' = NothingKept
     /\ UNCHANGED <<queue, cur, sweeps, req, makers, filled, spent, answer, requests>>

-----------------------------------------------------------------------------
(* The next order of the list, re-locked; the list has no ORDER BY. *)
AtOrder(i) == swpc = "scan" /\ pc = "sweep" /\ i \in queue

(* Dropped when the object says it is closed. *)
SweepSkip(i) ==
  /\ AtOrder(i)
  /\ ~Resting(work.orders[i])
  /\ queue' = queue \ {i}
  /\ UNCHANGED <<vars, swpc, listed, cur, base, seen, kept, sweeps>>

SweepExpire(i) ==
  LET o == work.orders[i] IN
  /\ AtOrder(i)
  /\ Resting(o)
  /\ CommitAndGoOn(CloseOrder(work, i, "expired"), queue \ {i},
                   IF o.side = "buy" THEN [kept EXCEPT !.wallet = o.user] ELSE kept)

SweepTake(i) ==
  LET o == work.orders[i] IN
  /\ AtOrder(i)
  /\ Resting(o)
  /\ cur' = i
  /\ queue' = queue \ {i}
  /\ kept' = [kept EXCEPT !.pool = TRUE]
  /\ makers' = FindMatches(db, o.user, o.outcome, o.side, o.price)
  /\ swpc' = "match"
  /\ UNCHANGED <<db, pc, work, req, filled, spent, answer, requests,
                 listed, base, seen, sweeps>>

(* Mutant of SweepQty: the maker's own remainder is not a bound. *)
SweepQtyUncapped(o, m) ==
  IF o.side = "buy" THEN o.remaining \div m.price ELSE o.remaining

(* match_pending_order's quantity: the sell branch compares the bid's      *)
(* dollars with the order's shares.                                        *)
SweepQty(o, m) ==
  IF o.side = "buy" THEN Smaller(m.remaining, o.remaining \div m.price)
                    ELSE Smaller(m.remaining \div One, o.remaining)

(* Mutant of Reduce: a status the order book does not know. *)
ReduceUnknown(d, i, by) ==
  [d EXCEPT !.orders[i].remaining = @ - by, !.orders[i].status = "executed"]

(* The taker's row after a fill; its reservation is not touched. *)
Reduce(d, i, by) ==
  LET left == d.orders[i].remaining - by IN
  [d EXCEPT !.orders[i].remaining = left,
            !.orders[i].status = IF left <= 0 THEN "filled" ELSE "partial"]

SweepMatch(i) ==
  LET o    == work.orders[cur]
      m    == work.orders[i]
      qty  == SweepQty(o, m)
      usdc == qty * m.price
      fee  == ProtocolFee(usdc)
  IN
  /\ swpc = "match" /\ i \in makers
  /\ \A j \in makers \ {i} : Before(db, o.side, i, j)
  /\ IF o.remaining <= 0 \/ qty <= 0
       THEN /\ makers' = {}
            /\ UNCHANGED <<db, pc, work, req, filled, spent, answer, requests, svars>>
       ELSE IF BuyerShort(work, i, o.user, qty)
       THEN SweepAbort
       ELSE /\ makers' = makers \ {i}
            /\ work' = IF SellerShort(work, i, o.user, qty)
                         THEN CreditFee(work, fee)
                         ELSE Reduce(CreditFee(Settle(work, i, o.user, qty), fee),
                                     cur, IF o.side = "buy" THEN usdc ELSE qty)
            /\ UNCHANGED <<db, pc, req, filled, spent, answer, requests, svars>>

(* The AMM leg on what is left. *)
SweepBuyAMM(d, o, s) ==
  LET left == o.remaining IN
  [Reduce(d, cur, left) EXCEPT
     !.balance[o.user] = @ - left,
     !.locked[o.user] = IF @ > 0 THEN Larger(0, @ - left) ELSE @,
     !.collateral = @ + left,
     !.fees = @ + ProtocolFee((left * d.reserve[o.outcome]) \div Total(d.reserve)),
     !.shares[o.user][o.outcome] = @ + s,
     !.reserve[o.outcome] = @ + s]

SweepSellAMM(d, o, proceeds) ==
  LET left == o.remaining IN
  [Reduce(d, cur, left) EXCEPT
     !.balance[o.user] = @ + proceeds,
     !.collateral = @ - proceeds,
     !.fees = @ + ProtocolFee((left * One * d.reserve[o.outcome])
                                \div Total(d.reserve)),
     !.shares[o.user][o.outcome] = @ - left,
     !.reserve[o.outcome] = @ - left]

Crosses(d, o) ==
  IF o.side = "buy" THEN PriceAtMost(d.reserve, o.outcome, o.price)
                    ELSE PriceAtLeast(d.reserve, o.outcome, o.price)

GoOnWith(w, k) ==
  /\ work' = w
  /\ swpc' = "scan"
  /\ kept' = k
  /\ UNCHANGED <<db, pc, req, makers, filled, spent, answer, requests,
                 queue, listed, cur, base, seen, sweeps>>

(* The rows the AMM leg has read: the wallet, then the position. *)
WalletRead(o) == [kept EXCEPT !.wallet = o.user]

PositionRead(o) ==
  [kept EXCEPT !.wallet = o.user, !.holder = o.user, !.outcome = o.outcome]

(* Filled in the book, or more than the wallet or the position can pay. *)
SweepPass ==
  LET o == work.orders[cur] IN
  /\ swpc = "match" /\ makers = {}
  /\ \/ /\ o.remaining <= 0
        /\ GoOnWith(work, kept)
     \/ /\ o.remaining > 0 /\ Crosses(work, o)
        /\ o.side = "buy" /\ Available(work, o.user) < o.remaining
        /\ GoOnWith(work, WalletRead(o))
     \/ /\ o.remaining > 0 /\ Crosses(work, o)
        /\ o.side = "sell" /\ work.shares[o.user][o.outcome] < o.remaining
        /\ GoOnWith(work, PositionRead(o))

(* The AMM price is past the limit: commit what the book did, go on. *)
SweepUncrossed ==
  LET o == work.orders[cur] IN
  /\ swpc = "match" /\ makers = {}
  /\ o.remaining > 0 /\ ~Crosses(work, o)
  /\ CommitAndGoOn(work, queue, kept)

SweepFillBuy ==
  LET o == work.orders[cur] IN
  /\ swpc = "match" /\ makers = {}
  /\ o.remaining > 0 /\ Crosses(work, o)
  /\ o.side = "buy" /\ Available(work, o.user) >= o.remaining
  /\ IF BuyShares(work.reserve, o.outcome, o.remaining) = {}
       THEN SweepAbort
       ELSE \E s \in BuyShares(work.reserve, o.outcome, o.remaining) :
              GoOnWith(SweepBuyAMM(work, o, s), PositionRead(o))

SweepFillSell ==
  LET o        == work.orders[cur]
      proceeds == SellProceeds(work.reserve, o.outcome, o.remaining)
  IN
  /\ swpc = "match" /\ makers = {}
  /\ o.remaining > 0 /\ Crosses(work, o)
  /\ o.side = "sell" /\ work.shares[o.user][o.outcome] >= o.remaining
  /\ IF \/ ~CanSell(work.reserve, o.outcome, o.remaining)
        \/ proceeds > work.collateral
       THEN SweepAbort
       ELSE GoOnWith(SweepSellAMM(work, o, proceeds), PositionRead(o))

SweepInit ==
  /\ Init
  /\ swpc = "off" /\ queue = {} /\ listed = {} /\ cur = 1
  /\ base = Ledger0 /\ seen = Ledger0 /\ kept = NothingKept
  /\ sweeps = 0

SweepNext ==
  \/ Next /\ UNCHANGED svars
  \/ SweepStart \/ SweepResume \/ SweepEnd
  \/ \E i \in OrderIds : SweepSkip(i) \/ SweepExpire(i) \/ SweepTake(i)
  \/ \E i \in OrderIds : SweepMatch(i)
  \/ SweepPass \/ SweepUncrossed \/ SweepFillBuy \/ SweepFillSell

SweepSpec == SweepInit /\ [][SweepNext]_<<vars, svars>>

(* An order that was cancelled, expired or filled stays as it is: the      *)
(* sweep re-locks each row before it fills it.                             *)
ClosedOrdersStayClosed ==
  [][\A i \in OrderIds :
       db.orders[i].status \in {"cancelled", "expired", "filled"}
         => db'.orders[i] = db.orders[i]]_<<vars, svars>>

(* Refuted: what a resting bid reserved is released when it is filled:     *)
(* outside a transaction a wallet reserves no more than its resting bids   *)
(* still need.                                                             *)
ReservationsReleased ==
  pc = "idle" => \A u \in Users : db.locked[u] <= Reserved(db, u)

(* The sweep's variables keep their types. *)
SweepTypeOK ==
  /\ db \in Ledger /\ work \in Ledger /\ base \in Ledger /\ seen \in Ledger
  /\ pc \in {"idle", "match", "sweep"} /\ swpc \in {"off", "scan", "match"}
  /\ queue \subseteq listed /\ listed \subseteq OrderIds
  /\ swpc = "match" => cur \in listed
  /\ kept \in Objects /\ sweeps \in Nat

=============================================================================
