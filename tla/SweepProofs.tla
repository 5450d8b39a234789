---------------------------- MODULE SweepProofs -----------------------------
(***************************************************************************)
(* The limit sweep beside the request handlers, for any users, prices,     *)
(* fees and number of orders: although its session goes on with rows it    *)
(* read before its locks were released, what it commits keeps the ledger   *)
(* sound and no order is filled beyond its amount.  The argument: a row's  *)
(* owner, side, price and amount never change once written, so a stale row *)
(* is only wrong about what is left of it and its status, and a commit     *)
(* writes values each of which was in range for that very row.             *)
(***************************************************************************)
EXTENDS LimitSweep, ExchangeProofs
-----------------------------------------------------------------------------
(* Rows keep their identity *)

(* What a match may not change of a row. *)
SameRow(o, p) ==
  /\ p.user = o.user /\ p.outcome = o.outcome /\ p.side = o.side
  /\ p.amount = o.amount /\ p.price = o.price
  /\ p.status = "unused" <=> o.status = "unused"

(* The rows of d are rows of e, which may have written more. *)
Extends(d, e) ==
  \A i \in OrderIds :
    d.orders[i].status # "unused" => SameRow(d.orders[i], e.orders[i])

SameRows(d, e) == \A i \in OrderIds : SameRow(d.orders[i], e.orders[i])

(* No row is priced above a dollar. *)
Capped(d) == \A i \in OrderIds : d.orders[i].price <= One

(* A fill writes its maker's row, and only what a match may change of it, *)
(* and so does the fill with its fee.                                      *)
LEMMA SettleRows ==
  ASSUME NEW d \in Ledger, NEW i \in OrderIds, NEW t, NEW qty, NEW paid,
         d.orders[i].status # "unused"
  PROVE  /\ SameRows(d, Settle(d, i, t, qty))
         /\ SameRows(d, CreditFee(Settle(d, i, t, qty), paid))
<1> DEFINE e    == Settle(d, i, t, qty)
           f    == CreditFee(e, paid)
           o    == d.orders[i]
           usdc == qty * o.price
           fee  == ProtocolFee(usdc)
           left == o.remaining - (IF o.side = "buy" THEN usdc ELSE qty)
           u    == Buyer(o, t)
           v    == Seller(o, t)
           lock == IF o.side = "buy"
                     THEN Larger(0, d.locked[u] - Smaller(o.amount - left, usdc))
                     ELSE d.locked[u]
           st   == IF left <= 0 THEN "filled" ELSE "partial"
           r    == [o EXCEPT !.remaining = left, !.status = st]
<1>1. o \in Order /\ d.orders \in [OrderIds -> Order]
  BY DEF Ledger
<1> DEFINE money == [d.balance EXCEPT ![u] = @ - usdc]
           dealt == [d.shares EXCEPT ![u][o.outcome] = @ + qty]
<1>2. e = [d EXCEPT !.balance = [money EXCEPT ![v] = @ + usdc - fee],
                    !.locked = [d.locked EXCEPT ![u] = lock],
                    !.shares = [dealt EXCEPT ![v][o.outcome] = @ - qty],
                    !.orders = [d.orders EXCEPT ![i] = r]]
      /\ f = [e EXCEPT !.collateral = @ + paid, !.fees = @ + paid]
  BY Zenon DEF Settle, CreditFee
<1>3. st # "unused"
  OBVIOUS
<1> HIDE DEF e, f, left, st, lock, fee, usdc, u, v
<1>4. e.orders = [d.orders EXCEPT ![i] = r]
  BY Zenon, <1>2 DEF Ledger
<1>5. f.orders = e.orders
  BY Zenon, <1>2 DEF Ledger
<1>6. /\ r.user = o.user /\ r.outcome = o.outcome /\ r.side = o.side
      /\ r.amount = o.amount /\ r.price = o.price /\ r.status = st
  BY <1>1 DEF Order
<1>7. SameRow(o, r)
  BY <1>3, <1>6 DEF SameRow
<1> HIDE DEF r
<1>8. SameRows(d, e)
  BY <1>1, <1>4, <1>7 DEF SameRows, SameRow
<1> QED
  BY Zenon, <1>5, <1>8 DEF SameRows, e, f

(* So does closing an order. *)
LEMMA CloseRows ==
  ASSUME NEW d \in Ledger, NEW i \in OrderIds, NEW st \in Statuses \ {"unused"},
         d.orders[i].status # "unused"
  PROVE  SameRows(d, CloseOrder(d, i, st))
<1> DEFINE e == CloseOrder(d, i, st)
           o == d.orders[i]
           r == [o EXCEPT !.status = st]
<1>1. o \in Order /\ d.orders \in [OrderIds -> Order]
  BY DEF Ledger
<1>2. e.orders = [d.orders EXCEPT ![i] = r]
  BY DEF CloseOrder, Ledger
<1>3. SameRow(o, r)
  BY <1>1 DEF SameRow, Order
<1> HIDE DEF e, r
<1> QED
  BY <1>1, <1>2, <1>3 DEF SameRows, SameRow, e

(* Identity of rows is an equivalence, and keeps the cap on prices. *)
LEMMA SameRowsFacts ==
  ASSUME NEW d, NEW e, NEW f
  PROVE  /\ SameRows(d, d)
         /\ SameRows(d, e) /\ SameRows(e, f) => SameRows(d, f)
         /\ SameRows(d, e) /\ Capped(d) => Capped(e)
         /\ SameRows(d, e) => Extends(d, e)
         /\ Extends(d, e) /\ SameRows(e, f) => Extends(d, f)
         /\ e.orders = d.orders => SameRows(d, e)
BY DEF SameRows, SameRow, Capped, Extends

-----------------------------------------------------------------------------
(* The request handlers keep them *)

RowsInv ==
  /\ Extends(db, work) /\ Capped(db) /\ Capped(work)
  /\ pc = "match" => req.price <= One

(* A transaction that ends. *)
LEMMA EndRows ==
  ASSUME RowsInv, NEW d, Extends(db, d), Capped(d), db' = d, work' = d,
         pc' = "idle"
  PROVE  RowsInv' /\ Extends(db, db')
BY Zenon DEF RowsInv, Extends, SameRow, Capped

(* The money and the shares of a filled order are not rows. *)
LEMMA FinishRows ==
  ASSUME NEW d \in Ledger, NEW s, NEW total, NEW proceeds
  PROVE  /\ PayReferral(Book(d, total)).orders = d.orders
         /\ PayReferral(Book(AMMBuy(d, s), total)).orders = d.orders
         /\ PayReferral(AMMSell(d, proceeds)).orders = d.orders
BY DEF PayReferral, Book, AMMBuy, AMMSell, Ledger

(* A request's limit is within a dollar. *)
LEMMA ReceiveRows ==
  ASSUME IInv, RowsInv, NEW r \in Requests, ReceiveOrder(r)
  PROVE  RowsInv' /\ Extends(db, db')
<1>1. r.price \in Prices \cup {NoPrice}
  BY DEF Requests
<1>2. r.price <= One
  <2>1. \A p \in Prices : p <= One
    BY ExchangeAssumption, AMMAssumption
  <2> QED
    BY <1>1, <2>1, AMMAssumption DEF NoPrice
<1>3. req' = r /\ db' = db /\ work' = work
  BY DEF ReceiveOrder
<1> QED
  BY <1>2, <1>3 DEF RowsInv, Extends, SameRow, Capped

(* An iteration of the matching loop keeps the rows. *)
LEMMA MatchRows ==
  ASSUME IInv, RowsInv, NEW i \in OrderIds, MatchMaker(i)
  PROVE  RowsInv' /\ Extends(db, db')
<1> DEFINE qty == MatchQty(work, req.side, req.amount, filled, spent, i)
           fee == ProtocolFee(qty * work.orders[i].price)
<1>0. /\ work \in Ledger /\ pc = "match" /\ work.orders[i].status # "unused"
  BY Zenon DEF IInv, TypeOK, LoopOK, MakerOK, MatchMaker
<1>1. ASSUME UNCHANGED <<db, req>>, pc' = pc, SameRows(work, work')
      PROVE  RowsInv' /\ Extends(db, db')
  <2>1. Extends(db, work') /\ Capped(work')
    BY <1>1, SameRowsFacts DEF RowsInv
  <2>2. Extends(db, db')
    BY <1>1 DEF Extends, SameRow
  <2> QED
    BY <1>1, <2>1, <2>2 DEF RowsInv, Extends, SameRow, Capped
<1>2. CASE UNCHANGED <<db, pc, work, req>>
  BY <1>1, <1>2 DEF SameRows, SameRow
<1>3. CASE Rollback("insufficient_balance")
  BY <1>3, EndRows, SameRowsFacts DEF Rollback, Ends, RowsInv
<1>4. CASE work' = CreditFee(work, fee) /\ UNCHANGED <<db, pc, req>>
  <2>1. CreditFee(work, fee).orders = work.orders
    BY <1>0 DEF CreditFee, Ledger
  <2>2. SameRows(work, CreditFee(work, fee))
    BY Zenon, <2>1, SameRowsFacts
  <2> QED
    BY Zenon, <1>1, <1>4, <2>2
<1>5. CASE /\ work' = CreditFee(Settle(work, i, req.user, qty), fee)
           /\ UNCHANGED <<db, pc, req>>
  <2>1. SameRows(work, CreditFee(Settle(work, i, req.user, qty), fee))
    BY <1>0, SettleRows
  <2> QED
    BY Zenon, <1>1, <1>5, <2>1
<1> QED
  BY Zenon, <1>2, <1>3, <1>4, <1>5 DEF MatchMaker

(* A remainder that rests takes a row nobody wrote. *)
LEMMA RestRows ==
  ASSUME IInv, RowsInv, NEW i \in OrderIds, RestRemainder(i)
  PROVE  RowsInv' /\ Extends(db, db')
<1> DEFINE n == NewOrder(work, i, Remainder)
           m == [n EXCEPT !.locked[req.user] = @ + Remainder]
<1>1. /\ work \in Ledger /\ pc = "match" /\ req.price <= One
      /\ work.orders[i].status = "unused"
  BY DEF IInv, TypeOK, RowsInv, RestRemainder, MatchingDone
<1>2. /\ m.orders = n.orders /\ n.orders[i].price = req.price
      /\ \A j \in OrderIds \ {i} : n.orders[j] = work.orders[j]
  BY <1>1 DEF NewOrder, Ledger
<1> HIDE DEF n, m
<1>3. Capped(n) /\ Capped(m)
  BY <1>1, <1>2 DEF Capped, RowsInv
<1>4. Extends(db, n) /\ Extends(db, m)
  BY <1>1, <1>2 DEF Extends, SameRow, RowsInv
<1>5. CASE Rollback("refused")
  BY <1>5, EndRows, SameRowsFacts DEF Rollback, Ends, RowsInv
<1>6. CASE Commit(m, "resting")
  BY <1>3, <1>4, <1>6, EndRows DEF Commit, Ends
<1>7. CASE Commit(n, "resting")
  BY <1>3, <1>4, <1>7, EndRows DEF Commit, Ends
<1> QED
  BY <1>5, <1>6, <1>7 DEF RestRemainder, n, m

(* A ledger whose rows are those of the session may be committed. *)
LEMMA SessionRows ==
  ASSUME RowsInv, NEW d, d.orders = work.orders, db' = d, work' = d, pc' = "idle"
  PROVE  RowsInv' /\ Extends(db, db')
<1>1. Extends(db, d) /\ Capped(d)
  BY DEF RowsInv, Extends, Capped
<1> QED
  BY <1>1, EndRows

(* Every step of a request handler keeps the identity of every row.        *)
LEMMA NextRows ==
  ASSUME IInv, RowsInv, Next
  PROVE  RowsInv' /\ Extends(db, db')
<1>0. work \in Ledger /\ db \in Ledger /\ Extends(db, db) /\ Capped(db)
      /\ (pc = "idle" => work = db)
  BY SameRowsFacts DEF IInv, TypeOK, RowsInv
<1>1. CASE \E r \in Requests : ReceiveOrder(r)
  BY <1>1, ReceiveRows
<1>2. CASE \E i \in OrderIds : MatchMaker(i)
  BY <1>2, MatchRows
<1>3. CASE \E i \in OrderIds : RestRemainder(i)
  BY <1>3, RestRows
<1>4. CASE RejectRemainder \/ SlippageRefused
  BY <1>0, <1>4, EndRows DEF RejectRemainder, SlippageRefused, Rollback, Ends
<1>5. CASE FinishFromBook
  BY <1>0, <1>5, FinishRows, SessionRows DEF FinishFromBook, Commit, Ends
<1>6. CASE FinishBuyAMM
  <2>1. CASE Rollback("refused")
    BY <1>0, <2>1, EndRows DEF Rollback, Ends
  <2>2. CASE \E s : Commit(PayReferral(Book(AMMBuy(work, s), filled + s)), "filled")
    BY <1>0, <2>2, FinishRows, SessionRows DEF Commit, Ends
  <2> QED
    BY <1>6, <2>1, <2>2 DEF FinishBuyAMM
<1>7. CASE FinishSellAMM
  <2>1. CASE Rollback("refused")
    BY <1>0, <2>1, EndRows DEF Rollback, Ends
  <2>2. CASE \E p : Commit(PayReferral(AMMSell(work, p)), "filled")
    BY <1>0, <2>2, FinishRows, SessionRows DEF Commit, Ends
  <2> QED
    BY <1>7, <2>1, <2>2 DEF FinishSellAMM
<1>8. ASSUME NEW i \in OrderIds, CancelOrder(i) \/ ExpireOrder(i)
      PROVE  RowsInv' /\ Extends(db, db')
  <2>1. /\ db.orders[i].status # "unused" /\ pc' = "idle"
        /\ \E st \in {"cancelled", "expired"} :
              db' = CloseOrder(db, i, st) /\ work' = CloseOrder(db, i, st)
    BY Zenon, <1>8 DEF CancelOrder, ExpireOrder, Atomically, Resting
  <2>2. PICK st \in {"cancelled", "expired"} :
              db' = CloseOrder(db, i, st) /\ work' = CloseOrder(db, i, st)
    BY <2>1
  <2>3. SameRows(db, CloseOrder(db, i, st))
    BY <1>0, <2>1, CloseRows DEF Statuses
  <2>4. Extends(db, CloseOrder(db, i, st)) /\ Capped(CloseOrder(db, i, st))
    BY <1>0, <2>3, SameRowsFacts
  <2> QED
    BY <2>1, <2>2, <2>4, EndRows
<1>9. ASSUME NEW u \in Users, NEW n \in Lots, Split(u, n) \/ Merge(u, n)
      PROVE  RowsInv' /\ Extends(db, db')
  <2>1. db'.orders = db.orders /\ work' = db' /\ pc' = "idle" /\ pc = "idle"
    BY Zenon, <1>0, <1>9 DEF Split, Merge, Atomically, Ledger
  <2> QED
    BY <1>0, <2>1, SessionRows
<1> QED
  BY <1>1, <1>2, <1>3, <1>4, <1>5, <1>6, <1>7, <1>8, <1>9 DEF Next, ExecuteOrder

-----------------------------------------------------------------------------
(* What the sweep's session loads, makes of it and writes *)

(* The rows a session starts a transaction with, stale ones among them,    *)
(* are a sound ledger.                                                     *)
LEMMA ViewSound ==
  ASSUME LedgerOK(db), LedgerOK(seen), listed \subseteq OrderIds,
         \A i \in listed : SameRow(db.orders[i], seen.orders[i])
  PROVE  LedgerOK(View(db)) /\ SameRows(db, View(db))
<1> DEFINE e == View(db)
           O == [i \in OrderIds |-> IF i \in listed THEN seen.orders[i] ELSE db.orders[i]]
           C == IF kept.pool THEN seen.collateral ELSE db.collateral
           F == IF kept.pool THEN seen.fees ELSE db.fees
           R == IF kept.pool THEN seen.reserve ELSE db.reserve
           B == [u \in Users |-> IF u = kept.wallet THEN seen.balance[u] ELSE db.balance[u]]
           L == [u \in Users |-> IF u = kept.wallet THEN seen.locked[u] ELSE db.locked[u]]
           S == [u \in Users |-> [o \in Outcomes |->
                   IF u = kept.holder /\ o = kept.outcome
                     THEN seen.shares[u][o] ELSE db.shares[u][o]]]
<1>1. FieldsTyped(db) /\ FieldsTyped(seen) /\ db \in Ledger
  BY LedgerByFields DEF LedgerOK
<1>2. e = [db EXCEPT !.orders = O, !.collateral = C, !.fees = F, !.reserve = R,
                     !.balance = B, !.locked = L, !.shares = S]
  BY DEF View
<1> HIDE DEF e, O, C, F, R, B, L, S
<1>3. /\ e.orders = O /\ e.collateral = C /\ e.fees = F /\ e.reserve = R
      /\ e.balance = B /\ e.locked = L /\ e.shares = S
      /\ e.referred = db.referred /\ e.rewards = db.rewards
  BY <1>1, <1>2 DEF Ledger
<1>4. e = Fields(e)
  BY <1>1, <1>2, Zenon DEF Fields, Ledger
<1>5. /\ e.balance \in [Users -> Int] /\ e.locked \in [Users -> Int]
      /\ \A u \in Users : 0 <= e.locked[u] /\ e.locked[u] <= e.balance[u]
  BY <1>1, <1>3 DEF FieldsTyped, LedgerOK, WithinConstraints, B, L
<1>6. /\ e.shares \in [Users -> [Outcomes -> Int]]
      /\ \A u \in Users, o \in Outcomes : e.shares[u][o] >= 0
  BY <1>1, <1>3 DEF FieldsTyped, LedgerOK, WithinConstraints, S
<1>7. /\ e.reserve \in [Outcomes -> Int] /\ e.collateral \in Int /\ e.fees \in Int
      /\ e.collateral >= 0 /\ \A o \in Outcomes : e.reserve[o] >= 0
  BY Zenon, <1>1, <1>3 DEF FieldsTyped, LedgerOK, WithinConstraints, C, F, R
<1>8. /\ e.orders \in [OrderIds -> Order]
      /\ \A i \in OrderIds : RowOK(e.orders[i])
  BY <1>1, <1>3 DEF FieldsTyped, LedgerOK, O
<1>9. FieldsTyped(e) /\ WithinConstraints(e)
  BY Zenon, <1>1, <1>3, <1>5, <1>6, <1>7, <1>8 DEF FieldsTyped, WithinConstraints
<1>10. SameRows(db, e)
  BY <1>3 DEF SameRows, SameRow, O
<1> QED
  BY <1>4, <1>8, <1>9, <1>10, LedgerByFields DEF LedgerOK, e

(* A changed attribute is the session's, any other the database's. *)
LEMMA ChangedIsEither ==
  ASSUME NEW old, NEW new, NEW row
  PROVE  Changed(old, new, row) = new \/ Changed(old, new, row) = row
BY DEF Changed

(* What a commit writes, once the CHECK constraints accept it, is a sound  *)
(* ledger: each attribute comes from one of two sound ones, and the two    *)
(* agree on whose row it is and on its amount.                             *)
LEMMA FlushedSound ==
  ASSUME LedgerOK(db), NEW w, LedgerOK(w), SameRows(db, w), Accepted(Flushed(w))
  PROVE  LedgerOK(Flushed(w)) /\ SameRows(db, Flushed(w))
<1> DEFINE e == Flushed(w)
           left(i) == Changed(base.orders[i].remaining, w.orders[i].remaining,
                              db.orders[i].remaining)
           st(i) == Changed(base.orders[i].status, w.orders[i].status,
                            db.orders[i].status)
           row(i) == [[db.orders[i] EXCEPT !.remaining = left(i)]
                        EXCEPT !.status = st(i)]
           O == [i \in OrderIds |-> row(i)]
           C == Changed(base.collateral, w.collateral, db.collateral)
           F == Changed(base.fees, w.fees, db.fees)
           R == [o \in Outcomes |-> Changed(base.reserve[o], w.reserve[o], db.reserve[o])]
           B == [u \in Users |-> Changed(base.balance[u], w.balance[u], db.balance[u])]
           L == [u \in Users |-> Changed(base.locked[u], w.locked[u], db.locked[u])]
           S == [u \in Users |-> [o \in Outcomes |->
                   Changed(base.shares[u][o], w.shares[u][o], db.shares[u][o])]]
<1>1. FieldsTyped(db) /\ FieldsTyped(w) /\ db \in Ledger
  BY LedgerByFields DEF LedgerOK
<1>2. e = [db EXCEPT !.orders = O, !.collateral = C, !.fees = F, !.reserve = R,
                     !.balance = B, !.locked = L, !.shares = S]
  <2> DEFINE Q == [i \in OrderIds |->
                     [db.orders[i] EXCEPT !.remaining = left(i), !.status = st(i)]]
  <2>1. e = [db EXCEPT !.orders = Q, !.collateral = C, !.fees = F, !.reserve = R,
                       !.balance = B, !.locked = L, !.shares = S]
    BY Zenon DEF Flushed
  <2>2. Q = O
    BY <1>1 DEF FieldsTyped, Order
  <2> QED
    BY Zenon, <2>1, <2>2
<1> HIDE DEF e, O, C, F, R, B, L, S
<1>4. /\ e.orders = O /\ e.collateral = C /\ e.fees = F /\ e.reserve = R
      /\ e.balance = B /\ e.locked = L /\ e.shares = S
      /\ e.referred = db.referred /\ e.rewards = db.rewards
  BY <1>1, <1>2 DEF Ledger
<1>5. e = Fields(e)
  BY <1>1, <1>2, Zenon DEF Fields, Ledger
<1>6. ASSUME NEW i \in OrderIds
      PROVE  row(i) \in Order /\ RowOK(row(i)) /\ SameRow(db.orders[i], row(i))
  <2> DEFINE o == db.orders[i]
             p == w.orders[i]
  <2>1. o \in Order /\ p \in Order /\ RowOK(o) /\ RowOK(p) /\ SameRow(o, p)
    BY Zenon, <1>1 DEF FieldsTyped, LedgerOK, SameRows
  <2>2. /\ left(i) = o.remaining \/ left(i) = p.remaining
        /\ st(i) = o.status \/ st(i) = p.status
    BY Zenon, ChangedIsEither
  <2> HIDE DEF o, p, left, st
  <2>3. /\ left(i) \in 0..o.amount /\ left(i) \in Int /\ st(i) \in Statuses
        /\ st(i) = "unused" <=> o.status = "unused"
    BY <2>1, <2>2 DEF RowOK, SameRow, Order
  <2> DEFINE r == [[o EXCEPT !.remaining = left(i)] EXCEPT !.status = st(i)]
  <2>4. /\ r \in Order /\ r.remaining = left(i) /\ r.status = st(i)
        /\ r.user = o.user /\ r.outcome = o.outcome /\ r.side = o.side
        /\ r.amount = o.amount /\ r.price = o.price
    <3>1. /\ r.remaining = left(i) /\ r.status = st(i)
          /\ r.user = o.user /\ r.outcome = o.outcome /\ r.side = o.side
          /\ r.amount = o.amount /\ r.price = o.price
      BY <2>1 DEF Order
    <3> QED
      BY Zenon, <2>1, <2>3, <3>1, RowUpdate
  <2> HIDE DEF r
  <2>5. RowOK(r) /\ SameRow(o, r)
    BY Zenon, <2>1, <2>3, <2>4 DEF RowOK, SameRow
  <2> QED
    BY <2>4, <2>5 DEF r, o
<1> HIDE DEF row
<1>7. /\ e.orders \in [OrderIds -> Order]
      /\ \A i \in OrderIds : RowOK(e.orders[i])
      /\ SameRows(db, e)
  BY Zenon, <1>4, <1>6 DEF SameRows, O
<1>8. e.balance \in [Users -> Int] /\ e.locked \in [Users -> Int]
  BY <1>1, <1>4 DEF FieldsTyped, Changed, B, L
<1>9. e.shares \in [Users -> [Outcomes -> Int]]
  BY <1>1, <1>4 DEF FieldsTyped, Changed, S
<1>10. /\ e.reserve \in [Outcomes -> Int] /\ e.collateral \in Int /\ e.fees \in Int
       /\ e.collateral >= 0 /\ \A o \in Outcomes : e.reserve[o] >= 0
  BY <1>1, <1>4 DEF FieldsTyped, Changed, LedgerOK, WithinConstraints, C, F, R
<1>11. FieldsTyped(e) /\ WithinConstraints(e)
  <2>0. e.referred \in SUBSET Users /\ e.rewards \in Nat
    BY Zenon, <1>1, <1>4 DEF FieldsTyped
  <2>1. FieldsTyped(e)
    BY Zenon, <1>7, <1>8, <1>9, <1>10, <2>0 DEF FieldsTyped
  <2>2. Accepted(e)
    BY Zenon, <1>1 DEF e
  <2> QED
    BY Zenon, <1>10, <2>1, <2>2 DEF WithinConstraints, Accepted
<1> QED
  BY Zenon, <1>5, <1>7, <1>11, LedgerByFields DEF LedgerOK, e

(* The taker's row after a fill within what it has left. *)
LEMMA ReduceSound ==
  ASSUME NEW d, LedgerOK(d), NEW i \in OrderIds, d.orders[i].status # "unused",
         NEW by \in Nat, by <= d.orders[i].remaining
  PROVE  /\ LedgerOK(Reduce(d, i, by)) /\ SameRows(d, Reduce(d, i, by))
         /\ \A j \in OrderIds \ {i} : Reduce(d, i, by).orders[j] = d.orders[j]
<1> DEFINE e == Reduce(d, i, by)
           o == d.orders[i]
           left == o.remaining - by
           st == IF left <= 0 THEN "filled" ELSE "partial"
           r == [[o EXCEPT !.remaining = left] EXCEPT !.status = st]
<1>1. FieldsTyped(d) /\ d \in Ledger /\ o \in Order /\ RowOK(o)
  BY Zenon, LedgerByFields DEF LedgerOK, FieldsTyped
<1>2. left \in 0..o.amount /\ left \in Int /\ st \in Statuses /\ st # "unused"
  BY <1>1 DEF RowOK, Order, Statuses
<1>0. e = [d EXCEPT !.orders[i].remaining = left, !.orders[i].status = st]
  BY DEF Reduce
<1> HIDE DEF e, left, st
<1>3. /\ e.orders = [d.orders EXCEPT ![i] = r]
      /\ e.balance = d.balance /\ e.locked = d.locked /\ e.shares = d.shares
      /\ e.collateral = d.collateral /\ e.reserve = d.reserve /\ e.fees = d.fees
      /\ e.referred = d.referred /\ e.rewards = d.rewards
  BY Zenon, <1>0, <1>1 DEF Ledger
<1>4. e = Fields(e)
  BY <1>0, <1>1, Zenon DEF Fields, Ledger
<1>5. /\ r \in Order /\ r.remaining = left /\ r.status = st
      /\ r.user = o.user /\ r.outcome = o.outcome /\ r.side = o.side
      /\ r.amount = o.amount /\ r.price = o.price
  <2>1. /\ r.remaining = left /\ r.status = st
        /\ r.user = o.user /\ r.outcome = o.outcome /\ r.side = o.side
        /\ r.amount = o.amount /\ r.price = o.price
    BY <1>1 DEF Order
  <2> QED
    BY Zenon, <1>1, <1>2, <2>1, RowUpdate
<1> HIDE DEF r
<1>6. RowOK(r) /\ SameRow(o, r)
  BY Zenon, <1>1, <1>2, <1>5 DEF RowOK, SameRow
<1>7. /\ e.orders \in [OrderIds -> Order]
      /\ \A j \in OrderIds : RowOK(e.orders[j]) /\ SameRow(d.orders[j], e.orders[j])
      /\ \A j \in OrderIds \ {i} : e.orders[j] = d.orders[j]
  BY <1>1, <1>3, <1>5, <1>6 DEF FieldsTyped, LedgerOK, SameRow
<1>8. FieldsTyped(e) /\ WithinConstraints(e)
  BY Zenon, <1>1, <1>3, <1>7 DEF FieldsTyped, LedgerOK, WithinConstraints
<1> QED
  BY Zenon, <1>4, <1>7, <1>8, LedgerByFields DEF LedgerOK, SameRows, e

(* What match_pending_order asks of a maker is within what the maker and   *)
(* the taker have left, each in its own unit: dividing a bid's dollars by  *)
(* a dollar, not by its price, only errs low because no price is above it. *)
LEMMA SweepQtyBounded ==
  ASSUME NEW o \in Order, NEW m \in Order, o.remaining \in Nat, m.remaining \in Nat,
         m.price \in 1..One, m.side # o.side, NEW qty, qty = SweepQty(o, m)
  PROVE  /\ qty \in Nat /\ WithinMaker(m, qty)
         /\ o.side = "buy" => qty * m.price <= o.remaining
         /\ o.side # "buy" => qty <= o.remaining
<1>0. /\ m.price \in Nat \ {0} /\ One \in Nat \ {0} /\ m.price <= One
      /\ m.side \in Sides /\ o.side \in Sides
  BY AMMAssumption DEF Order
<1>1. CASE o.side = "buy"
  <2>1. /\ o.remaining \div m.price \in Nat
        /\ (o.remaining \div m.price) * m.price <= o.remaining
    BY Zenon, <1>0, DivFacts
  <2>2. qty = Smaller(m.remaining, o.remaining \div m.price)
    BY <1>1, Zenon DEF SweepQty
  <2>3. qty \in Nat /\ qty <= m.remaining /\ qty <= o.remaining \div m.price
    BY Zenon, <2>1, <2>2, SmallerFacts
  <2>4. qty * m.price <= (o.remaining \div m.price) * m.price
    BY <1>0, <2>1, <2>3
  <2>5. qty * m.price \in Nat /\ (o.remaining \div m.price) * m.price \in Nat
    BY Zenon, <1>0, <2>1, <2>3, ProductNat
  <2>6. qty * m.price <= o.remaining
    BY <2>1, <2>4, <2>5
  <2> QED
    BY <1>0, <1>1, <2>3, <2>6 DEF WithinMaker, Sides
<1>2. CASE o.side # "buy"
  <2>1. /\ m.remaining \div One \in Nat
        /\ (m.remaining \div One) * One <= m.remaining
    BY Zenon, <1>0, DivFacts
  <2>2. qty = Smaller(m.remaining \div One, o.remaining)
    BY <1>2, Zenon DEF SweepQty
  <2>3. qty \in Nat /\ qty <= m.remaining \div One /\ qty <= o.remaining
    BY Zenon, <2>1, <2>2, SmallerFacts
  <2>4. qty * m.price <= qty * One
    BY <1>0, <2>3
  <2>5. qty * One <= (m.remaining \div One) * One
    BY <1>0, <2>1, <2>3
  <2>6. /\ qty * m.price \in Nat /\ qty * One \in Nat
        /\ (m.remaining \div One) * One \in Nat
    BY <1>0, <2>1, <2>3, ProductNat
  <2>7. qty * m.price <= m.remaining
    BY <2>1, <2>4, <2>5, <2>6
  <2> QED
    BY <1>0, <1>2, <2>3, <2>7 DEF WithinMaker, Sides
<1> QED
  BY <1>1, <1>2

(* The order being matched, as ledger d has it. *)
Matched(d, o) == cur \in OrderIds /\ o = d.orders[cur] /\ o.status # "unused"

(* A bid its owner's wallet covers, and an ask its owner's position, the   *)
(* reserve and the escrow cover.                                           *)
BidCovered(d, o) == Available(d, o.user) >= o.remaining

AskCovered(d, o, pay) ==
  /\ CanSell(d.reserve, o.outcome, o.remaining)
  /\ pay = SellProceeds(d.reserve, o.outcome, o.remaining)
  /\ ~(pay > d.collateral) /\ d.shares[o.user][o.outcome] >= o.remaining

(* What the row being matched is, and what is left of it is all taken.     *)
LEMMA MatchedFacts ==
  ASSUME NEW d, LedgerOK(d), NEW o, Matched(d, o)
  PROVE  /\ FieldsTyped(d) /\ d \in Ledger /\ o \in Order /\ RowOK(o)
         /\ o.user \in Users /\ o.outcome \in Outcomes /\ o.remaining \in Nat
         /\ LedgerOK(Reduce(d, cur, o.remaining))
         /\ SameRows(d, Reduce(d, cur, o.remaining))
<1>1. FieldsTyped(d) /\ d \in Ledger
  BY Zenon, LedgerByFields DEF LedgerOK
<1>2. o \in Order /\ RowOK(o) /\ o.status # "unused"
  BY Zenon, <1>1 DEF FieldsTyped, LedgerOK, Matched
<1>3. /\ o.user \in Users /\ o.outcome \in Outcomes
      /\ o.remaining \in 0..o.amount /\ o.amount \in Nat
  BY Zenon, <1>2 DEF RowOK, Order
<1>4. o.remaining \in Nat /\ o.remaining <= o.remaining
  BY <1>3
<1>5. cur \in OrderIds /\ d.orders[cur] = o
  BY Zenon DEF Matched
<1>6. /\ LedgerOK(Reduce(d, cur, o.remaining))
      /\ SameRows(d, Reduce(d, cur, o.remaining))
  BY Zenon, <1>2, <1>4, <1>5, ReduceSound
<1> QED
  BY Zenon, <1>1, <1>2, <1>3, <1>4, <1>6

(* The AMM leg of a bid its owner's wallet covers. *)
LEMMA SweepBuySound ==
  ASSUME NEW d, LedgerOK(d), NEW o, Matched(d, o), BidCovered(d, o),
         NEW s, s \in BuyShares(d.reserve, o.outcome, o.remaining)
  PROVE  LedgerOK(SweepBuyAMM(d, o, s)) /\ SameRows(d, SweepBuyAMM(d, o, s))
<1> DEFINE v == o.user
           out == o.outcome
           n == o.remaining
           fee == ProtocolFee((n * d.reserve[out]) \div Total(d.reserve))
           b == Reduce(d, cur, n)
           lock == IF b.locked[v] > 0 THEN Larger(0, b.locked[v] - n) ELSE b.locked[v]
           e == SweepBuyAMM(d, o, s)
<1>1. /\ FieldsTyped(d) /\ d \in Ledger /\ o \in Order /\ RowOK(o)
      /\ v \in Users /\ out \in Outcomes /\ n \in Nat
  BY Zenon, MatchedFacts
<1>2. LedgerOK(b) /\ SameRows(d, b)
  BY Zenon, MatchedFacts
<1>3. FieldsTyped(b) /\ b \in Ledger
  BY Zenon, <1>2, LedgerByFields DEF LedgerOK
<1>4. b.locked = d.locked /\ b.balance = d.balance
  BY <1>1 DEF Reduce, Ledger
<1>5. s \in Nat /\ fee \in Nat
  <2>1. s \in Nat
    BY Zenon, <1>1, BuySharesNat
  <2>2. d.reserve[out] \in Nat \ {0} /\ Total(d.reserve) \in Nat \ {0}
    <3>1. d.reserve[out] > 0
      BY Zenon DEF BuyShares
    <3> QED
      BY <1>1, <3>1 DEF FieldsTyped, Outcomes, LedgerOK, WithinConstraints, Total
  <2> DEFINE c == n * d.reserve[out]
  <2>3. c \in Nat
    BY Zenon, <1>1, <2>2, ProductNat
  <2> HIDE DEF c
  <2>4. c \div Total(d.reserve) \in Nat
    BY Zenon, <2>2, <2>3, DivFacts
  <2> QED
    BY Zenon, <2>1, <2>4, ProtocolFeeBounded DEF c
<1>6. e = [b EXCEPT !.balance[v] = @ - n, !.locked[v] = lock,
                    !.collateral = @ + n, !.fees = @ + fee,
                    !.shares[v][out] = @ + s, !.reserve[out] = @ + s]
  BY Zenon, <1>3 DEF SweepBuyAMM, Ledger
<1>7. n <= b.balance[v] - b.locked[v]
  <2>1. d.balance[v] \in Int /\ d.locked[v] \in Int
    BY Zenon, <1>1 DEF FieldsTyped
  <2> QED
    BY Zenon, <1>1, <1>4, <2>1 DEF Available, BidCovered
<1>a. v \in Users /\ out \in Outcomes /\ n \in Nat
  BY Zenon, <1>1
<1>b. /\ b.balance \in [Users -> Int] /\ b.locked \in [Users -> Int]
      /\ b.shares \in [Users -> [Outcomes -> Int]] /\ b.reserve \in [Outcomes -> Int]
      /\ b.collateral \in Int /\ b.fees \in Int
  BY Zenon, <1>3 DEF FieldsTyped
<1>c. /\ \A u \in Users : 0 <= b.locked[u] /\ b.locked[u] <= b.balance[u]
      /\ \A u \in Users, p \in Outcomes : b.shares[u][p] >= 0
      /\ \A p \in Outcomes : b.reserve[p] >= 0
      /\ b.collateral >= 0
  BY Zenon, <1>2 DEF LedgerOK, WithinConstraints
<1> HIDE DEF e, fee, b, lock, n, out, v
<1>8. lock \in Nat /\ lock <= b.balance[v] - n
  <2>1. b.balance[v] \in Int /\ b.locked[v] \in Int /\ 0 <= b.locked[v]
    BY Zenon, <1>a, <1>b, <1>c
  <2> QED
    BY <1>a, <1>7, <2>1 DEF lock, Larger
<1>9. /\ e.balance = [b.balance EXCEPT ![v] = @ - n]
      /\ e.locked = [b.locked EXCEPT ![v] = lock]
      /\ e.shares = [b.shares EXCEPT ![v][out] = @ + s]
      /\ e.reserve = [b.reserve EXCEPT ![out] = @ + s]
  BY <1>3, <1>6 DEF Ledger
<1>10. /\ e.collateral = b.collateral + n /\ e.fees = b.fees + fee
       /\ e.orders = b.orders /\ e.referred = b.referred /\ e.rewards = b.rewards
  BY <1>3, <1>6 DEF Ledger
<1>11. e = Fields(e)
  BY <1>3, <1>6, Zenon DEF Fields, Ledger
<1>12. /\ e.balance \in [Users -> Int] /\ e.locked \in [Users -> Int]
       /\ \A u \in Users : 0 <= e.locked[u] /\ e.locked[u] <= e.balance[u]
  BY <1>a, <1>b, <1>c, <1>8, <1>9
<1>13. /\ e.shares \in [Users -> [Outcomes -> Int]]
       /\ \A u \in Users, p \in Outcomes : e.shares[u][p] >= 0
  BY <1>a, <1>b, <1>c, <1>5, <1>9
<1>14. /\ e.reserve \in [Outcomes -> Int] /\ e.collateral \in Int /\ e.fees \in Int
       /\ e.collateral >= 0 /\ \A p \in Outcomes : e.reserve[p] >= 0
  BY <1>a, <1>b, <1>c, <1>5, <1>9, <1>10
<1>15. FieldsTyped(e) /\ WithinConstraints(e)
  BY Zenon, <1>3, <1>10, <1>12, <1>13, <1>14 DEF FieldsTyped, WithinConstraints
<1>16. LedgerOK(e) /\ SameRows(d, e)
  BY Zenon, <1>2, <1>10, <1>11, <1>15, LedgerByFields DEF LedgerOK, SameRows
<1> QED
  BY Zenon, <1>16 DEF e

(* Money that comes in leaves a wallet covering its reservations.          *)
LEMMA CreditCovers ==
  ASSUME NEW r \in Int, NEW c \in Int, NEW n \in Nat, r <= c, NEW d, d = c + n \/ d = c
  PROVE  d \in Int /\ r <= d
OBVIOUS

(* The AMM leg of an ask its owner's position, the reserve and the escrow  *)
(* cover.                                                                  *)
LEMMA SweepSellSound ==
  ASSUME NEW d, LedgerOK(d), NEW o, Matched(d, o), NEW pay, AskCovered(d, o, pay)
  PROVE  LedgerOK(SweepSellAMM(d, o, pay)) /\ SameRows(d, SweepSellAMM(d, o, pay))
<1> DEFINE v == o.user
           out == o.outcome
           n == o.remaining
           fee == ProtocolFee((n * One * d.reserve[out]) \div Total(d.reserve))
           b == Reduce(d, cur, n)
           e == SweepSellAMM(d, o, pay)
<1>1. /\ FieldsTyped(d) /\ d \in Ledger /\ o \in Order /\ RowOK(o)
      /\ v \in Users /\ out \in Outcomes /\ n \in Nat
  BY Zenon, MatchedFacts
<1>2. LedgerOK(b) /\ SameRows(d, b)
  BY Zenon, MatchedFacts
<1>3. FieldsTyped(b) /\ b \in Ledger
  BY Zenon, <1>2, LedgerByFields DEF LedgerOK
<1>4. /\ b.shares = d.shares /\ b.reserve = d.reserve /\ b.collateral = d.collateral
  BY Zenon, <1>1 DEF Reduce, Ledger
<1>5. pay \in Nat /\ n <= d.reserve[out]
  BY Zenon, <1>1, SellProceedsNat DEF AskCovered
<1>6. fee \in Nat
  <2>1. d.reserve[out] \in Nat \ {0} /\ Total(d.reserve) \in Nat \ {0}
    <3>1. d.reserve[out] > 0
      BY Zenon DEF CanSell, AskCovered
    <3>2. d.reserve \in [Outcomes -> Int] /\ \A p \in Outcomes : d.reserve[p] >= 0
      BY Zenon, <1>1 DEF FieldsTyped, LedgerOK, WithinConstraints
    <3> HIDE DEF n, v, out
    <3>3. \A p \in Outcomes : d.reserve[p] \in Nat
      BY <3>2
    <3> QED
      BY <1>1, <3>1, <3>3 DEF Outcomes, Total
  <2> DEFINE c == n * One * d.reserve[out]
  <2>2. c \in Nat
    BY Zenon, <1>1, <2>1, ProductNat, AMMAssumption
  <2> HIDE DEF c
  <2>3. c \div Total(d.reserve) \in Nat
    BY Zenon, <2>1, <2>2, DivFacts
  <2> QED
    BY Zenon, <2>3, ProtocolFeeBounded DEF c
<1>7. e = [b EXCEPT !.balance[v] = @ + pay, !.collateral = @ - pay,
                    !.fees = @ + fee, !.shares[v][out] = @ - n,
                    !.reserve[out] = @ - n]
  BY Zenon, <1>3 DEF SweepSellAMM, Ledger
<1>8. n <= b.shares[v][out] /\ n <= b.reserve[out] /\ pay <= b.collateral
  <2>1. d.shares[v][out] \in Int /\ d.collateral \in Int
    BY Zenon, <1>1, GuardsTyped
  <2>2. n \in Int /\ pay \in Int
    BY <1>1, <1>5
  <2>3. d.shares[v][out] >= n /\ ~(pay > d.collateral)
    BY Zenon DEF AskCovered
  <2> HIDE DEF n, v, out, b
  <2>4. n <= d.shares[v][out] /\ pay <= d.collateral
    BY <2>1, <2>2, <2>3
  <2> QED
    BY Zenon, <1>4, <1>5, <2>4
<1>a. v \in Users /\ out \in Outcomes /\ n \in Nat
  BY Zenon, <1>1
<1>b. /\ b.balance \in [Users -> Int] /\ b.locked \in [Users -> Int]
      /\ b.shares \in [Users -> [Outcomes -> Int]] /\ b.reserve \in [Outcomes -> Int]
      /\ b.collateral \in Int /\ b.fees \in Int
  BY Zenon, <1>3 DEF FieldsTyped
<1>c. /\ \A u \in Users : 0 <= b.locked[u] /\ b.locked[u] <= b.balance[u]
      /\ \A u \in Users, p \in Outcomes : b.shares[u][p] >= 0
      /\ \A p \in Outcomes : b.reserve[p] >= 0
      /\ b.collateral >= 0
  BY Zenon, <1>2 DEF LedgerOK, WithinConstraints
<1> HIDE DEF e, fee, b, n, out, v
<1>9. /\ e.balance = [b.balance EXCEPT ![v] = @ + pay]
      /\ e.shares = [b.shares EXCEPT ![v][out] = @ - n]
      /\ e.reserve = [b.reserve EXCEPT ![out] = @ - n]
  BY Zenon, <1>3, <1>7 DEF Ledger
<1>e. /\ e.collateral = b.collateral - pay /\ e.fees = b.fees + fee
  BY Zenon, <1>3, <1>7 DEF Ledger
<1>f. /\ e.locked = b.locked /\ e.orders = b.orders
      /\ e.referred = b.referred /\ e.rewards = b.rewards
  BY <1>3, <1>7 DEF Ledger
<1>10. e = Fields(e)
  BY <1>3, <1>7, Zenon DEF Fields, Ledger
<1>11. /\ e.balance \in [Users -> Int] /\ e.collateral \in Int /\ e.collateral >= 0
       /\ \A u \in Users : 0 <= e.locked[u] /\ e.locked[u] <= e.balance[u]
  <2>1. pay \in Nat /\ b.collateral \in Int /\ pay <= b.collateral
    BY Zenon, <1>5, <1>b, <1>8
  <2>2. e.collateral \in Int /\ e.collateral >= 0
    BY <2>1, <1>e
  <2>3. b.balance \in [Users -> Int] /\ b.locked \in [Users -> Int]
    BY Zenon, <1>b
  <2>4. \A u \in Users : 0 <= b.locked[u] /\ b.locked[u] <= b.balance[u]
    BY Zenon, <1>c
  <2>5. e.balance = [b.balance EXCEPT ![v] = b.balance[v] + pay] /\ e.locked = b.locked
    BY Zenon, <1>9, <1>f
  <2>6. ASSUME NEW u \in Users
        PROVE  e.balance[u] \in Int /\ b.locked[u] <= e.balance[u]
    <3>1. b.balance[u] \in Int /\ b.locked[u] \in Int /\ b.locked[u] <= b.balance[u]
      BY Zenon, <2>3, <2>4
    <3>2. e.balance[u] = b.balance[u] + pay \/ e.balance[u] = b.balance[u]
      BY Zenon, <2>3, <2>5
    <3> QED
      BY Zenon, <2>1, <3>1, <3>2, CreditCovers
  <2>7. e.balance \in [Users -> Int]
    <3>1. e.balance = [u \in Users |-> e.balance[u]]
      BY Zenon, <2>3, <2>5
    <3> QED
      BY Zenon, <2>6, <3>1
  <2> QED
    BY Zenon, <2>2, <2>4, <2>5, <2>6, <2>7
<1>12. /\ e.shares \in [Users -> [Outcomes -> Int]]
       /\ \A u \in Users, p \in Outcomes : e.shares[u][p] >= 0
  <2>1. /\ e.shares[v] = [b.shares[v] EXCEPT ![out] = @ - n]
        /\ \A u \in Users \ {v} : e.shares[u] = b.shares[u]
        /\ e.shares = [u \in Users |-> e.shares[u]]
    <3>1. e.shares = [b.shares EXCEPT ![v][out] = @ - n] /\ b.shares \in [Users -> [Outcomes -> Int]]
      BY Zenon, <1>9, <1>b
    <3> QED
      BY Zenon, <1>a, <3>1
  <2>0. /\ n <= b.shares[v][out] /\ b.shares \in [Users -> [Outcomes -> Int]]
        /\ \A u \in Users, p \in Outcomes : b.shares[u][p] >= 0
    BY Zenon, <1>b, <1>c, <1>8
  <2>2. ASSUME NEW u \in Users
        PROVE  /\ e.shares[u] \in [Outcomes -> Int]
               /\ \A p \in Outcomes : e.shares[u][p] >= 0
    <3>1. CASE u = v
      <4>1. e.shares[u] = [b.shares[v] EXCEPT ![out] = @ - n] /\ n \in Nat
        BY Zenon, <1>a, <2>1, <3>1
      <4>2. b.shares[v] \in [Outcomes -> Int] /\ n <= b.shares[v][out]
        BY Zenon, <1>a, <2>0
      <4>3. \A p \in Outcomes : b.shares[v][p] >= 0
        BY Zenon, <1>a, <2>0
      <4> QED
        BY <1>a, <4>1, <4>2, <4>3
    <3>2. CASE u # v
      BY Zenon, <2>0, <2>1, <3>2
    <3> QED
      BY Zenon, <3>1, <3>2
  <2> QED
    BY Zenon, <2>1, <2>2
<1>13. /\ e.reserve \in [Outcomes -> Int] /\ \A p \in Outcomes : e.reserve[p] >= 0
  <2>1. /\ b.reserve \in [Outcomes -> Int] /\ n <= b.reserve[out]
        /\ \A p \in Outcomes : b.reserve[p] >= 0
        /\ e.reserve = [b.reserve EXCEPT ![out] = @ - n]
    BY Zenon, <1>b, <1>c, <1>8, <1>9
  <2> QED
    BY <1>a, <2>1
<1>d. e.fees \in Int
  <2>1. b.fees \in Int
    BY Zenon, <1>b
  <2> QED
    BY <1>6, <1>e, <2>1
<1>14. FieldsTyped(e) /\ WithinConstraints(e)
  BY Zenon, <1>3, <1>f, <1>11, <1>12, <1>13, <1>d DEF FieldsTyped, WithinConstraints
<1>15. LedgerOK(e) /\ SameRows(d, e)
  BY Zenon, <1>2, <1>f, <1>10, <1>14, LedgerByFields DEF LedgerOK, SameRows
<1> QED
  BY Zenon, <1>15 DEF e

-----------------------------------------------------------------------------
(* The inductive invariant *)

(* The makers still to visit are written rows of others on the other side. *)
Opposed(i) ==
  /\ work.orders[i].status # "unused"
  /\ work.orders[i].user # work.orders[cur].user
  /\ work.orders[i].side # work.orders[cur].side

(* Within the sweep's transaction. *)
InSweep ==
  /\ LedgerOK(db) /\ LedgerOK(work) /\ SameRows(db, work)
  /\ req \in Request /\ requests \in Nat /\ filled = 0 /\ spent = 0
  /\ swpc \in {"scan", "match"}
  /\ swpc = "scan" => makers = {}
  /\ swpc = "match" => cur \in listed
  /\ makers \subseteq OrderIds /\ \A i \in makers : Opposed(i)

(* The objects the session holds are sound, and those of the orders of its *)
(* list are still the same orders in the database.                         *)
SessionOK ==
  /\ LedgerOK(base) /\ LedgerOK(seen)
  /\ queue \subseteq listed /\ listed \subseteq OrderIds
  /\ kept \in Objects /\ sweeps \in Nat
  /\ \A i \in listed : /\ db.orders[i].status # "unused"
                        /\ SameRow(db.orders[i], seen.orders[i])

SweepInv ==
  /\ SessionOK /\ Capped(db)
  /\ pc = "sweep" => InSweep
  /\ pc # "sweep" => IInv /\ RowsInv /\ swpc \in {"off", "scan"}

(* The initial state satisfies it. *)
LEMMA InitSweepInv == SweepInit => SweepInv
<1> SUFFICES ASSUME SweepInit
             PROVE  SweepInv
  OBVIOUS
<1>1. IInv /\ LedgerOK(Ledger0)
  BY InitIInv, Ledger0Sound DEF SweepInit
<1>2. \A i \in OrderIds : Ledger0.orders[i].price <= One
  <2>1. Ledger0.orders = [i \in OrderIds |-> Unused] /\ Unused.price = 0
    BY Zenon DEF Ledger0, Unused
  <2>2. 0 <= One
    BY AMMAssumption
  <2> QED
    BY Zenon, <2>1, <2>2
<1>3. Capped(db) /\ Capped(work) /\ pc = "idle" /\ Extends(db, work)
  BY Zenon, <1>2, SameRowsFacts DEF SweepInit, Init, Capped
<1>4. kept \in Objects
  BY Zenon DEF SweepInit, NothingKept, Objects, Outcomes
<1> QED
  BY Zenon, <1>1, <1>3, <1>4 DEF SweepInit, SweepInv, SessionOK, RowsInv

(* A step of a request handler keeps it: the sweep holds no lock then.     *)
LEMMA HandlerSweepInv ==
  ASSUME SweepInv, Next, UNCHANGED svars
  PROVE  SweepInv'
<1>1. pc # "sweep"
  BY Zenon DEF Next, ExecuteOrder, ReceiveOrder, MatchMaker, RestRemainder, RejectRemainder,
         FinishFromBook, SlippageRefused, FinishBuyAMM, FinishSellAMM, MatchingDone,
         CancelOrder, ExpireOrder, Split, Merge, Atomically
<1>2. IInv /\ RowsInv /\ swpc \in {"off", "scan"} /\ SessionOK
  BY <1>1 DEF SweepInv
<1>3. IInv' /\ RowsInv' /\ Extends(db, db')
  BY <1>2, NextIInv, NextRows
<1>4. pc' # "sweep" /\ Capped(db)'
  BY <1>3 DEF IInv, TypeOK, RowsInv
<1>5. /\ UNCHANGED <<base, seen, queue, listed, kept, sweeps, swpc>>
  BY DEF svars
<1>6. \A i \in listed : /\ db'.orders[i].status # "unused"
                        /\ SameRow(db'.orders[i], seen.orders[i])
  BY <1>2, <1>3 DEF SessionOK, Extends, SameRow
<1>7. SessionOK'
  BY Zenon, <1>2, <1>5, <1>6
     DEF SessionOK, LedgerOK, WithinConstraints, RowOK, SameRow
<1> QED
  BY <1>2, <1>3, <1>4, <1>5, <1>7 DEF SweepInv

(* What an end of the sweep's transaction needs to keep the invariant. *)
LEMMA IdleSweepInv ==
  ASSUME SweepInv, pc = "sweep", NEW d, LedgerOK(d), SameRows(db, d),
         db' = d, work' = d, pc' = "idle", makers' = {},
         UNCHANGED <<req, filled, spent, requests, sweeps>>,
         swpc' \in {"off", "scan"}, LedgerOK(base'), LedgerOK(seen'),
         queue' \subseteq listed', listed' \subseteq listed, kept' \in Objects,
         \A i \in listed' : SameRow(db.orders[i], seen'.orders[i])
  PROVE  SweepInv'
<1>1. InSweep /\ SessionOK /\ Capped(db)
  BY Zenon DEF SweepInv
<1>2. Capped(d) /\ Extends(d, d)
  BY Zenon, <1>1, SameRowsFacts
<1>3. Capped(db)' /\ Capped(work)' /\ Extends(db, work)'
  BY Zenon, <1>2 DEF Capped, Extends, SameRow
<1>4. RowsInv'
  BY Zenon, <1>3 DEF RowsInv
<1>5. LedgerOK(db)' /\ LedgerOK(work)'
  BY Zenon DEF LedgerOK, WithinConstraints, RowOK
<1>6. IInv'
  BY Zenon, <1>1, <1>5 DEF InSweep, IInv, TypeOK, LoopOK, LedgerOK
<1>7. ASSUME NEW i \in listed'
      PROVE  db'.orders[i].status # "unused" /\ SameRow(db'.orders[i], seen'.orders[i])
  <2>1. i \in OrderIds /\ db.orders[i].status # "unused"
    BY Zenon, <1>1 DEF SessionOK
  <2>2. SameRow(db.orders[i], db'.orders[i]) /\ SameRow(db.orders[i], seen'.orders[i])
    BY Zenon, <2>1 DEF SameRows
  <2> QED
    BY Zenon, <2>1, <2>2 DEF SameRow
<1>8. LedgerOK(base)' /\ LedgerOK(seen)'
  BY Zenon DEF LedgerOK, WithinConstraints, RowOK
<1>9. SessionOK'
  BY Zenon, <1>1, <1>7, <1>8 DEF SessionOK, SameRow
<1> QED
  BY Zenon, <1>3, <1>4, <1>6, <1>9 DEF SweepInv

(* A rollback of the sweep. *)
LEMMA AbortSweepInv ==
  ASSUME SweepInv, pc = "sweep", SweepAbort
  PROVE  SweepInv'
<1>1. InSweep /\ SameRows(db, db)
  BY Zenon, SameRowsFacts DEF SweepInv
<1>2. LedgerOK(Ledger0) /\ NothingKept \in Objects
  BY Zenon, Ledger0Sound DEF NothingKept, Objects, Outcomes
<1>3. LedgerOK(base') /\ LedgerOK(seen')
  BY Zenon, <1>2 DEF SweepAbort
<1> QED
  BY Zenon, <1>1, <1>2, <1>3, IdleSweepInv DEF SweepAbort, InSweep

(* A commit inside the loop. *)
LEMMA CommitSweepInv ==
  ASSUME SweepInv, pc = "sweep", makers = {}, NEW w, LedgerOK(w), SameRows(db, w),
         NEW left, left \subseteq listed, NEW k \in Objects,
         CommitAndGoOn(w, left, k)
  PROVE  SweepInv'
<1>1. InSweep /\ SessionOK
  BY DEF SweepInv
<1>2. CASE ~Accepted(Flushed(w))
  BY Zenon, <1>2, AbortSweepInv DEF CommitAndGoOn
<1>3. CASE Accepted(Flushed(w))
  <2>1. LedgerOK(Flushed(w)) /\ SameRows(db, Flushed(w))
    BY Zenon, <1>1, <1>3, FlushedSound DEF InSweep
  <2>2. /\ db' = Flushed(w) /\ work' = Flushed(w) /\ seen' = w
        /\ queue' = left /\ kept' = k /\ pc' = "idle" /\ swpc' = "scan"
        /\ UNCHANGED <<listed, base, sweeps, req, makers, filled, spent, requests>>
    BY Zenon, <1>3 DEF CommitAndGoOn
  <2>3. \A i \in listed' : SameRow(db.orders[i], seen'.orders[i])
    BY Zenon, <1>1, <2>2 DEF SessionOK, SameRows
  <2>4. LedgerOK(base') /\ LedgerOK(seen')
    BY Zenon, <1>1, <2>2 DEF SessionOK
  <2> QED
    BY Zenon, <2>1, <2>2, <2>3, <2>4, IdleSweepInv
<1> QED
  BY <1>2, <1>3

(* A step within the sweep's transaction that changes its ledger only. *)
LEMMA WithinSweepInv ==
  ASSUME SweepInv, pc = "sweep", UNCHANGED <<db, pc, req, filled, spent, requests>>,
         UNCHANGED <<base, seen, listed, sweeps>>,
         LedgerOK(work'), SameRows(db, work'), queue' \subseteq listed,
         kept' \in Objects, swpc' \in {"scan", "match"},
         swpc' = "scan" => makers' = {}, swpc' = "match" => cur' \in listed,
         makers' \subseteq OrderIds, \A i \in makers' : Opposed(i)'
  PROVE  SweepInv'
<1>1. InSweep /\ SessionOK /\ Capped(db)
  BY Zenon DEF SweepInv
<1>2. LedgerOK(db)' /\ LedgerOK(work)' /\ LedgerOK(base)' /\ LedgerOK(seen)'
  BY Zenon, <1>1 DEF InSweep, SessionOK, LedgerOK, WithinConstraints, RowOK
<1>3. SameRows(db, work)' /\ Capped(db)'
  BY Zenon, <1>1 DEF SameRows, SameRow, Capped
<1>4. InSweep'
  BY Zenon, <1>1, <1>2, <1>3 DEF InSweep
<1>5. SessionOK'
  BY Zenon, <1>1, <1>2 DEF SessionOK, SameRow
<1> QED
  BY Zenon, <1>3, <1>4, <1>5 DEF SweepInv

-----------------------------------------------------------------------------
(* The steps of the sweep *)

(* Starting a sweep, and starting its next transaction. *)
LEMMA BeginSweepInv ==
  ASSUME SweepInv, SweepStart \/ SweepResume
  PROVE  SweepInv'
<1>1. /\ pc = "idle" /\ IInv /\ SessionOK /\ Capped(db)
  BY Zenon DEF SweepInv, SweepStart, SweepResume
<1>2. /\ makers = {} /\ filled = 0 /\ spent = 0 /\ work = db /\ LedgerOK(db)
      /\ req \in Request /\ requests \in Nat
  BY Zenon, <1>1 DEF IInv, TypeOK
<1>3. CASE SweepStart
  <2>1. /\ db' = db /\ work' = db /\ base' = db /\ seen' = db /\ pc' = "sweep"
        /\ swpc' = "scan" /\ kept' = NothingKept /\ sweeps' = sweeps + 1
        /\ queue' = listed' /\ UNCHANGED <<req, makers, filled, spent, requests>>
        /\ listed' = {i \in OrderIds : Resting(db.orders[i]) /\ db.orders[i].remaining > 0}
    BY Zenon, <1>2, <1>3 DEF SweepStart
  <2>2. \A i \in listed' : db.orders[i].status # "unused"
    BY Zenon, <2>1 DEF Resting
  <2>3. LedgerOK(db)' /\ LedgerOK(work)' /\ LedgerOK(base)' /\ LedgerOK(seen)'
    BY Zenon, <1>2, <2>1 DEF LedgerOK, WithinConstraints, RowOK
  <2>4. SameRows(db, work)' /\ Capped(db)'
    BY Zenon, <1>1, <2>1 DEF SameRows, SameRow, Capped
  <2>5. InSweep'
    BY Zenon, <1>2, <2>1, <2>3, <2>4 DEF InSweep
  <2>6. kept' \in Objects
    BY Zenon, <2>1 DEF NothingKept, Objects, Outcomes
  <2>a. sweeps' \in Nat /\ listed' \subseteq OrderIds /\ queue' \subseteq listed'
    <3>1. sweeps \in Nat
      BY Zenon, <1>1 DEF SessionOK
    <3>2. sweeps' \in Nat
      BY <2>1, <3>1
    <3> QED
      BY Zenon, <2>1, <3>2
  <2>b. \A i \in listed' : /\ db'.orders[i].status # "unused"
                           /\ SameRow(db'.orders[i], seen'.orders[i])
    BY Zenon, <2>1, <2>2 DEF SameRow
  <2>7. SessionOK'
    BY Zenon, <2>3, <2>6, <2>a, <2>b DEF SessionOK
  <2> QED
    BY Zenon, <2>1, <2>4, <2>5, <2>7 DEF SweepInv
<1>4. CASE SweepResume
  <2>1. LedgerOK(View(db)) /\ SameRows(db, View(db))
    BY Zenon, <1>1, <1>2, ViewSound DEF SessionOK
  <2>2. /\ db' = db /\ work' = View(db) /\ base' = View(db) /\ pc' = "sweep"
        /\ swpc' = "scan" /\ UNCHANGED <<req, makers, filled, spent, requests>>
        /\ UNCHANGED <<queue, listed, seen, kept, sweeps>>
    BY Zenon, <1>4 DEF SweepResume
  <2> HIDE DEF View
  <2>3. LedgerOK(db)' /\ LedgerOK(work)' /\ LedgerOK(base)' /\ LedgerOK(seen)'
    <3>1. LedgerOK(db') /\ LedgerOK(work') /\ LedgerOK(base') /\ LedgerOK(seen')
      BY Zenon, <1>1, <1>2, <2>1, <2>2 DEF SessionOK
    <3> QED
      BY Zenon, <3>1 DEF LedgerOK, WithinConstraints, RowOK
  <2>4. SameRows(db, work)' /\ Capped(db)'
    BY Zenon, <1>1, <2>1, <2>2 DEF SameRows, SameRow, Capped
  <2>5. InSweep'
    BY Zenon, <1>2, <2>2, <2>3, <2>4 DEF InSweep
  <2>6. SessionOK'
    BY Zenon, <1>1, <2>2, <2>3 DEF SessionOK, SameRow
  <2> QED
    BY Zenon, <2>2, <2>4, <2>5, <2>6 DEF SweepInv
<1> QED
  BY <1>3, <1>4

(* The end of the walk. *)
LEMMA EndSweepInv ==
  ASSUME SweepInv, SweepEnd
  PROVE  SweepInv'
<1>1. pc = "sweep" /\ InSweep /\ SessionOK /\ swpc = "scan" /\ queue = {}
  BY Zenon DEF SweepInv, SweepEnd
<1>2. CASE ~Accepted(Flushed(work))
  BY Zenon, <1>1, <1>2, AbortSweepInv DEF SweepEnd
<1>3. CASE Accepted(Flushed(work))
  <2>1. LedgerOK(Flushed(work)) /\ SameRows(db, Flushed(work))
    BY Zenon, <1>1, <1>3, FlushedSound DEF InSweep
  <2>2. /\ db' = Flushed(work) /\ work' = Flushed(work) /\ pc' = "idle"
        /\ swpc' = "off" /\ listed' = {} /\ base' = Ledger0 /\ seen' = Ledger0
        /\ kept' = NothingKept
        /\ UNCHANGED <<queue, sweeps, req, makers, filled, spent, requests>>
    BY Zenon, <1>3 DEF SweepEnd
  <2>3. LedgerOK(Ledger0) /\ NothingKept \in Objects
    BY Zenon, Ledger0Sound DEF NothingKept, Objects, Outcomes
  <2>4. LedgerOK(base') /\ LedgerOK(seen')
    BY <2>2, <2>3
  <2> QED
    BY Zenon, <1>1, <2>1, <2>2, <2>3, <2>4, IdleSweepInv DEF InSweep
<1> QED
  BY <1>2, <1>3

(* An order dropped, expired or taken up. *)
LEMMA OrderSweepInv ==
  ASSUME SweepInv, NEW i \in OrderIds, SweepSkip(i) \/ SweepExpire(i) \/ SweepTake(i)
  PROVE  SweepInv'
<1> DEFINE o == work.orders[i]
<1>1. /\ pc = "sweep" /\ swpc = "scan" /\ i \in queue /\ InSweep /\ SessionOK
  BY DEF SweepInv, SweepSkip, SweepExpire, SweepTake, AtOrder
<1>2. /\ makers = {} /\ LedgerOK(work) /\ SameRows(db, work) /\ i \in listed
      /\ work \in Ledger /\ o \in Order /\ queue \ {i} \subseteq listed
      /\ LedgerOK(db) /\ kept \in Objects
  BY Zenon, <1>1 DEF InSweep, SessionOK, LedgerOK, Ledger
<1>3. /\ \A u \in Users : [kept EXCEPT !.wallet = u] \in Objects
      /\ [kept EXCEPT !.pool = TRUE] \in Objects
  BY Zenon, <1>2 DEF Objects
<1>4. o.status # "unused" /\ o.user \in Users
  BY Zenon, <1>1, <1>2 DEF SessionOK, SameRows, SameRow, LedgerOK, RowOK
<1>5. CASE SweepSkip(i)
  <2>1. LedgerOK(work') /\ SameRows(db, work')
    BY Zenon, <1>2, <1>5 DEF SweepSkip, vars
  <2> QED
    BY Zenon, <1>1, <1>2, <1>5, <2>1, WithinSweepInv DEF SweepSkip, vars
<1>6. CASE SweepExpire(i)
  <2> DEFINE w == CloseOrder(work, i, "expired")
             k == IF o.side = "buy" THEN [kept EXCEPT !.wallet = o.user] ELSE kept
  <2>1. LedgerOK(w) /\ SameRows(work, w)
    BY Zenon, <1>2, <1>4, CloseOrderSound, CloseRows DEF Statuses
  <2>2. SameRows(db, w)
    BY Zenon, <1>2, <2>1, SameRowsFacts
  <2>3. k \in Objects
    BY <1>2, <1>3, <1>4
  <2>4. CommitAndGoOn(w, queue \ {i}, k)
    BY <1>6 DEF SweepExpire
  <2> HIDE DEF w, k
  <2> QED
    BY Zenon, <1>1, <1>2, <2>1, <2>2, <2>3, <2>4, CommitSweepInv
<1>7. CASE SweepTake(i)
  <2>1. /\ cur' = i /\ queue' = queue \ {i} /\ kept' = [kept EXCEPT !.pool = TRUE]
        /\ makers' = FindMatches(db, o.user, o.outcome, o.side, o.price)
        /\ swpc' = "match"
        /\ UNCHANGED <<db, pc, work, req, filled, spent, requests, listed, base, seen, sweeps>>
    BY <1>7 DEF SweepTake
  <2>2. LedgerOK(work') /\ SameRows(db, work')
    BY <1>2, <2>1
  <2>3. makers' \subseteq OrderIds
    BY Zenon, <2>1 DEF FindMatches
  <2>4. ASSUME NEW j \in makers'
        PROVE  Opposed(j)'
    <3>1. /\ db.orders[j].status # "unused" /\ db.orders[j].user # o.user
          /\ db.orders[j].side # o.side /\ j \in OrderIds
      BY Zenon, <2>1, <2>4 DEF FindMatches, Resting
    <3> QED
      BY Zenon, <1>2, <2>1, <3>1 DEF Opposed, SameRows, SameRow
  <2> QED
    BY Zenon, <1>1, <1>2, <1>3, <2>1, <2>2, <2>3, <2>4, WithinSweepInv
<1> QED
  BY Zenon, <1>5, <1>6, <1>7

(* What holds of the order being matched. *)
LEMMA TakerFacts ==
  ASSUME SweepInv, swpc = "match"
  PROVE  /\ pc = "sweep" /\ InSweep /\ SessionOK /\ Capped(work)
         /\ LedgerOK(work) /\ work \in Ledger /\ SameRows(db, work)
         /\ cur \in OrderIds /\ cur \in listed
         /\ work.orders[cur] \in Order /\ RowOK(work.orders[cur])
         /\ work.orders[cur].status # "unused" /\ work.orders[cur].user \in Users
<1>1. pc = "sweep" /\ InSweep /\ SessionOK /\ Capped(db)
  BY DEF SweepInv
<1>2. /\ LedgerOK(work) /\ work \in Ledger /\ SameRows(db, work)
      /\ cur \in listed /\ cur \in OrderIds
  BY Zenon, <1>1 DEF InSweep, SessionOK, LedgerOK
<1>3. work.orders[cur] \in Order /\ RowOK(work.orders[cur])
  BY Zenon, <1>2 DEF LedgerOK, Ledger
<1>4. work.orders[cur].status # "unused"
  BY Zenon, <1>1, <1>2 DEF SessionOK, SameRows, SameRow
<1>5. work.orders[cur].user \in Users
  BY Zenon, <1>3, <1>4 DEF RowOK
<1>6. Capped(work)
  BY Zenon, <1>1, <1>2, SameRowsFacts
<1> QED
  BY Zenon, <1>1, <1>2, <1>3, <1>4, <1>5, <1>6

(* A match of the sweep's order with one maker. *)
LEMMA MatchSweepInv ==
  ASSUME SweepInv, NEW i \in OrderIds, SweepMatch(i)
  PROVE  SweepInv'
<1> DEFINE o    == work.orders[cur]
           m    == work.orders[i]
           qty  == SweepQty(o, m)
           usdc == qty * m.price
           fee  == ProtocolFee(usdc)
           by   == IF o.side = "buy" THEN usdc ELSE qty
           e    == Settle(work, i, o.user, qty)
           f    == CreditFee(e, fee)
           g    == Reduce(f, cur, by)
<1>1. swpc = "match" /\ i \in makers
  BY Zenon DEF SweepMatch
<1>2. /\ pc = "sweep" /\ InSweep /\ SessionOK /\ Capped(work)
      /\ LedgerOK(work) /\ work \in Ledger /\ SameRows(db, work)
      /\ cur \in OrderIds /\ cur \in listed /\ o \in Order /\ RowOK(o)
      /\ o.status # "unused" /\ o.user \in Users
  BY Zenon, <1>1, TakerFacts
<1>3. /\ m \in Order /\ RowOK(m) /\ m.status # "unused" /\ m.user # o.user
      /\ m.side # o.side /\ i # cur
  BY Zenon, <1>1, <1>2 DEF InSweep, Opposed, LedgerOK, Ledger
<1>4. /\ m.price \in 1..One /\ m.price \in Nat /\ o.remaining \in Nat
      /\ m.remaining \in Nat
  <2>1. m.price <= One
    BY Zenon, <1>2 DEF Capped
  <2>2. m.price \in Nat \ {0} /\ One \in Nat /\ o.amount \in Nat /\ m.amount \in Nat
    BY Zenon, <1>2, <1>3, AMMAssumption DEF RowOK, Order
  <2>3. o.remaining \in 0..o.amount /\ m.remaining \in 0..m.amount
    BY Zenon, <1>2, <1>3 DEF RowOK
  <2> HIDE DEF o, m
  <2> QED
    BY <2>1, <2>2, <2>3
<1>5. /\ qty \in Nat /\ WithinMaker(m, qty)
      /\ o.side = "buy" => usdc <= o.remaining
      /\ o.side # "buy" => qty <= o.remaining
  BY Zenon, <1>2, <1>3, <1>4, SweepQtyBounded
<1>6. usdc \in Nat
  BY Zenon, <1>4, <1>5, ProductNat
<1>7. fee \in Nat /\ by \in Nat /\ by <= o.remaining
  BY Zenon, <1>5, <1>6, ProtocolFeeBounded
<1>8. /\ queue \subseteq listed /\ kept \in Objects /\ makers \subseteq OrderIds
      /\ \A j \in makers : Opposed(j)
  BY Zenon, <1>2 DEF SessionOK, InSweep
<1>9. CASE /\ makers' = {}
           /\ UNCHANGED <<db, pc, work, req, filled, spent, requests, svars>>
  <2>1. LedgerOK(work') /\ SameRows(db, work')
    BY Zenon, <1>2, <1>9
  <2> QED
    BY Zenon, <1>1, <1>2, <1>8, <1>9, <2>1, WithinSweepInv DEF svars
<1>10. CASE SweepAbort
  BY Zenon, <1>2, <1>10, AbortSweepInv
<1>11. CASE /\ makers' = makers \ {i} /\ work' = CreditFee(work, fee)
            /\ UNCHANGED <<db, pc, req, filled, spent, requests, svars>>
  <2>1. LedgerOK(CreditFee(work, fee)) /\ CreditFee(work, fee).orders = work.orders
    BY Zenon, <1>2, <1>7, CreditFeeSound
  <2>2. LedgerOK(work') /\ work'.orders = work.orders
    BY Zenon, <1>11, <2>1
  <2>3. SameRows(db, work')
    BY Zenon, <1>2, <2>2 DEF SameRows
  <2>4. \A j \in makers' : Opposed(j)'
    BY Zenon, <1>8, <1>11, <2>2 DEF Opposed, svars
  <2> QED
    BY Zenon, <1>1, <1>2, <1>8, <1>11, <2>2, <2>3, <2>4, WithinSweepInv DEF svars
<1>12. CASE /\ ~BuyerShort(work, i, o.user, qty) /\ ~SellerShort(work, i, o.user, qty)
            /\ makers' = makers \ {i} /\ work' = g
            /\ UNCHANGED <<db, pc, req, filled, spent, requests, svars>>
  <2>1. /\ LedgerOK(e) /\ \A j \in OrderIds \ {i} : e.orders[j] = work.orders[j]
        /\ SameRows(work, e)
    BY Zenon, <1>2, <1>3, <1>5, <1>12, FillSound, SettleRows
  <2> HIDE DEF e
  <2>2. LedgerOK(f) /\ f.orders = e.orders
    BY Zenon, <1>7, <2>1, CreditFeeSound
  <2> HIDE DEF f
  <2>3. /\ f.orders[cur] = o /\ SameRows(work, f)
        /\ \A j \in OrderIds \ {i} : f.orders[j] = work.orders[j]
    BY Zenon, <1>2, <1>3, <2>1, <2>2 DEF SameRows
  <2>4. /\ LedgerOK(g) /\ SameRows(f, g)
        /\ \A j \in OrderIds \ {cur} : g.orders[j] = f.orders[j]
    <3> HIDE DEF by
    <3>1. /\ cur \in OrderIds /\ f.orders[cur].status # "unused"
          /\ by \in Nat /\ by <= f.orders[cur].remaining
      BY Zenon, <1>2, <1>7, <2>3
    <3> QED
      BY Zenon, <2>2, <3>1, ReduceSound
  <2> HIDE DEF g
  <2>5. SameRows(work, g)
    BY Zenon, <2>3, <2>4, SameRowsFacts
  <2>6. LedgerOK(work') /\ SameRows(db, work')
    BY Zenon, <1>2, <1>12, <2>4, <2>5, SameRowsFacts
  <2>7. ASSUME NEW j \in makers'
        PROVE  Opposed(j)'
    <3>1. j \in OrderIds /\ Opposed(j) /\ cur' = cur /\ work' = g
      BY Zenon, <1>8, <1>12 DEF svars
    <3>2. SameRow(work.orders[j], g.orders[j]) /\ SameRow(work.orders[cur], g.orders[cur])
      BY Zenon, <1>2, <2>5, <3>1 DEF SameRows
    <3> QED
      BY Zenon, <3>1, <3>2 DEF Opposed, SameRow
  <2> QED
    BY Zenon, <1>1, <1>2, <1>8, <1>12, <2>6, <2>7, WithinSweepInv DEF svars
<1> QED
  BY Zenon, <1>9, <1>10, <1>11, <1>12 DEF SweepMatch

(* Going on to the next order with the same transaction. *)
LEMMA GoOnSweepInv ==
  ASSUME SweepInv, swpc = "match", makers = {}, NEW w, LedgerOK(w), SameRows(work, w),
         NEW k \in Objects, GoOnWith(w, k)
  PROVE  SweepInv'
<1>1. pc = "sweep" /\ SessionOK /\ SameRows(db, work)
  BY Zenon, TakerFacts
<1>2. LedgerOK(work') /\ SameRows(db, work')
  BY Zenon, <1>1, SameRowsFacts DEF GoOnWith
<1> QED
  BY Zenon, <1>1, <1>2, WithinSweepInv DEF GoOnWith, SessionOK

(* The AMM leg of the order being matched. *)
LEMMA LegSweepInv ==
  ASSUME SweepInv, SweepPass \/ SweepUncrossed \/ SweepFillBuy \/ SweepFillSell
  PROVE  SweepInv'
<1> DEFINE o == work.orders[cur]
<1>1. swpc = "match" /\ makers = {}
  BY Zenon DEF SweepPass, SweepUncrossed, SweepFillBuy, SweepFillSell
<1>2. /\ pc = "sweep" /\ SessionOK /\ LedgerOK(work) /\ SameRows(db, work)
      /\ cur \in OrderIds /\ o \in Order /\ o.status # "unused" /\ o.user \in Users
  BY Zenon, <1>1, TakerFacts
<1>3. /\ kept \in Objects /\ queue \subseteq listed /\ o.outcome \in Outcomes
      /\ SameRows(work, work)
  BY Zenon, <1>2, SameRowsFacts DEF SessionOK, Order
<1>4. WalletRead(o) \in Objects /\ PositionRead(o) \in Objects
  BY Zenon, <1>2, <1>3 DEF WalletRead, PositionRead, Objects
<1>5. CASE SweepPass
  BY Zenon, <1>1, <1>2, <1>3, <1>4, <1>5, GoOnSweepInv DEF SweepPass
<1>6. CASE SweepUncrossed
  BY Zenon, <1>1, <1>2, <1>3, <1>6, CommitSweepInv DEF SweepUncrossed
<1>7. CASE SweepFillBuy
  <2>1. CASE SweepAbort
    BY Zenon, <1>2, <2>1, AbortSweepInv
  <2>2. ASSUME Available(work, o.user) >= o.remaining,
               NEW s \in BuyShares(work.reserve, o.outcome, o.remaining),
               GoOnWith(SweepBuyAMM(work, o, s), PositionRead(o))
        PROVE  SweepInv'
    <3>1. LedgerOK(SweepBuyAMM(work, o, s)) /\ SameRows(work, SweepBuyAMM(work, o, s))
      BY Zenon, <1>2, <2>2, SweepBuySound DEF Matched, BidCovered
    <3> QED
      BY Zenon, <1>1, <1>4, <2>2, <3>1, GoOnSweepInv
  <2> QED
    BY Zenon, <1>7, <2>1, <2>2 DEF SweepFillBuy
<1>8. CASE SweepFillSell
  <2> DEFINE pay == SellProceeds(work.reserve, o.outcome, o.remaining)
  <2>1. CASE SweepAbort
    BY <1>2, <2>1, AbortSweepInv
  <2>2. CASE /\ work.shares[o.user][o.outcome] >= o.remaining
             /\ CanSell(work.reserve, o.outcome, o.remaining)
             /\ ~(pay > work.collateral)
             /\ GoOnWith(SweepSellAMM(work, o, pay), PositionRead(o))
    <3>1. LedgerOK(SweepSellAMM(work, o, pay)) /\ SameRows(work, SweepSellAMM(work, o, pay))
      BY Zenon, <1>2, <2>2, SweepSellSound DEF Matched, AskCovered
    <3> HIDE DEF pay
    <3> QED
      BY Zenon, <1>1, <1>4, <2>2, <3>1, GoOnSweepInv
  <2> QED
    BY Zenon, <1>8, <2>1, <2>2 DEF SweepFillSell
<1> QED
  BY <1>5, <1>6, <1>7, <1>8

(* Every step keeps the invariant. *)
LEMMA NextSweepInv == SweepInv /\ [SweepNext]_<<vars, svars>> => SweepInv'
<1> SUFFICES ASSUME SweepInv, [SweepNext]_<<vars, svars>>
             PROVE  SweepInv'
  OBVIOUS
<1>1. CASE Next /\ UNCHANGED svars
  BY <1>1, HandlerSweepInv
<1>2. CASE SweepStart \/ SweepResume
  BY Zenon, <1>2, BeginSweepInv
<1>3. CASE SweepEnd
  BY <1>3, EndSweepInv
<1>4. CASE \E i \in OrderIds : SweepSkip(i) \/ SweepExpire(i) \/ SweepTake(i)
  BY <1>4, OrderSweepInv
<1>5. CASE \E i \in OrderIds : SweepMatch(i)
  BY <1>5, MatchSweepInv
<1>6. CASE SweepPass \/ SweepUncrossed \/ SweepFillBuy \/ SweepFillSell
  BY <1>6, LegSweepInv
<1>7. CASE UNCHANGED <<vars, svars>>
  <2>1. /\ UNCHANGED <<db, work, pc, req, makers, filled, spent, answer, requests>>
        /\ UNCHANGED <<swpc, queue, listed, cur, base, seen, kept, sweeps>>
    BY Zenon, <1>7 DEF vars, svars
  <2>2. SessionOK' <=> SessionOK
    BY Zenon, <2>1 DEF SessionOK, LedgerOK, WithinConstraints, RowOK, SameRow
  <2>3. InSweep' <=> InSweep
    <3>1. SameRows(db, work)' <=> SameRows(db, work)
      BY Zenon, <2>1 DEF SameRows, SameRow
    <3>2. LedgerOK(db)' <=> LedgerOK(db)
      BY Zenon, <2>1 DEF LedgerOK, WithinConstraints, RowOK
    <3>3. LedgerOK(work)' <=> LedgerOK(work)
      BY Zenon, <2>1 DEF LedgerOK, WithinConstraints, RowOK
    <3> QED
      BY Zenon, <2>1, <3>1, <3>2, <3>3 DEF InSweep, Opposed
  <2>4. (RowsInv' <=> RowsInv) /\ (Capped(db)' <=> Capped(db))
    BY Zenon, <2>1 DEF RowsInv, Extends, SameRow, Capped
  <2>5. IInv' <=> IInv
    BY Zenon, <2>1 DEF IInv, TypeOK, LoopOK, MakerOK, LedgerOK, WithinConstraints, RowOK
  <2> QED
    BY Zenon, <2>1, <2>2, <2>3, <2>4, <2>5 DEF SweepInv
<1> QED
  BY Zenon, <1>1, <1>2, <1>3, <1>4, <1>5, <1>6, <1>7 DEF SweepNext

-----------------------------------------------------------------------------
(* The invariant holds throughout. *)
LEMMA SweepKeepsInv == SweepSpec => []SweepInv
BY InitSweepInv, NextSweepInv, PTL DEF SweepSpec

(* With the limit sweep running beside the handlers, and its session going *)
(* on with the rows it read before a commit released their locks, no order *)
(* is filled beyond its own amount, committed or not.                      *)
(* (check_limit_order_execution, match_pending_order)                      *)
THEOREM SweepNeverOverfills == SweepSpec => []NeverOverfilled
<1>1. SweepInv => NeverOverfilled
  BY Zenon DEF SweepInv, InSweep, IInv, NeverOverfilled, LedgerOK, RowOK
<1> QED
  BY <1>1, SweepKeepsInv, PTL

(* The sweep and the handlers together commit only ledgers the CHECK       *)
(* constraints allow, with the pool's escrow and reserves, which no CHECK  *)
(* guards, never negative either.                                          *)
THEOREM SweepWithinConstraints == SweepSpec => []ChecksNeverTrip
<1>1. SweepInv => ChecksNeverTrip
  BY Zenon DEF SweepInv, InSweep, IInv, ChecksNeverTrip, LedgerOK
<1> QED
  BY <1>1, SweepKeepsInv, PTL

(* The sweep's variables keep their types, and the order being matched is  *)
(* one of its list.                                                        *)
THEOREM SweepTyped == SweepSpec => []SweepTypeOK
<1>1. SweepInv => SweepTypeOK
  BY Zenon DEF SweepInv, SessionOK, InSweep, IInv, TypeOK, SweepTypeOK, LedgerOK
<1> QED
  BY <1>1, SweepKeepsInv, PTL
=============================================================================
