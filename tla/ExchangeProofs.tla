--------------------------- MODULE ExchangeProofs ---------------------------
(***************************************************************************)
(* The ledger invariants of Exchange, for every set of users, every price  *)
(* grid, every fee rate and any number of orders and requests.             *)
(***************************************************************************)
EXTENDS Exchange, TLAPS

(* A row never has more left than it asked for, and once written has an    *)
(* owner and a price.                                                      *)
RowOK(o) ==
  /\ o.remaining \in 0..o.amount
  /\ o.status # "unused" => o.user \in Users /\ o.price \in Nat \ {0}

LedgerOK(d) ==
  /\ d \in Ledger
  /\ WithinConstraints(d)
  /\ \A i \in OrderIds : RowOK(d.orders[i])

(* The makers the loop has not reached are written rows of other users on  *)
(* the other side, and the taker has not been given more than it asked.    *)
MakerOK(i) ==
  /\ work.orders[i].status # "unused"
  /\ work.orders[i].user # req.user
  /\ work.orders[i].side # req.side

LoopOK ==
  pc = "match" =>
    /\ req.user \in Users
    /\ req.type = "limit" => req.price \in Nat \ {0}
    /\ req.side = "buy" => spent <= req.amount
    /\ req.side = "sell" => filled <= req.amount
    /\ \A i \in makers : MakerOK(i)

IInv ==
  /\ TypeOK
  /\ LedgerOK(db)
  /\ LedgerOK(work)
  /\ pc = "idle" => makers = {} /\ filled = 0 /\ spent = 0 /\ work = db
  /\ LoopOK

-----------------------------------------------------------------------------
(* Arithmetic *)

(* Integer division rounds down. *)
LEMMA DivFacts ==
  ASSUME NEW a \in Nat, NEW b \in Nat \ {0}
  PROVE  a \div b \in Nat /\ (a \div b) * b <= a
OBVIOUS

(* A fee is a share of its base, never more than it. *)
LEMMA FeeFacts ==
  ASSUME NEW c \in Nat, NEW num \in Nat, NEW den \in Nat \ {0}, num <= den
  PROVE  (c * num) \div den \in Nat /\ (c * num) \div den <= c
<1>1. c * num \in Nat /\ c * num <= c * den
  OBVIOUS
<1>2. QED
  BY <1>1

(* The protocol fee is part of what it is taken from. *)
LEMMA ProtocolFeeBounded ==
  ASSUME NEW c \in Nat
  PROVE  ProtocolFee(c) \in Nat /\ ProtocolFee(c) <= c
BY FeeFacts, AMMAssumption DEF ProtocolFee

(* The split fee is at most the amount split. *)
LEMMA SplitFeeBounded ==
  ASSUME NEW c \in Nat
  PROVE  SplitFee(c) \in Nat /\ SplitFee(c) <= c
BY FeeFacts, AMMAssumption, ExchangeAssumption DEF SplitFee

(* Products of naturals are naturals. *)
LEMMA ProductNat ==
  ASSUME NEW a \in Nat, NEW b \in Nat
  PROVE  a * b \in Nat
OBVIOUS

(* The smaller of two naturals is a natural within both. *)
LEMMA SmallerFacts ==
  ASSUME NEW a \in Nat, NEW b \in Nat
  PROVE  Smaller(a, b) \in Nat /\ Smaller(a, b) <= a /\ Smaller(a, b) <= b
BY DEF Smaller

(* A fill is within what the maker has left, in the maker's own unit. *)
WithinMaker(o, qty) ==
  /\ o.side = "buy" => qty * o.price <= o.remaining
  /\ o.side = "sell" => qty <= o.remaining

(* A fill is within what the taker has left, in the taker's own unit. *)
WithinTaker(o, side, amount, got, paid, qty) ==
  /\ side = "buy" => paid + qty * o.price <= amount
  /\ side = "sell" => got + qty <= amount

(* What match_order_against_book asks of a maker is within the maker's     *)
(* remaining amount, in the maker's own unit, and within the taker's.      *)
LEMMA MatchQtyBounded ==
  ASSUME NEW d \in Ledger, NEW i \in OrderIds, RowOK(d.orders[i]),
         d.orders[i].price \in Nat \ {0},
         d.orders[i].side \in Sides, NEW side \in Sides, d.orders[i].side # side, NEW amount \in Nat,
         NEW got \in Nat, NEW paid \in Nat,
         side = "buy" => paid <= amount, side = "sell" => got <= amount,
         NEW qty, qty = MatchQty(d, side, amount, got, paid, i)
  PROVE  /\ qty \in Nat
         /\ WithinMaker(d.orders[i], qty)
         /\ WithinTaker(d.orders[i], side, amount, got, paid, qty)
<1> DEFINE o == d.orders[i]
<1>1. o.remaining \in Nat /\ o.price \in Nat \ {0}
  BY DEF RowOK, Ledger, Order
<1>2. CASE side = "buy"
  <2>1. amount - paid \in Nat
    BY <1>2
  <2>2. /\ (amount - paid) \div o.price \in Nat
        /\ ((amount - paid) \div o.price) * o.price <= amount - paid
    BY Zenon, <2>1, <1>1, DivFacts
  <2>3. qty \in Nat /\ qty <= o.remaining /\ qty <= (amount - paid) \div o.price
    <3>1. qty = Smaller(o.remaining, (amount - paid) \div o.price)
      BY Zenon, <1>2 DEF MatchQty
    <3> QED
      BY Zenon, <3>1, <2>2, <1>1, SmallerFacts
  <2>4. qty * o.price <= ((amount - paid) \div o.price) * o.price
    BY <2>3, <2>2, <1>1
  <2> HIDE DEF o
  <2>5. qty * o.price \in Nat
    BY <2>3, <1>1
  <2>6. ((amount - paid) \div o.price) * o.price \in Nat
    BY <2>2, <1>1
  <2>7. paid + qty * o.price <= amount
    BY <2>2, <2>4, <2>5, <2>6
  <2> QED
    BY <1>2, <2>3, <2>7 DEF o, Sides, WithinMaker, WithinTaker
<1>3. CASE side = "sell"
  <2>1. o.remaining \div o.price \in Nat /\ (o.remaining \div o.price) * o.price <= o.remaining
    BY Zenon, <1>1, DivFacts
  <2>2. qty \in Nat /\ qty <= o.remaining \div o.price /\ qty <= amount - got
    <3>1. qty = Smaller(o.remaining \div o.price, amount - got)
      <4>1. side # "buy"
        BY <1>3
      <4> QED
        BY Zenon, <4>1 DEF MatchQty
    <3>2. amount - got \in Nat
      BY <1>3
    <3> QED
      BY Zenon, <3>1, <3>2, <2>1, SmallerFacts
  <2>3. qty * o.price <= (o.remaining \div o.price) * o.price
    BY <2>1, <2>2, <1>1
  <2>4. qty * o.price <= o.remaining /\ got + qty <= amount
    BY <1>3, <1>1, <2>1, <2>2, <2>3
  <2> QED
    BY <1>3, <2>2, <2>4 DEF Sides, WithinMaker, WithinTaker
<1> QED
  BY <1>2, <1>3 DEF Sides

-----------------------------------------------------------------------------
(* The ledger's operators keep it sound *)

(* A ledger is its fields. *)
Fields(d) ==
  [balance |-> d.balance, locked |-> d.locked, shares |-> d.shares,
   collateral |-> d.collateral, fees |-> d.fees, reserve |-> d.reserve,
   orders |-> d.orders, referred |-> d.referred, rewards |-> d.rewards]

FieldsTyped(d) ==
  /\ d.balance \in [Users -> Int] /\ d.locked \in [Users -> Int]
  /\ d.shares \in [Users -> [Outcomes -> Int]]
  /\ d.collateral \in Int /\ d.fees \in Int /\ d.reserve \in [Outcomes -> Int]
  /\ d.orders \in [OrderIds -> Order]
  /\ d.referred \in SUBSET Users /\ d.rewards \in Nat

(* A ledger is the record of its typed fields. *)
LEMMA LedgerByFields ==
  ASSUME NEW d
  PROVE  /\ d \in Ledger => FieldsTyped(d)
         /\ FieldsTyped(d) /\ d = Fields(d) => d \in Ledger
<1>1. ASSUME d \in Ledger
      PROVE  FieldsTyped(d)
  BY <1>1 DEF Ledger, FieldsTyped
<1>2. ASSUME FieldsTyped(d), d = Fields(d)
      PROVE  d \in Ledger
  BY <1>2 DEF Ledger, Fields, FieldsTyped
<1> QED
  BY <1>1, <1>2

(* Writing an order's remaining amount and status. *)
LEMMA RowUpdate ==
  ASSUME NEW o \in Order, NEW left \in Int, NEW st \in Statuses
  PROVE  [[o EXCEPT !.remaining = left] EXCEPT !.status = st] \in Order
<1> DEFINE p == [o EXCEPT !.remaining = left]
<1>1. p \in Order
  BY DEF Order
<1> HIDE DEF p
<1>2. [p EXCEPT !.status = st] \in Order
  BY <1>1 DEF Order
<1> QED
  BY <1>2 DEF p

(* Crediting the pool a fee keeps a ledger sound. *)
LEMMA CreditFeeSound ==
  ASSUME NEW d, LedgerOK(d), NEW fee \in Nat
  PROVE  LedgerOK(CreditFee(d, fee)) /\ CreditFee(d, fee).orders = d.orders
<1> DEFINE e == CreditFee(d, fee)
<1>1. d \in Ledger /\ FieldsTyped(d)
  BY LedgerByFields DEF LedgerOK
<1>3. /\ e.collateral = d.collateral + fee /\ e.fees = d.fees + fee
      /\ e.balance = d.balance /\ e.locked = d.locked /\ e.shares = d.shares
      /\ e.reserve = d.reserve /\ e.orders = d.orders
      /\ e.referred = d.referred /\ e.rewards = d.rewards
  BY <1>1 DEF CreditFee, Ledger
<1>0. e = [d EXCEPT !.collateral = @ + fee, !.fees = @ + fee]
  BY DEF CreditFee
<1> HIDE DEF e
<1>2. e = Fields(e)
  BY <1>0, <1>1, Zenon DEF Fields, Ledger
<1>4. FieldsTyped(e)
  BY <1>1, <1>3 DEF FieldsTyped
<1> QED
  BY <1>1, <1>2, <1>3, <1>4, LedgerByFields DEF LedgerOK, WithinConstraints, FieldsTyped, e

(* A release is never more than was spent, so the lock stays covered. *)
LEMMA ReleaseBounded ==
  ASSUME NEW held \in Nat, NEW bal \in Int, NEW cost \in Nat, NEW done \in Nat,
         bal - held >= cost
  PROVE  /\ Larger(0, held - Smaller(done, cost)) \in Nat
         /\ Larger(0, held - Smaller(done, cost)) <= bal - cost
         /\ held <= bal - cost
BY DEF Larger, Smaller

(* execute_match past its guards. *)
LEMMA SettleSound ==
  ASSUME NEW d, LedgerOK(d), NEW i \in OrderIds, NEW taker \in Users, NEW qty \in Nat,
         d.orders[i].status # "unused", d.orders[i].user # taker,
         ~BuyerShort(d, i, taker, qty), ~SellerShort(d, i, taker, qty),
         d.orders[i].side = "buy"
           => qty * d.orders[i].price <= d.orders[i].remaining,
         d.orders[i].side = "sell" => qty <= d.orders[i].remaining
  PROVE  /\ LedgerOK(Settle(d, i, taker, qty))
         /\ \A j \in OrderIds \ {i} : Settle(d, i, taker, qty).orders[j] = d.orders[j]
<1> DEFINE o    == d.orders[i]
           usdc == qty * o.price
           fee  == ProtocolFee(usdc)
           left == o.remaining - (IF o.side = "buy" THEN usdc ELSE qty)
           b    == Buyer(o, taker)
           s    == Seller(o, taker)
           lock == IF o.side = "buy"
                     THEN Larger(0, d.locked[b] - Smaller(o.amount - left, usdc))
                     ELSE d.locked[b]
           e    == Settle(d, i, taker, qty)
<1>1. /\ d \in Ledger /\ o \in Order /\ o.side \in Sides
      /\ o.amount \in Nat /\ o.remaining \in 0..o.amount
      /\ o.user \in Users /\ o.price \in Nat \ {0}
  BY DEF LedgerOK, RowOK, Ledger, Order
<1>2. b \in Users /\ s \in Users /\ b # s
  BY <1>1 DEF Buyer, Seller
<1>3. usdc \in Nat /\ fee \in Nat /\ fee <= usdc
  BY <1>1, ProductNat, ProtocolFeeBounded
<1>4. left \in 0..o.remaining
  BY <1>1, <1>3 DEF Sides
<1>5. /\ d.balance[b] - d.locked[b] >= usdc /\ d.shares[s][o.outcome] >= qty
      /\ d.locked[b] \in Nat /\ d.balance[b] \in Int /\ d.balance[s] \in Int
      /\ d.locked[s] <= d.balance[s]
  <2> HIDE DEF usdc
  <2>1. d.balance[b] \in Int /\ d.locked[b] \in Int /\ d.shares[s][o.outcome] \in Int
    BY <1>1, <1>2 DEF Ledger, Order
  <2>2. ~(d.balance[b] - d.locked[b] < usdc) /\ ~(d.shares[s][o.outcome] < qty)
    BY Zenon DEF BuyerShort, SellerShort, Available, usdc
  <2> HIDE DEF o, b, s
  <2>3. /\ d.balance[s] \in Int
        /\ 0 <= d.locked[b] /\ d.locked[s] <= d.balance[s]
    BY <1>1, <1>2 DEF LedgerOK, WithinConstraints, Ledger
  <2> QED
    BY <1>3, <2>1, <2>2, <2>3
<1>6. lock \in Nat /\ lock <= d.balance[b] - usdc
  <2>1. o.amount - left \in Nat
    BY <1>1, <1>4
  <2>2. usdc \in Nat /\ d.locked[b] \in Nat /\ d.balance[b] - d.locked[b] >= usdc
    BY <1>3, <1>5
  <2> HIDE DEF usdc, left, b
  <2>3. CASE o.side = "buy"
    BY Zenon, <1>5, <2>1, <2>2, <2>3, ReleaseBounded
  <2>4. CASE o.side # "buy"
    BY <1>5, <2>2, <2>4
  <2> QED
    BY <2>3, <2>4
<1> DEFINE paid  == [d.balance EXCEPT ![b] = @ - usdc]
           dealt == [d.shares EXCEPT ![b][o.outcome] = @ + qty]
           row   == [o EXCEPT !.remaining = left,
                              !.status = IF left <= 0 THEN "filled" ELSE "partial"]
<1>7. e = [d EXCEPT !.balance = [paid EXCEPT ![s] = @ + usdc - fee],
                    !.locked = [d.locked EXCEPT ![b] = lock],
                    !.shares = [dealt EXCEPT ![s][o.outcome] = @ - qty],
                    !.orders = [d.orders EXCEPT ![i] = row]]
  BY Zenon DEF Settle
<1> HIDE DEF e, lock, left, fee, usdc, b, s
<1>8. e.balance = [paid EXCEPT ![s] = @ + usdc - fee]
      /\ e.locked = [d.locked EXCEPT ![b] = lock]
  BY Zenon, <1>1, <1>7 DEF Ledger
<1>9. e.shares = [dealt EXCEPT ![s][o.outcome] = @ - qty]
  BY Zenon, <1>1, <1>7 DEF Ledger
<1>10. e.orders = [d.orders EXCEPT ![i] = row]
  BY Zenon, <1>1, <1>7 DEF Ledger
<1>11. /\ e.collateral = d.collateral /\ e.fees = d.fees /\ e.reserve = d.reserve
       /\ e.referred = d.referred /\ e.rewards = d.rewards
  BY Zenon, <1>1, <1>7 DEF Ledger
<1>12. /\ e.balance \in [Users -> Int] /\ e.locked \in [Users -> Int]
       /\ \A u \in Users : 0 <= e.locked[u] /\ e.locked[u] <= e.balance[u]
  BY SMTT(60), <1>1, <1>2, <1>3, <1>5, <1>6, <1>8 DEF LedgerOK, WithinConstraints, Ledger
<1>13. /\ e.shares \in [Users -> [Outcomes -> Int]]
       /\ \A u \in Users, p \in Outcomes : e.shares[u][p] >= 0
  <2>1. /\ d.shares \in [Users -> [Outcomes -> Int]] /\ o.outcome \in Outcomes
        /\ \A u \in Users, p \in Outcomes : d.shares[u][p] >= 0
    BY <1>1 DEF LedgerOK, WithinConstraints, Ledger, Order
  <2>2. /\ e.shares[b] = [d.shares[b] EXCEPT ![o.outcome] = @ + qty]
        /\ e.shares[s] = [d.shares[s] EXCEPT ![o.outcome] = @ - qty]
        /\ \A u \in Users \ {b, s} : e.shares[u] = d.shares[u]
        /\ e.shares = [u \in Users |-> e.shares[u]]
    BY Zenon, <1>2, <1>9, <2>1
  <2> HIDE DEF o
  <2>3. ASSUME NEW u \in Users
        PROVE  /\ e.shares[u] \in [Outcomes -> Int]
               /\ \A p \in Outcomes : e.shares[u][p] >= 0
    <3>1. CASE u = b
      BY SMTT(60), <3>1, <2>1, <2>2
    <3>2. CASE u = s
      BY SMTT(60), <3>2, <2>1, <2>2, <1>5
    <3> QED
      BY <3>1, <3>2, <2>1, <2>2
  <2> QED
    BY <2>2, <2>3
<1>14. /\ e.orders \in [OrderIds -> Order]
       /\ \A j \in OrderIds : RowOK(e.orders[j])
  <2> DEFINE st == IF left <= 0 THEN "filled" ELSE "partial"
             r  == [o EXCEPT !.remaining = left, !.status = st]
  <2>1. /\ r.user = o.user /\ r.outcome = o.outcome /\ r.side = o.side
        /\ r.amount = o.amount /\ r.price = o.price
        /\ r.remaining = left /\ r.status = st
    BY <1>1 DEF Order
  <2>2. r \in Order
    <3>1. st \in Statuses /\ left \in Int
      BY <1>1, <1>4 DEF Statuses
    <3> HIDE DEF st
    <3> QED
      BY Zenon, <1>1, <3>1, RowUpdate
  <2>3. RowOK(r)
    BY <1>1, <1>4, <2>1 DEF RowOK
  <2> HIDE DEF r
  <2>4. e.orders = [d.orders EXCEPT ![i] = r]
    BY <1>10 DEF r
  <2> QED
    BY <2>2, <2>3, <2>4, <1>1 DEF LedgerOK, Ledger
<1>15. e = Fields(e)
  BY <1>1, <1>7, Zenon DEF Ledger, Fields
<1>16. FieldsTyped(e)
  BY <1>1, <1>11, <1>12, <1>13, <1>14 DEF FieldsTyped, Ledger
<1>17. \A j \in OrderIds \ {i} : e.orders[j] = d.orders[j]
  BY <1>1, <1>10 DEF Ledger
<1> QED
  BY <1>11, <1>12, <1>13, <1>14, <1>15, <1>16, <1>17, LedgerByFields
     DEF LedgerOK, WithinConstraints, e

(* The same, for a fill within what the maker has left. *)
LEMMA FillSound ==
  ASSUME NEW d, LedgerOK(d), NEW i \in OrderIds, NEW taker \in Users, NEW qty \in Nat,
         d.orders[i].status # "unused", d.orders[i].user # taker,
         ~BuyerShort(d, i, taker, qty), ~SellerShort(d, i, taker, qty),
         WithinMaker(d.orders[i], qty)
  PROVE  /\ LedgerOK(Settle(d, i, taker, qty))
         /\ \A j \in OrderIds \ {i} : Settle(d, i, taker, qty).orders[j] = d.orders[j]
BY Zenon, SettleSound DEF WithinMaker

(* A remainder comes to rest. *)
LEMMA NewOrderSound ==
  ASSUME NEW d, LedgerOK(d), NEW i \in OrderIds, NEW left \in Nat,
         req \in Request, req.user \in Users, req.price \in Nat \ {0},
         left <= req.amount
  PROVE  /\ LedgerOK(NewOrder(d, i, left))
         /\ Available(NewOrder(d, i, left), req.user) = Available(d, req.user)
<1> DEFINE r == [user |-> req.user, outcome |-> req.outcome, side |-> req.side,
                 amount |-> req.amount, price |-> req.price, remaining |-> left,
                 status |-> IF filled = 0 THEN "pending" ELSE "partial"]
           n == NewOrder(d, i, left)
<1>1. d \in Ledger /\ FieldsTyped(d)
  BY LedgerByFields DEF LedgerOK
<1>2. r \in Order /\ RowOK(r)
  BY DEF Order, RowOK, Request, Statuses
<1>3. n = [d EXCEPT !.orders[i] = r]
  BY DEF NewOrder
<1> HIDE DEF r, n
<1>4. n \in Ledger /\ n.locked = d.locked /\ n.balance = d.balance
      /\ n.shares = d.shares /\ n.collateral = d.collateral /\ n.reserve = d.reserve
      /\ n.orders = [d.orders EXCEPT ![i] = r]
  BY Zenon, <1>1, <1>2, <1>3 DEF Ledger
<1>5. \A j \in OrderIds : RowOK(n.orders[j])
  BY <1>1, <1>2, <1>4 DEF LedgerOK, FieldsTyped
<1> QED
  BY <1>4, <1>5 DEF LedgerOK, WithinConstraints, Available, n

(* A reservation within the available balance. *)
LEMMA LockSound ==
  ASSUME NEW d, LedgerOK(d), NEW v \in Users, NEW n \in Nat, n <= Available(d, v)
  PROVE  LedgerOK([d EXCEPT !.locked[v] = @ + n])
<1> DEFINE e == [d EXCEPT !.locked[v] = @ + n]
<1>1. d \in Ledger /\ FieldsTyped(d)
  BY LedgerByFields DEF LedgerOK
<1>2. e = [d EXCEPT !.locked[v] = @ + n]
  OBVIOUS
<1> HIDE DEF e
<1>3. /\ e.locked = [d.locked EXCEPT ![v] = @ + n]
      /\ e.balance = d.balance /\ e.shares = d.shares /\ e.orders = d.orders
      /\ e.collateral = d.collateral /\ e.reserve = d.reserve /\ e.fees = d.fees
      /\ e.referred = d.referred /\ e.rewards = d.rewards
  BY <1>1, <1>2 DEF Ledger
<1>4. e = Fields(e)
  BY <1>1, <1>2, Zenon DEF Fields, Ledger
<1>5. /\ e.locked \in [Users -> Int]
      /\ \A u \in Users : 0 <= e.locked[u] /\ e.locked[u] <= e.balance[u]
  BY <1>1, <1>3 DEF LedgerOK, WithinConstraints, FieldsTyped, Available
<1>6. FieldsTyped(e)
  BY <1>1, <1>3, <1>5 DEF FieldsTyped
<1> QED
  BY <1>3, <1>4, <1>5, <1>6, LedgerByFields DEF LedgerOK, WithinConstraints, e

(* Adding the shares a request bought keeps a ledger sound. *)
LEMMA BookSound ==
  ASSUME NEW d, LedgerOK(d), NEW total \in Nat, req \in Request, req.user \in Users
  PROVE  LedgerOK(Book(d, total))
<1> DEFINE e == [d EXCEPT !.shares[req.user][req.outcome] = @ + total]
<1>1. d \in Ledger /\ FieldsTyped(d) /\ req.outcome \in Outcomes
  BY LedgerByFields DEF LedgerOK, Request
<1>2. /\ e.shares = [d.shares EXCEPT ![req.user][req.outcome] = @ + total]
      /\ e.balance = d.balance /\ e.locked = d.locked /\ e.orders = d.orders
      /\ e.collateral = d.collateral /\ e.reserve = d.reserve
      /\ e.fees = d.fees /\ e.referred = d.referred /\ e.rewards = d.rewards
  BY <1>1 DEF Ledger
<1>0. e = [d EXCEPT !.shares[req.user][req.outcome] = @ + total]
  OBVIOUS
<1> HIDE DEF e
<1>3. e = Fields(e)
  BY <1>0, <1>1, Zenon DEF Fields, Ledger
<1>4. /\ e.shares \in [Users -> [Outcomes -> Int]]
      /\ \A u \in Users, o \in Outcomes : e.shares[u][o] >= 0
  BY SMTT(60), <1>1, <1>2 DEF LedgerOK, WithinConstraints, FieldsTyped
<1>5. e \in Ledger
  BY Zenon, <1>1, <1>2, <1>3, <1>4, LedgerByFields DEF FieldsTyped
<1>6. LedgerOK(e)
  BY <1>2, <1>4, <1>5 DEF LedgerOK, WithinConstraints
<1> QED
  BY <1>6 DEF Book, e

(* Paying the referral reward keeps a ledger sound. *)
LEMMA ReferralSound ==
  ASSUME NEW d, LedgerOK(d), req.user \in Users
  PROVE  LedgerOK(PayReferral(d))
<1> DEFINE v == Referrer[req.user]
           e == [d EXCEPT !.balance[v] = @ + Reward,
                          !.referred = @ \ {req.user}, !.rewards = @ + Reward]
<1>1. /\ d \in Ledger /\ FieldsTyped(d) /\ v \in Users /\ Reward \in Nat
  BY LedgerByFields, ExchangeAssumption DEF LedgerOK
<1>2. /\ e.balance = [d.balance EXCEPT ![v] = @ + Reward]
      /\ e.referred = d.referred \ {req.user} /\ e.rewards = d.rewards + Reward
      /\ e.shares = d.shares /\ e.locked = d.locked /\ e.orders = d.orders
      /\ e.collateral = d.collateral /\ e.reserve = d.reserve /\ e.fees = d.fees
  BY <1>1 DEF Ledger
<1>0. e = [d EXCEPT !.balance[v] = @ + Reward,
                    !.referred = @ \ {req.user}, !.rewards = @ + Reward]
  OBVIOUS
<1> HIDE DEF e, v
<1>3. e = Fields(e)
  BY <1>0, <1>1, Zenon DEF Fields, Ledger
<1>4. /\ e.balance \in [Users -> Int]
      /\ \A u \in Users : 0 <= e.locked[u] /\ e.locked[u] <= e.balance[u]
  BY <1>1, <1>2 DEF LedgerOK, WithinConstraints, FieldsTyped
<1>5. e \in Ledger
  BY <1>1, <1>2, <1>3, <1>4, LedgerByFields DEF FieldsTyped
<1>6. LedgerOK(e)
  BY <1>2, <1>4, <1>5 DEF LedgerOK, WithinConstraints
<1> QED
  BY <1>6 DEF PayReferral, e, v

(* An AMM buy the buyer can afford keeps a ledger sound. *)
LEMMA AMMBuySound ==
  ASSUME NEW d, LedgerOK(d), req \in Request, req.user \in Users, NEW s \in Nat,
         Remainder \in Nat, Remainder <= Available(d, req.user)
  PROVE  LedgerOK(AMMBuy(d, s))
<1> DEFINE v   == req.user
           out == req.outcome
           n   == Remainder
           fee == ProtocolFee(n)
           e   == AMMBuy(d, s)
<1>1. /\ d \in Ledger /\ FieldsTyped(d) /\ out \in Outcomes /\ v \in Users
      /\ n \in Nat /\ fee \in Nat
  BY LedgerByFields, ProtocolFeeBounded DEF LedgerOK, Request
<1>2. e = [d EXCEPT !.balance[v] = @ - n, !.collateral = @ + n, !.fees = @ + fee,
                    !.reserve[out] = @ + s]
  BY DEF AMMBuy
<1>3. n <= d.balance[v] - d.locked[v]
  BY DEF Available
<1> HIDE DEF e, v, out, n, fee
<1>4. /\ e.balance = [d.balance EXCEPT ![v] = @ - n]
      /\ e.collateral = d.collateral + n /\ e.fees = d.fees + fee
      /\ e.reserve = [d.reserve EXCEPT ![out] = @ + s]
      /\ e.shares = d.shares /\ e.locked = d.locked /\ e.orders = d.orders
      /\ e.referred = d.referred /\ e.rewards = d.rewards
  BY <1>1, <1>2 DEF Ledger
<1>5. e = Fields(e)
  BY <1>1, <1>2, Zenon DEF Fields, Ledger
<1>6. FieldsTyped(e) /\ WithinConstraints(e)
  BY SMTT(60), <1>1, <1>3, <1>4 DEF FieldsTyped, LedgerOK, WithinConstraints
<1> QED
  BY <1>4, <1>5, <1>6, LedgerByFields DEF LedgerOK, e

(* An AMM sell the escrow and the seller cover keeps a ledger sound. *)
LEMMA AMMSellSound ==
  ASSUME NEW d, LedgerOK(d), req \in Request, req.user \in Users,
         NEW proceeds \in Nat, proceeds <= d.collateral,
         Remainder \in Nat, Remainder <= d.shares[req.user][req.outcome],
         Remainder <= d.reserve[req.outcome]
  PROVE  LedgerOK(AMMSell(d, proceeds))
<1> DEFINE v   == req.user
           out == req.outcome
           n   == Remainder
           fee == ProtocolFee(proceeds)
           e   == AMMSell(d, proceeds)
<1>1. /\ d \in Ledger /\ FieldsTyped(d) /\ out \in Outcomes /\ v \in Users
      /\ n \in Nat /\ fee \in Nat
  BY LedgerByFields, ProtocolFeeBounded DEF LedgerOK, Request
<1>2. e = [d EXCEPT !.balance[v] = @ + proceeds, !.collateral = @ - proceeds,
                    !.fees = @ + fee, !.shares[v][out] = @ - n,
                    !.reserve[out] = @ - n]
  BY DEF AMMSell
<1>3. n <= d.shares[v][out] /\ n <= d.reserve[out]
  OBVIOUS
<1> HIDE DEF e, v, out, n, fee
<1>4. /\ e.balance = [d.balance EXCEPT ![v] = @ + proceeds]
      /\ e.collateral = d.collateral - proceeds /\ e.fees = d.fees + fee
      /\ e.reserve = [d.reserve EXCEPT ![out] = @ - n]
      /\ e.shares = [d.shares EXCEPT ![v][out] = @ - n]
      /\ e.locked = d.locked /\ e.orders = d.orders
      /\ e.referred = d.referred /\ e.rewards = d.rewards
  BY <1>1, <1>2 DEF Ledger
<1>5. e = Fields(e)
  BY <1>1, <1>2, Zenon DEF Fields, Ledger
<1>6. /\ e.shares \in [Users -> [Outcomes -> Int]]
      /\ \A u \in Users, o \in Outcomes : e.shares[u][o] >= 0
  BY SMTT(60), <1>1, <1>3, <1>4 DEF FieldsTyped, LedgerOK, WithinConstraints
<1>7. /\ e.reserve \in [Outcomes -> Int]
      /\ \A o \in Outcomes : e.reserve[o] >= 0
  BY <1>1, <1>3, <1>4 DEF FieldsTyped, LedgerOK, WithinConstraints
<1>8. /\ e.balance \in [Users -> Int] /\ e.collateral \in Int /\ e.collateral >= 0
      /\ \A u \in Users : 0 <= e.locked[u] /\ e.locked[u] <= e.balance[u]
  BY <1>1, <1>4 DEF FieldsTyped, LedgerOK, WithinConstraints
<1>9. FieldsTyped(e)
  BY SMTT(60), <1>1, <1>4, <1>6, <1>7, <1>8 DEF FieldsTyped
<1> QED
  BY <1>4, <1>5, <1>6, <1>7, <1>8, <1>9, LedgerByFields
     DEF LedgerOK, WithinConstraints, e

(* Cancel and expiry. *)
LEMMA CloseOrderSound ==
  ASSUME NEW d, LedgerOK(d), NEW i \in OrderIds, d.orders[i].status # "unused",
         NEW st \in Statuses
  PROVE  LedgerOK(CloseOrder(d, i, st))
<1> DEFINE o == d.orders[i]
           r == [o EXCEPT !.status = st]
           k == IF o.side = "buy" THEN Larger(0, d.locked[o.user] - o.remaining)
                                  ELSE d.locked[o.user]
           e == CloseOrder(d, i, st)
<1>1. /\ d \in Ledger /\ FieldsTyped(d) /\ o \in Order /\ RowOK(o)
      /\ o.user \in Users /\ o.remaining \in Nat
  BY SMTT(60), LedgerByFields DEF LedgerOK, FieldsTyped, RowOK, Order
<1>2. r \in Order /\ RowOK(r)
  BY <1>1 DEF Order, RowOK
<1>3. k \in Nat /\ k <= d.locked[o.user]
  <2>1. d.locked \in [Users -> Int]
    BY Zenon, <1>1 DEF FieldsTyped
  <2>2. d.locked[o.user] \in Int
    BY Zenon, <1>1, <2>1
  <2>3. 0 <= d.locked[o.user]
    BY Zenon, <1>1 DEF LedgerOK, WithinConstraints
  <2> DEFINE l == d.locked[o.user]
             m == o.remaining
  <2>4. l \in Int /\ 0 <= l /\ m \in Nat
    BY Zenon, <1>1, <2>2, <2>3
  <2> HIDE DEF l, m
  <2>5. Larger(0, l - m) \in Nat /\ Larger(0, l - m) <= l /\ l \in Nat /\ l <= l
    BY <2>4 DEF Larger
  <2>6. k = IF o.side = "buy" THEN Larger(0, l - m) ELSE l
    BY Zenon DEF l, m
  <2> HIDE DEF k
  <2>7. k \in Nat /\ k <= l
    BY Zenon, <2>5, <2>6
  <2> QED
    BY Zenon, <2>7 DEF l
<1>4. e = [d EXCEPT !.orders[i].status = st, !.locked[o.user] = k]
  BY <1>1 DEF CloseOrder, Ledger
<1> HIDE DEF e, k
<1>5. /\ e.orders = [d.orders EXCEPT ![i] = r]
      /\ e.locked = [d.locked EXCEPT ![o.user] = k]
      /\ e.balance = d.balance /\ e.shares = d.shares
      /\ e.collateral = d.collateral /\ e.reserve = d.reserve /\ e.fees = d.fees
      /\ e.referred = d.referred /\ e.rewards = d.rewards
  BY <1>1, <1>4 DEF Ledger
<1>6. e = Fields(e)
  BY <1>1, <1>4, Zenon DEF Fields, Ledger
<1> HIDE DEF r
<1>7. /\ e.locked \in [Users -> Int]
      /\ \A u \in Users : 0 <= e.locked[u] /\ e.locked[u] <= e.balance[u]
  BY SMTT(60), <1>1, <1>3, <1>5 DEF FieldsTyped, LedgerOK, WithinConstraints
<1>8. /\ e.orders \in [OrderIds -> Order]
      /\ \A j \in OrderIds : RowOK(e.orders[j])
  BY <1>1, <1>2, <1>5 DEF FieldsTyped, LedgerOK
<1>9. FieldsTyped(e)
  BY <1>1, <1>5, <1>7, <1>8 DEF FieldsTyped
<1> QED
  BY <1>5, <1>6, <1>7, <1>8, <1>9, LedgerByFields
     DEF LedgerOK, WithinConstraints, e

(* What split and merge write. *)
LEMMA SplitSound ==
  ASSUME LedgerOK(db), NEW v \in Users, NEW n \in Nat,
         n * One <= Available(db, v),
         NEW e, e = [db EXCEPT
           !.balance[v] = @ - n * One,
           !.collateral = @ + n * One,
           !.fees = @ + SplitFee(n) * One,
           !.reserve = [o \in Outcomes |-> @[o] + n - SplitFee(n)],
           !.shares[v] = [o \in Outcomes |-> @[o] + n - SplitFee(n)]]
  PROVE  LedgerOK(e)
<1> DEFINE m == n * One
           f == SplitFee(n) * One
           k == SplitFee(n)
<1>1. /\ db \in Ledger /\ FieldsTyped(db)
      /\ m \in Nat /\ f \in Nat /\ k \in Nat /\ k <= n
      /\ m <= db.balance[v] - db.locked[v]
  BY LedgerByFields, SplitFeeBounded, ProductNat, AMMAssumption DEF LedgerOK, Available
<1>2. e = [db EXCEPT
           !.balance[v] = @ - m, !.collateral = @ + m, !.fees = @ + f,
           !.reserve = [o \in Outcomes |-> @[o] + n - k],
           !.shares[v] = [o \in Outcomes |-> @[o] + n - k]]
  OBVIOUS
<1> HIDE DEF m, f, k
<1>3. /\ e.balance = [db.balance EXCEPT ![v] = @ - m]
      /\ e.collateral = db.collateral + m /\ e.fees = db.fees + f
      /\ e.reserve = [o \in Outcomes |-> db.reserve[o] + n - k]
      /\ e.shares = [db.shares EXCEPT ![v] = [o \in Outcomes |-> @[o] + n - k]]
      /\ e.locked = db.locked /\ e.orders = db.orders
      /\ e.referred = db.referred /\ e.rewards = db.rewards
  BY Zenon, <1>1, <1>2 DEF Ledger
<1>4. e = Fields(e)
  BY <1>1, <1>2, Zenon DEF Fields, Ledger
<1>5. /\ e.shares \in [Users -> [Outcomes -> Int]]
      /\ \A u \in Users, o \in Outcomes : e.shares[u][o] >= 0
  BY <1>1, <1>3 DEF FieldsTyped, LedgerOK, WithinConstraints
<1>6. /\ e.reserve \in [Outcomes -> Int]
      /\ \A o \in Outcomes : e.reserve[o] >= 0
  BY <1>1, <1>3 DEF FieldsTyped, LedgerOK, WithinConstraints
<1>7. /\ e.balance \in [Users -> Int] /\ e.collateral \in Int /\ e.collateral >= 0
      /\ \A u \in Users : 0 <= e.locked[u] /\ e.locked[u] <= e.balance[u]
  BY <1>1, <1>3 DEF FieldsTyped, LedgerOK, WithinConstraints
<1>8. FieldsTyped(e)
  BY <1>1, <1>3, <1>5, <1>6, <1>7 DEF FieldsTyped
<1> QED
  BY <1>3, <1>4, <1>5, <1>6, <1>7, <1>8, LedgerByFields DEF LedgerOK, WithinConstraints

(* Merging full sets the user holds keeps a ledger sound. *)
LEMMA MergeSound ==
  ASSUME LedgerOK(db), NEW v \in Users, NEW n \in Nat,
         \A o \in Outcomes : db.shares[v][o] >= n,
         (n - SplitFee(n)) * One <= db.collateral,
         NEW e, e = [db EXCEPT
           !.balance[v] = @ + (n - SplitFee(n)) * One,
           !.collateral = @ - (n - SplitFee(n)) * One,
           !.fees = @ + SplitFee(n) * One,
           !.reserve = [o \in Outcomes |-> Larger(0, @[o] - n)],
           !.shares[v] = [o \in Outcomes |-> @[o] - n]]
  PROVE  LedgerOK(e)
<1> DEFINE m == (n - SplitFee(n)) * One
           f == SplitFee(n) * One
<1>1. /\ db \in Ledger /\ FieldsTyped(db)
      /\ m \in Nat /\ f \in Nat /\ m <= db.collateral
  BY LedgerByFields, SplitFeeBounded, ProductNat, AMMAssumption DEF LedgerOK
<1>2. e = [db EXCEPT
           !.balance[v] = @ + m, !.collateral = @ - m, !.fees = @ + f,
           !.reserve = [o \in Outcomes |-> Larger(0, @[o] - n)],
           !.shares[v] = [o \in Outcomes |-> @[o] - n]]
  OBVIOUS
<1> HIDE DEF m, f
<1>3. /\ e.balance = [db.balance EXCEPT ![v] = @ + m]
      /\ e.collateral = db.collateral - m /\ e.fees = db.fees + f
      /\ e.reserve = [o \in Outcomes |-> Larger(0, db.reserve[o] - n)]
      /\ e.shares = [db.shares EXCEPT ![v] = [o \in Outcomes |-> @[o] - n]]
      /\ e.locked = db.locked /\ e.orders = db.orders
      /\ e.referred = db.referred /\ e.rewards = db.rewards
  BY Zenon, <1>1, <1>2 DEF Ledger
<1>4. e = Fields(e)
  BY <1>1, <1>2, Zenon DEF Fields, Ledger
<1>5. /\ e.shares \in [Users -> [Outcomes -> Int]]
      /\ \A u \in Users, o \in Outcomes : e.shares[u][o] >= 0
  BY <1>1, <1>3 DEF FieldsTyped, LedgerOK, WithinConstraints
<1>6. /\ e.reserve \in [Outcomes -> Int]
      /\ \A o \in Outcomes : e.reserve[o] >= 0
  BY <1>1, <1>3 DEF FieldsTyped, LedgerOK, WithinConstraints, Larger
<1>7. /\ e.balance \in [Users -> Int] /\ e.collateral \in Int /\ e.collateral >= 0
      /\ \A u \in Users : 0 <= e.locked[u] /\ e.locked[u] <= e.balance[u]
  BY <1>1, <1>3 DEF FieldsTyped, LedgerOK, WithinConstraints
<1>8. FieldsTyped(e)
  BY <1>1, <1>3, <1>5, <1>6, <1>7 DEF FieldsTyped
<1> QED
  BY <1>3, <1>4, <1>5, <1>6, <1>7, <1>8, LedgerByFields DEF LedgerOK, WithinConstraints

(* What the AMM gives and pays. *)
LEMMA BuySharesNat ==
  ASSUME NEW d, LedgerOK(d), NEW out \in Outcomes, NEW c \in Nat,
         NEW s \in BuyShares(d.reserve, out, c)
  PROVE  s \in Nat
<1>1. d.reserve["yes"] \in Int /\ d.reserve["no"] \in Int
  BY LedgerByFields DEF LedgerOK, FieldsTyped, Outcomes
<1>2. PoolFee(c) \in Nat
  BY FeeFacts, AMMAssumption DEF PoolFee
<1> QED
  BY <1>1, <1>2 DEF BuyShares, Total

(* What an AMM sell pays is a natural, for shares in reserve. *)
LEMMA SellProceedsNat ==
  ASSUME NEW d, LedgerOK(d), NEW out \in Outcomes, NEW n \in Nat,
         CanSell(d.reserve, out, n)
  PROVE  SellProceeds(d.reserve, out, n) \in Nat /\ n <= d.reserve[out]
<1> DEFINE R == d.reserve[out]
           T == Total(d.reserve)
           k == FeeDen - PoolFeeNum
<1>1. R \in Nat \ {0} /\ T \in Nat \ {0} /\ n <= R
  BY LedgerByFields DEF LedgerOK, FieldsTyped, Outcomes, CanSell, WithinConstraints, Total
<1>2. k \in Nat /\ One \in Nat /\ FeeDen \in Nat \ {0}
  BY AMMAssumption
<1> HIDE DEF R, T, k
<1>3. n * R * One * k \in Nat
  <2>1. n * R \in Nat
    BY <1>1, ProductNat
  <2>2. n * R * One \in Nat
    BY <2>1, <1>2, ProductNat
  <2> QED
    BY <2>2, <1>2, ProductNat
<1>4. T * FeeDen \in Nat \ {0}
  BY <1>1, <1>2
<1>5. (n * R * One * k) \div (T * FeeDen) \in Nat
  BY <1>3, <1>4, DivFacts
<1> QED
  BY <1>1, <1>5 DEF SellProceeds, R, T, k

-----------------------------------------------------------------------------
(* The invariant *)

(* The seeded market's ledger is sound. *)
LEMMA Ledger0Sound == LedgerOK(Ledger0)
<1>1. Cardinality(Users) \in Nat
  BY Zenon, ExchangeAssumption
<1>2. /\ Cardinality(Users) * Shares0 \in Nat
      /\ One * (2 * Reserve0 + Cardinality(Users) * Shares0) \in Nat
  BY <1>1, ProductNat, ExchangeAssumption, AMMAssumption
<1>3. Unused \in Order /\ RowOK(Unused)
  BY DEF Unused, Order, Outcomes, Sides, Statuses, RowOK
<1>4. Ledger0 \in Ledger
  BY <1>2, <1>3, ExchangeAssumption DEF Ledger0, Ledger
<1> DEFINE c == One * (2 * Reserve0 + Cardinality(Users) * Shares0)
           q == Reserve0 + Cardinality(Users) * Shares0
<1>5. c \in Nat /\ q \in Nat
  BY <1>2, ExchangeAssumption
<1>6. /\ Ledger0.balance = [u \in Users |-> Balance0]
      /\ Ledger0.locked = [u \in Users |-> 0]
      /\ Ledger0.shares = [u \in Users |-> [o \in Outcomes |-> Shares0]]
      /\ Ledger0.collateral = c /\ Ledger0.reserve = [o \in Outcomes |-> q]
      /\ Ledger0.orders = [i \in OrderIds |-> Unused]
  BY Zenon DEF Ledger0
<1> HIDE DEF c, q
<1>7. 0 <= Balance0 /\ 0 <= 0 /\ Shares0 >= 0 /\ q >= 0 /\ c >= 0
  BY <1>5, ExchangeAssumption
<1>8. WithinConstraints(Ledger0)
  <2>1. \A u \in Users : 0 <= Ledger0.locked[u] /\ Ledger0.locked[u] <= Ledger0.balance[u]
    BY Zenon, <1>6, <1>7
  <2>2. \A u \in Users, o \in Outcomes : Ledger0.shares[u][o] >= 0
    <3> SUFFICES ASSUME NEW u \in Users, NEW o \in Outcomes
                 PROVE  Ledger0.shares[u][o] >= 0
      OBVIOUS
    <3>1. Ledger0.shares[u] = [p \in Outcomes |-> Shares0]
      BY Zenon, <1>6
    <3>2. Ledger0.shares[u][o] = Shares0
      BY Zenon, <3>1
    <3> QED
      BY Zenon, <3>2, <1>7
  <2>3. \A o \in Outcomes : Ledger0.reserve[o] >= 0
    BY Zenon, <1>6, <1>7
  <2> QED
    BY Zenon, <1>6, <1>7, <2>1, <2>2, <2>3 DEF WithinConstraints
<1>9. \A i \in OrderIds : RowOK(Ledger0.orders[i])
  BY Zenon, <1>3, <1>6
<1> QED
  BY Zenon, <1>4, <1>8, <1>9 DEF LedgerOK

(* The initial state satisfies the inductive invariant. *)
LEMMA InitIInv == Init => IInv
<1> SUFFICES ASSUME Init
             PROVE  IInv
  OBVIOUS
<1>1. LedgerOK(Ledger0) /\ Ledger0 \in Ledger
  BY Ledger0Sound DEF LedgerOK
<1>2. req \in Request
  BY SMTT(30) DEF Init, Request, Outcomes, Sides, NoPrice
<1> QED
  BY <1>1, <1>2 DEF Init, IInv, TypeOK, LoopOK

(* A commit of a sound work ledger keeps the invariant. *)
LEMMA CommitIInv ==
  ASSUME IInv, NEW d, LedgerOK(d), NEW result, Commit(d, result)
  PROVE  IInv'
BY SMTT(30) DEF IInv, TypeOK, LoopOK, Commit, Ends, LedgerOK, WithinConstraints, RowOK

(* A rollback keeps the invariant. *)
LEMMA RollbackIInv ==
  ASSUME IInv, NEW result, Rollback(result)
  PROVE  IInv'
BY SMTT(30) DEF IInv, TypeOK, LoopOK, Rollback, Ends, LedgerOK, WithinConstraints, RowOK

(* A request that is one step keeps it when its ledger is sound. *)
LEMMA AtomicIInv ==
  ASSUME IInv, NEW d, LedgerOK(d), Atomically(d), requests' \in Nat
  PROVE  IInv'
BY DEF IInv, TypeOK, LoopOK, Atomically, LedgerOK, WithinConstraints, RowOK

(* Receiving an order keeps the invariant. *)
LEMMA ReceiveOrderIInv ==
  ASSUME IInv, NEW r \in Requests, ReceiveOrder(r)
  PROVE  IInv'
<1>1. /\ r \in Request /\ r.user \in Users /\ r.amount \in Nat
      /\ r.type = "limit" => r.price \in Nat \ {0}
  <2>1. r \in [user : Users, outcome : Traded, side : Sides, type : Kinds,
               amount : Budgets \cup Lots, price : Prices \cup {NoPrice},
               post : PostOnly]
        /\ (r.type = "limit" => r.price # NoPrice)
    BY DEF Requests
  <2>2. /\ r.user \in Users /\ r.outcome \in Outcomes /\ r.side \in Sides
        /\ r.type \in Kinds /\ r.post \in BOOLEAN
    BY <2>1, ExchangeAssumption, Zenon
  <2>3. r.amount \in Nat
    BY <2>1, ExchangeAssumption, Zenon
  <2>4. r.price \in Nat /\ (r.type = "limit" => r.price \in Nat \ {0})
    <3>1. r.price \in Prices \cup {NoPrice}
      BY <2>1
    <3>2. \A p \in Prices : p \in Nat \ {0}
      BY ExchangeAssumption, AMMAssumption
    <3> QED
      BY <2>1, <3>1, <3>2 DEF NoPrice
  <2>5. r = [user |-> r.user, outcome |-> r.outcome, side |-> r.side,
             type |-> r.type, amount |-> r.amount, price |-> r.price,
             post |-> r.post]
    BY <2>1
  <2> QED
    BY <2>2, <2>3, <2>4, <2>5, Zenon DEF Request
<1>2. /\ pc' = "match" /\ req' = r /\ UNCHANGED <<db, work, filled, spent>>
      /\ filled = 0 /\ spent = 0 /\ work = db
      /\ makers' \subseteq FindMatches(db, r.user, r.outcome, r.side, r.price)
  BY DEF IInv, ReceiveOrder
<1>3. \A i \in makers' : MakerOK(i)'
  BY <1>2 DEF FindMatches, Resting, MakerOK
<1>4. makers' \subseteq OrderIds /\ requests' \in Nat
  <2>1. requests' = requests + 1 /\ requests \in Nat
    BY DEF ReceiveOrder, IInv, TypeOK
  <2>2. FindMatches(db, r.user, r.outcome, r.side, r.price) \subseteq OrderIds
    BY Zenon DEF FindMatches
  <2> QED
    BY <1>2, <2>1, <2>2
<1>5. LedgerOK(db') /\ LedgerOK(work')
  BY <1>2 DEF IInv
<1>6. LedgerOK(db)' /\ LedgerOK(work)'
  BY <1>5 DEF LedgerOK, WithinConstraints, RowOK
<1>7. filled' = 0 /\ spent' = 0 /\ req'.amount \in Nat
  BY <1>1, <1>2 DEF Request
<1>8. TypeOK'
  BY <1>1, <1>2, <1>4, <1>5, <1>7 DEF TypeOK, LedgerOK
<1>9. LoopOK'
  BY <1>1, <1>2, <1>3, <1>7 DEF LoopOK
<1> QED
  BY <1>2, <1>6, <1>8, <1>9 DEF IInv

(* A step of the matching loop keeps the invariant when the transaction's  *)
(* ledger, its makers and its two running totals stay well-formed.         *)
LEMMA LoopStep ==
  ASSUME IInv, pc = "match", UNCHANGED <<db, pc, req, requests>>,
         LedgerOK(work'), makers' \subseteq OrderIds,
         \A j \in makers' : MakerOK(j)',
         filled' \in Nat, spent' \in Nat,
         req.side = "buy" => spent' <= req.amount,
         req.side = "sell" => filled' <= req.amount
  PROVE  IInv'
<1>1. LedgerOK(db')
  BY DEF IInv
<1>2. LedgerOK(db)' /\ LedgerOK(work)'
  BY <1>1 DEF LedgerOK, WithinConstraints, RowOK
<1>3. TypeOK'
  BY <1>1 DEF IInv, TypeOK, LedgerOK
<1>4. LoopOK'
  BY DEF IInv, LoopOK
<1> QED
  BY <1>2, <1>3, <1>4 DEF IInv

(* A fill against one maker keeps the invariant. *)
LEMMA MatchMakerIInv ==
  ASSUME IInv, NEW i \in OrderIds, MatchMaker(i)
  PROVE  IInv'
<1> DEFINE o    == work.orders[i]
           qty  == MatchQty(work, req.side, req.amount, filled, spent, i)
           cost == qty * o.price
           fee  == ProtocolFee(cost)
<1>0. /\ qty = MatchQty(work, req.side, req.amount, filled, spent, i)
      /\ cost = qty * o.price
      /\ fee = ProtocolFee(cost)
  BY Zenon
<1> HIDE DEF qty, cost, fee
<1>1. /\ pc = "match" /\ i \in makers /\ req \in Request /\ req.user \in Users
      /\ req.side \in Sides /\ req.amount \in Nat
      /\ req.side = "buy" => spent <= req.amount
      /\ req.side = "sell" => filled <= req.amount
      /\ filled \in Nat /\ spent \in Nat
      /\ LedgerOK(work) /\ work \in Ledger /\ MakerOK(i)
      /\ makers \subseteq OrderIds
  BY Zenon DEF IInv, MatchMaker, LoopOK, TypeOK, Request
<1>2. /\ RowOK(o) /\ o.side \in Sides /\ o.price \in Nat \ {0}
      /\ o.status # "unused" /\ o.user # req.user /\ o.side # req.side
  BY <1>1 DEF LedgerOK, RowOK, MakerOK, Ledger, Order
<1>3. /\ qty \in Nat /\ WithinMaker(o, qty)
      /\ WithinTaker(o, req.side, req.amount, filled, spent, qty)
  BY ZenonT(30), <1>0, <1>1, <1>2, MatchQtyBounded
<1>4. cost \in Nat /\ fee \in Nat
  BY <1>0, <1>2, <1>3, ProductNat, ProtocolFeeBounded
<1>5. CASE /\ qty <= 0 /\ makers' = {}
           /\ UNCHANGED <<db, pc, work, req, filled, spent, answer, requests>>
  <2>1. LedgerOK(work')
    BY <1>1, <1>5
  <2> QED
    BY <1>1, <1>5, <2>1, LoopStep
<1>6. CASE Rollback("insufficient_balance")
  BY <1>6, RollbackIInv
<1>7. CASE /\ ~BuyerShort(work, i, req.user, qty) /\ makers' = makers \ {i}
           /\ SellerShort(work, i, req.user, qty)
           /\ work' = CreditFee(work, fee)
           /\ UNCHANGED <<filled, spent, db, pc, req, answer, requests>>
  <2>1. LedgerOK(work') /\ work'.orders = work.orders
    <3>1. LedgerOK(CreditFee(work, fee)) /\ CreditFee(work, fee).orders = work.orders
      BY SMTT(30), <1>1, <1>4, CreditFeeSound
    <3> QED
      BY Zenon, <3>1, <1>7
  <2>2. \A j \in makers' : MakerOK(j)'
    BY <1>1, <1>7, <2>1 DEF IInv, LoopOK, MakerOK
  <2>3. makers' \subseteq OrderIds
    BY <1>1, <1>7
  <2> QED
    BY <1>1, <1>7, <2>1, <2>2, <2>3, LoopStep
<1>8. CASE /\ ~BuyerShort(work, i, req.user, qty) /\ makers' = makers \ {i}
           /\ ~SellerShort(work, i, req.user, qty)
           /\ work' = CreditFee(Settle(work, i, req.user, qty), fee)
           /\ filled' = filled + qty
           /\ spent' = spent + cost
           /\ UNCHANGED <<db, pc, req, answer, requests>>
  <2> DEFINE settled == Settle(work, i, req.user, qty)
  <2>1. /\ LedgerOK(settled)
        /\ \A j \in OrderIds \ {i} : settled.orders[j] = work.orders[j]
    BY Zenon, <1>1, <1>2, <1>3, <1>8, FillSound
  <2>2. work' = CreditFee(settled, fee)
    BY <1>8
  <2> HIDE DEF settled
  <2>3. LedgerOK(CreditFee(settled, fee)) /\ CreditFee(settled, fee).orders = settled.orders
    BY <1>4, <2>1, CreditFeeSound
  <2>4. /\ LedgerOK(work')
        /\ \A j \in OrderIds \ {i} : work'.orders[j] = work.orders[j]
    BY SMTT(30), <2>1, <2>2, <2>3
  <2>5. makers' \subseteq OrderIds /\ \A j \in makers' : MakerOK(j)'
    BY <1>1, <1>8, <2>4 DEF IInv, LoopOK, MakerOK
  <2>6. /\ filled' \in Nat /\ spent' \in Nat
        /\ req.side = "buy" => spent' <= req.amount
        /\ req.side = "sell" => filled' <= req.amount
    <3>1. /\ req.side = "buy" => spent + cost <= req.amount
          /\ req.side = "sell" => filled + qty <= req.amount
      BY <1>0, <1>3 DEF WithinTaker
    <3> QED
      BY <1>1, <1>3, <1>4, <1>8, <3>1
  <2> QED
    BY <1>1, <1>8, <2>4, <2>5, <2>6, LoopStep
<1> QED
  BY Zenon, <1>5, <1>6, <1>7, <1>8 DEF MatchMaker, qty, cost, fee

(* What is left of the request, in its own unit. *)
LEMMA RemainderBounded ==
  ASSUME IInv, pc = "match"
  PROVE  /\ Remainder \in Nat /\ Remainder <= req.amount
         /\ req \in Request /\ req.user \in Users /\ req.outcome \in Outcomes
         /\ LedgerOK(work)
BY DEF IInv, TypeOK, LoopOK, Remainder, Request, Sides

(* What a user may spend of a sound ledger is an integer, as are the       *)
(* balances a guard compares.                                              *)
LEMMA GuardsTyped ==
  ASSUME NEW d, LedgerOK(d), NEW u \in Users, NEW o \in Outcomes
  PROVE  /\ Available(d, u) \in Int
         /\ d.shares[u][o] \in Int /\ d.collateral \in Int
<1>1. /\ d.balance \in [Users -> Int] /\ d.locked \in [Users -> Int]
      /\ d.shares \in [Users -> [Outcomes -> Int]] /\ d.collateral \in Int
  BY Zenon, LedgerByFields DEF LedgerOK, FieldsTyped
<1>2. d.balance[u] \in Int /\ d.locked[u] \in Int /\ d.shares[u] \in [Outcomes -> Int]
  BY Zenon, <1>1
<1>3. Available(d, u) \in Int
  BY <1>2 DEF Available
<1>4. d.shares[u][o] \in Int
  BY Zenon, <1>2
<1> QED
  BY Zenon, <1>1, <1>3, <1>4

(* Resting a remainder keeps the invariant. *)
LEMMA RestRemainderIInv ==
  ASSUME IInv, NEW i \in OrderIds, RestRemainder(i)
  PROVE  IInv'
<1> DEFINE n == NewOrder(work, i, Remainder)
<1>1. /\ Remainder \in Nat /\ Remainder <= req.amount /\ req \in Request
      /\ req.user \in Users /\ req.outcome \in Outcomes
      /\ LedgerOK(work) /\ req.price \in Nat \ {0}
  BY RemainderBounded DEF RestRemainder, MatchingDone, IInv, LoopOK
<1>2. /\ LedgerOK(n) /\ Available(n, req.user) = Available(work, req.user)
  BY <1>1, NewOrderSound
<1>3. CASE Rollback("refused")
  BY <1>3, RollbackIInv
<1>4. CASE /\ Available(work, req.user) >= Remainder
           /\ Commit([n EXCEPT !.locked[req.user] = @ + Remainder], "resting")
  <2>1. LedgerOK([n EXCEPT !.locked[req.user] = @ + Remainder])
    <3>1. Available(work, req.user) \in Int
      BY Zenon, <1>1, GuardsTyped
    <3> HIDE DEF n
    <3>2. Remainder <= Available(n, req.user)
      BY <1>1, <1>2, <1>4, <3>1
    <3> QED
      BY <1>1, <1>2, <3>2, LockSound
  <2> QED
    BY <1>4, <2>1, CommitIInv
<1>5. CASE Commit(n, "resting")
  BY <1>2, <1>5, CommitIInv
<1> QED
  BY <1>3, <1>4, <1>5 DEF RestRemainder

(* Finishing a buy on the AMM keeps the invariant. *)
LEMMA FinishBuyIInv ==
  ASSUME IInv, FinishBuyAMM
  PROVE  IInv'
<1>1. /\ Remainder \in Nat /\ req \in Request /\ req.user \in Users
      /\ req.outcome \in Outcomes /\ LedgerOK(work) /\ filled \in Nat
  BY RemainderBounded DEF FinishBuyAMM, MatchingDone, IInv, TypeOK
<1>2. CASE Rollback("refused")
  BY <1>2, RollbackIInv
<1>3. ASSUME ~(Available(work, req.user) < Remainder),
             NEW s \in BuyShares(work.reserve, req.outcome, Remainder),
             Commit(PayReferral(Book(AMMBuy(work, s), filled + s)), "filled")
      PROVE  IInv'
  <2>1. s \in Nat /\ filled + s \in Nat
    BY <1>1, BuySharesNat
  <2>2. Remainder <= Available(work, req.user)
    <3>1. Available(work, req.user) \in Int
      BY Zenon, <1>1, GuardsTyped
    <3> QED
      BY <1>1, <1>3, <3>1
  <2>3. LedgerOK(AMMBuy(work, s))
    BY <1>1, <2>1, <2>2, AMMBuySound
  <2>4. LedgerOK(Book(AMMBuy(work, s), filled + s))
    BY <1>1, <2>1, <2>3, BookSound
  <2>5. LedgerOK(PayReferral(Book(AMMBuy(work, s), filled + s)))
    BY <1>1, <2>4, ReferralSound
  <2> QED
    BY <1>3, <2>5, CommitIInv
<1> QED
  BY <1>2, <1>3 DEF FinishBuyAMM

(* Finishing a sell on the AMM keeps the invariant. *)
LEMMA FinishSellIInv ==
  ASSUME IInv, FinishSellAMM
  PROVE  IInv'
<1> DEFINE proceeds == SellProceeds(work.reserve, req.outcome, Remainder)
<1>1. /\ Remainder \in Nat /\ req \in Request /\ req.user \in Users
      /\ req.outcome \in Outcomes /\ LedgerOK(work)
  BY RemainderBounded DEF FinishSellAMM, MatchingDone
<1>2. CASE Rollback("refused")
  BY <1>2, RollbackIInv
<1>3. CASE /\ ~(work.shares[req.user][req.outcome] < Remainder)
           /\ CanSell(work.reserve, req.outcome, Remainder)
           /\ ~(proceeds > work.collateral)
           /\ Commit(PayReferral(AMMSell(work, proceeds)), "filled")
  <2>1. proceeds \in Nat /\ Remainder <= work.reserve[req.outcome]
    BY <1>1, <1>3, SellProceedsNat
  <2>2. work.shares[req.user][req.outcome] \in Int /\ work.collateral \in Int
    BY Zenon, <1>1, GuardsTyped
  <2> HIDE DEF proceeds
  <2>3. Remainder <= work.shares[req.user][req.outcome] /\ proceeds <= work.collateral
    BY <1>1, <1>3, <2>1, <2>2
  <2>4. LedgerOK(AMMSell(work, proceeds))
    BY <1>1, <2>1, <2>3, AMMSellSound
  <2>5. LedgerOK(PayReferral(AMMSell(work, proceeds)))
    BY <1>1, <2>4, ReferralSound
  <2> QED
    BY <1>3, <2>5, CommitIInv
<1> QED
  BY <1>2, <1>3 DEF FinishSellAMM

(* Finishing a request the book filled keeps the invariant. *)
LEMMA FinishFromBookIInv ==
  ASSUME IInv, FinishFromBook
  PROVE  IInv'
<1>1. req \in Request /\ req.user \in Users /\ LedgerOK(work) /\ filled \in Nat
  BY RemainderBounded DEF FinishFromBook, MatchingDone, IInv, TypeOK
<1>2. LedgerOK(PayReferral(Book(work, filled)))
  BY <1>1, BookSound, ReferralSound
<1> QED
  BY <1>2, CommitIInv DEF FinishFromBook

(* Cancelling or expiring an order keeps the invariant. *)
LEMMA CloseIInv ==
  ASSUME IInv, NEW i \in OrderIds, CancelOrder(i) \/ ExpireOrder(i)
  PROVE  IInv'
<1>1. /\ LedgerOK(db) /\ requests' \in Nat /\ db.orders[i].status # "unused"
  BY DEF IInv, TypeOK, CancelOrder, ExpireOrder, Resting
<1>2. /\ LedgerOK(CloseOrder(db, i, "cancelled"))
      /\ LedgerOK(CloseOrder(db, i, "expired"))
  BY <1>1, CloseOrderSound DEF Statuses
<1> QED
  BY <1>1, <1>2, AtomicIInv DEF CancelOrder, ExpireOrder

(* A split keeps the invariant. *)
LEMMA SplitIInv ==
  ASSUME IInv, NEW u \in Users, NEW n \in Lots, Split(u, n)
  PROVE  IInv'
<1> DEFINE e == [db EXCEPT
           !.balance[u] = @ - n * One,
           !.collateral = @ + n * One,
           !.fees = @ + SplitFee(n) * One,
           !.reserve = [o \in Outcomes |-> @[o] + n - SplitFee(n)],
           !.shares[u] = [o \in Outcomes |-> @[o] + n - SplitFee(n)]]
<1>1. LedgerOK(db) /\ requests' \in Nat /\ n \in Nat /\ n * One <= Available(db, u)
  BY ExchangeAssumption DEF IInv, TypeOK, Split
<1>2. Atomically(e)
  BY DEF Split
<1>3. LedgerOK(e)
  BY Zenon, <1>1, SplitSound
<1> HIDE DEF e
<1> QED
  BY <1>1, <1>2, <1>3, AtomicIInv

(* A merge keeps the invariant. *)
LEMMA MergeIInv ==
  ASSUME IInv, NEW u \in Users, NEW n \in Lots, Merge(u, n)
  PROVE  IInv'
<1> DEFINE e == [db EXCEPT
           !.balance[u] = @ + (n - SplitFee(n)) * One,
           !.collateral = @ - (n - SplitFee(n)) * One,
           !.fees = @ + SplitFee(n) * One,
           !.reserve = [o \in Outcomes |-> Larger(0, @[o] - n)],
           !.shares[u] = [o \in Outcomes |-> @[o] - n]]
<1>1. /\ LedgerOK(db) /\ requests' \in Nat /\ n \in Nat
      /\ \A o \in Outcomes : db.shares[u][o] >= n
      /\ (n - SplitFee(n)) * One <= db.collateral
  BY ExchangeAssumption DEF IInv, TypeOK, Merge
<1>2. Atomically(e)
  BY DEF Merge
<1>3. LedgerOK(e)
  BY Zenon, <1>1, MergeSound
<1> HIDE DEF e
<1> QED
  BY <1>1, <1>2, <1>3, AtomicIInv

(* Every step keeps the inductive invariant. *)
LEMMA NextIInv == IInv /\ [Next]_vars => IInv'
<1> SUFFICES ASSUME IInv, [Next]_vars
             PROVE  IInv'
  OBVIOUS
<1>1. CASE \E r \in Requests : ReceiveOrder(r)
  BY <1>1, ReceiveOrderIInv
<1>2. CASE \E i \in OrderIds : MatchMaker(i)
  BY <1>2, MatchMakerIInv
<1>3. CASE \E i \in OrderIds : RestRemainder(i)
  BY <1>3, RestRemainderIInv
<1>4. CASE RejectRemainder
  BY <1>4, RollbackIInv DEF RejectRemainder
<1>5. CASE FinishFromBook
  BY <1>5, FinishFromBookIInv
<1>6. CASE SlippageRefused
  BY <1>6, RollbackIInv DEF SlippageRefused
<1>7. CASE FinishBuyAMM
  BY <1>7, FinishBuyIInv
<1>8. CASE FinishSellAMM
  BY <1>8, FinishSellIInv
<1>9. CASE \E i \in OrderIds : CancelOrder(i) \/ ExpireOrder(i)
  BY <1>9, CloseIInv
<1>10. CASE \E u \in Users, n \in Lots : Split(u, n)
  BY <1>10, SplitIInv
<1>11. CASE \E u \in Users, n \in Lots : Merge(u, n)
  BY <1>11, MergeIInv
<1>12. CASE UNCHANGED vars
  BY Zenon, <1>12 DEF vars, IInv, TypeOK, LoopOK, MakerOK, LedgerOK, WithinConstraints, RowOK
<1> QED
  BY <1>1, <1>2, <1>3, <1>4, <1>5, <1>6, <1>7, <1>8, <1>9, <1>10, <1>11, <1>12
     DEF Next, ExecuteOrder

(* The exchange's variables keep their types: no request writes a row of   *)
(* another shape, whatever the users, prices, fees and bounds.             *)
THEOREM TypeCorrect == Spec => []TypeOK
<1>1. IInv => TypeOK
  BY DEF IInv
<1> QED
  BY <1>1, InitIInv, NextIInv, PTL DEF Spec

(* No wallet reserves more than it holds, no position, reserve or escrow   *)
(* is negative, committed or in the middle of execute_order: the CHECK     *)
(* constraints of wallets and positions and debit_collateral never have to *)
(* stop a request that the handlers' own guards let through.               *)
THEOREM ConstraintsNeverTrip == Spec => []ChecksNeverTrip
<1>1. IInv => ChecksNeverTrip
  BY SMTT(30) DEF IInv, LedgerOK, ChecksNeverTrip
<1> QED
  BY <1>1, InitIInv, NextIInv, PTL DEF Spec

(* A match never takes more off a resting order than the order has left,   *)
(* dollars against dollars and shares against shares.                      *)
THEOREM MakersNeverOverfilled == Spec => []NeverOverfilled
<1>1. IInv => NeverOverfilled
  BY DEF IInv, LedgerOK, RowOK, NeverOverfilled
<1> QED
  BY <1>1, InitIInv, NextIInv, PTL DEF Spec

=============================================================================
