--------------------------- MODULE ExchangeBooks ----------------------------
(***************************************************************************)
(* The books of the exchange balance, for any users, prices, budgets and   *)
(* fees: a wallet's locked_balance is what its resting bids have left, and *)
(* no request makes money. The inductive invariant is BooksInv: the one of *)
(* ExchangeProofs, the makers still to visit rest, the reservations of the *)
(* committed ledger are its bids, and the uncommitted one accounts for     *)
(* every dollar the committed one holds.                                   *)
(***************************************************************************)
EXTENDS ExchangeProofs, SumTheorems
-----------------------------------------------------------------------------
(* Reservations and worth *)

(* The reservations of a ledger are its resting bids. *)
Bids(d) == \A u \in Users : d.locked[u] = Reserved(d, u)

(* What users and pool own, less the fees owed and the rewards paid. *)
Worth(d) == Money(d) - d.fees - d.rewards

(* What a user reserves and what a ledger is worth, as sums over order     *)
(* numbers and users.                                                      *)
LEMMA SumForms ==
  ASSUME NEW d
  PROVE  /\ \A u : Reserved(d, u) = SumOver(BidLeft(d, u), OrderIds)
         /\ Worth(d) = (SumOver(d.balance, Users) + d.collateral) - d.fees - d.rewards
<1>1. ASSUME NEW u PROVE Reserved(d, u) = SumOver(BidLeft(d, u), OrderIds)
  BY DEF Reserved, SumOver, MapThenSumSet, MapThenFoldSet
<1>2. Money(d) = SumOver(d.balance, Users) + d.collateral
  BY DEF Money, SumOver, MapThenSumSet, MapThenFoldSet
<1>3. Worth(d) = (SumOver(d.balance, Users) + d.collateral) - d.fees - d.rewards
  BY <1>2, Zenon DEF Worth
<1> QED
  BY <1>1, <1>3, Zenon

(* What a bid has left is never negative, and neither is the sum.          *)
LEMMA BidLeftTyped ==
  ASSUME NEW d, LedgerOK(d), NEW u
  PROVE  /\ \A i \in OrderIds : BidLeft(d, u)[i] \in Nat
         /\ IsFiniteSet(OrderIds) /\ SumOver(BidLeft(d, u), OrderIds) \in Nat
<1>1. \A i \in OrderIds : BidLeft(d, u)[i] \in Nat
  BY DEF BidLeft, LedgerOK, RowOK, Ledger, Order
<1>2. IsFiniteSet(OrderIds)
  BY ExchangeAssumption, FS_Interval DEF OrderIds
<1>3. SumOver(BidLeft(d, u), OrderIds) \in Nat
  BY <1>1, <1>2, SumNat
<1> QED
  BY <1>1, <1>2, <1>3

(* What a bid has left is part of its owner's reservation. *)
LEMMA BidWithinLock ==
  ASSUME NEW d, LedgerOK(d), Bids(d), NEW u \in Users, NEW i \in OrderIds
  PROVE  BidLeft(d, u)[i] <= d.locked[u]
<1>1. BidLeft(d, u)[i] <= SumOver(BidLeft(d, u), OrderIds)
  BY BidLeftTyped, SumMember
<1> QED
  BY <1>1, SumForms DEF Bids

(* Rows and reservations that stay keep the reservations right. *)
LEMMA SameBids ==
  ASSUME NEW d, NEW e, Bids(d), e.orders = d.orders, e.locked = d.locked
  PROVE  Bids(e)
<1>1. \A u : BidLeft(e, u) = BidLeft(d, u)
  BY DEF BidLeft
<1> QED
  BY <1>1, SumForms DEF Bids

(* A row that is written takes its owner's reservation along. *)
LEMMA RowWritten ==
  ASSUME NEW d, LedgerOK(d), Bids(d), NEW e, LedgerOK(e), NEW i \in OrderIds, NEW v \in Users,
         \A j \in OrderIds \ {i} : e.orders[j] = d.orders[j],
         \A u \in Users \ {v} : BidLeft(e, u)[i] = BidLeft(d, u)[i] /\ e.locked[u] = d.locked[u],
         e.locked[v] = d.locked[v] + BidLeft(e, v)[i] - BidLeft(d, v)[i]
  PROVE  Bids(e)
<1>1. ASSUME NEW u \in Users PROVE e.locked[u] = Reserved(e, u)
  <2> DEFINE f == BidLeft(d, u)
             g == BidLeft(e, u)
  <2>1. \A j \in OrderIds : j # i => g[j] = f[j]
    BY Zenon DEF BidLeft
  <2>2. /\ \A j \in OrderIds : f[j] \in Nat /\ g[j] \in Nat
        /\ IsFiniteSet(OrderIds) /\ SumOver(f, OrderIds) \in Nat
    BY BidLeftTyped
  <2>3. d.locked[u] = SumOver(f, OrderIds)
    BY SumForms DEF Bids
  <2>4. e.locked[u] = d.locked[u] + g[i] - f[i]
    <3>1. CASE u = v
      BY <3>1
    <3>2. CASE u # v
      BY <2>2, <2>3, <3>2
    <3> QED
      BY <3>1, <3>2
  <2> HIDE DEF f, g
  <2>5. SumOver(g, OrderIds) = SumOver(f, OrderIds) + g[i] - f[i]
    BY <2>1, <2>2, SumUpdate
  <2>6. e.locked[u] = SumOver(g, OrderIds)
    BY <2>3, <2>4, <2>5
  <2> QED
    BY <2>6, SumForms DEF g
<1> QED
  BY <1>1 DEF Bids

(* One wallet changes by x. *)
LEMMA WorthOfOne ==
  ASSUME NEW d, FieldsTyped(d), NEW e, FieldsTyped(e), NEW v \in Users, NEW x \in Int,
         e.balance[v] = d.balance[v] + x, \A u \in Users \ {v} : e.balance[u] = d.balance[u]
  PROVE  /\ Worth(d) \in Int
         /\ Worth(e) = Worth(d) + x + (e.collateral - d.collateral) - (e.fees - d.fees)
                         - (e.rewards - d.rewards)
<1>1. IsFiniteSet(Users) /\ \A u \in Users : d.balance[u] \in Int /\ e.balance[u] \in Int
  BY ExchangeAssumption DEF FieldsTyped
<1>2. SumOver(e.balance, Users) = SumOver(d.balance, Users) + e.balance[v] - d.balance[v]
  BY <1>1, SumUpdate
<1>3. SumOver(d.balance, Users) \in Int
  BY <1>1, SumInt
<1>4. /\ Worth(d) = (SumOver(d.balance, Users) + d.collateral) - d.fees - d.rewards
      /\ Worth(e) = (SumOver(e.balance, Users) + e.collateral) - e.fees - e.rewards
  BY Zenon, SumForms
<1>5. /\ d.collateral \in Int /\ d.fees \in Int /\ d.rewards \in Int /\ d.balance[v] \in Int
      /\ e.collateral \in Int /\ e.fees \in Int /\ e.rewards \in Int
  BY <1>1 DEF FieldsTyped
<1> QED
  BY <1>2, <1>3, <1>4, <1>5

(* No wallet changes. *)
LEMMA WorthOfNone ==
  ASSUME NEW d, FieldsTyped(d), NEW e, FieldsTyped(e), e.balance = d.balance
  PROVE  /\ Worth(d) \in Int
         /\ Worth(e) = Worth(d) + (e.collateral - d.collateral) - (e.fees - d.fees)
                         - (e.rewards - d.rewards)
<1>1. IsFiniteSet(Users) /\ \A u \in Users : d.balance[u] \in Int
  BY ExchangeAssumption DEF FieldsTyped
<1>2. SumOver(d.balance, Users) \in Int
  BY <1>1, SumInt
<1>3. /\ Worth(d) = (SumOver(d.balance, Users) + d.collateral) - d.fees - d.rewards
      /\ Worth(e) = (SumOver(d.balance, Users) + e.collateral) - e.fees - e.rewards
  BY SumForms
<1>4. /\ d.collateral \in Int /\ d.fees \in Int /\ d.rewards \in Int
      /\ e.collateral \in Int /\ e.fees \in Int /\ e.rewards \in Int
  BY DEF FieldsTyped
<1> QED
  BY <1>2, <1>3, <1>4

(* e makes nobody richer than d did, and reserves what its bids have left. *)
Accounted(d, e) ==
  /\ Worth(d) \in Int /\ Worth(e) \in Int /\ Worth(e) <= Worth(d)
  /\ Bids(d) => Bids(e)

(* Two writes that account for the money do so together.                   *)
LEMMA AccountedChain ==
  ASSUME NEW d, NEW e, NEW f, Accounted(d, e), Accounted(e, f)
  PROVE  Accounted(d, f)
BY DEF Accounted

(* A fee recorded by execute_match is in the collateral and in the fees    *)
(* owed, so it makes nothing.                                              *)
LEMMA CreditFeeAccounted ==
  ASSUME NEW d, LedgerOK(d), NEW fee \in Nat
  PROVE  Accounted(d, CreditFee(d, fee))
<1> DEFINE e == CreditFee(d, fee)
<1>1. d \in Ledger /\ FieldsTyped(d) /\ LedgerOK(e) /\ FieldsTyped(e)
  BY LedgerByFields, CreditFeeSound DEF LedgerOK
<1>2. /\ e.collateral = d.collateral + fee /\ e.fees = d.fees + fee
      /\ e.balance = d.balance /\ e.locked = d.locked /\ e.orders = d.orders /\ e.rewards = d.rewards
  BY <1>1 DEF CreditFee, Ledger
<1>3. d.collateral \in Int /\ d.fees \in Int /\ d.rewards \in Int
  BY <1>1 DEF FieldsTyped
<1> HIDE DEF e
<1>4. /\ Worth(d) \in Int
      /\ Worth(e) = Worth(d) + (e.collateral - d.collateral) - (e.fees - d.fees) - (e.rewards - d.rewards)
  BY Zenon, <1>1, <1>2, WorthOfNone
<1>5. Worth(e) = Worth(d)
  BY <1>2, <1>3, <1>4
<1>6. Bids(d) => Bids(e)
  BY <1>2, SameBids
<1> QED
  BY <1>4, <1>5, <1>6 DEF Accounted, e

(* Step 7 of execute_order writes the position and no dollar.              *)
LEMMA BookAccounted ==
  ASSUME NEW d, LedgerOK(d), NEW total \in Nat, req \in Request, req.user \in Users
  PROVE  Accounted(d, Book(d, total))
<1> DEFINE e == Book(d, total)
<1>1. d \in Ledger /\ FieldsTyped(d) /\ LedgerOK(e) /\ FieldsTyped(e)
  BY LedgerByFields, BookSound DEF LedgerOK
<1>2. /\ e.collateral = d.collateral /\ e.fees = d.fees
      /\ e.balance = d.balance /\ e.locked = d.locked /\ e.orders = d.orders /\ e.rewards = d.rewards
  BY <1>1 DEF Book, Ledger
<1>3. d.collateral \in Int /\ d.fees \in Int /\ d.rewards \in Int
  BY <1>1 DEF FieldsTyped
<1> HIDE DEF e
<1>4. /\ Worth(d) \in Int
      /\ Worth(e) = Worth(d) + (e.collateral - d.collateral) - (e.fees - d.fees) - (e.rewards - d.rewards)
  BY <1>1, <1>2, WorthOfNone
<1>5. Worth(e) = Worth(d)
  BY <1>2, <1>3, <1>4
<1>6. Bids(d) => Bids(e)
  BY <1>2, SameBids
<1> QED
  BY <1>4, <1>5, <1>6 DEF Accounted, e

(* The referral reward is credited from outside the market, and counted in *)
(* full.                                                                   *)
LEMMA ReferralAccounted ==
  ASSUME NEW d, LedgerOK(d), req.user \in Users
  PROVE  Accounted(d, PayReferral(d))
<1> DEFINE v == Referrer[req.user]
           e == PayReferral(d)
<1>1. /\ d \in Ledger /\ FieldsTyped(d) /\ LedgerOK(e) /\ FieldsTyped(e) /\ v \in Users /\ Reward \in Nat
  BY LedgerByFields, ReferralSound, ExchangeAssumption DEF LedgerOK
<1>2. CASE req.user \in d.referred
  <2>1. e = [d EXCEPT !.balance[v] = @ + Reward, !.referred = @ \ {req.user}, !.rewards = @ + Reward]
    BY <1>2 DEF PayReferral
  <2> HIDE DEF e, v
  <2>2. /\ e.balance = [d.balance EXCEPT ![v] = @ + Reward] /\ e.rewards = d.rewards + Reward
        /\ e.locked = d.locked /\ e.orders = d.orders /\ e.collateral = d.collateral /\ e.fees = d.fees
    BY <1>1, <2>1 DEF Ledger
  <2>3. /\ d.collateral \in Int /\ d.fees \in Int /\ d.rewards \in Int
        /\ e.balance[v] = d.balance[v] + Reward /\ \A u \in Users \ {v} : e.balance[u] = d.balance[u]
    BY <1>1, <2>2 DEF FieldsTyped
  <2>4. /\ Worth(d) \in Int
        /\ Worth(e) = Worth(d) + Reward + (e.collateral - d.collateral) - (e.fees - d.fees)
                         - (e.rewards - d.rewards)
    BY <1>1, <2>3, WorthOfOne
  <2>5. Worth(e) = Worth(d)
    BY <1>1, <2>2, <2>3, <2>4
  <2>6. Bids(d) => Bids(e)
    BY <2>2, SameBids
  <2> QED
    BY <2>4, <2>5, <2>6 DEF Accounted, e
<1>3. CASE req.user \notin d.referred
  <2>1. e = d
    BY <1>3 DEF PayReferral
  <2>2. Worth(d) \in Int
    BY <1>1, WorthOfNone
  <2> QED
    BY <2>1, <2>2 DEF Accounted
<1> QED
  BY <1>2, <1>3

(* A buy from the pool moves its cost from the wallet to the pool and the  *)
(* fee.                                                                    *)
LEMMA AMMBuyAccounted ==
  ASSUME NEW d, LedgerOK(d), req \in Request, req.user \in Users, NEW s \in Nat,
         Remainder \in Nat, Remainder <= Available(d, req.user)
  PROVE  Accounted(d, AMMBuy(d, s))
<1> DEFINE v   == req.user
           n   == Remainder
           fee == ProtocolFee(n)
           e   == AMMBuy(d, s)
<1>1. /\ d \in Ledger /\ FieldsTyped(d) /\ LedgerOK(e) /\ FieldsTyped(e) /\ v \in Users
      /\ n \in Nat /\ fee \in Nat
  BY Zenon, LedgerByFields, AMMBuySound, ProtocolFeeBounded DEF LedgerOK
<1>2. e = [d EXCEPT !.balance[v] = @ - n, !.collateral = @ + n, !.fees = @ + fee,
                    !.reserve[req.outcome] = @ + s]
  BY DEF AMMBuy
<1> HIDE DEF e, v, n, fee
<1>3. /\ e.balance = [d.balance EXCEPT ![v] = @ - n]
      /\ e.collateral = d.collateral + n /\ e.fees = d.fees + fee
      /\ e.locked = d.locked /\ e.orders = d.orders /\ e.rewards = d.rewards
  BY <1>1, <1>2 DEF Ledger
<1>4. /\ d.collateral \in Int /\ d.fees \in Int /\ d.rewards \in Int /\ -n \in Int
      /\ e.balance[v] = d.balance[v] + (-n) /\ \A u \in Users \ {v} : e.balance[u] = d.balance[u]
  BY <1>1, <1>3 DEF FieldsTyped
<1>5. /\ Worth(d) \in Int
      /\ Worth(e) = Worth(d) + (-n) + (e.collateral - d.collateral) - (e.fees - d.fees)
                       - (e.rewards - d.rewards)
  BY Zenon, <1>1, <1>4, WorthOfOne
<1>6. Worth(e) = Worth(d) - fee
  BY <1>1, <1>3, <1>4, <1>5
<1>7. Bids(d) => Bids(e)
  BY Zenon, <1>3, SameBids
<1> QED
  BY <1>1, <1>5, <1>6, <1>7 DEF Accounted, e

(* A sale to the pool moves its proceeds from the pool to the wallet and   *)
(* the fee.                                                                *)
LEMMA AMMSellAccounted ==
  ASSUME NEW d, LedgerOK(d), req \in Request, req.user \in Users,
         NEW proceeds \in Nat, LedgerOK(AMMSell(d, proceeds))
  PROVE  Accounted(d, AMMSell(d, proceeds))
<1> DEFINE v   == req.user
           fee == ProtocolFee(proceeds)
           e   == AMMSell(d, proceeds)
<1>1. /\ d \in Ledger /\ FieldsTyped(d) /\ FieldsTyped(e) /\ v \in Users /\ fee \in Nat
  BY LedgerByFields, ProtocolFeeBounded DEF LedgerOK
<1>2. e = [d EXCEPT !.balance[v] = @ + proceeds, !.collateral = @ - proceeds, !.fees = @ + fee,
                    !.shares[v][req.outcome] = @ - Remainder, !.reserve[req.outcome] = @ - Remainder]
  BY DEF AMMSell
<1> HIDE DEF e, v, fee
<1>3. /\ e.balance = [d.balance EXCEPT ![v] = @ + proceeds]
      /\ e.collateral = d.collateral - proceeds /\ e.fees = d.fees + fee
      /\ e.locked = d.locked /\ e.orders = d.orders /\ e.rewards = d.rewards
  BY <1>1, <1>2 DEF Ledger
<1>4. /\ d.collateral \in Int /\ d.fees \in Int /\ d.rewards \in Int
      /\ e.balance[v] = d.balance[v] + proceeds /\ \A u \in Users \ {v} : e.balance[u] = d.balance[u]
  BY <1>1, <1>3 DEF FieldsTyped
<1>5. /\ Worth(d) \in Int
      /\ Worth(e) = Worth(d) + proceeds + (e.collateral - d.collateral) - (e.fees - d.fees)
                       - (e.rewards - d.rewards)
  BY <1>1, <1>4, WorthOfOne
<1>6. Worth(e) = Worth(d) - fee
  BY <1>1, <1>3, <1>4, <1>5
<1>7. Bids(d) => Bids(e)
  BY <1>3, SameBids
<1> QED
  BY <1>1, <1>5, <1>6, <1>7 DEF Accounted, e

(* A split or a merge pays for its pairs. *)
LEMMA PairsAccounted ==
  ASSUME NEW d, LedgerOK(d), NEW e, LedgerOK(e), NEW v \in Users, NEW x \in Int, NEW fee \in Nat,
         e.balance = [d.balance EXCEPT ![v] = @ + x], e.collateral = d.collateral - x,
         e.fees = d.fees + fee,
         e.locked = d.locked, e.orders = d.orders, e.rewards = d.rewards
  PROVE  Accounted(d, e)
<1>1. FieldsTyped(d) /\ FieldsTyped(e)
  BY Zenon, LedgerByFields DEF LedgerOK
<1>2. /\ d.collateral \in Int /\ d.fees \in Int /\ d.rewards \in Int
      /\ e.balance[v] = d.balance[v] + x /\ \A u \in Users \ {v} : e.balance[u] = d.balance[u]
  BY <1>1 DEF FieldsTyped
<1>3. /\ Worth(d) \in Int
      /\ Worth(e) = Worth(d) + x + (e.collateral - d.collateral) - (e.fees - d.fees)
                       - (e.rewards - d.rewards)
  BY Zenon, <1>1, <1>2, WorthOfOne
<1>4. Worth(e) = Worth(d) - fee
  BY <1>2, <1>3
<1>5. Bids(d) => Bids(e)
  BY SameBids
<1> QED
  BY <1>3, <1>4, <1>5 DEF Accounted

(* Closing a row releases what it has left. *)
LEMMA CloseAccounted ==
  ASSUME NEW d, LedgerOK(d), NEW i \in OrderIds, Resting(d.orders[i]),
         NEW status \in {"cancelled", "expired"}, LedgerOK(CloseOrder(d, i, status))
  PROVE  Accounted(d, CloseOrder(d, i, status))
<1> DEFINE o == d.orders[i]
           v == o.user
           e == CloseOrder(d, i, status)
<1>0. d \in Ledger /\ FieldsTyped(d) /\ FieldsTyped(e)
  BY LedgerByFields DEF LedgerOK
<1>1. /\ d \in Ledger /\ FieldsTyped(d) /\ FieldsTyped(e) /\ o \in Order /\ v \in Users
      /\ o.remaining \in Nat /\ d.locked[v] \in Int
  <2>1. o \in Order /\ RowOK(o) /\ o.status # "unused"
    BY Zenon, <1>0 DEF LedgerOK, FieldsTyped, Resting
  <2>2. v \in Users /\ o.remaining \in Nat
    BY <2>1 DEF RowOK, Order
  <2> QED
    BY Zenon, <1>0, <2>1, <2>2 DEF FieldsTyped
<1>2. e = [d EXCEPT !.orders[i].status = status,
                    !.locked[v] = IF o.side = "buy" THEN Larger(0, @ - o.remaining) ELSE @]
  BY DEF CloseOrder
<1> HIDE DEF e
<1>3. /\ e.balance = d.balance /\ e.collateral = d.collateral /\ e.fees = d.fees /\ e.rewards = d.rewards
      /\ e.orders = [d.orders EXCEPT ![i].status = status]
      /\ e.locked = [d.locked EXCEPT ![v] = IF o.side = "buy" THEN Larger(0, @ - o.remaining) ELSE @]
  BY Zenon, <1>1, <1>2 DEF Ledger
<1>4. Worth(d) \in Int /\ Worth(e) = Worth(d)
  <2>1. d.collateral \in Int /\ d.fees \in Int /\ d.rewards \in Int
    BY <1>1 DEF FieldsTyped
  <2>2. /\ Worth(d) \in Int
        /\ Worth(e) = Worth(d) + (e.collateral - d.collateral) - (e.fees - d.fees) - (e.rewards - d.rewards)
    BY Zenon, <1>1, <1>3, WorthOfNone
  <2> QED
    BY <1>3, <2>1, <2>2
<1>5. ASSUME Bids(d) PROVE Bids(e)
  <2>1. /\ \A j \in OrderIds \ {i} : e.orders[j] = d.orders[j]
        /\ e.orders[i].status = status
    BY <1>1, <1>3 DEF FieldsTyped, Order
  <2>2. ~Resting(e.orders[i])
    BY Zenon, <2>1 DEF Resting
  <2>3. \A u \in Users : BidLeft(e, u)[i] = 0
    BY <2>2 DEF BidLeft
  <2>4. \A u \in Users \ {v} : BidLeft(d, u)[i] = 0 /\ e.locked[u] = d.locked[u]
    BY <1>1, <1>3 DEF BidLeft, FieldsTyped
  <2>5. e.locked[v] = d.locked[v] - BidLeft(d, v)[i]
    <3>1. CASE o.side = "buy"
      <4>1. BidLeft(d, v)[i] = o.remaining
        BY Zenon, <3>1 DEF BidLeft
      <4>2. o.remaining <= d.locked[v]
        BY Zenon, <1>1, <1>5, <4>1, BidWithinLock
      <4>3. e.locked[v] = Larger(0, d.locked[v] - o.remaining)
        BY <1>1, <1>3, <3>1 DEF FieldsTyped
      <4> QED
        BY <1>1, <4>1, <4>2, <4>3 DEF Larger
    <3>2. CASE o.side # "buy"
      <4>1. BidLeft(d, v)[i] = 0 /\ e.locked[v] = d.locked[v]
        BY <1>1, <1>3, <3>2 DEF BidLeft, FieldsTyped
      <4> QED
        BY <1>1, <4>1
    <3> QED
      BY Zenon, <3>1, <3>2
  <2>6. BidLeft(d, v)[i] \in Nat
    BY Zenon, BidLeftTyped
  <2>7. e.locked[v] = d.locked[v] + BidLeft(e, v)[i] - BidLeft(d, v)[i]
    BY <1>1, <2>3, <2>5, <2>6
  <2>8. LedgerOK(e)
    BY DEF e
  <2> QED
    BY <1>1, <1>5, <2>1, <2>3, <2>4, <2>7, <2>8, RowWritten
<1> QED
  BY <1>4, <1>5 DEF Accounted, e

(* A new row: its owner's reservation grows by what it has left if it is a *)
(* bid.                                                                    *)
LEMMA NewOrderFields ==
  ASSUME NEW d, LedgerOK(d), NEW i \in OrderIds, d.orders[i].status = "unused", NEW left \in Nat,
         req \in Request, req.user \in Users, req.price \in Nat \ {0}, left <= req.amount,
         NEW n, n = NewOrder(d, i, left)
  PROVE  /\ n \in Ledger /\ n.balance = d.balance /\ n.collateral = d.collateral /\ n.fees = d.fees
         /\ n.rewards = d.rewards /\ n.locked = d.locked
         /\ \A j \in OrderIds \ {i} : n.orders[j] = d.orders[j]
         /\ Resting(n.orders[i]) /\ n.orders[i].user = req.user /\ n.orders[i].side = req.side
         /\ n.orders[i].remaining = left
<1> DEFINE r == [user |-> req.user, outcome |-> req.outcome, side |-> req.side,
                 amount |-> req.amount, price |-> req.price, remaining |-> left,
                 status |-> IF filled = 0 THEN "pending" ELSE "partial"]
<1>1. d \in Ledger /\ FieldsTyped(d) /\ n \in Ledger
  BY Zenon, LedgerByFields, NewOrderSound DEF LedgerOK
<1>2. Resting(r) /\ r.user = req.user /\ r.side = req.side /\ r.remaining = left
  BY Zenon DEF Resting
<1>3. n = [d EXCEPT !.orders[i] = r]
  BY DEF NewOrder
<1> HIDE DEF r
<1>4. /\ n.balance = d.balance /\ n.collateral = d.collateral /\ n.fees = d.fees
      /\ n.rewards = d.rewards /\ n.locked = d.locked /\ n.orders = [d.orders EXCEPT ![i] = r]
  BY <1>1, <1>3 DEF Ledger
<1>5. n.orders[i] = r /\ \A j \in OrderIds \ {i} : n.orders[j] = d.orders[j]
  BY <1>1, <1>4 DEF FieldsTyped
<1> QED
  BY Zenon, <1>1, <1>2, <1>4, <1>5

(* A reservation writes one wallet and nothing else.                       *)
LEMMA LockFields ==
  ASSUME NEW n \in Ledger, NEW v \in Users, NEW lock, NEW e, e = [n EXCEPT !.locked[v] = @ + lock]
  PROVE  /\ e.balance = n.balance /\ e.collateral = n.collateral /\ e.fees = n.fees /\ e.rewards = n.rewards
         /\ e.orders = n.orders /\ e.locked = [n.locked EXCEPT ![v] = @ + lock]
BY DEF Ledger

(* A new resting order comes with the reservation of its budget when it    *)
(* buys, and with none when it sells.                                      *)
LEMMA RestAccounted ==
  ASSUME NEW d, LedgerOK(d), NEW i \in OrderIds, d.orders[i].status = "unused",
         NEW v \in Users, NEW e, LedgerOK(e),
         e.balance = d.balance, e.collateral = d.collateral, e.fees = d.fees, e.rewards = d.rewards,
         \A j \in OrderIds \ {i} : e.orders[j] = d.orders[j], e.orders[i].user = v,
         e.locked[v] = d.locked[v] + BidLeft(e, v)[i], \A u \in Users \ {v} : e.locked[u] = d.locked[u]
  PROVE  Accounted(d, e)
<1>1. FieldsTyped(d) /\ FieldsTyped(e) /\ d.locked[v] \in Int
  BY LedgerByFields DEF LedgerOK, FieldsTyped
<1>2. Worth(d) \in Int /\ Worth(e) = Worth(d)
  <2>1. d.collateral \in Int /\ d.fees \in Int /\ d.rewards \in Int
    BY <1>1 DEF FieldsTyped
  <2>2. /\ Worth(d) \in Int
        /\ Worth(e) = Worth(d) + (e.collateral - d.collateral) - (e.fees - d.fees) - (e.rewards - d.rewards)
    BY Zenon, <1>1, WorthOfNone
  <2> QED
    BY <2>1, <2>2
<1>3. ASSUME Bids(d) PROVE Bids(e)
  <2>1. \A u \in Users : BidLeft(d, u)[i] = 0
    BY Zenon DEF BidLeft, Resting
  <2>2. BidLeft(e, v)[i] \in Nat
    BY Zenon, BidLeftTyped
  <2>3. e.locked[v] = d.locked[v] + BidLeft(e, v)[i] - BidLeft(d, v)[i]
    BY <1>1, <2>1, <2>2
  <2>4. \A u \in Users \ {v} : BidLeft(e, u)[i] = 0
    BY Zenon DEF BidLeft
  <2>5. \A u \in Users \ {v} : BidLeft(e, u)[i] = BidLeft(d, u)[i] /\ e.locked[u] = d.locked[u]
    BY <2>1, <2>4
  <2> QED
    BY <1>3, <2>3, <2>5, RowWritten
<1> QED
  BY <1>2, <1>3 DEF Accounted

(* Two wallets change, by x and by y. *)
LEMMA WorthOfTwo ==
  ASSUME NEW d, FieldsTyped(d), NEW e, FieldsTyped(e), NEW b \in Users, NEW s \in Users, b # s,
         NEW x \in Int, NEW y \in Int,
         e.balance[b] = d.balance[b] + x, e.balance[s] = d.balance[s] + y,
         \A u \in Users \ {b, s} : e.balance[u] = d.balance[u]
  PROVE  /\ Worth(d) \in Int
         /\ Worth(e) = Worth(d) + x + y + (e.collateral - d.collateral) - (e.fees - d.fees)
                         - (e.rewards - d.rewards)
<1> DEFINE m == [u \in Users |-> IF u = b THEN e.balance[b] ELSE d.balance[u]]
<1>1. IsFiniteSet(Users) /\ \A u \in Users : d.balance[u] \in Int /\ e.balance[u] \in Int
  BY Zenon, ExchangeAssumption DEF FieldsTyped
<1>2. /\ m[b] = d.balance[b] + x /\ m[s] = d.balance[s]
      /\ \A u \in Users : m[u] \in Int /\ (u # b => m[u] = d.balance[u]) /\ (u # s => e.balance[u] = m[u])
  BY Zenon, <1>1
<1> HIDE DEF m
<1>3. SumOver(m, Users) = SumOver(d.balance, Users) + m[b] - d.balance[b]
  BY <1>1, <1>2, SumUpdate
<1>4. SumOver(e.balance, Users) = SumOver(m, Users) + e.balance[s] - m[s]
  BY <1>1, <1>2, SumUpdate
<1>5. SumOver(d.balance, Users) \in Int
  BY Zenon, <1>1, SumInt
<1>6. SumOver(e.balance, Users) = SumOver(d.balance, Users) + x + y
  BY <1>1, <1>2, <1>3, <1>4, <1>5
<1>7. /\ Worth(d) = (SumOver(d.balance, Users) + d.collateral) - d.fees - d.rewards
      /\ Worth(e) = (SumOver(e.balance, Users) + e.collateral) - e.fees - e.rewards
  BY Zenon, SumForms
<1>8. /\ d.collateral \in Int /\ d.fees \in Int /\ d.rewards \in Int
      /\ e.collateral \in Int /\ e.fees \in Int /\ e.rewards \in Int
  BY DEF FieldsTyped
<1> QED
  BY <1>5, <1>6, <1>7, <1>8

(* A release of exactly what was spent. *)
LEMMA ReleaseExact ==
  ASSUME NEW held \in Int, NEW amount \in Nat, NEW remaining \in 0..amount, NEW cost \in Nat,
         cost <= remaining, remaining <= held
  PROVE  Larger(0, held - Smaller(amount - (remaining - cost), cost)) = held - cost
BY DEF Larger, Smaller

(* A fill moves its price from buyer to seller, less the fee, and releases *)
(* what the maker spent of its reservation.                                *)
LEMMA SettleAccounted ==
  ASSUME NEW d, LedgerOK(d), NEW i \in OrderIds, NEW taker \in Users, NEW qty \in Nat,
         Resting(d.orders[i]), d.orders[i].user # taker,
         WithinMaker(d.orders[i], qty), LedgerOK(Settle(d, i, taker, qty))
  PROVE  Accounted(d, Settle(d, i, taker, qty))
<1> DEFINE o    == d.orders[i]
           usdc == qty * o.price
           fee  == ProtocolFee(usdc)
           left == o.remaining - (IF o.side = "buy" THEN usdc ELSE qty)
           b    == Buyer(o, taker)
           s    == Seller(o, taker)
           lock == IF o.side = "buy"
                     THEN Larger(0, d.locked[b] - Smaller(o.amount - left, usdc))
                     ELSE d.locked[b]
           st   == IF left <= 0 THEN "filled" ELSE "partial"
           e    == Settle(d, i, taker, qty)
<1>0. d \in Ledger /\ FieldsTyped(d) /\ FieldsTyped(e)
  BY Zenon, LedgerByFields DEF LedgerOK
<1>1. /\ o \in Order /\ o.side \in Sides /\ o.amount \in Nat /\ o.remaining \in 0..o.amount
      /\ o.user \in Users /\ o.price \in Nat \ {0}
  BY DEF LedgerOK, RowOK, Ledger, Order, Resting
<1>2. b \in Users /\ s \in Users /\ b # s
  BY Zenon, <1>1 DEF Buyer, Seller
<1>3. usdc \in Nat /\ fee \in Nat /\ (o.side = "buy" => usdc <= o.remaining)
  BY Zenon, <1>1, ProductNat, ProtocolFeeBounded DEF WithinMaker
<1> DEFINE paid  == [d.balance EXCEPT ![b] = @ - usdc]
           dealt == [d.shares EXCEPT ![b][o.outcome] = @ + qty]
           row   == [o EXCEPT !.remaining = left, !.status = st]
<1>4. e = [d EXCEPT !.balance = [paid EXCEPT ![s] = @ + usdc - fee],
                    !.locked = [d.locked EXCEPT ![b] = lock],
                    !.shares = [dealt EXCEPT ![s][o.outcome] = @ - qty],
                    !.orders = [d.orders EXCEPT ![i] = row]]
  BY Zenon DEF Settle
<1>a. left \in Int
  BY <1>1, <1>3
<1> HIDE DEF e, lock, left, fee, usdc, b, s, st
<1>5. e.balance = [paid EXCEPT ![s] = @ + usdc - fee]
      /\ e.locked = [d.locked EXCEPT ![b] = lock]
  BY Zenon, <1>0, <1>4 DEF Ledger
<1>6. e.orders = [d.orders EXCEPT ![i] = row]
  BY Zenon, <1>0, <1>4 DEF Ledger
<1>7. e.collateral = d.collateral /\ e.fees = d.fees /\ e.rewards = d.rewards
  BY Zenon, <1>0, <1>4 DEF Ledger
<1>8. Worth(d) \in Int /\ Worth(e) = Worth(d) - fee
  <2>1. /\ -usdc \in Int /\ usdc - fee \in Int
        /\ e.balance[b] = d.balance[b] + (-usdc) /\ e.balance[s] = d.balance[s] + (usdc - fee)
        /\ \A u \in Users \ {b, s} : e.balance[u] = d.balance[u]
    BY <1>0, <1>2, <1>3, <1>5 DEF FieldsTyped
  <2>2. /\ Worth(d) \in Int
        /\ Worth(e) = Worth(d) + (-usdc) + (usdc - fee) + (e.collateral - d.collateral) - (e.fees - d.fees)
                         - (e.rewards - d.rewards)
    BY <1>0, <1>2, <2>1, WorthOfTwo
  <2>3. d.collateral \in Int /\ d.fees \in Int /\ d.rewards \in Int
    BY <1>0 DEF FieldsTyped
  <2> QED
    BY <1>3, <1>7, <2>2, <2>3
<1>9. ASSUME Bids(d) PROVE Bids(e)
  <2> DEFINE v == o.user
             r == e.orders[i]
  <2>1. /\ \A j \in OrderIds \ {i} : e.orders[j] = d.orders[j]
        /\ r.user = v /\ r.side = o.side /\ r.remaining = left /\ r.status = st
    BY <1>0, <1>1, <1>6 DEF FieldsTyped, Order
  <2>2. /\ e.locked[b] = lock /\ \A u \in Users \ {b} : e.locked[u] = d.locked[u]
        /\ \A u \in Users : d.locked[u] \in Int
    BY <1>0, <1>2, <1>5 DEF FieldsTyped
  <2>3. LedgerOK(e)
    BY DEF e
  <2>4. \A u \in Users \ {v} : BidLeft(e, u)[i] = BidLeft(d, u)[i]
    BY Zenon, <2>1 DEF BidLeft
  <2>5. CASE o.side = "buy"
    <3>1. b = v /\ BidLeft(d, v)[i] = o.remaining
      BY Zenon, <2>5 DEF BidLeft, Buyer, b
    <3>2. left = o.remaining - usdc /\ left \in Nat
      BY <1>1, <1>3, <2>5 DEF left
    <3>3. BidLeft(e, v)[i] = left
      BY <1>a, <2>1, <2>5, <3>2 DEF BidLeft, Resting, st
    <3>4. o.remaining <= d.locked[v]
      BY Zenon, <1>1, <1>9, <3>1, BidWithinLock
    <3>5. lock = Larger(0, d.locked[v] - Smaller(o.amount - (o.remaining - usdc), usdc))
      BY Zenon, <2>5, <3>1, <3>2 DEF lock
    <3>6. lock = d.locked[v] - usdc
      <4>1. d.locked[v] \in Int /\ usdc \in Nat /\ usdc <= o.remaining
        BY Zenon, <1>1, <1>3, <2>2, <2>5
      <4>2. o.amount \in Nat /\ o.remaining \in 0..o.amount
        BY Zenon, <1>1
      <4> HIDE DEF v, o
      <4> QED
        BY Zenon, <3>4, <3>5, <4>1, <4>2, ReleaseExact
    <3>7. e.locked[v] = d.locked[v] + BidLeft(e, v)[i] - BidLeft(d, v)[i]
      <4>1. e.locked[v] = d.locked[v] - usdc
        BY Zenon, <2>2, <3>1, <3>6
      <4>2. d.locked[v] \in Int /\ usdc \in Int /\ o.remaining \in Int
        BY <1>1, <1>3, <2>2
      <4>3. BidLeft(d, v)[i] = o.remaining /\ BidLeft(e, v)[i] = o.remaining - usdc
        BY Zenon, <3>1, <3>2, <3>3
      <4> HIDE DEF v, o
      <4> QED
        BY <4>1, <4>2, <4>3
    <3>8. \A u \in Users \ {v} : BidLeft(e, u)[i] = BidLeft(d, u)[i] /\ e.locked[u] = d.locked[u]
      BY Zenon, <2>2, <2>4, <3>1
    <3>9. v \in Users
      BY Zenon, <1>1
    <3> HIDE DEF v
    <3> QED
      BY SMTT(40), <1>9, <2>1, <2>3, <3>7, <3>8, <3>9, RowWritten
  <2>6. CASE o.side # "buy"
    <3>1. \A u \in Users : e.locked[u] = d.locked[u]
      BY Zenon, <2>2, <2>6 DEF lock
    <3>2. BidLeft(e, v)[i] = 0 /\ BidLeft(d, v)[i] = 0
      BY Zenon, <2>1, <2>6 DEF BidLeft
    <3>3. e.locked[v] = d.locked[v] + BidLeft(e, v)[i] - BidLeft(d, v)[i]
      BY <1>1, <2>2, <3>1, <3>2
    <3>4. \A u \in Users \ {v} : BidLeft(e, u)[i] = BidLeft(d, u)[i] /\ e.locked[u] = d.locked[u]
      BY Zenon, <2>4, <3>1
    <3>5. v \in Users
      BY <1>1
    <3> HIDE DEF v
    <3> QED
      BY SMTT(40), <1>9, <2>1, <2>3, <3>3, <3>4, <3>5, RowWritten
  <2> QED
    BY Zenon, <2>5, <2>6
<1> QED
  BY <1>3, <1>8, <1>9 DEF Accounted, e

-----------------------------------------------------------------------------
(* Steps *)

(* The makers the matching loop has still to visit rest in the uncommitted *)
(* ledger.                                                                 *)
MakersRest == pc = "match" => \A i \in makers : Resting(work.orders[i])

(* The inductive invariant: the transaction has made nobody richer than    *)
(* the ledger it started from.                                             *)
BooksInv ==
  /\ IInv /\ MakersRest
  /\ Bids(db) /\ Accounted(db, work)

(* Priming the books is stating them of the next ledgers.                  *)
LEMMA Primes ==
  /\ Bids(db)' <=> Bids(db')
  /\ Accounted(db, work)' <=> Accounted(db', work')
<1>1. Bids(db)' <=> Bids(db')
  BY Zenon DEF Bids, Reserved, BidLeft, Resting, MapThenSumSet, MapThenFoldSet
<1>2. Worth(db)' = Worth(db') /\ Worth(work)' = Worth(work')
  BY Zenon DEF Worth, Money, MapThenSumSet, MapThenFoldSet
<1>3. Bids(work)' <=> Bids(work')
  BY DEF Bids, Reserved, BidLeft, Resting, MapThenSumSet, MapThenFoldSet
<1> QED
  BY <1>1, <1>2, <1>3 DEF Accounted

(* What the inductive invariant says of the two ledgers.                   *)
LEMMA BooksFacts ==
  ASSUME BooksInv
  PROVE  /\ IInv /\ LedgerOK(db) /\ LedgerOK(work)
         /\ Bids(db) /\ Bids(work) /\ Accounted(db, work) /\ Accounted(db, db)
BY DEF BooksInv, IInv, Accounted

(* A commit of a ledger that accounts for the money keeps the books.       *)
LEMMA CommitBooks ==
  ASSUME BooksInv, NEW d, LedgerOK(d), Accounted(work, d), NEW result, Commit(d, result)
  PROVE  BooksInv' /\ Accounted(db, db')
<1>1. IInv'
  BY BooksFacts, CommitIInv
<1>2. db' = d /\ work' = d /\ pc' = "idle"
  BY DEF Commit, Ends
<1>3. Accounted(db, d)
  BY Zenon, BooksFacts, AccountedChain
<1>4. Bids(d) /\ Accounted(d, d)
  BY <1>3, BooksFacts DEF Accounted
<1>5. MakersRest'
  BY <1>2 DEF MakersRest
<1>6. Bids(db') /\ Accounted(db', work') /\ Accounted(db, db')
  BY Zenon, <1>2, <1>3, <1>4
<1> QED
  BY Zenon, <1>1, <1>5, <1>6, Primes DEF BooksInv

(* A rollback keeps the books.                                             *)
LEMMA RollbackBooks ==
  ASSUME BooksInv, NEW result, Rollback(result)
  PROVE  BooksInv' /\ Accounted(db, db')
<1>1. IInv'
  BY BooksFacts, RollbackIInv
<1>2. db' = db /\ work' = db /\ pc' = "idle"
  BY DEF Rollback, Ends
<1>3. MakersRest'
  BY <1>2 DEF MakersRest
<1>4. Bids(db') /\ Accounted(db', work') /\ Accounted(db, db')
  BY <1>2, BooksFacts
<1> QED
  BY Zenon, <1>1, <1>3, <1>4, Primes DEF BooksInv

(* An endpoint that writes and commits in one step keeps the books.        *)
LEMMA AtomicBooks ==
  ASSUME BooksInv, NEW d, LedgerOK(d), Accounted(db, d), Atomically(d), requests' \in Nat
  PROVE  BooksInv' /\ Accounted(db, db')
<1>1. IInv'
  BY Zenon, BooksFacts, AtomicIInv
<1>2. db' = d /\ work' = d /\ pc' = "idle"
  BY DEF Atomically
<1>3. Bids(d) /\ Accounted(d, d)
  BY BooksFacts DEF Accounted
<1>4. MakersRest'
  BY <1>2 DEF MakersRest
<1>5. Bids(db') /\ Accounted(db', work') /\ Accounted(db, db')
  BY Zenon, <1>2, <1>3
<1> QED
  BY Zenon, <1>1, <1>4, <1>5, Primes DEF BooksInv

(* Accepting a request writes no ledger.                                   *)
LEMMA ReceiveBooks ==
  ASSUME BooksInv, NEW r \in Requests, ReceiveOrder(r)
  PROVE  BooksInv' /\ Accounted(db, db')
<1>1. IInv'
  BY BooksFacts, ReceiveOrderIInv
<1>2. /\ db' = db /\ work' = work /\ work = db
      /\ makers' \subseteq FindMatches(db, r.user, r.outcome, r.side, r.price)
  BY Zenon, BooksFacts DEF ReceiveOrder, IInv
<1>3. MakersRest'
  BY Zenon, <1>2 DEF MakersRest, FindMatches, Resting
<1>4. Bids(db') /\ Accounted(db', work') /\ Accounted(db, db')
  BY Zenon, <1>2, BooksFacts
<1> QED
  BY Zenon, <1>1, <1>3, <1>4, Primes DEF BooksInv

(* One fill of the matching loop keeps the books.                          *)
LEMMA MatchBooks ==
  ASSUME BooksInv, NEW i \in OrderIds, MatchMaker(i)
  PROVE  BooksInv' /\ Accounted(db, db')
<1> DEFINE o    == work.orders[i]
           qty  == MatchQty(work, req.side, req.amount, filled, spent, i)
           cost == qty * o.price
           fee  == ProtocolFee(cost)
<1>0. /\ qty = MatchQty(work, req.side, req.amount, filled, spent, i)
      /\ cost = qty * o.price
      /\ fee = ProtocolFee(cost)
  BY Zenon
<1> HIDE DEF qty, cost, fee
<1>a. IInv'
  BY BooksFacts, MatchMakerIInv
<1>1. /\ pc = "match" /\ i \in makers /\ req.user \in Users
      /\ req.side \in Sides /\ req.amount \in Nat
      /\ req.side = "buy" => spent <= req.amount
      /\ req.side = "sell" => filled <= req.amount
      /\ filled \in Nat /\ spent \in Nat
      /\ LedgerOK(work) /\ work \in Ledger /\ MakerOK(i)
      /\ makers \subseteq OrderIds
  BY ZenonT(30), BooksFacts DEF IInv, MatchMaker, LoopOK, TypeOK, Request
<1>2. /\ RowOK(o) /\ o.side \in Sides /\ o.price \in Nat \ {0} /\ Resting(o)
      /\ o.status # "unused" /\ o.user # req.user /\ o.side # req.side
  BY Zenon, <1>1 DEF BooksInv, MakersRest, LedgerOK, RowOK, MakerOK, Ledger, Order
<1>3. qty \in Nat /\ WithinMaker(o, qty)
  BY ZenonT(30), <1>0, <1>1, <1>2, MatchQtyBounded
<1>4. fee \in Nat
  <2>1. cost \in Nat
    BY Zenon, <1>0, <1>2, <1>3, ProductNat
  <2> QED
    BY Zenon, <1>0, <2>1, ProtocolFeeBounded
<1>5. ASSUME /\ db' = db /\ pc' = pc /\ Accounted(work, work')
             /\ \A j \in makers' : j \in makers /\ work'.orders[j] = work.orders[j]
      PROVE  BooksInv' /\ Accounted(db, db')
  <2>1. MakersRest'
    BY Zenon, <1>1, <1>5 DEF BooksInv, MakersRest, Resting
  <2>2. Accounted(db, work')
    BY Zenon, <1>5, BooksFacts, AccountedChain
  <2>3. Bids(db') /\ Accounted(db', work') /\ Accounted(db, db')
    BY Zenon, <1>5, <2>2, BooksFacts
  <2> QED
    BY <1>a, <2>1, <2>3, Primes DEF BooksInv
<1>6. CASE /\ qty <= 0 /\ makers' = {}
           /\ UNCHANGED <<db, pc, work, req, filled, spent, answer, requests>>
  <2>1. Accounted(work, work')
    BY <1>6, BooksFacts DEF Accounted
  <2> QED
    BY Zenon, <1>5, <1>6, <2>1
<1>7. CASE Rollback("insufficient_balance")
  BY <1>7, RollbackBooks
<1>8. CASE /\ makers' = makers \ {i}
           /\ work' = CreditFee(work, fee)
           /\ UNCHANGED <<filled, spent, db, pc, req, answer, requests>>
  <2>1. Accounted(work, work') /\ work'.orders = work.orders
    BY Zenon, <1>1, <1>4, <1>8, CreditFeeAccounted, CreditFeeSound
  <2> QED
    BY Zenon, <1>5, <1>8, <2>1
<1>9. CASE /\ ~BuyerShort(work, i, req.user, qty) /\ makers' = makers \ {i}
           /\ ~SellerShort(work, i, req.user, qty)
           /\ work' = CreditFee(Settle(work, i, req.user, qty), fee)
           /\ UNCHANGED <<db, pc, req, answer, requests>>
  <2> DEFINE settled == Settle(work, i, req.user, qty)
  <2>1. /\ LedgerOK(settled)
        /\ \A j \in OrderIds \ {i} : settled.orders[j] = work.orders[j]
    BY ZenonT(30), <1>1, <1>2, <1>3, <1>9, FillSound
  <2>2. Accounted(work, settled)
    BY ZenonT(30), <1>1, <1>2, <1>3, <2>1, SettleAccounted
  <2>3. work' = CreditFee(settled, fee)
    BY Zenon, <1>9
  <2> HIDE DEF settled
  <2>4. Accounted(settled, work') /\ work'.orders = settled.orders
    BY Zenon, <1>4, <2>1, <2>3, CreditFeeAccounted, CreditFeeSound
  <2>5. Accounted(work, work')
    BY <2>2, <2>4, AccountedChain
  <2>6. \A j \in makers' : j \in makers /\ work'.orders[j] = work.orders[j]
    BY ZenonT(30), <1>1, <1>9, <2>1, <2>4
  <2> QED
    BY Zenon, <1>5, <1>9, <2>5, <2>6
<1> QED
  BY ZenonT(30), <1>6, <1>7, <1>8, <1>9 DEF MatchMaker, qty, cost, fee

(* The remainder that rests keeps the books.                               *)
LEMMA RestBooks ==
  ASSUME BooksInv, NEW i \in OrderIds, RestRemainder(i)
  PROVE  BooksInv' /\ Accounted(db, db')
<1> DEFINE n == NewOrder(work, i, Remainder)
           v == req.user
           e == [n EXCEPT !.locked[v] = @ + Remainder]
<1>1. /\ Remainder \in Nat /\ Remainder <= req.amount /\ req \in Request
      /\ v \in Users /\ req.outcome \in Outcomes
      /\ LedgerOK(work) /\ req.price \in Nat \ {0} /\ req.side \in Sides
      /\ work.orders[i].status = "unused"
  BY Zenon, BooksFacts, RemainderBounded DEF RestRemainder, MatchingDone, IInv, LoopOK, Request
<1>2. LedgerOK(n) /\ Available(n, v) = Available(work, v)
  BY Zenon, <1>1, NewOrderSound
<1>n. n = NewOrder(work, i, Remainder)
  BY SMTT(30)
<1> HIDE DEF n
<1>3. /\ n \in Ledger /\ n.balance = work.balance /\ n.collateral = work.collateral /\ n.fees = work.fees
      /\ n.rewards = work.rewards /\ n.locked = work.locked
      /\ \A j \in OrderIds \ {i} : n.orders[j] = work.orders[j]
      /\ Resting(n.orders[i]) /\ n.orders[i].user = v /\ n.orders[i].side = req.side
      /\ n.orders[i].remaining = Remainder
  BY SMTT(30), <1>1, <1>n, NewOrderFields
<1>t. /\ work.locked \in [Users -> Int]
  BY Zenon, <1>1, LedgerByFields DEF LedgerOK, FieldsTyped
<1>4. CASE Rollback("refused")
  BY <1>4, RollbackBooks
<1>5. CASE req.side = "buy" /\ Available(work, v) >= Remainder /\ Commit(e, "resting")
  <2>1. Available(work, v) \in Int
    BY Zenon, <1>1, GuardsTyped
  <2>2. Remainder <= Available(n, v)
    BY <1>1, <1>2, <1>5, <2>1
  <2>3. LedgerOK(e)
    BY <1>1, <1>2, <2>2, LockSound
  <2>4. /\ e.balance = n.balance /\ e.collateral = n.collateral /\ e.fees = n.fees /\ e.rewards = n.rewards
        /\ e.orders = n.orders /\ e.locked = [n.locked EXCEPT ![v] = @ + Remainder]
    BY <1>1, <1>3, LockFields
  <2> HIDE DEF e, v
  <2>5. e.locked[v] = work.locked[v] + Remainder /\ \A u \in Users \ {v} : e.locked[u] = work.locked[u]
    BY SMTT(30), <1>1, <1>3, <1>t, <2>4
  <2>a. BidLeft(e, v)[i] = Remainder
    BY Zenon, <1>3, <1>5, <2>4 DEF BidLeft
  <2>b. /\ e.balance = work.balance /\ e.collateral = work.collateral /\ e.fees = work.fees
        /\ e.rewards = work.rewards
        /\ \A j \in OrderIds \ {i} : e.orders[j] = work.orders[j] /\ e.orders[i].user = v
    BY Zenon, <1>3, <2>4
  <2>c. e.orders[i].user = v /\ e.locked[v] = work.locked[v] + BidLeft(e, v)[i]
    BY ZenonT(30), <1>3, <2>4, <2>5, <2>a
  <2>6. Accounted(work, e)
    BY <1>1, <2>3, <2>5, <2>b, <2>c, RestAccounted
  <2> QED
    BY <1>5, <2>3, <2>6, CommitBooks
<1>6. CASE req.side = "sell" /\ Commit(n, "resting")
  <2>a. BidLeft(n, v)[i] = 0
    BY Zenon, <1>3, <1>6 DEF BidLeft
  <2>1. n.locked[v] = work.locked[v] + BidLeft(n, v)[i] /\ \A u \in Users \ {v} : n.locked[u] = work.locked[u]
    BY <1>1, <1>3, <1>t, <2>a
  <2> HIDE DEF v
  <2>2. Accounted(work, n)
    BY ZenonT(30), <1>1, <1>2, <1>3, <2>1, RestAccounted
  <2> QED
    BY Zenon, <1>2, <1>6, <2>2, CommitBooks
<1> QED
  BY <1>4, <1>5, <1>6 DEF RestRemainder, n

(* An order that ends, from the book or through the pool, keeps the books. *)
LEMMA FinishBooks ==
  ASSUME BooksInv, FinishFromBook \/ FinishBuyAMM \/ FinishSellAMM
  PROVE  BooksInv' /\ Accounted(db, db')
<1>1. /\ Remainder \in Nat /\ req \in Request /\ req.user \in Users
      /\ req.outcome \in Outcomes /\ LedgerOK(work) /\ filled \in Nat
  BY ZenonT(30), BooksFacts, RemainderBounded DEF FinishFromBook, FinishBuyAMM, FinishSellAMM, MatchingDone, IInv, TypeOK
<1>2. CASE Rollback("refused")
  BY <1>2, RollbackBooks
<1>3. CASE FinishFromBook
  <2>1. LedgerOK(Book(work, filled)) /\ LedgerOK(PayReferral(Book(work, filled)))
    BY Zenon, <1>1, BookSound, ReferralSound
  <2>2. Accounted(work, Book(work, filled)) /\ Accounted(Book(work, filled), PayReferral(Book(work, filled)))
    BY Zenon, <1>1, <2>1, BookAccounted, ReferralAccounted
  <2>3. Accounted(work, PayReferral(Book(work, filled)))
    BY Zenon, <2>2, AccountedChain
  <2> QED
    BY Zenon, <1>3, <2>1, <2>3, CommitBooks DEF FinishFromBook
<1>4. ASSUME ~(Available(work, req.user) < Remainder),
             NEW s \in BuyShares(work.reserve, req.outcome, Remainder),
             Commit(PayReferral(Book(AMMBuy(work, s), filled + s)), "filled")
      PROVE  BooksInv' /\ Accounted(db, db')
  <2> DEFINE d == AMMBuy(work, s)
             e == Book(d, filled + s)
             f == PayReferral(e)
  <2>1. s \in Nat /\ filled + s \in Nat
    BY <1>1, BuySharesNat
  <2>2. Remainder <= Available(work, req.user)
    <3>1. Available(work, req.user) \in Int
      BY Zenon, <1>1, GuardsTyped
    <3> QED
      BY <1>1, <1>4, <3>1
  <2>3. LedgerOK(d) /\ Accounted(work, d)
    BY Zenon, <1>1, <2>1, <2>2, AMMBuySound, AMMBuyAccounted
  <2> HIDE DEF d
  <2>4. LedgerOK(e) /\ Accounted(d, e)
    BY Zenon, <1>1, <2>1, <2>3, BookSound, BookAccounted
  <2> HIDE DEF e
  <2>5. LedgerOK(f) /\ Accounted(e, f)
    BY Zenon, <1>1, <2>4, ReferralSound, ReferralAccounted
  <2> HIDE DEF f
  <2>6. Accounted(work, f)
    BY Zenon, <2>3, <2>4, <2>5, AccountedChain
  <2>7. Commit(f, "filled")
    BY Zenon, <1>4 DEF f, e, d
  <2> QED
    BY Zenon, <2>5, <2>6, <2>7, CommitBooks
<1>5. CASE /\ FinishSellAMM /\ ~Rollback("refused")
  <2> DEFINE proceeds == SellProceeds(work.reserve, req.outcome, Remainder)
             d == AMMSell(work, proceeds)
             f == PayReferral(d)
  <2>0. /\ ~(work.shares[req.user][req.outcome] < Remainder)
        /\ CanSell(work.reserve, req.outcome, Remainder)
        /\ ~(proceeds > work.collateral)
        /\ Commit(f, "filled")
    BY Zenon, <1>5 DEF FinishSellAMM
  <2>1. proceeds \in Nat /\ Remainder <= work.reserve[req.outcome]
    BY Zenon, <1>1, <2>0, SellProceedsNat
  <2>2. work.shares[req.user][req.outcome] \in Int /\ work.collateral \in Int
    BY Zenon, <1>1, GuardsTyped
  <2> HIDE DEF proceeds
  <2>3. Remainder <= work.shares[req.user][req.outcome] /\ proceeds <= work.collateral
    BY <1>1, <2>0, <2>1, <2>2
  <2>4. LedgerOK(d)
    BY Zenon, <1>1, <2>1, <2>3, AMMSellSound
  <2>5. Accounted(work, d)
    BY Zenon, <1>1, <2>1, <2>4, AMMSellAccounted
  <2> HIDE DEF d
  <2>6. LedgerOK(f) /\ Accounted(d, f)
    BY Zenon, <1>1, <2>4, ReferralSound, ReferralAccounted
  <2> HIDE DEF f
  <2>7. Accounted(work, f)
    BY <2>5, <2>6, AccountedChain
  <2> QED
    BY Zenon, <2>0, <2>6, <2>7, CommitBooks
<1> QED
  BY Zenon, <1>2, <1>3, <1>4, <1>5 DEF FinishBuyAMM

(* A cancel or an expiry releases what its bid has left.                   *)
LEMMA CloseBooks ==
  ASSUME BooksInv, NEW i \in OrderIds, CancelOrder(i) \/ ExpireOrder(i)
  PROVE  BooksInv' /\ Accounted(db, db')
<1>1. /\ LedgerOK(db) /\ requests' \in Nat /\ db.orders[i].status # "unused" /\ Resting(db.orders[i])
  BY Zenon, BooksFacts DEF IInv, TypeOK, CancelOrder, ExpireOrder, Resting
<1>2. PICK st \in {"cancelled", "expired"} : Atomically(CloseOrder(db, i, st))
  BY DEF CancelOrder, ExpireOrder
<1>3. LedgerOK(CloseOrder(db, i, st))
  BY Zenon, <1>1, CloseOrderSound DEF Statuses
<1>4. Accounted(db, CloseOrder(db, i, st))
  BY Zenon, <1>1, <1>3, CloseAccounted
<1> QED
  BY Zenon, <1>1, <1>2, <1>3, <1>4, AtomicBooks

(* A split turns dollars into pairs and collateral.                        *)
LEMMA SplitBooks ==
  ASSUME BooksInv, NEW u \in Users, NEW n \in Lots, Split(u, n)
  PROVE  BooksInv' /\ Accounted(db, db')
<1> DEFINE e == [db EXCEPT
           !.balance[u] = @ - n * One,
           !.collateral = @ + n * One,
           !.fees = @ + SplitFee(n) * One,
           !.reserve = [o \in Outcomes |-> @[o] + n - SplitFee(n)],
           !.shares[u] = [o \in Outcomes |-> @[o] + n - SplitFee(n)]]
           x == n * One
           fee == SplitFee(n) * One
<1>1. LedgerOK(db) /\ requests' \in Nat /\ n \in Nat /\ n * One <= Available(db, u) /\ One \in Nat
  BY BooksFacts, ExchangeAssumption, AMMAssumption DEF IInv, TypeOK, Split
<1>2. Atomically(e)
  BY DEF Split
<1>3. LedgerOK(e)
  BY ZenonT(30), <1>1, SplitSound
<1>4. x \in Nat /\ fee \in Nat /\ -x \in Int
  BY <1>1, SplitFeeBounded, ProductNat
<1>5. db \in Ledger /\ FieldsTyped(db)
  BY Zenon, <1>1, LedgerByFields DEF LedgerOK
<1>6. /\ e.balance = [db.balance EXCEPT ![u] = @ - x] /\ e.collateral = db.collateral + x
      /\ e.fees = db.fees + fee /\ e.locked = db.locked /\ e.orders = db.orders /\ e.rewards = db.rewards
  BY Zenon, <1>5 DEF Ledger
<1> HIDE DEF e, x, fee
<1>7. /\ e.balance = [db.balance EXCEPT ![u] = @ + (-x)] /\ e.collateral = db.collateral - (-x)
  BY <1>4, <1>5, <1>6 DEF FieldsTyped
<1>8. Accounted(db, e)
  BY <1>1, <1>3, <1>4, <1>6, <1>7, PairsAccounted
<1> QED
  BY Zenon, <1>1, <1>2, <1>3, <1>8, AtomicBooks

(* A merge pays out collateral less its fee.                               *)
LEMMA MergeBooks ==
  ASSUME BooksInv, NEW u \in Users, NEW n \in Lots, Merge(u, n)
  PROVE  BooksInv' /\ Accounted(db, db')
<1> DEFINE e == [db EXCEPT
           !.balance[u] = @ + (n - SplitFee(n)) * One,
           !.collateral = @ - (n - SplitFee(n)) * One,
           !.fees = @ + SplitFee(n) * One,
           !.reserve = [o \in Outcomes |-> Larger(0, @[o] - n)],
           !.shares[u] = [o \in Outcomes |-> @[o] - n]]
           x == (n - SplitFee(n)) * One
           fee == SplitFee(n) * One
<1>1. /\ LedgerOK(db) /\ requests' \in Nat /\ n \in Nat /\ One \in Nat
      /\ \A o \in Outcomes : db.shares[u][o] >= n
      /\ (n - SplitFee(n)) * One <= db.collateral
  BY BooksFacts, ExchangeAssumption, AMMAssumption DEF IInv, TypeOK, Merge
<1>2. Atomically(e)
  BY DEF Merge
<1>3. LedgerOK(e)
  BY ZenonT(30), <1>1, MergeSound
<1>4. x \in Nat /\ fee \in Nat
  <2>1. SplitFee(n) \in Nat /\ n - SplitFee(n) \in Nat
    BY <1>1, SplitFeeBounded
  <2> QED
    BY Zenon, <1>1, <2>1, ProductNat
<1>5. db \in Ledger
  BY Zenon, <1>1 DEF LedgerOK
<1>6. /\ e.balance = [db.balance EXCEPT ![u] = @ + x] /\ e.collateral = db.collateral - x
      /\ e.fees = db.fees + fee /\ e.locked = db.locked /\ e.orders = db.orders /\ e.rewards = db.rewards
  BY <1>5 DEF Ledger
<1> HIDE DEF e, x, fee
<1>7. Accounted(db, e)
  BY <1>1, <1>3, <1>4, <1>6, PairsAccounted
<1> QED
  BY Zenon, <1>1, <1>2, <1>3, <1>7, AtomicBooks

(* No order rests and nothing is reserved at the start. *)
LEMMA InitBooks == Init => BooksInv
<1> SUFFICES ASSUME Init PROVE BooksInv
  OBVIOUS
<1>1. IInv /\ LedgerOK(db) /\ work = db /\ pc = "idle"
  BY Zenon, InitIInv DEF IInv, Init
<1>2. Bids(db)
  <2>1. /\ \A u \in Users : db.locked[u] = 0
        /\ \A i \in OrderIds : db.orders[i] = Unused
    BY Zenon DEF Init, Ledger0
  <2>a. IsFiniteSet(OrderIds)
    BY ExchangeAssumption, FS_Interval DEF OrderIds
  <2>2. IsFiniteSet(OrderIds) /\ Cardinality(OrderIds) \in Nat
    BY <2>a, FS_CardinalityType
  <2>3. ASSUME NEW u \in Users PROVE db.locked[u] = Reserved(db, u)
    <3>1. \A i \in OrderIds : BidLeft(db, u)[i] = 0
      BY <2>1 DEF BidLeft, Unused, Resting
    <3>2. SumOver(BidLeft(db, u), OrderIds) = 0 * Cardinality(OrderIds)
      BY <2>2, <3>1, SumConstant
    <3>3. SumOver(BidLeft(db, u), OrderIds) = 0
      BY <2>2, <3>2
    <3>4. Reserved(db, u) = SumOver(BidLeft(db, u), OrderIds)
      BY Zenon, SumForms
    <3> QED
      BY Zenon, <2>1, <3>3, <3>4
  <2> QED
    BY <2>3 DEF Bids
<1>3. Accounted(db, work)
  <2>1. FieldsTyped(db)
    BY <1>1, LedgerByFields DEF LedgerOK
  <2>2. Worth(db) \in Int
    BY <2>1, WorthOfNone
  <2> QED
    BY <1>1, <2>2 DEF Accounted
<1> QED
  BY <1>1, <1>2, <1>3 DEF BooksInv, MakersRest

(* Every step keeps the books, and none leaves the committed ledger worth  *)
(* more.                                                                   *)
LEMMA NextBooks ==
  ASSUME BooksInv, [Next]_vars
  PROVE  BooksInv' /\ Accounted(db, db')
<1>1. CASE \E r \in Requests : ReceiveOrder(r)
  BY <1>1, ReceiveBooks
<1>2. CASE \E i \in OrderIds : MatchMaker(i)
  BY <1>2, MatchBooks
<1>3. CASE \E i \in OrderIds : RestRemainder(i)
  BY <1>3, RestBooks
<1>4. CASE RejectRemainder
  BY <1>4, RollbackBooks DEF RejectRemainder
<1>5. CASE SlippageRefused
  BY <1>5, RollbackBooks DEF SlippageRefused
<1>6. CASE FinishFromBook \/ FinishBuyAMM \/ FinishSellAMM
  BY <1>6, FinishBooks
<1>7. CASE \E i \in OrderIds : CancelOrder(i) \/ ExpireOrder(i)
  BY <1>7, CloseBooks
<1>8. CASE \E u \in Users, n \in Lots : Split(u, n)
  BY <1>8, SplitBooks
<1>9. CASE \E u \in Users, n \in Lots : Merge(u, n)
  BY <1>9, MergeBooks
<1>10. CASE UNCHANGED vars
  <2>1. IInv'
    BY Zenon, <1>10, BooksFacts, NextIInv
  <2>2. /\ db' = db /\ work' = work /\ pc' = pc /\ makers' = makers
    BY Zenon, <1>10 DEF vars
  <2>3. MakersRest'
    BY Zenon, <2>2 DEF BooksInv, MakersRest, Resting
  <2>4. Bids(db') /\ Accounted(db', work') /\ Accounted(db, db')
    BY <2>2, BooksFacts
  <2> QED
    BY Zenon, <2>1, <2>3, <2>4, Primes DEF BooksInv
<1> QED
  BY Zenon, <1>1, <1>2, <1>3, <1>4, <1>5, <1>6, <1>7, <1>8, <1>9, <1>10 DEF Next, ExecuteOrder

(* A wallet's locked_balance is the unspent budget of its resting bids,    *)
(* through any number of partial fills, cancels and expiries: no release   *)
(* is lost, and none is made twice, by execute_order, cancel and expiry    *)
(* (the limit sweep is another matter: ReservationsReleased, LimitSweep).  *)
THEOREM LocksAreBids == Spec => []BidsReserved
<1>1. BooksInv => BidsReserved
  BY DEF BooksInv, Bids, BidsReserved
<1>2. BooksInv /\ [Next]_vars => BooksInv'
  BY NextBooks
<1> QED
  BY <1>1, <1>2, InitBooks, PTL DEF Spec

(* No commit of execute_order, split, merge, cancel or expiry makes money: *)
(* what users and pool own, fees owed set aside, grows only by the         *)
(* referral reward.                                                        *)
THEOREM NoRequestMakesMoney == Spec => NoMoneyMade
<1> DEFINE Kept == Money(db') - db'.fees - db'.rewards <= Money(db) - db.fees - db.rewards
<1>1. BooksInv /\ [Next]_vars => BooksInv' /\ [Kept]_vars
  <2> SUFFICES ASSUME BooksInv, [Next]_vars PROVE BooksInv' /\ Kept
    BY Zenon
  <2>1. Worth(db') <= Worth(db)
    BY NextBooks DEF Accounted
  <2> QED
    BY <2>1, NextBooks DEF Worth
<1>2. NoMoneyMade <=> [][Kept]_vars
  BY DEF NoMoneyMade
<1> QED
  BY <1>1, <1>2, InitBooks, PTL DEF Spec

=============================================================================
