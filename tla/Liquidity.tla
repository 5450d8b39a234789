----------------------------- MODULE Liquidity ------------------------------
(***************************************************************************)
(* Liquidity provision on a binary market: LPs join and leave the pool     *)
(* beside splits, merges, the sweep of the protocol fees and the end of    *)
(* the market.                                                             *)
(*                                                                         *)
(* add_liquidity holds the market row from its first read to its commit;   *)
(* remove_liquidity reads market and pool without a lock: for a binary     *)
(* market _resolve_liquidity_pool ignores its argument lock.  Both write   *)
(* back the columns they computed from the pool they read, so a request is *)
(* a read, a decision and a commit.  Splits, merges, the fee sweep and the *)
(* settlement lock the market and the pool and are one step each.  The     *)
(* reserves of the AMM grow and shrink in proportion and carry no value    *)
(* here; amounts are those whose quotients are whole (Decimal rounding is  *)
(* the subject of LPRedemption).                                           *)
(***************************************************************************)
EXTENDS Integers, FiniteSets, FiniteSetsExt

CONSTANTS
  Providers,
  Seed,        \* collateral of the creator of the market, who is one of Providers
  Creator,
  Purse,       \* the wallet of every other provider, and of the traders, at the start
  Deposits,    \* amounts an LP may add
  Exits,       \* tokens an LP may redeem
  Lot, LotFee, \* a split or merge, and its fee
  ExitsAlone,  \* bound: a removal runs while no other request does
  MaxLPMoves   \* bound: requests made

VARIABLES
  lpPool,     \* the pool row: collateral, supply of LP tokens, protocol fees
  lpTokens, lpWallet,
  pairs,      \* open shares of each side, held by the traders
  traders, treasury,  \* the wallets of the traders and of the treasury
  marketRow,  \* status, and the request that holds the row
  lpReq,      \* each provider's request: its place, amount, and the pool it read
  lpMoves

lpVars == <<lpPool, lpTokens, lpWallet, pairs, traders, treasury, marketRow, lpReq, lpMoves>>
lpLedger == <<lpPool, lpTokens, lpWallet, pairs, traders, treasury>>

Free == "free"

ASSUME LiquidityAssumption ==
  /\ IsFiniteSet(Providers) /\ Creator \in Providers /\ Free \notin Providers
  /\ Seed \in Nat /\ Purse \in Nat /\ Deposits \subseteq Nat /\ Exits \subseteq Nat
  /\ Lot \in Nat /\ LotFee \in 0..Lot

NoRequest == [at |-> "none", amount |-> 0, seen |-> [collateral |-> 0, supply |-> 0, fees |-> 0], paid |-> 0]

Divides(d, n) == d # 0 /\ n % d = 0

Waiting == {p \in Providers : lpReq[p].at # "none"}

Ask(p, op, n) ==
  /\ p \notin Waiting /\ lpMoves < MaxLPMoves
  /\ lpMoves' = lpMoves + 1
  /\ lpReq' = [lpReq EXCEPT ![p] = [at |-> op, amount |-> n, seen |-> lpPool, paid |-> 0]]

ReqDone(p) == lpReq' = [lpReq EXCEPT ![p] = NoRequest]

ReleaseRow == marketRow' = [marketRow EXCEPT !.holder = Free]

-----------------------------------------------------------------------------
(* add_liquidity *)

(* Mutant of Minted: tokens at the flat rate of the first deposit. *)
MintedFlat(pool, n) == 2 * n

(* Tokens are priced off the escrow; the first deposit sets the price. *)
Minted(pool, n) == IF pool.supply > 0 THEN (n * pool.supply) \div pool.collateral ELSE 2 * n

AddRead(p, n) ==
  /\ marketRow.holder = Free /\ marketRow.status = "active"
  /\ ExitsAlone => \A q \in Waiting : lpReq[q].at = "add"
  /\ lpPool.supply > 0 => lpPool.collateral = 0 \/ Divides(lpPool.collateral, n * lpPool.supply)
  /\ Ask(p, "add", n)
  /\ marketRow' = [marketRow EXCEPT !.holder = p]
  /\ UNCHANGED lpLedger

(* Too little money, or tokens outstanding against an empty escrow. *)
AddRefused(p) ==
  /\ lpReq[p].at = "add"
  /\ \/ lpReq[p].amount > lpWallet[p]
     \/ lpReq[p].seen.supply > 0 /\ lpReq[p].seen.collateral <= 0
  /\ ReqDone(p) /\ ReleaseRow
  /\ UNCHANGED <<lpLedger, lpMoves>>

AddCommit(p) ==
  LET r == lpReq[p]
      fresh == Minted(r.seen, r.amount)
  IN
  /\ r.at = "add" /\ r.amount <= lpWallet[p]
  /\ r.seen.supply > 0 => r.seen.collateral > 0
  /\ lpPool' = [lpPool EXCEPT !.collateral = r.seen.collateral + r.amount,
                              !.supply = r.seen.supply + fresh]
  /\ lpTokens' = [lpTokens EXCEPT ![p] = @ + fresh]
  /\ lpWallet' = [lpWallet EXCEPT ![p] = @ - r.amount]
  /\ ReqDone(p) /\ ReleaseRow
  /\ UNCHANGED <<pairs, traders, treasury, lpMoves>>

-----------------------------------------------------------------------------
(* remove_liquidity *)

RemoveRead(p, n) ==
  /\ marketRow.status = "active"
  /\ ExitsAlone => Waiting = {}
  /\ Ask(p, "remove", n)
  /\ UNCHANGED <<lpLedger, marketRow>>

(* Mutant of Floor: the fees recorded inside the escrow are forgotten. *)
FloorOfClaims(pool) == pairs

(* What must stay behind: the larger open side, and the fees owed. *)
Floor(pool) == pairs + pool.fees

Withdrawable(pool) == Max({0, pool.collateral - Floor(pool)})

Redeemed(pool, n) == (pool.collateral * n) \div pool.supply

RemoveRefused(p) ==
  LET r == lpReq[p] IN
  /\ r.at = "remove"
  /\ \/ lpTokens[p] < r.amount \/ r.seen.supply = 0
     \/ r.seen.supply > 0 /\ Redeemed(r.seen, r.amount) > Withdrawable(r.seen)
  /\ ReqDone(p)
  /\ UNCHANGED <<lpLedger, marketRow, lpMoves>>

(* Wallet and token row are locked, and the claims of open positions read, *)
(* after the pool was...                                                   *)
RemovePrice(p) ==
  LET r == lpReq[p] IN
  /\ r.at = "remove" /\ lpTokens[p] >= r.amount
  /\ Divides(r.seen.supply, r.seen.collateral * r.amount)
  /\ Redeemed(r.seen, r.amount) <= Withdrawable(r.seen)
  /\ lpReq' = [lpReq EXCEPT ![p].at = "priced", ![p].paid = Redeemed(r.seen, r.amount)]
  /\ UNCHANGED <<lpLedger, marketRow, lpMoves>>

(* Mutant of Burned: the redeemed tokens stay on record. *)
BurnedNot(r) == r.seen.supply

(* The supply that is left on record. *)
Burned(r) == r.seen.supply - r.amount

(* ... and the update of the market row waits for whoever holds it. *)
RemoveCommit(p) ==
  LET r == lpReq[p] IN
  /\ r.at = "priced" /\ marketRow.holder = Free
  /\ lpPool' = [lpPool EXCEPT !.collateral = r.seen.collateral - r.paid,
                              !.supply = Burned(r)]
  /\ lpTokens' = [lpTokens EXCEPT ![p] = @ - r.amount]
  /\ lpWallet' = [lpWallet EXCEPT ![p] = @ + r.paid]
  /\ ReqDone(p)
  /\ UNCHANGED <<pairs, traders, treasury, marketRow, lpMoves>>

(* A settlement holds market and pool and waits for the token row, the     *)
(* removal holds the token row and waits for the market: the database      *)
(* breaks the cycle at one of them.                                        *)
RemoveAborted(p) ==
  /\ lpReq[p].at = "priced" /\ marketRow.status = "resolving"
  /\ ReqDone(p)
  /\ UNCHANGED <<lpLedger, marketRow, lpMoves>>

-----------------------------------------------------------------------------
(* The other writers of the pool row *)

Undisturbed ==
  /\ marketRow.holder = Free
  /\ ExitsAlone => Waiting = {}

SplitPairs ==
  /\ Undisturbed /\ marketRow.status = "active"
  /\ Lot <= traders
  /\ traders' = traders - Lot
  /\ pairs' = pairs + (Lot - LotFee)
  /\ lpPool' = [lpPool EXCEPT !.collateral = @ + Lot, !.fees = @ + LotFee]
  /\ UNCHANGED <<lpTokens, lpWallet, treasury, marketRow, lpReq, lpMoves>>

MergePairs ==
  /\ Undisturbed /\ marketRow.status = "active"
  /\ Lot <= pairs /\ Lot - LotFee <= lpPool.collateral
  /\ traders' = traders + (Lot - LotFee)
  /\ pairs' = pairs - Lot
  /\ lpPool' = [lpPool EXCEPT !.collateral = @ - (Lot - LotFee), !.fees = @ + LotFee]
  /\ UNCHANGED <<lpTokens, lpWallet, treasury, marketRow, lpReq, lpMoves>>

(* Pays what the escrow holds and keeps the rest on record. *)
distribute_protocol_fees ==
  LET paid == Min({lpPool.fees, lpPool.collateral}) IN
  /\ Undisturbed /\ lpPool.fees > 0
  /\ treasury' = treasury + paid
  /\ lpPool' = [lpPool EXCEPT !.collateral = @ - paid, !.fees = @ - paid]
  /\ UNCHANGED <<lpTokens, lpWallet, pairs, traders, marketRow, lpReq, lpMoves>>

Resolve ==
  /\ marketRow.holder = Free /\ marketRow.status = "active"
  /\ marketRow' = [marketRow EXCEPT !.status = "resolving"]
  /\ UNCHANGED <<lpLedger, lpReq, lpMoves>>

(* The tokens the LPs hold, and what is left for them: the escrow less the *)
(* winners and the fees, in proportion.                                    *)
LPHeld == MapThenSumSet(LAMBDA p : lpTokens[p], Providers)

LPRest == lpPool.collateral - pairs - lpPool.fees

LPShare == [p \in Providers |->
            IF lpPool.supply = 0 THEN 0 ELSE (LPRest * lpTokens[p]) \div lpPool.supply]

LPShared == MapThenSumSet(LAMBDA p : LPShare[p], Providers)

(* settle_market: winners, then fees, then the LPs out of what is left; it *)
(* refuses when the escrow is short, and when more tokens are held than    *)
(* the pool has on record.                                                 *)
SettlePool ==
  /\ Undisturbed /\ marketRow.status = "resolving" /\ LPRest >= 0
  /\ \A p \in Providers : lpReq[p].at # "priced"
  /\ LPHeld <= lpPool.supply
  /\ \A p \in Providers : Divides(lpPool.supply, LPRest * lpTokens[p]) \/ lpPool.supply = 0
  /\ traders' = traders + pairs /\ pairs' = 0
  /\ treasury' = treasury + lpPool.fees
  /\ lpWallet' = [p \in Providers |-> lpWallet[p] + LPShare[p]]
  /\ lpTokens' = [p \in Providers |-> IF LPShare[p] > 0 THEN 0 ELSE lpTokens[p]]
  /\ lpPool' = [lpPool EXCEPT !.collateral = LPRest - LPShared, !.fees = 0]
  /\ marketRow' = [marketRow EXCEPT !.status = "resolved"]
  /\ UNCHANGED <<lpReq, lpMoves>>

-----------------------------------------------------------------------------
(* Market creation seeds the pool and gives the creator two tokens for     *)
(* each unit.                                                              *)
LiquidityInit ==
  /\ lpPool = [collateral |-> Seed, supply |-> 2 * Seed, fees |-> 0]
  /\ lpTokens = [p \in Providers |-> IF p = Creator THEN 2 * Seed ELSE 0]
  /\ lpWallet = [p \in Providers |-> IF p = Creator THEN 0 ELSE Purse]
  /\ pairs = 0 /\ traders = Purse /\ treasury = 0
  /\ marketRow = [status |-> "active", holder |-> Free]
  /\ lpReq = [p \in Providers |-> NoRequest] /\ lpMoves = 0

LiquidityNext ==
  \/ \E p \in Providers :
       \/ \E n \in Deposits : AddRead(p, n)
       \/ \E n \in Exits : RemoveRead(p, n)
       \/ AddRefused(p) \/ AddCommit(p)
       \/ RemoveRefused(p) \/ RemovePrice(p) \/ RemoveCommit(p) \/ RemoveAborted(p)
  \/ SplitPairs \/ MergePairs \/ distribute_protocol_fees \/ Resolve \/ SettlePool

LiquiditySpec == LiquidityInit /\ [][LiquidityNext]_lpVars

-----------------------------------------------------------------------------
(* Properties *)

(* Every variable keeps its type; no balance and no escrow is negative. *)
LiquidityTypeOK ==
  /\ lpPool \in [collateral : Nat, supply : Nat, fees : Nat]
  /\ lpTokens \in [Providers -> Nat] /\ lpWallet \in [Providers -> Nat]
  /\ pairs \in Nat /\ traders \in Nat /\ treasury \in Nat
  /\ marketRow \in [status : {"active", "resolving", "resolved"},
                    holder : Providers \cup {Free}]
  /\ \A p \in Providers : lpReq[p].at \in {"none", "add", "remove", "priced"}

(* Whatever LPs, traders and the fee sweep do, one at a time, the escrow   *)
(* holds a dollar for every share of the larger open side and the fees     *)
(* recorded in it.  (the escrow floor of remove_liquidity)                 *)
EscrowCoversClaims == pairs + lpPool.fees <= lpPool.collateral

(* The tokens of the LPs are the supply the pool has on record, and after  *)
(* the settlement they are at most that.                                   *)
TokensMatchSupply ==
  IF marketRow.status = "resolved" THEN LPHeld <= lpPool.supply ELSE LPHeld = lpPool.supply

(* An LP who joins or leaves an open market changes no other LP's claim    *)
(* on the escrow: what is minted and what is redeemed are both priced off  *)
(* it.                                                                     *)
OthersKeepTheirClaim ==
  [][lpPool'.supply # lpPool.supply =>
       \A p \in Providers : lpTokens'[p] = lpTokens[p] =>
         lpTokens[p] * lpPool.collateral * lpPool'.supply
           = lpTokens[p] * lpPool'.collateral * lpPool.supply]_lpVars

(* Dollars are never conjured on an LP's exit: wallets and escrow together *)
(* hold no more than they held.  Refuted when exits overlap: a removal     *)
(* writes back an escrow from which another request was paid meanwhile.    *)
NoDollarsConjured ==
  MapThenSumSet(LAMBDA p : lpWallet[p], Providers) + lpPool.collateral + traders + treasury
    <= Seed + Purse * Cardinality(Providers)

=============================================================================
