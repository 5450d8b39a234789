--------------------------------- MODULE AMM ---------------------------------
(***************************************************************************)
(* The share-pool market maker of app/amm/engine.py (BinaryAMM) and the    *)
(* protocol fee every caller charges.  A pool has one reserve per outcome; *)
(* the price of an outcome is its reserve over the sum of the two.         *)
(*                                                                         *)
(* Money is counted in ticks, One ticks to the dollar, and shares in whole *)
(* units; a price is a number of ticks per share.  The code computes with  *)
(* Decimals and rounds down to the eighth place (ROUND_DOWN); here the     *)
(* last place is the unit, so every quotient is rounded down to it.        *)
(***************************************************************************)
EXTENDS Integers

CONSTANTS
  One,          \* ticks in a dollar: what a winning share is paid
  PoolFeeNum,   \* pool.fee_rate          = PoolFeeNum / FeeDen
  ProtoFeeNum,  \* settings.protocol_fee_rate = ProtoFeeNum / FeeDen
  FeeDen

ASSUME AMMAssumption ==
  /\ One \in Nat \ {0}
  /\ FeeDen \in Nat \ {0}
  /\ PoolFeeNum \in 0..FeeDen
  /\ ProtoFeeNum \in 0..FeeDen

Outcomes == {"yes", "no"}

Total(reserve) == reserve["yes"] + reserve["no"]

PoolFee(c) == (c * PoolFeeNum) \div FeeDen

ProtocolFee(usdc) == (usdc * ProtoFeeNum) \div FeeDen

(* price(outcome) <= p and price(outcome) >= p, the ratio kept exact; an  *)
(* empty pool is priced one half.                                          *)
PriceAtMost(reserve, outcome, p) ==
  IF Total(reserve) = 0 THEN One <= 2 * p
  ELSE reserve[outcome] * One <= p * Total(reserve)

PriceAtLeast(reserve, outcome, p) ==
  IF Total(reserve) = 0 THEN One >= 2 * p
  ELSE reserve[outcome] * One >= p * Total(reserve)

(* _execute_buy: the shares s for which the net collateral is s times the  *)
(* price AFTER the trade, the positive root of the quadratic the code      *)
(* solves, rounded down.  Empty when the engine raises: an empty reserve,  *)
(* or a fee that eats the whole deposit.  The bound on s is the root's     *)
(* own: s * (R + s) / (T + s) = c_net implies s <= c_net + T.              *)
BuyShares(reserve, outcome, c) ==
  LET R   == reserve[outcome]
      T   == Total(reserve)
      net == c - PoolFee(c)
  IN  {s \in 0..(net + T) :
         /\ R > 0 /\ net > 0
         /\ s * (R + s) * One <= net * (T + s)
         /\ net * (T + s + 1) < (s + 1) * (R + s + 1) * One}

(* _execute_sell: the pre-trade price less the fee.  The engine raises     *)
(* when the reserve is smaller than the shares, or the proceeds are zero.  *)
SellProceeds(reserve, outcome, shares) ==
  (shares * reserve[outcome] * One * (FeeDen - PoolFeeNum))
     \div (Total(reserve) * FeeDen)

CanSell(reserve, outcome, shares) ==
  /\ reserve[outcome] > 0
  /\ shares <= reserve[outcome]
  /\ shares * reserve[outcome] * (FeeDen - PoolFeeNum) > 0

=============================================================================
