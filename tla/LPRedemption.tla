---------------------------- MODULE LPRedemption ----------------------------
(***************************************************************************)
(* The last part of settle_market: the residual of the escrow is paid to   *)
(* the LPs, pro rata to their tokens, one strict debit after another.      *)
(*                                                                         *)
(* Amounts are Decimals: every quotient, product and difference is rounded *)
(* half-even to Digits significant digits (28 in the code's context).  An  *)
(* amount is an integer number of units of 1/Unit dollar, fine enough for  *)
(* every quotient of the instance to have its Digits.  Tokens and the      *)
(* residual are read from columns with fewer digits than that.             *)
(***************************************************************************)
EXTENDS Integers, FiniteSetsExt

CONSTANTS
  LPs,
  Digits,       \* the precision of the decimal context, a positive number
  Unit,
  MaxResidual,  \* bound: dollars left when the LPs are paid
  MaxTokens     \* bound: tokens of one LP

VARIABLES
  residual,    \* the escrow when the first LP is paid
  collateral,  \* pool.collateral
  tokens,      \* lp_tokens when the rows were read
  unpaid,      \* the rows the loop has not reached
  short        \* what the debit that raised was short of, or 0

redemptionVars == <<residual, collateral, tokens, unpaid, short>>

(* n / d to the nearest multiple of q, a tie to the even one. *)
HalfEven(n, d, q) ==
  LET low == n \div (d * q)
      twice == 2 * (n - low * d * q)
      up == \/ twice > d * q
            \/ twice = d * q /\ low % 2 = 1
  IN (IF up THEN low + 1 ELSE low) * q

(* The quantum of an amount: 10^k for the least k that leaves Digits. *)
Quantum(n) ==
  10 ^ (CHOOSE k \in 0..9 : /\ n < 10 ^ (Digits + k)
                            /\ \A j \in 0..(k - 1) : n >= 10 ^ (Digits + j))

(* The exact value n / d as the context represents it. *)
Rounded(n, d) == HalfEven(n, d, Quantum(n \div d))

Supply == MapThenSumSet(LAMBDA lp : tokens[lp], LPs)

(* Mutant of PerToken: the supply counts an LP who has been paid. *)
PerTokenDiluted == Rounded(residual, Supply + 1)

PerToken == Rounded(residual, Supply)

Payout(lp) == Rounded(tokens[lp] * PerToken, 1)

(* debit_collateral is strict: it raises when the escrow holds less. *)
Debit(amount) ==
  IF amount > collateral
    THEN short' = amount - collateral /\ UNCHANGED collateral
    ELSE collateral' = Rounded(collateral - amount, 1) /\ UNCHANGED short

RedemptionInit ==
  /\ tokens \in [LPs -> 1..MaxTokens]
  /\ residual \in {dollars * Unit : dollars \in 1..MaxResidual}
  /\ collateral = residual /\ unpaid = LPs /\ short = 0

Redeem(lp) ==
  /\ short = 0 /\ lp \in unpaid
  /\ Debit(Payout(lp))
  /\ unpaid' = unpaid \ {lp}
  /\ UNCHANGED <<residual, tokens>>

RedemptionNext == \E lp \in LPs : Redeem(lp)

RedemptionSpec == RedemptionInit /\ [][RedemptionNext]_redemptionVars

-----------------------------------------------------------------------------
(* Whatever the rounding does, the LPs share the residual: what a strict   *)
(* debit is short of, and what is left once all are paid, is at most one   *)
(* quantum for each token and each rounded payout.  (settle_market)        *)
OnlyDustIsOff ==
  LET dust == Supply * Quantum(PerToken)
                + MapThenSumSet(LAMBDA lp : Quantum(Payout(lp)), LPs)
  IN /\ short <= dust
     /\ unpaid = {} /\ short = 0 => collateral <= dust

(* Refuted: the payouts sum to the residual, so the strict debit of        *)
(* settle_market cannot fail.                                              *)
StrictDebitCannotFail == short = 0

=============================================================================
