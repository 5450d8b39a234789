----------------------------- MODULE MCServices -----------------------------
(***************************************************************************)
(* The background parts of the backend, side by side: the Redis breaker,   *)
(* the limit sweep beside the request handlers, the publish queue, the     *)
(* redemption and the provision of liquidity, deposits and withdrawals,    *)
(* the treasury and the price alerts.  They share no state here, so one of *)
(* them, active, is at work in a behaviour and the others stay where they  *)
(* start.                                                                  *)
(*   breaker    three callers: one probes, one holds the half-open permit, *)
(*              one waits for it;                                          *)
(*   sweep      two users and one limit price above the pool's: bids are   *)
(*              filled in the book and, once the pool moved, asks on the   *)
(*              AMM;                                                       *)
(*   queue      two writers, one client, queues of one frame each: every   *)
(*              overflow and every race between a flush and an arriving    *)
(*              frame happens;                                             *)
(*   redemption three LPs and four digits of precision stand for the       *)
(*              code's 28;                                                 *)
(*   liquidity  the creator and one more LP, amounts whose quotients are   *)
(*              whole, removals one at a time;                             *)
(*   desk       two calls at a time on one wallet, a payment and a key     *)
(*              that come twice;                                           *)
(*   treasury   two admins;                                                *)
(*   alerts     two workers, two alerts of which one is due first.         *)
(***************************************************************************)
EXTENDS LimitSweep, CircuitBreaker, PublishQueue, LPRedemption, Liquidity, WalletDesk,
        Alerts

CONSTANTS u1, u2, w1, w2, c1, lpA, lpB, lpC

VARIABLE active

sweepVars == <<vars, svars>>
servicesVars == <<active, sweepVars, breakerVars, queueVars, redemptionVars, lpVars, deskVars,
                  vaultVars, alertVars>>

ServicesInit ==
  /\ active \in {"breaker", "sweep", "queue", "redemption", "liquidity", "desk", "treasury",
                 "alerts"}
  /\ active # "redemption" => residual = Unit /\ tokens = [lp \in LPs |-> 1]
  /\ SweepInit /\ BreakerInit /\ QueueInit /\ RedemptionInit
  /\ LiquidityInit /\ DeskInit /\ TreasuryInit /\ AlertsInit
  /\ active # "desk" => purse.exists

ServicesNext ==
  /\ UNCHANGED active
  /\ \/ active = "breaker" /\ BreakerNext
     \/ active = "sweep" /\ SweepNext
     \/ active = "queue" /\ QueueNext
     \/ active = "redemption" /\ RedemptionNext
     \/ active = "liquidity" /\ LiquidityNext
     \/ active = "desk" /\ DeskNext
     \/ active = "treasury" /\ TreasuryNext
     \/ active = "alerts" /\ AlertsNext
  /\ active # "breaker" => UNCHANGED breakerVars
  /\ active # "sweep" => UNCHANGED sweepVars
  /\ active # "queue" => UNCHANGED queueVars
  /\ active # "redemption" => UNCHANGED redemptionVars
  /\ active # "liquidity" => UNCHANGED lpVars
  /\ active # "desk" => UNCHANGED deskVars
  /\ active # "treasury" => UNCHANGED vaultVars
  /\ active # "alerts" => UNCHANGED alertVars

ServicesSpec == ServicesInit /\ [][ServicesNext]_servicesVars

(* The variables of the part that runs keep their types: the failure       *)
(* counter never goes below zero, no order row leaves its status set, the  *)
(* queues keep their configured bounds, no wallet, pool or treasury is     *)
(* overdrawn, an alert is flipped by one worker at a time.                 *)
ServicesTypeOK ==
  /\ active = "breaker" => BreakerTypeOK
  /\ active = "sweep" => SweepTypeOK
  /\ active = "queue" => QueueTypeOK
  /\ active = "liquidity" => LiquidityTypeOK
  /\ active = "desk" => DeskTypeOK
  /\ active = "treasury" => TreasuryTypeOK
  /\ active = "alerts" => AlertsTypeOK

=============================================================================
