---------------------------- MODULE MCSettlement ----------------------------
(* One market with two outcomes, one or two holders, two workers.  With    *)
(* the escrow of the runs a task can find it short, once another outcome   *)
(* was claimed first.                                                      *)
EXTENDS Settlement, TLC

CONSTANTS u1, u2, w1, w2, d1, yes, no

(* u1 holds both outcomes, as after a split, and more of yes; u2 only yes. *)
MCShares == [p \in Positions |->
               IF p = <<u1, yes>> THEN 2 ELSE IF p = <<u2, no>> THEN 0 ELSE 1]

Symmetry == Permutations(Workers)

=============================================================================
