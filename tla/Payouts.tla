------------------------------ MODULE Payouts ------------------------------
(***************************************************************************)
(* What resolution promises the holders of positions: a position is        *)
(* decided once, in the transaction that pays it, and is then credited its *)
(* shares in full or nothing.  The settlement task decides every open      *)
(* position at once, a claim only the claimer's.                           *)
(***************************************************************************)
CONSTANTS Users, Outcomes, Shares

VARIABLES
  settled,   \* the positions whose settled_at is set
  credited   \* what each position has paid its holder

Positions == Users \X Outcomes

(* Decide the positions S against outcome o. *)
Decide(S, o) ==
  /\ S \cap settled = {}
  /\ settled' = settled \cup S
  /\ credited' = [p \in Positions |->
                    IF p \in S /\ p[2] = o THEN Shares[p] ELSE credited[p]]

Init == settled = {} /\ credited = [p \in Positions |-> 0]

Next == \E S \in SUBSET Positions, o \in Outcomes : Decide(S, o)

Spec == Init /\ [][Next]_<<settled, credited>>
=============================================================================
