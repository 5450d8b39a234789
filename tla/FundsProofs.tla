---------------------------- MODULE FundsProofs -----------------------------
(***************************************************************************)
(* The pool's escrow, from both ends.  Settlement implements Payouts, its  *)
(* completion marker is sound, and it pays out of the escrow and nothing   *)
(* else, for any users, outcomes, workers, disputes, shares and bounds.    *)
(* Liquidity covers the claims on the escrow, for any providers, amounts   *)
(* and lots, as long as a removal overlaps with no other request           *)
(* (ExitsAlone); the run on NoDollarsConjured shows what overlapping       *)
(* removals do.                                                            *)
(*                                                                         *)
(* PayInv is what the refinement needs: a position that is not settled has *)
(* been credited nothing.  MarkInv adds the place from which the marker is *)
(* written: a worker about to write it has committed the settlement.       *)
(* EscrowInv adds the escrow row: what is credited anew, to each holder    *)
(* for the first time by PayInv, is what leaves the row.                   *)
(***************************************************************************)
EXTENDS Settlement, Liquidity, SumTheorems, TLAPS

-----------------------------------------------------------------------------
(* Settlement *)

Keys == [done : BOOLEAN, lock : Workers \cup {None}, dedup : BOOLEAN, api : BOOLEAN]

WorkerStates ==
  [at : {"idle", "marker", "settle", "mark", "release"}, task : SUBSET Tasks]

Typed ==
  /\ settled \subseteq Positions
  /\ credited \in [Positions -> Nat]
  /\ claim \in [Users -> Outcomes \cup {None}]
  /\ market \in [status : Statuses, winning : Outcomes \cup {None},
                 proposed : Outcomes \cup {None}]
  /\ intent \in Outcomes \cup {None}
  /\ proposing \in Outcomes \cup {None}
  /\ row = "resolve" => intent \in Outcomes
  /\ keys \in Keys
  /\ queue \subseteq Tasks
  /\ worker \in [Workers -> WorkerStates]
  /\ sent \in 0..MaxTasks

PayInv == Typed /\ \A p \in Positions \ settled : credited[p] = 0

(* A sent task is a task. *)
LEMMA SendTyped ==
  ASSUME NEW o \in Outcomes, Typed, Send(o)
  PROVE  queue' \subseteq Tasks /\ sent' \in 0..MaxTasks
  BY SettlementAssumption DEF Typed, Send, Tasks, SettlementAssumption

(* Admin steps leave the ledger alone and keep the types. *)
LEMMA AdminStep ==
  ASSUME Typed, Admin
  PROVE  Typed' /\ UNCHANGED <<ledger, claim, worker>>
<1>1. CASE \E o \in Outcomes : ResolveSend(o)
  <2>1. PICK o \in Outcomes : ResolveSend(o)
    BY <1>1
  <2>2. queue' \subseteq Tasks /\ sent' \in 0..MaxTasks
    BY <2>1, SendTyped DEF ResolveSend
  <2> QED  BY Zenon, <2>1, <2>2 DEF ResolveSend, Typed, Keys, ledger
<1>2. CASE \E o \in Outcomes : ProposeRead(o)
  BY <1>2 DEF ProposeRead, Typed, ledger, celery
<1>3. CASE ResolveCommit
  BY Zenon, <1>3 DEF ResolveCommit, Typed, Keys, Statuses, ledger
<1>4. CASE ResolveCrash
  BY <1>4 DEF ResolveCrash, Typed, ledger, celery
<1>5. CASE CloseList
  BY <1>5 DEF CloseList, Typed, ledger, celery
<1>6. CASE CloseCommit
  BY <1>6 DEF CloseCommit, Typed, Statuses, ledger, celery
<1>7. CASE ProposeCommit
  BY Zenon, <1>7 DEF ProposeCommit, Typed, Statuses, ledger, celery
<1>8. CASE \E d \in Disputes : CreateDispute(d)
  BY <1>8 DEF CreateDispute, Typed, Statuses, ledger, celery
<1>9. CASE \E d \in Disputes : AdjudicateSend(d)
  <2>1. PICK d \in Disputes : AdjudicateSend(d)
    BY <1>9
  <2>2. CASE market.proposed = None
    BY <2>1, <2>2 DEF AdjudicateSend, Typed, ledger
  <2>3. CASE market.proposed # None
    <3>1. market.proposed \in Outcomes /\ Send(market.proposed) /\ row' = "adjudicate"
      BY <2>1, <2>3 DEF AdjudicateSend, Typed
    <3>2. queue' \subseteq Tasks /\ sent' \in 0..MaxTasks
      BY <3>1, SendTyped
    <3> QED  BY <2>1, <3>1, <3>2 DEF AdjudicateSend, Typed, ledger
  <2> QED  BY <2>2, <2>3
<1>10. CASE \E d \in Disputes : AdjudicateSendFails(d)
  BY <1>10 DEF AdjudicateSendFails, Typed, ledger, celery
<1>11. CASE \E d \in Disputes : \E ruling \in {"upheld", "dismissed"} : Adjudicate(d, ruling)
  BY <1>11 DEF Adjudicate, Typed, ledger, celery
<1>12. CASE AdjudicateCommit
  BY Zenon, <1>12 DEF AdjudicateCommit, Typed, Statuses, ledger, celery
<1>13. CASE AdjudicateCrash
  BY <1>13 DEF AdjudicateCrash, Typed, ledger, celery
<1> QED
  BY <1>1, <1>2, <1>3, <1>4, <1>5, <1>6, <1>7, <1>8, <1>9, <1>10, <1>11, <1>12, <1>13
     DEF Admin

(* A task that is retried is a task. *)
LEMMA RetryTyped ==
  ASSUME NEW w \in Workers, Typed, Retry(w)
  PROVE  /\ keys' \in Keys /\ queue' \subseteq Tasks
         /\ worker' \in [Workers -> WorkerStates]
         /\ worker'[w].at = "idle"
         /\ \A v \in Workers : v # w => worker'[v] = worker[v]
         /\ keys'.done = keys.done
<1>1. \A t \in worker[w].task : t.tries < MaxRetries => [t EXCEPT !.tries = @ + 1] \in Tasks
  <2>1. worker[w].task \subseteq Tasks
    BY DEF Typed, WorkerStates
  <2> QED  BY <2>1, SettlementAssumption DEF Tasks, SettlementAssumption
<1>2. queue' \subseteq Tasks
  BY <1>1 DEF Typed, Retry
<1>3. keys' \in Keys /\ keys'.done = keys.done
  BY DEF Typed, Retry, Keys
<1>4. [at |-> "idle", task |-> {}] \in WorkerStates
  BY DEF WorkerStates
<1> QED  BY <1>2, <1>3, <1>4 DEF Typed, Retry

-----------------------------------------------------------------------------
(* Steps that pay *)

(* A claim decides the claimer's position, or nothing. *)
LEMMA ClaimStep ==
  ASSUME PayInv, NEW u \in Users, ClaimPay(u)
  PROVE  PayInv' /\ (P!Next \/ UNCHANGED <<settled, credited>>)
<1> DEFINE p == <<u, claim[u]>>
<1>1. claim[u] \in Outcomes /\ p \in Positions
  BY DEF ClaimPay, PayInv, Typed, Positions
<1>2. claim' \in [Users -> Outcomes \cup {None}]
  BY DEF ClaimPay, PayInv, Typed
<1>3. CASE UNCHANGED <<settled, credited>>
  BY Zenon, <1>2, <1>3 DEF ClaimPay, PayInv, Typed, rows, celery
<1>4. CASE ~ UNCHANGED <<settled, credited>>
  <2>1. /\ p \in Positions \ settled
        /\ settled' = settled \cup {p}
        /\ credited' = [credited EXCEPT ![p] = @ + Shares[p]]
    BY Zenon, <1>4 DEF ClaimPay, Unsettled, ledger
  <2>2. Shares[p] \in Nat /\ credited[p] = 0
    BY <1>1, <2>1, SettlementAssumption DEF PayInv, SettlementAssumption
  <2>3. credited' = [q \in Positions |->
                       IF q \in {p} /\ q[2] = claim[u] THEN Shares[q] ELSE credited[q]]
    <3>1. p[2] = claim[u]
      OBVIOUS
    <3>2. credited[p] + Shares[p] = Shares[p]
      BY <2>2
    <3> HIDE DEF p
    <3>3. credited' = [credited EXCEPT ![p] = Shares[p]]
      BY Zenon, <2>1, <3>2
    <3>4. credited \in [Positions -> Nat]
      BY DEF PayInv, Typed
    <3> QED  BY Zenon, <1>1, <3>1, <3>3, <3>4
  <2>4. P!Decide({p}, claim[u])
    BY ZenonT(60), <2>1, <2>3 DEF P!Decide, P!Positions, Positions
  <2>5. {p} \in SUBSET P!Positions
    BY <1>1 DEF P!Positions, Positions
  <2>6. P!Next
    BY <1>1, <2>4, <2>5 DEF P!Next
  <2>7. credited' \in [Positions -> Nat]
    BY <2>2, <2>3 DEF PayInv, Typed
  <2>8. \A q \in Positions \ settled' : credited'[q] = 0
    BY <2>1, <2>3 DEF PayInv
  <2>9. settled' \subseteq Positions
    BY <1>1, <2>1 DEF PayInv, Typed
  <2>10. Typed'
    BY Zenon, <1>2, <2>7, <2>9 DEF ClaimPay, PayInv, Typed, rows, celery
  <2> QED  BY <2>6, <2>8, <2>10 DEF PayInv
<1> QED  BY <1>3, <1>4

(* The settlement task decides every position that is not settled. *)
LEMMA PayAllStep ==
  ASSUME PayInv, NEW o \in Outcomes, PayAll(o)
  PROVE  /\ P!Next /\ settled' = Positions /\ credited' \in [Positions -> Nat]
<1>1. /\ settled' = settled \cup (Positions \ settled)
      /\ credited' = [p \in Positions |->
                        IF p \in {q \in Positions \ settled : q[2] = o}
                          THEN credited[p] + Shares[p] ELSE credited[p]]
  BY DEF PayAll, Unsettled
<1>2. settled' = Positions
  BY SMTT(30), <1>1 DEF PayInv, Typed
<1>3. \A p \in Positions : p \in Positions \ settled => credited[p] + Shares[p] = Shares[p]
  BY SettlementAssumption DEF PayInv, SettlementAssumption
<1>4. credited' = [p \in Positions |->
                     IF p \in Positions \ settled /\ p[2] = o THEN Shares[p] ELSE credited[p]]
  BY <1>1, <1>3
<1>5. P!Decide(Positions \ settled, o)
  BY <1>1, <1>4 DEF P!Decide, P!Positions, Positions
<1>6. P!Next
  BY <1>5 DEF P!Next, P!Positions, Positions
<1>7. credited' \in [Positions -> Nat]
  BY <1>4, SettlementAssumption DEF SettlementAssumption, PayInv, Typed
<1> QED  BY <1>2, <1>6, <1>7

(* settle_market keeps PayInv, and pays by deciding. *)
LEMMA SettleStep ==
  ASSUME PayInv, NEW w \in Workers, Settle(w)
  PROVE  PayInv' /\ (P!Next \/ UNCHANGED <<settled, credited>>)
<1>1. PICK t \in worker[w].task :
        \/ /\ Goto(w, "release")
           /\ UNCHANGED <<rows, ledger, keys, queue>>
        \/ Retry(w) /\ UNCHANGED <<rows, ledger>>
        \/ /\ ~Refuses(t.outcome)
           /\ PayAll(t.outcome)
           /\ market' = [market EXCEPT !.status = "resolved"]
           /\ Goto(w, "mark")
           /\ UNCHANGED <<row, intent, listed, proposing, disputes, ruled, keys, queue>>
  BY DEF Settle
<1>2. UNCHANGED <<claim, sent>>
  BY DEF Settle
<1>3. CASE Goto(w, "release") /\ UNCHANGED <<rows, ledger, keys, queue>>
  <2>1. worker' \in [Workers -> WorkerStates]
    BY <1>3 DEF Goto, PayInv, Typed, WorkerStates
  <2> QED  BY <1>2, <1>3, <2>1 DEF PayInv, Typed, rows, ledger
<1>4. CASE Retry(w) /\ UNCHANGED <<rows, ledger>>
  <2>1. keys' \in Keys /\ queue' \subseteq Tasks /\ worker' \in [Workers -> WorkerStates]
    BY <1>4, RetryTyped DEF PayInv
  <2> QED  BY <1>2, <1>4, <2>1 DEF PayInv, Typed, rows, ledger
<1>5. CASE /\ ~Refuses(t.outcome)
           /\ PayAll(t.outcome)
           /\ market' = [market EXCEPT !.status = "resolved"]
           /\ Goto(w, "mark")
           /\ UNCHANGED <<row, intent, listed, proposing, disputes, ruled, keys, queue>>
  <2>1. t.outcome \in Outcomes
    BY DEF PayInv, Typed, WorkerStates, Tasks
  <2>2. P!Next /\ settled' = Positions /\ credited' \in [Positions -> Nat]
    BY <1>5, <2>1, PayAllStep
  <2>3. worker' \in [Workers -> WorkerStates]
    BY <1>5 DEF Goto, PayInv, Typed, WorkerStates
  <2>4. market' \in [status : Statuses, winning : Outcomes \cup {None},
                     proposed : Outcomes \cup {None}]
    BY <1>5 DEF PayInv, Typed, Statuses
  <2> QED  BY <1>2, <1>5, <2>2, <2>3, <2>4 DEF PayInv, Typed
<1> QED  BY <1>1, <1>3, <1>4, <1>5

(* Every other step of a worker, a claim or a clock leaves the ledger. *)
LEMMA QuietStep ==
  ASSUME Typed, NEW w \in Workers,
         \/ \E t \in queue : TakeTask(w, t)
         \/ CheckMarker(w) \/ Mark(w) \/ Release(w) \/ Raise(w) \/ WorkerLost(w)
         \/ KeyExpires
  PROVE  Typed' /\ UNCHANGED ledger
<1>1. CASE \E t \in queue : TakeTask(w, t)
  <2>1. PICK t \in queue : TakeTask(w, t)
    BY <1>1
  <2>2. [at |-> "marker", task |-> {t}] \in WorkerStates
    BY DEF Typed, WorkerStates
  <2> QED  BY <2>1, <2>2 DEF TakeTask, Typed, Keys, rows, ledger
<1>2. CASE CheckMarker(w)
  <2>1. worker' \in [Workers -> WorkerStates]
    BY <1>2 DEF CheckMarker, Goto, Typed, WorkerStates
  <2> QED  BY <1>2, <2>1 DEF CheckMarker, Typed, rows, ledger
<1>3. CASE Mark(w)
  <2>1. worker' \in [Workers -> WorkerStates]
    BY <1>3 DEF Mark, Goto, Typed, WorkerStates
  <2> QED  BY Zenon, <1>3, <2>1 DEF Mark, Typed, Keys, rows, ledger
<1>4. [at |-> "idle", task |-> {}] \in WorkerStates
  BY Zenon DEF WorkerStates
<1>5. CASE Release(w)
  BY <1>4, <1>5 DEF Release, Typed, Keys, rows, ledger
<1>6. CASE Raise(w)
  <2>1. keys' \in Keys /\ queue' \subseteq Tasks /\ worker' \in [Workers -> WorkerStates]
    BY Zenon, <1>6, RetryTyped DEF Raise
  <2> QED  BY <1>6, <2>1 DEF Raise, Typed, rows, ledger
<1>7. CASE WorkerLost(w)
  <2>1. worker[w].task \subseteq Tasks
    BY DEF Typed, WorkerStates
  <2> QED  BY <1>4, <1>7, <2>1 DEF WorkerLost, Typed, rows, ledger
<1>8. CASE KeyExpires
  BY Zenon, <1>8 DEF KeyExpires, Typed, Keys, rows, ledger
<1> QED  BY <1>1, <1>2, <1>3, <1>5, <1>6, <1>7, <1>8

-----------------------------------------------------------------------------
(* Refinement *)

(* The initial state satisfies PayInv. *)
LEMMA InitPayInv == Init => PayInv
<1>1. [at |-> "idle", task |-> {}] \in WorkerStates
  BY DEF WorkerStates
<1> QED
  BY <1>1, SettlementAssumption DEF Init, PayInv, Typed, Keys, Statuses, SettlementAssumption

(* Every step keeps PayInv and is a step of Payouts or a stutter. *)
LEMMA NextPays ==
  ASSUME PayInv, [Next]_vars
  PROVE  PayInv' /\ [P!Next]_<<settled, credited>>
<1>1. CASE Admin
  BY <1>1, AdminStep DEF PayInv, ledger
<1>2. CASE \E u \in Users : ClaimRead(u)
  BY <1>2 DEF ClaimRead, PayInv, Typed, rows, ledger, celery
<1>3. CASE \E u \in Users : ClaimPay(u)
  BY <1>3, ClaimStep
<1>4. CASE \E w \in Workers : Settle(w)
  BY <1>4, SettleStep
<1>5. CASE \E w \in Workers :
             \/ \E t \in queue : TakeTask(w, t)
             \/ CheckMarker(w) \/ Mark(w) \/ Release(w) \/ Raise(w) \/ WorkerLost(w)
  <2>1. Typed' /\ UNCHANGED ledger
    BY <1>5, QuietStep DEF PayInv
  <2> QED  BY <2>1 DEF PayInv, ledger
<1>6. CASE KeyExpires
  BY Zenon, <1>6 DEF KeyExpires, PayInv, Typed, Keys, rows, ledger
<1>7. CASE UNCHANGED vars
  BY Zenon, <1>7 DEF vars, PayInv, Typed, rows, ledger, celery
<1> QED  BY <1>1, <1>2, <1>3, <1>4, <1>5, <1>6, <1>7 DEF Next, Running

(* Resolution implements Payouts: however the resolve call, disputes,      *)
(* claims, retries, crashes and redelivered tasks interleave, a position   *)
(* is decided once and credited its shares or nothing.                     *)
THEOREM PayoutsRefined == Spec => PayoutsSpec
<1>1. Init => P!Init
  BY DEF Init, P!Init, P!Positions, Positions
<1>2. PayInv /\ [Next]_vars => PayInv' /\ [P!Next]_<<settled, credited>>
  BY NextPays
<1> QED  BY <1>1, <1>2, InitPayInv, PTL DEF Spec, PayoutsSpec, P!Spec

-----------------------------------------------------------------------------
(* The completion marker *)

AllPaid == settled = Positions /\ escrow.fees = 0 /\ ~escrow.tokens

EscrowShape ==
  escrow = [collateral |-> escrow.collateral, fees |-> escrow.fees,
            treasury |-> escrow.treasury, lps |-> escrow.lps, tokens |-> escrow.tokens]

MarkInv ==
  /\ PayInv /\ EscrowShape
  /\ keys.done => AllPaid
  /\ \A w \in Workers : worker[w].at = "mark" => AllPaid

(* A debit takes collateral and nothing else. *)
LEMMA DebitShape ==
  ASSUME NEW e, NEW amount,
         e = [collateral |-> e.collateral, fees |-> e.fees, treasury |-> e.treasury,
              lps |-> e.lps, tokens |-> e.tokens]
  PROVE  Debit(e, amount) = [collateral |-> e.collateral - amount, fees |-> e.fees,
                             treasury |-> e.treasury, lps |-> e.lps, tokens |-> e.tokens]
  BY DEF Debit

(* Paying all winners, fees and LPs leaves nothing to pay. *)
LEMMA PayAllPays ==
  ASSUME MarkInv, NEW o, PayAll(o)
  PROVE  EscrowShape' /\ AllPaid'
<1> DEFINE owed == OwedTo({p \in Unsettled : p[2] = o})
           d1 == Debit(escrow, owed)
           d2 == Debit(d1, escrow.fees)
           residual == IF escrow.tokens THEN d2.collateral ELSE 0
           d3 == Debit(d2, residual)
<1>1. escrow' = [d3 EXCEPT !.fees = 0, !.treasury = @ + escrow.fees,
                           !.lps = @ + residual, !.tokens = FALSE]
  BY DEF PayAll
<1>2. d1 = [collateral |-> d1.collateral, fees |-> d1.fees, treasury |-> d1.treasury,
            lps |-> d1.lps, tokens |-> d1.tokens]
  <2> HIDE DEF owed
  <2>1. d1 = [collateral |-> escrow.collateral - owed, fees |-> escrow.fees,
              treasury |-> escrow.treasury, lps |-> escrow.lps, tokens |-> escrow.tokens]
    BY DebitShape DEF MarkInv, EscrowShape
  <2> HIDE DEF d1
  <2> QED  BY <2>1
<1> HIDE DEF d1
<1>3. d2 = [collateral |-> d2.collateral, fees |-> d2.fees, treasury |-> d2.treasury,
            lps |-> d2.lps, tokens |-> d2.tokens]
  <2>1. d2 = [collateral |-> d1.collateral - escrow.fees, fees |-> d1.fees,
              treasury |-> d1.treasury, lps |-> d1.lps, tokens |-> d1.tokens]
    BY <1>2, DebitShape
  <2> HIDE DEF d2
  <2> QED  BY <2>1
<1> HIDE DEF d2, residual
<1>4. d3 = [collateral |-> d3.collateral, fees |-> d3.fees, treasury |-> d3.treasury,
            lps |-> d3.lps, tokens |-> d3.tokens]
  <2>1. d3 = [collateral |-> d2.collateral - residual, fees |-> d2.fees,
              treasury |-> d2.treasury, lps |-> d2.lps, tokens |-> d2.tokens]
    BY <1>3, DebitShape
  <2> HIDE DEF d3
  <2> QED  BY <2>1
<1> HIDE DEF d3
<1>5. escrow' = [collateral |-> d3.collateral, fees |-> 0,
                 treasury |-> d3.treasury + escrow.fees,
                 lps |-> d3.lps + residual, tokens |-> FALSE]
  BY Zenon, <1>1, <1>4
<1>6. settled' = Positions
  BY DEF PayAll, Unsettled, MarkInv, PayInv, Typed
<1> QED  BY <1>5, <1>6 DEF EscrowShape, AllPaid

(* Only a claim and the settlement task touch the ledger. *)
LEMMA LedgerMoves ==
  ASSUME Typed, [Next]_vars
  PROVE  UNCHANGED ledger \/ (\E u \in Users : ClaimPay(u)) \/ (\E w \in Workers : Settle(w))
<1>1. CASE Admin
  BY <1>1, AdminStep
<1>2. CASE \E u \in Users : ClaimRead(u)
  BY <1>2 DEF ClaimRead
<1>3. CASE \E w \in Workers :
             \/ \E t \in queue : TakeTask(w, t)
             \/ CheckMarker(w) \/ Mark(w) \/ Release(w) \/ Raise(w) \/ WorkerLost(w)
  BY <1>3, QuietStep
<1>4. CASE KeyExpires
  BY <1>4 DEF KeyExpires
<1>5. CASE UNCHANGED vars
  BY <1>5 DEF vars
<1> QED  BY <1>1, <1>2, <1>3, <1>4, <1>5 DEF Next, Running

(* What has been paid stays paid: nothing reopens a position, accrues fees *)
(* or issues tokens once the market is settled.                            *)
LEMMA AllPaidStays ==
  ASSUME MarkInv, [Next]_vars
  PROVE  EscrowShape' /\ (AllPaid => AllPaid')
<1>1. CASE UNCHANGED ledger
  BY <1>1 DEF ledger, MarkInv, EscrowShape, AllPaid
<1>2. ASSUME NEW u \in Users, ClaimPay(u)
      PROVE  EscrowShape' /\ (AllPaid => AllPaid')
  <2>1. CASE UNCHANGED ledger
    BY SMTT(30), <2>1, <1>1
  <2>2. CASE ~ UNCHANGED ledger
    <3>1. escrow' = Debit(escrow, Shares[<<u, claim[u]>>])
      BY Zenon, <1>2, <2>2 DEF ClaimPay
    <3>2. escrow' = [collateral |-> escrow.collateral - Shares[<<u, claim[u]>>],
                     fees |-> escrow.fees, treasury |-> escrow.treasury,
                     lps |-> escrow.lps, tokens |-> escrow.tokens]
      BY <3>1, DebitShape DEF MarkInv, EscrowShape
    <3>3. settled \subseteq settled' /\ settled' \subseteq Positions
      <4>1. settled' = settled \cup {<<u, claim[u]>>} /\ <<u, claim[u]>> \in Positions
        BY Zenon, <1>2, <2>2 DEF ClaimPay, Unsettled
      <4> QED  BY <4>1 DEF MarkInv, PayInv, Typed
    <3> QED  BY Zenon, <3>2, <3>3 DEF EscrowShape, AllPaid
  <2> QED  BY <2>1, <2>2
<1>4. ASSUME NEW w \in Workers, Settle(w)
      PROVE  EscrowShape' /\ (AllPaid => AllPaid')
  <2>1. UNCHANGED ledger \/ \E o : PayAll(o)
    BY <1>4 DEF Settle
  <2> QED  BY <2>1, <1>1, PayAllPays
<1> QED  BY <1>1, <1>2, <1>4, LedgerMoves DEF MarkInv, PayInv

(* The marker and the place before it are reached only once all is paid. *)
MarkSound ==
  /\ keys.done => AllPaid
  /\ \A w \in Workers : worker[w].at = "mark" => AllPaid

(* No step writes the marker, or comes to write it, before all is paid. *)
LEMMA NextMarks ==
  ASSUME MarkInv, [Next]_vars
  PROVE  MarkSound'
<1>1. EscrowShape' /\ (AllPaid => AllPaid')
  BY AllPaidStays
<1>2. /\ keys.done => AllPaid
      /\ \A w \in Workers : worker[w].at = "mark" => AllPaid
      /\ Typed
  BY DEF MarkInv, PayInv
<1>3. CASE /\ keys'.done => keys.done
           /\ \A w \in Workers : worker'[w].at = "mark" => worker[w].at = "mark"
  BY <1>1, <1>2, <1>3 DEF MarkSound
<1>4. CASE Admin
  <2>1. UNCHANGED worker
    BY <1>4, <1>2, AdminStep
  <2>2. keys'.done = keys.done
    BY Zenon, <1>2, <1>4 DEF Admin, ResolveSend, ProposeRead, ResolveCommit, ResolveCrash,
       CloseList, CloseCommit, ProposeCommit, CreateDispute, AdjudicateSend,
       AdjudicateSendFails, Adjudicate, AdjudicateCommit, AdjudicateCrash, celery,
       Typed, Keys
  <2> QED  BY <1>3, <2>1, <2>2
<1>5. CASE \E u \in Users : ClaimRead(u) \/ ClaimPay(u)
  BY <1>3, <1>5 DEF ClaimRead, ClaimPay, celery
<1>6. ASSUME NEW w \in Workers, \E t \in queue : TakeTask(w, t)
      PROVE  MarkSound'
  <2>1. keys'.done = keys.done
    BY <1>2, <1>6 DEF TakeTask, Typed, Keys
  <2>2. \A v \in Workers : worker'[v].at = "mark" => worker[v].at = "mark"
    BY <1>2, <1>6 DEF TakeTask, Typed
  <2> QED  BY <1>3, <2>1, <2>2
<1>7. ASSUME NEW w \in Workers, CheckMarker(w)
      PROVE  MarkSound'
  <2>1. \A v \in Workers : worker'[v].at = "mark" => worker[v].at = "mark"
    BY <1>2, <1>7 DEF CheckMarker, Goto, Typed, WorkerStates
  <2> QED  BY <1>3, <1>7, <2>1 DEF CheckMarker
<1>8. ASSUME NEW w \in Workers, Settle(w)
      PROVE  MarkSound'
  <2>1. CASE \E o : PayAll(o)
    <3>1. AllPaid'
      BY <2>1, PayAllPays
    <3> QED  BY <3>1 DEF MarkSound
  <2>2. CASE Goto(w, "release") /\ UNCHANGED keys
    <3>1. \A v \in Workers : worker'[v].at = "mark" => worker[v].at = "mark"
      BY <1>2, <2>2 DEF Goto, Typed, WorkerStates
    <3> QED  BY <1>3, <2>2, <3>1
  <2>3. CASE Retry(w)
    <3>1. /\ \A v \in Workers : worker'[v].at = "mark" => worker[v].at = "mark"
          /\ keys'.done = keys.done
      BY <1>2, <2>3, RetryTyped
    <3> QED  BY <1>3, <3>1
  <2> QED  BY <1>8, <2>1, <2>2, <2>3 DEF Settle
<1>9. ASSUME NEW w \in Workers, Mark(w)
      PROVE  MarkSound'
  <2>1. AllPaid'
    BY <1>1, <1>2, <1>9 DEF Mark
  <2> QED  BY <2>1 DEF MarkSound
<1>10. ASSUME NEW w \in Workers, Release(w)
       PROVE  MarkSound'
  <2>1. keys'.done = keys.done
    BY <1>2, <1>10 DEF Release, Typed, Keys
  <2>2. \A v \in Workers : worker'[v].at = "mark" => worker[v].at = "mark"
    BY <1>2, <1>10 DEF Release, Typed
  <2> QED  BY <1>3, <2>1, <2>2
<1>11. ASSUME NEW w \in Workers, Raise(w)
       PROVE  MarkSound'
  <2>1. /\ \A v \in Workers : worker'[v].at = "mark" => worker[v].at = "mark"
        /\ keys'.done = keys.done
    BY <1>2, <1>11, RetryTyped DEF Raise
  <2> QED  BY <1>3, <2>1
<1>12. ASSUME NEW w \in Workers, WorkerLost(w)
       PROVE  MarkSound'
  <2>1. \A v \in Workers : worker'[v].at = "mark" => worker[v].at = "mark"
    BY <1>2, <1>12 DEF WorkerLost, Typed
  <2> QED  BY <1>3, <1>12, <2>1 DEF WorkerLost
<1>13. CASE KeyExpires
  <2>1. keys'.done => keys.done
    BY <1>2, <1>13 DEF KeyExpires, Typed, Keys
  <2> QED  BY <1>3, <1>13, <2>1 DEF KeyExpires
<1>14. CASE UNCHANGED vars
  BY <1>3, <1>14 DEF vars, celery
<1> QED
  BY <1>4, <1>5, <1>6, <1>7, <1>8, <1>9, <1>10, <1>11, <1>12, <1>13, <1>14
     DEF Next, Running

(* The completion marker stands only for a settlement that is durable and  *)
(* complete: every position decided, the fees swept, the LPs redeemed.     *)
THEOREM MarkerSound == Spec => []DoneMeansSettled
<1>1. Init => MarkInv
  <2> SUFFICES ASSUME Init PROVE MarkInv
    OBVIOUS
  <2>1. PayInv
    BY InitPayInv
  <2>2. EscrowShape
    BY Zenon DEF Init, EscrowShape
  <2>3. ~keys.done /\ \A w \in Workers : worker[w].at # "mark"
    BY Zenon DEF Init
  <2> QED  BY <2>1, <2>2, <2>3 DEF MarkInv
<1>2. MarkInv /\ [Next]_vars => MarkInv'
  <2> SUFFICES ASSUME MarkInv, [Next]_vars PROVE MarkInv'
    OBVIOUS
  <2>1. PayInv'
    BY NextPays DEF MarkInv
  <2> QED  BY <2>1, AllPaidStays, NextMarks DEF MarkInv, MarkSound
<1>3. MarkInv => DoneMeansSettled
  BY DEF MarkInv, DoneMeansSettled, AllPaid
<1> QED  BY <1>1, <1>2, <1>3, PTL DEF Spec

-----------------------------------------------------------------------------
(* The escrow *)

EscrowRow == [collateral : Nat, fees : Nat, treasury : Nat, lps : Nat, tokens : BOOLEAN]

(* What winners, treasury and LPs hold, and what the escrow still holds. *)
Held(e, c) == e.collateral + e.treasury + e.lps + SumOver(c, Positions)

EscrowInv == PayInv /\ escrow \in EscrowRow /\ Held(escrow, credited) = Collateral0

(* There are finitely many positions. *)
LEMMA PositionsFinite == IsFiniteSet(Positions)
  BY SettlementAssumption, FS_Product DEF Positions, SettlementAssumption

(* NothingConjured is about the sums of these lemmas. *)
LEMMA HeldForm ==
  /\ NothingConjured <=> Held(escrow, credited) = Collateral0
  /\ Held(escrow, credited)' = Held(escrow', credited')
<1>1. NothingConjured <=> Held(escrow, credited) = Collateral0
  BY DEF NothingConjured, Held, SumOver, MapThenSumSet, MapThenFoldSet
<1>2. Held(escrow, credited)' = Held(escrow', credited')
  BY DEF Held, SumOver, MapThenSumSet, MapThenFoldSet
<1> QED
  BY <1>1, <1>2

(* A row is its fields. *)
LEMMA RowFields ==
  ASSUME NEW e \in EscrowRow
  PROVE  e = [collateral |-> e.collateral, fees |-> e.fees, treasury |-> e.treasury,
              lps |-> e.lps, tokens |-> e.tokens]
  BY DEF EscrowRow

(* A claim moves a position's shares from the escrow to its holder. *)
LEMMA ClaimHeld ==
  ASSUME EscrowInv, NEW u \in Users, ClaimPay(u)
  PROVE  escrow' \in EscrowRow /\ Held(escrow', credited') = Collateral0
<1> DEFINE p == <<u, claim[u]>>
<1>1. CASE UNCHANGED ledger
  BY <1>1 DEF ledger, EscrowInv
<1>2. CASE ~ UNCHANGED ledger
  <2>1. /\ p \in Positions
        /\ Shares[p] <= escrow.collateral
        /\ credited' = [credited EXCEPT ![p] = @ + Shares[p]]
        /\ escrow' = Debit(escrow, Shares[p])
    BY Zenon, <1>2 DEF ClaimPay, Unsettled, Covers
  <2> HIDE DEF p
  <2>2. /\ Shares[p] \in Nat /\ credited \in [Positions -> Nat] /\ escrow \in EscrowRow
        /\ Held(escrow, credited) = Collateral0
    BY Zenon, <2>1, SettlementAssumption DEF SettlementAssumption, EscrowInv, PayInv, Typed
  <2>3. escrow' = [collateral |-> escrow.collateral - Shares[p], fees |-> escrow.fees,
                   treasury |-> escrow.treasury, lps |-> escrow.lps, tokens |-> escrow.tokens]
    BY Zenon, <2>1, <2>2, RowFields, DebitShape
  <2>4. /\ escrow.collateral \in Nat /\ escrow.treasury \in Nat /\ escrow.lps \in Nat
        /\ escrow.fees \in Nat /\ escrow.tokens \in BOOLEAN
    BY <2>2 DEF EscrowRow
  <2>5. escrow' \in EscrowRow
    BY <2>1, <2>2, <2>3, <2>4 DEF EscrowRow
  <2>6. SumOver(credited', Positions) = SumOver(credited, Positions) + Shares[p]
    <3> DEFINE c == credited
               d == credited'
    <3>1. /\ \A x \in Positions : c[x] \in Int
          /\ d[p] = c[p] + Shares[p] /\ d[p] \in Int
          /\ \A x \in Positions : x # p => d[x] = c[x]
      BY <2>1, <2>2
    <3> HIDE DEF c, d
    <3>2. SumOver(d, Positions) = SumOver(c, Positions) + d[p] - c[p]
      BY Zenon, <2>1, <3>1, PositionsFinite, SumUpdate
    <3>3. SumOver(c, Positions) \in Int /\ c[p] \in Int
      BY Zenon, <2>1, <3>1, PositionsFinite, SumInt
    <3>4. SumOver(d, Positions) = SumOver(c, Positions) + Shares[p]
      BY <2>2, <3>1, <3>2, <3>3
    <3> QED
      BY Zenon, <3>4 DEF c, d
  <2>7. SumOver(credited, Positions) \in Int
    BY <2>2, PositionsFinite, SumInt
  <2>8. Held(escrow', credited') = Held(escrow, credited)
    BY <2>2, <2>3, <2>4, <2>6, <2>7 DEF Held
  <2> QED
    BY <2>2, <2>5, <2>8
<1> QED
  BY <1>1, <1>2

(* What settlement credits its winners is what it owes them. *)
LEMMA WinnersPaid ==
  ASSUME PayInv, NEW W, W \subseteq Positions, NEW d,
         d = [p \in Positions |-> IF p \in W THEN credited[p] + Shares[p] ELSE credited[p]]
  PROVE  /\ SumOver(d, Positions) = SumOver(credited, Positions) + OwedTo(W)
         /\ OwedTo(W) \in Nat /\ SumOver(credited, Positions) \in Nat
<1> DEFINE g == [p \in Positions |-> IF p \in W THEN Shares[p] ELSE 0]
           c == credited
<1>1. /\ \A p \in Positions : c[p] \in Nat /\ Shares[p] \in Nat
      /\ IsFiniteSet(Positions) /\ IsFiniteSet(W)
  BY Zenon, SettlementAssumption, PositionsFinite, FS_Subset DEF SettlementAssumption, PayInv, Typed
<1>2. OwedTo(W) = SumOver(Shares, W)
  BY Zenon DEF OwedTo, SumOver, MapThenSumSet, MapThenFoldSet
<1>3. \A p \in Positions : c[p] \in Int /\ g[p] \in Int /\ d[p] = c[p] + g[p]
  BY <1>1
<1>4. /\ \A p \in W : Shares[p] \in Int /\ Shares[p] \in Nat /\ g[p] = Shares[p]
      /\ \A p \in Positions \ W : g[p] = 0
  BY <1>1
<1> HIDE DEF g, c
<1>5. SumOver(d, Positions) = SumOver(c, Positions) + SumOver(g, Positions)
  BY <1>1, <1>3, SumPlus
<1>6. SumOver(g, Positions) = SumOver(Shares, W)
  BY <1>1, <1>4, SumPart
<1>7. SumOver(Shares, W) \in Nat /\ SumOver(c, Positions) \in Nat
  BY Zenon, <1>1, <1>4, SumNat
<1> QED
  BY Zenon, <1>2, <1>5, <1>6, <1>7 DEF c

(* Settlement moves the escrow to winners, treasury and LPs. *)
LEMMA PayAllHeld ==
  ASSUME EscrowInv, NEW o, PayAll(o),
         Covers(OwedTo({p \in Unsettled : p[2] = o}) + escrow.fees)
  PROVE  escrow' \in EscrowRow /\ Held(escrow', credited') = Collateral0
<1> DEFINE W == {p \in Unsettled : p[2] = o}
           owed == OwedTo(W)
           d1 == Debit(escrow, owed)
           d2 == Debit(d1, escrow.fees)
           residual == IF escrow.tokens THEN d2.collateral ELSE 0
           d3 == Debit(d2, residual)
<1>1. /\ escrow' = [d3 EXCEPT !.fees = 0, !.treasury = @ + escrow.fees,
                              !.lps = @ + residual, !.tokens = FALSE]
      /\ credited' = [p \in Positions |->
                        IF p \in W THEN credited[p] + Shares[p] ELSE credited[p]]
      /\ owed + escrow.fees <= escrow.collateral
      /\ W \subseteq Positions
  BY DEF PayAll, Covers, Unsettled
<1>2. /\ PayInv /\ escrow \in EscrowRow /\ Held(escrow, credited) = Collateral0
      /\ escrow.collateral \in Nat /\ escrow.treasury \in Nat /\ escrow.lps \in Nat
      /\ escrow.fees \in Nat /\ escrow.tokens \in BOOLEAN
  BY DEF EscrowInv, EscrowRow
<1>3. /\ SumOver(credited', Positions) = SumOver(credited, Positions) + owed
      /\ owed \in Nat /\ SumOver(credited, Positions) \in Nat
  <2> HIDE DEF W
  <2> QED
    BY Zenon, <1>1, <1>2, WinnersPaid
<1> HIDE DEF W, owed
<1>4. d1 = [collateral |-> escrow.collateral - owed, fees |-> escrow.fees,
            treasury |-> escrow.treasury, lps |-> escrow.lps, tokens |-> escrow.tokens]
  BY Zenon, <1>2, RowFields, DebitShape
<1> HIDE DEF d1
<1>5. d1 = [collateral |-> d1.collateral, fees |-> d1.fees, treasury |-> d1.treasury,
            lps |-> d1.lps, tokens |-> d1.tokens]
  BY Zenon, <1>4
<1>6. d2 = [collateral |-> d1.collateral - escrow.fees, fees |-> d1.fees,
            treasury |-> d1.treasury, lps |-> d1.lps, tokens |-> d1.tokens]
  BY Zenon, <1>5, DebitShape
<1> HIDE DEF d2
<1>7. d2 = [collateral |-> d2.collateral, fees |-> d2.fees, treasury |-> d2.treasury,
            lps |-> d2.lps, tokens |-> d2.tokens]
  BY Zenon, <1>6
<1>8. d2.collateral = escrow.collateral - owed - escrow.fees /\ d2.collateral \in Nat
  BY <1>1, <1>2, <1>3, <1>4, <1>6
<1>9. d2.treasury = escrow.treasury /\ d2.lps = escrow.lps
  BY Zenon, <1>4, <1>6
<1>10. residual \in Nat /\ residual <= d2.collateral
  BY <1>2, <1>8
<1> HIDE DEF residual
<1>11. d3 = [collateral |-> d2.collateral - residual, fees |-> d2.fees,
             treasury |-> d2.treasury, lps |-> d2.lps, tokens |-> d2.tokens]
  BY Zenon, <1>7, DebitShape
<1> HIDE DEF d3
<1>12. escrow' = [collateral |-> d2.collateral - residual, fees |-> 0,
                  treasury |-> escrow.treasury + escrow.fees,
                  lps |-> escrow.lps + residual, tokens |-> FALSE]
  BY Zenon, <1>1, <1>9, <1>11
<1>13. escrow' \in EscrowRow
  BY <1>2, <1>8, <1>10, <1>12 DEF EscrowRow
<1>14. Held(escrow', credited') = Held(escrow, credited)
  BY <1>2, <1>3, <1>8, <1>10, <1>12 DEF Held
<1> QED
  BY <1>2, <1>13, <1>14

(* Every step keeps the escrow's books. *)
LEMMA NextHeld ==
  ASSUME EscrowInv, [Next]_vars
  PROVE  EscrowInv'
<1>1. PayInv'
  BY NextPays DEF EscrowInv
<1>2. CASE UNCHANGED ledger
  BY <1>1, <1>2, HeldForm DEF ledger, EscrowInv
<1>3. CASE \E u \in Users : ClaimPay(u)
  BY <1>1, <1>3, ClaimHeld, HeldForm DEF EscrowInv
<1>4. CASE \E w \in Workers : Settle(w)
  <2>1. \/ UNCHANGED ledger
        \/ \E o : PayAll(o) /\ Covers(OwedTo({p \in Unsettled : p[2] = o}) + escrow.fees)
    BY Zenon, <1>4 DEF Settle
  <2> QED
    BY Zenon, <1>1, <1>2, <2>1, PayAllHeld, HeldForm DEF EscrowInv
<1> QED
  BY Zenon, <1>2, <1>3, <1>4, LedgerMoves DEF EscrowInv, PayInv

(* The escrow's books are right at first. *)
LEMMA InitHeld == Init => EscrowInv
<1> SUFFICES ASSUME Init PROVE EscrowInv
  OBVIOUS
<1>1. PayInv
  BY InitPayInv
<1>2. escrow \in EscrowRow
  BY SMTT(30), SettlementAssumption DEF Init, EscrowRow, SettlementAssumption
<1>3. \A p \in Positions : credited[p] = 0
  BY Zenon DEF Init
<1>4. SumOver(credited, Positions) = 0
  <2>1. SumOver(credited, Positions) = 0 * Cardinality(Positions)
    BY <1>3, PositionsFinite, SumConstant
  <2>2. Cardinality(Positions) \in Nat
    BY SMTT(30), PositionsFinite, FS_CardinalityType
  <2> QED
    BY <2>1, <2>2
<1>5. Held(escrow, credited) = Collateral0
  BY <1>4, SettlementAssumption DEF Init, Held, SettlementAssumption
<1> QED
  BY <1>1, <1>2, <1>5 DEF EscrowInv

(* Everything paid to winners, treasury and LPs left the escrow, however   *)
(* claims, retries and redelivered tasks interleave.                       *)
THEOREM EscrowConserved == Spec => []NothingConjured
<1>1. Init => EscrowInv
  BY InitHeld
<1>2. EscrowInv /\ [Next]_vars => EscrowInv'
  BY NextHeld
<1>3. EscrowInv => NothingConjured
  BY HeldForm DEF EscrowInv
<1> QED
  BY <1>1, <1>2, <1>3, PTL DEF Spec

-----------------------------------------------------------------------------
(* Types *)

(* What Typed and EscrowInv leave out of TypeOK. *)
RowsTyped ==
  /\ row \in {"free", "resolve", "adjudicate"}
  /\ listed \in BOOLEAN
  /\ disputes \in [Disputes -> {"none", "open", "upheld", "dismissed"}]
  /\ ruled \subseteq Disputes
  /\ faults \in 0..MaxFaults

(* A fault is counted while the bound allows it. *)
LEMMA FaultTyped ==
  ASSUME RowsTyped, Fault
  PROVE  faults' \in 0..MaxFaults
  BY SettlementAssumption DEF RowsTyped, Fault, SettlementAssumption

(* Every step keeps the row's lock, the disputes and the faults typed. *)
LEMMA NextRows ==
  ASSUME RowsTyped, [Next]_vars
  PROVE  RowsTyped'
<1>1. CASE \E o \in Outcomes : ResolveSend(o) \/ ProposeRead(o)
  BY <1>1 DEF ResolveSend, ProposeRead, RowsTyped
<1>2. CASE ResolveCommit \/ CloseList \/ CloseCommit \/ ProposeCommit \/ AdjudicateCommit
  BY Zenon, <1>2 DEF ResolveCommit, CloseList, CloseCommit, ProposeCommit, AdjudicateCommit, RowsTyped
<1>3. CASE ResolveCrash \/ AdjudicateCrash
  BY Zenon, <1>3, FaultTyped DEF ResolveCrash, AdjudicateCrash, RowsTyped
<1>4. CASE \E d \in Disputes : CreateDispute(d)
  BY <1>4 DEF CreateDispute, RowsTyped
<1>5. CASE \E d \in Disputes : AdjudicateSend(d)
  BY Zenon, <1>5 DEF AdjudicateSend, RowsTyped
<1>6. CASE \E d \in Disputes : AdjudicateSendFails(d)
  BY Zenon, <1>6, FaultTyped DEF AdjudicateSendFails, RowsTyped
<1>7. CASE \E d \in Disputes : \E ruling \in {"upheld", "dismissed"} : Adjudicate(d, ruling)
  BY <1>7 DEF Adjudicate, RowsTyped
<1>8. CASE UNCHANGED <<row, listed, disputes, ruled>> /\ (UNCHANGED faults \/ Fault)
  BY Zenon, <1>8, FaultTyped DEF RowsTyped
<1>9. CASE \E u \in Users : ClaimRead(u) \/ ClaimPay(u)
  BY Zenon, <1>8, <1>9 DEF ClaimRead, ClaimPay, rows
<1>10. CASE \E w \in Workers : Settle(w)
  BY <1>8, <1>10 DEF Settle, rows
<1>11. CASE \E w \in Workers :
             \/ \E t \in queue : TakeTask(w, t)
             \/ CheckMarker(w) \/ Mark(w) \/ Release(w) \/ Raise(w) \/ WorkerLost(w)
  BY <1>8, <1>11 DEF TakeTask, CheckMarker, Mark, Release, Raise, WorkerLost, rows
<1>12. CASE KeyExpires \/ UNCHANGED vars
  BY <1>8, <1>12 DEF KeyExpires, vars, rows
<1> QED
  BY Zenon, <1>1, <1>2, <1>3, <1>4, <1>5, <1>6, <1>7, <1>9, <1>10, <1>11, <1>12
     DEF Next, Admin, Running

(* Every variable keeps its type; whoever is paid, in whatever order, the  *)
(* escrow is never overdrawn.                                              *)
THEOREM ResolutionTyped == Spec => []TypeOK
<1>1. Init => EscrowInv
  BY InitHeld
<1>2. Init => RowsTyped
  <2>1. 0 \in 0..MaxFaults
    BY SettlementAssumption DEF SettlementAssumption
  <2> SUFFICES ASSUME Init PROVE RowsTyped
    OBVIOUS
  <2>2. faults \in 0..MaxFaults
    BY Zenon, <2>1 DEF Init
  <2>3. disputes \in [Disputes -> {"none", "open", "upheld", "dismissed"}]
    BY Zenon DEF Init
  <2>4. row = "free" /\ listed = FALSE /\ ruled = {}
    BY Zenon DEF Init
  <2> QED
    BY Zenon, <2>2, <2>3, <2>4 DEF RowsTyped
<1>3. EscrowInv /\ RowsTyped /\ [Next]_vars => EscrowInv' /\ RowsTyped'
  BY NextHeld, NextRows
<1>4. EscrowInv /\ RowsTyped => TypeOK
  BY Zenon DEF EscrowInv, RowsTyped, EscrowRow, PayInv, Typed, TypeOK, Keys, WorkerStates
<1> QED
  BY <1>1, <1>2, <1>3, <1>4, PTL DEF Spec

-----------------------------------------------------------------------------
(***************************************************************************)
(* Liquidity.  A request works on the pool it has read, so the invariant   *)
(* says that at most one is open and that the pool it has read is the      *)
(* pool; what is redeemed was priced off it and leaves the floor.  The     *)
(* tokens of the LPs add up to the supply, which is what makes the shares  *)
(* of the settlement add up to the rest of the escrow.                     *)
(***************************************************************************)

PoolRows == [collateral : Nat, supply : Nat, fees : Nat]
ReqRows == [at : {"none", "add", "remove", "priced"}, amount : Nat, seen : PoolRows, paid : Nat]

Types ==
  /\ lpPool \in PoolRows /\ lpTokens \in [Providers -> Nat] /\ lpWallet \in [Providers -> Nat]
  /\ pairs \in Nat /\ traders \in Nat /\ treasury \in Nat
  /\ marketRow \in [status : {"active", "resolving", "resolved"}, holder : Providers \cup {Free}]
  /\ lpReq \in [Providers -> ReqRows]

(* One request is open at a time, none once the market is resolved, and an *)
(* addition holds the market.                                              *)
OneRequest ==
  /\ \A p, q \in Waiting : p = q
  /\ marketRow.status = "resolved" => Waiting = {}
  /\ \A p \in Providers : lpReq[p].at = "add" => marketRow.holder = p

(* The open request has read the pool as it is. *)
SeenIsCurrent == \A p \in Waiting : lpReq[p].seen = lpPool

(* An addition is for a whole number of tokens. *)
AddsWhole ==
  \A p \in Providers : lpReq[p].at = "add" /\ lpPool.supply > 0 /\ lpPool.collateral > 0
    => Minted(lpPool, lpReq[p].amount) * lpPool.collateral = lpReq[p].amount * lpPool.supply

(* A priced removal has the tokens, pays in proportion, and leaves the     *)
(* floor.                                                                  *)
PricedIsCovered ==
  \A p \in Providers : lpReq[p].at = "priced" =>
    /\ lpReq[p].amount <= lpTokens[p]
    /\ lpReq[p].paid * lpPool.supply = lpPool.collateral * lpReq[p].amount
    /\ pairs + lpPool.fees + lpReq[p].paid <= lpPool.collateral

Open == OneRequest /\ SeenIsCurrent /\ AddsWhole /\ PricedIsCovered

Books == EscrowCoversClaims /\ TokensMatchSupply

Total == SumOver(lpWallet, Providers) + lpPool.collateral + traders + treasury

(* Dollars are moved only. *)
Moved == Total = Seed + Purse * Cardinality(Providers)

LPInv == Types /\ Open /\ Books /\ Moved

-----------------------------------------------------------------------------
(* Arithmetic *)

(* A division without remainder is undone by the product.                  *)
LEMMA ExactDivision ==
  ASSUME NEW d \in Nat, d > 0, NEW n \in Nat, n % d = 0
  PROVE  n \div d \in Nat /\ (n \div d) * d = n
OBVIOUS

(* Products of naturals are naturals.                                      *)
LEMMA ProductNat == ASSUME NEW a \in Nat, NEW b \in Nat PROVE a * b \in Nat
OBVIOUS

(* A positive factor cancels.                                              *)
LEMMA CancelFactor ==
  ASSUME NEW k \in Nat, k > 0, NEW a \in Int, NEW b \in Int, k * a = k * b PROVE a = b
OBVIOUS

(* Adding n for m tokens, or taking them, at the price of the pool keeps   *)
(* the price.                                                              *)
LEMMA PriceKept ==
  ASSUME NEW t \in Int, NEW c \in Int, NEW s \in Int, NEW n \in Int, NEW m \in Int, m * c = n * s
  PROVE  /\ t * c * (s + m) = t * (c + n) * s
         /\ t * c * (s - m) = t * (c - n) * s
OBVIOUS

-----------------------------------------------------------------------------
(* The tokens held and the dollars shared are sums over the providers.     *)
LEMMA HeldIsSum ==
  /\ LPHeld = SumOver(lpTokens, Providers) /\ LPHeld' = SumOver(lpTokens', Providers)
  /\ LPShared = SumOver(LPShare, Providers)
  /\ NoDollarsConjured <=> Total <= Seed + Purse * Cardinality(Providers)
<1>1. LPHeld = SumOver(lpTokens, Providers) /\ LPHeld' = SumOver(lpTokens', Providers)
  BY Zenon DEF LPHeld, SumOver, MapThenSumSet, MapThenFoldSet
<1>2. LPShared = SumOver(LPShare, Providers)
  BY Zenon DEF LPShared, SumOver, MapThenSumSet, MapThenFoldSet
<1>3. NoDollarsConjured <=> Total <= Seed + Purse * Cardinality(Providers)
  BY Zenon DEF NoDollarsConjured, Total, SumOver, MapThenSumSet, MapThenFoldSet
<1> QED
  BY Zenon, <1>1, <1>2, <1>3

(* The sums of tokens and wallets are naturals.                            *)
LEMMA SumsTyped ==
  ASSUME Types
  PROVE  SumOver(lpTokens, Providers) \in Nat /\ SumOver(lpWallet, Providers) \in Nat
BY Zenon, LiquidityAssumption, SumNat DEF Types

-----------------------------------------------------------------------------
(* Requests *)

(* The empty request is a request row.                                     *)
LEMMA NoRequestRow == NoRequest \in ReqRows /\ NoRequest.at = "none"
BY Zenon DEF NoRequest, ReqRows, PoolRows

(* A request that is done leaves no request open: it was the only one. *)
LEMMA DoneEffect ==
  ASSUME LPInv, NEW p \in Waiting, ReqDone(p)
  PROVE  /\ lpReq' \in [Providers -> ReqRows] /\ Waiting' = {}
         /\ \A q \in Providers : lpReq'[q].at = "none"
<1>1. lpReq \in [Providers -> ReqRows] /\ lpReq' = [lpReq EXCEPT ![p] = NoRequest] /\ p \in Providers
  BY Zenon DEF ReqDone, LPInv, Types, Waiting
<1>2. lpReq' \in [Providers -> ReqRows]
  BY <1>1, NoRequestRow
<1>3. \A q \in Providers : lpReq'[q].at = "none"
  BY Zenon, <1>1, NoRequestRow DEF LPInv, Open, OneRequest, Waiting
<1> QED
  BY Zenon, <1>2, <1>3 DEF Waiting

(* With no request open there is nothing to say of requests. *)
LEMMA NothingOpen ==
  ASSUME \A q \in Providers : lpReq'[q].at = "none"
  PROVE  Open'
BY Zenon DEF Open, OneRequest, SeenIsCurrent, AddsWhole, PricedIsCovered, Waiting

(* A refused or broken-off request leaves the ledger alone. *)
LEMMA RequestDropped ==
  ASSUME LPInv, NEW p \in Waiting, ReqDone(p), UNCHANGED lpLedger,
         ReleaseRow \/ UNCHANGED marketRow
  PROVE  LPInv'
<1>1. UNCHANGED <<lpPool, lpTokens, lpWallet, pairs, traders, treasury>>
  BY DEF lpLedger
<1>2. /\ marketRow'.status = marketRow.status
      /\ marketRow' \in [status : {"active", "resolving", "resolved"}, holder : Providers \cup {Free}]
  BY DEF ReleaseRow, LPInv, Types
<1>3. Types'
  BY Zenon, <1>1, <1>2, DoneEffect DEF LPInv, Types
<1>4. Open'
  BY DoneEffect, NothingOpen
<1>5. Books' /\ Moved'
  <2>1. LPHeld' = LPHeld
    BY Zenon, <1>1, HeldIsSum
  <2> QED
    BY Zenon, <1>1, <1>2, <2>1 DEF LPInv, Books, EscrowCoversClaims, TokensMatchSupply, Moved, Total
<1> QED
  BY <1>3, <1>4, <1>5 DEF LPInv

(* A request that is read is the only one open. *)
LEMMA AskEffect ==
  ASSUME LPInv, NEW p \in Providers, NEW op \in {"add", "remove"}, NEW n \in Nat,
         Ask(p, op, n), Waiting = {}
  PROVE  /\ lpReq' \in [Providers -> ReqRows] /\ Waiting' = {p}
         /\ lpReq'[p].at = op /\ lpReq'[p].amount = n /\ lpReq'[p].seen = lpPool
         /\ \A q \in Providers : q # p => lpReq'[q].at = "none"
<1> DEFINE r == [at |-> op, amount |-> n, seen |-> lpPool, paid |-> 0]
<1>1. r \in ReqRows /\ r.at = op /\ r.amount = n /\ r.seen = lpPool
  BY Zenon DEF LPInv, Types, ReqRows
<1>2. lpReq \in [Providers -> ReqRows] /\ lpReq' = [lpReq EXCEPT ![p] = r]
  BY Zenon DEF Ask, LPInv, Types
<1>3. lpReq' \in [Providers -> ReqRows] /\ lpReq'[p] = r /\ \A q \in Providers : q # p => lpReq'[q] = lpReq[q]
  BY Zenon, <1>1, <1>2
<1>4. \A q \in Providers : lpReq[q].at = "none"
  BY Zenon DEF Waiting
<1> QED
  BY Zenon, <1>1, <1>3, <1>4 DEF Waiting

(* Reading changes no ledger. *)
LEMMA RequestRead ==
  ASSUME LPInv, ExitsAlone, NEW p \in Providers, NEW n \in Nat, AddRead(p, n) \/ RemoveRead(p, n)
  PROVE  LPInv'
<1>1. Waiting = {}
  <2>1. CASE AddRead(p, n)
    BY <2>1, LiquidityAssumption DEF AddRead, LPInv, Open, OneRequest, Waiting
  <2>2. CASE RemoveRead(p, n)
    BY <2>2 DEF RemoveRead
  <2> QED
    BY <2>1, <2>2
<1>2. PICK op \in {"add", "remove"} :
        /\ Ask(p, op, n)
        /\ op = "add" => /\ marketRow' = [marketRow EXCEPT !.holder = p]
                         /\ lpPool.supply > 0 => lpPool.collateral = 0
                                                 \/ Divides(lpPool.collateral, n * lpPool.supply)
        /\ op = "remove" => UNCHANGED marketRow
  BY DEF AddRead, RemoveRead
<1>3. marketRow.status = "active"
  BY DEF AddRead, RemoveRead
<1>4. UNCHANGED <<lpPool, lpTokens, lpWallet, pairs, traders, treasury>>
  BY DEF AddRead, RemoveRead, lpLedger
<1>5. /\ lpReq' \in [Providers -> ReqRows] /\ Waiting' = {p}
      /\ lpReq'[p].at = op /\ lpReq'[p].amount = n /\ lpReq'[p].seen = lpPool
      /\ \A q \in Providers : q # p => lpReq'[q].at = "none"
  BY <1>1, <1>2, AskEffect
<1>6. /\ marketRow'.status = "active" /\ (op = "add" => marketRow'.holder = p)
      /\ marketRow' \in [status : {"active", "resolving", "resolved"}, holder : Providers \cup {Free}]
  BY <1>2, <1>3 DEF LPInv, Types
<1>7. Types'
  BY Zenon, <1>4, <1>5, <1>6 DEF LPInv, Types
<1>8. OneRequest' /\ SeenIsCurrent' /\ PricedIsCovered'
  BY Zenon, <1>4, <1>5, <1>6 DEF OneRequest, SeenIsCurrent, PricedIsCovered
<1>9. AddsWhole'
  <2> SUFFICES ASSUME op = "add", lpPool.supply > 0, lpPool.collateral > 0
               PROVE  Minted(lpPool, n) * lpPool.collateral = n * lpPool.supply
    BY Zenon, <1>4, <1>5 DEF AddsWhole, Minted
  <2>1. lpPool.collateral \in Nat /\ lpPool.supply \in Nat
    BY Zenon DEF LPInv, Types, PoolRows
  <2>2. n * lpPool.supply \in Nat
    BY <2>1, ProductNat
  <2>3. (n * lpPool.supply) % lpPool.collateral = 0
    BY <1>2, <2>1 DEF Divides
  <2>4. ((n * lpPool.supply) \div lpPool.collateral) * lpPool.collateral = n * lpPool.supply
    BY Zenon, <2>1, <2>2, <2>3, ExactDivision
  <2> QED
    BY Zenon, <2>4 DEF Minted
<1>10. Books' /\ Moved'
  <2>1. LPHeld' = LPHeld
    BY Zenon, <1>4, HeldIsSum
  <2> QED
    BY Zenon, <1>3, <1>4, <1>6, <2>1 DEF LPInv, Books, EscrowCoversClaims, TokensMatchSupply, Moved, Total
<1> QED
  BY Zenon, <1>7, <1>8, <1>9, <1>10 DEF LPInv, Open

-----------------------------------------------------------------------------
(* The ledger *)

(* A write of two columns of the pool row leaves the third alone.          *)
LEMMA PoolWritten ==
  ASSUME NEW pool \in PoolRows, NEW c \in Nat, NEW s \in Nat, NEW f \in Nat
  PROVE  /\ [pool EXCEPT !.collateral = c, !.supply = s]
              = [collateral |-> c, supply |-> s, fees |-> pool.fees]
         /\ [pool EXCEPT !.collateral = c, !.fees = f]
              = [collateral |-> c, supply |-> pool.supply, fees |-> f]
<1>1. ASSUME NEW q, q = [pool EXCEPT !.collateral = c, !.supply = s]
      PROVE  q = [collateral |-> c, supply |-> s, fees |-> pool.fees]
  BY Zenon, <1>1 DEF PoolRows
<1>2. ASSUME NEW q, q = [pool EXCEPT !.collateral = c, !.fees = f]
      PROVE  q = [collateral |-> c, supply |-> pool.supply, fees |-> f]
  BY Zenon, <1>2 DEF PoolRows
<1> QED
  BY <1>1, <1>2

(* Three naturals make a pool row.                                         *)
LEMMA PoolRow ==
  ASSUME NEW c \in Nat, NEW s \in Nat, NEW f \in Nat
  PROVE  [collateral |-> c, supply |-> s, fees |-> f] \in PoolRows
BY Zenon DEF PoolRows

(* An addition mints tokens at the price of the escrow. *)
LEMMA AddCommitKeeps ==
  ASSUME LPInv, NEW p \in Providers, AddCommit(p)
  PROVE  LPInv'
<1> DEFINE n == lpReq[p].amount
           m == Minted(lpPool, n)
<1>1. p \in Waiting /\ lpReq[p].at = "add" /\ lpReq[p].seen = lpPool
  BY DEF AddCommit, Waiting, LPInv, Open, SeenIsCurrent
<1>2. /\ n \in Nat /\ lpPool \in PoolRows /\ lpTokens \in [Providers -> Nat]
      /\ lpWallet \in [Providers -> Nat] /\ lpPool.collateral \in Nat /\ lpPool.supply \in Nat
  BY Zenon DEF LPInv, Types, ReqRows, PoolRows
<1>3. /\ n <= lpWallet[p] /\ (lpPool.supply > 0 => lpPool.collateral > 0)
      /\ lpPool' = [lpPool EXCEPT !.collateral = lpPool.collateral + n, !.supply = lpPool.supply + m]
      /\ lpTokens' = [lpTokens EXCEPT ![p] = lpTokens[p] + m]
      /\ lpWallet' = [lpWallet EXCEPT ![p] = lpWallet[p] - n]
      /\ ReqDone(p) /\ ReleaseRow /\ UNCHANGED <<pairs, traders, treasury>>
  BY <1>1 DEF AddCommit
<1>4. m \in Nat
  <2>1. n * lpPool.supply \in Nat
    BY Zenon, <1>2, ProductNat
  <2> QED
    BY <1>2, <1>3, <2>1 DEF Minted
<1> HIDE DEF n, m
<1>5. /\ lpPool' \in PoolRows /\ lpPool'.collateral = lpPool.collateral + n
      /\ lpPool'.supply = lpPool.supply + m /\ lpPool'.fees = lpPool.fees
  <2>1. lpPool.collateral + n \in Nat /\ lpPool.supply + m \in Nat /\ lpPool.fees \in Nat
    BY <1>2, <1>4 DEF PoolRows
  <2>2. lpPool' = [collateral |-> lpPool.collateral + n, supply |-> lpPool.supply + m, fees |-> lpPool.fees]
    BY Zenon, <1>2, <1>3, <2>1, PoolWritten
  <2> QED
    BY Zenon, <2>1, <2>2, PoolRow
<1>6. /\ lpTokens' \in [Providers -> Nat] /\ lpTokens'[p] = lpTokens[p] + m
      /\ \A q \in Providers \ {p} : lpTokens'[q] = lpTokens[q]
  BY <1>2, <1>3, <1>4
<1>7. /\ lpWallet' \in [Providers -> Nat] /\ lpWallet'[p] = lpWallet[p] - n
      /\ \A q \in Providers \ {p} : lpWallet'[q] = lpWallet[q]
  BY <1>2, <1>3
<1>8. /\ marketRow'.status = marketRow.status
      /\ marketRow' \in [status : {"active", "resolving", "resolved"}, holder : Providers \cup {Free}]
  BY <1>3 DEF ReleaseRow, LPInv, Types
<1>9. Types'
  BY <1>1, <1>3, <1>5, <1>6, <1>7, <1>8, DoneEffect DEF LPInv, Types
<1>10. Open'
  BY <1>1, <1>3, DoneEffect, NothingOpen
<1>11. LPHeld' = LPHeld + m
  <2>1. SumOver(lpTokens', Providers) = SumOver(lpTokens, Providers) + lpTokens'[p] - lpTokens[p]
    BY <1>2, <1>6, LiquidityAssumption, SumUpdate
  <2> QED
    BY <1>2, <1>4, <1>6, <2>1, HeldIsSum, SumsTyped DEF LPInv
<1>12. SumOver(lpWallet', Providers) = SumOver(lpWallet, Providers) - n
  <2>1. SumOver(lpWallet', Providers) = SumOver(lpWallet, Providers) + lpWallet'[p] - lpWallet[p]
    BY <1>2, <1>7, LiquidityAssumption, SumUpdate
  <2> QED
    BY <1>2, <1>7, <2>1, SumsTyped DEF LPInv
<1>13. marketRow.status # "resolved"
  BY Zenon, <1>1 DEF LPInv, Open, OneRequest
<1>14. Books'
  <2>1. EscrowCoversClaims'
    BY <1>2, <1>3, <1>5 DEF LPInv, Books, EscrowCoversClaims, Types, PoolRows
  <2>2. TokensMatchSupply'
    BY Zenon, <1>5, <1>8, <1>11, <1>13 DEF LPInv, Books, TokensMatchSupply
  <2> QED
    BY <2>1, <2>2 DEF Books
<1>15. Moved'
  BY <1>2, <1>3, <1>5, <1>12, SumsTyped DEF LPInv, Moved, Total, Types
<1> QED
  BY <1>9, <1>10, <1>14, <1>15 DEF LPInv

(* Pricing a removal. *)
LEMMA AtMostWithdrawable ==
  ASSUME NEW c \in Nat, NEW f \in Nat, NEW x \in Nat, f <= c, x <= Max({0, c - f})
  PROVE  f + x <= c
<1>1. Max({0, c - f}) = c - f
  <2>1. \A y \in {0, c - f} : c - f >= y
    OBVIOUS
  <2>2. \A y \in {0, c - f} : (\A z \in {0, c - f} : y >= z) => y = c - f
    OBVIOUS
  <2> QED
    BY Zenon, <2>1, <2>2 DEF Max
<1> QED
  BY <1>1

(* Pricing an exit (remove_liquidity, before its first write) keeps the    *)
(* invariant.                                                              *)
LEMMA RemovePriceKeeps ==
  ASSUME LPInv, NEW p \in Providers, RemovePrice(p)
  PROVE  LPInv'
<1> DEFINE n == lpReq[p].amount
           x == Redeemed(lpPool, n)
<1>1. p \in Waiting /\ lpReq[p].seen = lpPool /\ Waiting = {p}
  BY DEF RemovePrice, Waiting, LPInv, Open, SeenIsCurrent, OneRequest
<1>2. /\ n \in Nat /\ lpPool.collateral \in Nat /\ lpPool.supply \in Nat /\ lpPool.fees \in Nat
      /\ lpReq \in [Providers -> ReqRows] /\ pairs \in Nat
  BY Zenon DEF LPInv, Types, ReqRows, PoolRows
<1>3. /\ n <= lpTokens[p] /\ Divides(lpPool.supply, lpPool.collateral * n)
      /\ x <= Withdrawable(lpPool)
      /\ lpReq' = [lpReq EXCEPT ![p].at = "priced", ![p].paid = x]
      /\ UNCHANGED <<lpPool, lpTokens, lpWallet, pairs, traders, treasury, marketRow>>
  BY <1>1, <1>2 DEF RemovePrice, lpLedger, LPInv, Types
<1>4. x \in Nat /\ x * lpPool.supply = lpPool.collateral * n
  <2>1. lpPool.collateral * n \in Nat
    BY <1>2, ProductNat
  <2>2. lpPool.supply > 0 /\ (lpPool.collateral * n) % lpPool.supply = 0
    BY <1>2, <1>3 DEF Divides
  <2> QED
    BY Zenon, <1>2, <2>1, <2>2, ExactDivision DEF Redeemed
<1> HIDE DEF x
<1>5. /\ lpReq' \in [Providers -> ReqRows] /\ lpReq'[p].at = "priced" /\ lpReq'[p].paid = x
      /\ lpReq'[p].amount = n /\ lpReq'[p].seen = lpPool
      /\ \A q \in Providers : q # p => lpReq'[q] = lpReq[q]
  BY Zenon, <1>1, <1>2, <1>3, <1>4 DEF ReqRows
<1>6. pairs + lpPool.fees + x <= lpPool.collateral
  <2>1. pairs + lpPool.fees \in Nat /\ pairs + lpPool.fees <= lpPool.collateral
    BY <1>2 DEF LPInv, Books, EscrowCoversClaims
  <2>2. x <= Max({0, lpPool.collateral - (pairs + lpPool.fees)})
    BY <1>3 DEF Withdrawable, Floor
  <2> QED
    BY Zenon, <1>2, <1>4, <2>1, <2>2, AtMostWithdrawable
<1>7. Waiting' = {p} /\ \A q \in Providers : q # p => lpReq'[q].at = "none"
  BY Zenon, <1>1, <1>5 DEF Waiting
<1>8. Types'
  BY <1>3, <1>5 DEF LPInv, Types
<1>9. Open'
  <2>1. OneRequest'
    BY <1>1, <1>3, <1>5, <1>7 DEF OneRequest, LPInv, Open
  <2>2. SeenIsCurrent' /\ AddsWhole'
    BY <1>3, <1>5, <1>7 DEF SeenIsCurrent, AddsWhole
  <2>3. PricedIsCovered'
    BY Zenon, <1>2, <1>3, <1>4, <1>5, <1>6, <1>7 DEF PricedIsCovered
  <2> QED
    BY <2>1, <2>2, <2>3 DEF Open
<1>10. Books' /\ Moved'
  <2>1. LPHeld' = LPHeld
    BY <1>3, HeldIsSum
  <2> QED
    BY <1>3, <2>1 DEF LPInv, Books, EscrowCoversClaims, TokensMatchSupply, Moved, Total
<1> QED
  BY <1>8, <1>9, <1>10 DEF LPInv

(* A removal pays what it was priced at, and burns the tokens. *)
LEMMA RemoveCommitKeeps ==
  ASSUME LPInv, NEW p \in Providers, RemoveCommit(p)
  PROVE  LPInv'
<1> DEFINE n == lpReq[p].amount
           x == lpReq[p].paid
<1>1. p \in Waiting /\ lpReq[p].at = "priced" /\ lpReq[p].seen = lpPool
  BY DEF RemoveCommit, Waiting, LPInv, Open, SeenIsCurrent
<1>2. /\ n \in Nat /\ x \in Nat /\ lpPool \in PoolRows /\ lpTokens \in [Providers -> Nat]
      /\ lpWallet \in [Providers -> Nat] /\ lpPool.collateral \in Nat /\ lpPool.supply \in Nat
      /\ lpPool.fees \in Nat /\ pairs \in Nat
  BY Zenon DEF LPInv, Types, ReqRows, PoolRows
<1>3. /\ lpPool' = [lpPool EXCEPT !.collateral = lpPool.collateral - x, !.supply = lpPool.supply - n]
      /\ lpTokens' = [lpTokens EXCEPT ![p] = lpTokens[p] - n]
      /\ lpWallet' = [lpWallet EXCEPT ![p] = lpWallet[p] + x]
      /\ ReqDone(p) /\ UNCHANGED <<pairs, traders, treasury, marketRow>>
  BY <1>1 DEF RemoveCommit, Burned
<1>4. n <= lpTokens[p] /\ pairs + lpPool.fees + x <= lpPool.collateral
  BY Zenon, <1>1 DEF LPInv, Open, PricedIsCovered
<1>5. marketRow.status # "resolved" /\ LPHeld = lpPool.supply
  BY Zenon, <1>1 DEF LPInv, Open, OneRequest, Books, TokensMatchSupply
<1>6. n <= lpPool.supply
  <2>1. lpTokens[p] <= SumOver(lpTokens, Providers)
    BY Zenon, <1>2, LiquidityAssumption, SumMember
  <2> QED
    BY <1>2, <1>4, <1>5, <2>1, HeldIsSum
<1> HIDE DEF n, x
<1>7. /\ lpPool' \in PoolRows /\ lpPool'.collateral = lpPool.collateral - x
      /\ lpPool'.supply = lpPool.supply - n /\ lpPool'.fees = lpPool.fees
  <2>1. lpPool.collateral - x \in Nat /\ lpPool.supply - n \in Nat
    BY <1>2, <1>4, <1>6
  <2>2. lpPool' = [collateral |-> lpPool.collateral - x, supply |-> lpPool.supply - n, fees |-> lpPool.fees]
    BY Zenon, <1>2, <1>3, <2>1, PoolWritten
  <2> QED
    BY Zenon, <1>2, <2>1, <2>2, PoolRow
<1>8. /\ lpTokens' \in [Providers -> Nat] /\ lpTokens'[p] = lpTokens[p] - n
      /\ \A q \in Providers \ {p} : lpTokens'[q] = lpTokens[q]
  BY <1>2, <1>3, <1>4
<1>9. /\ lpWallet' \in [Providers -> Nat] /\ lpWallet'[p] = lpWallet[p] + x
      /\ \A q \in Providers \ {p} : lpWallet'[q] = lpWallet[q]
  BY <1>2, <1>3
<1>10. Types'
  BY <1>1, <1>3, <1>7, <1>8, <1>9, DoneEffect DEF LPInv, Types
<1>11. Open'
  BY <1>1, <1>3, DoneEffect, NothingOpen
<1>12. LPHeld' = LPHeld - n
  <2>1. SumOver(lpTokens', Providers) = SumOver(lpTokens, Providers) + lpTokens'[p] - lpTokens[p]
    BY <1>2, <1>8, LiquidityAssumption, SumUpdate
  <2> QED
    BY <1>2, <1>8, <2>1, HeldIsSum, SumsTyped DEF LPInv
<1>13. SumOver(lpWallet', Providers) = SumOver(lpWallet, Providers) + x
  <2>1. SumOver(lpWallet', Providers) = SumOver(lpWallet, Providers) + lpWallet'[p] - lpWallet[p]
    BY <1>2, <1>9, LiquidityAssumption, SumUpdate
  <2> QED
    BY <1>2, <1>9, <2>1, SumsTyped DEF LPInv
<1>14. Books'
  <2>1. EscrowCoversClaims'
    BY <1>2, <1>3, <1>4, <1>7 DEF EscrowCoversClaims
  <2>2. TokensMatchSupply'
    BY <1>3, <1>5, <1>7, <1>12 DEF TokensMatchSupply
  <2> QED
    BY <2>1, <2>2 DEF Books
<1>15. Moved'
  BY <1>2, <1>3, <1>7, <1>13, SumsTyped DEF LPInv, Moved, Total, Types
<1> QED
  BY <1>10, <1>11, <1>14, <1>15 DEF LPInv

(* While no request is open, a writer that moves d from the escrow to the  *)
(* traders and the treasury keeps the books if it keeps the escrow above   *)
(* the claims.                                                             *)
LEMMA PoolMoved ==
  ASSUME LPInv, Waiting = {}, NEW c \in Nat, NEW f \in Nat,
         lpPool' = [collateral |-> c, supply |-> lpPool.supply, fees |-> f],
         pairs' \in Nat, traders' \in Nat, treasury' \in Nat,
         c + traders' + treasury' = lpPool.collateral + traders + treasury,
         pairs' + f <= c,
         UNCHANGED <<lpTokens, lpWallet, marketRow, lpReq>>
  PROVE  LPInv'
<1>1. lpPool.supply \in Nat /\ lpPool.collateral \in Nat /\ traders \in Nat /\ treasury \in Nat
  BY Zenon DEF LPInv, Types, PoolRows
<1>2. lpPool' \in PoolRows /\ lpPool'.collateral = c /\ lpPool'.supply = lpPool.supply /\ lpPool'.fees = f
  BY Zenon, <1>1, PoolRow
<1>3. Types'
  BY Zenon, <1>2 DEF LPInv, Types
<1>4. Open'
  BY Zenon, NothingOpen DEF Waiting
<1>5. Books'
  <2>1. LPHeld' = LPHeld
    BY Zenon, HeldIsSum
  <2> QED
    BY Zenon, <1>2, <2>1 DEF LPInv, Books, EscrowCoversClaims, TokensMatchSupply
<1>6. Moved'
  <2> DEFINE w == SumOver(lpWallet, Providers)
  <2>1. w \in Nat /\ SumOver(lpWallet, Providers)' = w
    BY Zenon, SumsTyped DEF LPInv
  <2> HIDE DEF w
  <2>2. Total' = w + c + traders' + treasury' /\ Total = w + lpPool.collateral + traders + treasury
    BY Zenon, <1>2, <2>1 DEF Total, w
  <2>3. Total' = Total
    BY <1>1, <2>1, <2>2
  <2> QED
    BY Zenon, <2>3 DEF LPInv, Moved
<1> QED
  BY Zenon, <1>3, <1>4, <1>5, <1>6 DEF LPInv

(* The smaller of two naturals is one of them.                             *)
LEMMA SmallerOfTwo ==
  ASSUME NEW a \in Nat, NEW b \in Nat
  PROVE  Min({a, b}) \in Nat /\ Min({a, b}) <= a /\ Min({a, b}) <= b
<1>1. \E x \in {a, b} : \A y \in {a, b} : x =< y
  OBVIOUS
<1> QED
  BY <1>1 DEF Min

(* Splits, merges and the fee sweep. *)
LEMMA WritersKeep ==
  ASSUME LPInv, ExitsAlone, SplitPairs \/ MergePairs \/ distribute_protocol_fees
  PROVE  LPInv'
<1>1. Waiting = {} /\ UNCHANGED <<lpTokens, lpWallet, marketRow, lpReq>>
  BY DEF SplitPairs, MergePairs, distribute_protocol_fees, Undisturbed
<1>2. /\ lpPool \in PoolRows /\ lpPool.collateral \in Nat /\ lpPool.supply \in Nat /\ lpPool.fees \in Nat
      /\ pairs \in Nat /\ traders \in Nat /\ treasury \in Nat /\ pairs + lpPool.fees <= lpPool.collateral
  BY Zenon DEF LPInv, Types, PoolRows, Books, EscrowCoversClaims
<1>3. Lot \in Nat /\ LotFee \in Nat /\ LotFee <= Lot
  BY LiquidityAssumption
<1>4. CASE SplitPairs
  <2> DEFINE c == lpPool.collateral + Lot
             f == lpPool.fees + LotFee
  <2>1. c \in Nat /\ f \in Nat /\ lpPool' = [lpPool EXCEPT !.collateral = c, !.fees = f]
    BY <1>2, <1>3, <1>4 DEF SplitPairs
  <2>2. /\ pairs' \in Nat /\ traders' \in Nat /\ treasury' \in Nat
        /\ c + traders' + treasury' = lpPool.collateral + traders + treasury /\ pairs' + f <= c
    BY <1>2, <1>3, <1>4 DEF SplitPairs
  <2> HIDE DEF c, f
  <2>3. lpPool' = [collateral |-> c, supply |-> lpPool.supply, fees |-> f]
    BY Zenon, <1>2, <2>1, PoolWritten
  <2> QED
    BY Zenon, <1>1, <2>1, <2>2, <2>3, PoolMoved
<1>5. CASE MergePairs
  <2> DEFINE c == lpPool.collateral - (Lot - LotFee)
             f == lpPool.fees + LotFee
  <2>1. c \in Nat /\ f \in Nat /\ lpPool' = [lpPool EXCEPT !.collateral = c, !.fees = f]
    BY <1>2, <1>3, <1>5 DEF MergePairs
  <2>2. /\ pairs' \in Nat /\ traders' \in Nat /\ treasury' \in Nat
        /\ c + traders' + treasury' = lpPool.collateral + traders + treasury /\ pairs' + f <= c
    BY <1>2, <1>3, <1>5 DEF MergePairs
  <2> HIDE DEF c, f
  <2>3. lpPool' = [collateral |-> c, supply |-> lpPool.supply, fees |-> f]
    BY Zenon, <1>2, <2>1, PoolWritten
  <2> QED
    BY Zenon, <1>1, <2>1, <2>2, <2>3, PoolMoved
<1>6. CASE distribute_protocol_fees
  <2> DEFINE m == Min({lpPool.fees, lpPool.collateral})
             c == lpPool.collateral - m
             f == lpPool.fees - m
  <2>0. m \in Nat /\ m <= lpPool.fees /\ m <= lpPool.collateral
    BY Zenon, <1>2, SmallerOfTwo
  <2>a. /\ treasury' = treasury + m /\ UNCHANGED <<pairs, traders>>
        /\ lpPool' = [lpPool EXCEPT !.collateral = c, !.fees = f]
    BY <1>6 DEF distribute_protocol_fees
  <2> HIDE DEF m
  <2>1. c \in Nat /\ f \in Nat
    BY <1>2, <2>0
  <2>2. /\ pairs' \in Nat /\ traders' \in Nat /\ treasury' \in Nat
        /\ c + traders' + treasury' = lpPool.collateral + traders + treasury /\ pairs' + f <= c
    BY <1>2, <2>0, <2>a
  <2> HIDE DEF c, f
  <2>3. lpPool' = [collateral |-> c, supply |-> lpPool.supply, fees |-> f]
    BY Zenon, <1>2, <2>a, <2>1, PoolWritten
  <2> QED
    BY Zenon, <1>1, <2>1, <2>2, <2>3, PoolMoved
<1> QED
  BY <1>4, <1>5, <1>6

(* Resolving the market keeps the invariant.                               *)
LEMMA ResolveKeeps ==
  ASSUME LPInv, Resolve
  PROVE  LPInv'
<1>1. UNCHANGED <<lpPool, lpTokens, lpWallet, pairs, traders, treasury, lpReq>> /\ Waiting' = Waiting
  BY DEF Resolve, lpLedger, Waiting
<1>2. /\ marketRow.status = "active" /\ marketRow'.status = "resolving" /\ marketRow'.holder = marketRow.holder
      /\ marketRow' \in [status : {"active", "resolving", "resolved"}, holder : Providers \cup {Free}]
  BY DEF Resolve, LPInv, Types
<1>3. Types'
  BY Zenon, <1>1, <1>2 DEF LPInv, Types
<1>4. Open'
  BY Zenon, <1>1, <1>2 DEF LPInv, Open, OneRequest, SeenIsCurrent, AddsWhole, PricedIsCovered, Minted
<1>5. Books' /\ Moved'
  <2>1. LPHeld' = LPHeld
    BY Zenon, <1>1, HeldIsSum
  <2> QED
    BY Zenon, <1>1, <1>2, <2>1 DEF LPInv, Books, EscrowCoversClaims, TokensMatchSupply, Moved, Total
<1> QED
  BY <1>3, <1>4, <1>5 DEF LPInv

(* The shares of the LPs add up to what is left for them, when there are   *)
(* tokens at all.                                                          *)
LEMMA SharesAddUp ==
  ASSUME Types, LPRest \in Nat, LPHeld = lpPool.supply,
         \A p \in Providers : Divides(lpPool.supply, LPRest * lpTokens[p]) \/ lpPool.supply = 0
  PROVE  /\ \A p \in Providers : LPShare[p] \in Nat
         /\ LPShared \in Nat
         /\ LPShared = IF lpPool.supply = 0 THEN 0 ELSE LPRest
<1> DEFINE s == lpPool.supply
           r == LPRest
<1>1. s \in Nat /\ r \in Nat /\ \A p \in Providers : lpTokens[p] \in Nat
  BY Zenon DEF Types, PoolRows
<1>2. IsFiniteSet(Providers)
  BY Zenon, LiquidityAssumption
<1>3. CASE s = 0
  <2>1. \A p \in Providers : LPShare[p] = 0
    BY Zenon, <1>3 DEF LPShare
  <2>2. SumOver(LPShare, Providers) = 0 * Cardinality(Providers)
    BY <1>2, <2>1, SumConstant
  <2>3. Cardinality(Providers) \in Nat
    BY Zenon, <1>2, FS_CardinalityType
  <2> QED
    BY <1>3, <2>1, <2>2, <2>3, HeldIsSum
<1>4. CASE s # 0
  <2>1. ASSUME NEW p \in Providers PROVE LPShare[p] \in Nat /\ s * LPShare[p] = r * lpTokens[p]
    <3>1. r * lpTokens[p] \in Nat /\ (r * lpTokens[p]) % s = 0
      BY Zenon, <1>1, <1>4, ProductNat DEF Divides
    <3>2. LPShare[p] = (r * lpTokens[p]) \div s
      BY Zenon, <1>4 DEF LPShare
    <3>3. (r * lpTokens[p]) \div s \in Nat /\ ((r * lpTokens[p]) \div s) * s = r * lpTokens[p]
      BY <1>1, <1>4, <3>1, ExactDivision
    <3> QED
      BY <1>1, <3>2, <3>3
  <2> DEFINE h == [p \in Providers |-> r * lpTokens[p]]
  <2>2. \A p \in Providers : lpTokens[p] \in Int /\ h[p] = r * lpTokens[p]
    BY <1>1
  <2>3. \A p \in Providers : LPShare[p] \in Int /\ h[p] = s * LPShare[p]
    BY <2>1
  <2>4. \A p \in Providers : LPShare[p] \in Nat
    BY Zenon, <2>1
  <2> HIDE DEF h, s, r
  <2>5. SumOver(h, Providers) = r * SumOver(lpTokens, Providers)
    BY <1>1, <1>2, <2>2, SumTimes
  <2>6. SumOver(h, Providers) = s * SumOver(LPShare, Providers)
    BY <1>1, <1>2, <2>3, SumTimes
  <2>7. SumOver(LPShare, Providers) \in Nat
    BY Zenon, <1>2, <2>4, SumNat
  <2>8. SumOver(lpTokens, Providers) = s
    BY Zenon, HeldIsSum DEF s
  <2>9. s * SumOver(LPShare, Providers) = s * r
    BY <1>1, <2>5, <2>6, <2>8
  <2>10. s > 0
    BY <1>1, <1>4
  <2>11. SumOver(LPShare, Providers) = r
    BY <1>1, <2>7, <2>9, <2>10, CancelFactor
  <2> QED
    BY Zenon, <1>4, <2>4, <2>7, <2>11, HeldIsSum DEF s, r
<1> QED
  BY Zenon, <1>3, <1>4

(* The settlement empties the escrow to winners, treasury and LPs. *)
LEMMA SettleKeeps ==
  ASSUME LPInv, ExitsAlone, SettlePool
  PROVE  LPInv'
<1> DEFINE c == LPRest - LPShared
           w == SumOver(lpWallet, Providers)
<1>1. /\ Types /\ lpPool \in PoolRows /\ lpPool.collateral \in Nat /\ lpPool.supply \in Nat
      /\ lpPool.fees \in Nat /\ pairs \in Nat /\ traders \in Nat /\ treasury \in Nat
      /\ lpTokens \in [Providers -> Nat] /\ lpWallet \in [Providers -> Nat]
  BY Zenon DEF LPInv, Types, PoolRows
<1>2. /\ Waiting = {} /\ marketRow.status = "resolving" /\ LPRest >= 0
      /\ \A p \in Providers : Divides(lpPool.supply, LPRest * lpTokens[p]) \/ lpPool.supply = 0
      /\ traders' = traders + pairs /\ pairs' = 0 /\ treasury' = treasury + lpPool.fees
      /\ lpWallet' = [p \in Providers |-> lpWallet[p] + LPShare[p]]
      /\ lpTokens' = [p \in Providers |-> IF LPShare[p] > 0 THEN 0 ELSE lpTokens[p]]
      /\ lpPool' = [lpPool EXCEPT !.collateral = c, !.fees = 0]
      /\ marketRow' = [marketRow EXCEPT !.status = "resolved"] /\ lpReq' = lpReq
  BY DEF SettlePool, Undisturbed
<1>3. LPRest \in Nat /\ LPRest = lpPool.collateral - pairs - lpPool.fees
  BY <1>1, <1>2 DEF LPRest
<1>4. LPHeld = lpPool.supply
  BY <1>2 DEF LPInv, Books, TokensMatchSupply
<1>5. /\ \A p \in Providers : LPShare[p] \in Nat
      /\ LPShared \in Nat /\ LPShared <= LPRest
  BY <1>1, <1>2, <1>3, <1>4, SharesAddUp
<1>6. c \in Nat
  BY <1>3, <1>5
<1>7. lpPool' = [collateral |-> c, supply |-> lpPool.supply, fees |-> 0] /\ lpPool' \in PoolRows
  <2>1. lpPool' = [collateral |-> c, supply |-> lpPool.supply, fees |-> 0]
    BY Zenon, <1>1, <1>2, <1>6, PoolWritten
  <2> HIDE DEF c
  <2> QED
    BY Zenon, <1>1, <1>6, <2>1, PoolRow
<1>8. lpTokens' \in [Providers -> Nat] /\ \A p \in Providers : lpTokens'[p] <= lpTokens[p]
  BY <1>1, <1>2, <1>5
<1>9. lpWallet' \in [Providers -> Nat] /\ \A p \in Providers : lpWallet'[p] = lpWallet[p] + LPShare[p]
  BY <1>1, <1>2, <1>5
<1>10. /\ marketRow'.status = "resolved"
       /\ marketRow' \in [status : {"active", "resolving", "resolved"}, holder : Providers \cup {Free}]
  BY <1>2 DEF LPInv, Types
<1>11. Types'
  <2>1. pairs' \in Nat /\ traders' \in Nat /\ treasury' \in Nat
    BY <1>1, <1>2
  <2> QED
    BY <1>2, <1>7, <1>8, <1>9, <1>10, <2>1 DEF LPInv, Types
<1>12. Open'
  BY <1>2, NothingOpen DEF Waiting
<1>13. Books'
  <2>1. SumOver(lpTokens', Providers) <= SumOver(lpTokens, Providers)
    BY <1>1, <1>8, LiquidityAssumption, SumMonotone
  <2>2. LPHeld' <= lpPool'.supply
    BY Zenon, <1>4, <1>7, <2>1, HeldIsSum
  <2>3. EscrowCoversClaims'
    BY <1>2, <1>6, <1>7 DEF EscrowCoversClaims
  <2> QED
    BY <1>10, <2>2, <2>3 DEF Books, TokensMatchSupply
<1>14. Moved'
  <2>1. SumOver(lpWallet', Providers) = w + LPShared
    BY <1>1, <1>5, <1>9, LiquidityAssumption, SumPlus, HeldIsSum
  <2>2. w \in Nat
    BY <1>1, SumsTyped
  <2> HIDE DEF w
  <2>3. Total' = w + LPShared + (LPRest - LPShared) + (traders + pairs) + (treasury + lpPool.fees)
    BY <1>2, <1>7, <2>1 DEF Total
  <2>4. Total = w + lpPool.collateral + traders + treasury
    BY DEF Total, w
  <2>5. Total' = Total
    BY <1>1, <1>3, <1>5, <2>2, <2>3, <2>4
  <2> QED
    BY <2>5 DEF LPInv, Moved
<1> QED
  BY <1>11, <1>12, <1>13, <1>14 DEF LPInv

-----------------------------------------------------------------------------
(* The invariant *)

(* The seeded pool satisfies the invariant.                                *)
LEMMA LPInvInit == LiquidityInit => LPInv
<1> SUFFICES ASSUME LiquidityInit PROVE LPInv
  OBVIOUS
<1>1. /\ IsFiniteSet(Providers) /\ Creator \in Providers /\ Seed \in Nat /\ Purse \in Nat
  BY LiquidityAssumption
<1>2. /\ lpTokens \in [Providers -> Nat] /\ lpTokens[Creator] = 2 * Seed
      /\ \A p \in Providers : p # Creator => lpTokens[p] = 0
  BY <1>1 DEF LiquidityInit
<1>3. /\ lpWallet \in [Providers -> Nat] /\ lpWallet[Creator] = 0
      /\ \A p \in Providers : p # Creator => lpWallet[p] = Purse
  BY Zenon, <1>1 DEF LiquidityInit
<1>4. /\ lpPool \in PoolRows /\ lpPool.collateral = Seed /\ lpPool.supply = 2 * Seed /\ lpPool.fees = 0
      /\ pairs = 0 /\ traders = Purse /\ treasury = 0
  BY <1>1 DEF LiquidityInit, PoolRows
<1>5. lpReq \in [Providers -> ReqRows] /\ \A p \in Providers : lpReq[p].at = "none"
  BY Zenon, NoRequestRow DEF LiquidityInit
<1>6. /\ marketRow.status = "active"
      /\ marketRow \in [status : {"active", "resolving", "resolved"}, holder : Providers \cup {Free}]
  BY Zenon DEF LiquidityInit
<1>7. Types
  BY Zenon, <1>1, <1>2, <1>3, <1>4, <1>5, <1>6 DEF Types
<1>8. Open
  BY Zenon, <1>5, <1>6 DEF Open, OneRequest, SeenIsCurrent, AddsWhole, PricedIsCovered, Waiting
<1>9. Books
  <2> DEFINE z == [p \in Providers |-> 0]
  <2>1. SumOver(z, Providers) = 0 * Cardinality(Providers)
    BY <1>1, SumConstant
  <2>2. \A p \in Providers : z[p] = 0
    OBVIOUS
  <2>3. Cardinality(Providers) \in Nat
    BY <1>1, FS_CardinalityType
  <2> HIDE DEF z
  <2>4. \A p \in Providers : z[p] \in Int
    BY <2>2
  <2>5. lpTokens[Creator] \in Int /\ \A p \in Providers : p # Creator => lpTokens[p] = z[p]
    BY <1>1, <1>2, <2>2
  <2>6. SumOver(lpTokens, Providers) = SumOver(z, Providers) + lpTokens[Creator] - z[Creator]
    BY <1>1, <2>4, <2>5, SumUpdate
  <2>7. SumOver(lpTokens, Providers) = 2 * Seed
    BY <1>1, <1>2, <2>1, <2>2, <2>3, <2>6
  <2> QED
    BY <1>1, <1>4, <1>6, <2>7, HeldIsSum DEF Books, EscrowCoversClaims, TokensMatchSupply
<1>10. Moved
  <2> DEFINE z == [p \in Providers |-> Purse]
             k == Purse * Cardinality(Providers)
  <2>1. SumOver(z, Providers) = k
    BY <1>1, SumConstant
  <2>2. \A p \in Providers : z[p] = Purse
    OBVIOUS
  <2>3. Cardinality(Providers) \in Nat
    BY <1>1, FS_CardinalityType
  <2>4. k \in Nat
    BY <1>1, <2>3, ProductNat
  <2> HIDE DEF z, k
  <2>5. \A p \in Providers : z[p] \in Int
    BY <1>1, <2>2
  <2>6. lpWallet[Creator] \in Int /\ \A p \in Providers : p # Creator => lpWallet[p] = z[p]
    BY <1>3, <2>2
  <2>7. SumOver(lpWallet, Providers) = SumOver(z, Providers) + lpWallet[Creator] - z[Creator]
    BY <1>1, <2>5, <2>6, SumUpdate
  <2>8. SumOver(lpWallet, Providers) = k - Purse
    BY <1>1, <1>3, <2>1, <2>2, <2>4, <2>7
  <2>9. SumOver(lpWallet, Providers) + lpPool.collateral + traders + treasury = Seed + k
    BY <1>1, <1>4, <2>4, <2>8
  <2> QED
    BY <2>9 DEF Moved, Total, k
<1> QED
  BY <1>7, <1>8, <1>9, <1>10 DEF LPInv

(* Every step keeps the invariant, when exits come one at a time.          *)
LEMMA LPInvStep ==
  ASSUME LPInv, ExitsAlone, [LiquidityNext]_lpVars
  PROVE  LPInv'
<1>1. CASE UNCHANGED lpVars
  <2>1. UNCHANGED <<lpPool, lpTokens, lpWallet, pairs, traders, treasury, marketRow, lpReq>>
    BY Zenon, <1>1 DEF lpVars
  <2>2. LPHeld' = LPHeld
    BY Zenon, <2>1, HeldIsSum
  <2> QED
    BY Zenon, <2>1, <2>2 DEF LPInv, Types, Open, OneRequest, SeenIsCurrent, AddsWhole, PricedIsCovered, Minted,
         Waiting, Books, EscrowCoversClaims, TokensMatchSupply, Moved, Total
<1>2. ASSUME NEW p \in Providers, NEW n \in Deposits, AddRead(p, n) PROVE LPInv'
  BY Zenon, <1>2, RequestRead, LiquidityAssumption
<1>3. ASSUME NEW p \in Providers, NEW n \in Exits, RemoveRead(p, n) PROVE LPInv'
  BY Zenon, <1>3, RequestRead, LiquidityAssumption
<1>4. ASSUME NEW p \in Providers, AddRefused(p) \/ RemoveRefused(p) \/ RemoveAborted(p) PROVE LPInv'
  <2>1. p \in Waiting /\ ReqDone(p) /\ UNCHANGED lpLedger /\ (ReleaseRow \/ UNCHANGED marketRow)
    BY Zenon, <1>4 DEF AddRefused, RemoveRefused, RemoveAborted, Waiting
  <2> QED
    BY Zenon, <2>1, RequestDropped
<1>5. ASSUME NEW p \in Providers, AddCommit(p) \/ RemovePrice(p) \/ RemoveCommit(p) PROVE LPInv'
  BY Zenon, <1>5, AddCommitKeeps, RemovePriceKeeps, RemoveCommitKeeps
<1>6. CASE SplitPairs \/ MergePairs \/ distribute_protocol_fees
  BY <1>6, WritersKeep
<1>7. CASE Resolve
  BY <1>7, ResolveKeeps
<1>8. CASE SettlePool
  BY <1>8, SettleKeeps
<1> QED
  BY Zenon, <1>1, <1>2, <1>3, <1>4, <1>5, <1>6, <1>7, <1>8 DEF LiquidityNext

(* The invariant holds in every reachable state.                           *)
LEMMA LPInvAlways == ASSUME ExitsAlone PROVE LiquiditySpec => []LPInv
<1>1. LPInv /\ [LiquidityNext]_lpVars => LPInv'
  BY LPInvStep
<1> QED
  BY <1>1, LPInvInit, PTL DEF LiquiditySpec

(* The escrow floor of remove_liquidity holds against every mix of         *)
(* requests, splits, merges and fee sweeps that does not overlap with a    *)
(* removal: the escrow covers the open shares and the fees.                *)
THEOREM EscrowCovered == ASSUME ExitsAlone PROVE LiquiditySpec => []EscrowCoversClaims
<1>1. LPInv => EscrowCoversClaims
  BY DEF LPInv, Books
<1> QED
  BY <1>1, LPInvAlways, PTL

(* The tokens the LPs hold add up to the supply the pool records: what     *)
(* settle_market divides by is what it multiplies with.                    *)
THEOREM TokensAreSupply == ASSUME ExitsAlone PROVE LiquiditySpec => []TokensMatchSupply
<1>1. LPInv => TokensMatchSupply
  BY DEF LPInv, Books
<1> QED
  BY <1>1, LPInvAlways, PTL

(* No wallet, escrow or token balance is ever negative. *)
THEOREM LiquidityTyped == ASSUME ExitsAlone PROVE LiquiditySpec => []LiquidityTypeOK
<1>1. LPInv => LiquidityTypeOK
  BY Zenon DEF LPInv, Types, PoolRows, ReqRows, LiquidityTypeOK
<1> QED
  BY <1>1, LPInvAlways, PTL

(* Exits that do not overlap conjure no dollars: the run that refutes      *)
(* NoDollarsConjured needs two requests at a time.                         *)
THEOREM NothingConjuredAlone == ASSUME ExitsAlone PROVE LiquiditySpec => []NoDollarsConjured
<1>1. LPInv => NoDollarsConjured
  <2> SUFFICES ASSUME LPInv PROVE NoDollarsConjured
    OBVIOUS
  <2>1. IsFiniteSet(Providers) /\ Seed \in Nat /\ Purse \in Nat /\ Cardinality(Providers) \in Nat
    BY LiquidityAssumption, FS_CardinalityType
  <2>2. Purse * Cardinality(Providers) \in Nat
    BY <2>1, ProductNat
  <2>3. Total <= Seed + Purse * Cardinality(Providers)
    BY <2>1, <2>2 DEF LPInv, Moved
  <2> QED
    BY <2>3, HeldIsSum
<1> QED
  BY <1>1, LPInvAlways, PTL

-----------------------------------------------------------------------------
(* Claims *)

SameClaim(p) ==
  lpTokens[p] * lpPool.collateral * lpPool'.supply = lpTokens[p] * lpPool'.collateral * lpPool.supply

(* With no supply on record no LP holds a token. *)
LEMMA NoSupplyNoTokens ==
  ASSUME LPInv, marketRow.status # "resolved", lpPool.supply = 0, NEW p \in Providers
  PROVE  lpTokens[p] = 0
<1>1. lpTokens \in [Providers -> Nat] /\ SumOver(lpTokens, Providers) = 0
  BY Zenon, HeldIsSum DEF LPInv, Types, Books, TokensMatchSupply
<1>2. lpTokens[p] <= SumOver(lpTokens, Providers)
  BY Zenon, <1>1, LiquidityAssumption, SumMember
<1> QED
  BY <1>1, <1>2

(* A provider who joins at the price of the pool leaves the claim of the   *)
(* others alone.                                                           *)
LEMMA AddKeepsClaims ==
  ASSUME LPInv, NEW q \in Providers, AddCommit(q), NEW p \in Providers
  PROVE  SameClaim(p)
<1> DEFINE n == lpReq[q].amount
           m == Minted(lpPool, n)
           c == lpPool.collateral
           s == lpPool.supply
           t == lpTokens[p]
<1>1. q \in Waiting /\ lpReq[q].at = "add" /\ lpReq[q].seen = lpPool /\ marketRow.status # "resolved"
  BY DEF AddCommit, Waiting, LPInv, Open, SeenIsCurrent, OneRequest
<1>2. n \in Nat /\ c \in Nat /\ s \in Nat /\ t \in Nat /\ lpPool \in PoolRows
  BY Zenon DEF LPInv, Types, ReqRows, PoolRows
<1>3. (s > 0 => c > 0) /\ lpPool' = [lpPool EXCEPT !.collateral = c + n, !.supply = s + m]
  BY <1>1 DEF AddCommit
<1>4. lpPool'.collateral = c + n /\ lpPool'.supply = s + m
  BY <1>2, <1>3 DEF PoolRows
<1>5. CASE s > 0
  <2>1. m * c = n * s
    BY <1>1, <1>3, <1>5 DEF LPInv, Open, AddsWhole
  <2>2. n * s \in Nat
    BY Zenon, <1>2, ProductNat
  <2>3. m \in Int
    BY <1>2, <1>3, <1>5, <2>2 DEF Minted
  <2> HIDE DEF n, m, c, s, t
  <2>4. t * c * (s + m) = t * (c + n) * s
    BY <1>2, <2>1, <2>3, PriceKept
  <2> QED
    BY Zenon, <1>4, <2>4 DEF SameClaim, c, s, t
<1>6. CASE s = 0
  <2>1. t = 0
    BY Zenon, <1>1, <1>6, NoSupplyNoTokens
  <2>2. m \in Nat
    BY <1>2, <1>6 DEF Minted
  <2> HIDE DEF n, m, c, s, t
  <2>3. \A x \in Int : 0 * x = 0
    OBVIOUS
  <2>4. t * c = 0 /\ t * (c + n) = 0 /\ s + m \in Int
    BY <1>2, <2>1, <2>2, <2>3
  <2>5. t * c * (s + m) = t * (c + n) * s
    BY <1>2, <2>3, <2>4
  <2> QED
    BY <1>4, <2>5 DEF SameClaim, c, s, t
<1> QED
  BY <1>2, <1>5, <1>6

(* A provider who leaves at the price of the pool leaves the claim of the  *)
(* others alone.                                                           *)
LEMMA RemoveKeepsClaims ==
  ASSUME LPInv, NEW q \in Providers, RemoveCommit(q), NEW p \in Providers
  PROVE  SameClaim(p)
<1> DEFINE m == lpReq[q].amount
           n == lpReq[q].paid
           c == lpPool.collateral
           s == lpPool.supply
           t == lpTokens[p]
<1>1. lpReq[q].at = "priced" /\ lpReq[q].seen = lpPool
  BY DEF RemoveCommit, Waiting, LPInv, Open, SeenIsCurrent
<1>2. n \in Nat /\ m \in Nat /\ c \in Nat /\ s \in Nat /\ t \in Nat /\ lpPool \in PoolRows
  BY Zenon DEF LPInv, Types, ReqRows, PoolRows
<1>3. lpPool' = [lpPool EXCEPT !.collateral = c - n, !.supply = s - m]
  BY <1>1 DEF RemoveCommit, Burned
<1>4. lpPool'.collateral = c - n /\ lpPool'.supply = s - m
  BY <1>2, <1>3 DEF PoolRows
<1>5. n * s = c * m
  BY Zenon, <1>1 DEF LPInv, Open, PricedIsCovered
<1> HIDE DEF n, m, c, s, t
<1>6. m * c = n * s
  BY <1>2, <1>5
<1>7. t * c * (s - m) = t * (c - n) * s
  BY <1>2, <1>6, PriceKept
<1> QED
  BY Zenon, <1>4, <1>7 DEF SameClaim, c, s, t

(* No step that changes the token supply changes the claim of a bystander. *)
LEMMA ClaimsStep ==
  ASSUME LPInv, [LiquidityNext]_lpVars, lpPool'.supply # lpPool.supply, NEW p \in Providers
  PROVE  SameClaim(p)
<1>1. lpPool \in PoolRows
  BY Zenon DEF LPInv, Types
<1>2. ~UNCHANGED lpVars /\ ~UNCHANGED lpLedger
  BY Zenon DEF lpVars, lpLedger
<1>3. ~SplitPairs /\ ~MergePairs /\ ~distribute_protocol_fees /\ ~SettlePool
  BY Zenon, <1>1 DEF SplitPairs, MergePairs, distribute_protocol_fees, SettlePool, PoolRows
<1>4. ~Resolve /\ \A q \in Providers : /\ \A n : ~AddRead(q, n) /\ ~RemoveRead(q, n)
                                       /\ ~AddRefused(q) /\ ~RemoveRefused(q)
                                       /\ ~RemovePrice(q) /\ ~RemoveAborted(q)
  BY Zenon, <1>2 DEF Resolve, AddRead, RemoveRead, AddRefused, RemoveRefused, RemovePrice, RemoveAborted
<1>5. \E q \in Providers : AddCommit(q) \/ RemoveCommit(q)
  BY Zenon, <1>2, <1>3, <1>4 DEF LiquidityNext
<1> QED
  BY Zenon, <1>5, AddKeepsClaims, RemoveKeepsClaims

(* Joining and leaving are priced off the escrow: no other LP's share of   *)
(* it changes.                                                             *)
THEOREM ClaimsUndiluted == ASSUME ExitsAlone PROVE LiquiditySpec => OthersKeepTheirClaim
<1> DEFINE Kept == lpPool'.supply # lpPool.supply =>
       \A p \in Providers : lpTokens'[p] = lpTokens[p] =>
         lpTokens[p] * lpPool.collateral * lpPool'.supply
           = lpTokens[p] * lpPool'.collateral * lpPool.supply
<1>1. LPInv /\ [LiquidityNext]_lpVars => [Kept]_lpVars
  BY Zenon, ClaimsStep DEF SameClaim
<1>2. OthersKeepTheirClaim <=> [][Kept]_lpVars
  BY DEF OthersKeepTheirClaim
<1> QED
  BY <1>1, <1>2, LPInvAlways, PTL DEF LiquiditySpec

=============================================================================
