----------------------------- MODULE Settlement -----------------------------
(***************************************************************************)
(* Resolution of one market with one pool: the admin's resolve call, the   *)
(* dispute flow, the closing task, the Celery task resolve_market with its *)
(* Redis lock, completion marker, retries and redelivery, settle_market    *)
(* and the claims of single winners.                                       *)
(*                                                                         *)
(* A step is what runs between two points where another process can act: a *)
(* commit, a Redis call, a send to the broker.  row is the holder of the   *)
(* market row's lock where it spans steps.  settle_market and              *)
(* claim_winnings lock the pool before they read a position, so each pays  *)
(* in one step.  Trading has stopped when a market is resolved: what a     *)
(* position holds is the constant Shares.  How the residual is divided     *)
(* among the LPs is the subject of LPRedemption.                           *)
(***************************************************************************)
EXTENDS Integers, FiniteSets, FiniteSetsExt

CONSTANTS
  Users, Outcomes, Workers, Disputes,
  Shares,       \* the shares of each position at resolution
  Collateral0,  \* the escrow at resolution
  Fees0,        \* the protocol fees recorded inside it
  MaxRetries,   \* max_retries of resolve_market
  None,
  MaxTasks,     \* bound: settlement tasks sent
  MaxFaults     \* bound: crashes, outages and failed sends

Positions == Users \X Outcomes

ASSUME SettlementAssumption ==
  /\ IsFiniteSet(Users) /\ IsFiniteSet(Outcomes)
  /\ Shares \in [Positions -> Nat]
  /\ Collateral0 \in Nat /\ Fees0 \in 0..Collateral0
  /\ MaxRetries \in Nat /\ MaxTasks \in Nat /\ MaxFaults \in Nat
  /\ None \notin Workers /\ None \notin Outcomes

VARIABLES
  market,    \* the market row: status, winning and proposed outcome
  row,       \* "free", or the call that holds the market row
  intent,    \* the outcome the resolve call is about to record
  listed,    \* the closing task has listed this market
  proposing, \* the outcome propose_resolution is about to record
  disputes,  \* the status of each dispute
  ruled,     \* disputes upheld whose market has not been touched yet
  escrow,    \* the pool: collateral, fees; and what treasury and LPs got
  settled,   \* positions with settled_at
  credited,  \* what each position has paid
  claim,     \* the winning outcome each user's claim has read
  keys,      \* Redis: done, lock, dedup, api
  queue,     \* tasks waiting for a worker
  worker,    \* each worker's place and task
  sent, faults

rows == <<market, row, intent, listed, proposing, disputes, ruled>>
ledger == <<escrow, settled, credited>>
celery == <<keys, queue, worker, sent>>
vars == <<rows, ledger, claim, celery, faults>>

Statuses == {"active", "closed", "dispute_window", "resolving", "resolved"}

Tasks == [id : 1..MaxTasks, outcome : Outcomes, tries : 0..MaxRetries]

OwedTo(S) == MapThenSumSet(LAMBDA p : Shares[p], S)

Fault == faults < MaxFaults /\ faults' = faults + 1

(* apply_async: a task for outcome o reaches the broker. *)
Send(o) ==
  /\ sent < MaxTasks
  /\ sent' = sent + 1
  /\ queue' = queue \cup {[id |-> sent + 1, outcome |-> o, tries |-> 0]}

-----------------------------------------------------------------------------
(* POST /markets/{slug}/resolve *)

(* The row lock, the API lock, the dedup key and the task, in that order.  *)
(* A refusal, and a send that fails, put back what they took.              *)
ResolveSend(o) ==
  /\ row = "free"
  /\ market.status \notin {"resolving", "resolved"}
  /\ ~keys.api /\ ~keys.dedup
  /\ Send(o)
  /\ keys' = [keys EXCEPT !.api = TRUE, !.dedup = TRUE]
  /\ row' = "resolve" /\ intent' = o
  /\ UNCHANGED <<market, listed, proposing, disputes, ruled, ledger, claim, worker, faults>>

ResolveCommit ==
  /\ row = "resolve"
  /\ market' = [market EXCEPT !.status = "resolving", !.winning = intent]
  /\ row' = "free" /\ intent' = None
  /\ keys' = [keys EXCEPT !.api = FALSE]
  /\ UNCHANGED <<listed, proposing, disputes, ruled, ledger, claim, queue, worker, sent, faults>>

(* The pod dies between the send and the commit. *)
ResolveCrash ==
  /\ row = "resolve" /\ Fault
  /\ row' = "free" /\ intent' = None
  /\ UNCHANGED <<market, listed, proposing, disputes, ruled, ledger, claim, celery>>

-----------------------------------------------------------------------------
(* check_markets_ready_to_resolve and propose_resolution: read, then write *)
(* the columns they changed, with no lock on the row in between.           *)

CloseList ==
  /\ market.status = "active" /\ market.winning = None
  /\ ~listed /\ listed' = TRUE
  /\ UNCHANGED <<market, row, intent, proposing, disputes, ruled, ledger, claim, celery, faults>>

CloseCommit ==
  /\ listed /\ row = "free"
  /\ market' = [market EXCEPT !.status = "closed"]
  /\ listed' = FALSE
  /\ UNCHANGED <<row, intent, proposing, disputes, ruled, ledger, claim, celery, faults>>

ProposeRead(o) ==
  /\ market.status = "active"
  /\ proposing = None /\ proposing' = o
  /\ UNCHANGED <<market, row, intent, listed, disputes, ruled, ledger, claim, celery, faults>>

ProposeCommit ==
  /\ proposing # None /\ row = "free"
  /\ market' = [market EXCEPT !.status = "dispute_window", !.proposed = proposing]
  /\ proposing' = None
  /\ UNCHANGED <<row, intent, listed, disputes, ruled, ledger, claim, celery, faults>>

-----------------------------------------------------------------------------
(* Disputes *)

CreateDispute(d) ==
  /\ disputes[d] = "none" /\ row = "free"
  /\ market.status \in {"resolving", "resolved", "dispute_window"}
  /\ disputes' = [disputes EXCEPT ![d] = "open"]
  /\ market' = [market EXCEPT !.status = "dispute_window"]
  /\ UNCHANGED <<row, intent, listed, proposing, ruled, ledger, claim, celery, faults>>

(* adjudicate_dispute commits its ruling before it turns to the market. *)
Adjudicate(d, ruling) ==
  /\ disputes[d] = "open"
  /\ disputes' = [disputes EXCEPT ![d] = ruling]
  /\ ruled' = IF ruling = "upheld" THEN ruled \cup {d} ELSE ruled
  /\ UNCHANGED <<market, row, intent, listed, proposing, ledger, claim, celery, faults>>

(* With nothing proposed the market is left alone. *)
AdjudicateSend(d) ==
  /\ d \in ruled /\ row = "free"
  /\ ruled' = ruled \ {d}
  /\ IF market.proposed = None
       THEN UNCHANGED <<row, queue, sent>>
       ELSE Send(market.proposed) /\ row' = "adjudicate"
  /\ UNCHANGED <<market, intent, listed, proposing, disputes, ledger, claim, keys, worker, faults>>

(* The broker is down: 503, and the market half of the ruling is undone. *)
AdjudicateSendFails(d) ==
  /\ d \in ruled /\ row = "free" /\ market.proposed # None
  /\ Fault
  /\ ruled' = ruled \ {d}
  /\ UNCHANGED <<market, row, intent, listed, proposing, disputes, ledger, claim, celery>>

AdjudicateCommit ==
  /\ row = "adjudicate"
  /\ market' = [market EXCEPT !.status = "resolved", !.winning = market.proposed]
  /\ row' = "free"
  /\ UNCHANGED <<intent, listed, proposing, disputes, ruled, ledger, claim, celery, faults>>

(* The pod dies between the send and the commit. *)
AdjudicateCrash ==
  /\ row = "adjudicate" /\ Fault
  /\ row' = "free"
  /\ UNCHANGED <<market, intent, listed, proposing, disputes, ruled, ledger, claim, celery>>

-----------------------------------------------------------------------------
(* Paying out of the escrow *)

(* Mutant of Unsettled: the filter on settled_at is gone. *)
EveryPosition == Positions

Unsettled == Positions \ settled

(* Mutant of Covers: nobody looks at the escrow. *)
CoversAnything(amount) == TRUE

Covers(amount) == amount <= escrow.collateral

(* Mutant of Debit: the wallet is credited and the escrow keeps its money. *)
DebitNothing(pool, amount) == pool

(* debit_collateral *)
Debit(pool, amount) == [pool EXCEPT !.collateral = @ - amount]

(* POST /markets/{slug}/claim reads the market without a lock... *)
ClaimRead(u) ==
  /\ claim[u] = None
  /\ market.status \in {"resolving", "resolved"} /\ market.winning # None
  /\ claim' = [claim EXCEPT ![u] = market.winning]
  /\ UNCHANGED <<rows, ledger, celery, faults>>

(* ... and pays the position it then locks, in full or not at all. *)
ClaimPay(u) ==
  LET p == <<u, claim[u]>> IN
  /\ claim[u] # None
  /\ claim' = [claim EXCEPT ![u] = None]
  /\ IF p \in Unsettled /\ Shares[p] > 0 /\ Covers(Shares[p])
       THEN /\ settled' = settled \cup {p}
            /\ credited' = [credited EXCEPT ![p] = @ + Shares[p]]
            /\ escrow' = Debit(escrow, Shares[p])
       ELSE UNCHANGED ledger
  /\ UNCHANGED <<rows, celery, faults>>

-----------------------------------------------------------------------------
(* The Celery task resolve_market *)

(* Another holder of the lock: the task returns, and is acknowledged. *)
TakeTask(w, t) ==
  /\ worker[w].at = "idle" /\ t \in queue
  /\ queue' = queue \ {t}
  /\ IF keys.lock = None
       THEN /\ keys' = [keys EXCEPT !.lock = w]
            /\ worker' = [worker EXCEPT ![w] = [at |-> "marker", task |-> {t}]]
       ELSE UNCHANGED <<keys, worker>>
  /\ UNCHANGED <<rows, ledger, claim, sent, faults>>

Goto(w, place) == worker' = [worker EXCEPT ![w].at = place]

(* Mutant of CheckMarker: the marker is written when the work starts. *)
CheckMarkerAndSet(w) ==
  /\ worker[w].at = "marker"
  /\ keys' = [keys EXCEPT !.done = TRUE]
  /\ Goto(w, IF keys.done THEN "release" ELSE "settle")
  /\ UNCHANGED <<rows, ledger, claim, queue, sent, faults>>

CheckMarker(w) ==
  /\ worker[w].at = "marker"
  /\ Goto(w, IF keys.done THEN "release" ELSE "settle")
  /\ UNCHANGED <<rows, ledger, claim, keys, queue, sent, faults>>

(* The lock is released; a task with retries left is sent again. *)
Retry(w) ==
  /\ keys' = [keys EXCEPT !.lock = None]
  /\ queue' = queue \cup {[t EXCEPT !.tries = @ + 1] :
                            t \in {r \in worker[w].task : r.tries < MaxRetries}}
  /\ worker' = [worker EXCEPT ![w] = [at |-> "idle", task |-> {}]]

(* Winners, then the fees, then the LPs; all positions are stamped. *)
PayAll(o) ==
  LET winners == {p \in Unsettled : p[2] = o}
      afterFees == Debit(Debit(escrow, OwedTo(winners)), escrow.fees)
      residual == IF escrow.tokens THEN afterFees.collateral ELSE 0
  IN
  /\ settled' = settled \cup Unsettled
  /\ credited' = [p \in Positions |->
                    IF p \in winners THEN credited[p] + Shares[p] ELSE credited[p]]
  /\ escrow' = [Debit(afterFees, residual) EXCEPT
                  !.fees = 0, !.treasury = @ + escrow.fees,
                  !.lps = @ + residual, !.tokens = FALSE]

(* Mutant of Refuses: the status says that the work has been done. *)
RefusesByStatus(o) == market.status \in {"resolving", "resolved"}

(* No winner on the row, or not this task's. *)
Refuses(o) == market.winning # o

(* settle_market from the row lock to its commit. *)
Settle(w) ==
  /\ worker[w].at = "settle" /\ row = "free"
  /\ \E t \in worker[w].task :
       \/ /\ Refuses(t.outcome)
          /\ Goto(w, "release")
          /\ UNCHANGED <<rows, ledger, keys, queue>>
       \/ /\ ~Refuses(t.outcome)
          /\ ~Covers(OwedTo({p \in Unsettled : p[2] = t.outcome}) + escrow.fees)
          /\ Retry(w)
          /\ UNCHANGED <<rows, ledger>>
       \/ /\ ~Refuses(t.outcome)
          /\ Covers(OwedTo({p \in Unsettled : p[2] = t.outcome}) + escrow.fees)
          /\ PayAll(t.outcome)
          /\ market' = [market EXCEPT !.status = "resolved"]
          /\ Goto(w, "mark")
          /\ UNCHANGED <<row, intent, listed, proposing, disputes, ruled, keys, queue>>
  /\ UNCHANGED <<claim, sent, faults>>

Mark(w) ==
  /\ worker[w].at = "mark"
  /\ keys' = [keys EXCEPT !.done = TRUE]
  /\ Goto(w, "release")
  /\ UNCHANGED <<rows, ledger, claim, queue, sent, faults>>

Release(w) ==
  /\ worker[w].at = "release"
  /\ keys' = [keys EXCEPT !.lock = None]
  /\ worker' = [worker EXCEPT ![w] = [at |-> "idle", task |-> {}]]
  /\ UNCHANGED <<rows, ledger, claim, queue, sent, faults>>

(* Redis or the database fails in a step: the task raises and is retried. *)
Raise(w) ==
  /\ worker[w].at \in {"marker", "settle", "mark"} /\ Fault
  /\ Retry(w)
  /\ UNCHANGED <<rows, ledger, claim, sent>>

(* The worker process is killed: no finally runs, its transaction is       *)
(* rolled back, and the broker delivers the task again (acks_late,         *)
(* reject_on_worker_lost).                                                 *)
WorkerLost(w) ==
  /\ worker[w].at # "idle" /\ Fault
  /\ queue' = queue \cup worker[w].task
  /\ worker' = [worker EXCEPT ![w] = [at |-> "idle", task |-> {}]]
  /\ UNCHANGED <<rows, ledger, claim, keys, sent>>

(* Time to live.  The keys of an hour and more outlive any run of the      *)
(* task: they expire only while no worker runs one, and the settlement     *)
(* lock only when its holder is gone.                                      *)
KeyExpires ==
  /\ \/ /\ \A w \in Workers : worker[w].at = "idle"
        /\ \/ keys' = [keys EXCEPT !.done = FALSE]
           \/ row # "resolve" /\ keys' = [keys EXCEPT !.dedup = FALSE]
           \/ keys' = [keys EXCEPT !.lock = None]
     \/ row # "resolve" /\ keys' = [keys EXCEPT !.api = FALSE]
  /\ UNCHANGED <<rows, ledger, claim, queue, worker, sent, faults>>

-----------------------------------------------------------------------------
Init ==
  /\ market = [status |-> "active", winning |-> None, proposed |-> None]
  /\ row = "free" /\ intent = None
  /\ listed = FALSE /\ proposing = None
  /\ disputes = [d \in Disputes |-> "none"] /\ ruled = {}
  /\ escrow = [collateral |-> Collateral0, fees |-> Fees0, treasury |-> 0,
               lps |-> 0, tokens |-> TRUE]
  /\ settled = {} /\ credited = [p \in Positions |-> 0]
  /\ claim = [u \in Users |-> None]
  /\ keys = [done |-> FALSE, lock |-> None, dedup |-> FALSE, api |-> FALSE]
  /\ queue = {} /\ sent = 0 /\ faults = 0
  /\ worker = [w \in Workers |-> [at |-> "idle", task |-> {}]]

Admin ==
  \/ \E o \in Outcomes : ResolveSend(o) \/ ProposeRead(o)
  \/ ResolveCommit \/ ResolveCrash
  \/ CloseList \/ CloseCommit \/ ProposeCommit
  \/ \E d \in Disputes :
       \/ CreateDispute(d) \/ AdjudicateSend(d) \/ AdjudicateSendFails(d)
       \/ \E ruling \in {"upheld", "dismissed"} : Adjudicate(d, ruling)
  \/ AdjudicateCommit \/ AdjudicateCrash

Running(w) ==
  (\E t \in queue : TakeTask(w, t)) \/ CheckMarker(w) \/ Settle(w) \/ Mark(w) \/ Release(w)

Next ==
  \/ Admin
  \/ \E u \in Users : ClaimRead(u) \/ ClaimPay(u)
  \/ \E w \in Workers : Running(w) \/ Raise(w) \/ WorkerLost(w)
  \/ KeyExpires

Spec == Init /\ [][Next]_vars

(* Workers take the tasks that wait and go on while they live, and a call  *)
(* that holds the market row ends.                                         *)
FairSpec ==
  /\ Spec
  /\ WF_vars(ResolveCommit) /\ WF_vars(AdjudicateCommit)
  /\ \A w \in Workers : WF_vars(Running(w))

-----------------------------------------------------------------------------
(* Properties *)

(* Every variable keeps its type; the escrow is never overdrawn. *)
TypeOK ==
  /\ market \in [status : Statuses, winning : Outcomes \cup {None},
                 proposed : Outcomes \cup {None}]
  /\ row \in {"free", "resolve", "adjudicate"}
  /\ intent \in Outcomes \cup {None} /\ proposing \in Outcomes \cup {None}
  /\ listed \in BOOLEAN
  /\ disputes \in [Disputes -> {"none", "open", "upheld", "dismissed"}]
  /\ ruled \subseteq Disputes
  /\ escrow \in [collateral : Nat, fees : Nat, treasury : Nat, lps : Nat, tokens : BOOLEAN]
  /\ settled \subseteq Positions /\ credited \in [Positions -> Nat]
  /\ claim \in [Users -> Outcomes \cup {None}]
  /\ keys \in [done : BOOLEAN, lock : Workers \cup {None}, dedup : BOOLEAN, api : BOOLEAN]
  /\ queue \subseteq Tasks
  /\ worker \in [Workers -> [at : {"idle", "marker", "settle", "mark", "release"},
                             task : SUBSET Tasks]]
  /\ sent \in 0..MaxTasks /\ faults \in 0..MaxFaults

P == INSTANCE Payouts WITH Users <- Users, Outcomes <- Outcomes, Shares <- Shares,
                          settled <- settled, credited <- credited

(* However claims, retries, redelivered tasks and rival resolutions        *)
(* interleave, a position is decided once and credited its shares or       *)
(* nothing.  (settled_at IS NULL under the pool's lock)                    *)
PayoutsSpec == P!Spec

(* Everything paid to winners, treasury and LPs left the escrow. *)
NothingConjured ==
  escrow.collateral + escrow.treasury + escrow.lps
    + MapThenSumSet(LAMBDA p : credited[p], Positions) = Collateral0

(* The completion marker, which ends every later run of the task, stands   *)
(* only for a settlement that is durable and complete.                     *)
DoneMeansSettled ==
  keys.done => settled = Positions /\ escrow.fees = 0 /\ ~escrow.tokens

(* While no process fails and the escrow covers its debts, a resolution    *)
(* that an admin recorded is settled, LPs and treasury included.           *)
ResolutionSettles == market.winning # None ~> ~escrow.tokens

(* No call and no task is left that would settle the market. *)
NothingPending ==
  /\ row = "free" /\ ruled = {} /\ queue = {}
  /\ \A w \in Workers : worker[w].at = "idle"

(* A recorded resolution is not forgotten: when no call and no task is     *)
(* left that would settle the market, it has been settled.  (the lock and  *)
(* the redelivery of resolve_market)                                       *)
SettlementNotLost == (NothingPending /\ market.winning # None) => ~escrow.tokens

(* Refuted: while a dispute is open the resolution is paused: nothing is   *)
(* paid.                                                                   *)
PausedWhileDisputed ==
  [][(\E d \in Disputes : disputes[d] = "open") => UNCHANGED <<settled, credited>>]_vars

(* Refuted: a dispute that was upheld, and whose ruling has ended, has     *)
(* resolved the market for which an outcome was proposed.                  *)
UpheldResolves ==
  ((\E d \in Disputes : disputes[d] = "upheld") /\ ruled = {} /\ row = "free"
      /\ market.proposed # None)
    => market.winning # None

(* Refuted: a market is not resolved twice: once positions were paid, the  *)
(* winning outcome on its row stands.                                      *)
ResolvedOnce == [][~escrow.tokens => market'.winning = market.winning]_vars

(* Refuted: the shares of one outcome are paid and those of the others are *)
(* worth nothing.                                                          *)
OneOutcomePaid ==
  \A p, q \in Positions : (credited[p] > 0 /\ credited[q] > 0) => p[2] = q[2]

=============================================================================
