--------------------------- MODULE ServicesProofs ---------------------------
(***************************************************************************)
(* Proofs about the services that keep no book: the circuit breaker, the   *)
(* price alerts and the wallet desk, each for every value of its           *)
(* constants.                                                              *)
(***************************************************************************)
EXTENDS CircuitBreaker, Alerts, WalletDesk, FiniteSetTheorems, TLAPS

-----------------------------------------------------------------------------
(* The circuit breaker: any number of coroutines, any threshold.           *)

(* The inductive invariant: the two properties of the breaker, and who may *)
(* be suspended while it holds _lock, without which a cancelled or late    *)
(* caller could not be told from the one that holds the permit.            *)
BreakerInv ==
  /\ BreakerTypeOK
  /\ NotClosedAfterFailures
  /\ PermitNeverLeaks
  /\ LockOnlyWhileWaiting

(* The initial state satisfies the inductive invariant. *)
LEMMA BreakerInitInv == BreakerInit => BreakerInv
BY BreakerAssumption
   DEF BreakerInit, BreakerInv, BreakerTypeOK, Places, NotClosedAfterFailures, PermitNeverLeaks,
       LockOnlyWhileWaiting

(* Every step keeps the inductive invariant. *)
LEMMA BreakerNextInv == BreakerInv /\ [BreakerNext]_breakerVars => BreakerInv'
<1> USE BreakerAssumption
        DEF BreakerInv, BreakerTypeOK, Places, NotClosedAfterFailures, PermitNeverLeaks,
            LockOnlyWhileWaiting, Goto, Released
<1> SUFFICES ASSUME BreakerInv, [BreakerNext]_breakerVars
             PROVE  BreakerInv'
  OBVIOUS
<1>1. CASE Cool
  BY <1>1 DEF Cool
<1>2. ASSUME NEW c \in Callers, Call(c)
      PROVE  BreakerInv'
  BY <1>2 DEF Call
<1>3. ASSUME NEW c \in Callers, Enter(c)
      PROVE  BreakerInv'
  BY <1>3 DEF Enter
<1>4. ASSUME NEW c \in Callers, AcquireSem(c)
      PROVE  BreakerInv'
  BY <1>4 DEF AcquireSem
<1>5. ASSUME NEW c \in Callers, Answer(c)
      PROVE  BreakerInv'
  BY <1>5 DEF Answer
<1>6. ASSUME NEW c \in Callers, RecordSuccess(c)
      PROVE  BreakerInv'
  BY <1>6 DEF RecordSuccess
<1>7. ASSUME NEW c \in Callers, RecordFailure(c)
      PROVE  BreakerInv'
  <2> USE <1>7 DEF RecordFailure
  <2>1. BreakerTypeOK'
    <3>1. failures' \in Nat /\ place' \in [Callers -> Places]
      OBVIOUS
    <3>4. cooled' \in BOOLEAN
      BY Zenon
    <3>2. state' \in {"closed", "open", "half_open"}
      OBVIOUS
    <3>3. lock' \in Callers \cup {None} /\ sem' \in Callers \cup {None}
      OBVIOUS
    <3> QED
      BY <3>1, <3>2, <3>3, <3>4
  <2>2. NotClosedAfterFailures'
    <3>1. CASE failures + 1 >= Threshold
      BY <3>1
    <3>2. CASE ~(failures + 1 >= Threshold)
      BY <3>2
    <3> QED
      BY <3>1, <3>2
  <2>3. PermitNeverLeaks' /\ LockOnlyWhileWaiting'
    OBVIOUS
  <2> QED
    BY <2>1, <2>2, <2>3
<1>8. CASE UNCHANGED breakerVars
  BY <1>8 DEF breakerVars
<1>9. ASSUME NEW c \in Callers, Cancel(c)
      PROVE  BreakerInv'
  BY <1>9 DEF Cancel
<1> QED
  BY <1>1, <1>2, <1>3, <1>4, <1>5, <1>6, <1>7, <1>8, <1>9 DEF BreakerNext, Step

(* The permit of the half-open state never leaks, whatever the Redis       *)
(* operations answer and however the coroutines interleave.                *)
THEOREM PermitSafe == BreakerSpec => []PermitNeverLeaks
<1>1. BreakerInv => PermitNeverLeaks
  BY DEF BreakerInv
<1> QED
  BY BreakerInitInv, BreakerNextInv, <1>1, PTL DEF BreakerSpec

(* The breaker leaves "closed" only on Threshold consecutive failures, and *)
(* a failed probe always reopens it.                                       *)
THEOREM OpensOnThreshold == BreakerSpec => []NotClosedAfterFailures
<1>1. BreakerInv => NotClosedAfterFailures
  BY DEF BreakerInv
<1> QED
  BY BreakerInitInv, BreakerNextInv, <1>1, PTL DEF BreakerSpec

(* No coroutine keeps _lock across its own Redis operation, in any         *)
(* interleaving and under cancellation; the one that waits for the         *)
(* half-open permit is the only one that keeps it across a suspension.     *)
THEOREM LockFreeIO == BreakerSpec => []LockOnlyWhileWaiting
<1>1. BreakerInv => LockOnlyWhileWaiting
  BY DEF BreakerInv
<1> QED
  BY BreakerInitInv, BreakerNextInv, <1>1, PTL DEF BreakerSpec

(* Every variable of the breaker keeps its type in every interleaving; the *)
(* holder of _lock and of the permit is always a coroutine or nobody.      *)
THEOREM BreakerTyped == BreakerSpec => []BreakerTypeOK
<1>1. BreakerInv => BreakerTypeOK
  BY DEF BreakerInv
<1> QED
  BY BreakerInitInv, BreakerNextInv, <1>1, PTL DEF BreakerSpec

-----------------------------------------------------------------------------
(***************************************************************************)
(* Proofs about Alerts, for any alerts, workers, prices and faults.        *)
(*                                                                         *)
(* ToldOnce is not inductive: that a notice has not been made has to       *)
(* follow from what each worker still owes.  An alert a worker owes a      *)
(* notice has none, and is either flipped by that worker, uncommitted and  *)
(* therefore still armed, or no longer armed; and what two workers have in *)
(* hand is apart.  The claim of a worker says nothing: the index may have  *)
(* been rebuilt while the alert was being told.                            *)
(***************************************************************************)
AlertPlaces == {"idle", "read", "write", "again", "mark", "tell", "repair"}
Checks == [at : AlertPlaces, due : SUBSET Alerts, claimed : SUBSET Alerts,
           flips : SUBSET Alerts, owed : SUBSET Alerts]
IndexWrites == [op : {"index", "deindex"}, on : Alerts]
Gone == {"triggered", "deleted"}

AlertTypes ==
  /\ alert \in [Alerts -> {"none", "armed"} \cup Gone]
  /\ zset \in SUBSET Alerts /\ pending \in SUBSET IndexWrites
  /\ check \in [AlertWorkers -> Checks]
  /\ notices \in [Alerts -> Nat]

(* Only a worker that is telling has rows or notices in hand. *)
EmptyHands ==
  \A w \in AlertWorkers : check[w].at # "tell" => check[w].flips = {} /\ check[w].owed = {}

(* A flip that is not committed leaves the row armed, and nobody told. *)
FlipsAreFresh ==
  \A w \in AlertWorkers : \A a \in check[w].flips : alert[a] = "armed" /\ notices[a] = 0

(* An owed notice has not been made. *)
OwedIsUntold ==
  \A w \in AlertWorkers : \A a \in check[w].owed :
    notices[a] = 0 /\ (a \in check[w].flips \/ alert[a] \in Gone)

(* What two workers have in hand is apart. *)
HandsApart ==
  \A v, w \in AlertWorkers : v # w =>
    /\ check[v].flips \cap check[w].flips = {} /\ check[v].flips \cap check[w].owed = {}
    /\ check[v].owed \cap check[w].owed = {}

Hands == EmptyHands /\ FlipsAreFresh /\ OwedIsUntold /\ HandsApart

AlertsInv == AlertTypes /\ Hands /\ ToldOnce /\ ToldMeansTriggered

-----------------------------------------------------------------------------
(* The records of the workers keep their type: a step of w writes only     *)
(* check[w], and one of those records.                                     *)
LEMMA AlertTypesKept == AlertTypes /\ AlertsNext => AlertTypes'
<1> SUFFICES ASSUME AlertTypes, AlertsNext PROVE AlertTypes'
  OBVIOUS
<1> USE DEF AlertTypes
<1>n. NoCheck \in Checks
  BY Zenon DEF NoCheck, Checks, AlertPlaces
<1>r. Armed \in SUBSET Alerts
  BY DEF Armed
<1>1. ASSUME NEW a \in Alerts, create_alert(a) \/ delete_alert(a) PROVE AlertTypes'
  BY <1>1 DEF create_alert, delete_alert, IndexWrites, Gone
<1>2. ASSUME NEW p \in pending, IndexWritten(p) \/ IndexLost(p) PROVE AlertTypes'
  BY <1>2 DEF IndexWritten, IndexLost, IndexWrites
<1>3. ASSUME NEW w \in AlertWorkers, NEW due \in SUBSET Alerts, NEW next \in {"idle", "read"},
             Claim(w, due, next), UNCHANGED <<alert, pending, notices>>
      PROVE AlertTypes'
  <2>1. [NoCheck EXCEPT !.at = IF zset \cap due = {} THEN next ELSE "mark",
                        !.due = due, !.claimed = zset \cap due] \in Checks
    BY Zenon DEF NoCheck, Checks, AlertPlaces
  <2> QED
    BY <1>3, <1>n, <2>1 DEF Claim
<1>4. ASSUME NEW w \in AlertWorkers, ReindexReads(w) PROVE AlertTypes'
  <2>1. [check[w] EXCEPT !.at = "write", !.claimed = Armed] \in Checks
    BY Zenon, <1>r DEF Checks, AlertPlaces
  <2> QED
    BY <1>4, <1>n, <2>1 DEF ReindexReads
<1>5. ASSUME NEW w \in AlertWorkers, ReindexWrites(w) PROVE AlertTypes'
  <2>1. [check[w] EXCEPT !.at = "again", !.claimed = {}] \in Checks /\ check[w].claimed \subseteq Alerts
    BY Zenon DEF Checks, AlertPlaces
  <2>2. check' = [check EXCEPT ![w] = [check[w] EXCEPT !.at = "again", !.claimed = {}]]
        \/ check' = [check EXCEPT ![w] = NoCheck]
    BY Zenon, <1>5 DEF ReindexWrites
  <2>3. zset' \in SUBSET Alerts
    BY <1>5, <2>1 DEF ReindexWrites
  <2> QED
    BY <1>5, <1>n, <2>1, <2>2, <2>3 DEF ReindexWrites
<1>6. ASSUME NEW w \in AlertWorkers, mark_triggered(w) PROVE AlertTypes'
  <2>1. [check[w] EXCEPT !.at = "tell", !.flips = Won(w), !.owed = Won(w)] \in Checks
    BY Zenon, <1>r DEF Checks, AlertPlaces, Won
  <2> QED
    BY <1>6, <1>n, <2>1 DEF mark_triggered
<1>7. ASSUME NEW w \in AlertWorkers, CheckEnds(w) PROVE AlertTypes'
  BY Zenon, <1>7, <1>n DEF CheckEnds, Gone
<1>8. ASSUME NEW w \in AlertWorkers, RollBack(w), UNCHANGED <<alert, zset, pending, notices>>
      PROVE AlertTypes'
  <2>1. [NoCheck EXCEPT !.at = "repair", !.claimed = Armed] \in Checks
    BY Zenon, <1>r DEF NoCheck, Checks, AlertPlaces
  <2> QED
    BY <1>8, <2>1 DEF RollBack
<1>9. ASSUME NEW w \in AlertWorkers, IndexRepaired(w) \/ CheckKilled(w) PROVE AlertTypes'
  <2>1. check[w].claimed \subseteq Alerts
    BY DEF Checks
  <2> QED
    BY <1>9, <1>n, <2>1 DEF IndexRepaired, CheckKilled
<1>10. ASSUME NEW w \in AlertWorkers, NEW a \in Alerts, Dispatch(w, a) \/ DispatchSkipped(w, a)
       PROVE AlertTypes'
  <2>1. check' = [check EXCEPT ![w] = [check[w] EXCEPT !.flips = {}, !.owed = @ \ {a}]]
        \/ check' = [check EXCEPT ![w] = [check[w] EXCEPT !.owed = @ \ {a}]]
    BY Zenon, <1>10 DEF Dispatch, DispatchSkipped
  <2>2. /\ [check[w] EXCEPT !.flips = {}, !.owed = @ \ {a}] \in Checks
        /\ [check[w] EXCEPT !.owed = @ \ {a}] \in Checks
    BY Zenon DEF Checks
  <2>3. alert' \in [Alerts -> {"none", "armed"} \cup Gone] /\ notices' \in [Alerts -> Nat]
    BY <1>10 DEF Dispatch, DispatchSkipped, Flipped, Gone
  <2>4. check' \in [AlertWorkers -> Checks]
    BY Zenon, <2>1, <2>2
  <2>5. UNCHANGED <<zset, pending>>
    BY <1>10 DEF Dispatch, DispatchSkipped
  <2> QED
    BY <2>3, <2>4, <2>5
<1> QED
  BY Zenon, DueSetsAssumption, <1>1, <1>2, <1>3, <1>4, <1>5, <1>6, <1>7, <1>8, <1>9, <1>10
     DEF AlertsNext, CheckClaims, CheckClaimsAgain, CheckRaises, DispatchDeleted, Checks

(* A worker that puts down what it has in hand disturbs nobody. *)
LEMMA HandsEmptied ==
  ASSUME AlertTypes, Hands, NEW w \in AlertWorkers, UNCHANGED <<alert, notices>>,
         NEW r, r.flips = {}, r.owed = {}, check' = [check EXCEPT ![w] = r]
  PROVE  Hands'
<1>1. \A v \in AlertWorkers : check'[v] = IF v = w THEN r ELSE check[v]
  BY Zenon DEF AlertTypes
<1> QED
  BY <1>1 DEF Hands, EmptyHands, FlipsAreFresh, OwedIsUntold, HandsApart

-----------------------------------------------------------------------------
(* Every step keeps what the workers have in hand fresh, untold and apart, *)
(* and with it that a notice is made once, of an alert no longer armed.    *)
LEMMA HandsKept == AlertsInv /\ AlertsNext => Hands' /\ ToldOnce' /\ ToldMeansTriggered'
<1> SUFFICES ASSUME AlertsInv, AlertsNext PROVE Hands' /\ ToldOnce' /\ ToldMeansTriggered'
  OBVIOUS
<1> DEFINE Goal == Hands' /\ ToldOnce' /\ ToldMeansTriggered'
<1> USE DEF AlertsInv
<1>q. ASSUME UNCHANGED <<alert, notices>>, Hands' PROVE Goal
  BY Zenon, <1>q DEF ToldOnce, ToldMeansTriggered
<1>e. ASSUME NEW w \in AlertWorkers, UNCHANGED <<alert, notices>>,
             NEW r, r.flips = {}, r.owed = {}, check' = [check EXCEPT ![w] = r]
      PROVE  Goal
  BY Zenon, <1>e, <1>q, HandsEmptied
<1>n. NoCheck.flips = {} /\ NoCheck.owed = {}
  BY DEF NoCheck
<1>1. ASSUME NEW a \in Alerts, create_alert(a) PROVE Goal
  BY <1>1 DEF create_alert, AlertTypes, Gone, Hands, EmptyHands, FlipsAreFresh, OwedIsUntold,
              HandsApart, ToldOnce, ToldMeansTriggered
<1>2. ASSUME NEW a \in Alerts, delete_alert(a) PROVE Goal
  <2>1. \A w \in AlertWorkers : a \notin check[w].flips
    BY <1>2 DEF delete_alert, RowsHeld
  <2> QED
    BY <1>2, <2>1 DEF delete_alert, AlertTypes, Gone, Hands, EmptyHands, FlipsAreFresh, OwedIsUntold,
                      HandsApart, ToldOnce, ToldMeansTriggered
<1>3. ASSUME NEW p \in pending, IndexWritten(p) \/ IndexLost(p) PROVE Goal
  BY <1>3 DEF IndexWritten, IndexLost, Hands, EmptyHands, FlipsAreFresh, OwedIsUntold,
              HandsApart, ToldOnce, ToldMeansTriggered
<1>4. ASSUME NEW w \in AlertWorkers, NEW due, NEW next, Claim(w, due, next),
             UNCHANGED <<alert, notices>>
      PROVE  Goal
  <2> DEFINE r == IF zset \cap due = {} /\ next = "idle" THEN NoCheck
                  ELSE [NoCheck EXCEPT !.at = IF zset \cap due = {} THEN next ELSE "mark",
                                       !.due = due, !.claimed = zset \cap due]
  <2>1. r.flips = {} /\ r.owed = {}
    BY DEF NoCheck
  <2>2. check' = [check EXCEPT ![w] = r]
    BY <1>4 DEF Claim
  <2> QED
    BY Zenon, <1>4, <1>e, <2>1, <2>2
<1>5. ASSUME NEW w \in AlertWorkers, ReindexReads(w) \/ ReindexWrites(w) PROVE Goal
  <2> DEFINE R == {[check[w] EXCEPT !.at = "write", !.claimed = Armed],
                   [check[w] EXCEPT !.at = "again", !.claimed = {}], NoCheck}
  <2>1. PICK r \in R : check' = [check EXCEPT ![w] = r]
    BY Zenon, <1>5 DEF ReindexReads, ReindexWrites
  <2>2. check[w].flips = {} /\ check[w].owed = {} /\ check[w] \in Checks
    BY <1>5 DEF ReindexReads, ReindexWrites, Hands, EmptyHands, AlertTypes
  <2>3. r.flips = {} /\ r.owed = {}
    BY Zenon, <2>2, <1>n DEF Checks
  <2> QED
    BY Zenon, <1>5, <1>e, <2>1, <2>3 DEF ReindexReads, ReindexWrites
<1>6. ASSUME NEW w \in AlertWorkers, mark_triggered(w) PROVE Goal
  <2>1. CASE Won(w) = {}
    BY Zenon, <1>6, <1>e, <1>n, <2>1 DEF mark_triggered
  <2>2. CASE Won(w) # {}
    <3>1. \A v \in AlertWorkers : check'[v] =
            IF v = w THEN [check[w] EXCEPT !.at = "tell", !.flips = Won(w), !.owed = Won(w)]
            ELSE check[v]
      BY <1>6, <2>2 DEF mark_triggered, AlertTypes
    <3>2. check'[w].at = "tell" /\ check'[w].flips = Won(w) /\ check'[w].owed = Won(w)
      BY Zenon, <3>1 DEF AlertTypes, Checks
    <3>3. \A a \in Won(w) : alert[a] = "armed" /\ notices[a] = 0
      <4> SUFFICES ASSUME NEW a \in Won(w) PROVE alert[a] = "armed" /\ notices[a] = 0
        OBVIOUS
      <4>1. a \in Alerts /\ alert[a] = "armed"
        BY DEF Won, Armed
      <4>2. notices[a] \in Nat /\ ~(notices[a] > 0)
        BY <4>1 DEF ToldMeansTriggered, AlertTypes
      <4> QED
        BY <4>1, <4>2
    <3>4. \A v \in AlertWorkers : v # w =>
            Won(w) \cap check[v].flips = {} /\ Won(w) \cap check[v].owed = {}
      <4> SUFFICES ASSUME NEW v \in AlertWorkers, v # w, NEW a \in Won(w),
                          a \in check[v].flips \/ a \in check[v].owed
                   PROVE  FALSE
        OBVIOUS
      <4>1. a \notin check[v].flips
        BY <1>6 DEF mark_triggered, RowsHeld, Won
      <4> QED
        BY <4>1, <3>3 DEF Hands, OwedIsUntold, Gone
    <3>5. UNCHANGED <<alert, notices>>
      BY <1>6 DEF mark_triggered
    <3>6. Hands'
      BY <3>1, <3>2, <3>3, <3>4, <3>5 DEF Hands, EmptyHands, FlipsAreFresh, OwedIsUntold, HandsApart
    <3> QED
      BY <3>5, <3>6, <1>q
  <2> QED
    BY <2>1, <2>2
<1>7. ASSUME NEW w \in AlertWorkers, NEW a \in Alerts, Dispatch(w, a) PROVE Goal
  <2>0. a \in check[w].owed /\ notices[a] = 0
    BY <1>7 DEF Dispatch, Hands, OwedIsUntold
  <2>1. a \in check[w].owed /\ notices' = [notices EXCEPT ![a] = 1]
    BY <1>7, <2>0 DEF Dispatch, AlertTypes
  <2>2. \A v \in AlertWorkers : v # w =>
          check'[v] = check[v] /\ a \notin check[v].flips /\ a \notin check[v].owed
    BY <1>7, <2>1 DEF Dispatch, AlertTypes, Hands, HandsApart
  <2>3. check'[w].at = "tell" /\ check'[w].flips = {} /\ check'[w].owed = check[w].owed \ {a}
    BY <1>7 DEF Dispatch, AlertTypes, Checks
  <2>4. \A b \in Alerts : alert'[b] = IF b \in check[w].flips THEN "triggered" ELSE alert[b]
    BY <1>7 DEF Dispatch, Flipped
  <2>5. alert'[a] \in Gone
    BY <1>7, <2>1, <2>4 DEF Dispatch, Hands, OwedIsUntold, Gone
  <2>6. \A b \in Alerts : alert[b] \in Gone => alert'[b] \in Gone
    BY <2>4 DEF Gone
  <2>7. \A v \in AlertWorkers : check[v].flips \subseteq Alerts /\ check[v].owed \subseteq Alerts
    BY DEF AlertTypes, Checks
  <2>8. EmptyHands' /\ HandsApart'
    BY <2>2, <2>3 DEF Hands, EmptyHands, HandsApart
  <2>9. FlipsAreFresh'
    <3> SUFFICES ASSUME NEW v \in AlertWorkers, NEW b \in check'[v].flips
                 PROVE  alert'[b] = "armed" /\ notices'[b] = 0
      BY Zenon DEF FlipsAreFresh
    <3>1. v # w /\ b \in check[v].flips /\ b # a /\ b \in Alerts
      BY <2>2, <2>3, <2>7
    <3>2. b \notin check[w].flips
      BY <3>1 DEF Hands, HandsApart
    <3> QED
      BY Zenon, <3>1, <3>2, <2>1, <2>4 DEF Hands, FlipsAreFresh, AlertTypes
  <2>10. OwedIsUntold'
    <3> SUFFICES ASSUME NEW v \in AlertWorkers, NEW b \in check'[v].owed
                 PROVE  notices'[b] = 0 /\ (b \in check'[v].flips \/ alert'[b] \in Gone)
      BY DEF OwedIsUntold
    <3>1. b \in check[v].owed /\ b # a /\ b \in Alerts
      BY <2>2, <2>3, <2>7
    <3>2. notices'[b] = 0
      BY <3>1, <2>1 DEF Hands, OwedIsUntold, AlertTypes
    <3>3. CASE v = w
      BY <3>1, <3>2, <3>3, <2>4, <2>6 DEF Hands, OwedIsUntold, Gone
    <3>4. CASE v # w
      BY <3>1, <3>2, <3>4, <2>2, <2>6 DEF Hands, OwedIsUntold
    <3> QED
      BY <3>3, <3>4
  <2>11. ToldOnce' /\ ToldMeansTriggered'
    BY <2>1, <2>5, <2>6 DEF AlertTypes, ToldOnce, ToldMeansTriggered, Gone
  <2> QED
    BY <2>8, <2>9, <2>10, <2>11 DEF Hands
<1>8. ASSUME NEW w \in AlertWorkers, NEW a \in Alerts, DispatchSkipped(w, a) PROVE Goal
  <2>1. \A v \in AlertWorkers :
          /\ check'[v].at = check[v].at /\ check'[v].flips = check[v].flips
          /\ check'[v].owed \subseteq check[v].owed
    BY <1>8 DEF DispatchSkipped, AlertTypes, Checks
  <2>2. UNCHANGED <<alert, notices>>
    BY <1>8 DEF DispatchSkipped
  <2>3. Hands'
    BY <2>1, <2>2 DEF Hands, EmptyHands, FlipsAreFresh, OwedIsUntold, HandsApart
  <2> QED
    BY <2>2, <2>3, <1>q
<1>9. ASSUME NEW w \in AlertWorkers, CheckEnds(w) PROVE Goal
  <2>1. \A v \in AlertWorkers : check'[v] = IF v = w THEN NoCheck ELSE check[v]
    BY <1>9 DEF CheckEnds, AlertTypes
  <2>2. \A b \in Alerts : alert'[b] = IF b \in check[w].flips THEN "triggered" ELSE alert[b]
    BY Zenon, <1>9 DEF CheckEnds
  <2>3. \A b \in Alerts : alert[b] \in Gone => alert'[b] \in Gone
    BY <2>2 DEF Gone
  <2>4. \A v \in AlertWorkers : check[v].flips \subseteq Alerts /\ check[v].owed \subseteq Alerts
    BY DEF AlertTypes, Checks
  <2>5. UNCHANGED notices
    BY <1>9 DEF CheckEnds
  <2>6. EmptyHands' /\ HandsApart'
    BY <2>1, <1>n DEF Hands, EmptyHands, HandsApart
  <2>7. FlipsAreFresh'
    BY Zenon, <2>1, <2>2, <2>4, <2>5, <1>n DEF Hands, FlipsAreFresh, HandsApart
  <2>8. OwedIsUntold'
    BY <2>1, <2>3, <2>4, <2>5, <1>n DEF Hands, OwedIsUntold
  <2>9. ToldOnce' /\ ToldMeansTriggered'
    BY <2>3, <2>5 DEF ToldOnce, ToldMeansTriggered, Gone
  <2> QED
    BY <2>6, <2>7, <2>8, <2>9 DEF Hands
<1>10. ASSUME NEW w \in AlertWorkers, RollBack(w), UNCHANGED <<alert, notices>> PROVE Goal
  <2> DEFINE r == [NoCheck EXCEPT !.at = "repair", !.claimed = Armed]
  <2>1. r.flips = {} /\ r.owed = {}
    BY DEF NoCheck
  <2> QED
    BY Zenon, <1>10, <1>e, <2>1 DEF RollBack
<1>11. ASSUME NEW w \in AlertWorkers, IndexRepaired(w) \/ CheckKilled(w) PROVE Goal
  BY <1>11, <1>e, <1>n DEF IndexRepaired, CheckKilled
<1> QED
  BY Zenon, <1>1, <1>2, <1>3, <1>4, <1>5, <1>6, <1>7, <1>8, <1>9, <1>10, <1>11
     DEF AlertsNext, CheckClaims, CheckClaimsAgain, CheckRaises, DispatchDeleted

-----------------------------------------------------------------------------
(* The inductive invariant holds in every reachable state of the alerts.   *)
LEMMA AlertsInvariant == AlertsSpec => []AlertsInv
<1>1. AlertsInit => AlertsInv
  <2> SUFFICES ASSUME AlertsInit PROVE AlertsInv
    OBVIOUS
  <2>1. NoCheck \in Checks /\ NoCheck.flips = {} /\ NoCheck.owed = {}
    BY DEF NoCheck, Checks, AlertPlaces
  <2>2. AlertTypes
    BY <2>1 DEF AlertsInit, AlertTypes
  <2>3. Hands
    BY Zenon, <2>1 DEF AlertsInit, Hands, EmptyHands, FlipsAreFresh, OwedIsUntold, HandsApart
  <2> QED
    BY <2>2, <2>3 DEF AlertsInit, AlertsInv, ToldOnce, ToldMeansTriggered
<1>2. AlertsInv /\ [AlertsNext]_alertVars => AlertsInv'
  <2>1. AlertsInv /\ AlertsNext => AlertsInv'
    BY AlertTypesKept, HandsKept DEF AlertsInv
  <2>2. AlertsInv /\ UNCHANGED alertVars => AlertsInv'
    BY Zenon DEF alertVars, AlertsInv, AlertTypes, Hands, EmptyHands, FlipsAreFresh, OwedIsUntold,
           HandsApart, ToldOnce, ToldMeansTriggered
  <2> QED
    BY <2>1, <2>2
<1> QED
  BY <1>1, <1>2, PTL DEF AlertsSpec

(* However claims, rebuilt indexes, deletions, failing and killed workers  *)
(* interleave, and for any number of each, check_price_alerts tells an     *)
(* owner of an alert at most once.                                         *)
THEOREM AlertsToldOnce == AlertsSpec => []ToldOnce
BY AlertsInvariant, PTL DEF AlertsInv

(* When an owner has been told, the row is durably no longer armed.        *)
THEOREM AlertsToldAreGone == AlertsSpec => []ToldMeansTriggered
BY AlertsInvariant, PTL DEF AlertsInv

(* The variables keep their types, and no two workers have the same row    *)
(* flipped.                                                                *)
THEOREM AlertsTyped == AlertsSpec => []AlertsTypeOK
<1>1. AlertsInv => AlertsTypeOK
  <2> SUFFICES ASSUME AlertsInv PROVE AlertsTypeOK
    OBVIOUS
  <2>1. ASSUME NEW w \in AlertWorkers
        PROVE  check[w].at \in AlertPlaces /\ check[w].flips \cap RowsHeld(AlertWorkers \ {w}) = {}
    BY DEF AlertsInv, AlertTypes, Checks, Hands, HandsApart, RowsHeld
  <2> QED
    BY Zenon, <2>1 DEF AlertsInv, AlertTypes, AlertsTypeOK, Gone, AlertPlaces
<1> QED
  BY <1>1, AlertsInvariant, PTL

-----------------------------------------------------------------------------
(***************************************************************************)
(* Proofs about WalletDesk: the wallet agrees with its ledger and the      *)
(* treasury with its log, for any calls, payments, keys, admins and faults.*)
(*                                                                         *)
(* BalanceIsLedger needs to know that only the holder of the wallet's lock *)
(* writes, that a withdrawal still affords itself when it commits, that    *)
(* withdrawal rows have distinct ids (a rejection replaces exactly one),   *)
(* and that there is nothing on record while there is no wallet.           *)
(***************************************************************************)
AnyKey == Keys \cup {NoKey}
CallRows == [kind : {"none", "webhook", "withdraw", "create"},
             at : {"none", "checked", "holds"}, ref : Intents \cup AnyKey]
OutRows == [id : Nat \ {0}, key : AnyKey, status : {"pending", "completed", "failed"}]

Credited == {i \in Intents : deposited[i] > 0}
Standing == {w \in outgoing : w.status # "failed"}
Leaving == {d \in Calls : call[d].kind = "withdraw"}

DeskTypes ==
  /\ purse \in [exists : BOOLEAN, balance : Nat, locked : Nat]
  /\ deposited \in [Intents -> {0, 1}] /\ acked \in SUBSET Intents
  /\ outgoing \in SUBSET OutRows /\ IsFiniteSet(outgoing)
  /\ call \in [Calls -> CallRows] /\ walletLock \in Calls \cup {Unlocked}
  /\ \A c \in Calls : /\ call[c].kind = "webhook" => call[c].ref \in Intents
                      /\ call[c].kind = "withdraw" => call[c].ref \in AnyKey

(* A call that holds the wallet is the only one, and a withdrawal that     *)
(* holds it affords what it asks for.                                      *)
HolderWrites ==
  \A c \in Calls : call[c].at = "holds" =>
    walletLock = c /\ purse.exists /\ (call[c].kind = "withdraw" => purse.locked < purse.balance)

(* Without a wallet there is nothing on record. *)
NoWalletNoRows == ~purse.exists => purse.balance = 0 /\ purse.locked = 0 /\ outgoing = {}

(* Withdrawal rows are numbered. *)
IdsDistinct ==
  /\ \A w \in outgoing : w.id <= Cardinality(outgoing)
  /\ \A v, w \in outgoing : v.id = w.id => v = w

(* The rows to come fit the bound as well. *)
RoomLeft == Cardinality(outgoing) + Cardinality(Leaving) <= MaxOut

Book == NoWalletNoRows /\ BalanceIsLedger /\ AckMeansCredited /\ ReservedIsHeld

DeskInv == DeskTypes /\ HolderWrites /\ Book /\ IdsDistinct /\ RoomLeft

-----------------------------------------------------------------------------
(* What the steps do to the calls *)

(* The empty call is a call row.                                           *)
LEMMA NoCallRow == NoCall \in CallRows /\ NoCall.kind = "none" /\ NoCall.at = "none"
BY DEF NoCall, CallRows, AnyKey

(* Finitely many withdrawals are under way.                                *)
LEMMA LeavingFinite == IsFiniteSet(Leaving) /\ Cardinality(Leaving) \in Nat
BY DeskAssumption, FS_Subset, FS_CardinalityType DEF Leaving

(* A call that ends lets go of the wallet and of its place in the bound. *)
LEMMA EndEffect ==
  ASSUME DeskInv, NEW c \in Calls, End(c)
  PROVE  /\ call' = [call EXCEPT ![c] = NoCall]
         /\ call' \in [Calls -> CallRows] /\ walletLock' \in Calls \cup {Unlocked}
         /\ \A d \in Calls : d # c => call'[d] = call[d]
         /\ \A d \in Calls : call'[d].at = "holds" =>
              d # c /\ call'[d] = call[d] /\ walletLock = d /\ walletLock' = d
         /\ Leaving' = Leaving \ {c}
         /\ Cardinality(Leaving') \in Nat /\ Cardinality(Leaving') <= Cardinality(Leaving)
         /\ c \in Leaving => Cardinality(Leaving') = Cardinality(Leaving) - 1
<1>1. call' = [call EXCEPT ![c] = NoCall] /\ call \in [Calls -> CallRows]
  BY DEF End, DeskInv, DeskTypes
<1>2. /\ call' \in [Calls -> CallRows] /\ call'[c] = NoCall
      /\ \A d \in Calls : d # c => call'[d] = call[d]
  BY <1>1, NoCallRow
<1>3. walletLock' \in Calls \cup {Unlocked}
  BY DEF End, DeskInv, DeskTypes
<1>4. \A d \in Calls : call'[d].at = "holds" =>
        d # c /\ call'[d] = call[d] /\ walletLock = d /\ walletLock' = d
  BY <1>2, NoCallRow DEF End, DeskInv, HolderWrites
<1>5. Leaving' = Leaving \ {c}
  BY <1>2, NoCallRow DEF Leaving
<1>6. Cardinality(Leaving \ {c}) =
        IF c \in Leaving THEN Cardinality(Leaving) - 1 ELSE Cardinality(Leaving)
  BY LeavingFinite, FS_RemoveElement
<1>7. Cardinality(Leaving \ {c}) \in Nat
  BY LeavingFinite, FS_RemoveElement, FS_CardinalityType
<1>8. /\ Cardinality(Leaving') \in Nat /\ Cardinality(Leaving') <= Cardinality(Leaving)
      /\ c \in Leaving => Cardinality(Leaving') = Cardinality(Leaving) - 1
  BY <1>5, <1>6, <1>7, LeavingFinite
<1> QED
  BY <1>1, <1>2, <1>3, <1>4, <1>5, <1>8

(* A call that begins holds nothing. *)
LEMMA BeginEffect ==
  ASSUME DeskInv, NEW c \in Calls, call[c] = NoCall, NEW kind \in {"webhook", "withdraw", "create"},
         NEW ref \in Intents \cup AnyKey, Begin(c, kind, ref)
  PROVE  /\ call' \in [Calls -> CallRows]
         /\ call'[c].kind = kind /\ call'[c].ref = ref /\ call'[c].at = "checked"
         /\ \A d \in Calls : d # c => call'[d] = call[d]
         /\ Leaving' = IF kind = "withdraw" THEN Leaving \cup {c} ELSE Leaving
         /\ Cardinality(Leaving') = Cardinality(Leaving) + IF kind = "withdraw" THEN 1 ELSE 0
<1> DEFINE r == [kind |-> kind, at |-> "checked", ref |-> ref]
<1>1. r \in CallRows /\ r.kind = kind /\ r.ref = ref /\ r.at = "checked"
  BY DEF CallRows
<1>2. call' = [call EXCEPT ![c] = r] /\ call \in [Calls -> CallRows]
  BY DEF Begin, DeskInv, DeskTypes
<1>3. /\ call' \in [Calls -> CallRows] /\ call'[c] = r
      /\ \A d \in Calls : d # c => call'[d] = call[d]
  BY <1>1, <1>2
<1>4. c \notin Leaving
  BY NoCallRow DEF Leaving
<1>5. Leaving' = IF kind = "withdraw" THEN Leaving \cup {c} ELSE Leaving
  BY Zenon, <1>1, <1>3, <1>4 DEF Leaving
<1>6. Cardinality(Leaving \cup {c}) = Cardinality(Leaving) + 1
  BY Zenon, <1>4, LeavingFinite, FS_AddElement
<1> QED
  BY <1>1, <1>3, <1>5, <1>6, LeavingFinite

(* A call that takes the lock is its only holder. *)
LEMMA HoldEffect ==
  ASSUME DeskInv, NEW c \in Calls, Hold(c)
  PROVE  /\ call' \in [Calls -> CallRows] /\ walletLock' = c
         /\ \A d \in Calls : call'[d].kind = call[d].kind /\ call'[d].ref = call[d].ref
         /\ \A d \in Calls : call'[d].at = "holds" => d = c
         /\ Leaving' = Leaving
<1>1. call' = [call EXCEPT ![c] = [call[c] EXCEPT !.at = "holds"]] /\ call \in [Calls -> CallRows]
  BY DEF Hold, DeskInv, DeskTypes
<1>2. [call[c] EXCEPT !.at = "holds"] \in CallRows
  BY <1>1 DEF CallRows
<1>3. call' \in [Calls -> CallRows]
  BY <1>1, <1>2
<1>4. \A d \in Calls : call'[d].kind = call[d].kind /\ call'[d].ref = call[d].ref
  BY <1>1 DEF CallRows
<1>5. \A d \in Calls : call[d].at # "holds"
  BY DeskAssumption DEF Hold, DeskInv, HolderWrites
<1>6. \A d \in Calls : call'[d].at = "holds" => d = c
  BY <1>1, <1>5
<1> QED
  BY <1>3, <1>4, <1>6 DEF Hold, Leaving

-----------------------------------------------------------------------------
(* What the steps do to the rows *)

(* Replacing an element by a new one keeps the cardinality.                *)
LEMMA SwapElement ==
  ASSUME NEW S, IsFiniteSet(S), NEW w \in S, NEW v, v \notin S
  PROVE  /\ IsFiniteSet((S \ {w}) \cup {v})
         /\ Cardinality((S \ {w}) \cup {v}) = Cardinality(S)
<1>1. IsFiniteSet(S \ {w}) /\ Cardinality(S \ {w}) = Cardinality(S) - 1 /\ v \notin S \ {w}
  BY FS_RemoveElement
<1>2. /\ IsFiniteSet((S \ {w}) \cup {v})
      /\ Cardinality((S \ {w}) \cup {v}) = Cardinality(S \ {w}) + 1
  BY <1>1, FS_AddElement
<1> QED
  BY <1>1, <1>2, FS_CardinalityType

(* Finitely many credits and withdrawals stand in the ledger.              *)
LEMMA LedgerFinite ==
  ASSUME DeskTypes
  PROVE  /\ IsFiniteSet(Credited) /\ Cardinality(Credited) \in Nat
         /\ IsFiniteSet(Standing) /\ Cardinality(Standing) \in Nat
         /\ Cardinality(outgoing) \in Nat
<1>1. IsFiniteSet(Credited) /\ IsFiniteSet(Standing)
  BY DeskAssumption, FS_Subset DEF Credited, Standing, DeskTypes
<1> QED
  BY <1>1, FS_CardinalityType DEF DeskTypes

(* A new withdrawal row is a row more, and one more that stands. *)
LEMMA RowAdded ==
  ASSUME DeskTypes, IdsDistinct, NEW k \in AnyKey,
         outgoing' = outgoing \cup
           {[id |-> Cardinality(outgoing) + 1, key |-> k, status |-> "pending"]}
  PROVE  /\ outgoing' \in SUBSET OutRows /\ IsFiniteSet(outgoing') /\ IdsDistinct'
         /\ Cardinality(outgoing') = Cardinality(outgoing) + 1
         /\ Cardinality(Standing') = Cardinality(Standing) + 1
<1> DEFINE n == Cardinality(outgoing)
           r == [id |-> n + 1, key |-> k, status |-> "pending"]
<1>1. r \in OutRows /\ r.id = n + 1 /\ r.status = "pending" /\ n \in Nat
  BY LedgerFinite DEF OutRows
<1>2. \A w \in outgoing : w \in OutRows /\ w.id \in Nat /\ w.id <= n
  BY DEF DeskTypes, OutRows, IdsDistinct
<1>3. r \notin outgoing
  BY <1>1, <1>2
<1>4. outgoing' = outgoing \cup {r}
  OBVIOUS
<1> HIDE DEF n, r
<1>5. IsFiniteSet(outgoing') /\ Cardinality(outgoing') = n + 1
  <2>1. /\ IsFiniteSet(outgoing \cup {r})
        /\ Cardinality(outgoing \cup {r}) = Cardinality(outgoing) + 1
    BY Zenon, <1>3, FS_AddElement DEF DeskTypes
  <2> QED
    BY <1>4, <2>1 DEF n
<1>6. IdsDistinct'
  <2>1. \A w \in outgoing' : w.id <= n + 1
    BY <1>1, <1>2, <1>4
  <2>2. \A v, w \in outgoing' : v.id = w.id => v = w
    BY <1>1, <1>2, <1>4 DEF IdsDistinct
  <2> QED
    BY <2>1, <2>2, <1>5 DEF IdsDistinct
<1>7. Standing' = Standing \cup {r} /\ r \notin Standing
  BY <1>1, <1>3, <1>4 DEF Standing
<1>8. Cardinality(Standing') = Cardinality(Standing) + 1
  BY Zenon, <1>7, LedgerFinite, FS_AddElement
<1> QED
  BY <1>1, <1>4, <1>5, <1>6, <1>8 DEF DeskTypes, n

(* A ruling replaces one pending row by one with the same id. *)
LEMMA RowRuled ==
  ASSUME DeskTypes, IdsDistinct, NEW w \in outgoing, Pending(w),
         NEW s \in {"completed", "failed"},
         outgoing' = (outgoing \ {w}) \cup {[w EXCEPT !.status = s]}
  PROVE  /\ outgoing' \in SUBSET OutRows /\ IsFiniteSet(outgoing') /\ IdsDistinct'
         /\ Cardinality(outgoing') = Cardinality(outgoing)
         /\ Cardinality(Standing')
              = Cardinality(Standing) - IF s = "failed" THEN 1 ELSE 0
<1> DEFINE r == [w EXCEPT !.status = s]
<1>1. w \in OutRows /\ w.status = "pending" /\ r \in OutRows /\ r.id = w.id /\ r.status = s
  BY DEF DeskTypes, OutRows, Pending
<1>2. r \notin outgoing
  BY Zenon, <1>1 DEF IdsDistinct
<1>3. outgoing' = (outgoing \ {w}) \cup {r}
  OBVIOUS
<1> HIDE DEF r
<1>4. IsFiniteSet(outgoing') /\ Cardinality(outgoing') = Cardinality(outgoing)
  BY <1>2, <1>3, SwapElement DEF DeskTypes
<1>5. IdsDistinct'
  BY <1>1, <1>3, <1>4 DEF IdsDistinct
<1>6. w \in Standing /\ r \notin Standing
  BY <1>1, <1>2 DEF Standing
<1>7. CASE s = "failed"
  <2>1. Standing' = Standing \ {w}
    BY <1>1, <1>3, <1>7 DEF Standing
  <2> QED
    BY Zenon, <1>1, <1>3, <1>4, <1>5, <1>6, <1>7, <2>1, LedgerFinite, FS_RemoveElement DEF DeskTypes
<1>8. CASE s = "completed"
  <2>1. Standing' = (Standing \ {w}) \cup {r}
    BY <1>1, <1>3, <1>8 DEF Standing
  <2>2. Cardinality(Standing') = Cardinality(Standing)
    BY <1>6, <2>1, LedgerFinite, SwapElement
  <2> QED
    BY <1>1, <1>3, <1>4, <1>5, <1>8, <2>2, LedgerFinite DEF DeskTypes
<1> QED
  BY <1>7, <1>8

-----------------------------------------------------------------------------
(* A call that ends and leaves the rows alone keeps the invariant. *)
LEMMA EndsQuietly ==
  ASSUME DeskInv, NEW c \in Calls, End(c), UNCHANGED <<purse, deposited, outgoing, acked>>
  PROVE  DeskInv'
<1>1. DeskTypes'
  BY EndEffect, NoCallRow DEF DeskInv, DeskTypes
<1>2. HolderWrites'
  BY EndEffect DEF DeskInv, HolderWrites
<1>3. Book' /\ IdsDistinct'
  BY DEF DeskInv, Book, NoWalletNoRows, BalanceIsLedger, AckMeansCredited, ReservedIsHeld,
         IdsDistinct
<1>4. RoomLeft'
  BY EndEffect, LeavingFinite, LedgerFinite, DeskAssumption DEF DeskInv, RoomLeft
<1> QED
  BY <1>1, <1>2, <1>3, <1>4 DEF DeskInv

(* Beginnings and locks leave the rows alone as well. *)
LEMMA BeginsQuietly ==
  ASSUME DeskInv, NEW c \in Calls, call[c] = NoCall,
         UNCHANGED <<purse, deposited, outgoing, acked, walletLock>>,
         \/ \E i \in Intents : Begin(c, "webhook", i)
         \/ \E k \in AnyKey : /\ Begin(c, "withdraw", k)
                               /\ Cardinality(outgoing) + Cardinality(Leaving) < MaxOut
         \/ Begin(c, "create", NoKey)
  PROVE  DeskInv'
<1>1. PICK kind \in {"webhook", "withdraw", "create"}, ref \in Intents \cup AnyKey :
        /\ Begin(c, kind, ref)
        /\ kind = "webhook" => ref \in Intents
        /\ kind = "withdraw" => /\ ref \in AnyKey
                                /\ Cardinality(outgoing) + Cardinality(Leaving) < MaxOut
  BY DEF AnyKey
<1>2. /\ call' \in [Calls -> CallRows]
      /\ call'[c].kind = kind /\ call'[c].ref = ref /\ call'[c].at = "checked"
      /\ \A d \in Calls : d # c => call'[d] = call[d]
      /\ Cardinality(Leaving') = Cardinality(Leaving) + IF kind = "withdraw" THEN 1 ELSE 0
  BY Zenon, <1>1, BeginEffect
<1>3. DeskTypes'
  BY <1>1, <1>2 DEF DeskInv, DeskTypes
<1>4. HolderWrites'
  BY Zenon, <1>2 DEF DeskInv, HolderWrites
<1>5. Book' /\ IdsDistinct'
  BY Zenon DEF DeskInv, Book, NoWalletNoRows, BalanceIsLedger, AckMeansCredited, ReservedIsHeld,
         IdsDistinct
<1>6. RoomLeft'
  BY <1>1, <1>2, LeavingFinite, LedgerFinite, DeskAssumption DEF DeskInv, RoomLeft
<1> QED
  BY <1>3, <1>4, <1>5, <1>6 DEF DeskInv

(* A call that only moves to its next suspension keeps the invariant.      *)
LEMMA HoldsQuietly ==
  ASSUME DeskInv, NEW c \in Calls, Hold(c), UNCHANGED <<purse, deposited, outgoing, acked>>,
         purse.exists, call[c].kind = "withdraw" => Affords
  PROVE  DeskInv'
<1>1. DeskTypes'
  BY HoldEffect DEF DeskInv, DeskTypes
<1>2. HolderWrites'
  <2>1. call[c].kind = "withdraw" => purse.locked < purse.balance
    BY DEF Affords, DeskInv, DeskTypes
  <2> QED
    BY Zenon, HoldEffect, <2>1 DEF HolderWrites
<1>3. Book' /\ IdsDistinct'
  BY DEF DeskInv, Book, NoWalletNoRows, BalanceIsLedger, AckMeansCredited, ReservedIsHeld,
         IdsDistinct
<1>4. RoomLeft'
  BY Zenon, HoldEffect DEF DeskInv, RoomLeft
<1> QED
  BY Zenon, <1>1, <1>2, <1>3, <1>4 DEF DeskInv

(* stripe_webhook credits a payment once, and acknowledges it then. *)
LEMMA WebhookCommitKeeps ==
  ASSUME DeskInv, NEW c \in Calls, WebhookCommits(c)
  PROVE  DeskInv'
<1> DEFINE i == call[c].ref
<1>1. i \in Intents /\ End(c) /\ acked' = acked \cup {i} /\ UNCHANGED outgoing
  BY DEF WebhookCommits, DeskInv, DeskTypes
<1>2. CASE DepositTaken(i)
  <2>1. UNCHANGED <<purse, deposited>> /\ deposited[i] > 0
    BY <1>2 DEF WebhookCommits, DepositTaken
  <2>2. DeskTypes'
    BY Zenon, <1>1, <2>1, EndEffect, NoCallRow DEF DeskInv, DeskTypes
  <2>3. HolderWrites'
    BY Zenon, <2>1, <1>1, EndEffect DEF DeskInv, HolderWrites
  <2>4. Book' /\ IdsDistinct'
    BY Zenon, <1>1, <2>1 DEF DeskInv, Book, NoWalletNoRows, BalanceIsLedger, AckMeansCredited,
                      ReservedIsHeld, IdsDistinct
  <2>5. RoomLeft'
    BY <1>1, EndEffect, LeavingFinite, LedgerFinite, DeskAssumption DEF DeskInv, RoomLeft
  <2> QED
    BY <2>2, <2>3, <2>4, <2>5 DEF DeskInv
<1>3. CASE ~DepositTaken(i)
  <2>1. /\ purse' = [purse EXCEPT !.balance = @ + 1]
        /\ deposited' = [deposited EXCEPT ![i] = @ + 1] /\ deposited[i] = 0
    BY <1>1, <1>3 DEF WebhookCommits, DepositTaken, DeskInv, DeskTypes
  <2>2. /\ deposited' = [deposited EXCEPT ![i] = 1]
        /\ purse'.balance = purse.balance + 1 /\ purse'.locked = purse.locked
        /\ purse'.exists = purse.exists /\ purse' \in [exists : BOOLEAN, balance : Nat, locked : Nat]
    BY <2>1 DEF DeskInv, DeskTypes
  <2>3. DeskTypes'
    BY Zenon, <1>1, <2>2, EndEffect, NoCallRow DEF DeskInv, DeskTypes
  <2>4. HolderWrites'
    <3>1. \A d \in Calls : call'[d].at # "holds"
      BY <1>1, EndEffect DEF DeskInv, HolderWrites, WebhookCommits
    <3> QED
      BY <3>1 DEF HolderWrites
  <2>5. purse.exists
    BY DEF DeskInv, HolderWrites, WebhookCommits
  <2>6. BalanceIsLedger'
    <3>1. Credited' = Credited \cup {i} /\ i \notin Credited
      BY <1>1, <2>1, <2>2 DEF Credited, DeskInv, DeskTypes
    <3>2. Cardinality(Credited') = Cardinality(Credited) + 1
      BY Zenon, <3>1, LedgerFinite, FS_AddElement DEF DeskInv
    <3>3. Standing' = Standing
      BY <1>1 DEF Standing
    <3>4. purse.balance = Cardinality(Credited) - Cardinality(Standing)
      BY DEF DeskInv, Book, BalanceIsLedger, Credited, Standing
    <3>5. purse'.balance = Cardinality(Credited') - Cardinality(Standing')
      BY <2>2, <3>2, <3>3, <3>4, LedgerFinite DEF DeskInv
    <3> QED
      BY <3>5 DEF BalanceIsLedger, Credited, Standing
  <2>7. AckMeansCredited'
    BY <1>1, <2>2 DEF DeskInv, DeskTypes, Book, AckMeansCredited
  <2>8. NoWalletNoRows' /\ ReservedIsHeld'
    BY <2>2, <2>5 DEF DeskInv, DeskTypes, Book, NoWalletNoRows, ReservedIsHeld
  <2>9. IdsDistinct' /\ RoomLeft'
    BY <1>1, EndEffect, LeavingFinite, LedgerFinite, DeskAssumption
       DEF DeskInv, IdsDistinct, RoomLeft
  <2> QED
    BY <2>3, <2>4, <2>6, <2>7, <2>8, <2>9 DEF DeskInv, Book
<1> QED
  BY <1>2, <1>3

(* withdraw takes a unit the wallet affords, and writes one row for it. *)
LEMMA WithdrawCommitKeeps ==
  ASSUME DeskInv, NEW c \in Calls, WithdrawCommits(c)
  PROVE  DeskInv'
<1> DEFINE k == call[c].ref
<1>1. k \in AnyKey /\ End(c) /\ UNCHANGED <<deposited, acked>> /\ c \in Leaving
  BY DEF WithdrawCommits, DeskInv, DeskTypes, Leaving
<1>2. CASE KeyUsed(k)
  BY <1>1, <1>2, EndsQuietly DEF WithdrawCommits
<1>3. CASE ~KeyUsed(k)
  <2>1. /\ purse' = [purse EXCEPT !.balance = @ - 1]
        /\ outgoing' = outgoing \cup
             {[id |-> Cardinality(outgoing) + 1, key |-> k, status |-> "pending"]}
    BY <1>3 DEF WithdrawCommits
  <2>2. purse.exists /\ purse.locked < purse.balance
    BY DEF DeskInv, HolderWrites, WithdrawCommits
  <2>3. /\ purse'.balance = purse.balance - 1 /\ purse'.locked = purse.locked
        /\ purse'.exists = purse.exists /\ purse' \in [exists : BOOLEAN, balance : Nat, locked : Nat]
    <3>1. purse \in [exists : BOOLEAN, balance : Nat, locked : Nat]
      BY DEF DeskInv, DeskTypes
    <3>2. purse.balance - 1 \in Nat
      BY <2>2, <3>1
    <3> QED
      BY <2>1, <3>1, <3>2
  <2>4. /\ outgoing' \in SUBSET OutRows /\ IsFiniteSet(outgoing') /\ IdsDistinct'
        /\ Cardinality(outgoing') = Cardinality(outgoing) + 1
        /\ Cardinality(Standing') = Cardinality(Standing) + 1
    BY Zenon, <1>1, <2>1, RowAdded DEF DeskInv
  <2>5. DeskTypes'
    BY Zenon, <1>1, <2>3, <2>4, EndEffect, NoCallRow DEF DeskInv, DeskTypes
  <2>6. HolderWrites'
    <3>1. \A d \in Calls : call'[d].at # "holds"
      BY <1>1, EndEffect DEF DeskInv, HolderWrites, WithdrawCommits
    <3> QED
      BY <3>1 DEF HolderWrites
  <2>7. BalanceIsLedger'
    <3>1. Credited' = Credited
      BY <1>1 DEF Credited
    <3>2. purse.balance = Cardinality(Credited) - Cardinality(Standing)
      BY DEF DeskInv, Book, BalanceIsLedger, Credited, Standing
    <3>3. purse'.balance = Cardinality(Credited') - Cardinality(Standing')
      BY <2>3, <2>4, <3>1, <3>2, LedgerFinite DEF DeskInv
    <3> QED
      BY <3>3 DEF BalanceIsLedger, Credited, Standing
  <2>8. AckMeansCredited' /\ NoWalletNoRows' /\ ReservedIsHeld'
    BY <1>1, <2>2, <2>3 DEF DeskInv, DeskTypes, Book, AckMeansCredited, NoWalletNoRows, ReservedIsHeld
  <2>9. RoomLeft'
    BY <1>1, <2>4, EndEffect, LeavingFinite, LedgerFinite, DeskAssumption DEF DeskInv, RoomLeft
  <2> QED
    BY <2>4, <2>5, <2>6, <2>7, <2>8, <2>9 DEF DeskInv, Book
<1> QED
  BY <1>2, <1>3

(* confirm_withdrawal settles a pending row once; a rejection gives back   *)
(* its unit.                                                               *)
LEMMA RulingKeeps ==
  ASSUME DeskInv, NEW w \in outgoing, Confirm(w) \/ Reject(w)
  PROVE  DeskInv'
<1>1. PICK s \in {"completed", "failed"} :
        /\ outgoing' = (outgoing \ {w}) \cup {[w EXCEPT !.status = s]}
        /\ s = "completed" => UNCHANGED purse
        /\ s = "failed" => walletLock = Unlocked /\ purse' = [purse EXCEPT !.balance = @ + 1]
  BY DEF Confirm, Reject
<1>2. Pending(w) /\ UNCHANGED <<deposited, acked, call, walletLock>>
  BY DEF Confirm, Reject
<1>3. /\ outgoing' \in SUBSET OutRows /\ IsFiniteSet(outgoing') /\ IdsDistinct'
      /\ Cardinality(outgoing') = Cardinality(outgoing)
      /\ Cardinality(Standing') = Cardinality(Standing) - IF s = "failed" THEN 1 ELSE 0
  BY <1>1, <1>2, RowRuled DEF DeskInv
<1>4. /\ purse'.balance = purse.balance + IF s = "failed" THEN 1 ELSE 0
      /\ purse'.locked = purse.locked /\ purse'.exists = purse.exists
      /\ purse' \in [exists : BOOLEAN, balance : Nat, locked : Nat]
  BY <1>1 DEF DeskInv, DeskTypes
<1>5. purse.exists
  BY DEF DeskInv, Book, NoWalletNoRows
<1>6. DeskTypes'
  BY <1>2, <1>3, <1>4 DEF DeskInv, DeskTypes
<1>7. HolderWrites'
  <2>1. CASE s = "completed"
    BY <1>1, <1>2, <2>1 DEF DeskInv, HolderWrites
  <2>2. CASE s = "failed"
    BY <1>1, <1>2, <2>2, DeskAssumption DEF DeskInv, HolderWrites
  <2> QED
    BY <2>1, <2>2
<1>8. BalanceIsLedger'
  <2>1. Credited' = Credited
    BY <1>2 DEF Credited
  <2>2. purse.balance = Cardinality(Credited) - Cardinality(Standing)
    BY DEF DeskInv, Book, BalanceIsLedger, Credited, Standing
  <2>3. purse'.balance = Cardinality(Credited') - Cardinality(Standing')
    BY <1>3, <1>4, <2>1, <2>2, LedgerFinite DEF DeskInv
  <2> QED
    BY <2>3 DEF BalanceIsLedger, Credited, Standing
<1>9. AckMeansCredited' /\ NoWalletNoRows' /\ ReservedIsHeld'
  BY <1>2, <1>4, <1>5 DEF DeskInv, DeskTypes, Book, AckMeansCredited, NoWalletNoRows, ReservedIsHeld
<1>10. RoomLeft'
  BY Zenon, <1>2, <1>3 DEF DeskInv, RoomLeft, Leaving
<1> QED
  BY <1>3, <1>6, <1>7, <1>8, <1>9, <1>10 DEF DeskInv, Book

(* Creating the wallet (or losing the race to create it) keeps the         *)
(* invariant.                                                              *)
LEMMA CreationKeeps ==
  ASSUME DeskInv, NEW c \in Calls, WalletCreated(c)
  PROVE  DeskInv'
<1>1. CASE purse.exists
  BY <1>1, EndsQuietly DEF WalletCreated
<1>2. CASE ~purse.exists
  <2>1. /\ purse' = [exists |-> TRUE, balance |-> 0, locked |-> 0] /\ End(c)
        /\ UNCHANGED <<deposited, outgoing, acked>>
    BY Zenon, <1>2 DEF WalletCreated
  <2>2. /\ purse'.balance = purse.balance /\ purse'.locked = purse.locked /\ purse'.exists
        /\ purse' \in [exists : BOOLEAN, balance : Nat, locked : Nat]
    BY <1>2, <2>1 DEF DeskInv, Book, NoWalletNoRows
  <2>3. DeskTypes'
    BY Zenon, <2>1, <2>2, EndEffect, NoCallRow DEF DeskInv, DeskTypes
  <2>4. HolderWrites'
    BY Zenon, <2>1, <2>2, EndEffect DEF DeskInv, HolderWrites
  <2>5. Book' /\ IdsDistinct'
    BY Zenon, <2>1, <2>2 DEF DeskInv, Book, NoWalletNoRows, BalanceIsLedger, AckMeansCredited,
                      ReservedIsHeld, IdsDistinct
  <2>6. RoomLeft'
    BY <2>1, EndEffect, LeavingFinite, LedgerFinite, DeskAssumption DEF DeskInv, RoomLeft
  <2> QED
    BY <2>3, <2>4, <2>5, <2>6 DEF DeskInv
<1> QED
  BY <1>1, <1>2

(* A reservation made by an order keeps the invariant.                     *)
LEMMA OrderKeeps ==
  ASSUME DeskInv, OrderReserves
  PROVE  DeskInv'
<1>1. /\ purse'.balance = purse.balance /\ purse'.exists = purse.exists
      /\ purse' \in [exists : BOOLEAN, balance : Nat, locked : Nat]
      /\ purse'.locked <= purse.balance
      /\ purse.exists
  BY DEF OrderReserves, DeskInv, DeskTypes, Book, ReservedIsHeld, NoWalletNoRows
<1>2. UNCHANGED <<deposited, outgoing, acked, call, walletLock>>
  BY DEF OrderReserves
<1>3. DeskTypes'
  BY <1>1, <1>2 DEF DeskInv, DeskTypes
<1>4. HolderWrites'
  BY <1>2, DeskAssumption DEF OrderReserves, DeskInv, HolderWrites
<1>5. Book' /\ IdsDistinct' /\ RoomLeft'
  BY Zenon, <1>1, <1>2 DEF DeskInv, Book, NoWalletNoRows, BalanceIsLedger, AckMeansCredited,
                    ReservedIsHeld, IdsDistinct, RoomLeft, Leaving
<1> QED
  BY <1>3, <1>4, <1>5 DEF DeskInv

-----------------------------------------------------------------------------
(* The inductive invariant holds in every reachable state of the wallet.   *)
LEMMA DeskInvariant == DeskSpec => []DeskInv
<1>1. DeskInit => DeskInv
  <2> SUFFICES ASSUME DeskInit PROVE DeskInv
    OBVIOUS
  <2>1. Leaving = {} /\ outgoing = {} /\ Credited = {} /\ Standing = {}
    BY NoCallRow DEF DeskInit, Leaving, Credited, Standing
  <2>2. DeskTypes /\ HolderWrites
    BY NoCallRow, FS_EmptySet DEF DeskInit, DeskTypes, HolderWrites
  <2>3. BalanceIsLedger
    BY <2>1, FS_EmptySet DEF DeskInit, BalanceIsLedger, Credited, Standing
  <2>4. NoWalletNoRows /\ AckMeansCredited /\ ReservedIsHeld /\ IdsDistinct
    BY DEF DeskInit, NoWalletNoRows, AckMeansCredited, ReservedIsHeld, IdsDistinct
  <2>5. RoomLeft
    BY <2>1, FS_EmptySet, DeskAssumption DEF RoomLeft
  <2> QED
    BY <2>2, <2>3, <2>4, <2>5 DEF DeskInv, Book
<1>2. DeskInv /\ [DeskNext]_deskVars => DeskInv'
  <2> SUFFICES ASSUME DeskInv, [DeskNext]_deskVars PROVE DeskInv'
    OBVIOUS
  <2>1. ASSUME NEW c \in Calls, NEW i \in Intents, WebhookDelivered(c, i) PROVE DeskInv'
    <3>1. CASE deposited[i] > 0
      <4>1. acked' = acked \cup {i} /\ UNCHANGED <<purse, deposited, outgoing, call, walletLock>>
        BY <2>1, <3>1 DEF WebhookDelivered
      <4> QED
        BY Zenon, <3>1, <4>1 DEF DeskInv, DeskTypes, HolderWrites, Book, NoWalletNoRows, BalanceIsLedger,
             AckMeansCredited, ReservedIsHeld, IdsDistinct, RoomLeft, Leaving
    <3>2. CASE ~(deposited[i] > 0)
      BY <2>1, <3>2, BeginsQuietly DEF WebhookDelivered
    <3> QED
      BY <3>1, <3>2
  <2>2. ASSUME NEW c \in Calls, WebhookNoWallet(c) \/ CallDies(c) PROVE DeskInv'
    BY Zenon, <2>2, EndsQuietly DEF WebhookNoWallet, CallDies
  <2>3. ASSUME NEW c \in Calls, WebhookLocks(c) PROVE DeskInv'
    BY <2>3, HoldsQuietly DEF WebhookLocks
  <2>4. ASSUME NEW c \in Calls, NEW k \in AnyKey, WithdrawAsked(c, k) PROVE DeskInv'
    BY Zenon, <2>4, BeginsQuietly DEF WithdrawAsked, Leaving
  <2>5. ASSUME NEW c \in Calls, WithdrawLocks(c) PROVE DeskInv'
    <3>1. CASE purse.exists /\ Affords
      BY <2>5, <3>1, HoldsQuietly DEF WithdrawLocks
    <3>2. CASE ~(purse.exists /\ Affords)
      BY <2>5, <3>2, EndsQuietly DEF WithdrawLocks
    <3> QED
      BY <3>1, <3>2
  <2>6. ASSUME NEW c \in Calls, WalletMissed(c) PROVE DeskInv'
    BY <2>6, BeginsQuietly DEF WalletMissed
  <2>7. CASE UNCHANGED deskVars
    BY Zenon, <2>7 DEF deskVars, DeskInv, DeskTypes, HolderWrites, Book, NoWalletNoRows, BalanceIsLedger,
         AckMeansCredited, ReservedIsHeld, IdsDistinct, RoomLeft, Leaving
  <2> QED
    BY <2>1, <2>2, <2>3, <2>4, <2>5, <2>6, <2>7, WebhookCommitKeeps, WithdrawCommitKeeps,
       RulingKeeps, CreationKeeps, OrderKeeps DEF DeskNext, AnyKey
<1> QED
  BY <1>1, <1>2, PTL DEF DeskSpec

(* However often and however closely together payments are delivered,      *)
(* withdrawals sent, confirmed and rejected, and calls killed, the balance *)
(* is the payments taken less the withdrawals that stand: stripe_webhook,  *)
(* withdraw and confirm_withdrawal lose and double nothing.                *)
THEOREM WalletBalances == DeskSpec => []BalanceIsLedger
BY DeskInvariant, PTL DEF DeskInv, Book

(* stripe_webhook acknowledges a payment only when it is on record.        *)
THEOREM AcksAreCredits == DeskSpec => []AckMeansCredited
BY DeskInvariant, PTL DEF DeskInv, Book

(* withdraw leaves what resting orders have reserved.                      *)
THEOREM ReservationsHeld == DeskSpec => []ReservedIsHeld
BY DeskInvariant, PTL DEF DeskInv, Book

(* The wallet and its rows keep their types: balance and reservation are   *)
(* never negative.                                                         *)
THEOREM DeskTyped == DeskSpec => []DeskTypeOK
<1>1. DeskInv => DeskTypeOK
  <2> SUFFICES ASSUME DeskInv PROVE DeskTypeOK
    OBVIOUS
  <2>1. Cardinality(outgoing) <= MaxOut
    BY LedgerFinite, LeavingFinite, DeskAssumption DEF DeskInv, RoomLeft
  <2>2. \A w \in outgoing : w \in OutRows /\ w.id \in 1..MaxOut
    BY <2>1, LedgerFinite, DeskAssumption DEF DeskInv, DeskTypes, OutRows, IdsDistinct
  <2>3. outgoing \subseteq [id : 1..MaxOut, key : Keys \cup {NoKey},
                          status : {"pending", "completed", "failed"}]
    BY <2>2 DEF OutRows, AnyKey
  <2> QED
    BY <2>3 DEF DeskInv, DeskTypes, DeskTypeOK
<1> QED
  BY <1>1, DeskInvariant, PTL

-----------------------------------------------------------------------------
(* POST /treasury/distribute *)

(* What a call has read covers what it asks for, and the log already       *)
(* accounts for what the row it has read had lost.                         *)
TreasuryInv ==
  /\ vault \in [balance : Nat, distributed : Nat] /\ vaultLog \in Nat
  /\ drawing \in [Admins -> SUBSET [seen : [balance : Nat, distributed : Nat], amount : Nat]]
  /\ \A a \in Admins : \A r \in drawing[a] :
       r.amount <= r.seen.balance /\ VaultStart - r.seen.balance <= vaultLog
  /\ NoDrawUnlogged

(* The inductive invariant holds in every reachable state of the treasury. *)
LEMMA TreasuryInvariant == TreasurySpec => []TreasuryInv
<1>1. TreasuryInit => TreasuryInv
  BY TreasuryAssumption DEF TreasuryInit, TreasuryInv, NoDrawUnlogged
<1>2. TreasuryInv /\ [TreasuryNext]_vaultVars => TreasuryInv'
  <2> SUFFICES ASSUME TreasuryInv, [TreasuryNext]_vaultVars PROVE TreasuryInv'
    OBVIOUS
  <2> USE DEF TreasuryInv, NoDrawUnlogged
  <2>1. ASSUME NEW a \in Admins, NEW n \in Draws, DistributeRead(a, n) PROVE TreasuryInv'
    <3>1. n \in Nat /\ [seen |-> vault, amount |-> n] \in
            [seen : [balance : Nat, distributed : Nat], amount : Nat]
      BY TreasuryAssumption
    <3> QED
      BY <2>1, <3>1, TreasuryAssumption DEF DistributeRead
  <2>2. ASSUME NEW a \in Admins, DistributeCommit(a) PROVE TreasuryInv'
    <3>1. PICK r \in drawing[a] :
            /\ vault' = [balance |-> r.seen.balance - r.amount,
                         distributed |-> r.seen.distributed + r.amount]
            /\ vaultLog' = vaultLog + r.amount
            /\ drawing' = [drawing EXCEPT ![a] = {}]
      BY <2>2 DEF DistributeCommit, Recorded
    <3>2. /\ r.amount \in Nat /\ r.seen.balance \in Nat /\ r.seen.distributed \in Nat
          /\ r.amount <= r.seen.balance /\ VaultStart - r.seen.balance <= vaultLog
      BY SMTT(30)
    <3>3. vault' \in [balance : Nat, distributed : Nat] /\ vaultLog' \in Nat
      BY <3>1, <3>2
    <3>4. VaultStart - vault'.balance <= vaultLog'
      BY <3>1, <3>2, TreasuryAssumption
    <3>5. \A b \in Admins : \A q \in drawing'[b] :
            q \in drawing[b] /\ q.seen.balance \in Nat
      BY <3>1
    <3>6. \A b \in Admins : \A q \in drawing'[b] :
            q.amount <= q.seen.balance /\ VaultStart - q.seen.balance <= vaultLog'
      BY <3>1, <3>2, <3>5, TreasuryAssumption
    <3> QED
      BY <3>1, <3>3, <3>4, <3>6
  <2>3. CASE UNCHANGED vaultVars
    BY <2>3 DEF vaultVars
  <2> QED
    BY Zenon, <2>1, <2>2, <2>3 DEF TreasuryNext
<1> QED
  BY <1>1, <1>2, PTL DEF TreasurySpec

(* Whatever admins withdraw at a time, the log accounts for every dollar   *)
(* the treasury row has lost.                                              *)
THEOREM DrawsAreLogged == TreasurySpec => []NoDrawUnlogged
BY TreasuryInvariant, PTL DEF TreasuryInv

(* distribute never overdraws the treasury, without a lock on its row.     *)
THEOREM TreasuryTyped == TreasurySpec => []TreasuryTypeOK
BY TreasuryInvariant, PTL DEF TreasuryInv, TreasuryTypeOK
=============================================================================
