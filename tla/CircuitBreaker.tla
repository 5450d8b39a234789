--------------------------- MODULE CircuitBreaker ---------------------------
(***************************************************************************)
(* RedisCircuitBreaker (app/redis.py): the asyncio circuit breaker every   *)
(* Redis operation of one API or worker process goes through.              *)
(*                                                                         *)
(* The process is a single event loop, so a step runs from one suspension  *)
(* point to the next: waiting for _lock, waiting for _half_open_sem while  *)
(* holding _lock, and the Redis I/O itself.                                *)
(***************************************************************************)
EXTENDS Integers

CONSTANTS
  Callers,      \* coroutines that share the breaker
  Threshold,    \* failure_threshold
  MaxFailures,  \* bound on the failure counter explored by TLC
  None          \* no holder

ASSUME BreakerAssumption ==
  /\ Threshold \in Nat \ {0}
  /\ MaxFailures \in Nat
  /\ None \notin Callers

VARIABLES
  place,        \* place[c]: where coroutine c is suspended
  state,     \* _state
  failures,  \* _failures
  cooled,    \* time.time() - _last_failure >= recovery_timeout
  lock,      \* holder of _lock across a suspension
  sem        \* holder of the one permit of _half_open_sem

breakerVars == <<place, state, failures, cooled, lock, sem>>

Places == {"idle", "enter", "sem", "op", "ok", "fail"}

(* Every variable keeps its type; the failure counter never goes below 0. *)
BreakerTypeOK ==
  /\ place \in [Callers -> Places]
  /\ state \in {"closed", "open", "half_open"}
  /\ failures \in Nat
  /\ cooled \in BOOLEAN
  /\ lock \in Callers \cup {None}
  /\ sem \in Callers \cup {None}

BreakerInit ==
  /\ place = [c \in Callers |-> "idle"]
  /\ state = "closed"
  /\ failures = 0
  /\ cooled = TRUE
  /\ lock = None
  /\ sem = None

Goto(c, l) == place' = [place EXCEPT ![c] = l]

Call(c) ==
  /\ place[c] = "idle"
  /\ Goto(c, "enter")
  /\ UNCHANGED <<state, failures, cooled, lock, sem>>

(* The first critical section: decide whether the operation may run. *)
Enter(c) ==
  /\ place[c] = "enter"
  /\ lock = None
  /\ UNCHANGED <<failures, cooled>>
  /\ \/ /\ state = "open" /\ ~cooled          \* "Redis circuit breaker open"
        /\ Goto(c, "idle")
        /\ UNCHANGED <<state, lock, sem>>
     \/ /\ state = "open" /\ cooled           \* this caller is the probe
        /\ state' = "half_open"
        /\ Goto(c, "op")
        /\ UNCHANGED <<lock, sem>>
     \/ /\ state = "half_open" /\ sem = None
        /\ sem' = c
        /\ Goto(c, "op")
        /\ UNCHANGED <<state, lock>>
     \/ /\ state = "half_open" /\ sem # None  \* suspended inside the lock
        /\ lock' = c
        /\ Goto(c, "sem")
        /\ UNCHANGED <<state, sem>>
     \/ /\ state = "closed"
        /\ Goto(c, "op")
        /\ UNCHANGED <<state, lock, sem>>

AcquireSem(c) ==
  /\ place[c] = "sem"
  /\ sem = None
  /\ sem' = c
  /\ lock' = None
  /\ Goto(c, "op")
  /\ UNCHANGED <<state, failures, cooled>>

(* The Redis operation answers; a failed one while the counter may grow. *)
Answer(c) ==
  /\ place[c] = "op"
  /\ \/ Goto(c, "ok")
     \/ failures < MaxFailures /\ Goto(c, "fail")
  /\ UNCHANGED <<state, failures, cooled, lock, sem>>

(* The permit after c's `finally`. *)
Released(c) == IF sem = c THEN None ELSE sem

(* Mutant of RecordSuccess: the counter is reset, the state is not. *)
RecordSuccessStaysOpen(c) ==
  /\ place[c] = "ok"
  /\ lock = None
  /\ failures' = 0
  /\ sem' = Released(c)
  /\ Goto(c, "idle")
  /\ UNCHANGED <<state, cooled, lock>>

RecordSuccess(c) ==
  /\ place[c] = "ok"
  /\ lock = None
  /\ failures' = 0
  /\ state' = "closed"
  /\ sem' = Released(c)
  /\ Goto(c, "idle")
  /\ UNCHANGED <<cooled, lock>>

(* Mutant of RecordFailure: a failed probe keeps the half-open permit. *)
RecordFailureKeepsPermit(c) ==
  /\ place[c] = "fail"
  /\ lock = None
  /\ failures' = failures + 1
  /\ cooled' = FALSE
  /\ state' = IF failures' >= Threshold THEN "open" ELSE state
  /\ Goto(c, "idle")
  /\ UNCHANGED <<lock, sem>>

RecordFailure(c) ==
  /\ place[c] = "fail"
  /\ lock = None
  /\ failures' = failures + 1
  /\ cooled' = FALSE
  /\ state' = IF failures' >= Threshold THEN "open" ELSE state
  /\ sem' = Released(c)
  /\ Goto(c, "idle")
  /\ UNCHANGED lock

(* The caller's task is cancelled at a suspension point (the publish       *)
(* writers and background tasks are, when the process stops).              *)
(* CancelledError is no Exception: nothing is counted, `async with` and    *)
(* `finally` give back what c holds.                                       *)
Cancel(c) ==
  /\ place[c] # "idle"
  /\ lock' = IF lock = c THEN None ELSE lock
  /\ sem' = Released(c)
  /\ Goto(c, "idle")
  /\ UNCHANGED <<state, failures, cooled>>

(* recovery_timeout passes since the last failure. *)
Cool ==
  /\ ~cooled
  /\ cooled' = TRUE
  /\ UNCHANGED <<place, state, failures, lock, sem>>

Step(c) ==
  \/ Enter(c) \/ AcquireSem(c) \/ Answer(c)
  \/ RecordSuccess(c) \/ RecordFailure(c)

BreakerNext == Cool \/ \E c \in Callers : Call(c) \/ Step(c) \/ Cancel(c)

BreakerSpec == BreakerInit /\ [][BreakerNext]_breakerVars

BreakerFairSpec == BreakerSpec /\ WF_breakerVars(Cool) /\ \A c \in Callers : SF_breakerVars(Step(c))

-----------------------------------------------------------------------------
(* The breaker has left "closed" only on Threshold consecutive failures,   *)
(* so a failed probe always reopens it (the `_failures` counter is not     *)
(* reset by the open -> half_open transition of `call`).                   *)
NotClosedAfterFailures == state # "closed" => failures >= Threshold

(* The half-open permit is held only by a coroutine that is in its         *)
(* operation or about to record its answer: whatever the answer, the       *)
(* `finally` of `call` gives the permit back.                              *)
PermitNeverLeaks == sem # None => place[sem] \in {"op", "ok", "fail"}

(* _lock survives a suspension only in a coroutine that waits for the      *)
(* half-open permit: no Redis I/O of its own runs under the lock           *)
(* ("Lock is NOT held during I/O", redis.py).                              *)
LockOnlyWhileWaiting ==
  \A c \in Callers : lock = c <=> place[c] = "sem"

(* Every breaker call ends, with the operation's result or an exception:   *)
(* `call` is awaited on the request path of every endpoint.                *)
CallReturns == \A c \in Callers : place[c] # "idle" ~> place[c] = "idle"
=============================================================================
