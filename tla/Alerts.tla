------------------------------- MODULE Alerts -------------------------------
(***************************************************************************)
(* Price alerts of one market: rows in the database, an index of the       *)
(* untriggered ones in Redis, and the workers that check a new price.      *)
(*                                                                         *)
(* A check claims the due alerts out of the index in one script, flips     *)
(* their rows in a transaction of its own, and tells the owners one by     *)
(* one; the first notice commits the transaction with all its flips.  The  *)
(* index is rebuilt from the rows when a claim finds nothing, and when a   *)
(* check fails.                                                            *)
(***************************************************************************)
EXTENDS Integers

CONSTANTS Alerts, AlertWorkers,
          DueSets,         \* the alerts that are due at each price
          MaxAlertFaults   \* bound: failures of Redis, and of workers

ASSUME DueSetsAssumption == DueSets \subseteq SUBSET Alerts

VARIABLES
  alert,     \* the row of each alert
  zset,      \* the index: alerts a claim may find
  pending,   \* writes to the index that follow a commit of the API
  check,     \* each worker's place, due alerts, claim, flips and debts
  notices,   \* notifications stored for each alert
  alertFaults

alertVars == <<alert, zset, pending, check, notices, alertFaults>>

NoCheck == [at |-> "idle", due |-> {}, claimed |-> {}, flips |-> {}, owed |-> {}]

Armed == {a \in Alerts : alert[a] = "armed"}

(* Rows a worker has flipped and not committed. *)
RowsHeld(ws) == UNION {check[w].flips : w \in ws}

AlertFault == alertFaults < MaxAlertFaults /\ alertFaults' = alertFaults + 1

-----------------------------------------------------------------------------
(* api/alerts.py *)

create_alert(a) ==
  /\ alert[a] = "none"
  /\ alert' = [alert EXCEPT ![a] = "armed"]
  /\ pending' = pending \cup {[op |-> "index", on |-> a]}
  /\ UNCHANGED <<zset, check, notices, alertFaults>>

delete_alert(a) ==
  /\ alert[a] \in {"armed", "triggered"} /\ a \notin RowsHeld(AlertWorkers)
  /\ alert' = [alert EXCEPT ![a] = "deleted"]
  /\ pending' = pending \cup {[op |-> "deindex", on |-> a]}
  /\ UNCHANGED <<zset, check, notices, alertFaults>>

(* index_alert and deindex_alert... *)
IndexWritten(p) ==
  /\ p \in pending /\ pending' = pending \ {p}
  /\ zset' = IF p.op = "index" THEN zset \cup {p.on} ELSE zset \ {p.on}
  /\ UNCHANGED <<alert, check, notices, alertFaults>>

(* ... which are best effort. *)
IndexLost(p) ==
  /\ p \in pending /\ pending' = pending \ {p}
  /\ AlertFault
  /\ UNCHANGED <<alert, zset, check, notices>>

-----------------------------------------------------------------------------
(* check_price_alerts *)

(* claim_due_alerts: found and removed in one script. *)
Claim(w, due, next) ==
  /\ zset' = zset \ due
  /\ check' = [check EXCEPT ![w] =
                 IF zset \cap due = {} /\ next = "idle" THEN NoCheck
                 ELSE [NoCheck EXCEPT !.at = IF zset \cap due = {} THEN next ELSE "mark",
                                   !.due = due, !.claimed = zset \cap due]]

CheckClaims(w, due) ==
  /\ check[w].at = "idle"
  /\ Claim(w, due, "read")
  /\ UNCHANGED <<alert, pending, notices, alertFaults>>

(* reindex_market_alerts: reads the rows... *)
ReindexReads(w) ==
  /\ check[w].at = "read"
  /\ check' = [check EXCEPT ![w] = IF Armed = {} THEN NoCheck
                                   ELSE [check[w] EXCEPT !.at = "write", !.claimed = Armed]]
  /\ UNCHANGED <<alert, zset, pending, notices, alertFaults>>

(* ... then writes the index, and a failure to do so ends the check. *)
ReindexWrites(w) ==
  /\ check[w].at = "write"
  /\ \/ /\ zset' = zset \cup check[w].claimed
        /\ check' = [check EXCEPT ![w].at = "again", ![w].claimed = {}]
        /\ UNCHANGED alertFaults
     \/ /\ check' = [check EXCEPT ![w] = NoCheck]
        /\ AlertFault /\ UNCHANGED zset
  /\ UNCHANGED <<alert, pending, notices>>

CheckClaimsAgain(w) ==
  /\ check[w].at = "again"
  /\ Claim(w, check[w].due, "idle")
  /\ UNCHANGED <<alert, pending, notices, alertFaults>>

(* Mutant of Won: the claim is taken for the row. *)
WonByClaim(w) == check[w].claimed

(* UPDATE ... WHERE triggered = false *)
Won(w) == check[w].claimed \cap Armed

(* mark_triggered waits for rows another worker has flipped. *)
mark_triggered(w) ==
  /\ check[w].at = "mark"
  /\ check[w].claimed \cap RowsHeld(AlertWorkers \ {w}) = {}
  /\ check' = [check EXCEPT ![w] =
                 IF Won(w) = {} THEN NoCheck
                 ELSE [@ EXCEPT !.at = "tell", !.flips = Won(w), !.owed = Won(w)]]
  /\ UNCHANGED <<alert, zset, pending, notices, alertFaults>>

(* Mutant of Flipped: the notice has a transaction of its own. *)
FlippedAtEnd(w) == alert

(* The commit of a notice takes the flips with it. *)
Flipped(w) == [a \in Alerts |-> IF a \in check[w].flips THEN "triggered" ELSE alert[a]]

Dispatch(w, a) ==
  /\ check[w].at = "tell" /\ a \in check[w].owed /\ alert[a] # "deleted"
  /\ notices' = [notices EXCEPT ![a] = @ + 1]
  /\ alert' = Flipped(w)
  /\ check' = [check EXCEPT ![w].flips = {},
                            ![w].owed = @ \ {a}]
  /\ UNCHANGED <<zset, pending, alertFaults>>

(* The frame cannot be published: the notice is skipped with it. *)
DispatchSkipped(w, a) ==
  /\ check[w].at = "tell" /\ a \in check[w].owed
  /\ AlertFault
  /\ check' = [check EXCEPT ![w].owed = @ \ {a}]
  /\ UNCHANGED <<alert, zset, pending, notices>>

CheckEnds(w) ==
  /\ check[w].at = "tell" /\ check[w].owed = {}
  /\ alert' = [a \in Alerts |-> IF a \in check[w].flips THEN "triggered" ELSE alert[a]]
  /\ check' = [check EXCEPT ![w] = NoCheck]
  /\ UNCHANGED <<zset, pending, notices, alertFaults>>

(* An exception: what is not committed is rolled back, and the index       *)
(* rebuilt from the rows. *)
RollBack(w) == check' = [check EXCEPT ![w] = [NoCheck EXCEPT !.at = "repair", !.claimed = Armed]]

CheckRaises(w) ==
  /\ check[w].at \notin {"idle", "repair"} /\ AlertFault
  /\ RollBack(w)
  /\ UNCHANGED <<alert, zset, pending, notices>>

(* The stamp of an alert deleted since the first notice matches no row:    *)
(* the session refuses everything that follows, the last commit included.  *)
DispatchDeleted(w, a) ==
  /\ check[w].at = "tell" /\ a \in check[w].owed /\ alert[a] = "deleted"
  /\ RollBack(w)
  /\ UNCHANGED <<alert, zset, pending, notices, alertFaults>>

IndexRepaired(w) ==
  /\ check[w].at = "repair"
  /\ \/ zset' = zset \cup check[w].claimed /\ UNCHANGED alertFaults
     \/ AlertFault /\ UNCHANGED zset
  /\ check' = [check EXCEPT ![w] = NoCheck]
  /\ UNCHANGED <<alert, pending, notices>>

(* The worker is killed; the broker delivers the price again. *)
CheckKilled(w) ==
  /\ check[w].at # "idle" /\ AlertFault
  /\ check' = [check EXCEPT ![w] = NoCheck]
  /\ UNCHANGED <<alert, zset, pending, notices>>

-----------------------------------------------------------------------------
AlertsInit ==
  /\ alert = [a \in Alerts |-> "none"] /\ zset = {} /\ pending = {}
  /\ check = [w \in AlertWorkers |-> NoCheck]
  /\ notices = [a \in Alerts |-> 0] /\ alertFaults = 0

AlertsNext ==
  \/ \E a \in Alerts : create_alert(a) \/ delete_alert(a)
  \/ \E p \in pending : IndexWritten(p) \/ IndexLost(p)
  \/ \E w \in AlertWorkers :
       \/ \E due \in DueSets : CheckClaims(w, due)
       \/ ReindexReads(w) \/ ReindexWrites(w) \/ CheckClaimsAgain(w)
       \/ mark_triggered(w) \/ CheckEnds(w) \/ CheckRaises(w) \/ CheckKilled(w)
       \/ IndexRepaired(w)
       \/ \E a \in Alerts : Dispatch(w, a) \/ DispatchSkipped(w, a) \/ DispatchDeleted(w, a)

AlertsSpec == AlertsInit /\ [][AlertsNext]_alertVars

-----------------------------------------------------------------------------
(* Properties *)

(* Every variable keeps its type; a row is flipped by one worker at a time. *)
AlertsTypeOK ==
  /\ alert \in [Alerts -> {"none", "armed", "triggered", "deleted"}]
  /\ zset \subseteq Alerts /\ notices \in [Alerts -> Nat]
  /\ \A w \in AlertWorkers :
       /\ check[w].at \in {"idle", "read", "write", "again", "mark", "tell", "repair"}
       /\ check[w].flips \cap RowsHeld(AlertWorkers \ {w}) = {}

(* Nobody is told of an alert twice, however claims, rebuilt indexes,      *)
(* failing and killed workers interleave.  (exactly-once firing of         *)
(* alert_engine)                                                           *)
ToldOnce == \A a \in Alerts : notices[a] <= 1

(* An owner who was told of an alert will not see it listed as active: the *)
(* flip is durable when the notice is.  (the commit inside create_in_app)  *)
ToldMeansTriggered == \A a \in Alerts : notices[a] > 0 => alert[a] \in {"triggered", "deleted"}

(* Refuted: an alert that was triggered has been told, once no check is at *)
(* work.  The first notice commits all the flips, and a worker killed      *)
(* before the last, or a frame that cannot be published, loses the others. *)
TriggeredIsTold ==
  (\A w \in AlertWorkers : check[w].at = "idle")
    => \A a \in Alerts : alert[a] = "triggered" => notices[a] > 0

=============================================================================
