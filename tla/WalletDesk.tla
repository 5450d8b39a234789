----------------------------- MODULE WalletDesk -----------------------------
(***************************************************************************)
(* Money that enters and leaves the platform: the wallet of a user with    *)
(* its deposits and withdrawals, and the withdrawals of the admins from    *)
(* the treasury. They share no state.                                      *)
(***************************************************************************)
EXTENDS Integers, FiniteSets

-----------------------------------------------------------------------------
(***************************************************************************)
(* The wallet of one user and what reaches it from outside the market: the *)
(* payment provider's webhook, withdrawals and their confirmation, and the *)
(* repair of a missing wallet.                                             *)
(*                                                                         *)
(* A webhook and a withdrawal look for a row with their reference, lock    *)
(* the wallet, and commit; two unique indexes, on the references of        *)
(* deposits and of keyed withdrawals, have the last word.  Anything may    *)
(* happen between those three steps.  A confirmation locks the withdrawal  *)
(* before it reads its status, so it is one step.                          *)
(***************************************************************************)

CONSTANTS
  Calls,      \* requests that may be in flight at a time
  Intents,    \* payments the provider has taken, one unit each
  Keys,       \* idempotency keys of withdrawals
  NoKey,
  MaxOut,     \* bound: withdrawals made
  MaxDeskFaults  \* bound: calls that die

VARIABLES
  purse,      \* the wallet row: exists, balance, locked
  deposited,  \* the deposit rows: how many carry each intent's reference
  outgoing,   \* the withdrawal rows
  acked,      \* intents the provider was told are done with
  call,       \* each call's kind, place and reference
  walletLock, \* the call that holds the wallet row
  deskFaults

deskVars == <<purse, deposited, outgoing, acked, call, walletLock, deskFaults>>

NoCall == [kind |-> "none", at |-> "none", ref |-> NoKey]

Unlocked == "unlocked"

ASSUME DeskAssumption ==
  /\ IsFiniteSet(Calls) /\ IsFiniteSet(Intents)
  /\ Unlocked \notin Calls /\ MaxOut \in Nat

Begin(c, kind, ref) ==
  call' = [call EXCEPT ![c] = [kind |-> kind, at |-> "checked", ref |-> ref]]

End(c) ==
  /\ call' = [call EXCEPT ![c] = NoCall]
  /\ walletLock' = IF walletLock = c THEN Unlocked ELSE walletLock

(* SELECT ... FOR UPDATE on the wallet. *)
Hold(c) ==
  /\ walletLock = Unlocked /\ walletLock' = c
  /\ call' = [call EXCEPT ![c].at = "holds"]

-----------------------------------------------------------------------------
(* stripe_webhook *)

(* Delivered once or more; a payment whose deposit is on record is         *)
(* acknowledged at once.                                                   *)
WebhookDelivered(c, i) ==
  /\ call[c] = NoCall
  /\ IF deposited[i] > 0
       THEN acked' = acked \cup {i} /\ UNCHANGED call
       ELSE Begin(c, "webhook", i) /\ UNCHANGED acked
  /\ UNCHANGED <<purse, deposited, outgoing, walletLock, deskFaults>>

(* Mutant of WebhookNoWallet: the provider is told not to come back. *)
WebhookNoWalletDropped(c) ==
  /\ call[c].kind = "webhook" /\ call[c].at = "checked" /\ ~purse.exists
  /\ acked' = acked \cup {call[c].ref}
  /\ End(c)
  /\ UNCHANGED <<purse, deposited, outgoing, deskFaults>>

(* 500: the provider delivers again. *)
WebhookNoWallet(c) ==
  /\ call[c].kind = "webhook" /\ call[c].at = "checked" /\ ~purse.exists
  /\ End(c)
  /\ UNCHANGED <<purse, deposited, outgoing, acked, deskFaults>>

WebhookLocks(c) ==
  /\ call[c].kind = "webhook" /\ call[c].at = "checked" /\ purse.exists
  /\ Hold(c)
  /\ UNCHANGED <<purse, deposited, outgoing, acked, deskFaults>>

(* Mutant of DepositTaken: no unique index on the reference. *)
DepositTakenNever(i) == FALSE

(* uq_transactions_deposit_ref *)
DepositTaken(i) == deposited[i] > 0

(* A second row with the reference is refused, and the answer is the same. *)
WebhookCommits(c) ==
  LET i == call[c].ref IN
  /\ call[c].kind = "webhook" /\ call[c].at = "holds"
  /\ IF DepositTaken(i)
       THEN UNCHANGED <<purse, deposited>>
       ELSE /\ purse' = [purse EXCEPT !.balance = @ + 1]
            /\ deposited' = [deposited EXCEPT ![i] = @ + 1]
  /\ acked' = acked \cup {i}
  /\ End(c)
  /\ UNCHANGED <<outgoing, deskFaults>>

-----------------------------------------------------------------------------
(* WalletService.withdraw and confirm_withdrawal *)

KeyUsed(k) == k # NoKey /\ \E w \in outgoing : w.key = k

WithdrawAsked(c, k) ==
  /\ call[c] = NoCall
  /\ Cardinality(outgoing) + Cardinality({d \in Calls : call[d].kind = "withdraw"}) < MaxOut
  /\ ~KeyUsed(k)
  /\ Begin(c, "withdraw", k)
  /\ UNCHANGED <<purse, deposited, outgoing, acked, walletLock, deskFaults>>

(* Mutant of Affords: money reserved by resting orders counts. *)
AffordsLocked == 1 <= purse.balance

Affords == 1 <= purse.balance - purse.locked

WithdrawLocks(c) ==
  /\ call[c].kind = "withdraw" /\ call[c].at = "checked"
  /\ walletLock = Unlocked
  /\ IF purse.exists /\ Affords THEN Hold(c) ELSE End(c)
  /\ UNCHANGED <<purse, deposited, outgoing, acked, deskFaults>>

(* uq_transactions_withdrawal_ref refuses a second row with the key. *)
WithdrawCommits(c) ==
  LET k == call[c].ref IN
  /\ call[c].kind = "withdraw" /\ call[c].at = "holds"
  /\ IF KeyUsed(k)
       THEN UNCHANGED <<purse, outgoing>>
       ELSE /\ purse' = [purse EXCEPT !.balance = @ - 1]
            /\ outgoing' = outgoing \cup
                 {[id |-> Cardinality(outgoing) + 1, key |-> k, status |-> "pending"]}
  /\ End(c)
  /\ UNCHANGED <<deposited, acked, deskFaults>>

Pending(w) == w.status = "pending"

Confirm(w) ==
  /\ Pending(w)
  /\ outgoing' = (outgoing \ {w}) \cup {[w EXCEPT !.status = "completed"]}
  /\ UNCHANGED <<purse, deposited, acked, call, walletLock, deskFaults>>

(* The debit made when the withdrawal was asked for is given back. *)
Reject(w) ==
  /\ Pending(w) /\ walletLock = Unlocked
  /\ outgoing' = (outgoing \ {w}) \cup {[w EXCEPT !.status = "failed"]}
  /\ purse' = [purse EXCEPT !.balance = @ + 1]
  /\ UNCHANGED <<deposited, acked, call, walletLock, deskFaults>>

-----------------------------------------------------------------------------
(* WalletService.get_or_create_wallet, when the read found none *)

WalletMissed(c) ==
  /\ call[c] = NoCall /\ ~purse.exists
  /\ Begin(c, "create", NoKey)
  /\ UNCHANGED <<purse, deposited, outgoing, acked, walletLock, deskFaults>>

(* The loser of two creations reads the winner's row. *)
WalletCreated(c) ==
  /\ call[c].kind = "create"
  /\ purse' = IF purse.exists THEN purse ELSE [exists |-> TRUE, balance |-> 0, locked |-> 0]
  /\ End(c)
  /\ UNCHANGED <<deposited, outgoing, acked, deskFaults>>

(* An order reserves money of the wallet, or gives it back. *)
OrderReserves ==
  /\ walletLock = Unlocked
  /\ \/ purse.locked < purse.balance /\ purse' = [purse EXCEPT !.locked = @ + 1]
     \/ purse.locked > 0 /\ purse' = [purse EXCEPT !.locked = @ - 1]
  /\ UNCHANGED <<deposited, outgoing, acked, call, walletLock, deskFaults>>

(* The process dies, or the database refuses the commit: nothing is kept. *)
CallDies(c) ==
  /\ call[c] # NoCall /\ deskFaults < MaxDeskFaults
  /\ deskFaults' = deskFaults + 1
  /\ End(c)
  /\ UNCHANGED <<purse, deposited, outgoing, acked>>

-----------------------------------------------------------------------------
(* Signup provisions the wallet, but for users who predate that code. *)
DeskInit ==
  /\ purse \in [exists : BOOLEAN, balance : {0}, locked : {0}]
  /\ deposited = [i \in Intents |-> 0]
  /\ outgoing = {} /\ acked = {}
  /\ call = [c \in Calls |-> NoCall] /\ walletLock = Unlocked
  /\ deskFaults = 0

DeskNext ==
  \/ \E c \in Calls :
       \/ \E i \in Intents : WebhookDelivered(c, i)
       \/ WebhookNoWallet(c) \/ WebhookLocks(c) \/ WebhookCommits(c)
       \/ \E k \in Keys \cup {NoKey} : WithdrawAsked(c, k)
       \/ WithdrawLocks(c) \/ WithdrawCommits(c)
       \/ WalletMissed(c) \/ WalletCreated(c) \/ CallDies(c)
  \/ \E w \in outgoing : Confirm(w) \/ Reject(w)
  \/ OrderReserves

DeskSpec == DeskInit /\ [][DeskNext]_deskVars

-----------------------------------------------------------------------------
(* Properties *)

(* Every variable keeps its type. *)
DeskTypeOK ==
  /\ purse \in [exists : BOOLEAN, balance : Nat, locked : Nat]
  /\ deposited \in [Intents -> Nat] /\ acked \subseteq Intents
  /\ outgoing \subseteq [id : 1..MaxOut, key : Keys \cup {NoKey},
                         status : {"pending", "completed", "failed"}]
  /\ walletLock \in Calls \cup {Unlocked}

(* The balance is the payments taken less the withdrawals not rejected:    *)
(* each payment counts once however often and however closely together it  *)
(* is delivered, and a rejected withdrawal is given back once.             *)
(* (stripe_webhook, withdraw, confirm_withdrawal, get_or_create_wallet)    *)
BalanceIsLedger ==
  purse.balance = Cardinality({i \in Intents : deposited[i] > 0})
                    - Cardinality({w \in outgoing : w.status # "failed"})

(* The provider is told that a payment is done with only when the wallet   *)
(* was credited; until then it delivers again.  (stripe_webhook)           *)
AckMeansCredited == \A i \in acked : deposited[i] > 0

(* A withdrawal leaves alone what resting orders have reserved, whatever   *)
(* reserved it between the request and its lock.  (withdraw)               *)
ReservedIsHeld == purse.locked <= purse.balance

-----------------------------------------------------------------------------
(***************************************************************************)
(* POST /treasury/distribute: an admin's withdrawal reads the treasury row *)
(* without a lock, compares, and writes back balance and total together    *)
(* with a row of the log.                                                  *)
(***************************************************************************)

CONSTANTS
  Admins,
  VaultStart,   \* the balance at the start
  Draws         \* amounts an admin may withdraw

ASSUME TreasuryAssumption == VaultStart \in Nat /\ Draws \subseteq Nat

VARIABLES
  vault,     \* the treasury row: balance and total_fees_distributed
  vaultLog,  \* the sum of the TreasuryLog rows
  drawing    \* what each admin's call has read, and the amount it asks for

vaultVars == <<vault, vaultLog, drawing>>

(* _get_or_create_treasury, and the comparison; a refusal changes nothing. *)
DistributeRead(a, n) ==
  /\ drawing[a] = {} /\ vault.balance >= n
  /\ drawing' = [drawing EXCEPT ![a] = {[seen |-> vault, amount |-> n]}]
  /\ UNCHANGED <<vault, vaultLog>>

(* Mutant of Recorded: the log is not written. *)
RecordedNot(r) == 0

(* The amount of the TreasuryLog row. *)
Recorded(r) == r.amount

DistributeCommit(a) ==
  \E r \in drawing[a] :
    /\ vault' = [balance |-> r.seen.balance - r.amount,
                 distributed |-> r.seen.distributed + r.amount]
    /\ vaultLog' = vaultLog + Recorded(r)
    /\ drawing' = [drawing EXCEPT ![a] = {}]

TreasuryInit ==
  /\ vault = [balance |-> VaultStart, distributed |-> 0]
  /\ vaultLog = 0 /\ drawing = [a \in Admins |-> {}]

TreasuryNext ==
  \E a \in Admins : DistributeCommit(a) \/ \E n \in Draws : DistributeRead(a, n)

TreasurySpec == TreasuryInit /\ [][TreasuryNext]_vaultVars

(* The row keeps its type: whatever two admins do at a time, the treasury  *)
(* is not overdrawn, for each writes what it compared.                     *)
TreasuryTypeOK ==
  /\ vault \in [balance : Nat, distributed : Nat]
  /\ vaultLog \in Nat

(* The log accounts for every dollar the row has lost, or for more: no     *)
(* withdrawal goes unrecorded, two admins at a time included.              *)
NoDrawUnlogged == VaultStart - vault.balance <= vaultLog

(* Refuted: the log adds up to what the row says was distributed.  Two     *)
(* withdrawals that read the same row are both logged and one is kept.     *)
LogIsTreasury == vaultLog = vault.distributed

=============================================================================
