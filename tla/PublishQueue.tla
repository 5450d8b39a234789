---------------------------- MODULE PublishQueue ----------------------------
(***************************************************************************)
(* PublishDispatcher (app/websocket/publish_queue.py) and the publishing   *)
(* half of RedisPubSub that feeds it: two bounded queues, a fixed pool of  *)
(* writer tasks on one event loop, and the resync debts of clients whose   *)
(* critical frames overflowed.                                             *)
(*                                                                         *)
(* An action is what a task does between two awaits: nothing else runs in  *)
(* it.  A frame is its position in log; a market-scoped frame gets its seq *)
(* when a writer's script runs, INCR and PUBLISH in one step.  One market  *)
(* is modelled, with its prices, its books and the fills of its traders.   *)
(* The event _wake only shortens the one-second wait of an idle writer     *)
(* (wait_for with a timeout), so it is not part of the state.              *)
(***************************************************************************)
EXTENDS Naturals, Sequences, FiniteSets

CONSTANTS
  Writers,
  Clients,
  Market,        \* the destination of market-scoped frames
  CriticalMax,   \* publish_queue_critical
  EphemeralMax,  \* publish_queue_ephemeral
  RedisMayFail,  \* whether a write to Redis may fail
  MaxFrames      \* bound: frames ever offered

ASSUME QueueAssumption ==
  /\ Market \notin Clients
  /\ CriticalMax \in Nat \ {0} /\ EphemeralMax \in Nat \ {0}
  /\ RedisMayFail \in BOOLEAN /\ MaxFrames \in Nat

VARIABLES
  log,        \* every frame offered, in order
  fate,       \* what became of each of them
  critical,   \* _critical
  ephemeral,  \* _ephemeral
  owed,       \* _owed_resyncs
  at,         \* where each writer is
  sending,    \* the frame a writer is sending
  batch,      \* the debts a writer is flushing
  published,  \* frames Redis accepted and their seqs, in its order
  seq,        \* the market's counter in Redis
  told        \* clients sent a resync marker since their last spill

queueVars == <<log, fate, critical, ephemeral, owed, at, sending, batch,
          published, seq, told>>

FrameIds == 1..MaxFrames

Frames == [type : {"price", "book"}, to : {Market}] \cup [type : {"fill"}, to : Clients]

Fates == {"none", "queued", "sending", "published", "failed", "spilled",
          "coalesced", "discarded"}

IsCritical(frame) == frame.type \in {"book", "fill"}

Offered == 1..Len(log)

-----------------------------------------------------------------------------
(* enqueue *)

CriticalFull == Len(critical) >= CriticalMax

(* Mutant of Spill: the frame is dropped and nobody is owed anything. *)
SpillForgotten(f, frame) ==
  /\ fate' = [fate EXCEPT ![f] = "spilled"]
  /\ told' = told \ {frame.to}
  /\ UNCHANGED <<critical, ephemeral, owed>>

(* _spill: a private frame leaves a debt, a market-scoped one a log line. *)
Spill(f, frame) ==
  /\ fate' = [fate EXCEPT ![f] = "spilled"]
  /\ told' = told \ {frame.to}
  /\ owed' = IF frame.to = Market THEN owed ELSE owed \cup {frame.to}
  /\ UNCHANGED <<critical, ephemeral>>

OfferCritical(f, frame) ==
  IF CriticalFull
    THEN Spill(f, frame)
    ELSE /\ critical' = Append(critical, f)
         /\ fate' = [fate EXCEPT ![f] = "queued"]
         /\ UNCHANGED <<ephemeral, owed, told>>

(* The oldest price makes room for the newest. *)
OfferEphemeral(f) ==
  /\ IF Len(ephemeral) >= EphemeralMax
       THEN /\ ephemeral' = Append(Tail(ephemeral), f)
            /\ fate' = [fate EXCEPT ![f] = "queued", ![Head(ephemeral)] = "coalesced"]
       ELSE /\ ephemeral' = Append(ephemeral, f)
            /\ fate' = [fate EXCEPT ![f] = "queued"]
  /\ UNCHANGED <<critical, owed, told>>

Enqueue(frame) ==
  /\ Len(log) < MaxFrames
  /\ log' = Append(log, frame)
  /\ IF IsCritical(frame) THEN OfferCritical(Len(log) + 1, frame)
                          ELSE OfferEphemeral(Len(log) + 1)
  /\ UNCHANGED <<at, sending, batch, published, seq>>

-----------------------------------------------------------------------------
(* The writers *)

Empty == critical = <<>> /\ ephemeral = <<>>

(* _next: f is the first critical frame, or else the first other one. *)
Pop(f) ==
  \/ /\ critical # <<>>
     /\ f = Head(critical) /\ critical' = Tail(critical)
     /\ UNCHANGED ephemeral
  \/ /\ critical = <<>> /\ ephemeral # <<>>
     /\ f = Head(ephemeral) /\ ephemeral' = Tail(ephemeral)
     /\ UNCHANGED critical

Take(w) ==
  /\ at[w] = "run"
  /\ \E f \in Offered :
       /\ Pop(f)
       /\ fate' = [fate EXCEPT ![f] = "sending"]
       /\ sending' = [sending EXCEPT ![w] = f]
  /\ at' = [at EXCEPT ![w] = "send"]
  /\ UNCHANGED <<log, owed, batch, published, seq, told>>

(* The send returns: written, or failed and logged. *)
Sent(w) ==
  LET f == sending[w] IN
  /\ at[w] = "send"
  /\ \/ /\ seq' = IF log[f].to = Market THEN seq + 1 ELSE seq
        /\ published' = Append(published, [frame |-> f, seq |-> seq'])
        /\ fate' = [fate EXCEPT ![f] = "published"]
     \/ /\ RedisMayFail
        /\ fate' = [fate EXCEPT ![f] = "failed"]
        /\ UNCHANGED <<published, seq>>
  /\ at' = [at EXCEPT ![w] = "run"]
  /\ UNCHANGED <<log, critical, ephemeral, owed, sending, batch, told>>

(* Nothing to send: the debts are taken first. *)
Flush(w) ==
  /\ at[w] = "run" /\ Empty /\ owed # {}
  /\ batch' = [batch EXCEPT ![w] = owed]
  /\ owed' = {}
  /\ at' = [at EXCEPT ![w] = "flush"]
  /\ UNCHANGED <<log, fate, critical, ephemeral, sending, published, seq, told>>

(* One marker goes out; a failed one is logged and not owed again. *)
SendResync(w) ==
  /\ at[w] = "flush"
  /\ \E u \in batch[w] :
       /\ batch' = [batch EXCEPT ![w] = @ \ {u}]
       /\ told' = told \cup {u}
  /\ UNCHANGED <<log, fate, critical, ephemeral, owed, at, sending, published, seq>>

(* The wake flag is cleared and the queues are looked at once more, with   *)
(* _next(), whose frame is not kept.                                       *)
Recheck(w) ==
  /\ IF Empty
       THEN /\ at' = [at EXCEPT ![w] = "idle"]
            /\ UNCHANGED <<critical, ephemeral, fate>>
       ELSE /\ at' = [at EXCEPT ![w] = "run"]
            /\ \E f \in Offered :
                 Pop(f) /\ fate' = [fate EXCEPT ![f] = "discarded"]
  /\ UNCHANGED <<log, owed, sending, batch, published, seq, told>>

(* With no debts the flush does not yield, and the two looks are one step. *)
Idle(w) ==
  /\ \/ at[w] = "run" /\ Empty /\ owed = {}
     \/ at[w] = "flush" /\ batch[w] = {}
  /\ Recheck(w)

(* The event, or the one-second timeout of wait_for. *)
Resume(w) ==
  /\ at[w] = "idle"
  /\ at' = [at EXCEPT ![w] = "run"]
  /\ UNCHANGED <<log, fate, critical, ephemeral, owed, sending, batch,
                 published, seq, told>>

-----------------------------------------------------------------------------
QueueInit ==
  /\ log = <<>> /\ fate = [f \in FrameIds |-> "none"]
  /\ critical = <<>> /\ ephemeral = <<>>
  /\ owed = {}
  /\ at = [w \in Writers |-> "run"]
  /\ sending = [w \in Writers |-> 0]
  /\ batch = [w \in Writers |-> {}]
  /\ published = <<>> /\ seq = 0 /\ told = {}

Writer(w) ==
  Take(w) \/ Sent(w) \/ Flush(w) \/ SendResync(w) \/ Idle(w) \/ Resume(w)

QueueNext == (\E frame \in Frames : Enqueue(frame)) \/ (\E w \in Writers : Writer(w))

QueueSpec == QueueInit /\ [][QueueNext]_queueVars

(* The event loop runs every task that is ready, a Redis call returns or   *)
(* times out, and an idle writer's wait ends within a second.              *)
QueueFairSpec == QueueSpec /\ \A w \in Writers : WF_queueVars(Writer(w))

-----------------------------------------------------------------------------
(* Properties *)

(* The variables keep their types and the queues their configured bounds. *)
QueueTypeOK ==
  /\ log \in Seq(Frames) /\ fate \in [FrameIds -> Fates]
  /\ critical \in Seq(FrameIds) /\ Len(critical) <= CriticalMax
  /\ ephemeral \in Seq(FrameIds) /\ Len(ephemeral) <= EphemeralMax
  /\ owed \subseteq Clients
  /\ at \in [Writers -> {"run", "send", "flush", "idle"}]
  /\ sending \in [Writers -> 0..MaxFrames]
  /\ batch \in [Writers -> SUBSET Clients]
  /\ published \in Seq([frame : FrameIds, seq : 0..MaxFrames])
  /\ seq \in 0..MaxFrames /\ told \subseteq Clients

(* A client whose private frame overflowed is owed a resync, is being sent *)
(* one, or was sent one since: swapping the set of debts while one is      *)
(* flushed loses none.  (_spill, _flush_owed_resyncs)                      *)
SpillsAreOwed ==
  \A f \in Offered :
    (fate[f] = "spilled" /\ log[f].to # Market)
      => log[f].to \in owed \cup told \cup UNION {batch[w] : w \in Writers}

(* No frame is left behind in a queue: a writer always comes back for it. *)
QueuesDrain == \A f \in FrameIds : fate[f] = "queued" ~> fate[f] # "queued"

(* Every client owed a resync is sent one once the queues are empty. *)
DebtsArePaid == \A u \in Clients : u \in owed ~> u \in told

(* Refuted: a critical frame is never silently lost: while Redis accepts   *)
(* writes it is waiting, published, or spilled with its overflow reported. *)
CriticalFramesKept ==
  \A f \in Offered :
    IsCritical(log[f]) => fate[f] \in {"queued", "sending", "published", "spilled"}

MarketFrames == {p \in {published[i] : i \in DOMAIN published} : log[p.frame].to = Market}

(* Refuted: the frames of a market reach its channel in the order they     *)
(* were offered (so that a book never contradicts the price beside it): a  *)
(* later seq is a later frame. (publish_price_update, market_publish_op)   *)
MarketFramesInOrder ==
  \A p, q \in MarketFrames : p.seq < q.seq => p.frame < q.frame

(* Refuted: a market's client can tell that a frame of its market was      *)
(* dropped for overflow: once a later one arrived, the seqs it has seen    *)
(* have a gap. (_spill, which owes a market-scoped frame nothing for this  *)
(* reason)                                                                 *)
SpillsLeaveAGap ==
  \A f \in Offered :
    (/\ fate[f] = "spilled" /\ log[f].to = Market
     /\ \E p \in MarketFrames : p.frame > f)
      => \E n \in 1..seq : \A p \in MarketFrames : p.seq # n

=============================================================================
