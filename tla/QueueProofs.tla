---------------------------- MODULE QueueProofs -----------------------------
(***************************************************************************)
(* Proofs about PublishQueue, for any writers, clients and bounds.         *)
(*                                                                         *)
(* SpillsAreOwed is about what writers do with frames they no longer hold  *)
(* a lock for.  It needs to know where each frame is: a queued frame waits *)
(* in exactly one queue, in the order it was offered, or is in the hands   *)
(* of one writer, so it is written once and the count of written frames    *)
(* bounds the sequence; and whose debts are whose: a client that is owed a *)
(* resync is in `owed`, in one writer's batch, or has been told.           *)
(***************************************************************************)
EXTENDS PublishQueue, FiniteSetTheorems, TLAPS

CriticalTypes == {"book", "fill"}
EphemeralTypes == {"price"}

(* Frames wait in the order they were offered. *)
Rising(q) == \A m, n \in 1..Len(q) : m < n => q[m] < q[n]

(* What waits in queue q, for a log lg and fates ft: offered frames of its *)
(* types, the oldest first.                                                *)
Waits(q, types, lg, ft) ==
  /\ q \in Seq(FrameIds) /\ Rising(q)
  /\ \A n \in 1..Len(q) : /\ q[n] \in 1..Len(lg) /\ ft[q[n]] = "queued"
                          /\ lg[q[n]].type \in types

Written(ft) == {f \in FrameIds : ft[f] = "published"}

QueueTypes ==
  /\ log \in Seq(Frames) /\ Len(log) <= MaxFrames /\ fate \in [FrameIds -> Fates]
  /\ Len(critical) <= CriticalMax /\ Len(ephemeral) <= EphemeralMax
  /\ owed \subseteq Clients
  /\ at \in [Writers -> {"run", "send", "flush", "idle"}]
  /\ sending \in [Writers -> 0..MaxFrames]
  /\ batch \in [Writers -> SUBSET Clients]
  /\ published \in Seq([frame : FrameIds, seq : 0..MaxFrames])
  /\ seq \in Nat /\ told \subseteq Clients

(* A frame waits in one queue or is in the hands of one writer. *)
FramesApart ==
  /\ \A f \in FrameIds : f > Len(log) => fate[f] = "none"
  /\ Waits(critical, CriticalTypes, log, fate) /\ Waits(ephemeral, EphemeralTypes, log, fate)
  /\ \A w \in Writers : at[w] = "send" => /\ sending[w] \in Offered
                                          /\ fate[sending[w]] = "sending"
  /\ \A v, w \in Writers :
       at[v] = "send" /\ at[w] = "send" /\ sending[v] = sending[w] => v = w

(* Only a writer that flushes has debts in hand. *)
DebtsInHand == \A w \in Writers : at[w] # "flush" => batch[w] = {}

QueueInv ==
  /\ QueueTypes /\ FramesApart /\ DebtsInHand /\ SpillsAreOwed
  /\ seq <= Cardinality(Written(fate))

-----------------------------------------------------------------------------
(* Queues *)

(* A queue that keeps its frames waits as before.                          *)
LEMMA KeepWaits ==
  ASSUME NEW q, NEW types, NEW lg \in Seq(Frames), NEW lh \in Seq(Frames), NEW ft, NEW fu,
         Waits(q, types, lg, ft), Len(lg) <= Len(lh), \A g \in 1..Len(lg) : lh[g] = lg[g],
         \A n \in 1..Len(q) : fu[q[n]] = "queued"
  PROVE  Waits(q, types, lh, fu)
<1>1. Len(lg) \in Nat /\ Len(lh) \in Nat
  OBVIOUS
<1>2. \A n \in 1..Len(q) : q[n] \in 1..Len(lh) /\ lh[q[n]] = lg[q[n]]
  BY <1>1 DEF Waits
<1> QED
  BY <1>2 DEF Waits

(* A queue takes in the frame just offered. *)
LEMMA AppendWaits ==
  ASSUME NEW q, NEW types, NEW lg \in Seq(Frames), NEW ft,
         Waits(q, types, lg, ft), NEW f \in FrameIds, f \in 1..Len(lg), ft[f] = "queued",
         lg[f].type \in types, \A n \in 1..Len(q) : q[n] < f
  PROVE  Waits(Append(q, f), types, lg, ft) /\ Len(Append(q, f)) = Len(q) + 1
<1> DEFINE p == Append(q, f)
<1>1. q \in Seq(FrameIds) /\ Len(q) \in Nat /\ \A n \in 1..Len(q) : q[n] \in FrameIds
  BY DEF Waits
<1>2. /\ p \in Seq(FrameIds) /\ Len(p) = Len(q) + 1
      /\ \A n \in 1..(Len(q) + 1) : p[n] = IF n = Len(q) + 1 THEN f ELSE q[n]
  BY <1>1
<1> HIDE DEF p
<1>3. ASSUME NEW m \in 1..Len(p), NEW n \in 1..Len(p), m < n
      PROVE  p[m] < p[n]
  <2>1. m \in 1..Len(q) /\ p[m] = q[m]
    BY <1>1, <1>2, <1>3
  <2>2. CASE n = Len(q) + 1
    BY <1>2, <2>1, <2>2
  <2>3. CASE n # Len(q) + 1
    <3>1. n \in 1..Len(q) /\ p[n] = q[n]
      BY <1>1, <1>2, <2>3
    <3> QED
      BY <1>3, <2>1, <3>1 DEF Waits, Rising
  <2> QED
    BY <2>2, <2>3
<1>4. ASSUME NEW n \in 1..Len(p)
      PROVE  p[n] \in 1..Len(lg) /\ ft[p[n]] = "queued" /\ lg[p[n]].type \in types
  <2>1. CASE n = Len(q) + 1
    BY <1>2, <2>1
  <2>2. CASE n # Len(q) + 1
    <3>1. n \in 1..Len(q) /\ p[n] = q[n]
      BY <1>1, <1>2, <2>2
    <3> QED
      BY <3>1 DEF Waits
  <2> QED
    BY <2>1, <2>2
<1>5. Rising(p)
  BY <1>3 DEF Rising
<1> QED
  BY <1>2, <1>4, <1>5 DEF p, Waits

(* A queue that gives up its oldest frame keeps the others.                *)
LEMMA TailWaits ==
  ASSUME NEW q, NEW types, NEW lg, NEW ft, Waits(q, types, lg, ft), q # <<>>
  PROVE  /\ Waits(Tail(q), types, lg, ft) /\ Len(Tail(q)) = Len(q) - 1
         /\ Head(q) \in FrameIds /\ Head(q) \in 1..Len(lg) /\ ft[Head(q)] = "queued"
         /\ lg[Head(q)].type \in types
         /\ \A n \in 1..Len(Tail(q)) : Tail(q)[n] # Head(q)
<1> DEFINE p == Tail(q)
           h == Head(q)
<1>0. q \in Seq(FrameIds) /\ FrameIds \subseteq Nat
  BY DEF Waits, FrameIds
<1>a. Len(q) \in Nat \ {0} /\ \A n \in 1..Len(q) : q[n] \in FrameIds
  BY <1>0
<1>1. /\ q \in Seq(FrameIds) /\ Len(q) \in Nat \ {0}
      /\ \A n \in 1..Len(q) : q[n] \in FrameIds /\ q[n] \in Nat
  BY Zenon, <1>0, <1>a
<1>2. /\ p \in Seq(FrameIds) /\ h = q[1] /\ Len(p) = Len(q) - 1
      /\ \A n \in 1..Len(p) : p[n] = q[n + 1]
  BY <1>1
<1> HIDE DEF p, h
<1>3. \A n \in 1..Len(p) : n + 1 \in 1..Len(q)
  BY <1>1, <1>2
<1>4. 1 \in 1..Len(q)
  BY <1>1
<1>5. ASSUME NEW m \in 1..Len(p), NEW n \in 1..Len(p), m < n
      PROVE  p[m] < p[n]
  <2>1. m + 1 \in 1..Len(q) /\ n + 1 \in 1..Len(q) /\ m + 1 < n + 1
    BY <1>1, <1>2, <1>5
  <2> QED
    BY Zenon, <1>2, <2>1 DEF Waits, Rising
<1>6. Rising(p)
  BY <1>5 DEF Rising
<1>7. ASSUME NEW n \in 1..Len(p) PROVE p[n] # h
  <2>1. n + 1 \in 1..Len(q) /\ 1 < n + 1
    BY <1>1, <1>2
  <2>2. q[1] < q[n + 1]
    BY <1>4, <2>1 DEF Waits, Rising
  <2> QED
    BY <1>1, <1>2, <1>4, <2>1, <2>2
<1>8. \A n \in 1..Len(p) : /\ p[n] \in 1..Len(lg) /\ ft[p[n]] = "queued"
                           /\ lg[p[n]].type \in types
  BY <1>2, <1>3 DEF Waits
<1>9. h \in FrameIds /\ h \in 1..Len(lg) /\ ft[h] = "queued" /\ lg[h].type \in types
  BY <1>1, <1>2, <1>4 DEF Waits
<1> QED
  BY <1>2, <1>6, <1>7, <1>8, <1>9 DEF p, h, Waits

(* The two queues and their bounds are kept. *)
QueuesKept(ft) ==
  /\ Waits(critical', CriticalTypes, log', ft) /\ Len(critical') <= CriticalMax
  /\ Waits(ephemeral', EphemeralTypes, log', ft) /\ Len(ephemeral') <= EphemeralMax

(* A frame that is taken from its queue is in neither after that.          *)
LEMMA PopKeeps ==
  ASSUME QueueInv, NEW f, Pop(f), NEW st, log' = log
  PROVE  /\ f \in FrameIds /\ f \in Offered /\ fate[f] = "queued"
         /\ QueuesKept([fate EXCEPT ![f] = st])
<1> DEFINE ft == [fate EXCEPT ![f] = st]
<1>0. /\ log \in Seq(Frames) /\ fate \in [FrameIds -> Fates]
      /\ Waits(critical, CriticalTypes, log, fate) /\ Waits(ephemeral, EphemeralTypes, log, fate)
      /\ Len(critical) <= CriticalMax /\ Len(ephemeral) <= EphemeralMax
  BY DEF QueueInv, QueueTypes, FramesApart
<1>1. \A g \in FrameIds : g # f => ft[g] = fate[g]
  BY <1>0
<1>2. CriticalMax \in Nat /\ EphemeralMax \in Nat
  BY QueueAssumption DEF QueueAssumption
<1> HIDE DEF ft
<1>3. \A q : q \in Seq(FrameIds) =>
               Len(q) \in Nat /\ \A n \in 1..Len(q) : q[n] \in FrameIds
  OBVIOUS
<1>4. critical \in Seq(FrameIds) /\ ephemeral \in Seq(FrameIds)
  BY <1>0 DEF Waits
<1>5. \A n \in 1..Len(log) : log[n].type \in CriticalTypes => log[n].type \notin EphemeralTypes
  BY DEF CriticalTypes, EphemeralTypes
<1>6. CASE critical # <<>> /\ f = Head(critical) /\ critical' = Tail(critical) /\ ephemeral' = ephemeral
  <2>1. /\ Waits(critical', CriticalTypes, log, fate) /\ Len(critical') = Len(critical) - 1
        /\ f \in FrameIds /\ f \in Offered /\ fate[f] = "queued" /\ log[f].type \in CriticalTypes
        /\ \A n \in 1..Len(critical') : critical'[n] # f
    BY <1>0, <1>6, TailWaits, Zenon DEF Offered
  <2>2. critical' \in Seq(FrameIds)
    BY <2>1 DEF Waits
  <2>3. \A n \in 1..Len(critical') : ft[critical'[n]] = "queued"
    BY <1>1, <1>3, <2>1, <2>2 DEF Waits
  <2>4. \A n \in 1..Len(ephemeral) : ft[ephemeral[n]] = "queued"
    <3>1. \A n \in 1..Len(ephemeral) : ephemeral[n] # f
      BY <1>0, <1>5, <2>1 DEF Waits, Offered
    <3> QED
      BY <1>0, <1>1, <1>3, <1>4, <3>1 DEF Waits
  <2>5. Waits(critical', CriticalTypes, log, ft) /\ Waits(ephemeral, EphemeralTypes, log, ft)
    BY <1>0, <2>1, <2>3, <2>4 DEF Waits
  <2>6. Len(critical') <= CriticalMax
    BY <1>0, <1>2, <1>3, <1>4, <2>1
  <2> QED
    BY <1>0, <1>6, <2>1, <2>5, <2>6 DEF QueuesKept, ft
<1>7. CASE critical = <<>> /\ ephemeral # <<>> /\ f = Head(ephemeral)
           /\ ephemeral' = Tail(ephemeral) /\ critical' = critical
  <2>1. /\ Waits(ephemeral', EphemeralTypes, log, fate) /\ Len(ephemeral') = Len(ephemeral) - 1
        /\ f \in FrameIds /\ f \in Offered /\ fate[f] = "queued" /\ log[f].type \in EphemeralTypes
        /\ \A n \in 1..Len(ephemeral') : ephemeral'[n] # f
    BY <1>0, <1>7, TailWaits, Zenon DEF Offered
  <2>2. ephemeral' \in Seq(FrameIds)
    BY <2>1 DEF Waits
  <2>3. \A n \in 1..Len(ephemeral') : ft[ephemeral'[n]] = "queued"
    BY <1>1, <1>3, <2>1, <2>2 DEF Waits
  <2>4. Len(critical) = 0
    BY <1>7
  <2>5. Waits(critical, CriticalTypes, log, ft) /\ Waits(ephemeral', EphemeralTypes, log, ft)
    BY <1>0, <2>1, <2>3, <2>4 DEF Waits
  <2>6. Len(ephemeral') <= EphemeralMax
    BY <1>0, <1>2, <1>3, <1>4, <2>1
  <2> QED
    BY <1>0, <1>7, <2>1, <2>5, <2>6 DEF QueuesKept, ft
<1> QED
  BY <1>6, <1>7 DEF Pop

(* The new price pushes out the oldest one, or joins the queue. *)
LEMMA OfferKeeps ==
  ASSUME QueueInv, NEW frame \in Frames, Len(log) < MaxFrames, log' = Append(log, frame),
         \/ IsCritical(frame) /\ OfferCritical(Len(log) + 1, frame)
         \/ ~IsCritical(frame) /\ OfferEphemeral(Len(log) + 1)
  PROVE  /\ QueuesKept(fate') /\ fate' \in [FrameIds -> Fates]
         /\ fate'[Len(log) + 1] \in {"queued", "spilled"}
         /\ \A g \in FrameIds \ {Len(log) + 1} :
              fate'[g] = fate[g] \/ (fate[g] = "queued" /\ fate'[g] = "coalesced")
<1> DEFINE f == Len(log) + 1
<1>0. /\ log \in Seq(Frames) /\ fate \in [FrameIds -> Fates] /\ Len(log) \in Nat
      /\ Waits(critical, CriticalTypes, log, fate) /\ Waits(ephemeral, EphemeralTypes, log, fate)
      /\ Len(critical) <= CriticalMax /\ Len(ephemeral) <= EphemeralMax
  BY DEF QueueInv, QueueTypes, FramesApart
<1>2. /\ CriticalMax \in Nat \ {0} /\ EphemeralMax \in Nat \ {0} /\ MaxFrames \in Nat
  BY QueueAssumption DEF QueueAssumption
<1>3. /\ log' \in Seq(Frames) /\ Len(log') = f /\ log'[f] = frame
      /\ \A g \in 1..Len(log) : log'[g] = log[g]
  BY <1>0
<1>4. f \in FrameIds /\ f \in 1..f /\ \A g \in 1..Len(log) : g < f /\ g \in FrameIds /\ g # f
  BY <1>0, <1>2 DEF FrameIds
<1>5. /\ IsCritical(frame) <=> frame.type \in CriticalTypes
      /\ IsCritical(frame) \/ frame.type \in EphemeralTypes
  BY DEF IsCritical, CriticalTypes, EphemeralTypes, Frames
<1>6. {"queued", "spilled", "coalesced"} \subseteq Fates
  BY DEF Fates
<1> SUFFICES /\ QueuesKept(fate') /\ fate' \in [FrameIds -> Fates]
             /\ fate'[f] \in {"queued", "spilled"}
             /\ \A g \in FrameIds \ {f} :
                  fate'[g] = fate[g] \/ (fate[g] = "queued" /\ fate'[g] = "coalesced")
  OBVIOUS
<1> HIDE DEF f
<1>7. /\ \A n \in 1..Len(critical) : critical[n] \in 1..Len(log) /\ fate[critical[n]] = "queued"
                                     /\ log[critical[n]].type \in CriticalTypes
      /\ \A n \in 1..Len(ephemeral) : ephemeral[n] \in 1..Len(log) /\ fate[ephemeral[n]] = "queued"
                                     /\ log[ephemeral[n]].type \in EphemeralTypes
  BY <1>0 DEF Waits
<1>8. critical \in Seq(FrameIds) /\ ephemeral \in Seq(FrameIds)
      /\ Len(critical) \in Nat /\ Len(ephemeral) \in Nat
  BY <1>0 DEF Waits
<1>9. CASE IsCritical(frame) /\ CriticalFull
  <2>1. fate' = [fate EXCEPT ![f] = "spilled"] /\ critical' = critical /\ ephemeral' = ephemeral
    BY <1>9 DEF OfferCritical, Spill, f
  <2>2. /\ fate' \in [FrameIds -> Fates] /\ fate'[f] = "spilled"
        /\ \A g \in FrameIds : g # f => fate'[g] = fate[g]
    BY <1>0, <1>4, <1>6, <2>1
  <2>3. /\ \A n \in 1..Len(critical) : fate'[critical[n]] = "queued"
        /\ \A n \in 1..Len(ephemeral) : fate'[ephemeral[n]] = "queued"
    BY Zenon, <1>4, <1>7, <2>2
  <2>4. Len(log) <= Len(log')
    BY <1>0, <1>3 DEF f
  <2>5. Waits(critical, CriticalTypes, log', fate') /\ Waits(ephemeral, EphemeralTypes, log', fate')
    BY <1>0, <1>3, <2>3, <2>4, KeepWaits, Zenon
  <2>k. QueuesKept(fate')
    BY <1>0, <2>1, <2>5 DEF QueuesKept
  <2> QED
    BY <2>2, <2>k
<1>10. CASE IsCritical(frame) /\ ~CriticalFull
  <2>1. fate' = [fate EXCEPT ![f] = "queued"] /\ critical' = Append(critical, f) /\ ephemeral' = ephemeral
    BY <1>10 DEF OfferCritical, f
  <2>2. /\ fate' \in [FrameIds -> Fates] /\ fate'[f] = "queued"
        /\ \A g \in FrameIds : g # f => fate'[g] = fate[g]
    BY <1>0, <1>4, <1>6, <2>1
  <2>3. /\ \A n \in 1..Len(critical) : fate'[critical[n]] = "queued"
        /\ \A n \in 1..Len(ephemeral) : fate'[ephemeral[n]] = "queued"
    BY Zenon, <1>4, <1>7, <2>2
  <2>4. Len(log) <= Len(log')
    BY <1>0, <1>3 DEF f
  <2>5. Waits(critical, CriticalTypes, log', fate') /\ Waits(ephemeral, EphemeralTypes, log', fate')
    BY <1>0, <1>3, <2>3, <2>4, KeepWaits, Zenon
  <2>6. /\ \A n \in 1..Len(critical) : critical[n] < f
        /\ f \in 1..Len(log') /\ log'[f].type \in CriticalTypes
    BY <1>3, <1>4, <1>5, <1>7, <1>10
  <2>7. Waits(critical', CriticalTypes, log', fate') /\ Len(critical') = Len(critical) + 1
    <3>0. log' \in Seq(Frames) /\ f \in FrameIds /\ fate'[f] = "queued"
      BY <1>3, <1>4, <2>2
    <3>1. Waits(Append(critical, f), CriticalTypes, log', fate') /\ Len(Append(critical, f)) = Len(critical) + 1
      BY <3>0, <2>5, <2>6, AppendWaits, Zenon
    <3> QED
      BY <2>1, <3>1, Zenon
  <2>8. Len(critical') <= CriticalMax
    BY <1>2, <1>8, <1>10, <2>7 DEF CriticalFull
  <2>k. QueuesKept(fate')
    BY <1>0, <2>1, <2>5, <2>7, <2>8 DEF QueuesKept
  <2> QED
    BY <2>2, <2>k
<1>11. CASE ~IsCritical(frame) /\ Len(ephemeral) >= EphemeralMax
  <2> DEFINE h == Head(ephemeral)
             q == Tail(ephemeral)
  <2>1. /\ fate' = [fate EXCEPT ![f] = "queued", ![h] = "coalesced"]
        /\ ephemeral' = Append(q, f) /\ critical' = critical
    BY <1>11 DEF OfferEphemeral, f
  <2>2. ephemeral # <<>>
    BY <1>2, <1>8, <1>11
  <2>3. /\ Waits(q, EphemeralTypes, log, fate) /\ Len(q) = Len(ephemeral) - 1
        /\ h \in FrameIds /\ h \in 1..Len(log) /\ fate[h] = "queued" /\ log[h].type \in EphemeralTypes
        /\ \A n \in 1..Len(q) : q[n] # h
    BY <1>0, <2>2, TailWaits, Zenon
  <2> HIDE DEF h, q
  <2>4. /\ fate' \in [FrameIds -> Fates] /\ fate'[f] = "queued" /\ fate'[h] = "coalesced"
        /\ \A g \in FrameIds : g # f /\ g # h => fate'[g] = fate[g]
    BY Zenon, <1>0, <1>4, <1>6, <2>1, <2>3
  <2>5. \A n \in 1..Len(q) : q[n] \in 1..Len(log) /\ fate[q[n]] = "queued"
    BY <2>3 DEF Waits
  <2>6. \A n \in 1..Len(critical) : critical[n] # h
    BY Zenon, <1>7, <2>3 DEF CriticalTypes, EphemeralTypes
  <2>7. /\ \A n \in 1..Len(critical) : fate'[critical[n]] = "queued"
        /\ \A n \in 1..Len(q) : fate'[q[n]] = "queued"
    BY Zenon, <1>4, <1>7, <2>3, <2>4, <2>5, <2>6
  <2>8. Len(log) <= Len(log')
    BY <1>0, <1>3 DEF f
  <2>9. Waits(critical, CriticalTypes, log', fate') /\ Waits(q, EphemeralTypes, log', fate')
    BY <1>0, <1>3, <2>3, <2>7, <2>8, KeepWaits, Zenon
  <2>10. /\ \A n \in 1..Len(q) : q[n] < f
         /\ f \in 1..Len(log') /\ log'[f].type \in EphemeralTypes
    BY <1>3, <1>4, <1>5, <2>5, <1>11
  <2>11. Waits(ephemeral', EphemeralTypes, log', fate') /\ Len(ephemeral') = Len(q) + 1
    <3>0. log' \in Seq(Frames) /\ f \in FrameIds /\ fate'[f] = "queued"
      BY <1>3, <1>4, <2>4
    <3>1. Waits(Append(q, f), EphemeralTypes, log', fate') /\ Len(Append(q, f)) = Len(q) + 1
      BY <3>0, <2>9, <2>10, AppendWaits, Zenon
    <3> QED
      BY <2>1, <3>1, Zenon
  <2>12. Len(ephemeral') <= EphemeralMax
    BY <1>0, <1>2, <1>8, <2>3, <2>11
  <2>k. QueuesKept(fate')
    BY <1>0, <2>1, <2>9, <2>11, <2>12 DEF QueuesKept
  <2> QED
    BY <2>3, <2>4, <2>k
<1>12. CASE ~IsCritical(frame) /\ ~(Len(ephemeral) >= EphemeralMax)
  <2>1. /\ fate' = [fate EXCEPT ![f] = "queued"]
        /\ ephemeral' = Append(ephemeral, f) /\ critical' = critical
    BY <1>12 DEF OfferEphemeral, f
  <2>2. /\ fate' \in [FrameIds -> Fates] /\ fate'[f] = "queued"
        /\ \A g \in FrameIds : g # f => fate'[g] = fate[g]
    BY <1>0, <1>4, <1>6, <2>1
  <2>3. /\ \A n \in 1..Len(critical) : fate'[critical[n]] = "queued"
        /\ \A n \in 1..Len(ephemeral) : fate'[ephemeral[n]] = "queued"
    BY Zenon, <1>4, <1>7, <2>2
  <2>4. Len(log) <= Len(log')
    BY <1>0, <1>3 DEF f
  <2>5. Waits(critical, CriticalTypes, log', fate') /\ Waits(ephemeral, EphemeralTypes, log', fate')
    BY <1>0, <1>3, <2>3, <2>4, KeepWaits, Zenon
  <2>6. /\ \A n \in 1..Len(ephemeral) : ephemeral[n] < f
        /\ f \in 1..Len(log') /\ log'[f].type \in EphemeralTypes
    BY <1>3, <1>4, <1>5, <1>7, <1>12
  <2>7. Waits(ephemeral', EphemeralTypes, log', fate') /\ Len(ephemeral') = Len(ephemeral) + 1
    <3>0. log' \in Seq(Frames) /\ f \in FrameIds /\ fate'[f] = "queued"
      BY <1>3, <1>4, <2>2
    <3>1. Waits(Append(ephemeral, f), EphemeralTypes, log', fate') /\ Len(Append(ephemeral, f)) = Len(ephemeral) + 1
      BY <3>0, <2>5, <2>6, AppendWaits, Zenon
    <3> QED
      BY <2>1, <3>1, Zenon
  <2>8. Len(ephemeral') <= EphemeralMax
    BY <1>2, <1>8, <1>12, <2>7
  <2>k. QueuesKept(fate')
    BY <1>0, <2>1, <2>5, <2>7, <2>8 DEF QueuesKept
  <2> QED
    BY <2>2, <2>k
<1> QED
  BY <1>9, <1>10, <1>11, <1>12

-----------------------------------------------------------------------------
(* Steps *)

(* The counter counts frames that are written: it stands still while no    *)
(* frame becomes one, and moves with one that does.                        *)
LEMMA NothingWritten ==
  ASSUME NEW ft, NEW fu,
         \A g \in FrameIds : ft[g] = "published" <=> fu[g] = "published"
  PROVE  Written(fu) = Written(ft)
BY DEF Written

(* A frame that is published for the first time makes one more written.   *)
LEMMA OneWritten ==
  ASSUME NEW ft, NEW fu, NEW f \in FrameIds, MaxFrames \in Nat,
         ft[f] # "published", fu[f] = "published", \A g \in FrameIds \ {f} : fu[g] = ft[g]
  PROVE  Cardinality(Written(fu)) = Cardinality(Written(ft)) + 1
<1>1. IsFiniteSet(FrameIds)
  BY FS_Interval DEF FrameIds
<1>2. IsFiniteSet(Written(ft))
  BY <1>1, FS_Subset DEF Written
<1>3. Written(fu) = Written(ft) \cup {f} /\ f \notin Written(ft)
  BY DEF Written
<1> QED
  BY Zenon, <1>2, <1>3, FS_AddElement

(* No more frames are written than there are: the bound on a market's      *)
(* counter.                                                                *)
LEMMA WrittenBounded ==
  ASSUME NEW ft, MaxFrames \in Nat
  PROVE  Cardinality(Written(ft)) \in Nat /\ Cardinality(Written(ft)) <= MaxFrames
<1>1. IsFiniteSet(FrameIds) /\ Cardinality(FrameIds) = MaxFrames
  <2>1. 1 \in Int /\ MaxFrames \in Int
    OBVIOUS
  <2>2. IsFiniteSet(1..MaxFrames) /\ Cardinality(1..MaxFrames) = IF 1 > MaxFrames THEN 0 ELSE MaxFrames - 1 + 1
    BY <2>1, FS_Interval
  <2> QED
    BY <2>2 DEF FrameIds
<1>2. Written(ft) \subseteq FrameIds
  BY DEF Written
<1>3. /\ IsFiniteSet(Written(ft)) /\ Cardinality(Written(ft)) <= Cardinality(FrameIds)
  BY <1>1, <1>2, FS_Subset
<1>4. Cardinality(Written(ft)) \in Nat
  BY <1>3, FS_CardinalityType
<1> QED
  BY <1>1, <1>3, <1>4

(* What a frame offered does to the debts. *)
LEMMA OfferDebts ==
  ASSUME QueueInv, NEW frame \in Frames, Enqueue(frame)
  PROVE  \/ /\ fate'[Len(log) + 1] = "spilled" /\ frame.to # Market
            /\ frame.to \in Clients /\ owed' = owed \cup {frame.to} /\ told' = told \ {frame.to}
         \/ /\ fate'[Len(log) + 1] = "spilled" /\ frame.to = Market
            /\ owed' = owed /\ told' = told \ {frame.to}
         \/ /\ fate'[Len(log) + 1] = "queued" /\ owed' = owed /\ told' = told
<1> DEFINE f == Len(log) + 1
<1>1. /\ fate \in [FrameIds -> Fates] /\ Len(log) \in Nat /\ Len(log) < MaxFrames
      /\ Waits(ephemeral, EphemeralTypes, log, fate)
  BY DEF QueueInv, QueueTypes, FramesApart, Enqueue
<1>2. f \in FrameIds /\ f \notin 1..Len(log)
  BY <1>1, QueueAssumption DEF QueueAssumption, FrameIds
<1>3. frame.to # Market => frame.to \in Clients
  BY DEF Frames
<1>4. CASE IsCritical(frame) /\ CriticalFull
  BY <1>1, <1>2, <1>3, <1>4 DEF Enqueue, OfferCritical, Spill
<1>5. CASE IsCritical(frame) /\ ~CriticalFull
  BY <1>1, <1>2, <1>5 DEF Enqueue, OfferCritical
<1>6. CASE ~IsCritical(frame)
  <2>1. OfferEphemeral(f)
    BY <1>6 DEF Enqueue
  <2>2. owed' = owed /\ told' = told
    BY <2>1 DEF OfferEphemeral
  <2>3. CASE Len(ephemeral) >= EphemeralMax
    <3>1. ephemeral # <<>>
      BY <2>3, QueueAssumption DEF QueueAssumption
    <3>2. Head(ephemeral) \in 1..Len(log)
      BY <1>1, <3>1, TailWaits, Zenon
    <3>3. fate' = [fate EXCEPT ![f] = "queued", ![Head(ephemeral)] = "coalesced"]
      BY <2>1, <2>3 DEF OfferEphemeral
    <3> DEFINE h == Head(ephemeral)
    <3> HIDE DEF h
    <3>4. h # f
      BY <1>2, <3>2 DEF h
    <3>5. fate' = [fate EXCEPT ![f] = "queued", ![h] = "coalesced"]
      BY <3>3 DEF h
    <3>6. fate'[f] = "queued"
      BY <1>1, <1>2, <3>4, <3>5
    <3> QED
      BY <2>2, <3>6
  <2>4. CASE ~(Len(ephemeral) >= EphemeralMax)
    <3>1. fate' = [fate EXCEPT ![f] = "queued"]
      BY <2>1, <2>4 DEF OfferEphemeral
    <3>2. fate'[f] = "queued"
      BY <1>1, <1>2, <3>1
    <3> QED
      BY <2>2, <3>2
  <2> QED
    BY <2>3, <2>4
<1> QED
  BY <1>4, <1>5, <1>6

(* Publishing offers a frame. *)
LEMMA EnqueueKeeps ==
  ASSUME QueueInv, NEW frame \in Frames, Enqueue(frame)
  PROVE  QueueInv'
<1> DEFINE f == Len(log) + 1
           hands == UNION {batch[w] : w \in Writers}
<1>1. /\ QueueTypes /\ FramesApart /\ DebtsInHand /\ SpillsAreOwed
      /\ seq <= Cardinality(Written(fate)) /\ MaxFrames \in Nat
  BY QueueAssumption DEF QueueInv, QueueAssumption
<1>2. /\ log' = Append(log, frame) /\ Len(log) < MaxFrames
      /\ UNCHANGED <<at, sending, batch, published, seq>>
      /\ \/ IsCritical(frame) /\ OfferCritical(f, frame)
         \/ ~IsCritical(frame) /\ OfferEphemeral(f)
  BY DEF Enqueue
<1>3. /\ QueuesKept(fate') /\ fate' \in [FrameIds -> Fates]
      /\ fate'[f] \in {"queued", "spilled"}
      /\ \A g \in FrameIds \ {f} :
           fate'[g] = fate[g] \/ (fate[g] = "queued" /\ fate'[g] = "coalesced")
  BY <1>2, OfferKeeps, Zenon
<1>4. /\ log \in Seq(Frames) /\ Len(log) \in Nat
      /\ log' \in Seq(Frames) /\ Len(log') = f /\ log'[f] = frame
      /\ \A g \in 1..Len(log) : log'[g] = log[g]
  BY <1>1, <1>2 DEF QueueTypes
<1>5. /\ f \in FrameIds /\ Offered' = Offered \cup {f} /\ Offered \subseteq FrameIds /\ f \notin Offered
      /\ f > Len(log) /\ Len(log') <= MaxFrames
  BY <1>1, <1>2, <1>4 DEF Offered, FrameIds
<1>6. fate[f] = "none"
  BY Zenon, <1>1, <1>5 DEF FramesApart
<1>7. \/ /\ fate'[f] = "spilled" /\ frame.to # Market
         /\ frame.to \in Clients /\ owed' = owed \cup {frame.to} /\ told' = told \ {frame.to}
      \/ /\ fate'[f] = "spilled" /\ frame.to = Market
         /\ owed' = owed /\ told' = told \ {frame.to}
      \/ /\ fate'[f] = "queued" /\ owed' = owed /\ told' = told
  BY OfferDebts, Zenon
<1> HIDE DEF f
<1>8. QueueTypes'
  <2>1. owed' \subseteq Clients /\ told' \subseteq Clients
    BY <1>1, <1>7 DEF QueueTypes
  <2> QED
    BY Zenon, <1>1, <1>2, <1>3, <1>4, <1>5, <2>1 DEF QueueTypes, QueuesKept
<1>9. FramesApart'
  <2>1. \A g \in FrameIds : g > Len(log') => fate'[g] = "none"
    <3>1. \A g \in FrameIds : g > Len(log') => g > Len(log) /\ g # f
      BY <1>4, <1>5 DEF FrameIds
    <3> QED
      BY <1>1, <1>3, <3>1 DEF FramesApart
  <2>2. \A w \in Writers : at'[w] = "send" => /\ sending'[w] \in Offered'
                                              /\ fate'[sending'[w]] = "sending"
    BY <1>1, <1>2, <1>3, <1>5 DEF FramesApart
  <2>3. \A v, w \in Writers :
          at'[v] = "send" /\ at'[w] = "send" /\ sending'[v] = sending'[w] => v = w
    BY Zenon, <1>1, <1>2 DEF FramesApart
  <2> QED
    BY <1>3, <2>1, <2>2, <2>3 DEF FramesApart, QueuesKept
<1>10. DebtsInHand'
  BY <1>1, <1>2 DEF DebtsInHand
<1>11. SpillsAreOwed'
  <2> DEFINE hands2 == UNION {batch'[w] : w \in Writers}
  <2>1. hands2 = hands
    BY <1>2
  <2> SUFFICES ASSUME NEW g \in Offered', fate'[g] = "spilled", log'[g].to # Market
               PROVE  log'[g].to \in owed' \cup told' \cup hands2
    BY DEF SpillsAreOwed
  <2> HIDE DEF hands, hands2
  <2>2. CASE g = f
    BY <1>4, <1>7, <2>2
  <2>3. CASE g # f
    <3>1. g \in Offered /\ fate[g] = "spilled" /\ log'[g] = log[g]
      BY <1>3, <1>4, <1>5, <2>3 DEF Offered
    <3>2. log[g].to \in owed \cup told \cup hands
      BY <1>1, <3>1 DEF SpillsAreOwed, hands
    <3> QED
      BY <1>7, <2>1, <3>1, <3>2
  <2> QED
    BY <2>2, <2>3
<1>12. Written(fate') = Written(fate)
  <2>1. \A g \in FrameIds : fate[g] = "published" <=> fate'[g] = "published"
    BY <1>3, <1>6
  <2> QED
    BY <2>1, NothingWritten, Zenon
<1> QED
  BY <1>1, <1>2, <1>8, <1>9, <1>10, <1>11, <1>12 DEF QueueInv

(* Debts that change hands are still debts.                                *)
LEMMA SpillsKept ==
  ASSUME SpillsAreOwed, log' = log,
         \A g \in Offered : fate'[g] = "spilled" => fate[g] = "spilled",
         owed \cup told \cup UNION {batch[w] : w \in Writers}
           \subseteq owed' \cup told' \cup UNION {batch'[w] : w \in Writers}
  PROVE  SpillsAreOwed'
<1> DEFINE X == owed \cup told \cup UNION {batch[w] : w \in Writers}
           Y == owed' \cup told' \cup UNION {batch'[w] : w \in Writers}
<1>1. X \subseteq Y
  OBVIOUS
<1> SUFFICES ASSUME NEW g \in Offered', fate'[g] = "spilled", log'[g].to # Market
             PROVE  log'[g].to \in Y
  BY DEF SpillsAreOwed
<1>2. g \in Offered /\ fate[g] = "spilled" /\ log[g].to # Market
  BY DEF Offered
<1>3. log[g].to \in X
  BY <1>2 DEF SpillsAreOwed
<1> HIDE DEF X, Y
<1> QED
  BY <1>1, <1>3

(* A writer takes a frame from its queue. *)
LEMMA TakeKeeps ==
  ASSUME QueueInv, NEW w \in Writers, Take(w)
  PROVE  QueueInv'
<1>1. /\ QueueTypes /\ FramesApart /\ DebtsInHand /\ SpillsAreOwed
      /\ seq <= Cardinality(Written(fate))
  BY DEF QueueInv
<1>2. PICK f \in Offered : /\ Pop(f) /\ fate' = [fate EXCEPT ![f] = "sending"]
                           /\ sending' = [sending EXCEPT ![w] = f]
  BY Zenon DEF Take
<1>3. /\ at[w] = "run" /\ at' = [at EXCEPT ![w] = "send"]
      /\ UNCHANGED <<log, owed, batch, published, seq, told>>
  BY DEF Take
<1>4. /\ f \in FrameIds /\ f \in Offered /\ fate[f] = "queued" /\ QueuesKept(fate')
  BY <1>2, <1>3, PopKeeps, Zenon
<1>5. /\ fate' \in [FrameIds -> Fates] /\ fate'[f] = "sending"
      /\ \A g \in FrameIds : g # f => fate'[g] = fate[g]
  BY <1>1, <1>2, <1>4 DEF QueueTypes, Fates
<1>6. /\ at' \in [Writers -> {"run", "send", "flush", "idle"}] /\ at'[w] = "send"
      /\ sending' \in [Writers -> 0..MaxFrames] /\ sending'[w] = f
      /\ \A v \in Writers : v # w => at'[v] = at[v] /\ sending'[v] = sending[v]
  BY <1>1, <1>2, <1>3, <1>4 DEF QueueTypes, FrameIds
<1>7. Offered' = Offered /\ Offered \subseteq FrameIds
  BY <1>1, <1>3, QueueAssumption DEF Offered, FrameIds, QueueTypes, QueueAssumption
<1>8. QueueTypes'
  BY <1>1, <1>3, <1>4, <1>5, <1>6 DEF QueueTypes, QueuesKept
<1>9. FramesApart'
  <2>1. \A g \in FrameIds : g > Len(log') => fate'[g] = "none"
    <3>1. \A g \in FrameIds : g > Len(log) => g # f
      BY <1>1, <1>4 DEF FramesApart
    <3> QED
      BY <1>1, <1>3, <1>5, <3>1 DEF FramesApart
  <2>2. \A v \in Writers : at'[v] = "send" => /\ sending'[v] \in Offered'
                                              /\ fate'[sending'[v]] = "sending"
    BY <1>1, <1>4, <1>5, <1>6, <1>7 DEF FramesApart
  <2>3. \A v \in Writers : v # w /\ at'[v] = "send" => sending'[v] # f
    BY <1>1, <1>4, <1>6 DEF FramesApart
  <2>4. \A v, x \in Writers :
          at'[v] = "send" /\ at'[x] = "send" /\ sending'[v] = sending'[x] => v = x
    BY <1>1, <1>6, <2>3 DEF FramesApart
  <2> QED
    BY <1>4, <2>1, <2>2, <2>4 DEF FramesApart, QueuesKept
<1>10. DebtsInHand'
  BY <1>1, <1>3, <1>6 DEF DebtsInHand
<1>11. SpillsAreOwed'
  <2>1. \A g \in Offered : fate'[g] = "spilled" => fate[g] = "spilled"
    BY <1>5, <1>7
  <2> QED
    BY <1>1, <1>3, <2>1, SpillsKept
<1>12. Written(fate') = Written(fate)
  <2>1. \A g \in FrameIds : fate[g] = "published" <=> fate'[g] = "published"
    BY <1>4, <1>5
  <2> QED
    BY <2>1, NothingWritten, Zenon
<1> QED
  BY <1>1, <1>3, <1>8, <1>9, <1>10, <1>11, <1>12 DEF QueueInv

(* The send returns. *)
LEMMA SentKeeps ==
  ASSUME QueueInv, NEW w \in Writers, Sent(w)
  PROVE  QueueInv'
<1> DEFINE f == sending[w]
<1>1. /\ QueueTypes /\ FramesApart /\ DebtsInHand /\ SpillsAreOwed
      /\ seq <= Cardinality(Written(fate)) /\ MaxFrames \in Nat
  BY QueueAssumption DEF QueueInv, QueueAssumption
<1>2. /\ at[w] = "send" /\ at' = [at EXCEPT ![w] = "run"]
      /\ UNCHANGED <<log, critical, ephemeral, owed, sending, batch, told>>
  BY DEF Sent
<1>3. Offered' = Offered /\ Offered \subseteq FrameIds
  BY <1>1, <1>2 DEF Offered, FrameIds, QueueTypes
<1>4. f \in Offered /\ f \in FrameIds /\ fate[f] = "sending"
  BY <1>1, <1>2, <1>3 DEF FramesApart
<1>5. PICK st \in {"published", "failed"} :
        /\ fate' = [fate EXCEPT ![f] = st]
        /\ \/ /\ st = "published" /\ seq' = IF log[f].to = Market THEN seq + 1 ELSE seq
              /\ published' = Append(published, [frame |-> f, seq |-> seq'])
           \/ st = "failed" /\ UNCHANGED <<published, seq>>
  BY DEF Sent
<1> HIDE DEF f
<1>6. /\ fate' \in [FrameIds -> Fates] /\ fate'[f] = st
      /\ \A g \in FrameIds : g # f => fate'[g] = fate[g]
  BY <1>1, <1>4, <1>5 DEF QueueTypes, Fates
<1>7. /\ at' \in [Writers -> {"run", "send", "flush", "idle"}] /\ at'[w] = "run"
      /\ \A v \in Writers : v # w => at'[v] = at[v]
  BY <1>1, <1>2 DEF QueueTypes
<1>8. /\ seq' \in Nat /\ seq' <= Cardinality(Written(fate'))
  <2>0. seq \in Nat /\ Cardinality(Written(fate)) \in Nat
    BY <1>1, WrittenBounded DEF QueueTypes
  <2>1. CASE st = "published"
    <3>1. Cardinality(Written(fate')) = Cardinality(Written(fate)) + 1
      BY <1>1, <1>4, <1>6, <2>1, OneWritten
    <3>2. seq' = seq + 1 \/ seq' = seq
      BY <1>5, <2>1
    <3> QED
      BY <1>1, <2>0, <3>1, <3>2
  <2>2. CASE st = "failed"
    <3>1. \A g \in FrameIds : fate[g] = "published" <=> fate'[g] = "published"
      BY <1>4, <1>6, <2>2
    <3>2. Written(fate') = Written(fate)
      BY <3>1, NothingWritten, Zenon
    <3>3. seq' = seq
      BY <1>5, <2>2
    <3> QED
      BY <1>1, <2>0, <3>2, <3>3
  <2> QED
    BY <2>1, <2>2
<1>9. published' \in Seq([frame : FrameIds, seq : 0..MaxFrames])
  <2>1. published \in Seq([frame : FrameIds, seq : 0..MaxFrames])
    BY <1>1 DEF QueueTypes
  <2>2. seq' \in 0..MaxFrames
    BY <1>1, <1>8, WrittenBounded
  <2>3. [frame |-> f, seq |-> seq'] \in [frame : FrameIds, seq : 0..MaxFrames]
    BY <1>4, <2>2
  <2> DEFINE Rows == [frame : FrameIds, seq : 0..MaxFrames]
             r == [frame |-> f, seq |-> seq']
  <2>4. published' = Append(published, r) \/ published' = published
    BY <1>5
  <2>5. published \in Seq(Rows) /\ r \in Rows
    BY <2>1, <2>3
  <2>6. SUFFICES published' \in Seq(Rows)
    OBVIOUS
  <2> HIDE DEF Rows, r
  <2> QED
    BY <2>4, <2>5
<1>10. QueueTypes'
  BY <1>1, <1>2, <1>6, <1>7, <1>8, <1>9 DEF QueueTypes
<1>11. FramesApart'
  <2>1. \A g \in FrameIds : g > Len(log') => fate'[g] = "none"
    BY <1>1, <1>2, <1>4, <1>6 DEF FramesApart
  <2>2. /\ \A n \in 1..Len(critical) : fate'[critical[n]] = "queued"
        /\ \A n \in 1..Len(ephemeral) : fate'[ephemeral[n]] = "queued"
    <3>1. /\ Waits(critical, CriticalTypes, log, fate) /\ Waits(ephemeral, EphemeralTypes, log, fate)
      BY <1>1 DEF FramesApart
    <3>2. /\ \A n \in 1..Len(critical) : critical[n] \in Offered /\ fate[critical[n]] = "queued"
          /\ \A n \in 1..Len(ephemeral) : ephemeral[n] \in Offered /\ fate[ephemeral[n]] = "queued"
      BY <3>1 DEF Waits, Offered
    <3> QED
      BY <1>3, <1>4, <1>6, <3>2
  <2>3. Waits(critical', CriticalTypes, log', fate') /\ Waits(ephemeral', EphemeralTypes, log', fate')
    BY <1>1, <1>2, <2>2 DEF FramesApart, Waits
  <2>4. \A v \in Writers : at'[v] = "send" => v # w /\ at[v] = "send" /\ sending[v] # f
    BY <1>1, <1>2, <1>7 DEF FramesApart, f
  <2>5. \A v \in Writers : at'[v] = "send" => /\ sending'[v] \in Offered'
                                              /\ fate'[sending'[v]] = "sending"
    BY <1>1, <1>2, <1>3, <1>6, <2>4 DEF FramesApart
  <2>6. \A v, x \in Writers :
          at'[v] = "send" /\ at'[x] = "send" /\ sending'[v] = sending'[x] => v = x
    BY <1>1, <1>2, <2>4 DEF FramesApart
  <2> QED
    BY <2>1, <2>3, <2>5, <2>6 DEF FramesApart
<1>12. DebtsInHand'
  BY Zenon, <1>1, <1>2, <1>7 DEF DebtsInHand
<1>13. SpillsAreOwed'
  <2>1. \A g \in Offered : fate'[g] = "spilled" => fate[g] = "spilled"
    BY <1>3, <1>6
  <2> QED
    BY <1>1, <1>2, <2>1, SpillsKept
<1> QED
  BY <1>8, <1>10, <1>11, <1>12, <1>13 DEF QueueInv

(* A writer takes the debts to flush them. *)
LEMMA FlushKeeps ==
  ASSUME QueueInv, NEW w \in Writers, Flush(w)
  PROVE  QueueInv'
<1>1. /\ QueueTypes /\ FramesApart /\ DebtsInHand /\ SpillsAreOwed
  BY DEF QueueInv
<1>2. /\ at[w] = "run" /\ batch' = [batch EXCEPT ![w] = owed] /\ owed' = {}
      /\ at' = [at EXCEPT ![w] = "flush"]
      /\ UNCHANGED <<log, fate, critical, ephemeral, sending, published, seq, told>>
  BY DEF Flush
<1>3. /\ at' \in [Writers -> {"run", "send", "flush", "idle"}] /\ at'[w] = "flush"
      /\ batch' \in [Writers -> SUBSET Clients] /\ batch'[w] = owed
      /\ \A v \in Writers : v # w => at'[v] = at[v] /\ batch'[v] = batch[v]
  BY <1>1, <1>2 DEF QueueTypes
<1>4. QueueTypes'
  BY <1>1, <1>2, <1>3 DEF QueueTypes
<1>5. FramesApart'
  <2>1. \A v \in Writers : at'[v] = "send" => at[v] = "send"
    BY <1>3
  <2> QED
    BY <1>1, <1>2, <2>1 DEF FramesApart, Offered
<1>6. DebtsInHand'
  BY Zenon, <1>1, <1>3 DEF DebtsInHand
<1>7. batch[w] = {}
  BY <1>1, <1>2 DEF DebtsInHand
<1>8. \A u : u \in UNION {batch[v] : v \in Writers} => u \in UNION {batch'[v] : v \in Writers}
  BY <1>3, <1>7
<1>9. \A u \in owed : u \in UNION {batch'[v] : v \in Writers}
  BY <1>3
<1>10. SpillsAreOwed'
  BY <1>1, <1>2, <1>8, <1>9, SpillsKept
<1> QED
  BY <1>2, <1>4, <1>5, <1>6, <1>10 DEF QueueInv

(* A resync marker goes out. *)
LEMMA SendResyncKeeps ==
  ASSUME QueueInv, NEW w \in Writers, SendResync(w)
  PROVE  QueueInv'
<1>1. /\ QueueTypes /\ FramesApart /\ DebtsInHand /\ SpillsAreOwed
  BY DEF QueueInv
<1>2. PICK u \in batch[w] : batch' = [batch EXCEPT ![w] = @ \ {u}] /\ told' = told \cup {u}
  BY Zenon DEF SendResync
<1>3. /\ at[w] = "flush"
      /\ UNCHANGED <<log, fate, critical, ephemeral, owed, at, sending, published, seq>>
  BY DEF SendResync
<1>4. /\ batch' \in [Writers -> SUBSET Clients] /\ batch'[w] = batch[w] \ {u} /\ u \in Clients
      /\ \A v \in Writers : v # w => batch'[v] = batch[v]
  BY <1>1, <1>2 DEF QueueTypes
<1>5. QueueTypes'
  BY <1>1, <1>2, <1>3, <1>4 DEF QueueTypes
<1>6. FramesApart'
  BY <1>1, <1>3 DEF FramesApart, Offered
<1>7. DebtsInHand'
  BY Zenon, <1>1, <1>3, <1>4 DEF DebtsInHand
<1>8. \A c : c \in UNION {batch[v] : v \in Writers}
               => c = u \/ c \in UNION {batch'[v] : v \in Writers}
  BY <1>4
<1>9. SpillsAreOwed'
  BY <1>1, <1>2, <1>3, <1>8, SpillsKept
<1> QED
  BY <1>3, <1>5, <1>6, <1>7, <1>9 DEF QueueInv

(* A writer looks once more, and sleeps or drops what it found.            *)
LEMMA IdleKeeps ==
  ASSUME QueueInv, NEW w \in Writers, Idle(w)
  PROVE  QueueInv'
<1>1. /\ QueueTypes /\ FramesApart /\ DebtsInHand /\ SpillsAreOwed
      /\ seq <= Cardinality(Written(fate))
  BY DEF QueueInv
<1>2. at[w] \in {"run", "flush"} /\ batch[w] = {}
  BY <1>1 DEF Idle, DebtsInHand
<1>3. UNCHANGED <<log, owed, sending, batch, published, seq, told>>
  BY DEF Idle, Recheck
<1>4. PICK st \in {"idle", "run"} : at' = [at EXCEPT ![w] = st]
  BY DEF Idle, Recheck
<1>5. /\ at' \in [Writers -> {"run", "send", "flush", "idle"}] /\ at'[w] # "send"
      /\ \A v \in Writers : v # w => at'[v] = at[v]
  BY <1>1, <1>4 DEF QueueTypes
<1>6. DebtsInHand'
  BY <1>1, <1>2, <1>3, <1>5 DEF DebtsInHand
<1>7. Offered' = Offered /\ Offered \subseteq FrameIds
  BY <1>1, <1>3, QueueAssumption DEF Offered, FrameIds, QueueTypes, QueueAssumption
<1>8. CASE UNCHANGED <<critical, ephemeral, fate>>
  <2>1. QueueTypes'
    BY <1>1, <1>3, <1>5, <1>8 DEF QueueTypes
  <2>2. \A v \in Writers : at'[v] = "send" => at[v] = "send"
    BY <1>5
  <2>3. FramesApart'
    BY <1>1, <1>3, <1>8, <2>2 DEF FramesApart, Offered
  <2>4. SpillsAreOwed'
    BY Zenon, <1>1, <1>3, <1>8, SpillsKept
  <2> QED
    BY <1>1, <1>3, <1>6, <1>8, <2>1, <2>3, <2>4 DEF QueueInv
<1>9. CASE \E f \in Offered : Pop(f) /\ fate' = [fate EXCEPT ![f] = "discarded"]
  <2>1. PICK f \in Offered : Pop(f) /\ fate' = [fate EXCEPT ![f] = "discarded"]
    BY Zenon, <1>9
  <2>2. f \in FrameIds /\ fate[f] = "queued" /\ QueuesKept(fate')
    BY <1>3, <2>1, PopKeeps, Zenon
  <2>3. /\ fate' \in [FrameIds -> Fates] /\ fate'[f] = "discarded"
        /\ \A g \in FrameIds : g # f => fate'[g] = fate[g]
    BY <1>1, <2>1, <2>2 DEF QueueTypes, Fates
  <2>4. QueueTypes'
    BY <1>1, <1>3, <1>5, <2>2, <2>3 DEF QueueTypes, QueuesKept
  <2>5. FramesApart'
    <3>1. \A g \in FrameIds : g > Len(log') => fate'[g] = "none"
      BY Zenon, <1>1, <1>3, <2>2, <2>3 DEF FramesApart
    <3>2. \A v \in Writers : at'[v] = "send" => at[v] = "send" /\ sending[v] \in Offered /\ sending[v] # f
      BY <1>1, <1>5, <2>2 DEF FramesApart
    <3>3. \A v \in Writers : at'[v] = "send" => /\ sending'[v] \in Offered'
                                                /\ fate'[sending'[v]] = "sending"
      BY <1>1, <1>3, <1>7, <2>3, <3>2 DEF FramesApart
    <3>4. \A v, x \in Writers :
            at'[v] = "send" /\ at'[x] = "send" /\ sending'[v] = sending'[x] => v = x
      BY Zenon, <1>1, <1>3, <3>2 DEF FramesApart
    <3> QED
      BY <2>2, <3>1, <3>3, <3>4 DEF FramesApart, QueuesKept
  <2>6. SpillsAreOwed'
    <3>1. \A g \in Offered : fate'[g] = "spilled" => fate[g] = "spilled"
      BY <1>7, <2>3
    <3> QED
      BY <1>1, <1>3, <3>1, SpillsKept
  <2>7. Written(fate') = Written(fate)
    <3>1. \A g \in FrameIds : fate[g] = "published" <=> fate'[g] = "published"
      BY <2>2, <2>3
    <3> QED
      BY <3>1, NothingWritten, Zenon
  <2> QED
    BY <1>1, <1>3, <1>6, <2>4, <2>5, <2>6, <2>7 DEF QueueInv
<1> QED
  BY <1>8, <1>9 DEF Idle, Recheck

(* An idle writer wakes. *)
LEMMA ResumeKeeps ==
  ASSUME QueueInv, NEW w \in Writers, Resume(w)
  PROVE  QueueInv'
<1>1. /\ QueueTypes /\ FramesApart /\ DebtsInHand /\ SpillsAreOwed
  BY DEF QueueInv
<1>2. /\ at[w] = "idle" /\ at' = [at EXCEPT ![w] = "run"]
      /\ UNCHANGED <<log, fate, critical, ephemeral, owed, sending, batch, published, seq, told>>
  BY DEF Resume
<1>3. /\ at' \in [Writers -> {"run", "send", "flush", "idle"}] /\ at'[w] = "run"
      /\ \A v \in Writers : v # w => at'[v] = at[v]
  BY <1>1, <1>2 DEF QueueTypes
<1>4. QueueTypes'
  BY <1>1, <1>2, <1>3 DEF QueueTypes
<1>5. \A v \in Writers : at'[v] = "send" => at[v] = "send"
  BY <1>3
<1>6. FramesApart'
  BY <1>1, <1>2, <1>5 DEF FramesApart, Offered
<1>7. DebtsInHand'
  BY Zenon, <1>1, <1>2, <1>3 DEF DebtsInHand
<1>8. SpillsAreOwed'
  BY <1>1, <1>2, SpillsKept
<1> QED
  BY <1>2, <1>4, <1>6, <1>7, <1>8 DEF QueueInv

-----------------------------------------------------------------------------
(* The queues start empty, with nothing owed.                              *)
LEMMA InitQueueInv == QueueInit => QueueInv
<1> SUFFICES ASSUME QueueInit PROVE QueueInv
  OBVIOUS
<1>0. /\ CriticalMax \in Nat /\ EphemeralMax \in Nat /\ MaxFrames \in Nat
  BY QueueAssumption DEF QueueAssumption
<1>1. /\ log = <<>> /\ fate = [f \in FrameIds |-> "none"] /\ critical = <<>> /\ ephemeral = <<>>
      /\ owed = {} /\ at = [w \in Writers |-> "run"] /\ sending = [w \in Writers |-> 0]
      /\ batch = [w \in Writers |-> {}] /\ published = <<>> /\ seq = 0 /\ told = {}
  BY DEF QueueInit
<1>2. QueueTypes
  BY <1>0, <1>1 DEF QueueTypes, Fates
<1>3. FramesApart
  BY <1>1 DEF FramesApart, Waits, Rising
<1>4. DebtsInHand
  BY <1>1 DEF DebtsInHand
<1>5. SpillsAreOwed
  BY <1>1 DEF SpillsAreOwed, Offered
<1>6. Cardinality(Written(fate)) \in Nat
  BY <1>0, WrittenBounded
<1> QED
  BY <1>1, <1>2, <1>3, <1>4, <1>5, <1>6 DEF QueueInv

(* Every step of a publisher or a writer, in any order, keeps the          *)
(* invariant.                                                              *)
LEMMA NextQueueInv == QueueInv /\ [QueueNext]_queueVars => QueueInv'
<1> SUFFICES ASSUME QueueInv, [QueueNext]_queueVars PROVE QueueInv'
  OBVIOUS
<1>1. CASE \E frame \in Frames : Enqueue(frame)
  BY <1>1, EnqueueKeeps
<1>2. CASE \E w \in Writers : Writer(w)
  <2>1. PICK w \in Writers : Writer(w)
    BY <1>2
  <2> QED
    BY <2>1, TakeKeeps, SentKeeps, FlushKeeps, SendResyncKeeps, IdleKeeps, ResumeKeeps DEF Writer
<1>3. CASE UNCHANGED queueVars
  <2>1. /\ QueueTypes' /\ FramesApart' /\ DebtsInHand' /\ SpillsAreOwed'
    BY <1>3 DEF QueueInv, queueVars, QueueTypes, FramesApart, DebtsInHand, SpillsAreOwed, Offered
  <2> QED
    BY <1>3, <2>1 DEF QueueInv, queueVars
<1> QED
  BY <1>1, <1>2, <1>3 DEF QueueNext

(* The invariant that the theorems about the publish queue read off.       *)
LEMMA QueueInvariant == QueueSpec => []QueueInv
  BY InitQueueInv, NextQueueInv, PTL DEF QueueSpec

(* However many writers, clients and frames there are and whatever fails:  *)
(* a client whose private frame overflowed is owed a resync, is being sent *)
(* one or was sent one since.  (_spill, _flush_owed_resyncs)               *)
THEOREM QueueSpillsAreOwed == QueueSpec => []SpillsAreOwed
  BY QueueInvariant, PTL DEF QueueInv

(* The variables keep their types, the queues their configured bounds, and *)
(* a market's counter never passes the number of frames offered, because   *)
(* no frame is written twice.  (enqueue, _next, market_publish_op)         *)
THEOREM QueueTyped == QueueSpec => []QueueTypeOK
<1>1. QueueInv => QueueTypeOK
  <2> SUFFICES ASSUME QueueInv PROVE QueueTypeOK
    OBVIOUS
  <2>1. seq \in 0..MaxFrames
    BY WrittenBounded, QueueAssumption DEF QueueInv, QueueTypes, QueueAssumption
  <2> QED
    BY <2>1 DEF QueueInv, QueueTypes, QueueTypeOK, FramesApart, Waits
<1> QED
  BY <1>1, QueueInvariant, PTL
=============================================================================
