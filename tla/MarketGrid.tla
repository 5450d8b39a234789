---------------------------- MODULE MarketGrid ----------------------------
(***************************************************************************)
(* The live market grid (components/markets/market-list.tsx, with          *)
(* useMarketGrid and useVisibleRange) and the server's batching of it      *)
(* (backend/app/websocket/manager.py).  A price is known by the sequence   *)
(* number of its frame.  0 stands for an absent map entry.                 *)
(*                                                                         *)
(* Abstracted: geometry, so the window is any of a few sets of rows; how   *)
(* long a timer runs; the socket, which stays open (MarketSocket models    *)
(* its loss); pagination, so the loaded rows do not change.                *)
(***************************************************************************)
EXTENDS Naturals, Sequences, FiniteSets

CONSTANTS
  GridRows,      \* the markets of the list, in order
  Windows,       \* sets of row indices that can be on screen
  Ticks,         \* frames stamped per market
  MaxScrolls,
  MaxLost,       \* frames lost on their way to the gateway
  OtherFrames    \* trades, books and comments share the price frames' counter

VARIABLES
  window,        \* visibleIndices
  cards,          \* the list query's cards: status, and the frame its price reflects
  listFetch,     \* the list query is being reread
  live,          \* overlay per market
  pending, baseSeq, needsResync, gridFlush, resolvedRef,
  focus,         \* index of the focused card, 0 for none
  declared,      \* the set last declared to the server
  head,          \* last sequence number stamped per market
  gridSettled,       \* markets the server has resolved
  buffer,        \* _grid_pending of this socket: one frame per market
  batches,       \* prices_batch frames on the wire
  gridMissed,    \* price frames past the baseline that the grid will not receive,
                 \* nor a newer price of their flush window
  scrolls, lost

gridVars == <<window, cards, listFetch, live, pending, baseSeq, needsResync, gridFlush,
              resolvedRef, focus, declared, head, gridSettled, buffer, batches, gridMissed,
              scrolls, lost>>

GridMarkets == {GridRows[i] : i \in DOMAIN GridRows}
NoFrames == [m \in {} |-> 0]
NoSeqs  == [m \in GridMarkets |-> 0]

-----------------------------------------------------------------------------
(* marketIds: drop rows known dead, then keep positions in the window. *)
marketIds(rs, gone, win) ==
  LET alive == SelectSeq(GridRows, LAMBDA m : rs[m].status = "open" /\ m \notin gone)
  IN {alive[i] : i \in win \cap DOMAIN alive}

(* What the card of m paints: the overlay, or the row. *)
shown(rs, lv, m) == IF lv[m] # 0 THEN lv[m] ELSE rs[m].seq

(* A render, and the effects it runs: declare the new set, for which       *)
(* clear_grid drops what the server still buffers, and forget the overlay  *)
(* and baseline of what is no longer declared.                             *)
Rendered(rs, win, lv, seqs) ==
  LET ids     == marketIds(rs, resolvedRef, win)
      changed == ids # declared
      keep(f) == [m \in GridMarkets |-> IF m \in ids THEN f[m] ELSE 0]
  IN /\ declared' = ids
     /\ buffer'   = IF changed THEN NoFrames ELSE buffer
     /\ live'     = IF changed THEN keep(lv) ELSE lv
     /\ baseSeq'  = IF changed THEN keep(seqs) ELSE seqs
     /\ gridMissed' = [m \in GridMarkets |->
          IF changed /\ m \notin ids THEN {}
          ELSE {s \in gridMissed[m] : s > shown(rs, lv, m)}
               \cup {buffer[k].seq : k \in {k \in DOMAIN buffer : changed /\ k = m /\ seqs[m] # 0
                                                            /\ buffer[m].type = "price"}}]

(* A focused card that leaves the window hands focus to the next rendered  *)
(* card, or the last one.                                                  *)
refocused(win) ==
  LET ahead == {i \in win : i > focus}
  IN IF focus = 0 \/ focus \in win THEN focus
     ELSE IF ahead # {} THEN CHOOSE i \in ahead : \A j \in ahead : i <= j
     ELSE CHOOSE i \in win : \A j \in win : j <= i

(* Scrolling or resizing moves the window (useVisibleRange). *)
Scroll(win) ==
  /\ win # window /\ scrolls < MaxScrolls /\ scrolls' = scrolls + 1
  /\ window' = win
  /\ Rendered(cards, win, live, baseSeq)
  /\ focus' = refocused(win)
  /\ UNCHANGED <<cards, listFetch, pending, needsResync, gridFlush, resolvedRef, head,
                 gridSettled, batches, lost>>

(* focusin on a card; which one has focus later is up to Scroll. *)
FocusCard ==
  /\ focus = 0 /\ \E i \in window : focus' = i
  /\ UNCHANGED <<window, cards, listFetch, live, pending, baseSeq, needsResync, gridFlush,
                 resolvedRef, declared, head, gridSettled, buffer, batches, gridMissed, scrolls, lost>>

-----------------------------------------------------------------------------
isLoss(prev, from) == prev # 0 /\ from > prev + 1

(* Mutant: a resolution leaves the price that waits for the flush. *)
handlePricesKeepsPending ==
  /\ batches # <<>> /\ batches' = Tail(batches)
  /\ LET b       == Head(batches)
         ended   == {m \in DOMAIN b : b[m].type = "resolved"}
         lossy   == {m \in DOMAIN b \ ended : isLoss(baseSeq[m], b[m].from)}
         upd(f)  == [m \in GridMarkets |-> IF m \in DOMAIN b \ (ended \cup lossy) THEN b[m].seq
                                           ELSE f[m]]
     IN /\ resolvedRef' = resolvedRef \cup ended
        /\ live' = [m \in GridMarkets |-> IF m \in ended THEN 0 ELSE live[m]]
        /\ pending' = upd(pending) /\ baseSeq' = upd(baseSeq)
        /\ needsResync' = (needsResync \/ lossy # {})
        /\ gridMissed' = [m \in GridMarkets |-> IF m \in ended THEN {} ELSE gridMissed[m]]
  /\ listFetch' = (listFetch \/ resolvedRef' # {})
  /\ gridFlush' = TRUE
  /\ UNCHANGED <<window, cards, focus, declared, head, gridSettled, buffer, scrolls, lost>>

(* handlePrices: every frame of the batch, then one reread if anything has *)
(* resolved in this session, and the flush timer.                          *)
handlePrices ==
  /\ batches # <<>> /\ batches' = Tail(batches)
  /\ LET b       == Head(batches)
         ended   == {m \in DOMAIN b : b[m].type = "resolved"}
         lossy   == {m \in DOMAIN b \ ended : isLoss(baseSeq[m], b[m].from)}
         applied == DOMAIN b \ (ended \cup lossy)
         upd(f)  == [m \in GridMarkets |-> IF m \in ended THEN 0
                                           ELSE IF m \in applied THEN b[m].seq ELSE f[m]]
     IN /\ resolvedRef' = resolvedRef \cup ended
        /\ live' = [m \in GridMarkets |-> IF m \in ended THEN 0 ELSE live[m]]
        /\ pending' = upd(pending) /\ baseSeq' = upd(baseSeq)
        /\ needsResync' = (needsResync \/ lossy # {})
        /\ gridMissed' = [m \in GridMarkets |-> IF m \in ended THEN {} ELSE gridMissed[m]]
  /\ listFetch' = (listFetch \/ resolvedRef' # {})
  /\ gridFlush' = TRUE
  /\ UNCHANGED <<window, cards, focus, declared, head, gridSettled, buffer, scrolls, lost>>

(* flush: a provable loss rereads the list and starts over; otherwise the  *)
(* newest price per market is painted.                                     *)
flush ==
  /\ gridFlush /\ gridFlush' = FALSE
  /\ pending' = NoSeqs
  /\ IF needsResync
     THEN /\ needsResync' = FALSE /\ listFetch' = TRUE /\ Rendered(cards, window, NoSeqs, NoSeqs)
     ELSE /\ Rendered(cards, window,
                      [m \in GridMarkets |-> IF pending[m] # 0 THEN pending[m] ELSE live[m]], baseSeq)
          /\ UNCHANGED <<needsResync, listFetch>>
  /\ UNCHANGED <<window, cards, resolvedRef, focus, head, gridSettled, batches, scrolls, lost>>

(* The list query's response arrives and the grid renders with it. *)
ListRead ==
  /\ listFetch /\ listFetch' = FALSE
  /\ cards' = [m \in GridMarkets |->
                [status |-> IF m \in gridSettled THEN "resolved" ELSE "open", seq |-> head[m]]]
  /\ Rendered(cards', window, live, baseSeq)
  /\ UNCHANGED <<window, pending, needsResync, gridFlush, resolvedRef, focus, head, gridSettled,
                 batches, scrolls, lost>>

-----------------------------------------------------------------------------
(* The gateway *)

(* _buffer_grid_event: the newest frame per market, remembering the first  *)
(* number of the window; a resolution is not overwritten.                  *)
buffered(m, type, s) ==
  IF m \in DOMAIN buffer /\ buffer[m].type = "resolved" THEN buffer
  ELSE LET from == IF m \in DOMAIN buffer THEN buffer[m].from ELSE s
       IN [k \in DOMAIN buffer \cup {m} |->
             IF k = m THEN [type |-> type, seq |-> s, from |-> from] ELSE buffer[k]]

(* An event of the market is stamped and broadcast; a grid hears of prices *)
(* and of the resolution.  After a resolution only a tick of the same      *)
(* flush window still arrives.                                             *)
Stamp(m, type) ==
  /\ head[m] < Ticks[m] /\ head' = [head EXCEPT ![m] = @ + 1]
  /\ m \in gridSettled => type = "price" /\ m \in DOMAIN buffer /\ buffer[m].type = "resolved"
  /\ gridSettled' = IF type = "resolved" THEN gridSettled \cup {m} ELSE gridSettled
  /\ \/ /\ buffer' = IF m \in declared /\ type # "other" THEN buffered(m, type, head[m] + 1)
                     ELSE buffer
        /\ gridMissed' = IF buffer' = buffer THEN gridMissed
                         ELSE [gridMissed EXCEPT ![m] = {s \in @ : s < buffer'[m].from}]
        /\ UNCHANGED lost
     \/ /\ type = "price" /\ m \in declared /\ lost < MaxLost /\ lost' = lost + 1
        /\ gridMissed' = [gridMissed EXCEPT ![m] =
                            IF baseSeq[m] # 0 THEN @ \cup {head[m] + 1} ELSE @]
        /\ UNCHANGED buffer
  /\ UNCHANGED <<window, cards, listFetch, live, pending, baseSeq, needsResync, gridFlush,
                 resolvedRef, focus, declared, batches, scrolls>>

(* flush_grid *)
flush_grid ==
  /\ buffer # NoFrames
  /\ batches' = Append(batches, buffer) /\ buffer' = NoFrames
  /\ UNCHANGED <<window, cards, listFetch, live, pending, baseSeq, needsResync, gridFlush,
                 resolvedRef, focus, declared, head, gridSettled, gridMissed, scrolls, lost>>

-----------------------------------------------------------------------------
GridInit ==
  /\ window \in Windows
  /\ cards = [m \in GridMarkets |-> [status |-> "open", seq |-> 0]]
  /\ listFetch = FALSE
  /\ live = NoSeqs /\ pending = NoSeqs /\ baseSeq = NoSeqs
  /\ needsResync = FALSE /\ gridFlush = FALSE /\ resolvedRef = {} /\ focus = 0
  /\ declared = {GridRows[i] : i \in window}
  /\ head = NoSeqs /\ gridSettled = {} /\ buffer = NoFrames /\ batches = <<>>
  /\ gridMissed = [m \in GridMarkets |-> {}]
  /\ scrolls = 0 /\ lost = 0

GridNext ==
  \/ \E win \in Windows : Scroll(win)
  \/ FocusCard \/ handlePrices \/ flush \/ ListRead \/ flush_grid
  \/ \E m \in GridMarkets :
       \E type \in {"price", "resolved"} \cup (IF OtherFrames THEN {"other"} ELSE {}) :
         Stamp(m, type)

GridSpec == GridInit /\ [][GridNext]_gridVars

-----------------------------------------------------------------------------
(* Properties *)

GridFrames == [type : {"price", "resolved"}, seq : Nat, from : Nat]

GridTypeOK ==
  /\ window \in Windows /\ scrolls \in 0..MaxScrolls /\ lost \in 0..MaxLost
  /\ \A m \in GridMarkets :
       /\ cards[m] \in [status : {"open", "resolved"}, seq : 0..Ticks[m]]
       /\ {live[m], pending[m], baseSeq[m], head[m]} \subseteq 0..Ticks[m]
       /\ gridMissed[m] \subseteq 1..Ticks[m]
  /\ {listFetch, needsResync, gridFlush} \subseteq BOOLEAN
  /\ resolvedRef \subseteq gridSettled /\ gridSettled \subseteq GridMarkets /\ declared \subseteq GridMarkets
  /\ focus \in 0..Len(GridRows)
  /\ DOMAIN buffer \subseteq declared /\ \A m \in DOMAIN buffer : buffer[m] \in GridFrames
  /\ \A i \in DOMAIN batches : \A m \in DOMAIN batches[i] : batches[i][m] \in GridFrames

(* Coalescing never hides a loss: a price frame lost past the baseline is  *)
(* above it still, or a resync is due.  What is lost inside a flush window *)
(* and followed by a newer price in it leaves no gap in seq_from; gridMissed *)
(* does not count it.  (seq_from against seq, and flush)                   *)
GridNoLossPassedOver ==
  \A m \in GridMarkets : \A s \in gridMissed[m] : s > baseSeq[m] \/ needsResync \/ listFetch

(* A market the grid was told is settled never paints a live price again,  *)
(* whatever was buffered, pending or in flight.  (the terminal entry of    *)
(* _buffer_grid_event, and handlePrices dropping pending and overlay)      *)
SettledPaintsNothing == \A m \in resolvedRef : live[m] = 0 /\ pending[m] = 0

(* Keyboard focus is on a rendered card however the window moves.          *)
(* (the focus effect of MarketList)                                        *)
FocusStaysRendered == focus # 0 => focus \in window

(* A price the grid received is painted, or superseded, or its market      *)
(* leaves the declared set, even when a resync drops the pending frames.   *)
ReceivedGetsPainted ==
  \A m \in GridMarkets : pending[m] # 0
    ~> (\A t \in 1..Ticks[m] : baseSeq[m] >= t => shown(cards, live, m) >= t) \/ m \notin declared

(* A market the grid was told is settled gives its slot back.              *)
ToldSettledLeaves == \A m \in GridMarkets : m \in resolvedRef ~> m \notin declared

(* Refuted: every market that settles while the grid shows it leaves it.   *)
(* ("the terminal state wins", _buffer_grid_event)                         *)
SettledLeavesGrid ==
  \A m \in GridMarkets : m \in gridSettled /\ m \in declared ~> m \notin declared

(* Refuted: a resync means that a price frame was lost.                    *)
(* ("genuine transport loss makes it a gap", _buffer_grid_event)           *)
GridResyncsOnlyOnLoss == needsResync => \E m \in GridMarkets : gridMissed[m] # {}

(* Refuted: every tradeable card in the window is declared.                *)
(* ("Only what is on screen, plus a small overscan", MarketList)           *)
VisibleIsDeclared ==
  \A i \in window : cards[GridRows[i]].status = "open" /\ GridRows[i] \notin resolvedRef
                      => GridRows[i] \in declared
=============================================================================
