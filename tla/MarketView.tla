----------------------------- MODULE MarketView -----------------------------
(***************************************************************************)
(* What is shown and said of a market's prices: the cards, the carousel,   *)
(* the order book, the candles and the ticker, and the announcer that      *)
(* reads price moves out. They share no state.                             *)
(***************************************************************************)
EXTENDS Integers, Sequences, FiniteSets

-----------------------------------------------------------------------------
(***************************************************************************)
(* How one market is priced on screen: the card in the list (its REST row  *)
(* overlaid with the newest socket frame), the detail page (its cached     *)
(* market patched frame by frame), the home page's carousel item (history  *)
(* plus live points), the order-book ladder, the candle view and the trade *)
(* ticker.  lib/live-price.ts and lib/utils/ohlc.ts hold the shared rules. *)
(*                                                                         *)
(* A behaviour is about one facet, chosen at the start.  Prices are small  *)
(* integers, NoPrice a price nobody quoted; a market's shape is the        *)
(* sequence of its outcome names in outcome_index order.                   *)
(***************************************************************************)

CONSTANTS Shapes,        \* the outcome lists markets have
          Alphabet,      \* every outcome name, in alphabetical order
          PriceLevels,   \* prices a trade may lead to
          MaxLiveQuotes,     \* price moves
          MaxPoints,     \* points a sparkline keeps
          MaxTicker,     \* rows the ticker shows
          MaxTrades      \* trades the ticker hears of

VARIABLES facet,         \* which of the views the behaviour follows
          shape,
          liveQuote,         \* the server's price of each outcome
          ever,          \* every price each outcome was quoted at
          moved,         \* price moves so far
          listed,        \* the market as GET /markets returned it
          cached,        \* the market as the detail page caches it
          overlay,       \* the newest frame the grid painted, or NoFrame
          degraded,      \* some frame left its outcome prices out
          samples,       \* snapshots the history endpoint would return
          sparks,        \* history points the carousel item read
          livePrice,
          livePoints,
          ladder,        \* an order book
          bucket,        \* the snapshots of one history bucket
          ticker         \* the ticker's rows and timers

priceVars == <<shape, liveQuote, ever, moved, listed, cached, overlay, degraded, samples,
               sparks, livePrice, livePoints>>
viewVars == <<facet, priceVars, ladder, bucket, ticker>>

NoPrice == -1
Even == 0                  \* the 0.5, or the 1/n, of a price that is not there
NoFrame == [yes |-> NoPrice, no |-> NoPrice, outcomes |-> <<>>]

NamesOf(s) == {s[i] : i \in 1..Len(s)}
FirstOf(set) == SelectSeq(Alphabet, LAMBDA n : n \in set)[1]
Keep(s, k) == IF Len(s) > k THEN SubSeq(s, Len(s) - k + 1, Len(s)) ELSE s
MaxOf(set) == CHOOSE x \in set : \A y \in set : y <= x
MinOf(set) == CHOOSE x \in set : \A y \in set : x <= y

\* No yes/no pair: priced per outcome from its own pool.
is_parimutuel(names) == ~({"Yes", "No"} \subseteq names)

pairOf(q) == IF is_parimutuel(DOMAIN q) THEN [yes |-> Even, no |-> Even]
             ELSE [yes |-> q["Yes"], no |-> q["No"]]

\* GET /markets prices outcomes only where the market is parimutuel.
list_markets(q) ==
  [yes |-> pairOf(q).yes, no |-> pairOf(q).no,
   outcomes |-> IF is_parimutuel(DOMAIN q) THEN q ELSE <<>>]

\* GET /markets/{slug} lists every outcome.
get_market(q) == [yes |-> pairOf(q).yes, no |-> pairOf(q).no, outcomes |-> q]

\* The frame a trade publishes; outcome prices may be unavailable.
price_update(q, whole) ==
  [yes |-> pairOf(q).yes, no |-> pairOf(q).no,
   outcomes |-> IF is_parimutuel(DOMAIN q) /\ whole THEN q ELSE <<>>]

(***************************************************************************)
(* lib/live-price.ts                                                       *)
(***************************************************************************)

patchMarketPrices(market, frame) ==
  [yes |-> IF frame.yes = NoPrice THEN market.yes ELSE frame.yes,
   no |-> IF frame.no = NoPrice THEN market.no ELSE frame.no,
   outcomes |-> [n \in DOMAIN market.outcomes |->
                   IF n \in DOMAIN frame.outcomes THEN frame.outcomes[n]
                   ELSE market.outcomes[n]]]

\* Mutant: a card takes the pair from the frame and leaves its outcomes alone.
applyLivePricesPair(market, frame) ==
  IF frame = NoFrame THEN market ELSE [market EXCEPT !.yes = frame.yes, !.no = frame.no]

\* The same rules for a card, over whatever the list handed it.
applyLivePrices(market, frame) == patchMarketPrices(market, frame)

\* The API's price first, a book midpoint only for an outcome it left out.
buildOutcomePrices(outcomes, mids) ==
  [n \in {m \in DOMAIN outcomes : outcomes[m] # NoPrice} \cup DOMAIN mids |->
     IF n \in DOMAIN outcomes /\ outcomes[n] # NoPrice THEN outcomes[n] ELSE mids[n]]

\* The chart point of a frame: its first outcome's price, or the YES price.
buildLivePricePoint(s, frame) ==
  IF DOMAIN frame.outcomes # {}
  THEN [value |-> frame.outcomes[s[1]], lines |-> frame.outcomes]
  ELSE [value |-> frame.yes,
        lines |-> [n \in {"Yes", "No"} |-> IF n = "Yes" THEN frame.yes ELSE frame.no]]

\* A sample's outcomes come sorted by name, so its first is the first by name.
priceHistoryToPoints(seq) ==
  [i \in 1..Len(seq) |->
     [value |-> seq[i][FirstOf(DOMAIN seq[i])], lines |-> seq[i]]]

\* The numbers of the detail page's header.
headerPrices(market) ==
  IF is_parimutuel(DOMAIN market.outcomes) THEN buildOutcomePrices(market.outcomes, <<>>)
  ELSE [n \in {"Yes", "No"} |-> IF n = "Yes" THEN market.yes ELSE market.no]

(***************************************************************************)
(* The card.                                                               *)
(***************************************************************************)

isMulti(market) == DOMAIN market.outcomes # {} /\ is_parimutuel(DOMAIN market.outcomes)

displayOutcomes(market) ==
  IF isMulti(market)
  THEN [n \in DOMAIN market.outcomes |->
          IF market.outcomes[n] = NoPrice THEN Even ELSE market.outcomes[n]]
  ELSE [n \in {"Yes", "No"} |-> IF n = "Yes" THEN market.yes ELSE market.no]

outcomeCount(market) == IF isMulti(market) THEN Cardinality(DOMAIN market.outcomes) ELSE 2

MAX_SLOTS == 4

\* Cells drawn, and outcomes the "+n more" tile stands for.
MultiOutcomeGrid(count) ==
  LET visible == IF count > MAX_SLOTS THEN MAX_SLOTS - 1 ELSE count
  IN  [cells |-> visible, overflow |-> count - visible]

\* What a resolved card quotes for the outcome that won.
resolvedPct(market, winner) ==
  IF ~isMulti(market) THEN IF winner = "No" THEN market.no ELSE market.yes
  ELSE IF winner \in DOMAIN market.outcomes THEN market.outcomes[winner] ELSE NoPrice

\* A resolved market draws its winner and no way to trade it.
MarketCard(market, resolved) ==
  IF resolved THEN [rows |-> {}, more |-> 0]
  ELSE IF isMulti(market)
  THEN LET grid == MultiOutcomeGrid(outcomeCount(market)) IN
       [rows |-> {n \in NamesOf(shape) : \E i \in 1..grid.cells : shape[i] = n},
        more |-> grid.overflow]
  ELSE [rows |-> {"Yes", "No"}, more |-> 0]

card == applyLivePrices(listed, overlay)

(***************************************************************************)
(* The carousel item.                                                      *)
(***************************************************************************)

sparkHistory ==
  IF sparks # <<>> THEN Keep(sparks \o livePoints, MaxPoints)
  ELSE Keep(<<[value |-> listed.yes, lines |-> <<>>], [value |-> listed.yes, lines |-> <<>>]>>
            \o livePoints, MaxPoints)

\* The outcomes' numbers: the API's, overridden by the newest history sample.
carouselOutcomes ==
  [n \in DOMAIN listed.outcomes |->
     LET priced == {i \in 1..Len(sparks) : n \in DOMAIN sparks[i].lines}
     IN  IF priced = {} THEN listed.outcomes[n] ELSE sparks[MaxOf(priced)].lines[n]]

shownPrice == IF livePrice # NoPrice THEN livePrice ELSE listed.yes

handlePriceMessage(f) ==
  /\ livePrice' = f.yes
  /\ livePoints' = Keep(Append(livePoints, buildLivePricePoint(shape, f)), MaxPoints)

\* Frames were lost: back to what REST said.
carouselResync ==
  /\ facet = "price"
  /\ livePrice' = NoPrice
  /\ livePoints' = <<>>
  /\ UNCHANGED <<facet, shape, liveQuote, ever, moved, listed, cached, overlay, degraded,
                 samples, sparks, ladder, bucket, ticker>>

(***************************************************************************)
(* Price moves and reads.                                                  *)
(***************************************************************************)

\* A trade moves its outcome's price and the others', and every view hears the
\* frame.
priceMoves ==
  /\ facet = "price" /\ moved < MaxLiveQuotes
  /\ \E traded \in NamesOf(shape), own, rest \in PriceLevels, whole \in BOOLEAN :
       LET q == [n \in NamesOf(shape) |-> IF n = traded THEN own ELSE rest]
           f == price_update(q, whole)
       IN
       /\ liveQuote' = q
       /\ ever' = [n \in NamesOf(shape) |-> ever[n] \cup {q[n]}]
       /\ cached' = patchMarketPrices(cached, f)
       /\ overlay' = f
       /\ degraded' = (degraded \/ (is_parimutuel(NamesOf(shape)) /\ ~whole))
       /\ handlePriceMessage(f)
  /\ moved' = moved + 1
  /\ UNCHANGED <<facet, shape, listed, samples, sparks, ladder, bucket, ticker>>

\* The worker records a snapshot of every outcome's price.
snapshot ==
  /\ facet = "price" /\ Len(samples) < MaxPoints
  /\ samples' = Append(samples, liveQuote)
  /\ UNCHANGED <<facet, shape, liveQuote, ever, moved, listed, cached, overlay, degraded,
                 sparks, livePrice, livePoints, ladder, bucket, ticker>>

usePriceHistory ==
  /\ facet = "price" /\ samples # <<>>
  /\ sparks' = priceHistoryToPoints(samples)
  /\ UNCHANGED <<facet, shape, liveQuote, ever, moved, listed, cached, overlay, degraded,
                 samples, livePrice, livePoints, ladder, bucket, ticker>>

\* The list is read again: a new row under the same overlay.
useMarketsList ==
  /\ facet = "price"
  /\ listed' = list_markets(liveQuote)
  /\ UNCHANGED <<facet, shape, liveQuote, ever, moved, cached, overlay, degraded, samples,
                 sparks, livePrice, livePoints, ladder, bucket, ticker>>

(***************************************************************************)
(* The order book: levels of one outcome, each side sent highest first.    *)
(***************************************************************************)

build_orderbook(levels) ==
  [i \in 1..Cardinality(levels) |->
     CHOOSE p \in levels : Cardinality({x \in levels : x > p}) = i - 1]

bestAsk(asks) == asks[Len(asks)]

\* The gap between the two sides, or which side is missing.
OutcomeOrderbook(bids, asks) ==
  IF bids # <<>> /\ asks # <<>> THEN [says |-> "spread", gap |-> bestAsk(asks) - bids[1]]
  ELSE [says |-> IF bids # <<>> THEN "bids" ELSE "asks", gap |-> NoPrice]

\* Top to bottom: the asks reversed, then the bids as sent.
ladderRows(bids, asks) ==
  [i \in 1..Len(asks) |-> asks[Len(asks) + 1 - i]] \o bids

(***************************************************************************)
(* The candle view of one outcome: a bucket of snapshots, as the endpoint  *)
(* sums it up and as buildCandles draws it.                                *)
(***************************************************************************)

\* The endpoint sends the bucket's last price, and no open, high or low.
get_price_history(snaps) ==
  [price |-> snaps[Len(snaps)], open |-> NoPrice, high |-> NoPrice, low |-> NoPrice]

buildCandles(o) ==
  LET or(x) == IF x = NoPrice THEN o.price ELSE x IN
  [open |-> or(o.open), close |-> o.price,
   high |-> MaxOf({or(o.high), or(o.open), o.price}),
   low |-> MinOf({or(o.low), or(o.open), o.price})]

\* Rise, fall or neither: the colour of the body, the wick and the crosshair.
candleTone(c) == IF c.close = c.open THEN "flat" ELSE IF c.close > c.open THEN "up" ELSE "down"

(***************************************************************************)
(* The ticker: newest first, five rows, each with a timer of its own.      *)
(***************************************************************************)

LiveTradeTicker(t) ==
  LET n == t.next IN
  [next |-> n + 1, rows |-> Keep(Append(t.rows, n), MaxTicker), timers |-> t.timers \cup {n}]

tickerTrade ==
  /\ facet = "ticker" /\ ticker.next <= MaxTrades
  /\ ticker' = LiveTradeTicker(ticker)
  /\ UNCHANGED <<facet, priceVars, ladder, bucket>>

tickerExpires ==
  /\ facet = "ticker"
  /\ \E n \in ticker.timers :
       ticker' = [ticker EXCEPT !.rows = SelectSeq(@, LAMBDA x : x # n),
                                !.timers = @ \ {n}]
  /\ UNCHANGED <<facet, priceVars, ladder, bucket>>

-----------------------------------------------------------------------------
ViewInit ==
  /\ facet \in {"price", "book", "candles", "ticker"}
  /\ shape \in IF facet = "price" THEN Shapes ELSE {CHOOSE s \in Shapes : TRUE}
  /\ liveQuote = [n \in NamesOf(shape) |-> MinOf(PriceLevels)]
  /\ ever = [n \in NamesOf(shape) |-> {liveQuote[n]}]
  /\ moved = 0
  /\ listed = list_markets(liveQuote)
  /\ cached = get_market(liveQuote)
  /\ overlay = NoFrame
  /\ degraded = FALSE
  /\ samples = <<>> /\ sparks = <<>> /\ livePoints = <<>>
  /\ livePrice = NoPrice
  /\ ladder \in IF facet = "book"
                THEN [bids : SUBSET (1..3), asks : SUBSET (3..6)]
                ELSE {[bids |-> {}, asks |-> {}]}
  /\ bucket \in IF facet = "candles" THEN [1..3 -> 1..4] ELSE {<<1>>}
  /\ ticker = [next |-> 1, rows |-> <<>>, timers |-> {}]

ViewNext ==
  \/ priceMoves \/ snapshot \/ usePriceHistory \/ useMarketsList \/ carouselResync
  \/ tickerTrade \/ tickerExpires

ViewSpec == ViewInit /\ [][ViewNext]_viewVars

-----------------------------------------------------------------------------
\* The views' state keeps its shape.
ViewTypeOK ==
  /\ liveQuote \in [NamesOf(shape) -> PriceLevels]
  /\ Len(livePoints) <= MaxPoints /\ Len(sparks) <= MaxPoints
  /\ livePrice \in PriceLevels \cup {NoPrice, Even}
  /\ Len(ticker.rows) <= MaxTicker

\* Two ways to price a market never drift apart: while every frame carries its
\* outcomes' prices, the card in the list and the detail page quote the same
\* numbers (applyLivePrices "mirrors patchMarketPrices exactly").
CardAgreesWithDetail ==
  facet = "price" /\ overlay # NoFrame /\ ~degraded =>
    \A n \in DOMAIN displayOutcomes(card) : displayOutcomes(card)[n] = headerPrices(cached)[n]

\* A price drawn for an outcome is one the server quoted for that outcome: no
\* frame, however partial, erases a price or gives one outcome another's.
PriceShownWasQuoted ==
  facet = "price" =>
    /\ \A n \in DOMAIN displayOutcomes(card) : displayOutcomes(card)[n] \in ever[n]
    /\ LET prices == buildOutcomePrices(cached.outcomes, <<>>) IN
       \A n \in DOMAIN prices : prices[n] \in ever[n]
    /\ \A n \in DOMAIN carouselOutcomes : carouselOutcomes[n] \in ever[n]
    /\ ~is_parimutuel(NamesOf(shape)) => shownPrice \in ever["Yes"]

\* Every outcome of a market without an extra name beside Yes and No is drawn as
\* a cell or counted by "+n more", within the four slots the card has.
EveryOutcomeAccounted ==
  facet = "price" /\ (is_parimutuel(NamesOf(shape)) \/ Len(shape) = 2) =>
    LET c == MarketCard(card, FALSE) IN
    /\ Cardinality(c.rows) + c.more = Len(shape)
    /\ Cardinality(c.rows) + (IF c.more > 0 THEN 1 ELSE 0) <= MAX_SLOTS

\* A settled card quotes the price of the outcome that won, same reservation.
WinnerPriceShown ==
  facet = "price" /\ (is_parimutuel(NamesOf(shape)) \/ Len(shape) = 2) =>
    \A w \in NamesOf(shape) : resolvedPct(card, w) = displayOutcomes(card)[w]

\* The spread a ladder states is the distance from the highest bid to the
\* lowest ask.
SpreadIsTouch ==
  facet = "book" /\ ladder.bids # {} /\ ladder.asks # {} =>
    OutcomeOrderbook(build_orderbook(ladder.bids), build_orderbook(ladder.asks)).gap
      = MinOf(ladder.asks) - MaxOf(ladder.bids)

\* Whatever range the endpoint states, a candle's body lies within its wick and
\* a candle that did not move is neither a rise nor a fall.
BodyInsideWick ==
  facet = "candles" =>
    \A o \in [price : {bucket[3]}, open : {bucket[1], NoPrice}, high : {bucket[2], NoPrice},
              low : {bucket[1], NoPrice}] :
      LET c == buildCandles(o) IN
      /\ c.low <= c.open /\ c.low <= c.close /\ c.open <= c.high /\ c.close <= c.high
      /\ (candleTone(c) = "flat") = (c.open = c.close)

\* A row of the ticker always has the timer that will take it away.
TickerRowsExpire ==
  \A i \in 1..Len(ticker.rows) : ticker.rows[i] \in ticker.timers

-----------------------------------------------------------------------------
(***************************************************************************)
(* What the comments say and the code does not do.                         *)
(***************************************************************************)

\* Refuted: a binary market's single line is the YES price
\* (trending-carousel-item.tsx 307-308, market-detail.tsx 436); history's
\* value is the first name's price.
SparklineIsYes ==
  facet = "price" /\ ~is_parimutuel(NamesOf(shape)) =>
    \A i \in 1..Len(sparkHistory) :
      "Yes" \in DOMAIN sparkHistory[i].lines =>
        sparkHistory[i].value = sparkHistory[i].lines["Yes"]

\* Refuted: the ladder runs from the highest price down: "lowest ask at
\* bottom" (order-book.tsx 54).
LadderDescends ==
  facet = "book" =>
    LET rows == ladderRows(build_orderbook(ladder.bids), build_orderbook(ladder.asks)) IN
    \A i, j \in 1..Len(rows) : i < j => rows[i] >= rows[j]

\* Refuted: a candle spans what its bucket's snapshots did (ohlc.ts 6-10).
CandleIsBucket ==
  facet = "candles" =>
    LET c == buildCandles(get_price_history(bucket)) IN
    c.high = MaxOf({bucket[i] : i \in DOMAIN bucket})

\* Refuted: card and header agree on every price, degraded frames included.
CardAlwaysAgrees ==
  facet = "price" /\ overlay # NoFrame =>
    \A n \in DOMAIN displayOutcomes(card) : displayOutcomes(card)[n] = headerPrices(cached)[n]

\* Refuted: a card accounts for every outcome, a third name beside Yes and No
\* included.
AllOutcomesAccounted ==
  facet = "price" => LET c == MarketCard(card, FALSE) IN
                     Cardinality(c.rows) + c.more = Len(shape)

-----------------------------------------------------------------------------
(* What a user notices of one live price: the flash of a card                   *)
(* (lib/use-price-tick.ts), the spoken announcement (lib/price-announcer.tsx,   *)
(* fed by components/markets/market-detail.tsx), and the preferences that       *)
(* govern both (lib/realtime-prefs.tsx, the display settings page).  A price is *)
(* a number of steps; PerPercent of them make a displayed percent.              *)

CONSTANTS MaxPrice,      \* prices are 0..MaxPrice
          PerPercent,    \* steps to a displayed percent
          AbsoluteMin,   \* the absolute rule's threshold, in steps
          MaxPriceFrames,     \* bound: price frames
          MaxSettings,   \* bound: changes of a preference, reloads, OS changes
          MaxRenders     \* bound: renders between frames

VARIABLES price,         \* the price last received
          announcedAt, staged, flushTimer,   \* the announcer's state for the market
          spoken,        \* [from, to] of the last message, or Silence
          heard,         \* ghost: the price the user was last told, or None
          firstHeard,    \* ghost: the first price received while announcing
          seen, lastTick,    \* usePriceTick: baseline, and [at, direction, active]
          tickMoves,     \* ghost: price changes the card has rendered
          stored, motionOverride, osReduced, storage,
          frames, settings, renders

voiceVars == <<price, announcedAt, staged, flushTimer, spoken, heard, firstHeard,
               seen, lastTick, tickMoves, stored, motionOverride, osReduced, storage,
               frames, settings, renders>>

None == -1
Silence == [from |-> None, to |-> None]
Prices == 0..MaxPrice
Motions == {"off", "significant", "all"}
Rules == {"display", "absolute"}

\* The stored preferences this module follows; "unset" falls back to DEFAULT_PREFS.
NoPrefs == [motion |-> "unset", rule |-> "unset", speak |-> FALSE]

\* prefs: stored over defaults; motion is the user's, else the system's.
motion ==
  IF motionOverride # "unset" THEN motionOverride
  ELSE IF osReduced THEN "off"
  ELSE "significant"
rule == IF stored.rule = "unset" THEN "display" ELSE stored.rule
motionEnabled == stored.speak

displayedPercent(p) == (2 * p + PerPercent) \div (2 * PerPercent)

Distance(a, b) == IF a < b THEN b - a ELSE a - b

isSignificant(from, to, r) ==
  /\ from # to
  /\ CASE r = "absolute" -> Distance(from, to) >= AbsoluteMin
       [] OTHER -> displayedPercent(from) # displayedPercent(to)

VoiceInit ==
  /\ price = None /\ announcedAt = None /\ staged = Silence /\ flushTimer = FALSE
  /\ spoken = Silence /\ heard = None /\ firstHeard = None
  /\ seen = None /\ lastTick = [at |-> 0, direction |-> 0, active |-> FALSE]
  /\ tickMoves = 0
  /\ storage \in {NoPrefs} \cup {[NoPrefs EXCEPT !.speak = TRUE, !.motion = m] : m \in Motions}
  /\ stored = storage /\ motionOverride = storage.motion
  /\ osReduced = FALSE
  /\ frames = 0 /\ settings = 0 /\ renders = 0

-----------------------------------------------------------------------------
\* stagePriceChange, with the `from` market-detail hands over: the new price.
stagePriceChange(p) ==
  [from |-> IF staged # Silence THEN staged.from
            ELSE IF announcedAt # None THEN announcedAt ELSE p,
   to |-> p]

\* A price frame: the page's state, and announce() when the user asked for it.
priceFrame(p) ==
  /\ frames < MaxPriceFrames /\ frames' = frames + 1
  /\ price' = p /\ renders' = 0
  /\ IF motionEnabled
       THEN /\ staged' = stagePriceChange(p) /\ flushTimer' = TRUE
            /\ firstHeard' = IF firstHeard = None THEN p ELSE firstHeard
       ELSE UNCHANGED <<staged, flushTimer, firstHeard>>
  /\ UNCHANGED <<announcedAt, spoken, heard, seen, lastTick, tickMoves, stored,
                 motionOverride, osReduced, storage, settings>>


\* The window ends: flushAnnouncements by the default rule, whatever rule the
\* user chose, and the pending change is dropped in any case.
flushAnnouncements ==
  /\ flushTimer /\ flushTimer' = FALSE
  /\ staged' = Silence
  /\ IF isSignificant(staged.from, staged.to, "display")
       THEN /\ announcedAt' = staged.to
            /\ spoken' = staged /\ heard' = staged.to
       ELSE UNCHANGED <<announcedAt, spoken, heard>>
  /\ UNCHANGED <<price, firstHeard, seen, lastTick, tickMoves, stored, motionOverride,
                 osReduced, storage, frames, settings, renders>>

-----------------------------------------------------------------------------
\* usePriceTick's choice, with no look at whether the price changed.
worthShowing ==
  \/ motion = "all"
  \/ motion = "significant" /\ isSignificant(seen, price, rule)

\* A render of the card with the price it has: the baseline always follows.
usePriceTick ==
  /\ price # None /\ renders < MaxRenders
  /\ renders' = renders + 1
  /\ seen' = price
  /\ tickMoves' = IF seen # None /\ seen # price THEN tickMoves + 1 ELSE tickMoves
  /\ lastTick' = IF seen # None /\ worthShowing
               THEN [at |-> lastTick.at + 1, direction |-> IF price > seen THEN 1 ELSE -1,
                     active |-> TRUE]
               ELSE lastTick
  /\ UNCHANGED <<price, announcedAt, staged, flushTimer, spoken, heard, firstHeard,
                 stored, motionOverride, osReduced, storage, frames, settings>>

tickExpires ==
  /\ lastTick.active /\ lastTick' = [lastTick EXCEPT !.active = FALSE]
  /\ UNCHANGED <<price, announcedAt, staged, flushTimer, spoken, heard, firstHeard,
                 seen, tickMoves, stored, motionOverride, osReduced, storage, frames,
                 settings, renders>>

-----------------------------------------------------------------------------
Setting ==
  /\ settings < MaxSettings /\ settings' = settings + 1
  /\ UNCHANGED <<price, announcedAt, staged, flushTimer, spoken, heard, firstHeard,
                 seen, lastTick, tickMoves, frames, renders>>

\* persist: written to localStorage, or refused by the browser.
persist(next) == storage' \in {next, storage}

set(next) ==
  /\ Setting
  /\ stored' = next /\ persist(next)
  /\ UNCHANGED <<motionOverride, osReduced>>

setRule(r) == set([stored EXCEPT !.rule = r])
setAnnounce(on) == set([stored EXCEPT !.speak = on])

setMotion(m) ==
  /\ Setting
  /\ motionOverride' = m
  /\ stored' = [stored EXCEPT !.motion = m] /\ persist(stored')
  /\ UNCHANGED osReduced

resetPrefs ==
  /\ Setting
  /\ stored' = NoPrefs /\ motionOverride' = "unset" /\ persist(NoPrefs)
  /\ UNCHANGED osReduced

osChange ==
  /\ Setting
  /\ osReduced' = ~osReduced
  /\ UNCHANGED <<stored, motionOverride, storage>>

\* A reload: the provider reads localStorage, and the page starts over.
readStored ==
  /\ settings < MaxSettings /\ settings' = settings + 1
  /\ stored' = storage /\ motionOverride' = storage.motion
  /\ announcedAt' = None /\ staged' = Silence /\ flushTimer' = FALSE
  /\ spoken' = Silence /\ heard' = None /\ firstHeard' = None
  /\ price' = None /\ seen' = None /\ tickMoves' = 0
  /\ lastTick' = [at |-> 0, direction |-> 0, active |-> FALSE]
  /\ renders' = 0
  /\ UNCHANGED <<osReduced, storage, frames>>

VoiceNext ==
  \/ \E p \in Prices : priceFrame(p)
  \/ flushAnnouncements \/ usePriceTick \/ tickExpires
  \/ \E r \in Rules : setRule(r)
  \/ \E on \in BOOLEAN : setAnnounce(on)
  \/ \E m \in Motions : setMotion(m)
  \/ resetPrefs \/ osChange \/ readStored

VoiceSpec == VoiceInit /\ [][VoiceNext]_voiceVars

-----------------------------------------------------------------------------
VoiceTypeOK ==
  /\ {price, announcedAt, heard, firstHeard, seen} \subseteq Prices \cup {None}
  /\ {staged.from, staged.to, spoken.from, spoken.to} \subseteq Prices \cup {None}
  /\ lastTick.at \in Nat /\ lastTick.direction \in {-1, 0, 1} /\ lastTick.active \in BOOLEAN
  /\ motionOverride \in Motions \cup {"unset"}
  /\ {stored, storage} \subseteq [motion : Motions \cup {"unset"},
                                  rule : Rules \cup {"unset"}, speak : BOOLEAN]

\* The "from" of a message the user is about to hear is the price they were last
\* told, once they were told one.
SpokenFromIsHeard == staged # Silence /\ heard # None => staged.from = heard

\* Refuted: a card flashes at most once per change of its price ("Animate
\* every price change, however small").
FlashMeansChange == lastTick.at <= tickMoves

\* Refuted: once the window is over, the price stands within one displayed
\* percent of what the user was told, or of where the market stood when they
\* began to listen.
MoveIsSpoken ==
  ~flushTimer /\ motionEnabled /\ firstHeard # None =>
    displayedPercent(price) = displayedPercent(IF heard # None THEN heard ELSE firstHeard)

=============================================================================
