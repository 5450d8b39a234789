------------------------------ MODULE MCFeeds -------------------------------
(***************************************************************************)
(* The parts of the web client that show the market while it moves, and    *)
(* the forms that move money, side by side: the sockets and what is built  *)
(* on them, the trade ticket, the money forms, the lists and the comments. *)
(* They share no state here, so one of them, active, is at work in a       *)
(* behaviour and the others stay where they start.                         *)
(***************************************************************************)
EXTENDS MarketSocket, MarketGrid, ChannelSockets, TradeTicket, MoneyForms, ListPages,
        MarketPage, MarketView

VARIABLE active

feedsVars == <<active, socketVars, gridVars, userVars, tapeVars, ticketVars, moneyVars,
               listVars, detailVars, voiceVars, viewVars, threadVars>>

(* One market trades and one is quiet; each has a component that follows it. *)
FramesDef == [m \in Markets |-> IF m = "m1" THEN 3 ELSE 0]
MarketOfDef == [x \in Consumers |-> IF x = "c2" THEN "m2" ELSE "m1"]

(* Three cards and a window of two: one that ticks, one that ticks once,   *)
(* one that is quiet.                                                      *)
RowsDef == <<"g1", "g2", "g3">>
WindowsDef == {{1, 2}, {2, 3}}
TicksDef == [m \in GridMarkets |-> IF m = "g1" THEN 4 ELSE IF m = "g2" THEN 1 ELSE 0]

(* Table cells: an empty one, a number of one digit, of two, and a second  *)
(* of one digit that orders before the first.                              *)
CellsDef == {<<>>, <<9>>, <<1, 0>>, <<1>>}

(* A yes/no market, one with two named outcomes, one with a third beside   *)
(* yes and no, and one with more outcomes than a card has room for.        *)
ShapesDef == {<<"Yes", "No">>, <<"Red", "Blue">>, <<"Yes", "No", "Maybe">>,
              <<"Red", "Blue", "Green", "Maybe", "Ash">>}
AlphabetDef == <<"Ash", "Blue", "Green", "Maybe", "No", "Red", "Yes">>

FeedsInit ==
  /\ active \in {"socket", "grid", "user", "tape", "ticket", "money", "list", "detail",
                 "voice", "view", "thread"}
  /\ active # "grid" => window = {1, 2}
  /\ active # "money" => moneyForm = "withdraw"
  /\ active # "list" => listName = "mine"
  /\ active # "voice" => storage = NoPrefs
  /\ active # "view" => facet = "ticker"
  /\ SocketInit /\ GridInit /\ UserInit /\ TapeInit /\ TicketInit /\ MoneyInit
  /\ ListInit /\ DetailInit /\ VoiceInit /\ ViewInit /\ ThreadInit

FeedsNext ==
  /\ UNCHANGED active
  /\ \/ active = "socket" /\ SocketNext
     \/ active = "grid" /\ GridNext
     \/ active = "user" /\ UserNext
     \/ active = "tape" /\ TapeNext
     \/ active = "ticket" /\ TicketNext
     \/ active = "money" /\ MoneyNext
     \/ active = "list" /\ ListNext
     \/ active = "detail" /\ DetailNext
     \/ active = "voice" /\ VoiceNext
     \/ active = "view" /\ ViewNext
     \/ active = "thread" /\ ThreadNext
  /\ active # "socket" => UNCHANGED socketVars
  /\ active # "grid" => UNCHANGED gridVars
  /\ active # "user" => UNCHANGED userVars
  /\ active # "tape" => UNCHANGED tapeVars
  /\ active # "ticket" => UNCHANGED ticketVars
  /\ active # "money" => UNCHANGED moneyVars
  /\ active # "list" => UNCHANGED listVars
  /\ active # "detail" => UNCHANGED detailVars
  /\ active # "voice" => UNCHANGED voiceVars
  /\ active # "view" => UNCHANGED viewVars
  /\ active # "thread" => UNCHANGED threadVars

FeedsSpec == FeedsInit /\ [][FeedsNext]_feedsVars

(* The variables of the part that runs keep their types: no counter        *)
(* passes its bound and no status, phase, row or index leaves its set.     *)
FeedsTypeOK ==
  /\ active = "socket" => SocketTypeOK
  /\ active = "grid" => GridTypeOK
  /\ active = "user" => UserTypeOK
  /\ active = "tape" => TapeTypeOK
  /\ active = "ticket" => TicketTypeOK
  /\ active = "money" => MoneyTypeOK
  /\ active = "list" => ListTypeOK
  /\ active = "detail" => DetailTypeOK
  /\ active = "voice" => VoiceTypeOK
  /\ active = "view" => ViewTypeOK
  /\ active = "thread" => ThreadTypeOK

(* However frames are lost, repeated and reordered, no loss is stepped     *)
(* over in silence by the market sockets and the grid (checkForGap,        *)
(* handlePrices), the market page ends with every executed trade           *)
(* (handleWSMessage) and the tape lists none twice (handleTrade).          *)
LossesNoticed ==
  NoLossPassedOver /\ GridNoLossPassedOver /\ NoTradeMissing /\ TapeRowsDistinct

(* Every part keeps its types, and once what is under way has landed the   *)
(* screen has caught up: a resolution, the newest price, the comments that *)
(* were written and every row of a list are on it, a settled market paints *)
(* no live price, ticker rows expire and focus is on a rendered card.      *)
(* (handleWSMessage, handlePrices, getNextPageParam, compare)              *)
ScreenCatchesUp ==
  /\ FeedsTypeOK
  /\ ResolutionShown /\ TipIsNewestFrame /\ TopLevelFollowsWrites
  /\ SettledPaintsNothing /\ FocusStaysRendered /\ TickerRowsExpire
  /\ CursorRowsWhole /\ MinePageHasRows /\ CompareIsOrder

(* Cards, detail page, carousel, book, candles and announcer tell the same *)
(* prices, each of them quoted by the server, for every shape of market.   *)
(* (applyLivePrices, buildOutcomePrices, resolvedPct, bestAsk,             *)
(* buildCandles, stagePriceChange)                                         *)
PricesAgree ==
  /\ CardAgreesWithDetail /\ PriceShownWasQuoted /\ EveryOutcomeAccounted
  /\ WinnerPriceShown /\ SpreadIsTouch /\ BodyInsideWick /\ SpokenFromIsHeard

=============================================================================
