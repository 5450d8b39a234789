----------------------------- MODULE MCProgress -----------------------------
(***************************************************************************)
(* What must eventually happen, from the settlement worker to the page:    *)
(* the settlement task, the publish queue, the sockets, the quote of the   *)
(* trade ticket, the money forms and the paged lists, side by side.  They  *)
(* share no state here, so one of them, active, is at work in a behaviour  *)
(* and the others stay where they start.                                   *)
(***************************************************************************)
EXTENDS Settlement, PublishQueue, MarketSocket, MarketGrid, ChannelSockets, TradeTicket,
        MoneyForms, ListPages

CONSTANTS u1, u2, w1, w2, c1, yes, no

VARIABLE active

progressVars == <<active, vars, queueVars, socketVars, gridVars, userVars, tapeVars,
                  ticketVars, moneyVars, listVars>>

(* u1 holds both outcomes, as after a split, and more of yes; u2 only yes. *)
SharesDef == [p \in Positions |->
                IF p = <<u1, yes>> THEN 2 ELSE IF p = <<u2, no>> THEN 0 ELSE 1]

(* One market trades and one is quiet; each has a component that follows it. *)
FramesDef == [m \in Markets |-> IF m = "m1" THEN 3 ELSE 0]
MarketOfDef == [x \in Consumers |-> IF x = "c2" THEN "m2" ELSE "m1"]

(* Two cards, of which the window shows one or both. *)
RowsDef == <<"g1", "g2">>
WindowsDef == {{1}, {1, 2}}
TicksDef == [m \in GridMarkets |-> IF m = "g1" THEN 2 ELSE 1]

CellsDef == {<<>>}

ProgressInit ==
  /\ active \in {"settlement", "queue", "socket", "grid", "user", "tape", "ticket",
                 "money", "list"}
  /\ active # "grid" => window = {1}
  /\ active # "money" => moneyForm = "withdraw"
  /\ active # "list" => listName = "mine"
  /\ Init /\ QueueInit /\ SocketInit /\ GridInit /\ UserInit /\ TapeInit
  /\ TicketInit /\ MoneyInit /\ ListInit

Others(part) ==
  /\ part # "settlement" => UNCHANGED vars
  /\ part # "queue" => UNCHANGED queueVars
  /\ part # "socket" => UNCHANGED socketVars
  /\ part # "grid" => UNCHANGED gridVars
  /\ part # "user" => UNCHANGED userVars
  /\ part # "tape" => UNCHANGED tapeVars
  /\ part # "ticket" => UNCHANGED ticketVars
  /\ part # "money" => UNCHANGED moneyVars
  /\ part # "list" => UNCHANGED listVars

ProgressNext ==
  /\ UNCHANGED active
  /\ \/ active = "settlement" /\ Next
     \/ active = "queue" /\ QueueNext
     \/ active = "socket" /\ SocketNext
     \/ active = "grid" /\ GridNext
     \/ active = "user" /\ UserNext
     \/ active = "tape" /\ TapeNext
     \/ active = "ticket" /\ TicketNext
     \/ active = "money" /\ MoneyNext
     \/ active = "list" /\ ListNext
  /\ Others(active)

-----------------------------------------------------------------------------
(* Workers take the tasks that wait and go on while they live, a call that *)
(* holds the market row ends, and the event loop runs every writer of the  *)
(* publish queue that is ready.                                            *)
ServerFairness ==
  /\ WF_vars(active = "settlement" /\ ResolveCommit)
  /\ WF_vars(active = "settlement" /\ AdjudicateCommit)
  /\ \A w \in Workers : WF_vars(active = "settlement" /\ Running(w))
  /\ \A w \in Writers : WF_queueVars(active = "queue" /\ Writer(w))

(* A socket that is opening opens or fails, a closing one closes, timers   *)
(* fire, frames in flight arrive, and the server answers what it was asked *)
(* and serves what it was told to.  Nothing is assumed of the user, of     *)
(* faults, or of markets trading.                                          *)
SocketsFairness ==
  /\ WF_socketVars(active = "socket" /\ OnOpen)
  /\ WF_socketVars(active = "socket" /\ conn.ws = "closing" /\ OnClose)
  /\ WF_socketVars(active = "socket" /\ ReconnectTimer)
  /\ WF_socketVars(active = "socket" /\ (OnFrame \/ OnPing))
  /\ WF_socketVars(active = "socket" /\ Apply)
  /\ \A m \in Markets : WF_socketVars(active = "socket" /\ wsSubscribe(m))
  /\ WF_gridVars(active = "grid" /\ handlePrices)
  /\ WF_gridVars(active = "grid" /\ flush)
  /\ WF_gridVars(active = "grid" /\ ListRead)
  /\ WF_gridVars(active = "grid" /\ flush_grid)
  /\ WF_userVars(active = "user" /\ UserOpen)
  /\ WF_userVars(active = "user" /\ user.ws = "closing" /\ UserClose)
  /\ WF_userVars(active = "user" /\ RetryTimer)
  /\ WF_userVars(active = "user" /\ PrivateRead)
  /\ WF_tapeVars(active = "tape" /\ TapeOpen)
  /\ WF_tapeVars(active = "tape" /\ tape.ws = "closing" /\ TapeClose)
  /\ WF_tapeVars(active = "tape" /\ TapeTimer)
  /\ WF_tapeVars(active = "tape" /\ TapeRead)

(* Requests are answered and pages that were asked for are fetched. *)
RequestsFairness ==
  /\ WF_ticketVars(active = "ticket" /\ fetchQuote)
  /\ WF_ticketVars(active = "ticket" /\ \E r \in asked : quoteAnswered(r))
  /\ WF_moneyVars(active = "money" /\ MoneyServer)
  /\ WF_moneyVars(active = "money" /\ MoneyAnswered)
  /\ WF_listVars(active = "list" /\ fetchNextPage)
  /\ WF_listVars(active = "list" /\ pageServed)
  /\ WF_listVars(active = "list" /\ listAnswered)

ProgressSpec ==
  /\ ProgressInit /\ [][ProgressNext]_progressVars
  /\ ServerFairness /\ SocketsFairness /\ RequestsFairness

(* What was sent is shown in the end: publisher queues drain and clients   *)
(* owed a resync are told (PublishQueue), followed markets are served,     *)
(* received prices painted, settled markets dropped, and what a known      *)
(* outage lost is read again.                                              *)
FeedsCatchUp ==
  /\ QueuesDrain /\ DebtsArePaid
  /\ FollowedGetsServed /\ ReceivedGetsPainted /\ ToldSettledLeaves
  /\ PrivateLossRepaired /\ TapeLossRepaired

(* The user gets an answer: an estimate for a typed order, the outcome of  *)
(* every press of a money form, and the oldest row of a list that is       *)
(* scrolled.                                                               *)
UserIsAnswered == QuoteArrives /\ PressIsAnswered /\ OldestIsReached

=============================================================================
