--------------------------- MODULE ChannelSockets ---------------------------
(***************************************************************************)
(* The two sockets that carry one channel each: the private notifications  *)
(* of a user, and the platform-wide tape of trades. They share no state.   *)
(***************************************************************************)
EXTENDS MarketSocket, Naturals, FiniteSets, Sequences

-----------------------------------------------------------------------------
(***************************************************************************)
(* The private notifications socket (apps/web/hooks/use-user-socket.ts):   *)
(* one connection per user, shared by every subscribed component.  Private *)
(* frames carry no numbers, so a reconnect is the only sign of a loss.     *)
(* Abstracted: frame contents; delays; `retries`; sockets that were        *)
(* detached, which have no handlers left.                                  *)
(***************************************************************************)

CONSTANTS Subscribers, MaxUserFaults, MaxUserMoves

VARIABLES
  user,         \* the SharedConnection; "dead" is a socket that reports OPEN
  seenStatus,   \* the status each subscriber renders
  userMissed,   \* a frame was lost since the socket first opened
  userRefetch,  \* the private queries were invalidated and not yet reread
  userFaults, userMoves

userVars == <<user, seenStatus, userMissed, userRefetch, userFaults, userMoves>>

createConnection == [ws |-> "none", status |-> "disconnected", subs |-> {},
                     retry |-> FALSE, linger |-> FALSE, everConnected |-> FALSE]

(* setStatus on the connection reaches every subscriber. *)
tell(k) == [x \in Subscribers |-> IF x \in k.subs THEN k.status ELSE seenStatus[x]]

open(k) == [k EXCEPT !.status = "connecting", !.ws = "connecting"]

UserMove  == userMoves < MaxUserMoves /\ userMoves' = userMoves + 1
UserFault == userFaults < MaxUserFaults /\ userFaults' = userFaults + 1

(* acquire: keep a lingering connection, or open one; the subscriber is    *)
(* told the current status first.                                          *)
Acquire(x) ==
  LET k == [user EXCEPT !.linger = FALSE, !.subs = @ \cup {x}]
  IN /\ x \notin user.subs
     /\ user' = IF k.ws = "none" /\ ~k.retry THEN open(k) ELSE k
     /\ seenStatus' = tell(user')
     /\ UserMove /\ UNCHANGED <<userMissed, userRefetch, userFaults>>

(* The function acquire returned: the last one out starts the linger. *)
ReleaseSocket(x) ==
  /\ x \in user.subs
  /\ user' = [user EXCEPT !.subs = @ \ {x}, !.linger = (user.subs = {x})]
  /\ userMissed' = (userMissed /\ user'.subs # {})
  /\ UserMove /\ UNCHANGED <<seenStatus, userRefetch, userFaults>>

(* LINGER_MS later nobody came back: forget the connection. *)
LingerTimer ==
  /\ user.linger
  /\ user' = IF user.subs # {} THEN [user EXCEPT !.linger = FALSE] ELSE createConnection
  /\ UNCHANGED <<seenStatus, userMissed, userRefetch, userFaults, userMoves>>

UserOpen ==
  /\ user.ws = "connecting"
  /\ user' = [user EXCEPT !.ws = "open", !.status = "connected", !.everConnected = TRUE]
  /\ seenStatus' = tell(user')
  /\ userRefetch' = (userRefetch \/ (user.everConnected /\ user.subs # {}))
  /\ UNCHANGED <<userMissed, userFaults, userMoves>>

(* onerror closes; onclose follows and owns the retry. *)
UserError ==
  /\ user.ws \in {"connecting", "open"} /\ UserFault
  /\ user' = [user EXCEPT !.ws = "closing"]
  /\ UNCHANGED <<seenStatus, userMissed, userRefetch, userMoves>>

UserClose ==
  /\ \/ user.ws = "closing" /\ UNCHANGED userFaults
     \/ user.ws \in {"connecting", "open"} /\ UserFault
  /\ user' = [user EXCEPT !.ws = "none", !.status = "disconnected", !.retry = (user.subs # {})]
  /\ seenStatus' = tell(user')
  /\ UNCHANGED <<userMissed, userRefetch, userMoves>>

(* The machine slept or the network moved: no close event. *)
GoDead ==
  /\ user.ws = "open" /\ UserFault
  /\ user' = [user EXCEPT !.ws = "dead"]
  /\ UNCHANGED <<seenStatus, userMissed, userRefetch, userMoves>>

RetryTimer ==
  /\ user.retry
  /\ LET k == [user EXCEPT !.retry = FALSE]
     IN user' = IF user.subs # {} /\ user.ws = "none" THEN open(k) ELSE k
  /\ seenStatus' = tell(user')
  /\ UNCHANGED <<userMissed, userRefetch, userFaults, userMoves>>

(* recover: replace whatever socket there is, unless nobody listens; a tab *)
(* focus (not forced) needs a socket or a retry to replace.                *)
UserRecover(force) ==
  /\ user.subs # {} /\ (force \/ user.ws # "none" \/ user.retry)
  /\ user' = open([user EXCEPT !.retry = FALSE])
  /\ seenStatus' = tell(user')
  /\ UserMove /\ UNCHANGED <<userMissed, userRefetch, userFaults>>

(* Something private happens: delivered to every subscriber, or lost. *)
PrivateEvent ==
  /\ user.subs # {} /\ user.everConnected /\ user.ws # "open" /\ ~userMissed
  /\ userMissed' = TRUE
  /\ UNCHANGED <<user, seenStatus, userRefetch, userFaults, userMoves>>

(* applyPrivateFeedResync's rereads of positions, orders, wallet and       *)
(* notifications are answered.                                             *)
PrivateRead ==
  /\ userRefetch /\ userRefetch' = FALSE /\ userMissed' = FALSE
  /\ UNCHANGED <<user, seenStatus, userFaults, userMoves>>

UserInit ==
  /\ user = createConnection
  /\ seenStatus = [x \in Subscribers |-> "disconnected"]
  /\ userMissed = FALSE /\ userRefetch = FALSE /\ userFaults = 0 /\ userMoves = 0

UserNext ==
  \/ \E x \in Subscribers : Acquire(x) \/ ReleaseSocket(x)
  \/ LingerTimer \/ UserOpen \/ UserError \/ UserClose \/ GoDead \/ RetryTimer
  \/ \E force \in BOOLEAN : UserRecover(force)
  \/ PrivateEvent \/ PrivateRead

UserFairness ==
  /\ WF_userVars(UserOpen) /\ WF_userVars(user.ws = "closing" /\ UserClose)
  /\ WF_userVars(RetryTimer) /\ WF_userVars(PrivateRead)

UserSpec == UserInit /\ [][UserNext]_userVars /\ UserFairness

-----------------------------------------------------------------------------
UserTypeOK ==
  /\ user \in [ws : {"none", "connecting", "open", "closing", "dead"},
               status : {"connecting", "connected", "disconnected"},
               subs : SUBSET Subscribers, retry : BOOLEAN, linger : BOOLEAN,
               everConnected : BOOLEAN]
  /\ seenStatus \in [Subscribers -> {"connecting", "connected", "disconnected"}]
  /\ {userMissed, userRefetch} \subseteq BOOLEAN
  /\ userFaults \in 0..MaxUserFaults /\ userMoves \in 0..MaxUserMoves

(* Someone listening always has a socket or a retry under way, across      *)
(* lingering, closes while nobody listened, and forced redials.            *)
ListenedIsServed == user.subs # {} => user.ws # "none" \/ user.retry

(* Every subscriber renders the connection's own status, the one that      *)
(* joined a lingering or half-way connection included.  (acquire, tell)    *)
StatusIsShared == \A x \in user.subs : seenStatus[x] = user.status

(* A frame lost while the socket was known to be down is reread once it is *)
(* back, unless everyone left.  A socket that died in silence waits for    *)
(* the next focus or network change.                                       *)
PrivateLossRepaired == userMissed ~> ~userMissed \/ user.ws = "dead"

-----------------------------------------------------------------------------
(***************************************************************************)
(* The platform-wide trade tape: the /ws/trades socket                     *)
(* (hooks/use-global-trades-socket.ts) under the feed that merges it with  *)
(* the REST page (hooks/use-live-trade-feed.ts, TradesPageClient.tsx).     *)
(* Trades are numbered in order of execution; a page holds the MaxTape     *)
(* newest.  Abstracted: delays, `retries`, heartbeats, the trades' fields. *)
(***************************************************************************)

CONSTANTS
  MaxTape,         \* MAX_TRADES, rows of a page
  Executed,        \* trades that ever execute
  MaxTapeFaults, MaxTapeMoves

VARIABLES
  tape,            \* the socket: ws, timer, status, everConnected, mounted, and
                   \* late, sockets replaced while CLOSING, still with a handler
  wsTrades, pendingCount, seenIds,
  restTrades,      \* the query's page, newest first
  tapeFetch,       \* refetch in flight
  executed, tapeMissed, tapeFaults, tapeMoves

tapeVars == <<tape, wsTrades, pendingCount, seenIds, restTrades, tapeFetch, executed,
              tapeMissed, tapeFaults, tapeMoves>>
feedVars == <<wsTrades, pendingCount, seenIds, restTrades, tapeFetch, executed, tapeMissed>>

TapeFault == tapeFaults < MaxTapeFaults /\ tapeFaults' = tapeFaults + 1
TapeMove  == tapeMoves < MaxTapeMoves /\ tapeMoves' = tapeMoves + 1

Ids(s) == {s[i] : i \in DOMAIN s}
Newest(n) == [i \in 1..(IF n < MaxTape THEN n ELSE MaxTape) |-> n + 1 - i]

(* connect: one live socket at a time. *)
dialed(t) ==
  IF ~t.mounted \/ t.ws \in {"connecting", "open", "dead"} THEN t
  ELSE [t EXCEPT !.ws = "connecting", !.status = "connecting",
                 !.late = IF t.ws = "closing" THEN @ + 1 ELSE @]

TapeOpen ==
  /\ tape.ws = "connecting"
  /\ tape' = [tape EXCEPT !.ws = "open", !.status = "connected", !.everConnected = TRUE]
  /\ IF tape.everConnected
     THEN wsTrades' = <<>> /\ pendingCount' = 0 /\ seenIds' = {} /\ tapeFetch' = TRUE
     ELSE UNCHANGED <<wsTrades, pendingCount, seenIds, tapeFetch>>
  /\ UNCHANGED <<restTrades, executed, tapeMissed, tapeFaults, tapeMoves>>

TapeError ==
  /\ tape.ws \in {"connecting", "open"} /\ TapeFault
  /\ tape' = [tape EXCEPT !.ws = "closing"]
  /\ UNCHANGED <<feedVars, tapeMoves>>

TapeGoDead ==
  /\ tape.ws = "open" /\ TapeFault
  /\ tape' = [tape EXCEPT !.ws = "dead"]
  /\ UNCHANGED <<feedVars, tapeMoves>>

TapeClose ==
  /\ \/ tape.ws = "closing" /\ UNCHANGED tapeFaults
     \/ tape.ws \in {"connecting", "open"} /\ TapeFault
  /\ tape' = [tape EXCEPT !.ws = "none", !.status = "disconnected", !.timer = TRUE]
  /\ UNCHANGED <<feedVars, tapeMoves>>

(* onclose of a socket recover had replaced while it was CLOSING: it is    *)
(* not the tracked one, yet writes the status and arms a timer.            *)
TapeLateClose ==
  /\ tape.late > 0
  /\ tape' = IF ~tape.mounted THEN [tape EXCEPT !.late = @ - 1]
             ELSE [tape EXCEPT !.late = @ - 1, !.status = "disconnected", !.timer = TRUE]
  /\ UNCHANGED <<feedVars, tapeFaults, tapeMoves>>

TapeTimer ==
  /\ tape.timer /\ tape' = dialed([tape EXCEPT !.timer = FALSE])
  /\ UNCHANGED <<feedVars, tapeFaults, tapeMoves>>

(* recover: drop the timer, close and forget the socket, dial again. *)
TapeRecover(force) ==
  /\ tape.mounted /\ (force \/ tape.ws # "none" \/ tape.timer)
  /\ tape' = dialed([tape EXCEPT !.timer = FALSE, !.ws = IF @ = "closing" THEN @ ELSE "none"])
  /\ TapeMove /\ UNCHANGED <<feedVars, tapeFaults>>

Mount ==
  /\ ~tape.mounted
  /\ tape' = dialed([tape EXCEPT !.mounted = TRUE, !.everConnected = FALSE])
  /\ wsTrades' = <<>> /\ pendingCount' = 0 /\ seenIds' = {} /\ tapeFetch' = TRUE
  /\ TapeMove /\ UNCHANGED <<restTrades, executed, tapeMissed, tapeFaults>>

Unmount ==
  /\ tape.mounted
  /\ tape' = [tape EXCEPT !.mounted = FALSE, !.timer = FALSE, !.ws = "none"]
  /\ tapeMissed' = FALSE
  /\ TapeMove
  /\ UNCHANGED <<wsTrades, pendingCount, seenIds, restTrades, tapeFetch, executed, tapeFaults>>

(* handleMessage for trade:new. *)
handleTrade(id) ==
  IF id \in seenIds THEN UNCHANGED <<wsTrades, pendingCount, seenIds>>
  ELSE /\ seenIds' = seenIds \cup {id}
       /\ IF id \in Ids(wsTrades) THEN UNCHANGED <<wsTrades, pendingCount>>
          ELSE IF Len(wsTrades) >= MaxTape
               THEN pendingCount' = pendingCount + 1 /\ UNCHANGED wsTrades
               ELSE wsTrades' = <<id>> \o wsTrades /\ UNCHANGED pendingCount

(* A trade executes: delivered, or missed by a feed that was up before. *)
Execute ==
  /\ executed < Executed /\ executed' = executed + 1
  /\ IF tape.ws = "open" THEN handleTrade(executed + 1) /\ UNCHANGED tapeMissed
     ELSE /\ tapeMissed' = (tapeMissed \/ (tape.mounted /\ tape.everConnected))
          /\ UNCHANGED <<wsTrades, pendingCount, seenIds>>
  /\ UNCHANGED <<tape, restTrades, tapeFetch, tapeFaults, tapeMoves>>

(* A frame arrives a second time. *)
Redeliver(id) ==
  /\ tape.ws = "open" /\ id \in 1..executed /\ id \notin seenIds /\ TapeFault
  /\ handleTrade(id)
  /\ UNCHANGED <<tape, restTrades, tapeFetch, executed, tapeMissed, tapeMoves>>

(* The page is read; its ids are seeded into the dedupe set. *)
TapeRead ==
  /\ tapeFetch /\ tapeFetch' = FALSE
  /\ restTrades' = Newest(executed) /\ tapeMissed' = FALSE
  /\ seenIds' = seenIds \cup Ids(restTrades')
  /\ UNCHANGED <<tape, wsTrades, pendingCount, executed, tapeFaults, tapeMoves>>

(* The "N new trades" button. *)
scrollToTop ==
  /\ pendingCount > 0
  /\ wsTrades' = <<>> /\ pendingCount' = 0
  /\ UNCHANGED <<tape, seenIds, restTrades, tapeFetch, executed, tapeMissed, tapeFaults, tapeMoves>>

(* mergedTrades: socket rows first, then the page, each trade once. *)
mergedTrades ==
  LET all == wsTrades \o restTrades
      new == {i \in DOMAIN all : \A j \in 1..(i - 1) : all[j] # all[i]}
  IN {all[i] : i \in {k \in new : Cardinality({j \in new : j < k}) < MaxTape}}

TapeInit ==
  /\ tape = [ws |-> "connecting", status |-> "connecting", timer |-> FALSE,
             everConnected |-> FALSE, mounted |-> TRUE, late |-> 0]
  /\ wsTrades = <<>> /\ pendingCount = 0 /\ seenIds = {} /\ restTrades = <<>>
  /\ tapeFetch = TRUE /\ executed = 0 /\ tapeMissed = FALSE
  /\ tapeFaults = 0 /\ tapeMoves = 0

TapeNext ==
  \/ TapeOpen \/ TapeError \/ TapeGoDead \/ TapeClose \/ TapeLateClose \/ TapeTimer
  \/ \E force \in BOOLEAN : TapeRecover(force)
  \/ Mount \/ Unmount \/ Execute \/ TapeRead \/ scrollToTop
  \/ \E id \in 1..Executed : Redeliver(id)

TapeFairness ==
  /\ WF_tapeVars(TapeOpen) /\ WF_tapeVars(tape.ws = "closing" /\ TapeClose)
  /\ WF_tapeVars(TapeTimer) /\ WF_tapeVars(TapeRead)

TapeSpec == TapeInit /\ [][TapeNext]_tapeVars /\ TapeFairness

-----------------------------------------------------------------------------
TapeTypeOK ==
  /\ tape \in [ws : {"none", "connecting", "open", "closing", "dead"},
               status : {"connecting", "connected", "disconnected"}, timer : BOOLEAN,
               everConnected : BOOLEAN, mounted : BOOLEAN, late : 0..MaxTapeFaults]
  /\ Ids(wsTrades) \cup Ids(restTrades) \cup seenIds \subseteq 1..Executed
  /\ Len(wsTrades) <= MaxTape /\ pendingCount \in 0..Executed
  /\ executed \in 0..Executed /\ tapeFaults \in 0..MaxTapeFaults /\ tapeMoves \in 0..MaxTapeMoves

(* A mounted feed always has a socket or a retry, even when a replaced     *)
(* socket closes late.  (connect, recover, onclose)                        *)
TapeNeverParked == tape.mounted => tape.ws # "none" \/ tape.timer

(* The socket rows never hold a trade twice, through redelivery, resync    *)
(* and the button.  (seenIds and the check in setWsTrades)                 *)
TapeRowsDistinct == \A i, j \in DOMAIN wsTrades : wsTrades[i] = wsTrades[j] => i = j

(* The trades executed during a known outage are on the page again after   *)
(* the reconnect.                                                          *)
TapeLossRepaired == tapeMissed ~> ~tapeMissed \/ tape.ws = "dead"

(* Refuted: a trade counted as new is in the list once the button clears   *)
(* the count.  ("the row still belongs in the feed, it just waits behind   *)
(* the button")                                                            *)
CountedIsShown ==
  [][pendingCount > 0 /\ pendingCount' = 0 /\ ~tapeFetch' =>
       Ids(Newest(executed)) \subseteq mergedTrades']_tapeVars

(* Whoever follows a market, the private channel or the tape has a socket  *)
(* or a way back to one, has been subscribed for on it and is told its     *)
(* status, however mounting, parking, lingering and late closes race.      *)
(* (wsSubscribe, acquire, connect and their onclose)                       *)
FollowersServed ==
  /\ OpenSocketAskedForAll /\ NeverParkedWhileFollowed
  /\ ListenedIsServed /\ StatusIsShared /\ TapeNeverParked

=============================================================================
