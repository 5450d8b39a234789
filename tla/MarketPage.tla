----------------------------- MODULE MarketPage -----------------------------
(***************************************************************************)
(* The page of one market: the detail panel with its prices, chart and     *)
(* trades, and the comments below it. They share no state.                 *)
(***************************************************************************)
EXTENDS Naturals, Sequences, SequencesExt, FiniteSets

-----------------------------------------------------------------------------
(***************************************************************************)
(* The caches of the market page (apps/web/components/markets/             *)
(* market-detail.tsx, hooks/api/use-markets.ts): three REST queries that   *)
(* socket frames patch in place, the live trades and the chart points.  A  *)
(* refetch and a frame race: an answer replaces the cache with what the    *)
(* server read when it served it.                                          *)
(* Abstracted: a price, a book and a trade are the number of the fill that *)
(* made them; names, colours, toasts and the speech announcements are left *)
(* out.  External: the server and react-query, by what the page uses.      *)
(***************************************************************************)

CONSTANTS
  MaxFills,    \* trades executed while the page is open
  TradeCap,    \* 200: slice of the trade lists
  PointCap,    \* 200: slice of the chart points
  MaxLosses

VARIABLES
  fills, over,       \* external: trades executed, market resolved
  wireFrames,        \* frames of this market on their way to the page
  lostFrame,         \* a frame was lost; the socket has not said so yet
  market, bookCache, restRows,  \* the cached queries
  realtimeTrades, wsPoints, history,
  reads,             \* each query's fetch: idle, asked, or served with a value
  claim, resolving, losses

detailVars == <<fills, over, wireFrames, lostFrame, market, bookCache, restRows,
                realtimeTrades, wsPoints, history, reads, claim, resolving, losses>>

Queries == {"market", "orderbook", "market-trades"}
Idle    == [state |-> "idle", fills |-> 0, over |-> FALSE]
Asked   == [Idle EXCEPT !.state = "asked"]

serverVars == <<fills, over>>
cacheVars  == <<market, bookCache, restRows>>
paneVars   == <<realtimeTrades, wsPoints, history>>

(* invalidateQueries refetches, dropping a fetch that is under way. *)
invalidate(qs) == reads' = [q \in Queries |-> IF q \in qs THEN Asked ELSE reads[q]]

(* External: what place_order and resolve_market publish. *)
Frame(type, n) == [type |-> type, n |-> n]

fill ==
  /\ fills < MaxFills /\ ~over
  /\ fills' = fills + 1
  /\ wireFrames' = wireFrames \o <<Frame("trade:new", fills + 1),
                     Frame("market:price_update", fills + 1), Frame("orderbook:update", fills + 1)>>
  /\ UNCHANGED <<over, lostFrame, cacheVars, paneVars, reads, claim, resolving, losses>>

resolve(o) == o' = TRUE /\ wireFrames' = Append(wireFrames, Frame("market:resolved", 0))

resolvedElsewhere ==
  /\ ~over /\ resolve(over)
  /\ UNCHANGED <<fills, lostFrame, cacheVars, paneVars, reads, claim, resolving, losses>>

(* handleWSMessage, one frame type after the other. *)
onTrade(id) ==
  /\ realtimeTrades' = IF id \in Range(realtimeTrades) THEN realtimeTrades
                       ELSE SubSeq(<<id>> \o realtimeTrades, 1,
                                   IF Len(realtimeTrades) < TradeCap THEN Len(realtimeTrades) + 1
                                   ELSE TradeCap)
  /\ UNCHANGED <<cacheVars, wsPoints, history, reads>>

lastOf(s, cap) == IF Len(s) <= cap THEN s ELSE SubSeq(s, Len(s) - cap + 1, Len(s))

(* Mutant: the frame replaces the row, status included. *)
onPriceUpdateRow(v) ==
  /\ wsPoints' = lastOf(Append(wsPoints, v), PointCap)
  /\ market' = [price |-> v, status |-> "active"]
  /\ UNCHANGED <<bookCache, restRows, realtimeTrades, history, reads>>

onPriceUpdate(v) ==
  /\ wsPoints' = lastOf(Append(wsPoints, v), PointCap)
  /\ market' = [market EXCEPT !.price = v]
  /\ UNCHANGED <<bookCache, restRows, realtimeTrades, history, reads>>

onBookUpdate(v) == bookCache' = v /\ UNCHANGED <<market, restRows, paneVars, reads>>

onResolved == invalidate({"market"}) /\ UNCHANGED <<cacheVars, paneVars>>

onResync == invalidate(Queries) /\ UNCHANGED <<cacheVars, paneVars>>

handleWSMessage ==
  /\ wireFrames # <<>> /\ wireFrames' = Tail(wireFrames)
  /\ LET f == Head(wireFrames)
     IN \/ f.type = "trade:new" /\ onTrade(f.n)
        \/ f.type = "market:price_update" /\ onPriceUpdate(f.n)
        \/ f.type = "orderbook:update" /\ onBookUpdate(f.n)
        \/ f.type = "market:resolved" /\ onResolved
  /\ UNCHANGED <<serverVars, lostFrame, claim, resolving, losses>>

(* A frame is lost on the way, and some time later the socket notices the  *)
(* gap or reconnects and tells the page.                                   *)
loseFrame ==
  /\ wireFrames # <<>> /\ losses < MaxLosses /\ losses' = losses + 1
  /\ wireFrames' = Tail(wireFrames) /\ lostFrame' = TRUE
  /\ UNCHANGED <<serverVars, cacheVars, paneVars, reads, claim, resolving>>

resyncFrame ==
  /\ lostFrame /\ lostFrame' = FALSE /\ onResync
  /\ UNCHANGED <<serverVars, wireFrames, claim, resolving, losses>>

(* External: a fetch is served from the database, then answered. *)
serveRead(q) ==
  /\ reads[q].state = "asked"
  /\ reads' = [reads EXCEPT ![q] = [state |-> "served", fills |-> fills, over |-> over]]
  /\ UNCHANGED <<serverVars, wireFrames, lostFrame, cacheVars, paneVars, claim, resolving, losses>>

readAnswered(q) ==
  /\ reads[q].state = "served"
  /\ reads' = [reads EXCEPT ![q] = Idle]
  /\ \/ /\ q = "market"
        /\ market' = [price |-> reads[q].fills,
                      status |-> IF reads[q].over THEN "resolved" ELSE "active"]
        /\ UNCHANGED <<bookCache, restRows>>
     \/ q = "orderbook" /\ bookCache' = reads[q].fills /\ UNCHANGED <<market, restRows>>
     \/ q = "market-trades" /\ restRows' = reads[q].fills /\ UNCHANGED <<market, bookCache>>
  /\ UNCHANGED <<serverVars, wireFrames, lostFrame, paneVars, claim, resolving, losses>>

(* usePriceHistory's refetchInterval. *)
historyRead ==
  /\ history < fills /\ history' = fills
  /\ UNCHANGED <<serverVars, wireFrames, lostFrame, cacheVars, realtimeTrades, wsPoints,
                 reads, claim, resolving, losses>>

(* What the chart draws: history, two seed points, then the live points.   *)
historicalPoints == [i \in 1..history |-> i]
seedPoints       == <<market.price, market.price>>
priceHistory     == lastOf(historicalPoints \o seedPoints \o wsPoints, PointCap)

(* The admin's resolve button and its answer; useResolveMarket's onSuccess. *)
handleResolve ==
  /\ market.status # "resolved" /\ ~resolving /\ resolving' = TRUE
  /\ UNCHANGED <<serverVars, wireFrames, lostFrame, cacheVars, paneVars, reads, claim, losses>>

resolveAnswered ==
  /\ resolving /\ resolving' = FALSE
  /\ \/ ~over /\ resolve(over) /\ invalidate({"market"})
     \/ over /\ UNCHANGED <<over, wireFrames, reads>>
  /\ UNCHANGED <<fills, lostFrame, cacheVars, paneVars, claim, losses>>

(* ClaimWinnings, rendered on a resolved market. *)
handleClaim ==
  /\ market.status = "resolved" /\ claim \notin {"claiming", "claimed"}
  /\ claim' = "claiming"
  /\ UNCHANGED <<serverVars, wireFrames, lostFrame, cacheVars, paneVars, reads, resolving, losses>>

claimAnswered(ok) ==
  /\ claim = "claiming" /\ claim' = IF ok THEN "claimed" ELSE "offered"
  /\ UNCHANGED <<serverVars, wireFrames, lostFrame, cacheVars, paneVars, reads, resolving, losses>>

DetailInit ==
  /\ fills = 0 /\ over = FALSE /\ wireFrames = <<>> /\ lostFrame = FALSE
  /\ market = [price |-> 0, status |-> "active"] /\ bookCache = 0 /\ restRows = 0
  /\ realtimeTrades = <<>> /\ wsPoints = <<>> /\ history = 0
  /\ reads = [q \in Queries |-> Idle] /\ claim = "offered" /\ resolving = FALSE /\ losses = 0

DetailNext ==
  \/ fill \/ resolvedElsewhere \/ handleWSMessage \/ loseFrame \/ resyncFrame
  \/ \E q \in Queries : serveRead(q) \/ readAnswered(q)
  \/ historyRead \/ handleResolve \/ resolveAnswered \/ handleClaim
  \/ \E ok \in BOOLEAN : claimAnswered(ok)

DetailSpec == DetailInit /\ [][DetailNext]_detailVars

-----------------------------------------------------------------------------
Quiet == wireFrames = <<>> /\ ~lostFrame /\ \A q \in Queries : reads[q].state = "idle"

DetailTypeOK ==
  /\ fills \in 0..MaxFills /\ over \in BOOLEAN /\ lostFrame \in BOOLEAN
  /\ market \in [price : 0..MaxFills, status : {"active", "resolved"}]
  /\ {bookCache, restRows, history} \subseteq 0..MaxFills
  /\ Len(realtimeTrades) <= TradeCap /\ Len(wsPoints) <= PointCap
  /\ Len(priceHistory) <= PointCap
  /\ claim \in {"offered", "claiming", "claimed"} /\ resolving \in BOOLEAN

(* Once the socket is drained and every refetch answered, none of the      *)
(* TradeCap newest executed trades is missing from the page, whichever     *)
(* frames were lost and however the refetch and the frames interleaved.    *)
(* (handleWSMessage)                                                       *)
NoTradeMissing ==
  Quiet => \A id \in 1..fills :
             id \in Range(realtimeTrades) \/ id <= restRows \/ id + TradeCap <= fills

(* ... and a resolution is on screen.  (handleWSMessage, useResolveMarket) *)
ResolutionShown == Quiet /\ over => market.status = "resolved"

(* The newest point of the chart is the price frame the page handled last, *)
(* however much history arrives behind it and whatever the caps cut off.   *)
(* (priceHistory)                                                          *)
TipIsNewestFrame == wsPoints # <<>> => Last(priceHistory) = Last(wsPoints)

(* A market shown as resolved is never shown as open again, although       *)
(* fetches that were served before the resolution are still under way.     *)
(* (invalidateQueries)                                                     *)
ResolvedStaysResolved ==
  [][market.status = "resolved" => market'.status = "resolved"]_detailVars

(* Refuted: the price and the book beside the order form are the server's  *)
(* once nothing is under way: the form does not sit on a stale price.      *)
PriceIsCurrent == Quiet => market.price = fills

(* Refuted: a trade is one row of the trades tab. (combinedTrades)         *)
TradeRowsDistinct == \A id \in Range(realtimeTrades) : id > restRows

-----------------------------------------------------------------------------
(* A market's comments (components/markets/comment-list.tsx with                *)
(* hooks/api/use-comments.ts).  Top-level comments are a cached query that      *)
(* every mutation invalidates; the replies of a row are the row's own state,    *)
(* read by loadReplies alone.  Comment 1 is the row whose replies are modelled, *)
(* and everything is written by the user of this page.                          *)

CONSTANTS MaxComments,   \* bound: comments and replies ever posted
          MaxEditions,   \* bound: texts a comment may have had
          MaxThreadLoads,      \* bound: reads of the replies
          MaxCalls,      \* bound: mutations sent
          MaxNoes        \* bound: threadCalls that fail

VARIABLES posted,        \* server: id |-> [parent, text, deleted]
          topList, topRead,            \* the cached query and its read
          replies, loadsAsked,         \* the row's replies; reads under way
          showReplies, showReplyForm, replyText,
          editing,       \* id whose EditForm is open, 0 when none
          formText,      \* text in CommentForm
          threadCalls,         \* mutations under way
          loadCount, callCount, noes

threadVars == <<posted, topList, topRead, replies, loadsAsked, showReplies,
                showReplyForm, replyText, editing, formText, threadCalls, loadCount, callCount, noes>>

CommentIds == 1..MaxComments
Count == Cardinality(DOMAIN posted)

Shown(i) == [id |-> i, text |-> posted[i].text]

\* GET comments, GET replies: the server leaves deleted ones out.
topLevel == {Shown(i) : i \in {j \in DOMAIN posted :
                                 posted[j].parent = 0 /\ ~posted[j].deleted}}
repliesOf1 == {Shown(i) : i \in {j \in DOMAIN posted :
                                   posted[j].parent = 1 /\ ~posted[j].deleted}}

Unasked == [st |-> "no", rows |-> {}]
AskTop == [st |-> "asked", rows |-> {}]

ThreadInit ==
  /\ posted = [i \in {1} |-> [parent |-> 0, text |-> 1, deleted |-> FALSE]]
  /\ topList = topLevel /\ topRead = Unasked
  /\ replies = {} /\ loadsAsked = {} /\ showReplies = FALSE
  /\ showReplyForm = FALSE /\ replyText = FALSE /\ editing = 0 /\ formText = FALSE
  /\ threadCalls = {} /\ loadCount = 0 /\ callCount = 0 /\ noes = 0

\* The row is rendered while its comment is listed.
RowShown == \E c \in topList : c.id = 1

-----------------------------------------------------------------------------
typeComment ==
  /\ ~formText /\ formText' = TRUE
  /\ UNCHANGED <<posted, topList, topRead, replies, loadsAsked, showReplies,
                 showReplyForm, replyText, editing, threadCalls, loadCount, callCount, noes>>

Call(kind, id) == [kind |-> kind, id |-> id]

Sent(c) ==
  /\ callCount < MaxCalls
  /\ callCount' = callCount + 1
  /\ threadCalls' = threadCalls \cup {c}

\* CommentForm.onSubmit: the button is disabled while the mutation is pending.
CommentForm ==
  /\ formText /\ Call("post", 0) \notin threadCalls /\ Count < MaxComments
  /\ Sent(Call("post", 0))
  /\ UNCHANGED <<posted, topList, topRead, replies, loadsAsked, showReplies,
                 showReplyForm, replyText, editing, formText, loadCount, noes>>

handleReplyClick ==
  /\ RowShown
  /\ showReplyForm' = ~showReplyForm
  /\ replyText' = ~showReplyForm   \* the form mounts empty; the user types
  /\ UNCHANGED <<posted, topList, topRead, replies, loadsAsked, showReplies,
                 editing, formText, threadCalls, loadCount, callCount, noes>>

\* ReplyForm.handleSubmit, isPending = false: nothing holds back a second press.
ReplyForm ==
  /\ RowShown /\ showReplyForm /\ replyText /\ Count < MaxComments
  /\ \E n \in 1..MaxComments :
       /\ \A m \in 1..n - 1 : Call("reply", m) \in threadCalls
       /\ Call("reply", n) \notin threadCalls
       /\ Sent(Call("reply", n))
  /\ UNCHANGED <<posted, topList, topRead, replies, loadsAsked, showReplies,
                 showReplyForm, replyText, editing, formText, loadCount, noes>>

\* The rows a user sees, and may edit or delete: all are their own.
OnScreen == {c.id : c \in topList \cup (IF showReplies THEN replies ELSE {})}

handleEditClick(i) ==
  /\ i \in OnScreen /\ editing = 0
  /\ editing' = i
  /\ UNCHANGED <<posted, topList, topRead, replies, loadsAsked, showReplies,
                 showReplyForm, replyText, formText, threadCalls, loadCount, callCount, noes>>

handleCancelEdit ==
  /\ editing # 0 /\ editing' = 0
  /\ UNCHANGED <<posted, topList, topRead, replies, loadsAsked, showReplies,
                 showReplyForm, replyText, formText, threadCalls, loadCount, callCount, noes>>

\* EditForm.handleSubmit, with a text that differs.
EditForm ==
  /\ editing \in OnScreen
  /\ Sent(Call("edit", editing))
  /\ UNCHANGED <<posted, topList, topRead, replies, loadsAsked, showReplies,
                 showReplyForm, replyText, editing, formText, loadCount, noes>>

\* handleDelete: the button is disabled while isDeleting.
handleDeleteComment(i) ==
  /\ i \in OnScreen /\ Call("delete", i) \notin threadCalls
  /\ Sent(Call("delete", i))
  /\ UNCHANGED <<posted, topList, topRead, replies, loadsAsked, showReplies,
                 showReplyForm, replyText, editing, formText, loadCount, noes>>

-----------------------------------------------------------------------------
\* loadReplies: one more read; `then` is what its caller does afterwards.
loadReplies(then) ==
  /\ loadCount < MaxThreadLoads
  /\ loadCount' = loadCount + 1
  /\ loadsAsked' = loadsAsked \cup
       {[n |-> loadCount, then |-> then, st |-> "asked", rows |-> {}]}

\* toggleReplies: an empty list is read before it is shown.
toggleReplies ==
  /\ RowShown
  /\ IF ~showReplies /\ replies = {}
       THEN loadReplies("toggle") /\ UNCHANGED showReplies
       ELSE /\ showReplies' = ~showReplies
            /\ UNCHANGED <<loadCount, loadsAsked>>
  /\ UNCHANGED <<posted, topList, topRead, replies, showReplyForm, replyText,
                 editing, formText, threadCalls, callCount, noes>>

loadServed(l) ==
  /\ l \in loadsAsked /\ l.st = "asked"
  /\ loadsAsked' = (loadsAsked \ {l}) \cup
       {[l EXCEPT !.st = "served", !.rows = repliesOf1]}
  /\ UNCHANGED <<posted, topList, topRead, replies, showReplies, showReplyForm,
                 replyText, editing, formText, threadCalls, loadCount, callCount, noes>>

\* The answer replaces the list, whichever read it answers; a failure is a toast
\* and the caller goes on all the same.
loadAnswered(l) ==
  /\ l \in loadsAsked /\ l.st = "served"
  /\ loadsAsked' = loadsAsked \ {l}
  /\ \/ replies' = l.rows /\ UNCHANGED noes
     \/ noes < MaxNoes /\ noes' = noes + 1 /\ UNCHANGED replies
  /\ showReplies' = IF l.then = "toggle" THEN ~showReplies ELSE TRUE
  /\ UNCHANGED <<posted, topList, topRead, showReplyForm, replyText, editing,
                 formText, threadCalls, loadCount, callCount>>

-----------------------------------------------------------------------------
\* The server carries a mutation out (external), and onSuccess runs: the query
\* is invalidated, then the caller goes on.
Post(parent) ==
  posted' = [i \in 1..Count + 1 |->
               IF i <= Count THEN posted[i]
                 ELSE [parent |-> parent, text |-> 1, deleted |-> FALSE]]

invalidateComments == topRead' = AskTop

commentPosted(c) ==
  /\ c.kind = "post" /\ Count < MaxComments
  /\ Post(0)
  /\ formText' = FALSE
  /\ invalidateComments
  /\ UNCHANGED <<editing, showReplyForm, replyText, loadsAsked, loadCount>>

\* handleReply: the form closes, and the replies are read again.
replyPosted(c) ==
  /\ c.kind = "reply" /\ Count < MaxComments
  /\ Post(1)
  /\ showReplyForm' = FALSE /\ replyText' = FALSE
  /\ loadReplies("reply")
  /\ invalidateComments
  /\ UNCHANGED <<editing, formText>>

editServed(c) ==
  /\ c.kind = "edit" /\ posted[c.id].text < MaxEditions
  /\ posted' = [posted EXCEPT ![c.id].text = @ + 1]
  /\ editing' = 0
  /\ invalidateComments
  /\ UNCHANGED <<formText, showReplyForm, replyText, loadsAsked, loadCount>>

deleteServed(c) ==
  /\ c.kind = "delete"
  /\ posted' = [posted EXCEPT ![c.id].deleted = TRUE]
  /\ invalidateComments
  /\ UNCHANGED <<formText, editing, showReplyForm, replyText, loadsAsked, loadCount>>

callRefused ==
  /\ noes < MaxNoes /\ noes' = noes + 1
  /\ UNCHANGED <<posted, topRead, formText, editing, showReplyForm, replyText,
                 loadsAsked, loadCount>>

callAnswered(c) ==
  /\ c \in threadCalls
  /\ threadCalls' = threadCalls \ {c}
  /\ \/ /\ commentPosted(c) \/ replyPosted(c) \/ editServed(c) \/ deleteServed(c)
        /\ UNCHANGED noes
     \/ callRefused
  /\ UNCHANGED <<topList, replies, showReplies, callCount>>

topServed ==
  /\ topRead.st = "asked"
  /\ topRead' = [st |-> "served", rows |-> topLevel]
  /\ UNCHANGED <<posted, topList, replies, loadsAsked, showReplies, showReplyForm,
                 replyText, editing, formText, threadCalls, loadCount, callCount, noes>>

\* CommentList renders the answer: a row that left takes its state with it.
CommentList ==
  /\ topRead.st = "served"
  /\ topList' = topRead.rows /\ topRead' = Unasked
  /\ IF \E c \in topList' : c.id = 1
       THEN UNCHANGED <<replies, showReplies, showReplyForm, replyText, loadsAsked,
                        editing>>
       ELSE /\ replies' = {} /\ showReplies' = FALSE /\ showReplyForm' = FALSE
            /\ replyText' = FALSE /\ loadsAsked' = {} /\ editing' = 0
  /\ UNCHANGED <<posted, formText, threadCalls, loadCount, callCount, noes>>

ThreadNext ==
  \/ typeComment \/ CommentForm \/ handleReplyClick \/ ReplyForm
  \/ handleCancelEdit \/ EditForm \/ toggleReplies \/ topServed \/ CommentList
  \/ \E i \in CommentIds : handleEditClick(i) \/ handleDeleteComment(i)
  \/ \E l \in loadsAsked : loadServed(l) \/ loadAnswered(l)
  \/ \E c \in threadCalls : callAnswered(c)

ThreadSpec == ThreadInit /\ [][ThreadNext]_threadVars

-----------------------------------------------------------------------------
ThreadTypeOK ==
  /\ DOMAIN posted \subseteq CommentIds
  /\ \A i \in DOMAIN posted : posted[i].parent \in {0, 1} /\ posted[i].deleted \in BOOLEAN
  /\ topList \cup replies \subseteq [id : CommentIds, text : 1..MaxEditions]
  /\ topRead.st \in {"no", "asked", "served"}
  /\ editing \in 0..MaxComments /\ loadCount \in 0..MaxThreadLoads /\ noes \in 0..MaxNoes

ThreadQuiet == threadCalls = {} /\ topRead = Unasked /\ loadsAsked = {}

\* Once everything under way has landed, the top-level list is the server's,
\* however posts, edits and deletions overlapped with reads of the list.
TopLevelFollowsWrites == ThreadQuiet => topList = topLevel

\* Refuted: the replies shown under a row are the server's once everything
\* has landed.
RepliesFollowWrites == ThreadQuiet /\ showReplies /\ noes = 0 => replies = repliesOf1

=============================================================================
