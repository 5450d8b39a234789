----------------------------- MODULE QueryCache -----------------------------
(***************************************************************************)
(* The query cache of the web app: what writes and frames invalidate, and  *)
(* the notifications kept in it. They share no state.                      *)
(***************************************************************************)
EXTENDS Naturals, FiniteSets, Sequences, SequencesExt

-----------------------------------------------------------------------------
(***************************************************************************)
(* The web app's query cache as its hooks use it (hooks/api/*.ts,          *)
(* lib/api/queryKeys.ts): what each mutation writes on the server and      *)
(* which keys it invalidates, what each page does with a frame of the      *)
(* private feed, and what signing out drops.  One cached query is followed *)
(* at a time, whichever it is; queries do not influence one another.       *)
(* Abstracted: a resource is a version number per user; bodies, toasts.    *)
(* External: the server's writes and frames, and react-query itself        *)
(* (prefix matching; an invalidation restarts a fetch under way).          *)
(***************************************************************************)

CONSTANTS Users, MaxWrites, MaxFetches, MaxLogins, MaxLostFrames

VARIABLES
  watched,   \* the query followed: [page, key]
  user,      \* who is signed in, or Guest
  me,        \* the cached /auth/me answer: the gate of every private query
  entry,     \* the cached answer: whose, and of which version; or NoEntry
  fetch,     \* the read under way
  truth,     \* external: the version each user's data of this kind is at
  pending,   \* mutations under way
  feed,      \* frames of the private feed on their way
  owed,      \* a write the hooks leave to the stale time happened since the last read
  writes, fetches, logins, lostFrames

queryVars == <<watched, user, me, entry, fetch, truth, pending, feed, owed, writes, fetches,
               logins, lostFrames>>
Guest   == "guest"
NoEntry == [of |-> Guest, version |-> 0]
NoFetch == [state |-> "none", of |-> Guest, version |-> 0]
Absent  == "absent"

-----------------------------------------------------------------------------
(* queryKeys: absent parameters are left out of the key altogether. *)
queryKey(name, p) == IF p = Absent THEN <<name>> ELSE <<name, p>>
matches(prefix, key) == IsPrefix(prefix, key)

(* The hooks.  `writes` is what the endpoint changes, `refreshes` the keys *)
(* onSuccess invalidates.                                                  *)
All(name)      == queryKey(name, Absent)
(* Mutant: the positions are forgotten. *)
usePlaceOrderFewer == [writes |-> {"orders", "wallet", "positions", "transactions"},
                       refreshes |-> {All("orders"), All("wallet")}]

usePlaceOrder  == [writes |-> {"orders", "wallet", "positions", "transactions"},
                   refreshes |-> {All("orders"), All("wallet"), All("positions")}]
useCancelOrder == [writes |-> {"orders", "wallet", "positions"},
                   refreshes |-> {All("orders"), All("wallet"), All("positions")}]
useSplit       == [writes |-> {"wallet", "positions", "transactions"},
                   refreshes |-> {All("wallet"), All("positions")}]
useMerge       == [writes |-> {"wallet", "positions", "transactions"},
                   refreshes |-> {All("wallet"), All("positions")}]
useDeposit     == [writes |-> {"wallet", "transactions"},
                   refreshes |-> {All("wallet"), All("transactions")}]
useWithdraw    == [writes |-> {"wallet", "transactions"},
                   refreshes |-> {All("wallet"), All("transactions")}]
addLiquidity   == [writes |-> {"wallet", "lp-analytics", "lp-position", "transactions"},
                   refreshes |-> {queryKey("market", "id"), All("lp-analytics"),
                                  queryKey("lp-position", "id"), All("wallet")}]
removeLiquidity == [writes |-> {"wallet", "lp-analytics", "lp-position", "transactions"},
                    refreshes |-> {queryKey("market", "id"), All("lp-analytics"),
                                   queryKey("lp-position", "id"), All("wallet")}]
claimWinnings  == [writes |-> {"wallet", "transactions", "positions"},
                   refreshes |-> {All("wallet"), All("transactions"), All("positions")}]
useCreateAlert == [writes |-> {"alerts"}, refreshes |-> {All("alerts")}]
useDeleteAlert == [writes |-> {"alerts"}, refreshes |-> {All("alerts")}]
usePostComment == [writes |-> {"comments"}, refreshes |-> {queryKey("comments", "slug")}]
useEditComment == [writes |-> {"comments"}, refreshes |-> {queryKey("comments", "slug")}]
useDeleteComment == [writes |-> {"comments"}, refreshes |-> {queryKey("comments", "slug")}]
useCreateFlag  == [writes |-> {"flags"}, refreshes |-> {All("flags")}]
useResolveFlag == [writes |-> {"flags"}, refreshes |-> {All("flags")}]
useCreateDispute == [writes |-> {"disputes"}, refreshes |-> {}]
useProposeResolution == [writes |-> {"disputes"}, refreshes |-> {}]
useAdjudicateDispute == [writes |-> {"disputes"}, refreshes |-> {All("disputes")}]
useUpdateNotificationPreferences ==
  [writes |-> {"notification-preferences"}, refreshes |-> {All("notification-preferences")}]
useMarkNotificationRead == [writes |-> {"notifications"}, refreshes |-> {All("notifications")}]
useMarkAllNotificationsRead == [writes |-> {"notifications"}, refreshes |-> {All("notifications")}]
useRevokeSession == [writes |-> {"sessions"}, refreshes |-> {All("sessions")}]
useTwoFactorEnable == [writes |-> {"2fa"}, refreshes |-> {All("2fa")}]
useTwoFactorDisable == [writes |-> {"2fa"}, refreshes |-> {All("2fa")}]
useCreateMarket == [writes |-> {"markets", "my-markets", "wallet"}, refreshes |-> {All("markets")}]
useResolveMarket ==
  [writes |-> {"market", "market-activity", "positions", "markets"},
   refreshes |-> {queryKey("market", "slug"), queryKey("market-activity", "slug"),
                  All("positions"), All("markets")}]

Mutations ==
  {usePlaceOrder, useCancelOrder, useSplit, useMerge, useDeposit, useWithdraw, addLiquidity,
   removeLiquidity, claimWinnings, useCreateAlert, useDeleteAlert, usePostComment,
   useEditComment, useDeleteComment, useCreateFlag, useResolveFlag, useCreateDispute,
   useProposeResolution, useAdjudicateDispute, useUpdateNotificationPreferences,
   useMarkNotificationRead, useMarkAllNotificationsRead, useRevokeSession, useTwoFactorEnable,
   useTwoFactorDisable, useCreateMarket, useResolveMarket}

(* A write whose reader the hook does not refresh is seen when the query's *)
(* stale time is over: the history, own proposals, disputes filed, and the *)
(* balance after a market is seeded with liquidity.                        *)
LeftToStaleTime(m, name) ==
  \/ name \in {"transactions", "my-markets", "disputes"}
  \/ name = "wallet" /\ m = useCreateMarket

-----------------------------------------------------------------------------
(* The queries, and the page that shows each. *)
useOrders    == {[page |-> "orders", key |-> queryKey("orders", f)] : f \in {"all", "pending"}}
                  \cup {[page |-> "portfolio", key |-> All("orders")]}
usePositions == {[page |-> p, key |-> All("positions")] : p \in {"positions", "portfolio"}}
useWallet    == {[page |-> p, key |-> All("wallet")] : p \in {"wallet", "portfolio"}}
useTransactions == {[page |-> "transactions", key |-> All("transactions")]}
useNotifications == {[page |-> "notifications", key |-> queryKey("notifications", "page")],
                     [page |-> "bell", key |-> queryKey("notifications", "bell")]}
useAlerts    == {[page |-> "alerts", key |-> All("alerts")]}
useComments  == {[page |-> "market", key |-> queryKey("comments", "slug")]}
useFlagsForMarket    == {[page |-> "market", key |-> queryKey("flags", "id")]}
useDisputesForMarket == {[page |-> "market", key |-> queryKey("disputes", "id")]}
useLPAnalytics == {[page |-> "liquidity", key |-> All("lp-analytics")]}
useLPPosition  == {[page |-> "liquidity", key |-> queryKey("lp-position", "id")]}
useNotificationPreferences == {[page |-> "settings", key |-> All("notification-preferences")]}
useSessions        == {[page |-> "settings", key |-> All("sessions")]}
useTwoFactorStatus == {[page |-> "settings", key |-> All("2fa")]}
myMarkets          == {[page |-> "mine", key |-> queryKey("my-markets", "1")]}
useMarket          == {[page |-> "market", key |-> queryKey("market", "slug")]}
useMarkets         == {[page |-> "market", key |-> queryKey("markets", "p")]}
useMarketActivity  == {[page |-> "market", key |-> queryKey("market-activity", "slug")]}

CacheKeys == useOrders \cup usePositions \cup useWallet \cup useTransactions \cup useNotifications
  \cup useAlerts \cup useComments \cup useFlagsForMarket \cup useDisputesForMarket
  \cup useLPAnalytics \cup useLPPosition \cup useNotificationPreferences \cup useSessions
  \cup useTwoFactorStatus \cup myMarkets \cup useMarket \cup useMarkets \cup useMarketActivity

Public == {"comments", "flags", "disputes", "market", "markets", "market-activity"}
name   == watched.key[1]

(* useAuthGate: a private query runs once /auth/me has named a user. *)
useAuthGate == name \in Public \/ me # Guest

-----------------------------------------------------------------------------
(* What a page's handler refreshes on a frame of the private feed. *)
applyPrivateFeedResync == {All("positions"), All("orders"), All("wallet"), All("notifications")}
portfolioFrame(f) == CASE f = "resync" -> applyPrivateFeedResync
  [] f = "notification" -> {All("notifications"), All("wallet"), All("positions"), All("orders")}
  [] f \in {"order:fill", "position:update"} -> {All("positions"), All("orders"), All("wallet")}
ordersFrame(f) == CASE f = "resync" -> applyPrivateFeedResync
  [] f \in {"order:fill", "position:update"} -> {All("orders"), All("positions")}
  [] OTHER -> {}
positionsFrame(f) == CASE f = "resync" -> applyPrivateFeedResync
  [] f = "position:update" -> {All("positions")}
  [] OTHER -> {}
walletFrame(f) == CASE f = "resync" -> applyPrivateFeedResync
  [] f \in {"order:fill", "position:update"} -> {All("wallet"), All("transactions")}
  [] OTHER -> {}
notificationsFrame(f) == CASE f = "resync" -> applyPrivateFeedResync
  [] f = "notification" -> {All("notifications")}
  [] OTHER -> {}

handleWsMessage(f) ==
  CASE watched.page = "portfolio" -> portfolioFrame(f)
    [] watched.page = "orders"    -> ordersFrame(f)
    [] watched.page = "positions" -> positionsFrame(f)
    [] watched.page = "wallet"    -> walletFrame(f)
    [] watched.page \in {"notifications", "bell"} -> notificationsFrame(f)
    [] OTHER -> {}

-----------------------------------------------------------------------------
(* react-query: invalidating a key that matches restarts the read. *)
invalidateQueries(keys) ==
  IF useAuthGate /\ \E k \in keys : matches(k, watched.key) /\ fetches < MaxFetches
  THEN fetch' = [NoFetch EXCEPT !.state = "sent", !.of = user] /\ fetches' = fetches + 1
  ELSE UNCHANGED <<fetch, fetches>>

mount ==
  /\ useAuthGate /\ fetch.state = "none" /\ entry = NoEntry /\ fetches < MaxFetches
  /\ fetch' = [NoFetch EXCEPT !.state = "sent", !.of = user] /\ fetches' = fetches + 1
  /\ UNCHANGED <<watched, user, me, entry, truth, pending, feed, owed, writes, logins, lostFrames>>

readServed ==
  /\ fetch.state = "sent"
  /\ fetch' = [fetch EXCEPT !.state = "served", !.version = truth[fetch.of]]
  /\ owed' = FALSE
  /\ UNCHANGED <<watched, user, me, entry, truth, pending, feed, writes, fetches, logins, lostFrames>>

readLanded ==
  /\ fetch.state = "served"
  /\ entry' = [of |-> fetch.of, version |-> fetch.version] /\ fetch' = NoFetch
  /\ UNCHANGED <<watched, user, me, truth, pending, feed, owed, writes, fetches, logins, lostFrames>>

mutate(m) ==
  /\ me # Guest /\ pending = {} /\ writes < MaxWrites
  /\ pending' = {[hook |-> m, state |-> "sent"]} /\ writes' = writes + 1
  /\ UNCHANGED <<watched, user, me, entry, fetch, truth, feed, owed, fetches, logins, lostFrames>>

(* External: the endpoint commits. *)
mutationServed(m) ==
  /\ m \in pending /\ m.state = "sent" /\ user # Guest
  /\ pending' = {[m EXCEPT !.state = "done"]}
  /\ IF name \in m.hook.writes
     THEN /\ truth' = [truth EXCEPT ![user] = @ + 1]
          /\ owed' = (owed \/ LeftToStaleTime(m.hook, name))
     ELSE UNCHANGED <<truth, owed>>
  /\ UNCHANGED <<watched, user, me, entry, fetch, feed, writes, fetches, logins, lostFrames>>

mutationAnswered(m) ==
  /\ m \in pending /\ m.state = "done" /\ pending' = {}
  /\ invalidateQueries(m.hook.refreshes)
  /\ UNCHANGED <<watched, user, me, entry, truth, feed, owed, writes, logins, lostFrames>>

(* External: someone else's order fills this user's, and both frames of    *)
(* the fill go out; or a notification is stored and announced.             *)
eventHappens ==
  /\ user # Guest /\ user = me /\ feed = {} /\ writes < MaxWrites /\ writes' = writes + 1
  /\ \/ /\ name \in {"orders", "positions", "wallet"} /\ feed' = {"order:fill", "position:update"}
     \/ /\ name = "notifications" /\ feed' = {"notification"}
  /\ truth' = [truth EXCEPT ![user] = @ + 1]
  /\ UNCHANGED <<watched, user, me, entry, fetch, pending, owed, fetches, logins, lostFrames>>

onFrame(f) ==
  /\ f \in feed /\ feed' = feed \ {f}
  /\ invalidateQueries(handleWsMessage(f))
  /\ UNCHANGED <<watched, user, me, entry, truth, pending, owed, writes, logins, lostFrames>>

(* A frame is lost with its socket; the socket announces the reconnect.    *)
frameLost(f) ==
  /\ f \in feed /\ f # "resync" /\ lostFrames < MaxLostFrames
  /\ lostFrames' = lostFrames + 1 /\ feed' = (feed \ {f}) \cup {"resync"}
  /\ UNCHANGED <<watched, user, me, entry, fetch, truth, pending, owed, writes, fetches, logins>>

(* AuthProvider: signing out removes the keys scoped to the user, whether  *)
(* or not the server confirmed; the next user signs in on the same page    *)
(* load, and the gate reads /auth/me again.                                *)
droppedOnLogout == {"positions", "orders", "notifications"}

logoutUser ==
  /\ user # Guest /\ me = user /\ pending = {} /\ feed = {}
  /\ user' = Guest /\ me' = Guest
  /\ IF name \in droppedOnLogout THEN entry' = NoEntry /\ fetch' = NoFetch
     ELSE UNCHANGED <<entry, fetch>>
  /\ UNCHANGED <<watched, truth, pending, feed, owed, writes, fetches, logins, lostFrames>>

signInAs(u) ==
  /\ user = Guest /\ logins < MaxLogins /\ logins' = logins + 1 /\ user' = u
  /\ UNCHANGED <<watched, me, entry, fetch, truth, pending, feed, owed, writes, fetches, lostFrames>>

meAnswered ==
  /\ me # user /\ me' = user
  /\ UNCHANGED <<watched, user, entry, fetch, truth, pending, feed, owed, writes, fetches, logins,
                 lostFrames>>

CacheInit ==
  /\ watched \in CacheKeys
  /\ user \in Users /\ me = Guest /\ entry = NoEntry /\ fetch = NoFetch
  /\ truth = [u \in Users \cup {Guest} |-> 1] /\ pending = {} /\ feed = {} /\ owed = FALSE
  /\ writes = 0 /\ fetches = 0 /\ logins = 0 /\ lostFrames = 0

CacheNext ==
  \/ mount \/ readServed \/ readLanded \/ eventHappens \/ logoutUser \/ meAnswered
  \/ \E m \in Mutations : mutate(m)
  \/ \E m \in pending : mutationServed(m) \/ mutationAnswered(m)
  \/ \E f \in feed : onFrame(f) \/ frameLost(f)
  \/ \E u \in Users : signInAs(u)

CacheSpec == CacheInit /\ [][CacheNext]_queryVars

-----------------------------------------------------------------------------
CacheTypeOK ==
  /\ watched \in CacheKeys /\ user \in Users \cup {Guest} /\ me \in Users \cup {Guest}
  /\ fetch.state \in {"none", "sent", "served"} /\ feed \subseteq
       {"order:fill", "position:update", "notification", "resync"}

(* With nothing under way, the screen shows the data as the user's last    *)
(* write and the last fill left it, whatever overtook what: a read that    *)
(* was under way during the write is not what stays.  Holds for every hook *)
(* and page but the readers LeftToStaleTime names.  (onSuccess,            *)
(* handleWsMessage, queryKeys)                                             *)
Settled == fetch.state = "none" /\ pending = {} /\ feed = {} /\ fetches < MaxFetches
ScreenFollowsWrites ==
  Settled /\ ~owed /\ entry # NoEntry /\ user # Guest /\ entry.of = user
    => entry.version = truth[user]

(* Orders, positions and notifications of one user are never in the cache  *)
(* of the next, not even when the read was under way at sign-out.          *)
(* (AuthProvider)                                                          *)
DroppedStaysDropped ==
  name \in droppedOnLogout /\ entry # NoEntry /\ user # Guest /\ me = user => entry.of = user

(* Refuted: everything scoped to the signed-in user is dropped on          *)
(* sign-out.                                                               *)
NextUserSeesNothing ==
  name \notin Public /\ entry # NoEntry /\ user # Guest /\ me = user => entry.of = user

-----------------------------------------------------------------------------
(* Notifications as two mounted components show them: the bell of the header    *)
(* (components/notifications/notification-bell.tsx) and the notifications page  *)
(* (app/(app)/notifications/page.tsx).  Each lays frames of the private socket  *)
(* over a cached read of the same server list.  Notification ids grow with      *)
(* time; a list is newest first.                                                *)

CONSTANTS MaxNotices,    \* bound: notifications created
          PageRows,      \* page_size of the page's read
          MaxMisses,     \* bound: frames lost, each followed by a reconnect
          MaxRefusals    \* bound: mutations the server refuses

VARIABLES notices,       \* server: how many notifications exist, ids 1..notices
          readAtServer,  \* server: ids with a read_at
          userFeed,      \* frames on the private socket: ids, or 0 for the resync
          bellPrepends, readIds,       \* the bell's overlay
          bellData, bellRead,          \* its cached read, and the read under way
          pageNo, realtimePrepend,     \* the page's state
          pageData, pageRead,
          marking,       \* mark-read POSTs under way: {id}, or {} for all
          misses, refusals

noticeVars == <<notices, readAtServer, userFeed, bellPrepends, readIds, bellData,
                bellRead, pageNo, realtimePrepend, pageData, pageRead, marking,
                misses, refusals>>

Ids == 1..MaxNotices

Row(i, read) == [id |-> i, read |-> read]

\* GET /notifications, page k of `rows`, newest first.
noticesPage(k, rows) ==
  {Row(i, i \in readAtServer) : i \in
     {j \in 1..notices : j + (k - 1) * rows <= notices /\ j + k * rows > notices}}

\* A read is "no", "asked" or the rows of its answer.
NoRead == [st |-> "no", rows |-> {}]
NoticesAsked == [st |-> "asked", rows |-> {}]

NoticeInit ==
  /\ notices = 0 /\ readAtServer = {} /\ userFeed = <<>>
  /\ bellPrepends = {} /\ readIds = {} /\ bellData = {} /\ bellRead = NoticesAsked
  /\ pageNo = 1 /\ realtimePrepend = {} /\ pageData = {} /\ pageRead = NoticesAsked
  /\ marking = {} /\ misses = 0 /\ refusals = 0

\* invalidateQueries(notifications): both mounted reads start over.
invalidateNotices == bellRead' = NoticesAsked /\ pageRead' = NoticesAsked

-----------------------------------------------------------------------------
\* Server (external): a notification is created and published to the user.
notify ==
  /\ notices < MaxNotices
  /\ notices' = notices + 1
  /\ userFeed' = Append(userFeed, notices + 1)
  /\ UNCHANGED <<readAtServer, bellPrepends, readIds, bellData, bellRead, pageNo,
                 realtimePrepend, pageData, pageRead, marking, misses, refusals>>

\* The socket drops with what is queued on it and reconnects: its resync marker.
missFrames ==
  /\ misses < MaxMisses /\ userFeed # <<>>
  /\ misses' = misses + 1
  /\ userFeed' = <<0>>
  /\ UNCHANGED <<notices, readAtServer, bellPrepends, readIds, bellData, bellRead,
                 pageNo, realtimePrepend, pageData, pageRead, marking, refusals>>

\* Both handlers take the frame.  A notification is prepended by each, and the
\* reads are invalidated; the resync marker invalidates them and empties the
\* page's prepends.
bellOnMessage(f) ==
  bellPrepends' = IF f = 0 THEN bellPrepends ELSE bellPrepends \cup {Row(f, FALSE)}

pageOnMessage(f) ==
  realtimePrepend' = IF f = 0 THEN {} ELSE realtimePrepend \cup {Row(f, FALSE)}

noticeFrame ==
  /\ userFeed # <<>>
  /\ userFeed' = Tail(userFeed)
  /\ bellOnMessage(Head(userFeed)) /\ pageOnMessage(Head(userFeed))
  /\ invalidateNotices
  /\ UNCHANGED <<notices, readAtServer, readIds, bellData, pageNo, pageData,
                 marking, misses, refusals>>

-----------------------------------------------------------------------------
\* The reads: the server computes the answer, the answer arrives later.
noticesServed ==
  /\ \/ /\ bellRead.st = "asked"
        /\ bellRead' = [st |-> "served", rows |-> noticesPage(1, MaxNotices + 1)]
        /\ UNCHANGED pageRead
     \/ /\ pageRead.st = "asked"
        /\ pageRead' = [st |-> "served", rows |-> noticesPage(pageNo, PageRows)]
        /\ UNCHANGED bellRead
  /\ UNCHANGED <<notices, readAtServer, userFeed, bellPrepends, readIds, bellData,
                 pageNo, realtimePrepend, pageData, marking, misses, refusals>>

noticesAnswered ==
  /\ \/ /\ bellRead.st = "served"
        /\ bellData' = bellRead.rows /\ bellRead' = NoRead
        /\ UNCHANGED <<pageData, pageRead>>
     \/ /\ pageRead.st = "served"
        /\ pageData' = pageRead.rows /\ pageRead' = NoRead
        /\ UNCHANGED <<bellData, bellRead>>
  /\ UNCHANGED <<notices, readAtServer, userFeed, bellPrepends, readIds, pageNo,
                 realtimePrepend, marking, misses, refusals>>

\* handleLoadMore: the next page has a key of its own, so its rows replace these.
handleLoadMore ==
  /\ pageNo * PageRows < notices        \* the answer's has_more
  /\ pageNo' = pageNo + 1
  /\ pageData' = {} /\ pageRead' = NoticesAsked
  /\ UNCHANGED <<notices, readAtServer, userFeed, bellPrepends, readIds, bellData,
                 bellRead, realtimePrepend, marking, misses, refusals>>

-----------------------------------------------------------------------------
\* What the bell lists: its prepends and its read, without the ids marked here.
bellRows == {r \in bellPrepends \cup bellData : r.id \notin readIds}

\* The bell's badge counts the rows of both parts: a frame and its row of the
\* read are two rows.
unreadCount ==
  Cardinality({r \in bellPrepends : ~r.read /\ r.id \notin readIds})
    + Cardinality({r \in bellData : ~r.read /\ r.id \notin readIds})

pageRows == realtimePrepend \cup pageData

\* handleMarkRead: the id is hidden at once, and the POST sent.
handleMarkRead(i) ==
  /\ Row(i, FALSE) \in bellRows
  /\ readIds' = readIds \cup {i}
  /\ marking' = marking \cup {{i}}
  /\ UNCHANGED <<notices, readAtServer, userFeed, bellPrepends, bellData, bellRead,
                 pageNo, realtimePrepend, pageData, pageRead, misses, refusals>>

\* handleMarkAllRead of the bell: every listed id is hidden.
bellMarkAllRead ==
  /\ \E r \in bellRows : ~r.read
  /\ readIds' = readIds \cup {r.id : r \in bellRows}
  /\ marking' = marking \cup {{}}
  /\ UNCHANGED <<notices, readAtServer, userFeed, bellPrepends, bellData, bellRead,
                 pageNo, realtimePrepend, pageData, pageRead, misses, refusals>>

\* handleMarkAllRead of the page: the button is disabled while one is pending.
pageMarkAllRead ==
  /\ \E r \in pageRows : ~r.read
  /\ {} \notin marking
  /\ marking' = marking \cup {{}}
  /\ UNCHANGED <<notices, readAtServer, userFeed, bellPrepends, readIds, bellData,
                 bellRead, pageNo, realtimePrepend, pageData, pageRead, misses,
                 refusals>>

\* The POST is answered; success invalidates the reads, an error is a toast.
markServed(m) ==
  /\ m \in marking
  /\ marking' = marking \ {m}
  /\ \/ /\ readAtServer' = IF m = {} THEN 1..notices ELSE readAtServer \cup m
        /\ invalidateNotices
        /\ UNCHANGED refusals
     \/ /\ refusals < MaxRefusals
        /\ refusals' = refusals + 1
        /\ UNCHANGED <<readAtServer, bellRead, pageRead>>
  /\ UNCHANGED <<notices, userFeed, bellPrepends, readIds, bellData, pageNo,
                 realtimePrepend, pageData, misses>>

NoticeNext ==
  \/ notify \/ missFrames \/ noticeFrame
  \/ noticesServed \/ noticesAnswered \/ handleLoadMore
  \/ bellMarkAllRead \/ pageMarkAllRead
  \/ \E i \in Ids : handleMarkRead(i)
  \/ \E m \in marking : markServed(m)

NoticeSpec == NoticeInit /\ [][NoticeNext]_noticeVars

-----------------------------------------------------------------------------
NoticeTypeOK ==
  /\ notices \in 0..MaxNotices /\ readAtServer \subseteq 1..notices
  /\ userFeed \in Seq(0..MaxNotices)
  /\ \A rows \in {bellPrepends, bellData, realtimePrepend, pageData} :
       rows \subseteq [id : 1..notices, read : BOOLEAN]
  /\ readIds \subseteq 1..notices
  /\ {bellRead.st, pageRead.st} \subseteq {"no", "asked", "served"}
  /\ pageNo \in 1..MaxNotices + 1
  /\ misses \in 0..MaxMisses /\ refusals \in 0..MaxRefusals

NoticesQuiet ==
  userFeed = <<>> /\ bellRead = NoRead /\ pageRead = NoRead /\ marking = {}

\* Once everything under way has landed, a notification that is unread on the
\* server and was never marked in the bell is listed in the bell as unread,
\* frames lost on the socket included.
UnreadIsListed ==
  NoticesQuiet => \A i \in 1..notices \ (readAtServer \cup readIds) :
                     Row(i, FALSE) \in bellRows

\* Once everything under way has landed, the cached rows of both components say
\* what the server says about being read.
CachedReadIsTrue ==
  NoticesQuiet => \A r \in bellData \cup pageData : r.read = (r.id \in readAtServer)

\* Refuted: the number on the bell is the number of notifications unread on
\* the server.
UnreadCountIsTrue == NoticesQuiet => unreadCount = notices - Cardinality(readAtServer)

\* Refuted: an unread notification is always listed, refused mark-read
\* included.
RefusedMarkStillListed ==
  NoticesQuiet => \A i \in 1..notices \ readAtServer : \E r \in bellRows : r.id = i

=============================================================================
