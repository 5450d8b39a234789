------------------------------ MODULE Screens -------------------------------
(***************************************************************************)
(* What the pages of both apps draw from what they have read: the account  *)
(* pages and the home page, the lists of the admin console, and the        *)
(* decimal text its money decisions are taken on. They share no state.     *)
(***************************************************************************)
EXTENDS FiniteSets, Integers, Sequences

-----------------------------------------------------------------------------
(***************************************************************************)
(* The pages that draw what a query cache holds: the account pages of the  *)
(* web app (portfolio, positions, orders, transactions, wallet, liquidity, *)
(* referrals, proposed markets), its home page, and the console's security *)
(* and account pages.  A page is a few reads, some of them behind the      *)
(* authentication gate, and a cascade of conditions that turns the state   *)
(* of each read into one of six things on the screen:                      *)
(*   "spin" a skeleton, "fail" a failure message, "none" the text that     *)
(*   says there is nothing, "rows" the data, "blank" nothing at all,       *)
(*   "login" the text that says nobody is signed in.                       *)
(* The cache itself (react-query) is external: a read is pending, answered *)
(* or failed, and keeps the rows it had when a later read fails.           *)
(***************************************************************************)

CONSTANTS
  PageNames,      \* the pages to open
  Ledgers,        \* the ledger tables of the account page
  MaxRereads      \* bound on refetches, presses and toggles

VARIABLES
  opened,         \* the page that is open
  authMe,           \* what /auth/me has said: unknown, user, none or failed
  pageReads,          \* the page's pageReads
  include,        \* the ledger tables asked for (account page)
  rereads         \* refetches so far

screenVars == <<opened, authMe, pageReads, include, rereads>>

NoRows == 9       \* the read has never been answered
Unread == [rows |-> NoRows, fault |-> "ok", fetching |-> "no", more |-> FALSE]

ReadsOf(page) ==
  CASE page = "portfolio"    -> {"wallet", "positions", "orders"}
    [] page = "positions"    -> {"positions"}
    [] page = "orders"       -> {"orders"}
    [] page = "transactions" -> {"transactions"}
    [] page = "wallet"       -> {"wallet"}
    [] page = "liquidity"    -> {"lp"}
    [] page = "referrals"    -> {"code", "stats"}
    [] page = "mine"         -> {"mine"}
    [] page = "home"         -> {"markets", "closing", "trades"}
    [] page = "account"      -> {"user", "detail"}
    [] page = "devices"      -> {"sessions", "twoFactor"}

\* The reads that page after page extends.
Paged == {"positions", "orders", "transactions", "markets"}

\* Reads enabled only for a signed-in user (use-auth-gate.ts).
authGated == {"wallet", "positions", "orders", "transactions", "mine"}

enabled(q) ==
  /\ q \in authGated => authMe = "user"
  /\ q = "detail" => include # {}

isPending(q) == pageReads[q].rows = NoRows /\ pageReads[q].fault = "ok"
isLoading(q) == isPending(q) /\ pageReads[q].fetching # "no"
isError(q) == pageReads[q].fault # "ok"
hasRows(q) == pageReads[q].rows \notin {NoRows, 0}
isFetchingNextPage(q) == pageReads[q].fetching = "more"

useLoadingWithGate(q) == isLoading(q) \/ (authMe = "unknown" /\ ~enabled(q))

----------------------------------------------------------------------------
(* What each part of a page draws. *)

\* portfolio/page.tsx and WalletPageClient
WalletHero(q) ==
  IF useLoadingWithGate(q) THEN "spin"
  ELSE IF pageReads[q].rows # NoRows THEN "rows" ELSE "blank"

WalletBalance(q) ==
  IF useLoadingWithGate(q) THEN "spin"
  ELSE IF pageReads[q].rows # NoRows THEN "rows"
  ELSE IF isError(q) /\ pageReads[q].fault # "unauthorized" THEN "fail" ELSE "login"

\* A list that spins only while it has nothing else to show.
PositionsSection(q) ==
  IF hasRows(q) THEN "rows" ELSE IF isLoading(q) THEN "spin" ELSE "none"

OrdersSection(q) ==
  IF hasRows(q) THEN "rows" ELSE IF isLoading(q) THEN "spin" ELSE "none"

PositionsList(q) ==
  IF hasRows(q) THEN "rows"
  ELSE IF isLoading(q) \/ isFetchingNextPage(q) THEN "spin" ELSE "none"

\* The orders page's table: an error outranks the rows it holds.
DataTable(q) ==
  IF isError(q) THEN "fail"
  ELSE IF hasRows(q) THEN "rows" ELSE IF isLoading(q) THEN "spin" ELSE "none"

TradeFeed(q) == IF hasRows(q) THEN "rows" ELSE "none"

TransactionsPage(q) ==
  IF isLoading(q) THEN "spin" ELSE IF hasRows(q) THEN "rows" ELSE "none"

LPDashboard(q) ==
  IF isLoading(q) THEN "spin"
  ELSE IF isError(q) THEN "fail" ELSE IF hasRows(q) THEN "rows" ELSE "none"

MyMarketsClient(q) ==
  IF authMe = "unknown" \/ (isLoading(q) /\ authMe = "user") THEN "spin"
  ELSE IF authMe # "user" THEN "blank"
  ELSE IF isError(q) THEN "fail" ELSE IF hasRows(q) THEN "rows" ELSE "none"

\* The referral page waits for the code alone; its figures default to zero.
ReferralCode(q) ==
  IF isLoading(q) THEN "spin" ELSE IF hasRows(q) THEN "rows" ELSE "blank"

ReferralsTable(q) ==
  IF isLoading("code") THEN "spin" ELSE IF hasRows(q) THEN "rows" ELSE "none"

TrendingCarousel(q) ==
  IF hasRows(q) THEN "rows" ELSE IF isLoading(q) THEN "spin" ELSE "blank"

ClosingSoon(q) ==
  IF isLoading(q) THEN "spin"
  ELSE IF isError(q) THEN "fail" ELSE IF hasRows(q) THEN "rows" ELSE "none"

AdminUserDetail(q) ==
  IF isLoading(q) THEN "spin"
  ELSE IF isError(q) \/ pageReads[q].rows = NoRows THEN "fail" ELSE "rows"

DetailTable(q) ==
  IF include = {} \/ AdminUserDetail("user") # "rows" THEN "blank"
  ELSE IF hasRows(q) THEN "rows" ELSE "none"

AdminSessions(q) ==
  IF isLoading(q) THEN "spin"
  ELSE IF isError(q) THEN "fail" ELSE IF hasRows(q) THEN "rows" ELSE "none"

TwoFactorCard(q) ==
  IF isLoading(q) THEN "spin"
  ELSE IF isError(q) THEN "fail" ELSE IF hasRows(q) THEN "rows" ELSE "none"

\* The part of the open page that draws a read.
Part(q) ==
  CASE opened = "portfolio" /\ q = "wallet"    -> WalletHero(q)
    [] opened = "portfolio" /\ q = "positions" -> PositionsSection(q)
    [] opened = "portfolio" /\ q = "orders"    -> OrdersSection(q)
    [] opened = "wallet"       -> WalletBalance(q)
    [] opened = "positions"    -> PositionsList(q)
    [] opened = "orders"       -> DataTable(q)
    [] opened = "transactions" -> TransactionsPage(q)
    [] opened = "liquidity"    -> LPDashboard(q)
    [] opened = "mine"         -> MyMarketsClient(q)
    [] opened = "referrals" /\ q = "code"  -> ReferralCode(q)
    [] opened = "referrals" /\ q = "stats" -> ReferralsTable(q)
    [] opened = "home" /\ q = "markets" -> TrendingCarousel(q)
    [] opened = "home" /\ q = "closing" -> ClosingSoon(q)
    [] opened = "home" /\ q = "trades"  -> TradeFeed(q)
    [] opened = "account" /\ q = "user"   -> AdminUserDetail(q)
    [] opened = "account" /\ q = "detail" -> DetailTable(q)
    [] opened = "devices" /\ q = "sessions"  -> AdminSessions(q)
    [] opened = "devices" /\ q = "twoFactor" -> TwoFactorCard(q)

\* Whether the page offers the next page of a read right now.
offersMore(q) ==
  /\ q \in Paged /\ pageReads[q].more /\ hasRows(q)
  /\ CASE opened = "portfolio"    -> ~isLoading(q)
       [] opened = "positions"    -> ~isLoading(q) /\ ~isFetchingNextPage(q)
       [] opened \in {"orders", "transactions"} -> ~isFetchingNextPage(q)
       [] OTHER                   -> TRUE

----------------------------------------------------------------------------
ScreensInit ==
  /\ opened \in PageNames
  /\ authMe = "unknown"
  /\ pageReads = [q \in ReadsOf(opened) |-> Unread]
  /\ include = {}
  /\ rereads = 0

\* /auth/me answers, says 401, or fails after its retries (use-auth.ts).
useCurrentUser ==
  /\ authMe = "unknown"
  /\ authMe' \in {"user", "none", "failed"}
  /\ UNCHANGED <<opened, pageReads, include, rereads>>

\* A mounted, enabled read with no answer goes out.
readAsked(q) ==
  /\ enabled(q) /\ isPending(q) /\ pageReads[q].fetching = "no"
  /\ pageReads' = [pageReads EXCEPT ![q].fetching = "read"]
  /\ UNCHANGED <<opened, authMe, include, rereads>>

readAnswers(q) ==
  /\ pageReads[q].fetching # "no"
  /\ \E n \in 0 .. 2, m \in BOOLEAN :
       /\ isFetchingNextPage(q) => n >= pageReads[q].rows
       /\ m => q \in Paged /\ n = 1
       /\ pageReads' = [pageReads EXCEPT ![q] =
                      [rows |-> n, fault |-> "ok", fetching |-> "no", more |-> m]]
  /\ UNCHANGED <<opened, authMe, include, rereads>>

readFails(q) ==
  /\ pageReads[q].fetching # "no"
  /\ \E f \in {"failed", "unauthorized"} :
       pageReads' = [pageReads EXCEPT ![q].fault = f, ![q].fetching = "no"]
  /\ UNCHANGED <<opened, authMe, include, rereads>>

\* A frame invalidates the read, or Retry / Try again is pressed.
refetch(q) ==
  /\ rereads < MaxRereads /\ enabled(q)
  /\ ~isPending(q) /\ pageReads[q].fetching # "read"
  /\ pageReads' = [pageReads EXCEPT ![q].fetching = "read",
                            ![q].fault = IF pageReads[q].rows = NoRows THEN "ok" ELSE @]
  /\ rereads' = rereads + 1
  /\ UNCHANGED <<opened, authMe, include>>

\* Load more is pressed, or the sentinel scrolls into view.
fetchNextPage(q) ==
  /\ rereads < MaxRereads /\ enabled(q) /\ offersMore(q)
  /\ pageReads' = [pageReads EXCEPT ![q].fetching = "more"]
  /\ rereads' = rereads + 1
  /\ UNCHANGED <<opened, authMe, include>>

\* The set of tables is part of the key, so a toggle is a read of its own.
toggleLedger(t) ==
  /\ opened = "account" /\ Part("user") = "rows" /\ rereads < MaxRereads
  /\ include' = IF t \in include THEN include \ {t} ELSE include \cup {t}
  /\ pageReads' = [pageReads EXCEPT !["detail"] = Unread]
  /\ rereads' = rereads + 1
  /\ UNCHANGED <<opened, authMe>>

\* Another status is chosen on the orders page: a key of its own again.
handleFilterClick ==
  /\ opened = "orders" /\ rereads < MaxRereads
  /\ pageReads' = [pageReads EXCEPT !["orders"] = Unread]
  /\ rereads' = rereads + 1
  /\ UNCHANGED <<opened, authMe, include>>

ScreensNext ==
  \/ useCurrentUser
  \/ \E q \in DOMAIN pageReads :
       \/ readAsked(q) \/ readAnswers(q) \/ readFails(q)
       \/ refetch(q) \/ fetchNextPage(q)
  \/ \E t \in Ledgers : toggleLedger(t)
  \/ handleFilterClick

ScreensSpec == ScreensInit /\ [][ScreensNext]_screenVars

----------------------------------------------------------------------------
\* Types.
ScreensTypeOK ==
  /\ opened \in PageNames /\ authMe \in {"unknown", "user", "none", "failed"}
  /\ pageReads \in [ReadsOf(opened) ->
                  [rows : (0 .. 2) \cup {NoRows}, fault : {"ok", "failed", "unauthorized"},
                   fetching : {"no", "read", "more"}, more : BOOLEAN]]
  /\ include \subseteq Ledgers /\ rereads \in 0 .. MaxRereads
  /\ \A q \in DOMAIN pageReads : pageReads[q].fetching # "no" => enabled(q)

\* A skeleton stands for a request that is on its way, or for the sign-in
\* check that the request waits for: it never outlives them (home-page-content
\* once shimmered for ever after a failed read).
SpinsOnlyWhileReading ==
  \A q \in DOMAIN pageReads :
    Part(q) = "spin" =>
      \/ \E r \in DOMAIN pageReads : pageReads[r].fetching # "no"
      \/ authMe = "unknown"

\* Rows the page has are shown, or replaced by a failure message: no part
\* says there is nothing, or draws nothing, while it holds rows.
RowsNeverDenied ==
  \A q \in DOMAIN pageReads :
    hasRows(q) =>
       \/ Part(q) \in {"rows", "fail", "spin"}
       \/ q = "detail" /\ Part(q) = "blank" /\ (include = {} \/ Part("user") # "rows")

\* The parts that know about failure (the orders table, liquidity, proposed
\* markets, closing soon, console sessions and second factor) say "nothing" or
\* "off" only when the server answered with nothing.
FailureAware == {"lp", "mine", "closing", "sessions", "twoFactor"}
NothingMeansNothing ==
  \A q \in DOMAIN pageReads \cap (FailureAware \cup (IF opened = "orders" THEN {"orders"} ELSE {})) :
    Part(q) = "none" =>
      \/ pageReads[q].rows = 0
      \/ isPending(q) /\ pageReads[q].fetching = "no"

\* The wallet says "Not authenticated" only on the server's word: a 401 to
\* the wallet read, or to the sign-in check it waits for.  Stated for a
\* sign-in check that did not itself break down; see WalletSaysWhy.
WalletBlamesAuthRightly ==
  opened = "wallet" /\ authMe # "failed" /\ Part("wallet") = "login" =>
    \/ authMe = "none"
    \/ pageReads["wallet"].fault = "unauthorized"
    \/ isPending("wallet") /\ pageReads["wallet"].fetching = "no"

\* REFUTED: "Only claim the user is unauthenticated when the server actually
\* said so" (WalletPageClient.tsx): a sign-in check that failed with a 5xx
\* disables the wallet read, and the page says "Not authenticated".
WalletSaysWhy ==
  opened = "wallet" /\ Part("wallet") = "login" =>
    \/ authMe = "none"
    \/ pageReads["wallet"].fault = "unauthorized"
    \/ isPending("wallet") /\ pageReads["wallet"].fetching = "no" /\ authMe = "user"

\* REFUTED: "an authed page would flash its empty state" without
\* useLoadingWithGate (use-auth-gate.ts): positions, orders and transactions
\* do not use it, and say there is nothing while the sign-in check runs.
NoEmptyFlash ==
  \A q \in DOMAIN pageReads \cap authGated : authMe = "unknown" => Part(q) # "none"

\* REFUTED: portfolio, positions, transactions, referrals, the trade feed and
\* the account ledger draw a failed read as an empty one.
EmptyIsAlwaysAnAnswer ==
  \A q \in DOMAIN pageReads : isError(q) /\ pageReads[q].rows = NoRows => Part(q) # "none"

-----------------------------------------------------------------------------
(* The admin console's reads: which query each screen mounts, under which key,  *)
(* asking for what, and what it draws from the cache entry it finds there.  The *)
(* screens share one React Query cache, so an entry left by one screen is what   *)
(* another draws when their keys hash alike.                                    *)

CONSTANTS Holding,      \* resource -> rows the server holds, per status filter
          FullPage,     \* rows of a list page
          MaxSteps,     \* bound: navigations and changes of filter
          MaxReadFails  \* bound: reads refused

VARIABLES resourceA,    \* the resource whose entries an instance follows: keys of
                        \* different resources never hash alike
          screenA,      \* the screen on display
          filters,      \* its [status, search, sort, page]
          cacheA,       \* key -> [ask, stale]: the read that filled the entry
          asking,       \* reads in flight: [key, ask]
          erredA,       \* keys whose last read failed
          steps, fails

listsVars == <<resourceA, screenA, filters, cacheA, asking, erredA, steps, fails>>

FirstFilters(s) == [status |-> IF s = "disputes" THEN "open" ELSE "all",
                    search |-> "", sort |-> "newest", page |-> 1]

\* A read: of which resource, with which inputs, how many rows, and whether the
\* page envelope is kept ("page") or unwrapped to its payload ("data").
Ask(of, f, size, wrap) == [of |-> of, status |-> f.status, search |-> f.search,
                           sort |-> f.sort, page |-> f.page, size |-> size, wrap |-> wrap]
Obs(key, ask) == [key |-> key, ask |-> ask]

adminUsers(f) == <<"admin", "users", f.page, f.search, f.status, f.sort>>
adminMarkets(f) == <<"admin", "markets", f.status, f.page>>
adminActions(f) == <<"admin", "actions", f.page, f.status>>
adminDisputes(f) == <<"admin", "disputes", f.status, f.page, f.search>>
treasuryLogs(f) == <<"admin", "treasury-logs", f.page>>
treasury == <<"treasury", "summary">>

\* The queries a screen mounts.
AdminUsersClient(f) == {Obs(adminUsers(f), Ask("users", f, FullPage, "page"))}
AdminMarketsClient(f) ==
  {Obs(adminMarkets(f) \o <<f.search, f.sort>>, Ask("markets", f, FullPage, "page"))}
AdminDisputesClient(f) == {Obs(adminDisputes(f), Ask("disputes", f, FullPage, "page"))}
AdminAuditClient(f) == {Obs(adminActions(f), Ask("actions", f, FullPage, "page"))}
TreasuryHistory(f) == {Obs(treasuryLogs(f), Ask("logs", f, FullPage, "page"))}
AdminTreasuryClient(f) == {Obs(treasury, Ask("summary", f, 1, "data"))} \cup TreasuryHistory(f)

\* AdminDashboardClient: counts read as one-row pages, the ten newest failures, the
\* eight newest actions, and the treasury.
AdminDashboardClient ==
  LET all == FirstFilters("dashboard")
      open == FirstFilters("disputes")
      failed == [all EXCEPT !.status = "failure"]
      pending == [all EXCEPT !.status = "pending"] IN
  {Obs(adminMarkets(pending), Ask("markets", pending, 1, "page")),
   Obs(adminActions(failed), Ask("actions", failed, 10, "page")),
   Obs(adminActions(all), Ask("actions", all, 8, "data")),
   Obs(adminDisputes(open), Ask("disputes", open, 1, "page")),
   Obs(adminUsers(all), Ask("users", all, 1, "page")),
   Obs(adminMarkets(all), Ask("markets", all, 1, "page")),
   Obs(treasury, Ask("summary", all, 1, "page"))}

screenOf == [users |-> "users", markets |-> "markets", disputes |-> "disputes",
             actions |-> "audit", logs |-> "treasury", summary |-> "treasury"]

Mounted(s, f) ==
  {o \in CASE s = "dashboard" -> AdminDashboardClient
            [] s = "users" -> AdminUsersClient(f)
            [] s = "markets" -> AdminMarketsClient(f)
            [] s = "disputes" -> AdminDisputesClient(f)
            [] s = "audit" -> AdminAuditClient(f)
            [] s = "treasury" -> AdminTreasuryClient(f) : o.ask.of = resourceA}

-----------------------------------------------------------------------------
\* React Query (external): mounting an observer reads a key that has no entry or a
\* stale one, unless that key is being read already.
mountReads(s, f) ==
  {o \in Mounted(s, f) : /\ \A r \in asking : r.key # o.key
                         /\ o.key \notin DOMAIN cacheA \/ cacheA[o.key].stale}

Show(s, f) ==
  /\ steps < MaxSteps /\ steps' = steps + 1
  /\ screenA' = s /\ filters' = f
  /\ asking' = asking \cup mountReads(s, f)
  /\ erredA' = erredA \ {o.key : o \in mountReads(s, f)}
  /\ UNCHANGED <<resourceA, cacheA, fails>>

\* The sidebar: a screen mounts with its first filters.
navigate(s) == s # screenA /\ Show(s, FirstFilters(s))

\* A status filter, a sort order or a submitted search goes back to page one, the
\* audit page's failure filter excepted.
setFilter(x, v) ==
  /\ screenA \in {"users", "markets", "disputes", "audit"} /\ filters[x] # v
  /\ x = "status" \/ screenA = "users" \/ (x = "search" /\ screenA = "disputes")
       \/ screenA = "markets"
  /\ x = "status" => v = (IF screenA = "audit" THEN "failure" ELSE "few")
  /\ x = "sort" => v = "oldest"
  /\ x = "search" => v = "s"
  /\ Show(screenA, [filters EXCEPT ![x] = v, !.page = IF screenA = "audit" THEN @ ELSE 1])

\* Rows a read matches on the server.
Matching(a) == IF a.search # "" THEN 1
               ELSE IF a.status \in DOMAIN Holding[a.of] THEN Holding[a.of][a.status] ELSE 0
Returned(a) == LET left == Matching(a) - (a.page - 1) * a.size IN
                 IF left < 0 THEN 0 ELSE IF left < a.size THEN left ELSE a.size

\* Pagination: the last page follows from the total of the entry on display.
totalPages(a) == IF Matching(a) = 0 THEN 1 ELSE (Matching(a) + FullPage - 1) \div FullPage
canGoForward(p, a) == p < totalPages(a)

ListOf == CHOOSE o \in Mounted(screenA, filters) : TRUE

onPageChange ==
  /\ screenA # "dashboard" /\ resourceA # "summary" /\ ListOf.key \in DOMAIN cacheA
  /\ cacheA[ListOf.key].ask.wrap = "page"
  /\ \/ /\ canGoForward(filters.page, cacheA[ListOf.key].ask)
        /\ Show(screenA, [filters EXCEPT !.page = @ + 1])
     \/ filters.page > 1 /\ Show(screenA, [filters EXCEPT !.page = @ - 1])

adminReadAnswered(r) ==
  /\ asking' = asking \ {r}
  /\ \/ /\ cacheA' = [k \in DOMAIN cacheA \cup {r.key} |->
                        IF k = r.key THEN [ask |-> r.ask, stale |-> FALSE] ELSE cacheA[k]]
        /\ erredA' = erredA \ {r.key} /\ UNCHANGED fails
     \/ /\ fails < MaxReadFails /\ fails' = fails + 1
        /\ erredA' = erredA \cup {r.key} /\ UNCHANGED cacheA
  /\ UNCHANGED <<resourceA, screenA, filters, steps>>

\* Ten seconds (staleTime, providers.tsx) without a read.
goesStale ==
  /\ \E k \in DOMAIN cacheA : ~cacheA[k].stale
  /\ cacheA' = [k \in DOMAIN cacheA |-> [cacheA[k] EXCEPT !.stale = TRUE]]
  /\ UNCHANGED <<resourceA, screenA, filters, asking, erredA, steps, fails>>

-----------------------------------------------------------------------------
\* What a list screen draws: a payload of the other shape has no `data` field, so
\* it reads as no rows.
Rows(o) == IF o.key \in DOMAIN cacheA /\ cacheA[o.key].ask.wrap = o.ask.wrap
           THEN Returned(cacheA[o.key].ask) ELSE 0
listIsLoading(o) == o.key \notin DOMAIN cacheA /\ \E r \in asking : r.key = o.key
listIsError(o) == o.key \in erredA

\* The lists that do not read isError: a failed read draws what no rows draws.
ListView(o) == IF listIsLoading(o) THEN "spinner" ELSE IF Rows(o) = 0 THEN "empty" ELSE "rows"
usersView(o) == ListView(o)
marketsView(o) == ListView(o)
auditView(o) == ListView(o)
historyView(o) == ListView(o)
failuresView(o) == ListView(o)

\* AdminDisputesClient.
disputesView(o) == IF listIsError(o) /\ ~listIsLoading(o) THEN "error" ELSE ListView(o)

viewOf(o) ==
  CASE screenA = "users" -> usersView(o) [] screenA = "markets" -> marketsView(o)
    [] screenA = "audit" -> auditView(o) [] screenA = "treasury" -> historyView(o)
    [] OTHER -> disputesView(o)

\* Stat: undefined while loading, null on failure, else the count.
count(o) == IF listIsLoading(o) THEN "loading" ELSE IF listIsError(o) THEN "failed" ELSE "number"

\* The dashboard's recent actions: an envelope has no length and no map.
recentView(o) ==
  IF listIsLoading(o) THEN "spinner"
  ELSE IF o.key \in DOMAIN cacheA /\ cacheA[o.key].ask.wrap = "page" THEN "crash"
  ELSE IF Rows(o) = 0 THEN "empty" ELSE "rows"

ListsInit ==
  /\ resourceA \in DOMAIN screenOf /\ screenA \in {"dashboard", screenOf[resourceA]}
  /\ filters = FirstFilters(screenA)
  /\ cacheA = [k \in {} |-> 0] /\ asking = Mounted(screenA, filters)
  /\ erredA = {} /\ steps = 0 /\ fails = 0

ListsNext ==
  \/ \E s \in {"dashboard", screenOf[resourceA]} : navigate(s)
  \/ \E x \in {"status", "sort", "search"}, v \in {"few", "failure", "oldest", "s"} : setFilter(x, v)
  \/ onPageChange \/ goesStale
  \/ \E r \in asking : adminReadAnswered(r)

ListsSpec == ListsInit /\ [][ListsNext]_listsVars

-----------------------------------------------------------------------------
ListsTypeOK ==
  /\ filters.page \in 1..(1 + MaxSteps)
  /\ erredA \cap {r.key : r \in asking} = {}
  /\ \A r, q \in asking : r.key = q.key => r = q

\* The rows drawn were read with the status, search, order and page on display:
\* every input is in its key.
RowsMatchInputs ==
  \A o \in Mounted(screenA, filters) : o.key \in DOMAIN cacheA =>
    LET a == cacheA[o.key].ask IN
      o.key # treasury => <<a.of, a.status, a.search, a.sort, a.page>>
           = <<o.ask.of, o.ask.status, o.ask.search, o.ask.sort, o.ask.page>>

\* The dispute queue is never drawn as empty when its read failed: the answer it is
\* drawn from had no rows.
EmptyQueueIsAnAnswer ==
  screenA = "disputes" /\ disputesView(ListOf) = "empty"
    => ListOf.key \in DOMAIN cacheA /\ Returned(cacheA[ListOf.key].ask) = 0

\* A change of filter never leaves a list past its last page.
FilterShowsRows ==
  screenA \in {"users", "markets", "disputes"} => filters.page <= totalPages(ListOf.ask)

\* Refuted (users, markets, audit, treasury): no list is drawn as empty when its
\* read failed.
EmptyIsAnAnswer ==
  screenA # "dashboard" /\ resourceA # "summary" /\ viewOf(ListOf) = "empty" => ListOf.key \in DOMAIN cacheA

\* Refuted: what a screen draws is what its own query would have read, page size
\* and payload included.
EntryIsThisScreens ==
  \A o \in Mounted(screenA, filters) : o.key \in DOMAIN cacheA =>
    /\ cacheA[o.key].ask.size = o.ask.size
    /\ cacheA[o.key].ask.wrap = o.ask.wrap

\* Refuted: the audit page shows rows after a change of its failure filter.
AuditShowsRows == screenA = "audit" => filters.page <= totalPages(ListOf.ask)

\* Refuted: the overview can always be drawn.
OverviewDraws ==
  screenA = "dashboard" =>
    \A o \in AdminDashboardClient : o.ask.wrap = "data" => recentView(o) # "crash"

-----------------------------------------------------------------------------
(***************************************************************************)
(* Money as decimal text on the operator console (admin/lib/decimal.ts) and *)
(* the two decisions taken on it: whether pending fees can be distributed   *)
(* (schemas/privileged.ts) and whether a withdrawal exceeds the balance     *)
(* (components/treasury-withdraw.tsx).  A text is its sign, the digits      *)
(* before the point and the digits after it; Malformed is any other text.   *)
(***************************************************************************)

CONSTANTS TextDigits, MaxWhole, MaxFraction, Base, Ceiling

VARIABLES left, right
decimalVars == <<left, right>>

DigitsUpTo(n) == UNION {[1 .. k -> TextDigits] : k \in 0 .. n}
Malformed == [minus |-> FALSE, whole |-> <<-1>>, fraction |-> <<>>]
Texts == {Malformed} \union [minus : BOOLEAN, whole : DigitsUpTo(MaxWhole), fraction : DigitsUpTo(MaxFraction)]

RECURSIVE Read(_)
Read(ds) == IF ds = <<>> THEN 0 ELSE Base * Read(SubSeq(ds, 1, Len(ds) - 1)) + ds[Len(ds)]
SizeOf(n) == IF n < 0 THEN 0 - n ELSE n
Longer(m, n) == IF m > n THEN m ELSE n

\* [units, scale]: the value is units / Base^scale.
parse(text) ==
    IF text = Malformed THEN [units |-> 0, scale |-> 0]
    ELSE [units |-> (IF text.minus THEN -1 ELSE 1) * Read(text.whole \o text.fraction), scale |-> Len(text.fraction)]

rescale(v, scale) == [units |-> v.units * Base ^ (scale - v.scale), scale |-> scale]

\* The digits of n, at least that many.
RECURSIVE Padded(_, _)
Padded(n, least) ==
    IF n = 0 /\ least <= 0 THEN <<>> ELSE Append(Padded(n \div Base, least - 1), n % Base)

format(v) ==
    LET ds == Padded(SizeOf(v.units), v.scale + 1)
    IN  [minus |-> v.units < 0, whole |-> SubSeq(ds, 1, Len(ds) - v.scale), fraction |-> SubSeq(ds, Len(ds) - v.scale + 1, Len(ds))]

subtract(a, b) ==
    LET scale == Longer(parse(a).scale, parse(b).scale)
    IN  format([units |-> rescale(parse(a), scale).units - rescale(parse(b), scale).units, scale |-> scale])
add(a, b) ==
    LET scale == Longer(parse(a).scale, parse(b).scale)
    IN  format([units |-> rescale(parse(a), scale).units + rescale(parse(b), scale).units, scale |-> scale])

canDistribute(pending) == ~pending.minus /\ parse(pending).units # 0

\* Whether the form takes the amount: plain digits, above zero, at most Ceiling.
validateAmount(amount) ==
    /\ amount # Malformed /\ ~amount.minus /\ amount.whole # <<>>
    /\ parse(amount).units > 0
    /\ parse(amount).units <= Ceiling * Base ^ parse(amount).scale
exceedsBalance(balance, amount) == validateAmount(amount) /\ subtract(balance, amount).minus

DecimalsInit == left \in Texts /\ right = Malformed
otherFigure == right = Malformed /\ right' \in Texts /\ UNCHANGED left
DecimalsNext == otherFigure
DecimalsSpec == DecimalsInit /\ [][DecimalsNext]_decimalVars

\* The value in units of the finest digit, by the meaning of a decimal text.
Worth(text) ==
    IF text = Malformed THEN 0
    ELSE (IF text.minus THEN -1 ELSE 1)
         * (Read(text.whole) * Base ^ MaxFraction + Read(text.fraction) * Base ^ (MaxFraction - Len(text.fraction)))

\* The text of a difference and of a sum is worth exactly that, whatever the
\* number of decimals on each side.
ArithmeticIsExact ==
    /\ Worth(subtract(left, right)) = Worth(left) - Worth(right)
    /\ Worth(add(left, right)) = Worth(left) + Worth(right)

\* Distribution is offered exactly when what was collected exceeds what was
\* distributed.
DistributesWhatIsOwed == canDistribute(subtract(left, right)) <=> Worth(left) > Worth(right)

\* A withdrawal the form takes is called too large exactly when it is above the
\* balance.
TooLargeIsTooLarge == validateAmount(right) => (exceedsBalance(left, right) <=> Worth(right) > Worth(left))

=============================================================================
