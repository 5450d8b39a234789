----------------------------- MODULE ListPages -----------------------------
(* The paged lists of the web app and their tables: the infinite queries of     *)
(* hooks/api (orders and trades by cursor; positions, transactions and markets  *)
(* by page number), the orders page's scroll sentinel, the pages of "My         *)
(* markets", and the sort of components/shared/data-table.tsx.  Rows are        *)
(* numbered as they are created and listed newest first, so a page is an        *)
(* interval hi..lo of them.                                                     *)
EXTENDS Integers, Sequences

CONSTANTS PageLen,       \* page_size
          MaxRows,       \* bound: rows of a list
          MaxRefetch,    \* bound: invalidations
          CellValues     \* cell values: sequences of digits, or Null

VARIABLES listName,      \* what this page shows: a list, "mine" or a table
          total,         \* rows on the server
          owedFrames,    \* frames of new rows still on the private socket
          loadedPages,   \* data.pages
          pageFetch,     \* [mode, got]: the fetch under way
          refetches,
          minePage, mineRows,          \* MyMarketsClient: page and its answer
          sortCol, sortDir, cells      \* useSort, and three cells it compares

listVars == <<listName, total, owedFrames, loadedPages, pageFetch, refetches,
              minePage, mineRows, sortCol, sortDir, cells>>

CursorLists == {"orders", "trades"}
PageLists == {"positions", "transactions", "markets"}
Null == <<>>

Interval(hi) == [hi |-> hi, lo |-> IF hi > PageLen THEN hi - PageLen + 1 ELSE 1]
LastOf(s) == s[Len(s)]
IdlePage == [mode |-> "none", got |-> <<>>]

\* The first page, and the page after `pages`: getNextPageParam and the server's
\* answer to it.  A cursor is the row below the last one listed; a page number
\* counts from whatever is newest when it is asked.
nextPage(pages) ==
  IF pages = <<>> THEN Interval(total)
  ELSE IF listName \in CursorLists THEN Interval(LastOf(pages).lo - 1)
  ELSE Interval(total - Len(pages) * PageLen)

\* has_more, or a full page for the transactions, which have no such field.
hasMore(pages) ==
  IF listName = "transactions" THEN LastOf(pages).hi - LastOf(pages).lo + 1 = PageLen
  ELSE LastOf(pages).lo > 1

ListInit ==
  /\ listName \in CursorLists \cup PageLists \cup {"mine", "table"}
  /\ total = PageLen + 1 /\ owedFrames = 0
  /\ loadedPages = <<Interval(total)>>
  /\ pageFetch = IdlePage /\ refetches = 0
  /\ minePage = 1 /\ mineRows = "read"
  /\ sortCol = 0 /\ sortDir = 0
  /\ cells \in [1..3 -> IF listName = "table" THEN CellValues ELSE {Null}]

-----------------------------------------------------------------------------
\* Server: a row is added and its frame sent.
rowAdded ==
  /\ listName # "table" /\ total < MaxRows
  /\ total' = total + 1 /\ owedFrames' = owedFrames + 1
  /\ UNCHANGED <<listName, loadedPages, pageFetch, refetches, minePage, mineRows,
                 sortCol, sortDir, cells>>

\* handleWsMessage of the page: the query is invalidated, and every page is
\* read again from the first; a fetch under way is given up.
listInvalidated ==
  /\ listName \in CursorLists \cup PageLists
  /\ owedFrames > 0 /\ refetches < MaxRefetch
  /\ owedFrames' = owedFrames - 1 /\ refetches' = refetches + 1
  /\ pageFetch' = [mode |-> "all", got |-> <<>>]
  /\ UNCHANGED <<listName, total, loadedPages, minePage, mineRows, sortCol,
                 sortDir, cells>>

\* The page offers more: the sentinel of the orders page, a button elsewhere.
\* The transactions page reads `hasMore` off the query, where it is undefined.
offersMore == listName \notin {"transactions", "mine", "table"} /\ hasMore(loadedPages)

\* fetchNextPage replaces a refetch under way (the query library's default).
fetchNextPage ==
  /\ offersMore /\ pageFetch.mode # "next"
  /\ pageFetch' = [mode |-> "next", got |-> <<>>]
  /\ UNCHANGED <<listName, total, owedFrames, loadedPages, refetches, minePage,
                 mineRows, sortCol, sortDir, cells>>

\* One page is read: the next one, or each page that was loaded, in order.
pageServed ==
  /\ \/ /\ pageFetch.mode = "next" /\ pageFetch.got = <<>>
        /\ pageFetch' = [pageFetch EXCEPT !.got = <<nextPage(loadedPages)>>]
     \/ /\ pageFetch.mode = "all" /\ Len(pageFetch.got) < Len(loadedPages)
        /\ pageFetch.got # <<>> => hasMore(pageFetch.got)
        /\ pageFetch' = [pageFetch EXCEPT !.got = Append(@, nextPage(pageFetch.got))]
  /\ UNCHANGED <<listName, total, owedFrames, loadedPages, refetches, minePage,
                 mineRows, sortCol, sortDir, cells>>

\* The fetch ends: a page appended, or all pages replaced.
listAnswered ==
  /\ \/ /\ pageFetch.mode = "next" /\ pageFetch.got # <<>>
        /\ loadedPages' = loadedPages \o pageFetch.got
     \/ /\ pageFetch.mode = "all" /\ pageFetch.got # <<>>
        /\ Len(pageFetch.got) = Len(loadedPages) \/ ~hasMore(pageFetch.got)
        /\ loadedPages' = pageFetch.got
  /\ pageFetch' = IdlePage
  /\ UNCHANGED <<listName, total, owedFrames, refetches, minePage, mineRows,
                 sortCol, sortDir, cells>>

-----------------------------------------------------------------------------
\* MyMarketsClient: Previous and Next set the page; its answer replaces the
\* rows, and a spinner replaces the buttons until it is there.
mineMore == total > minePage * PageLen

minePrevious ==
  /\ listName = "mine" /\ mineRows = "read" /\ minePage > 1
  /\ minePage' = minePage - 1 /\ mineRows' = "asked"
  /\ UNCHANGED <<listName, total, owedFrames, loadedPages, pageFetch, refetches,
                 sortCol, sortDir, cells>>

mineNext ==
  /\ listName = "mine" /\ mineRows = "read" /\ mineMore
  /\ minePage' = minePage + 1 /\ mineRows' = "asked"
  /\ UNCHANGED <<listName, total, owedFrames, loadedPages, pageFetch, refetches,
                 sortCol, sortDir, cells>>

mineAnswered ==
  /\ mineRows = "asked" /\ mineRows' = "read"
  /\ UNCHANGED <<listName, total, owedFrames, loadedPages, pageFetch, refetches,
                 minePage, sortCol, sortDir, cells>>

-----------------------------------------------------------------------------
\* useSort.  JavaScript compares strings by their characters.
LessText(a, b) ==
  \/ Len(a) < Len(b) /\ SubSeq(b, 1, Len(a)) = a
  \/ \E i \in DOMAIN a \cap DOMAIN b :
       a[i] < b[i] /\ \A j \in 1..i - 1 : a[j] = b[j]

\* The comparator of `sorted`; dir is 1 for ascending, -1 for descending.
compare(a, b, dir) ==
  IF a = Null /\ b = Null THEN 0
  ELSE IF a = Null THEN dir
  ELSE IF b = Null THEN -dir
  ELSE IF LessText(a, b) THEN -dir ELSE IF LessText(b, a) THEN dir ELSE 0

\* A header pressed: ascending, descending, unsorted; another column starts over.
handleSort(key) ==
  /\ listName = "table"
  /\ sortCol' = IF sortCol = key /\ sortDir = -1 THEN 0 ELSE key
  /\ sortDir' = IF sortCol # key THEN 1 ELSE IF sortDir = 1 THEN -1 ELSE 0
  /\ UNCHANGED <<listName, total, owedFrames, loadedPages, pageFetch, refetches,
                 minePage, mineRows, cells>>

ListNext ==
  \/ rowAdded \/ listInvalidated \/ fetchNextPage \/ pageServed \/ listAnswered
  \/ minePrevious \/ mineNext \/ mineAnswered
  \/ \E key \in 1..2 : handleSort(key)

\* Reads are answered, and the sentinel stays in view.
ListFairness ==
  /\ WF_listVars(fetchNextPage) /\ WF_listVars(pageServed) /\ WF_listVars(listAnswered)

ListSpec == ListInit /\ [][ListNext]_listVars /\ ListFairness

-----------------------------------------------------------------------------
ListTypeOK ==
  /\ total \in 0..MaxRows /\ owedFrames \in 0..MaxRows
  /\ \A i \in DOMAIN loadedPages : loadedPages[i].hi <= total
  /\ pageFetch.mode \in {"none", "next", "all"}
  /\ minePage \in 1..MaxRows /\ mineRows \in {"asked", "read"}
  /\ sortCol \in 0..2 /\ sortDir \in {-1, 0, 1}

\* A list paged by cursor shows each row once and misses none between its first
\* and its last, whatever is added while pages are fetched and fetched again.
CursorRowsWhole ==
  listName \in CursorLists =>
    \A i \in 1..Len(loadedPages) - 1 : loadedPages[i + 1].hi = loadedPages[i].lo - 1

\* Refuted: a list paged by number shows each row once.
NumberedRowsDistinct ==
  \A i \in 1..Len(loadedPages) - 1 : loadedPages[i + 1].hi < loadedPages[i].lo

\* The orders page, its sentinel in view, comes to its oldest order.
OldestIsReached == (listName = "orders") ~> (LastOf(loadedPages).lo = 1)

\* Refuted: once every frame has been handled and nothing is being fetched,
\* the newest row is listed.
NewestIsListed ==
  owedFrames = 0 /\ pageFetch.mode = "none" => loadedPages[1].hi = total

\* Refuted: every transaction can be brought on screen.
TransactionsReachable ==
  listName = "transactions" /\ LastOf(loadedPages).lo > 1 => offersMore

\* "My markets" never shows a page past the last one.
MinePageHasRows == (minePage - 1) * PageLen < total

\* The comparator is an order Array.sort may be given: opposite for swapped
\* arguments, transitive, and descending the reverse of ascending, missing
\* cells included.
CompareIsOrder ==
  listName = "table" => \A dir \in {1, -1} : \A i, j, k \in 1..3 :
    LET c(x, y) == compare(cells[x], cells[y], dir) IN
    /\ c(i, j) = -c(j, i)
    /\ c(i, j) <= 0 /\ c(j, k) <= 0 => c(i, k) <= 0
    /\ c(i, j) = -compare(cells[i], cells[j], -dir)

\* Refuted: numeric cells are sorted by their value.
NumberOf(a) == IF Len(a) = 2 THEN 10 * a[1] + a[2] ELSE a[1]
SortsByAmount ==
  \A i, j \in 1..3 : cells[i] # Null /\ cells[j] # Null /\ NumberOf(cells[i]) < NumberOf(cells[j])
                       => compare(cells[i], cells[j], 1) = -1
=============================================================================
