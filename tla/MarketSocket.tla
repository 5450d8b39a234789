--------------------------- MODULE MarketSocket ---------------------------
(***************************************************************************)
(* The tab-wide market WebSocket (apps/web/hooks/use-market-socket.tsx)    *)
(* with the server it talks to and the query cache it keeps current.       *)
(* Every frame of a market carries the market's next sequence number.      *)
(*                                                                         *)
(* Abstracted: frames carry their number and no prices; delays, so a timer *)
(* that is armed may fire at any later moment; `retries`, which only sets  *)
(* the reconnect delay; the market named by the URL, which the server      *)
(* subscribes as well and whose frames the client drops without a handler. *)
(***************************************************************************)
EXTENDS Naturals, Sequences, FiniteSets

CONSTANTS
  Markets,
  Consumers,    \* mounted components, each following one market
  MarketOf,     \* the market each consumer follows
  FrameCount,   \* how many frames are published per market
  MaxSocketFaults, \* lost frames, dropped or refused connections
  MaxOld,       \* superseded sockets still closing
  MaxMoves      \* times the user mounts, leaves, hides or restores something

ASSUME SocketAssumption == MarketOf \in [Consumers -> Markets]

VARIABLES
  conn,         \* the SharedConnection singleton
  chain,        \* markets with a wsSubscribe queued on their promise chain
  old,          \* sockets closed on purpose whose close event is outstanding
  page,         \* what React has mounted: consumers and the grid
  srv,          \* the server's end of the current socket
  pubSeq,       \* last sequence number stamped per market
  wire,         \* frames on their way to the client, in order
  refetch,      \* markets whose REST reread is asked for and not yet served
  missed,       \* frames published past the baseline, neither delivered nor reread
  socketFaults,
  moves

socketVars == <<conn, chain, old, page, srv, pubSeq, wire, refetch,
                missed, socketFaults, moves>>

Disconnected == [asked |-> {}, subs |-> {}, grid |-> FALSE]

Following(k) == {m \in Markets : k.subs[m] # {}}

(* Bounds what the user does. *)
Move == moves < MaxMoves /\ moves' = moves + 1

(* The socket is gone with the frames it was still carrying. *)
LoseWire(k) ==
  [m \in Markets |->
     missed[m] \cup {wire[i].seq : i \in {j \in DOMAIN wire :
                       /\ wire[j].type = "frame" /\ wire[j].market = m
                       /\ k.lastSeq[m] # 0 /\ wire[j].seq > k.lastSeq[m]}}]

-----------------------------------------------------------------------------
(* Connecting *)

connect(k) ==
  IF k.ws # "none" THEN k
  ELSE [k EXCEPT !.ws = "connecting", !.reconnect = FALSE, !.closeTimer = FALSE,
                 !.status = "connecting"]

(* Mutant: only what is pending is sent, not what the last socket had. *)
OnOpenNoReplay ==
  /\ conn.ws = "connecting"
  /\ LET pending == {m \in Following(conn) : m \notin conn.sent \cup conn.serverSubs}
     IN /\ conn' = [conn EXCEPT !.ws = "open", !.status = "connected", !.everConnected = TRUE,
                                !.sent = @ \cup pending, !.serverSubs = @ \cup pending]
        /\ srv' = [asked |-> pending, subs |-> {}, grid |-> conn.declaredGrid]
  /\ refetch' = refetch \cup IF conn.everConnected THEN Following(conn) ELSE {}
  /\ UNCHANGED <<chain, old, page, pubSeq, wire, missed, socketFaults, moves>>

(* onopen: replay what the last socket was subscribed to, declare the      *)
(* grid, send what is pending, and announce a reconnect to every market.   *)
OnOpen ==
  /\ conn.ws = "connecting"
  /\ LET pending == {m \in Following(conn) : m \notin conn.sent \cup conn.serverSubs}
         all     == conn.serverSubs \cup pending
     IN /\ conn' = [conn EXCEPT !.ws = "open", !.status = "connected", !.everConnected = TRUE,
                                !.sent = @ \cup pending, !.serverSubs = all]
        /\ srv' = [asked |-> all, subs |-> {}, grid |-> conn.declaredGrid]
  /\ refetch' = refetch \cup IF conn.everConnected THEN Following(conn) ELSE {}
  /\ UNCHANGED <<chain, old, page, pubSeq, wire, missed, socketFaults, moves>>

(* onerror: report it and close; the close event follows. *)
OnError ==
  /\ conn.ws \in {"connecting", "open"} /\ socketFaults < MaxSocketFaults
  /\ conn' = [conn EXCEPT !.ws = "closing", !.status = "error"]
  /\ srv' = Disconnected /\ wire' = <<>> /\ missed' = LoseWire(conn)
  /\ socketFaults' = socketFaults + 1
  /\ UNCHANGED <<chain, old, page, pubSeq, refetch, moves>>

(* onclose of the tracked socket: always arm the reconnect timer. *)
OnClose ==
  /\ \/ conn.ws = "closing" /\ UNCHANGED socketFaults
     \/ conn.ws \in {"connecting", "open"} /\ socketFaults < MaxSocketFaults /\ socketFaults' = socketFaults + 1
  /\ conn' = [conn EXCEPT !.ws = "none", !.status = "disconnected", !.reconnect = TRUE]
  /\ srv' = Disconnected /\ wire' = <<>> /\ missed' = LoseWire(conn)
  /\ UNCHANGED <<chain, old, page, pubSeq, refetch, moves>>

(* onclose of a socket that was replaced or dropped on purpose: no effect. *)
OnSupersededClose ==
  /\ old > 0 /\ old' = old - 1
  /\ UNCHANGED <<conn, chain, page, srv, pubSeq, wire, refetch, missed, socketFaults, moves>>

ReconnectTimer ==
  /\ conn.reconnect
  /\ conn' = connect([conn EXCEPT !.reconnect = FALSE])
  /\ UNCHANGED <<chain, old, page, srv, pubSeq, wire, refetch, missed, socketFaults, moves>>

(* recover: reconnect at once, unless the socket is alive or still closing *)
(* or nothing is subscribed.                                               *)
recovered(k) ==
  IF Following(k) = {} \/ k.ws # "none" THEN k
  ELSE connect([k EXCEPT !.reconnect = FALSE])

Online ==
  /\ page.shown
  /\ recovered(conn) # conn
  /\ conn' = recovered(conn)
  /\ Move
  /\ UNCHANGED <<chain, old, page, srv, pubSeq, wire, refetch, missed, socketFaults>>

(* visibilitychange back to visible: recover, and resync every market if   *)
(* the tab was hidden for RESYNC_AFTER_HIDDEN_MS.                          *)
OnVisible ==
  /\ page.shown
  /\ \E away \in BOOLEAN : refetch' = refetch \cup IF away THEN Following(conn) ELSE {}
  /\ conn' = recovered(conn)
  /\ Move
  /\ UNCHANGED <<chain, old, page, srv, pubSeq, wire, missed, socketFaults>>

-----------------------------------------------------------------------------
(* Subscribing *)

(* subscribe: register the handler, then connect or queue the subscribe.   *)
(* Mounting reads the market over REST unless the cached row is fresh.     *)
Subscribe(x) ==
  LET m == MarketOf[x]
      k == [conn EXCEPT !.subs[m] = @ \cup {x},
                        !.sent = IF conn.subs[m] = {} THEN @ \ {m} ELSE @]
  IN /\ page.shown /\ x \notin page.mounted
     /\ page' = [page EXCEPT !.mounted = @ \cup {x}]
     /\ conn' = connect(k)
     /\ chain' = IF conn.ws = "none" THEN chain ELSE chain \cup {m}
     /\ refetch' \in {refetch, refetch \cup {m}}
     /\ Move
     /\ UNCHANGED <<old, srv, pubSeq, wire, missed, socketFaults>>

(* wsSubscribe, when its turn on the market's promise chain comes. *)
wsSubscribe(m) ==
  /\ m \in chain /\ chain' = chain \ {m}
  /\ IF conn.subs[m] = {} \/ m \in conn.sent THEN UNCHANGED <<conn, srv>>
     ELSE /\ conn' = [conn EXCEPT !.sent = @ \cup {m}, !.serverSubs = @ \cup {m}]
          /\ srv' = IF conn.ws = "open" THEN [srv EXCEPT !.asked = @ \cup {m}] ELSE srv
  /\ UNCHANGED <<old, page, pubSeq, wire, refetch, missed, socketFaults, moves>>

(* The function subscribe returned.  The last handler of a market takes    *)
(* its baseline and wire subscription along; the last market arms the      *)
(* deferred close.                                                         *)
Unsubscribe(x) ==
  LET m    == MarketOf[x]
      left == conn.subs[m] \ {x}
      k    == [conn EXCEPT !.subs[m] = left]
  IN /\ page.shown /\ x \in page.mounted
     /\ page' = [page EXCEPT !.mounted = @ \ {x}]
     /\ IF conn.subs[m] = {} \/ left # {}
        THEN conn' = k /\ UNCHANGED <<srv, missed>>
        ELSE /\ conn' = [k EXCEPT !.lastSeq[m] = 0, !.serverSubs = @ \ {m},
                                  !.closeTimer = @ \/ Following(k) = {}]
             /\ srv' = IF conn.ws = "open" /\ m \in conn.serverSubs
                       THEN [srv EXCEPT !.asked = @ \ {m}] ELSE srv
             /\ missed' = [missed EXCEPT ![m] = {}]
     /\ Move
     /\ UNCHANGED <<chain, old, pubSeq, wire, refetch, socketFaults>>

(* Mutant: the deferred close does not look who came back. *)
CloseTimerBlind ==
  /\ conn.closeTimer /\ (conn.ws # "none" => old < MaxOld)
  /\ conn' = [conn EXCEPT !.closeTimer = FALSE, !.reconnect = FALSE, !.ws = "none",
                          !.status = "disconnected"]
  /\ old' = IF conn.ws = "none" THEN old ELSE old + 1
  /\ srv' = Disconnected /\ wire' = <<>>
  /\ UNCHANGED <<chain, page, pubSeq, refetch, missed, socketFaults, moves>>

(* The deferred close: nothing subscribed, so drop the socket and park. *)
CloseTimer ==
  /\ conn.closeTimer
  /\ IF Following(conn) # {}
     THEN conn' = [conn EXCEPT !.closeTimer = FALSE] /\ UNCHANGED <<old, srv, wire>>
     ELSE /\ conn.ws # "none" => old < MaxOld
          /\ conn' = [conn EXCEPT !.closeTimer = FALSE, !.reconnect = FALSE, !.ws = "none",
                                  !.status = "disconnected"]
          /\ old' = IF conn.ws = "none" THEN old ELSE old + 1
          /\ srv' = Disconnected /\ wire' = <<>>
  /\ UNCHANGED <<chain, page, pubSeq, refetch, missed, socketFaults, moves>>

(* sendGrid, from useMarketGrid's effect whenever the visible set changes. *)
sendGrid(rows) ==
  /\ page.shown /\ page.grid # rows
  /\ page' = [page EXCEPT !.grid = rows]
  /\ conn' = [connect(conn) EXCEPT !.declaredGrid = (rows = "rows")]
  /\ srv' = IF conn.ws = "open" THEN [srv EXCEPT !.grid = (rows = "rows")] ELSE srv
  /\ Move
  /\ UNCHANGED <<chain, old, pubSeq, wire, refetch, missed, socketFaults>>

(* The grid unmounts: its handler goes, its declaration stays. *)
LeaveGrid ==
  /\ page.shown /\ page.grid # "off"
  /\ page' = [page EXCEPT !.grid = "off"]
  /\ Move
  /\ UNCHANGED <<conn, chain, old, srv, pubSeq, wire, refetch, missed, socketFaults>>

(* teardownSocket on pagehide: the connection forgets everything but its   *)
(* status, while the components stay mounted for the back/forward cache.   *)
Teardown ==
  /\ page.shown /\ (conn.ws # "none" => old < MaxOld)
  /\ page' = [page EXCEPT !.shown = FALSE]
  /\ conn' = [conn EXCEPT !.ws = "none", !.reconnect = FALSE, !.closeTimer = FALSE,
                          !.subs = [m \in Markets |-> {}], !.serverSubs = {}, !.sent = {},
                          !.lastSeq = [m \in Markets |-> 0], !.everConnected = FALSE,
                          !.declaredGrid = FALSE]
  /\ old' = IF conn.ws = "none" THEN old ELSE old + 1
  /\ srv' = Disconnected /\ wire' = <<>> /\ missed' = [m \in Markets |-> {}]
  /\ Move
  /\ UNCHANGED <<chain, pubSeq, refetch, socketFaults>>

(* The browser restores the page as it was. *)
Restore ==
  /\ ~page.shown
  /\ page' = [page EXCEPT !.shown = TRUE]
  /\ UNCHANGED <<conn, chain, old, srv, pubSeq, wire, refetch, missed, socketFaults, moves>>

-----------------------------------------------------------------------------
(* Receiving *)

(* Mutant: a single lost frame is not a gap. *)
isGapLate(prev, seq) == prev # 0 /\ seq > prev + 2

(* checkForGap: the new baseline, and whether frames were provably lost. *)
baseline(prev, seq) == IF seq > prev THEN seq ELSE prev
isGap(prev, seq) == prev # 0 /\ seq > prev + 1

(* onmessage for a market frame: check for a gap, then deliver. *)
OnFrame ==
  /\ wire # <<>> /\ Head(wire).type = "frame"
  /\ wire' = Tail(wire)
  /\ LET m == Head(wire).market
         s == Head(wire).seq
     IN IF conn.subs[m] = {} THEN UNCHANGED <<conn, refetch>>
        ELSE /\ conn' = [conn EXCEPT !.lastSeq[m] = baseline(@, s)]
             /\ refetch' = refetch \cup IF isGap(conn.lastSeq[m], s) THEN {m} ELSE {}
  /\ UNCHANGED <<chain, old, page, srv, pubSeq, missed, socketFaults, moves>>

(* reconcileAgainstBeacon: markets with a baseline behind the server's. *)
behind(at) == {m \in DOMAIN at : conn.lastSeq[m] # 0 /\ at[m] > conn.lastSeq[m]}

(* onmessage for a heartbeat: reconcile if it carries serverSeq. *)
OnPing ==
  /\ wire # <<>> /\ Head(wire).type = "ping"
  /\ wire' = Tail(wire)
  /\ IF "serverSeq" \in DOMAIN Head(wire)
     THEN LET at == Head(wire).serverSeq
          IN /\ conn' = [conn EXCEPT !.lastSeq =
                           [m \in Markets |-> IF m \in behind(at) THEN at[m] ELSE @[m]]]
             /\ refetch' = refetch \cup behind(at)
     ELSE UNCHANGED <<conn, refetch>>
  /\ UNCHANGED <<chain, old, page, srv, pubSeq, missed, socketFaults, moves>>

-----------------------------------------------------------------------------
(* The server and REST (external) *)

(* A frame is stamped and fanned out, or lost between Redis and the tab. *)
Publish(m) ==
  /\ pubSeq[m] < FrameCount[m] /\ conn.subs[m] # {}
  /\ pubSeq' = [pubSeq EXCEPT ![m] = @ + 1]
  /\ LET s    == pubSeq[m] + 1
         gone == missed' = [missed EXCEPT ![m] = IF conn.lastSeq[m] # 0 THEN @ \cup {s} ELSE @]
     IN \/ /\ conn.ws = "open" /\ m \in srv.subs
           /\ wire' = Append(wire, [type |-> "frame", market |-> m, seq |-> s])
           /\ UNCHANGED <<missed, socketFaults>>
        \/ /\ conn.ws = "open" /\ m \in srv.subs /\ socketFaults < MaxSocketFaults
           /\ gone /\ socketFaults' = socketFaults + 1 /\ UNCHANGED wire
        \/ /\ conn.ws # "open" \/ m \notin srv.subs
           /\ gone /\ UNCHANGED <<wire, socketFaults>>
  /\ UNCHANGED <<conn, chain, old, page, srv, refetch, moves>>

(* The server works through the subscribe and unsubscribe messages. *)
Apply ==
  /\ srv.subs # srv.asked
  /\ srv' = [srv EXCEPT !.subs = srv.asked]
  /\ UNCHANGED <<conn, chain, old, page, pubSeq, wire, refetch, missed, socketFaults, moves>>

(* The heartbeat sweep: a ping with the position of each subscribed market, *)
(* in the field manager.py names `seq`.                                    *)
Ping ==
  /\ conn.ws = "open" /\ \A i \in DOMAIN wire : wire[i].type # "ping"
  /\ \E m \in srv.subs : conn.lastSeq[m] < pubSeq[m]
  /\ wire' = Append(wire, [type |-> "ping", seq |-> [m \in srv.subs |-> pubSeq[m]]])
  /\ UNCHANGED <<conn, chain, old, page, srv, pubSeq, refetch, missed, socketFaults, moves>>

(* The database answers a reread with everything committed so far. *)
ServeRead(m) ==
  /\ m \in refetch /\ refetch' = refetch \ {m}
  /\ missed' = [missed EXCEPT ![m] = {}]
  /\ UNCHANGED <<conn, chain, old, page, srv, pubSeq, wire, socketFaults, moves>>

-----------------------------------------------------------------------------
SocketInit ==
  /\ conn = [ws |-> "none", status |-> "disconnected", subs |-> [m \in Markets |-> {}],
             sent |-> {}, serverSubs |-> {}, reconnect |-> FALSE, closeTimer |-> FALSE,
             lastSeq |-> [m \in Markets |-> 0], everConnected |-> FALSE,
             declaredGrid |-> FALSE]
  /\ chain = {} /\ old = 0
  /\ page = [mounted |-> {}, grid |-> "off", shown |-> TRUE]
  /\ srv = Disconnected
  /\ pubSeq = [m \in Markets |-> 0]
  /\ wire = <<>>
  /\ refetch = {}
  /\ missed = [m \in Markets |-> {}]
  /\ socketFaults = 0 /\ moves = 0

SocketNext ==
  \/ OnOpen \/ OnError \/ OnClose \/ OnSupersededClose \/ ReconnectTimer \/ CloseTimer
  \/ Online \/ OnVisible \/ LeaveGrid \/ Teardown \/ Restore
  \/ \E x \in Consumers : Subscribe(x) \/ Unsubscribe(x)
  \/ \E rows \in {"rows", "empty"} : sendGrid(rows)
  \/ OnFrame \/ OnPing \/ Apply \/ Ping
  \/ \E m \in Markets : wsSubscribe(m) \/ Publish(m) \/ ServeRead(m)

SocketSpec == SocketInit /\ [][SocketNext]_socketVars

-----------------------------------------------------------------------------
(* Properties *)

SocketTypeOK ==
  /\ conn \in [ws : {"none", "connecting", "open", "closing"},
               status : {"connecting", "connected", "disconnected", "error"},
               subs : [Markets -> SUBSET Consumers], sent : SUBSET Markets,
               serverSubs : SUBSET Markets, reconnect : BOOLEAN, closeTimer : BOOLEAN,
               lastSeq : [Markets -> Nat], everConnected : BOOLEAN,
               declaredGrid : BOOLEAN]
  /\ chain \subseteq Markets /\ old \in 0..MaxOld
  /\ page \in [mounted : SUBSET Consumers, grid : {"off", "rows", "empty"}, shown : BOOLEAN]
  /\ srv \in [asked : SUBSET Markets, subs : SUBSET Markets, grid : BOOLEAN]
  /\ pubSeq \in [Markets -> Nat]
  /\ refetch \subseteq Markets /\ missed \in [Markets -> SUBSET Nat]
  /\ socketFaults \in 0..MaxSocketFaults /\ moves \in 0..MaxMoves

(* A frame lost after the baseline was set is never stepped over in        *)
(* silence: the baseline is still below it, so the next frame or heartbeat *)
(* exposes it, or a reread that will show it has been asked for.           *)
(* (checkForGap, reconcileAgainstBeacon and the resync in onopen)          *)
NoLossPassedOver ==
  \A m \in Markets : \A s \in missed[m] : s > conn.lastSeq[m] \/ m \in refetch

(* Whatever subscribes and unsubscribes raced the connection, an open      *)
(* socket has been asked for exactly the followed markets, up to those     *)
(* whose subscribe is still queued.  (onopen's replay, wsSubscribe)        *)
OpenSocketAskedForAll ==
  conn.ws = "open" =>
    /\ srv.asked = conn.serverSubs
    /\ Following(conn) \subseteq srv.asked \cup chain
    /\ srv.asked \subseteq Following(conn)

(* A followed market is never left without a socket or a way back to one.  *)
(* (onclose always arms the timer; the deferred close only parks an empty  *)
(* registry)                                                               *)
NeverParkedWhileFollowed ==
  Following(conn) # {} => conn.ws # "none" \/ conn.reconnect

(* Refuted: once faults stop, what a followed market lost is reread or the market   *)
(* is left, even if it never trades again.                                 *)
LossRepaired ==
  \A m \in Markets : missed[m] # {} ~> missed[m] = {}

(* Once faults stop, the server ends up serving every market the tab       *)
(* follows.                                                                *)
FollowedGetsServed ==
  \A m \in Markets : conn.subs[m] # {} ~> m \in srv.subs \/ conn.subs[m] = {}

(* Refuted: a restored page's components are still registered with the     *)
(* connection (teardownSocket: clearing `subs` "would strand every mounted *)
(* consumer").                                                             *)
MountedIsFollowed ==
  page.shown => \A x \in page.mounted : x \in conn.subs[MarketOf[x]]

(* Refuted: a grid with rows on screen gets its declaration to the server.          *)
(* (sendGrid: without a socket the page would be "quietly, permanently     *)
(* static")                                                                *)
GridGetsServed == page.grid = "rows" ~> srv.grid \/ page.grid # "rows"
=============================================================================
