------------------------------ MODULE Session ------------------------------
(***************************************************************************)
(* The session of one browser: the transport's session memory              *)
(* (packages/api-client/src/client.ts), one copy per tab; the proxies that *)
(* validate and rotate cookies on a page load (session.ts and proxy.ts)     *)
(* and the sign-in wrappers (apps/web/lib/api/auth.ts).  All of them       *)
(* present the same refresh cookie.                                        *)
(* Abstracted: a token is a number; bodies, headers and messages.  A tick  *)
(* is 30 s, the refresh cooldown and the reuse grace of the server; an     *)
(* answer takes less.  External: the /auth endpoints.                      *)
(***************************************************************************)
EXTENDS Naturals, FiniteSets

CONSTANTS
  Tabs, Calls,      \* data calls a tab may have under way
  MaxTokens, MaxTicks, MaxExpiries, MaxUnclear, MaxLoads, MaxSends

VARIABLES
  jar,          \* the shared cookies: is the access token good, which refresh token
  tokens,       \* external: each issued refresh token, and when it was revoked
  clock, expiries, unclear, loads, sends,
  tab,          \* per tab: sessionState, refreshPromise, refreshBlockedUntil, page
  call,         \* per tab and call: idle, sent, waiting for the rotation, replayed
  proxyLoad,    \* per tab: the page load its proxy is deciding
  deadEnds,     \* refreshes refused since the tab last learned of a session
  answerLost    \* the server rotated the cookie and the browser never heard of it

sessionVars == <<jar, tokens, clock, expiries, unclear, loads, sends, tab, call, proxyLoad, deadEnds, answerLost>>
bounds == <<clock, expiries, unclear, loads, sends, answerLost>>

NoToken    == 0
NoRefresh  == [state |-> "none", token |-> NoToken]
AllCalls   == Calls \cup {"me"}
FreshTab(page) == [session |-> "unknown", refresh |-> NoRefresh, blockedUntil |-> 0, page |-> page]

-----------------------------------------------------------------------------
(* External: POST /auth/refresh.  A live token is rotated; a revoked one   *)
(* is a duplicate within the grace, and otherwise ends the whole chain.    *)
Issued      == {k \in DOMAIN tokens : tokens[k].state # "unused"}
nextToken   == Cardinality(Issued) + 1
withinGrace(k) == clock <= tokens[k].revokedAt
Accepts(k)  == /\ k # NoToken
               /\ \/ tokens[k].state = "live"
                  \/ tokens[k].state = "revoked" /\ withinGrace(k)

rotated(k) ==
  [tokens EXCEPT ![k] = [state |-> "revoked", revokedAt |-> clock],
                 ![nextToken] = [state |-> "live", revokedAt |-> 0]]

chainRevoked(k) ==
  [j \in DOMAIN tokens |->
     IF k # NoToken /\ tokens[k].state = "revoked" /\ tokens[j].state # "unused"
     THEN [state |-> "ended", revokedAt |-> 0] ELSE tokens[j]]

(* What a refresh that presents token k comes back with: a new token, a    *)
(* verdict, or nothing that proves anything, because the server failed or  *)
(* because its answer was lost on the way.                                 *)
Answers == [state : {"ok", "refused", "unclear"}, token : 0..MaxTokens]

Refreshes(k, answer) ==
  \/ /\ Accepts(k) /\ nextToken \in DOMAIN tokens /\ tokens' = rotated(k)
     /\ \/ /\ answer = [state |-> "ok", token |-> nextToken]
           /\ UNCHANGED <<unclear, answerLost>>
        \/ /\ unclear < MaxUnclear /\ unclear' = unclear + 1 /\ answerLost' = TRUE
           /\ answer = [state |-> "unclear", token |-> NoToken]
  \/ /\ ~Accepts(k) /\ tokens' = chainRevoked(k)
     /\ answer = [state |-> "refused", token |-> NoToken] /\ UNCHANGED <<unclear, answerLost>>
  \/ /\ unclear < MaxUnclear /\ unclear' = unclear + 1 /\ UNCHANGED <<tokens, answerLost>>
     /\ answer = [state |-> "unclear", token |-> NoToken]

-----------------------------------------------------------------------------
markSessionActive(r) == [r EXCEPT !.session = "active", !.blockedUntil = 0]
markSessionEnded(r)  == [r EXCEPT !.session = "none", !.blockedUntil = 0]

refreshSuppressed(r) == r.session = "none" \/ clock < r.blockedUntil

(* shouldRedirectToLogin: public pages and the login page stay. *)
redirectToLogin(r) == [r EXCEPT !.page = IF r.page = "private" THEN "login" ELSE r.page]

(* request: the first attempt goes out. *)
request(t, c) ==
  /\ call[t][c] = "idle" /\ proxyLoad[t].state = "none"
  /\ sends < MaxSends /\ sends' = sends + 1
  /\ call' = [call EXCEPT ![t][c] = "sent"]
  /\ UNCHANGED <<jar, tokens, clock, expiries, unclear, loads, answerLost, tab, proxyLoad, deadEnds>>

answered200(t, c) ==
  /\ call[t][c] \in {"sent", "replayed"} /\ jar.access = "good"
  /\ call' = [call EXCEPT ![t][c] = "idle"]
  /\ tab' = IF c = "me" THEN [tab EXCEPT ![t] = markSessionActive(@)] ELSE tab
  /\ deadEnds' = IF c = "me" THEN [deadEnds EXCEPT ![t] = 0] ELSE deadEnds
  /\ UNCHANGED <<jar, tokens, bounds, proxyLoad>>

(* The session probe answered: its 401 settles the question. *)
probe401(t) ==
  /\ call[t]["me"] = "sent" /\ jar.access # "good"
  /\ call' = [call EXCEPT ![t]["me"] = "idle"]
  /\ tab' = [tab EXCEPT ![t] = markSessionEnded(@)]
  /\ UNCHANGED <<jar, tokens, bounds, proxyLoad, deadEnds>>

(* A data call's 401: give up where a refresh is known to be useless, or   *)
(* join the one refresh under way, starting it if there is none.           *)
startOrJoin(r) ==
  IF r.refresh.state = "none" THEN [r EXCEPT !.refresh = [state |-> "sent", token |-> jar.refresh]]
  ELSE r

data401(t, c) ==
  /\ c \in Calls /\ call[t][c] = "sent" /\ jar.access # "good"
  /\ IF refreshSuppressed(tab[t])
     THEN call' = [call EXCEPT ![t][c] = "idle"] /\ UNCHANGED tab
     ELSE /\ call' = [call EXCEPT ![t][c] = "waiting"]
          /\ tab' = [tab EXCEPT ![t] = startOrJoin(@)]
  /\ UNCHANGED <<jar, tokens, bounds, proxyLoad, deadEnds>>

(* The replay is answered 401 as well: the error is the caller's. *)
replay401(t, c) ==
  /\ call[t][c] = "replayed" /\ jar.access # "good"
  /\ call' = [call EXCEPT ![t][c] = "idle"]
  /\ UNCHANGED <<jar, tokens, bounds, tab, proxyLoad, deadEnds>>

refreshServed(t) ==
  /\ tab[t].refresh.state = "sent"
  /\ \E a \in Answers :
       /\ Refreshes(tab[t].refresh.token, a)
       /\ tab' = [tab EXCEPT ![t].refresh = a]
  /\ UNCHANGED <<jar, clock, expiries, loads, sends, call, proxyLoad, deadEnds>>

(* doRefresh returns: Set-Cookie has landed, everyone who waited replays;  *)
(* or gives up and is sent to the login page.                              *)
refreshed(t, r) ==
  CASE r.refresh.state = "ok"      -> markSessionActive([r EXCEPT !.refresh = NoRefresh])
    [] r.refresh.state = "refused" -> redirectToLogin(markSessionEnded([r EXCEPT !.refresh = NoRefresh]))
    [] OTHER -> redirectToLogin([r EXCEPT !.refresh = NoRefresh, !.blockedUntil = clock + 1])

doRefresh(t) ==
  LET a == tab[t].refresh
  IN /\ a.state \in {"ok", "refused", "unclear"}
     /\ jar' = IF a.state = "ok" THEN [access |-> "good", refresh |-> a.token] ELSE jar
     /\ tab' = [tab EXCEPT ![t] = refreshed(t, @)]
     /\ call' = [call EXCEPT ![t] = [c \in AllCalls |->
                   IF @[c] # "waiting" THEN @[c] ELSE IF a.state = "ok" THEN "replayed" ELSE "idle"]]
     /\ deadEnds' = [deadEnds EXCEPT ![t] = CASE a.state = "ok" -> 0
                                              [] a.state = "refused" -> @ + 1
                                              [] OTHER -> @]
     /\ UNCHANGED <<tokens, bounds, proxyLoad>>

-----------------------------------------------------------------------------
(* A page load reaches the proxy with the cookies of that moment; the old  *)
(* page and its memory are gone.  validateSessionCookies asks /auth/me     *)
(* and, when that is not good, rotates and asks again.                     *)
NoLoad == [state |-> "none", token |-> NoToken, user |-> FALSE]

proxy(t, page) ==
  /\ loads < MaxLoads /\ loads' = loads + 1
  /\ proxyLoad[t].state = "none"
  /\ tab' = [tab EXCEPT ![t] = FreshTab(page)]
  /\ call' = [call EXCEPT ![t] = [c \in AllCalls |-> "idle"]]
  /\ deadEnds' = [deadEnds EXCEPT ![t] = 0]
  /\ proxyLoad' = [proxyLoad EXCEPT ![t] =
       IF page = "public" THEN NoLoad
       ELSE IF jar.access = "good" THEN [state |-> "done", token |-> NoToken, user |-> TRUE]
       ELSE IF jar.refresh = NoToken THEN [state |-> "done", token |-> NoToken, user |-> FALSE]
       ELSE [state |-> "rotating", token |-> jar.refresh, user |-> FALSE]]
  /\ answerLost' = (answerLost \/ tab[t].refresh.state = "ok")
  /\ UNCHANGED <<jar, tokens, clock, expiries, unclear, sends>>

validateSessionCookies(t) ==
  /\ proxyLoad[t].state = "rotating"
  /\ \E a \in Answers :
       /\ Refreshes(proxyLoad[t].token, a)
       /\ proxyLoad' = [proxyLoad EXCEPT ![t] =
            [state |-> "done", token |-> a.token, user |-> a.state = "ok"]]
  /\ UNCHANGED <<jar, clock, expiries, loads, sends, tab, call, deadEnds>>

(* Mutant: the Set-Cookie headers are not replayed onto the response. *)
proxyAnswersBare(t) ==
  /\ proxyLoad[t].state = "done"
  /\ tab' = [tab EXCEPT ![t].page = IF proxyLoad[t].user THEN "private" ELSE "login"]
  /\ proxyLoad' = [proxyLoad EXCEPT ![t] = NoLoad]
  /\ UNCHANGED <<jar, tokens, bounds, call, deadEnds>>

(* The response, with every Set-Cookie replayed onto it: the page, or the  *)
(* login page; a signed-in visitor of the login page goes on.              *)
proxyAnswers(t) ==
  LET l == proxyLoad[t]
  IN /\ l.state = "done"
     /\ jar' = IF l.token # NoToken THEN [access |-> "good", refresh |-> l.token] ELSE jar
     /\ tab' = [tab EXCEPT ![t].page = IF l.user THEN "private" ELSE "login"]
     /\ proxyLoad' = [proxyLoad EXCEPT ![t] = NoLoad]
     /\ UNCHANGED <<tokens, bounds, call, deadEnds>>

(* signedIn: a credential call succeeded and set both cookies. *)
signIn(t) ==
  /\ nextToken \in DOMAIN tokens /\ tab[t].page = "login" /\ proxyLoad[t].state = "none"
  /\ jar' = [access |-> "good", refresh |-> nextToken]
  /\ tokens' = [tokens EXCEPT ![nextToken] = [state |-> "live", revokedAt |-> 0]]
  /\ tab' = [tab EXCEPT ![t] = markSessionActive([@ EXCEPT !.page = "private"])]
  /\ deadEnds' = [deadEnds EXCEPT ![t] = 0]
  /\ UNCHANGED <<bounds, call, proxyLoad>>

(* logout: the local session is over whether or not the server confirmed.  *)
logout(t) ==
  /\ tab[t].page = "private" /\ proxyLoad[t].state = "none"
  /\ jar' = [access |-> "none", refresh |-> NoToken]
  /\ tokens' = [k \in DOMAIN tokens |->
                  IF k = jar.refresh THEN [state |-> "ended", revokedAt |-> 0] ELSE tokens[k]]
  /\ tab' = [tab EXCEPT ![t] = markSessionEnded([@ EXCEPT !.page = "public"])]
  /\ UNCHANGED <<bounds, call, proxyLoad, deadEnds>>

accessExpires ==
  /\ jar.access = "good" /\ expiries < MaxExpiries
  /\ jar' = [jar EXCEPT !.access = "expired"] /\ expiries' = expiries + 1
  /\ UNCHANGED <<tokens, clock, unclear, loads, sends, answerLost, tab, call, proxyLoad, deadEnds>>

(* 30 s pass; no answer takes that long. *)
Answered == \A t \in Tabs : tab[t].refresh.state = "none" /\ proxyLoad[t].state = "none"

tick ==
  /\ clock < MaxTicks /\ Answered /\ clock' = clock + 1
  /\ UNCHANGED <<jar, tokens, expiries, unclear, loads, sends, answerLost, tab, call, proxyLoad, deadEnds>>

SessionInit ==
  /\ jar = [access |-> "good", refresh |-> 1]
  /\ tokens = [k \in 1..MaxTokens |->
                 [state |-> IF k = 1 THEN "live" ELSE "unused", revokedAt |-> 0]]
  /\ clock = 0 /\ expiries = 0 /\ unclear = 0 /\ loads = 0 /\ sends = 0
  /\ tab = [t \in Tabs |-> FreshTab("private")]
  /\ call = [t \in Tabs |-> [c \in AllCalls |-> "idle"]]
  /\ proxyLoad = [t \in Tabs |-> NoLoad] /\ deadEnds = [t \in Tabs |-> 0]
  /\ answerLost = FALSE

SessionNext ==
  \/ \E t \in Tabs :
       \/ \E c \in AllCalls : request(t, c) \/ answered200(t, c) \/ data401(t, c) \/ replay401(t, c)
       \/ probe401(t) \/ refreshServed(t) \/ doRefresh(t)
       \/ \E page \in {"private", "public", "login"} : proxy(t, page)
       \/ validateSessionCookies(t) \/ proxyAnswers(t) \/ signIn(t) \/ logout(t)
  \/ accessExpires \/ tick

SessionSpec == SessionInit /\ [][SessionNext]_sessionVars

-----------------------------------------------------------------------------
SessionTypeOK ==
  /\ jar.access \in {"good", "expired", "none"} /\ jar.refresh \in 0..MaxTokens
  /\ \A t \in Tabs : /\ tab[t].session \in {"unknown", "active", "none"}
                     /\ tab[t].page \in {"private", "public", "login"}
                     /\ tab[t].refresh.state \in {"none", "sent", "ok", "refused", "unclear"}
                     /\ \A c \in AllCalls : call[t][c] \in {"idle", "sent", "waiting", "replayed"}

(* A tab learns once that there is no session: until it is told of a new   *)
(* one it makes no second refresh that is refused, however many calls of   *)
(* how many components come back 401 meanwhile.  (refreshSuppressed)       *)
DeadEndWalkedOnce == \A t \in Tabs : deadEnds[t] <= 1

(* Two tabs and the proxies of both apps rotate one cookie, their answers  *)
(* landing in any order: the cookie the browser is left with is one the    *)
(* server still takes, unless the user signed out or a rotation's answer   *)
(* was lost (the load of another page drops it too).  (refreshSession,     *)
(* validateSessionCookies, applySetCookies)                                *)
RotationKeepsSession ==
  ~answerLost /\ jar.refresh # NoToken /\ tokens[jar.refresh].state # "ended" => Accepts(jar.refresh)

(* Nobody waits for a rotation that is not under way.  (refreshSession)    *)
WaitersHaveARefresh ==
  \A t \in Tabs, c \in Calls : call[t][c] = "waiting" => tab[t].refresh.state # "none"

(* Refuted: "none" is proven: no tab refuses to refresh while the browser  *)
(* holds a refresh token the server would take.                            *)
NoneIsProven == \A t \in Tabs : tab[t].session = "none" => ~Accepts(jar.refresh)

=============================================================================
