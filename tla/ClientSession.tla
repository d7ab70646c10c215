---------------------------- MODULE ClientSession ----------------------------
(* The shell of the browser client: who the page believes is signed in          *)
(* (lib/auth.tsx, RequireAuth, Login), the silent refresh every REST call shares *)
(* (lib/api.ts), the one events WebSocket of the page (lib/ws.ts) and the banner *)
(* that reports it (ConnectionBanner).                                           *)
(*                                                                               *)
(* A request in flight carries the answer the server gives it, fixed when it is  *)
(* sent by the cookies of that moment; it is received later, in any order, or    *)
(* lost. Both cookies die by expiry or by a revocation on another device.        *)
EXTENDS Naturals, FiniteSets

CONSTANTS
  Calls,      \* REST calls of the pages that may be in flight at the same time
  Heals,      \* self-heals that may be in flight at the same time
  MaxStray    \* bound: retry timers no longer held by reconnectTimer

ASSUME SessionAssumption == MaxStray \in Nat

Auth == {"loading", "authed", "anon"}
Routes == {"login", "watch", "settings"}
Answers == {"ok", "denied"}

VARIABLES
  access, refresh,   \* the two cookies: "good" or "dead" (expired, revoked, absent)
  authState,         \* AuthProvider's state
  route,
  boot,              \* the mount's /api/auth/me: its answer, or "done"
  heal,              \* onAuthFailed: "idle", the answer of its /me, "wait"
  call,              \* req(): "idle", the answer, "wait" (for the refresh)
  inflight,          \* _refreshInflight: "none" or the answer of the one refresh
  login, logout,     \* the form's and the sign-out's request are out
  sock,              \* the WebSocket: "none", "connecting", "open", "closing"
  handshake,         \* the access cookie its handshake carried, "dead" without a socket
  socketState,       \* what subscribers were last told
  timer, stray,      \* reconnectTimer is pending; timers it no longer refers to
  rejected           \* history: the last close of the socket was a 1008

cookieVars == <<access, refresh>>
authVars == <<authState, route>>
wsVars == <<sock, handshake, socketState, timer, stray, rejected>>
requestVars == <<boot, heal, call, inflight, login, logout>>
sessionVars == <<cookieVars, authVars, requestVars, wsVars>>

Answer(cookie) == IF cookie = "good" THEN "ok" ELSE "denied"

\* RequireAuth and Login redirect in the render that follows a change of state.
Landing(a) ==
  CASE a = "anon" -> "login"
    [] a = "authed" /\ route = "login" -> "watch"
    [] OTHER -> route

\* The badge and the banner subscribe for as long as the shell is mounted, signed
\* in or not; a page that listens subscribes when it is mounted, and RequireAuth
\* mounts pages only for a signed-in user. "watch" stands for Watch and Events.
Listens(a, r) == a = "authed" /\ r = "watch"

-------------------------------------------------------------------------------
(* lib/ws.ts *)

\* connect(): a socket already open or connecting is kept. One that is closing
\* is replaced; its later events are ignored (currentSocket).
Connect ==
  IF sock \in {"open", "connecting"}
    THEN UNCHANGED <<sock, handshake, socketState>>
    ELSE sock' = "connecting" /\ handshake' = access' /\ socketState' = "connecting"

\* subscribeEvents: a page being mounted opens the socket if there is none.
Subscribe(mounted) ==
  IF mounted /\ sock = "none"
    THEN Connect
    ELSE UNCHANGED <<sock, handshake, socketState>>

\* setState of AuthProvider, with the redirect and the mount that follow.
Become(a) ==
  /\ authState' = a
  /\ route' = Landing(a)
  /\ Subscribe(Listens(a, route') /\ ~Listens(authState, route))
  /\ UNCHANGED <<timer, stray, rejected>>

\* The user opens a page.
Navigate(r) ==
  /\ authState = "authed" /\ r # "login"
  /\ route' = r
  /\ UNCHANGED cookieVars /\ Subscribe(Listens("authed", r))
  /\ UNCHANGED <<authState, requestVars, timer, stray, rejected>>

\* The server accepts every handshake and applies its policy afterwards.
Opened ==
  /\ sock = "connecting"
  /\ sock' = "open" /\ socketState' = "open"
  /\ UNCHANGED <<cookieVars, authVars, requestVars, handshake, timer, stray, rejected>>

\* The error listener closes the socket; its close event comes later.
SocketError ==
  /\ sock \in {"connecting", "open"}
  /\ sock' = "closing"
  /\ UNCHANGED <<cookieVars, authVars, requestVars, handshake, socketState, timer,
                 stray, rejected>>

ToldClosed == sock' = "none" /\ handshake' = "dead" /\ socketState' = "closed"

\* Mutant of Closed: a socket that an error closed is not retried.
ClosedRetryingOnlyCleanCloses ==
  /\ sock # "none"
  /\ stray < MaxStray \/ ~timer
  /\ ToldClosed
  /\ rejected' = FALSE
  /\ timer' = (timer \/ sock # "closing")
  /\ UNCHANGED <<stray, cookieVars, authVars, requestVars>>

\* A close that is no policy violation: the next attempt is scheduled, and the
\* handle of a timer still pending is overwritten.
Closed ==
  /\ sock # "none"
  /\ stray < MaxStray \/ ~timer
  /\ ToldClosed
  /\ rejected' = FALSE
  /\ timer' = TRUE
  /\ stray' = IF timer THEN stray + 1 ELSE stray
  /\ UNCHANGED <<cookieVars, authVars, requestVars>>

\* Close code 1008, the server's answer to a handshake with a dead access cookie:
\* no retry, and homecam:auth-failed starts a self-heal. By then a refresh for
\* another request may have renewed the cookie.
Rejected(h) ==
  /\ sock = "open" /\ handshake = "dead" /\ heal[h] = "idle"
  /\ ToldClosed
  /\ rejected' = TRUE
  /\ heal' = [heal EXCEPT ![h] = Answer(access)]
  /\ UNCHANGED <<cookieVars, authVars, boot, call, inflight, login, logout,
                 timer, stray>>

RetryTimer ==
  /\ timer
  /\ timer' = FALSE
  /\ UNCHANGED cookieVars /\ Connect
  /\ UNCHANGED <<authVars, requestVars, stray, rejected>>

StrayTimer ==
  /\ stray > 0
  /\ stray' = stray - 1
  /\ UNCHANGED cookieVars /\ Connect
  /\ UNCHANGED <<authVars, requestVars, timer, rejected>>

\* The tab becomes visible: reconnectIfClosed(), from ConnectionBanner.
Resumed ==
  /\ sock = "none"
  /\ timer' = FALSE
  /\ UNCHANGED cookieVars /\ Connect
  /\ UNCHANGED <<authVars, requestVars, stray, rejected>>

-------------------------------------------------------------------------------
(* lib/api.ts: the shared refresh and the retry after it *)

\* _attemptRefresh(): join the refresh in flight, or start it.
JoinRefresh ==
  inflight' = IF inflight = "none" THEN Answer(refresh) ELSE inflight

SendCall(c) ==
  /\ call[c] = "idle"
  /\ call' = [call EXCEPT ![c] = Answer(access)]
  /\ UNCHANGED <<cookieVars, authVars, boot, heal, inflight, login, logout,
                 wsVars>>

\* An answer, or a network failure, is handed to the caller; a 401 waits for the
\* refresh instead, once.
CallAnswered(c) ==
  /\ call[c] \in Answers
  /\ \/ call' = [call EXCEPT ![c] = "idle"] /\ UNCHANGED inflight
     \/ call[c] = "denied" /\ call' = [call EXCEPT ![c] = "wait"] /\ JoinRefresh
  /\ UNCHANGED <<cookieVars, authVars, boot, heal, login, logout, wsVars>>

WakeCalls(s) == [c \in Calls |-> IF call[c] = "wait" THEN s ELSE call[c]]
WakeHeals(s) == [h \in Heals |-> IF heal[h] = "wait" THEN s ELSE heal[h]]
HealWaits == \E h \in Heals : heal[h] = "wait"

\* A 200: every waiter tries once more with the new access cookie, which the server
\* accepts; there is no second refresh.
RefreshGranted ==
  /\ inflight = "ok" /\ inflight' = "none"
  /\ access' = "good"
  /\ call' = WakeCalls("ok") /\ heal' = WakeHeals("ok")
  /\ UNCHANGED <<refresh, authVars, boot, login, logout, wsVars>>

\* A 401: homecam:session-expired, once for all waiters. (Its flag and its
\* toast are ShellNotices' subject.)
RefreshRefused ==
  /\ inflight = "denied" /\ inflight' = "none"
  /\ call' = WakeCalls("idle") /\ heal' = WakeHeals("idle")
  /\ UNCHANGED <<cookieVars, boot, login, logout>>
  /\ Become("anon")

\* Mutant of RefreshLost: the self-heals that joined are forgotten.
RefreshLostForCalls ==
  /\ inflight # "none" /\ inflight' = "none"
  /\ call' = WakeCalls("idle")
  /\ UNCHANGED <<cookieVars, heal, boot, login, logout, authState, route, wsVars>>

\* The refresh never reached the server. A waiting call fails with its 401; a
\* self-heal rethrows the 401 of its /me, which signs the page out.
RefreshLost ==
  /\ inflight # "none" /\ inflight' = "none"
  /\ call' = WakeCalls("idle") /\ heal' = WakeHeals("idle")
  /\ UNCHANGED <<cookieVars, boot, login, logout>>
  /\ IF HealWaits
       THEN Become("anon")
       ELSE UNCHANGED <<authState, route, wsVars>>

-------------------------------------------------------------------------------
(* lib/auth.tsx *)

\* The mount's getMe: 200 signs in, anything else is anonymous.
BootAnswered ==
  /\ boot # "done" /\ boot' = "done"
  /\ UNCHANGED <<cookieVars, heal, call, inflight, login, logout>>
  /\ \/ boot = "ok" /\ Become("authed")
     \/ Become("anon")

\* onAuthFailed: a 401 of the first /me asks for one refresh; an answer of 200,
\* first or second, signs the page in; a network failure leaves it alone.
HealAnswered(h) ==
  /\ heal[h] \in Answers
  /\ UNCHANGED <<cookieVars, boot, call, login, logout>>
  /\ \/ /\ heal[h] = "ok"
        /\ heal' = [heal EXCEPT ![h] = "idle"]
        /\ Become("authed")
        /\ UNCHANGED inflight
     \/ /\ heal[h] = "denied"
        /\ heal' = [heal EXCEPT ![h] = "wait"]
        /\ JoinRefresh
        /\ UNCHANGED <<authState, route, wsVars>>
     \/ /\ heal' = [heal EXCEPT ![h] = "idle"]
        /\ UNCHANGED <<authState, route, inflight, wsVars>>

\* Login's submit: the button is disabled while a submission is out. The route
\* does not wait for the mount's /me.
SubmitLogin ==
  /\ route = "login" /\ authState # "authed" /\ ~login
  /\ login' = TRUE
  /\ UNCHANGED <<cookieVars, authVars, boot, heal, call, inflight, logout, wsVars>>

LoginGranted ==
  /\ login /\ login' = FALSE
  /\ access' = "good" /\ refresh' = "good"
  /\ UNCHANGED <<boot, heal, call, inflight, logout>>
  /\ Become("authed")

LoginFailed ==
  /\ login /\ login' = FALSE
  /\ UNCHANGED <<cookieVars, authVars, boot, heal, call, inflight, logout, wsVars>>

\* AccountSection's confirmed sign-out, and its end: local state is cleared
\* whether or not the server answered.
SubmitLogout ==
  /\ authState = "authed" /\ route = "settings" /\ ~logout
  /\ logout' = TRUE
  /\ UNCHANGED <<cookieVars, authVars, boot, heal, call, inflight, login,
                 wsVars>>

LogoutSettled ==
  /\ logout /\ logout' = FALSE
  /\ \/ access' = "dead" /\ refresh' = "dead"
     \/ UNCHANGED cookieVars
  /\ UNCHANGED <<boot, heal, call, inflight, login>>
  /\ Become("anon")

\* The access cookie outlives its 15 minutes; the session is revoked elsewhere.
AccessExpires ==
  /\ access = "good" /\ access' = "dead"
  /\ UNCHANGED <<refresh, authVars, requestVars, wsVars>>

SessionRevoked ==
  /\ refresh = "good" /\ refresh' = "dead" /\ access' = "dead"
  /\ UNCHANGED <<authVars, requestVars, wsVars>>

-------------------------------------------------------------------------------
\* The page loads at a deep link or at /login, with any cookies. The shell's
\* subscribers open the socket at once, and the mount asks who is signed in.
SessionInit ==
  /\ access \in {"good", "dead"} /\ refresh \in {"good", "dead"}
  /\ (access = "good" => refresh = "good")
  /\ authState = "loading"
  /\ route \in Routes
  /\ boot = Answer(access)
  /\ heal = [h \in Heals |-> "idle"]
  /\ call = [c \in Calls |-> "idle"]
  /\ inflight = "none" /\ login = FALSE /\ logout = FALSE
  /\ sock = "connecting" /\ handshake = access /\ socketState = "connecting"
  /\ timer = FALSE /\ stray = 0 /\ rejected = FALSE

SocketStep ==
  \/ Opened \/ SocketError \/ Closed \/ RetryTimer \/ StrayTimer \/ Resumed
  \/ \E h \in Heals : Rejected(h)

RequestStep ==
  \/ \E c \in Calls : SendCall(c) \/ CallAnswered(c)
  \/ \E h \in Heals : HealAnswered(h)
  \/ RefreshGranted \/ RefreshRefused \/ RefreshLost
  \/ BootAnswered

UserStep ==
  \/ \E r \in Routes : Navigate(r)
  \/ SubmitLogin \/ LoginGranted \/ LoginFailed \/ SubmitLogout \/ LogoutSettled

SessionNext ==
  \/ SocketStep \/ RequestStep \/ UserStep
  \/ AccessExpires \/ SessionRevoked

SessionSpec == SessionInit /\ [][SessionNext]_sessionVars

-------------------------------------------------------------------------------
SessionTypeOK ==
  /\ {access, refresh, handshake} \subseteq {"good", "dead"}
  /\ authState \in Auth /\ route \in Routes
  /\ {login, logout, timer, rejected}
       \subseteq BOOLEAN
  /\ boot \in Answers \cup {"done"}
  /\ heal \in [Heals -> Answers \cup {"idle", "wait"}]
  /\ call \in [Calls -> Answers \cup {"idle", "wait"}]
  /\ inflight \in Answers \cup {"none"}
  /\ sock \in {"none", "connecting", "open", "closing"}
  /\ socketState \in {"connecting", "open", "closed"}
  /\ stray \in 0..MaxStray

\* Nobody waits for a refresh that is not there: a call or a self-heal that joined
\* the refresh in flight is woken when it settles, whoever started it and however
\* it ends (api.ts, _refreshInflight).
WaitersAreServed ==
  (\E c \in Calls : call[c] = "wait") \/ HealWaits => inflight # "none"

\* A closed socket comes back: another attempt is pending unless the last close
\* was the server's 1008, whoever closed, resumed, subscribed or overwrote a timer
\* in between; and what the subscribers were told is never better than the socket.
NoLostReconnect ==
  /\ sock = "none" => timer \/ stray > 0 \/ rejected
  /\ socketState = "closed" <=> sock = "none"
==============================================================================
