------------------------- MODULE ClientSession_proofs -------------------------
(* Theorems about ClientSession, for every number of REST calls, self-heals and  *)
(* forgotten timers.                                                             *)
EXTENDS ClientSession, TLAPS

SessionInv == SessionTypeOK /\ WaitersAreServed /\ NoLostReconnect

Sockets == {"none", "connecting", "open", "closing"}
Told == {"connecting", "open", "closed"}

-------------------------------------------------------------------------------
\* What the operators the actions are built from do to the socket.
LEMMA AnswerTyped ==
  /\ \A cookie : Answer(cookie) \in Answers
  /\ "none" \notin Answers
  BY DEF Answer, Answers

\* A socket that is opened, or left alone, and what the subscribers are told of it.
LEMMA ConnectKeeps ==
  ASSUME SessionInv, Connect, access' \in {"good", "dead"}
  PROVE  /\ sock' \in Sockets \ {"none"} /\ socketState' \in Told \ {"closed"}
         /\ handshake' \in {"good", "dead"}
  BY DEF SessionInv, SessionTypeOK, NoLostReconnect, Connect, Sockets, Told

LEMMA SubscribeKeeps ==
  ASSUME SessionInv, NEW mounted, Subscribe(mounted), access' \in {"good", "dead"}
  PROVE  /\ sock' \in Sockets /\ socketState' \in Told /\ handshake' \in {"good", "dead"}
         /\ socketState' = "closed" <=> sock' = "none"
         /\ sock' = "none" => sock = "none"
  BY ConnectKeeps DEF SessionInv, SessionTypeOK, NoLostReconnect, Subscribe, Sockets, Told

\* A change of who is signed in keeps all that the invariant says of the socket.
LEMMA BecomeKeeps ==
  ASSUME SessionInv, NEW a \in Auth, Become(a), access' \in {"good", "dead"}
  PROVE  /\ authState' \in Auth /\ route' \in Routes
         /\ sock' \in Sockets /\ socketState' \in Told /\ handshake' \in {"good", "dead"}
         /\ stray' \in 0..MaxStray /\ {timer', rejected'} \subseteq BOOLEAN
         /\ NoLostReconnect'
<1>1. authState' \in Auth /\ route' \in Routes
  BY DEF Become, Landing, SessionInv, SessionTypeOK, Auth, Routes
<1>2. /\ sock' \in Sockets /\ socketState' \in Told /\ handshake' \in {"good", "dead"}
      /\ socketState' = "closed" <=> sock' = "none"
      /\ sock' = "none" => sock = "none"
  BY SubscribeKeeps DEF Become
<1>3. UNCHANGED <<timer, stray, rejected>>
  BY DEF Become
<1>. QED  BY <1>1, <1>2, <1>3 DEF SessionInv, SessionTypeOK, NoLostReconnect

-------------------------------------------------------------------------------
LEMMA SessionInitHolds == SessionInit => SessionInv
<1> SUFFICES ASSUME SessionInit PROVE SessionInv
  OBVIOUS
<1>1. SessionTypeOK
  <2>1. boot \in Answers
    BY AnswerTyped DEF SessionInit
  <2>2. stray \in 0..MaxStray
    BY SessionAssumption DEF SessionInit
  <2>. QED  BY <2>1, <2>2 DEF SessionInit, SessionTypeOK, Auth
<1>2. WaitersAreServed /\ NoLostReconnect
  BY DEF SessionInit, WaitersAreServed, HealWaits, NoLostReconnect
<1>. QED  BY <1>1, <1>2 DEF SessionInv

\* The socket's listeners and timers. None touches who waits for the refresh, but the
\* self-heal that a rejection starts, which does not wait yet.
LEMMA SocketStepKeeps ==
  ASSUME SessionInv, SocketStep
  PROVE  SessionInv'
<1> USE DEF SessionInv
<1>1. CASE Opened
  BY <1>1 DEF Opened, cookieVars, authVars, requestVars, SessionTypeOK, WaitersAreServed,
              HealWaits, NoLostReconnect
<1>2. CASE SocketError
  BY <1>2 DEF SocketError, cookieVars, authVars, requestVars, SessionTypeOK, WaitersAreServed,
              HealWaits, NoLostReconnect
<1>3. CASE Closed
  <2>1. stray' \in 0..MaxStray
    BY <1>3, SessionAssumption DEF Closed, SessionTypeOK
  <2>2. /\ UNCHANGED <<cookieVars, authVars, requestVars>>
        /\ sock' = "none" /\ handshake' = "dead" /\ socketState' = "closed"
        /\ rejected' = FALSE /\ timer' = TRUE
    BY <1>3 DEF Closed, ToldClosed
  <2>. QED
    BY <2>1, <2>2 DEF cookieVars, authVars, requestVars, SessionTypeOK,
                      WaitersAreServed, HealWaits, NoLostReconnect
<1>4. CASE RetryTimer \/ StrayTimer \/ Resumed
  <2>1. /\ sock' \in Sockets \ {"none"} /\ socketState' \in Told \ {"closed"}
        /\ handshake' \in {"good", "dead"}
    BY <1>4, ConnectKeeps DEF RetryTimer, StrayTimer, Resumed, cookieVars, SessionTypeOK
  <2>2. stray' \in 0..MaxStray
    <3>1. stray \in 0..MaxStray
      BY DEF SessionTypeOK
    <3>2. stray' = stray \/ (stray > 0 /\ stray' = stray - 1)
      BY <1>4 DEF RetryTimer, StrayTimer, Resumed
    <3>. QED  BY <3>1, <3>2, SessionAssumption
  <2>3. timer' \in BOOLEAN /\ rejected' = rejected
    BY <1>4 DEF RetryTimer, StrayTimer, Resumed, SessionTypeOK
  <2>4. UNCHANGED <<cookieVars, authVars, requestVars>>
    BY <1>4 DEF RetryTimer, StrayTimer, Resumed
  <2>. QED
    BY <2>1, <2>2, <2>3, <2>4 DEF cookieVars, authVars, requestVars, SessionTypeOK,
                            WaitersAreServed, HealWaits, NoLostReconnect, Sockets, Told
<1>5. ASSUME NEW h \in Heals, Rejected(h) PROVE SessionInv'
  <2>1. heal' \in [Heals -> Answers \cup {"idle", "wait"}]
    BY <1>5, AnswerTyped DEF Rejected, SessionTypeOK
  <2>2. HealWaits' => HealWaits
    BY <1>5, AnswerTyped DEF Rejected, SessionTypeOK, HealWaits, Answers
  <2>. QED
    BY <1>5, <2>1, <2>2 DEF Rejected, ToldClosed, cookieVars, authVars, SessionTypeOK,
                            WaitersAreServed, NoLostReconnect
<1>. QED
  BY <1>1, <1>2, <1>3, <1>4, <1>5 DEF SocketStep

\* After the refresh nobody waits: all who did are woken, however it ended.
LEMMA WakeLeavesNobody ==
  ASSUME SessionTypeOK, NEW s \in Answers \cup {"idle"}
  PROVE  /\ WakeCalls(s) \in [Calls -> Answers \cup {"idle", "wait"}]
         /\ WakeHeals(s) \in [Heals -> Answers \cup {"idle", "wait"}]
         /\ \A c \in Calls : WakeCalls(s)[c] # "wait"
         /\ \A h \in Heals : WakeHeals(s)[h] # "wait"
  BY DEF SessionTypeOK, WakeCalls, WakeHeals, Answers

\* Whoever joins the refresh finds one, or starts it.
LEMMA JoinIsServed ==
  ASSUME SessionTypeOK, JoinRefresh
  PROVE  inflight' \in Answers
  BY AnswerTyped DEF SessionTypeOK, JoinRefresh

LEMMA RequestStepKeeps ==
  ASSUME SessionInv, RequestStep
  PROVE  SessionInv'
<1> USE DEF SessionInv
<1>1. ASSUME NEW c \in Calls, SendCall(c) PROVE SessionInv'
  <2>1. call' \in [Calls -> Answers \cup {"idle", "wait"}]
    BY <1>1, AnswerTyped DEF SendCall, SessionTypeOK
  <2>2. \A d \in Calls : call'[d] = "wait" => call[d] = "wait"
    BY <1>1, AnswerTyped DEF SendCall, SessionTypeOK, Answers
  <2>. QED
    BY <1>1, <2>1, <2>2 DEF SendCall, cookieVars, authVars, wsVars, SessionTypeOK,
                            WaitersAreServed, HealWaits, NoLostReconnect
<1>2. ASSUME NEW c \in Calls, CallAnswered(c) PROVE SessionInv'
  <2>1. call' \in [Calls -> Answers \cup {"idle", "wait"}]
    BY <1>2 DEF CallAnswered, SessionTypeOK
  <2>2. inflight' \in Answers \cup {"none"}
    BY <1>2, JoinIsServed DEF CallAnswered, SessionTypeOK
  <2>3. WaitersAreServed'
    <3>1. CASE inflight' \in Answers
      BY <3>1, AnswerTyped DEF WaitersAreServed
    <3>2. CASE inflight' \notin Answers
      <4>1. call' = [call EXCEPT ![c] = "idle"] /\ UNCHANGED <<inflight, heal>>
        BY <1>2, <3>2, JoinIsServed DEF CallAnswered
      <4>. QED  BY <4>1 DEF WaitersAreServed, HealWaits, SessionTypeOK
    <3>. QED  BY <3>1, <3>2
  <2>. QED
    BY <1>2, <2>1, <2>2, <2>3 DEF CallAnswered, cookieVars, authVars, wsVars, SessionTypeOK,
                                  NoLostReconnect
<1>3. ASSUME NEW h \in Heals, HealAnswered(h) PROVE SessionInv'
  <2>1. /\ UNCHANGED <<cookieVars, boot, call, login, logout>>
        /\ access' \in {"good", "dead"}
    BY <1>3 DEF HealAnswered, cookieVars, SessionTypeOK
  <2>2. CASE heal' = [heal EXCEPT ![h] = "wait"] /\ JoinRefresh
             /\ UNCHANGED <<authState, route, wsVars>>
    <3>1. inflight' \in Answers
      BY <2>2, JoinIsServed
    <3>2. heal' \in [Heals -> Answers \cup {"idle", "wait"}]
      BY <2>2 DEF SessionTypeOK
    <3>3. WaitersAreServed'
      BY <3>1, AnswerTyped DEF WaitersAreServed
    <3>. QED
      BY <2>1, <2>2, <3>1, <3>2, <3>3 DEF cookieVars, wsVars, SessionTypeOK, NoLostReconnect
  <2>3. CASE /\ heal' = [heal EXCEPT ![h] = "idle"] /\ UNCHANGED inflight
             /\ Become("authed") \/ UNCHANGED <<authState, route, wsVars>>
    <3>1. heal' \in [Heals -> Answers \cup {"idle", "wait"}] /\ (HealWaits' => HealWaits)
      BY <2>3 DEF SessionTypeOK, HealWaits
    <3>2. WaitersAreServed'
      BY <2>1, <2>3, <3>1 DEF WaitersAreServed
    <3>3. CASE Become("authed")
      BY <2>1, <2>3, <3>1, <3>2, <3>3, BecomeKeeps
      DEF cookieVars, SessionTypeOK, Auth, Sockets, Told
    <3>4. CASE UNCHANGED <<authState, route, wsVars>>
      BY <2>1, <2>3, <3>1, <3>2, <3>4 DEF cookieVars, wsVars, SessionTypeOK, NoLostReconnect
    <3>. QED  BY <2>3, <3>3, <3>4
  <2>. QED  BY <1>3, <2>2, <2>3 DEF HealAnswered
<1>4. CASE RefreshGranted
  <2>1. /\ call' = WakeCalls("ok") /\ heal' = WakeHeals("ok") /\ inflight' = "none"
        /\ access' = "good" /\ UNCHANGED <<refresh, authVars, boot, login, logout, wsVars>>
    BY <1>4 DEF RefreshGranted
  <2>. QED
    BY <2>1, WakeLeavesNobody DEF authVars, wsVars, SessionTypeOK, WaitersAreServed, HealWaits,
                                  NoLostReconnect, Answers
<1>5. CASE RefreshRefused \/ RefreshLost
  <2>1. /\ call' = WakeCalls("idle") /\ heal' = WakeHeals("idle") /\ inflight' = "none"
        /\ UNCHANGED <<cookieVars, boot, login, logout>> /\ access' \in {"good", "dead"}
        /\ Become("anon") \/ UNCHANGED <<authState, route, wsVars>>
    BY <1>5 DEF RefreshRefused, RefreshLost, cookieVars, SessionTypeOK
  <2>2. /\ WaitersAreServed'
        /\ call' \in [Calls -> Answers \cup {"idle", "wait"}]
        /\ heal' \in [Heals -> Answers \cup {"idle", "wait"}]
    BY <2>1, WakeLeavesNobody DEF WaitersAreServed, HealWaits
  <2>3. CASE Become("anon")
    BY <2>1, <2>2, <2>3, BecomeKeeps DEF cookieVars, SessionTypeOK, Auth, Sockets, Told
  <2>4. CASE UNCHANGED <<authState, route, wsVars>>
    BY <2>1, <2>2, <2>4 DEF cookieVars, wsVars, SessionTypeOK, NoLostReconnect
  <2>. QED  BY <2>1, <2>3, <2>4
<1>6. CASE BootAnswered
  <2>1. PICK a \in {"authed", "anon"} : Become(a)
    BY <1>6 DEF BootAnswered
  <2>2. /\ boot' = "done" /\ UNCHANGED <<cookieVars, heal, call, inflight, login, logout>>
        /\ access' \in {"good", "dead"} /\ a \in Auth
    BY <1>6, <2>1 DEF BootAnswered, cookieVars, SessionTypeOK, Auth
  <2>. QED
    BY <2>1, <2>2, BecomeKeeps DEF cookieVars, SessionTypeOK, WaitersAreServed, HealWaits,
                                   Sockets, Told
<1>. QED
  BY <1>1, <1>2, <1>3, <1>4, <1>5, <1>6 DEF RequestStep

\* What the user does changes who is signed in and what is mounted; nobody begins to wait.
LEMMA UserStepKeeps ==
  ASSUME SessionInv, UserStep
  PROVE  SessionInv'
<1> USE DEF SessionInv
<1>1. ASSUME NEW r \in Routes, Navigate(r) PROVE SessionInv'
  <2>1. /\ authState' = authState /\ route' \in Routes /\ access' \in {"good", "dead"}
        /\ UNCHANGED <<cookieVars, requestVars, timer, stray, rejected>>
        /\ Subscribe(Listens("authed", r))
    BY <1>1 DEF Navigate, cookieVars, SessionTypeOK
  <2>2. /\ sock' \in Sockets /\ socketState' \in Told /\ handshake' \in {"good", "dead"}
        /\ socketState' = "closed" <=> sock' = "none"
        /\ sock' = "none" => sock = "none"
    BY <2>1, SubscribeKeeps
  <2>. QED
    BY <2>1, <2>2 DEF cookieVars, requestVars, SessionTypeOK, WaitersAreServed, HealWaits,
                      NoLostReconnect, Sockets, Told
<1>2. CASE SubmitLogin \/ LoginFailed \/ SubmitLogout
  BY <1>2 DEF SubmitLogin, LoginFailed, SubmitLogout, cookieVars, authVars, wsVars,
              SessionTypeOK, WaitersAreServed, HealWaits, NoLostReconnect
<1>3. CASE LoginGranted \/ LogoutSettled
  <2>1. PICK a \in {"authed", "anon"} : Become(a)
    BY <1>3 DEF LoginGranted, LogoutSettled
  <2>2. /\ UNCHANGED <<boot, heal, call, inflight>> /\ login' \in BOOLEAN /\ logout' \in BOOLEAN
        /\ access' \in {"good", "dead"} /\ refresh' \in {"good", "dead"} /\ a \in Auth
    BY <1>3, <2>1 DEF LoginGranted, LogoutSettled, cookieVars, SessionTypeOK, Auth
  <2>. QED
    BY <2>1, <2>2, BecomeKeeps DEF SessionTypeOK, WaitersAreServed, HealWaits, Sockets, Told
<1>. QED
  BY <1>1, <1>2, <1>3 DEF UserStep

LEMMA SessionStepKeeps == SessionInv /\ [SessionNext]_sessionVars => SessionInv'
<1> SUFFICES ASSUME SessionInv, [SessionNext]_sessionVars PROVE SessionInv'
  OBVIOUS
<1>1. CASE SocketStep
  BY <1>1, SocketStepKeeps
<1>2. CASE RequestStep
  BY <1>2, RequestStepKeeps
<1>3. CASE UserStep
  BY <1>3, UserStepKeeps
<1>4. CASE AccessExpires \/ SessionRevoked
  BY <1>4 DEF AccessExpires, SessionRevoked, SessionInv, authVars, requestVars, wsVars,
              SessionTypeOK, WaitersAreServed, HealWaits, NoLostReconnect
<1>5. CASE UNCHANGED sessionVars
  BY <1>5 DEF sessionVars, cookieVars, authVars, requestVars, wsVars, SessionInv, SessionTypeOK,
              WaitersAreServed, HealWaits, NoLostReconnect
<1>. QED
  BY <1>1, <1>2, <1>3, <1>4, <1>5 DEF SessionNext

\* The session's state is well typed, and the two facts below hold with it.
THEOREM SessionIsSound == SessionSpec => []SessionInv
<1>. QED  BY SessionInitHolds, SessionStepKeeps, PTL DEF SessionSpec

\* A REST call or a self-heal that joined the shared refresh (api.ts, _refreshInflight) is
\* woken when it settles, for any number of calls and self-heals.
THEOREM WaitersServed == SessionSpec => []WaitersAreServed
<1>1. SessionInv => WaitersAreServed
  BY DEF SessionInv
<1>. QED  BY <1>1, SessionIsSound, PTL

\* The events socket (ws.ts) that is down has another attempt pending unless the server
\* rejected it, and the subscribers were told, however timers, resumes and closes interleave.
THEOREM ReconnectIsNotLost == SessionSpec => []NoLostReconnect
<1>1. SessionInv => NoLostReconnect
  BY DEF SessionInv
<1>. QED  BY <1>1, SessionIsSound, PTL
===============================================================================
