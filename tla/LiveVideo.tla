------------------------------- MODULE LiveVideo -------------------------------
(* The live picture of the client: the tile's connect effect (VideoTile), the    *)
(* WHEP attempts it starts and abandons, the warmed peer connection              *)
(* (lib/webrtc.ts), and the choice of a stream tier (QualityMenu,                *)
(* lib/streamQuality.ts).                                                        *)
(*                                                                               *)
(* An attempt is one call of connectWhep. Everything it awaits (the offer, the   *)
(* POST, the answer) settles later and in any order with the user's retries,     *)
(* the choice of another tier, a resume of the tab and the tile's unmount.       *)
EXTENDS Naturals

CONSTANTS
  Attempts,     \* attempts whose peer connection may exist at the same time
  Tiers,        \* the stream tiers, one MediaMTX path each
  Nobody        \* no attempt

ASSUME LiveAssumption == Nobody \notin Attempts /\ "hq" \in Tiers /\ "auto" \notin Tiers

VARIABLES
  phase,        \* "free", "offer", "post", "remote" (the answer is being applied), "up", "closed"
  aborted,      \* its AbortController was aborted
  outcome,      \* its ledger entry has an outcome: connected, failed or aborted
  cur,          \* the attempt of the effect that is mounted, or Nobody
  curTier,      \* the tier that effect connects to
  retryAsked,   \* retryNonce was bumped since that effect ran
  status,
  shown,        \* the attempt whose stream is video.srcObject, or Nobody
  mediaTimer, stallTimer, frameArmed,   \* the effect's two timers, its frame callback
  silentUsed, resuming,                 \* silentRetryUsedRef, resumeInFlightRef
  visible,      \* document.visibilityState
  quality, link,   \* the user's choice (stored), what the network asks for
  warm          \* a warmed peer connection, not aged out, waits to be claimed

attemptVars == <<phase, aborted, outcome>>
effectVars == <<cur, curTier, mediaTimer, stallTimer, frameArmed>>
tileVars == <<status, retryAsked, silentUsed, resuming>>
choiceVars == <<quality, link>>
liveVars == <<attemptVars, effectVars, tileVars, shown, visible, choiceVars, warm>>

Qualities == Tiers \cup {"auto"}
InFlight == {"offer", "post", "remote"}

\* Mutant of TierFor: auto is taken for a path of its own.
TierAsChosen(q, l) == q

\* pathForQuality: auto follows the link, read anew by every render.
TierFor(q, l) == IF q = "auto" THEN l ELSE q

\* The dependencies of the connect effect, compared after a render.
EffectIsStale == cur # Nobody /\ (retryAsked \/ TierFor(quality, link) # curTier)

-------------------------------------------------------------------------------
(* The connect effect *)

\* settleAttempt: whatever comes later, the first outcome stays.
Settled(a) == [outcome EXCEPT ![a] = TRUE]

\* WhepConnection.close() and the finally of connectWhep.
CloseAttempt(a) ==
  /\ phase' = [phase EXCEPT ![a] = "closed"]
  /\ outcome' = Settled(a)
  /\ shown' = IF shown = a THEN Nobody ELSE shown

\* The cleanup: abort what is under way, close what is up.
Cleaned(f, o) ==
  [ph  |-> IF cur # Nobody /\ f[cur] = "up" THEN [f EXCEPT ![cur] = "closed"] ELSE f,
   out |-> IF cur # Nobody /\ f[cur] = "up" THEN Settled(cur) ELSE o]

ClaimWarmed == warm' = FALSE
FirstPhase == IF warm THEN "post" ELSE "offer"

\* An effect runs: the cleanup of the one before, then connectWhep with a peer
\* connection of its own, the warmed one when it is fresh.
StartAttempt(a) ==
  LET c == Cleaned(phase, outcome) IN
  /\ phase[a] \in {"free", "closed"} /\ a # cur
  /\ phase' = [c.ph EXCEPT ![a] = FirstPhase]
  /\ outcome' = [c.out EXCEPT ![a] = FALSE]
  /\ aborted' = [b \in Attempts |-> b # a /\ (aborted[b] \/ b = cur)]
  /\ shown' = IF cur # Nobody /\ shown = cur THEN Nobody ELSE shown
  /\ cur' = a /\ curTier' = TierFor(quality, link)
  /\ retryAsked' = FALSE
  /\ status' = "connecting" /\ resuming' = FALSE
  /\ mediaTimer' = FALSE /\ stallTimer' = FALSE /\ frameArmed' = TRUE
  /\ ClaimWarmed

EffectRuns(a) ==
  /\ EffectIsStale /\ StartAttempt(a)
  /\ UNCHANGED <<silentUsed, visible, choiceVars>>

MountTile(a) ==
  /\ cur = Nobody /\ StartAttempt(a)
  /\ silentUsed' = FALSE
  /\ UNCHANGED <<visible, choiceVars>>

UnmountTile ==
  LET c == Cleaned(phase, outcome) IN
  /\ cur # Nobody
  /\ phase' = c.ph /\ outcome' = c.out
  /\ aborted' = [aborted EXCEPT ![cur] = TRUE]
  /\ shown' = Nobody /\ cur' = Nobody /\ retryAsked' = FALSE /\ status' = "idle"
  /\ mediaTimer' = FALSE /\ stallTimer' = FALSE /\ frameArmed' = FALSE
  /\ silentUsed' = FALSE /\ resuming' = FALSE
  /\ UNCHANGED <<curTier, visible, quality, link, warm>>

-------------------------------------------------------------------------------
(* connectWhep *)

\* The catch of the effect ignores an attempt it has cancelled, and takes the
\* rejection of any other for a failure of the camera.
Rejects(a) ==
  /\ CloseAttempt(a)
  /\ status' = IF a = cur THEN "error" ELSE status
  /\ UNCHANGED <<aborted, effectVars, retryAsked, silentUsed, resuming,
                 visible, choiceVars, warm>>

\* The offer is made and its candidates gathered, or the gathering hit its cap.
OfferReady(a) ==
  /\ phase[a] = "offer" /\ ~aborted[a]
  /\ phase' = [phase EXCEPT ![a] = "post"]
  /\ UNCHANGED <<aborted, outcome, effectVars, tileVars, shown, visible, choiceVars, warm>>

\* The browser makes no offer, or the attempt was aborted meanwhile.
OfferFails(a) == phase[a] = "offer" /\ Rejects(a)

\* The POST is answered with a description; it is refused, lost or aborted.
PostAnswered(a) ==
  /\ phase[a] = "post" /\ ~aborted[a]
  /\ phase' = [phase EXCEPT ![a] = "remote"]
  /\ UNCHANGED <<aborted, outcome, effectVars, tileVars, shown, visible, choiceVars, warm>>

PostFails(a) == phase[a] = "post" /\ Rejects(a)

AnswerRejected(a) == phase[a] = "remote" /\ Rejects(a)

\* Mutant of AnswerApplied: an attempt that was superseded meanwhile is not closed.
AnswerAppliedAnyway(a) ==
  /\ phase[a] = "remote"
  /\ phase' = [phase EXCEPT ![a] = "up"]
  /\ shown' = IF aborted[a] THEN shown ELSE a
  /\ mediaTimer' = (mediaTimer \/ a = cur)
  /\ UNCHANGED <<aborted, outcome, cur, curTier, stallTimer, frameArmed, tileVars, visible,
                 choiceVars, warm>>

\* Mutant of AnswerApplied: nobody waits for the first frame.
AnswerAppliedUntimed(a) ==
  /\ phase[a] = "remote"
  /\ IF a # cur
       THEN CloseAttempt(a)
       ELSE /\ phase' = [phase EXCEPT ![a] = "up"]
            /\ shown' = IF aborted[a] THEN shown ELSE a
            /\ UNCHANGED outcome
  /\ UNCHANGED <<aborted, effectVars, tileVars, visible, choiceVars, warm>>

\* setRemoteDescription applies the answer: ontrack shows the stream unless the
\* attempt was aborted; the effect closes the connection if it was cancelled, and
\* gives the first frame 8 s otherwise.
AnswerApplied(a) ==
  /\ phase[a] = "remote"
  /\ IF a # cur
       THEN CloseAttempt(a) /\ UNCHANGED mediaTimer
       ELSE /\ phase' = [phase EXCEPT ![a] = "up"]
            /\ shown' = IF aborted[a] THEN shown ELSE a
            /\ mediaTimer' = TRUE
            /\ UNCHANGED outcome
  /\ UNCHANGED <<aborted, cur, curTier, stallTimer, frameArmed, tileVars, visible,
                 choiceVars, warm>>

PcConnected(a) ==
  /\ phase[a] = "up" /\ ~outcome[a]
  /\ outcome' = Settled(a)
  /\ UNCHANGED <<phase, aborted, effectVars, tileVars, shown, visible, choiceVars, warm>>

-------------------------------------------------------------------------------
(* What the picture does *)

\* failed, disconnected or closed: one silent reconnect for each time frames were
\* seen, and only in a visible tab; the error screen otherwise.
PcDrops(a) ==
  /\ a = cur /\ phase[a] = "up"
  /\ \E hard \in BOOLEAN : outcome' = IF hard THEN Settled(a) ELSE outcome
  /\ IF ~silentUsed /\ visible
       THEN /\ silentUsed' = TRUE /\ retryAsked' = TRUE
            /\ UNCHANGED status
       ELSE /\ status' = "error"
            /\ UNCHANGED <<silentUsed, retryAsked>>
  /\ UNCHANGED <<phase, aborted, effectVars, resuming, shown, visible, choiceVars, warm>>

\* markLive: a frame of the shown stream is presented.
FrameDecoded ==
  /\ cur # Nobody /\ shown = cur /\ frameArmed
  /\ frameArmed' = FALSE
  /\ status' = "live" /\ mediaTimer' = FALSE
  /\ silentUsed' = FALSE /\ resuming' = FALSE
  /\ UNCHANGED <<attemptVars, cur, curTier, stallTimer, retryAsked, shown, visible,
                 choiceVars, warm>>

\* stalled or waiting: a frame must come again, or playing within 3 s.
VideoStalls ==
  /\ cur # Nobody /\ ~stallTimer
  /\ stallTimer' = TRUE /\ frameArmed' = TRUE
  /\ UNCHANGED <<attemptVars, cur, curTier, mediaTimer, tileVars, shown, visible,
                 choiceVars, warm>>

VideoPlays ==
  /\ stallTimer /\ stallTimer' = FALSE
  /\ UNCHANGED <<attemptVars, cur, curTier, mediaTimer, frameArmed, tileVars, shown,
                 visible, choiceVars, warm>>

ShowsError ==
  /\ status' = "error"
  /\ UNCHANGED <<attemptVars, cur, curTier, frameArmed, retryAsked, silentUsed, resuming,
                 shown, visible, choiceVars, warm>>

StallFires == stallTimer /\ stallTimer' = FALSE /\ UNCHANGED mediaTimer /\ ShowsError
MediaTimeout == mediaTimer /\ mediaTimer' = FALSE /\ UNCHANGED stallTimer /\ ShowsError
VideoError == cur # Nobody /\ UNCHANGED <<mediaTimer, stallTimer>> /\ ShowsError

-------------------------------------------------------------------------------
(* The user, the tab, the network *)

\* Retry stands on the error screen and on the pill of a stalled stream.
RetryOffered(stale) == status = "error" \/ (stale /\ status = "live")

Retry(stale) ==
  /\ RetryOffered(stale)
  /\ retryAsked' = TRUE
  /\ UNCHANGED <<attemptVars, effectVars, status, silentUsed, resuming, shown,
                 visible, choiceVars, warm>>

\* requestReconnect: visible again and online again count once.
TabOrNetworkReturns(v) ==
  /\ v \/ visible
  /\ visible' = v
  /\ IF v /\ status = "error" /\ ~resuming
       THEN resuming' = TRUE /\ retryAsked' = TRUE
       ELSE UNCHANGED <<resuming, retryAsked>>
  /\ UNCHANGED <<attemptVars, effectVars, status, silentUsed, shown,
                 choiceVars, warm>>

LinkChanges(t) ==
  /\ t # link /\ link' = t
  /\ UNCHANGED <<attemptVars, effectVars, tileVars, shown, visible, quality, warm>>

\* onSelectQuality, from the menu over the picture: another choice aborts the attempt
\* under way at once; the effect runs again only if the path differs.
SelectQuality(q) ==
  /\ cur # Nobody /\ quality' = q
  /\ aborted' = IF q # quality THEN [aborted EXCEPT ![cur] = TRUE] ELSE aborted
  /\ UNCHANGED <<phase, outcome, effectVars, tileVars, shown, visible, link, warm>>

\* A warmup, started when the page learns who is signed in, ends: the first to
\* finish is kept, one that fails forgets whatever was kept.
WarmupEnds(ok) ==
  /\ ok # warm /\ warm' = ok
  /\ UNCHANGED <<attemptVars, effectVars, tileVars, shown, visible, choiceVars>>

\* It ages past its time, or the network drops.
WarmDropped ==
  /\ warm /\ warm' = FALSE
  /\ UNCHANGED <<attemptVars, effectVars, tileVars, shown, visible, choiceVars>>

-------------------------------------------------------------------------------
LiveInit ==
  /\ phase = [a \in Attempts |-> "free"]
  /\ aborted = [a \in Attempts |-> FALSE]
  /\ outcome = [a \in Attempts |-> FALSE]
  /\ cur = Nobody /\ curTier = "hq" /\ retryAsked = FALSE /\ status = "idle"
  /\ shown = Nobody
  /\ mediaTimer = FALSE /\ stallTimer = FALSE /\ frameArmed = FALSE
  /\ silentUsed = FALSE /\ resuming = FALSE
  /\ visible = TRUE /\ quality = "auto" /\ link = "hq"
  /\ warm = FALSE

AttemptStep(a) ==
  \/ EffectRuns(a) \/ MountTile(a)
  \/ OfferReady(a) \/ OfferFails(a)
  \/ PostAnswered(a) \/ PostFails(a)
  \/ AnswerApplied(a) \/ AnswerRejected(a)
  \/ PcConnected(a) \/ PcDrops(a)

PictureStep ==
  \/ FrameDecoded \/ VideoStalls \/ VideoPlays
  \/ StallFires \/ MediaTimeout \/ VideoError

ViewerStep ==
  \/ UnmountTile
  \/ \E stale \in BOOLEAN : Retry(stale)
  \/ \E v \in BOOLEAN : TabOrNetworkReturns(v)
  \/ \E t \in Tiers : LinkChanges(t)
  \/ \E q \in Qualities : SelectQuality(q)
  \/ \E ok \in BOOLEAN : WarmupEnds(ok)
  \/ WarmDropped

LiveNext == (\E a \in Attempts : AttemptStep(a)) \/ PictureStep \/ ViewerStep

LiveSpec == LiveInit /\ [][LiveNext]_liveVars

-------------------------------------------------------------------------------
LiveTypeOK ==
  /\ phase \in [Attempts -> InFlight \cup {"free", "up", "closed"}]
  /\ {aborted, outcome} \subseteq [Attempts -> BOOLEAN]
  /\ {cur, shown} \subseteq Attempts \cup {Nobody}
  /\ {curTier, link} \subseteq Tiers /\ quality \in Qualities
  /\ status \in {"idle", "connecting", "live", "error"}
  /\ {retryAsked, mediaTimer, stallTimer, frameArmed, silentUsed, resuming, visible,
      warm}
       \subseteq BOOLEAN

\* A superseded attempt leaves nothing behind: only the attempt of the mounted
\* effect is connected or shown, and whatever was closed has its outcome in the
\* ledger (webrtc.ts: "a superseded connection's close() must not blank a newer
\* connection's live video"; every error path closes its peer connection).
SupersededIsGone ==
  /\ shown # Nobody => shown = cur /\ phase[shown] = "up"
  /\ \A a \in Attempts :
       /\ phase[a] = "up" => a = cur
       /\ phase[a] = "closed" => outcome[a]
       /\ phase[a] \in InFlight /\ a # cur => aborted[a]

\* "Connecting" is never for ever: an attempt is under way or the media timer runs,
\* whatever was chosen, dropped or retried since (VideoTile: the first frame has 8 s).
ConnectingEnds == status = "connecting" => phase[cur] \in InFlight \/ mediaTimer
=============================================================================
