-------------------------- MODULE ViewerPages_proofs ---------------------------
(* Theorems about what everybody has on screen: the notices of the shell, the    *)
(* watch page with its live picture, the events page, the clip viewer and the    *)
(* alerts on the device, each for every value of its constants. The parts share  *)
(* no variable; each has a section of its own here, with the invariant of its    *)
(* module.                                                                       *)
EXTENDS ShellNotices, LiveVideo, WatchPage, EventsPage, ClipViewer, PushClient,
        AlertDelivery, SequenceTheorems, TLAPS

-------------------------------------------------------------------------------
(* ShellNotices. A timer that is armed is due a whole delay after the outage, or *)
(* the sign-in, it is about; what a timer has set is about the present one.      *)

Instants ==
  /\ clock \in Nat /\ closedSince \in Nat /\ authedSince \in Nat
  /\ escalated \in BOOLEAN /\ graceElapsed \in BOOLEAN

EscalationDue ==
  /\ escalateAt # Off => wsState = "closed" /\ escalateAt = closedSince + EscalateTime
  /\ escalated /\ wsState = "closed" => clock >= closedSince + EscalateTime

GraceDue ==
  /\ graceAt # Off => shellAuth = "authed" /\ graceAt = authedSince + GraceTime
  /\ graceElapsed => shellAuth = "authed" /\ clock >= authedSince + GraceTime

NoticesInv == Instants /\ EscalationDue /\ GraceDue

LEMMA NoticesConstants == GraceTime \in Nat /\ EscalateTime \in Nat /\ DismissTime \in Nat
                          /\ MaxNow \in Nat
  BY NoticesAssumption

LEMMA NoticesInitHolds == NoticesInit => NoticesInv
<1> SUFFICES ASSUME NoticesInit PROVE NoticesInv
  OBVIOUS
<1>1. Instants
  BY DEF NoticesInit, Instants
<1>2. EscalationDue /\ GraceDue
  BY DEF NoticesInit, EscalationDue, GraceDue
<1>. QED  BY <1>1, <1>2 DEF NoticesInv

LEMMA NoticesStepKeeps == NoticesInv /\ [NoticesNext]_noticesVars => NoticesInv'
<1> SUFFICES ASSUME NoticesInv, [NoticesNext]_noticesVars PROVE NoticesInv'
  OBVIOUS
<1> USE NoticesConstants DEF NoticesInv, Instants, EscalationDue, GraceDue
<1>1. ASSUME NEW s \in {"connecting", "open", "closed"}, SocketTold(s) PROVE NoticesInv'
  BY <1>1 DEF SocketTold, graceVars
<1>2. CASE EscalationFires
  BY <1>2 DEF EscalationFires, graceVars
<1>3. ASSUME NEW a \in {"authed", "anon"}, NEW x \in BOOLEAN, AuthChanges(a, x)
      PROVE  NoticesInv'
  BY <1>3 DEF AuthChanges
<1>4. CASE GraceFires
  BY <1>4 DEF GraceFires, bannerVars
<1>5. CASE ClockTick
  BY <1>5 DEF ClockTick, bannerVars, graceVars
<1>6. CASE /\ \/ LoginSubmitted \/ PasswordProbed
              \/ \E e \in {"credentials", "connection"} : LoginRefused(e)
              \/ \E stored \in BOOLEAN : DismissDenied(stored)
              \/ UNCHANGED noticesVars
  <2>1. UNCHANGED <<clock, bannerVars, graceVars>>
    BY <1>6 DEF LoginSubmitted, PasswordProbed, LoginRefused, DismissDenied, noticesVars
  <2>. QED  BY <2>1 DEF bannerVars, graceVars
<1>7. ASSUME NEW p \in {"default", "granted", "denied"}, Reload(p) PROVE NoticesInv'
  BY <1>7 DEF Reload
<1>. QED  BY <1>1, <1>2, <1>3, <1>4, <1>5, <1>6, <1>7 DEF NoticesNext

LEMMA NoticesInvImplies == NoticesInv => BannerIsNotEarly
  BY NoticesConstants
  DEF NoticesInv, Instants, EscalationDue, GraceDue, BannerIsNotEarly, BannerKind

\* The red banner is about an outage that has lasted the whole escalation time, the amber one
\* shows after a whole grace (ConnectionBanner's two effects), however outages and sign-ins
\* follow each other and however late the timers are.
THEOREM BannerWaits == NoticesSpec => []BannerIsNotEarly
<1>. QED  BY NoticesInitHolds, NoticesStepKeeps, NoticesInvImplies, PTL DEF NoticesSpec

\* What NoticesTypeOK says, one variable at a time.
NoticesTyped ==
  /\ clock \in 0..MaxNow
  /\ closedSince \in Moments /\ authedSince \in Moments /\ dismissedUntil \in Moments
  /\ graceAt \in Moments /\ escalateAt \in Moments
  /\ shellAuth \in {"loading", "authed", "anon"} /\ wsState \in {"connecting", "open", "closed"}
  /\ graceElapsed \in BOOLEAN /\ escalated \in BOOLEAN /\ wasExpired \in BOOLEAN
  /\ submitting \in BOOLEAN /\ capsLock \in BOOLEAN /\ showPassword \in BOOLEAN
  /\ dismissed \in BOOLEAN
  /\ loginError \in {"none", "credentials", "connection"}
  /\ permission \in {"default", "granted", "denied"}

LEMMA NoticesTypes == NoticesTyped <=> NoticesTypeOK
  BY DEF NoticesTyped, NoticesTypeOK

LEMMA MomentsAre ==
  /\ 0 \in 0..MaxNow /\ 0..MaxNow \subseteq Moments /\ Off \in Moments
  /\ \A t \in 0..MaxNow : /\ t + GraceTime \in Moments /\ t + EscalateTime \in Moments
                          /\ t + DismissTime \in Moments
  BY NoticesAssumption DEF Moments

\* The shell's state is well typed, whenever its timers fire.
LEMMA NoticesTypeKept == NoticesTyped /\ [NoticesNext]_noticesVars => NoticesTyped'
<1> SUFFICES ASSUME NoticesTyped, [NoticesNext]_noticesVars PROVE NoticesTyped'
  OBVIOUS
<1> USE NoticesAssumption, MomentsAre DEF NoticesTyped
<1>1. ASSUME NEW s \in {"connecting", "open", "closed"}, SocketTold(s) PROVE NoticesTyped'
  BY <1>1 DEF SocketTold, graceVars, formVars, pushVars
<1>2. CASE EscalationFires
  BY <1>2 DEF EscalationFires, graceVars, formVars, pushVars
<1>3. ASSUME NEW a \in {"authed", "anon"}, NEW x \in BOOLEAN, AuthChanges(a, x)
      PROVE  NoticesTyped'
  BY <1>3 DEF AuthChanges, pushVars
<1>4. CASE GraceFires
  BY <1>4 DEF GraceFires, bannerVars, formVars, pushVars
<1>5. CASE ClockTick
  BY <1>5 DEF ClockTick, bannerVars, graceVars, formVars, pushVars
<1>6. CASE LoginSubmitted
  BY <1>6 DEF LoginSubmitted, bannerVars, graceVars, pushVars
<1>7. ASSUME NEW e \in {"credentials", "connection"}, LoginRefused(e) PROVE NoticesTyped'
  BY <1>7 DEF LoginRefused, bannerVars, graceVars, pushVars
<1>11. CASE PasswordProbed
  <2>1. /\ UNCHANGED <<clock, bannerVars, graceVars, pushVars, submitting, loginError>>
        /\ \/ capsLock' \in BOOLEAN /\ showPassword' = showPassword
           \/ showPassword' = ~showPassword /\ capsLock' = capsLock
    BY <1>11 DEF PasswordProbed
  <2>2. capsLock' \in BOOLEAN /\ showPassword' \in BOOLEAN
    BY <2>1, Zenon
  <2>. QED  BY <2>1, <2>2 DEF bannerVars, graceVars, pushVars
<1>8. ASSUME NEW stored \in BOOLEAN, DismissDenied(stored) PROVE NoticesTyped'
  BY <1>8 DEF DismissDenied, bannerVars, graceVars, formVars
<1>9. ASSUME NEW p \in {"default", "granted", "denied"}, Reload(p) PROVE NoticesTyped'
  BY <1>9 DEF Reload, IsDismissed
<1>10. CASE UNCHANGED noticesVars
  BY <1>10 DEF noticesVars, bannerVars, graceVars, formVars, pushVars
<1>. QED
  BY <1>1, <1>2, <1>3, <1>4, <1>5, <1>6, <1>7, <1>8, <1>9, <1>10, <1>11
  DEF NoticesNext

LEMMA NoticesInitTyped == NoticesInit => NoticesTyped
  BY MomentsAre DEF NoticesInit, NoticesTyped

-------------------------------------------------------------------------------
(* LiveVideo. A superseded attempt is gone, and the tile that connects has an effect. *)

LivePhases == InFlight \cup {"free", "up", "closed"}

\* A tile that says "connecting" has an effect, which is what ConnectingEnds is about.
LiveInv ==
  /\ LiveTypeOK
  /\ SupersededIsGone
  /\ ConnectingEnds
  /\ status = "connecting" => cur # Nobody

-------------------------------------------------------------------------------
LEMMA LiveInitHolds == LiveInit => LiveInv
  BY LiveAssumption
  DEF LiveInit, LiveInv, LiveTypeOK, SupersededIsGone, ConnectingEnds, InFlight, Qualities

LEMMA TierForTyped == LiveTypeOK => TierFor(quality, link) \in Tiers
  BY DEF LiveTypeOK, TierFor, Qualities

\* The cleanup leaves nothing connected, and what it closes has its outcome.
LEMMA CleanedLeavesNothing ==
  ASSUME LiveInv
  PROVE  LET c == Cleaned(phase, outcome) IN
         /\ c.ph \in [Attempts -> LivePhases] /\ c.out \in [Attempts -> BOOLEAN]
         /\ \A a \in Attempts :
              /\ c.ph[a] # "up"
              /\ c.ph[a] = "closed" => c.out[a]
              /\ c.ph[a] \in InFlight => phase[a] = c.ph[a]
<1> DEFINE c == Cleaned(phase, outcome)
<1> USE DEF LiveInv
<1>1. /\ phase \in [Attempts -> LivePhases] /\ outcome \in [Attempts -> BOOLEAN]
      /\ "closed" \in LivePhases
  BY DEF LiveTypeOK, LivePhases
<1>2. CASE cur # Nobody /\ phase[cur] = "up"
  <2>1. c.ph = [phase EXCEPT ![cur] = "closed"] /\ c.out = [outcome EXCEPT ![cur] = TRUE]
    BY <1>2 DEF Cleaned, Settled
  <2>2. cur \in Attempts
    BY <1>2 DEF LiveTypeOK
  <2>. QED  BY <1>1, <2>1, <2>2 DEF SupersededIsGone, InFlight
<1>3. CASE ~(cur # Nobody /\ phase[cur] = "up")
  <2>1. c.ph = phase /\ c.out = outcome
    BY <1>3 DEF Cleaned
  <2>. QED  BY <1>1, <1>3, <2>1, LiveAssumption DEF SupersededIsGone
<1>. QED  BY <1>2, <1>3

\* An effect runs: the attempt before is aborted or closed, and the new one is under way.
LEMMA LiveStartKeeps ==
  ASSUME LiveInv, NEW a \in Attempts, StartAttempt(a),
         UNCHANGED <<visible, choiceVars>>, silentUsed' \in BOOLEAN
  PROVE  LiveInv'
<1> DEFINE c == Cleaned(phase, outcome)
<1> USE DEF LiveInv
<1>1. /\ c.ph \in [Attempts -> LivePhases] /\ c.out \in [Attempts -> BOOLEAN]
      /\ \A b \in Attempts :
           /\ c.ph[b] # "up"
           /\ c.ph[b] = "closed" => c.out[b]
           /\ c.ph[b] \in InFlight => phase[b] = c.ph[b]
  BY CleanedLeavesNothing
<1> HIDE DEF c
<1>2. /\ phase' = [c.ph EXCEPT ![a] = FirstPhase]
      /\ outcome' = [c.out EXCEPT ![a] = FALSE]
      /\ aborted' = [b \in Attempts |-> b # a /\ (aborted[b] \/ b = cur)]
      /\ cur' = a /\ a # cur /\ status' = "connecting"
  BY DEF StartAttempt, c
<1>3. FirstPhase \in InFlight /\ InFlight \subseteq LivePhases
  BY DEF FirstPhase, InFlight, LivePhases
<1>4. /\ phase' \in [Attempts -> LivePhases] /\ outcome' \in [Attempts -> BOOLEAN]
      /\ aborted' \in [Attempts -> BOOLEAN] /\ phase'[a] \in InFlight
  BY <1>1, <1>2, <1>3 DEF LiveTypeOK
<1>5. shown' = Nobody
  BY DEF StartAttempt, SupersededIsGone
<1>6. SupersededIsGone'
  <2>1. ASSUME NEW b \in Attempts
        PROVE  /\ phase'[b] # "up"
               /\ phase'[b] = "closed" => outcome'[b]
               /\ phase'[b] \in InFlight /\ b # a => aborted'[b]
    <3>1. CASE b = a
      BY <1>2, <1>4, <3>1 DEF InFlight
    <3>2. CASE b # a
      <4>1. phase'[b] = c.ph[b] /\ outcome'[b] = c.out[b]
        BY <1>1, <1>2, <3>2
      <4>2. phase'[b] \in InFlight => aborted[b] \/ b = cur
        BY <1>1, <4>1 DEF SupersededIsGone
      <4>. QED  BY <1>1, <1>2, <3>2, <4>1, <4>2
    <3>. QED  BY <3>1, <3>2
  <2>. QED  BY <1>2, <1>5, <2>1 DEF SupersededIsGone
<1>7. LiveTypeOK'
  <2>1. curTier' \in Tiers
    BY TierForTyped DEF StartAttempt
  <2>2. /\ retryAsked' = FALSE /\ resuming' = FALSE /\ mediaTimer' = FALSE
        /\ stallTimer' = FALSE /\ frameArmed' = TRUE /\ warm' = FALSE
    BY DEF StartAttempt, ClaimWarmed
  <2>. QED  BY <1>2, <1>4, <1>5, <2>1, <2>2 DEF LiveTypeOK, LivePhases, choiceVars
<1>8. ConnectingEnds' /\ cur' # Nobody
  BY <1>2, <1>4, LiveAssumption DEF ConnectingEnds
<1>. QED  BY <1>6, <1>7, <1>8

\* An attempt fails or is found to be superseded: its connection is closed and settled, and
\* the picture it may have shown goes.
LEMMA LiveCloseKeeps ==
  ASSUME LiveInv, NEW a \in Attempts, CloseAttempt(a), UNCHANGED aborted, UNCHANGED cur
  PROVE  /\ phase' \in [Attempts -> LivePhases] /\ outcome' \in [Attempts -> BOOLEAN]
         /\ shown' \in Attempts \cup {Nobody}
         /\ SupersededIsGone'
         /\ \A b \in Attempts : b # a => phase'[b] = phase[b]
  BY DEF CloseAttempt, Settled, LiveInv, LiveTypeOK, SupersededIsGone, LivePhases, InFlight

LEMMA LiveRejectsKeeps ==
  ASSUME LiveInv, NEW a \in Attempts, Rejects(a)
  PROVE  LiveInv'
<1> USE DEF LiveInv
<1>1. /\ CloseAttempt(a) /\ status' = IF a = cur THEN "error" ELSE status
      /\ UNCHANGED <<aborted, cur, curTier, mediaTimer, stallTimer, frameArmed, retryAsked,
                     silentUsed, resuming, visible, quality, link, warm>>
  BY DEF Rejects, effectVars, choiceVars
<1>2. /\ phase' \in [Attempts -> LivePhases] /\ outcome' \in [Attempts -> BOOLEAN]
      /\ shown' \in Attempts \cup {Nobody}
      /\ SupersededIsGone'
      /\ \A b \in Attempts : b # a => phase'[b] = phase[b]
  BY <1>1, LiveCloseKeeps
<1>3. LiveTypeOK'
  BY <1>1, <1>2 DEF LiveTypeOK, LivePhases
<1>4. ConnectingEnds' /\ (status' = "connecting" => cur' # Nobody)
  BY <1>1, <1>2 DEF ConnectingEnds, LiveTypeOK
<1>. QED  BY <1>2, <1>3, <1>4

\* An attempt that goes on to its next await: under way before and after.
LEMMA LiveAdvanceKeeps ==
  ASSUME LiveInv, NEW a \in Attempts, NEW next \in InFlight, phase[a] \in InFlight,
         phase' = [phase EXCEPT ![a] = next],
         UNCHANGED <<aborted, outcome, effectVars, tileVars, shown, visible, choiceVars, warm>>
  PROVE  LiveInv'
<1> USE DEF LiveInv
<1>1. phase' \in [Attempts -> LivePhases] /\ phase'[a] \in InFlight
  BY DEF LiveTypeOK, LivePhases
<1>2. \A b \in Attempts : phase'[b] = phase[b] \/ (b = a /\ phase'[b] \in InFlight)
  BY DEF LiveTypeOK
<1>3. "up" \notin InFlight /\ "closed" \notin InFlight
  BY DEF InFlight
<1>4. LiveTypeOK'
  BY <1>1 DEF LiveTypeOK, LivePhases, effectVars, tileVars, choiceVars
<1>5. SupersededIsGone'
  BY <1>2, <1>3 DEF SupersededIsGone, LiveTypeOK, effectVars
<1>6. ConnectingEnds' /\ (status' = "connecting" => cur' # Nobody)
  BY <1>2 DEF ConnectingEnds, LiveTypeOK, effectVars, tileVars
<1>. QED  BY <1>4, <1>5, <1>6

LEMMA AttemptStepKeeps ==
  ASSUME LiveInv, NEW a \in Attempts, AttemptStep(a)
  PROVE  LiveInv'
<1> USE DEF LiveInv
<1>1. CASE EffectRuns(a) \/ MountTile(a)
  <2>1. StartAttempt(a) /\ UNCHANGED <<visible, choiceVars>> /\ silentUsed' \in BOOLEAN
    BY <1>1 DEF EffectRuns, MountTile, LiveTypeOK
  <2>. QED  BY <2>1, LiveStartKeeps
<1>2. CASE OfferReady(a)
  BY <1>2, LiveAdvanceKeeps DEF OfferReady, InFlight
<1>3. CASE PostAnswered(a)
  BY <1>3, LiveAdvanceKeeps DEF PostAnswered, InFlight
<1>4. CASE OfferFails(a) \/ PostFails(a) \/ AnswerRejected(a)
  BY <1>4, LiveRejectsKeeps DEF OfferFails, PostFails, AnswerRejected
<1>5. CASE AnswerApplied(a)
  <2>1. UNCHANGED <<aborted, cur, curTier, stallTimer, frameArmed, tileVars, visible,
                    choiceVars, warm>>
    BY <1>5 DEF AnswerApplied
  <2>2. CASE a # cur
    <3>1. CloseAttempt(a) /\ UNCHANGED mediaTimer
      BY <1>5, <2>2 DEF AnswerApplied
    <3>2. /\ phase' \in [Attempts -> LivePhases] /\ outcome' \in [Attempts -> BOOLEAN]
          /\ shown' \in Attempts \cup {Nobody}
          /\ SupersededIsGone'
          /\ \A b \in Attempts : b # a => phase'[b] = phase[b]
      BY <2>1, <3>1, LiveCloseKeeps
    <3>3. LiveTypeOK'
      BY <2>1, <3>1, <3>2 DEF LiveTypeOK, LivePhases, tileVars, choiceVars
    <3>4. ConnectingEnds' /\ (status' = "connecting" => cur' # Nobody)
      BY <2>1, <2>2, <3>1, <3>2 DEF ConnectingEnds, LiveTypeOK, tileVars
    <3>. QED  BY <3>2, <3>3, <3>4
  <2>3. CASE a = cur
    <3>1. /\ phase' = [phase EXCEPT ![a] = "up"] /\ mediaTimer' = TRUE
          /\ shown' \in {shown, a} /\ UNCHANGED outcome /\ phase[a] = "remote"
          /\ aborted[a] => shown' = shown
      BY <1>5, <2>3 DEF AnswerApplied
    <3>2. shown \in {Nobody, a}
      BY <2>3 DEF SupersededIsGone
    <3>3. LiveTypeOK'
      BY <2>1, <3>1 DEF LiveTypeOK, tileVars, choiceVars
    <3>4. SupersededIsGone'
      BY <2>1, <2>3, <3>1, <3>2 DEF SupersededIsGone, LiveTypeOK, InFlight
    <3>5. ConnectingEnds' /\ (status' = "connecting" => cur' # Nobody)
      BY <2>1, <3>1 DEF ConnectingEnds, tileVars
    <3>. QED  BY <3>3, <3>4, <3>5
  <2>. QED  BY <2>2, <2>3
<1>6. CASE PcConnected(a)
  <2>1. /\ outcome' = [outcome EXCEPT ![a] = TRUE]
        /\ UNCHANGED <<phase, aborted, effectVars, tileVars, shown, visible, choiceVars, warm>>
    BY <1>6 DEF PcConnected, Settled
  <2>. QED
    BY <2>1 DEF LiveTypeOK, SupersededIsGone, ConnectingEnds, effectVars, tileVars, choiceVars
<1>7. CASE PcDrops(a)
  <2>1. /\ outcome' \in {outcome, [outcome EXCEPT ![a] = TRUE]}
        /\ silentUsed' \in BOOLEAN /\ retryAsked' \in BOOLEAN /\ status' \in {status, "error"}
        /\ UNCHANGED <<phase, aborted, effectVars, resuming, shown, visible, choiceVars, warm>>
    BY <1>7 DEF PcDrops, Settled, LiveTypeOK
  <2>. QED
    BY <2>1 DEF LiveTypeOK, SupersededIsGone, ConnectingEnds, effectVars, choiceVars
<1>. QED
  BY <1>1, <1>2, <1>3, <1>4, <1>5, <1>6, <1>7 DEF AttemptStep

\* What the picture does touches no attempt; what takes the timer away ends "connecting".
LEMMA PictureStepKeeps ==
  ASSUME LiveInv, PictureStep
  PROVE  LiveInv'
<1> USE DEF LiveInv
<1>1. CASE FrameDecoded
  BY <1>1 DEF FrameDecoded, attemptVars, choiceVars, LiveTypeOK, SupersededIsGone, ConnectingEnds
<1>2. CASE VideoStalls \/ VideoPlays
  BY <1>2 DEF VideoStalls, VideoPlays, attemptVars, tileVars, choiceVars, LiveTypeOK,
              SupersededIsGone, ConnectingEnds
<1>3. CASE StallFires \/ MediaTimeout \/ VideoError
  <2>1. /\ mediaTimer' \in BOOLEAN /\ stallTimer' \in BOOLEAN /\ status' = "error"
        /\ UNCHANGED <<attemptVars, cur, curTier, frameArmed, retryAsked, silentUsed, resuming,
                       shown, visible, choiceVars, warm>>
    BY <1>3 DEF StallFires, MediaTimeout, VideoError, ShowsError, LiveTypeOK
  <2>. QED
    BY <2>1 DEF attemptVars, choiceVars, LiveTypeOK, SupersededIsGone, ConnectingEnds
<1>. QED
  BY <1>1, <1>2, <1>3 DEF PictureStep

\* The user's choices abort and ask again, they never leave "connecting" without an end.
LEMMA ViewerStepKeeps ==
  ASSUME LiveInv, ViewerStep
  PROVE  LiveInv'
<1> USE DEF LiveInv
<1>1. CASE UnmountTile
  <2> DEFINE c == Cleaned(phase, outcome)
  <2>1. /\ c.ph \in [Attempts -> LivePhases] /\ c.out \in [Attempts -> BOOLEAN]
        /\ \A b \in Attempts :
             /\ c.ph[b] # "up"
             /\ c.ph[b] = "closed" => c.out[b]
             /\ c.ph[b] \in InFlight => phase[b] = c.ph[b]
    BY CleanedLeavesNothing
  <2> HIDE DEF c
  <2>2. /\ phase' = c.ph /\ outcome' = c.out /\ aborted' = [aborted EXCEPT ![cur] = TRUE]
        /\ shown' = Nobody /\ cur' = Nobody /\ status' = "idle" /\ cur # Nobody
    BY <1>1 DEF UnmountTile, c
  <2>3. /\ retryAsked' = FALSE /\ mediaTimer' = FALSE /\ stallTimer' = FALSE
        /\ frameArmed' = FALSE /\ silentUsed' = FALSE /\ resuming' = FALSE
        /\ UNCHANGED <<curTier, visible, quality, link, warm>>
    BY <1>1 DEF UnmountTile
  <2>4. LiveTypeOK'
    BY <2>1, <2>2, <2>3 DEF LiveTypeOK, LivePhases
  <2>5. SupersededIsGone'
    <3>1. \A b \in Attempts : c.ph[b] \in InFlight => aborted'[b]
      BY <2>1, <2>2 DEF SupersededIsGone, LiveTypeOK
    <3>. QED  BY <2>1, <2>2, <3>1 DEF SupersededIsGone
  <2>. QED  BY <2>2, <2>4, <2>5 DEF ConnectingEnds
<1>2. ASSUME NEW stale \in BOOLEAN, Retry(stale) PROVE LiveInv'
  BY <1>2 DEF Retry, attemptVars, effectVars, choiceVars, LiveTypeOK, SupersededIsGone,
              ConnectingEnds
<1>3. ASSUME NEW v \in BOOLEAN, TabOrNetworkReturns(v) PROVE LiveInv'
  <2>1. /\ visible' \in BOOLEAN /\ resuming' \in BOOLEAN /\ retryAsked' \in BOOLEAN
        /\ UNCHANGED <<attemptVars, effectVars, status, silentUsed, shown, choiceVars, warm>>
    BY <1>3 DEF TabOrNetworkReturns, LiveTypeOK
  <2>. QED
    BY <2>1 DEF attemptVars, effectVars, choiceVars, LiveTypeOK, SupersededIsGone,
                ConnectingEnds
<1>4. ASSUME NEW t \in Tiers, LinkChanges(t) PROVE LiveInv'
  BY <1>4 DEF LinkChanges, attemptVars, effectVars, tileVars, LiveTypeOK, SupersededIsGone,
              ConnectingEnds
<1>5. ASSUME NEW q \in Qualities, SelectQuality(q) PROVE LiveInv'
  <2>1. /\ quality' \in Qualities /\ cur \in Attempts
        /\ aborted' \in {aborted, [aborted EXCEPT ![cur] = TRUE]}
        /\ UNCHANGED <<phase, outcome, effectVars, tileVars, shown, visible, link, warm>>
    BY <1>5 DEF SelectQuality, LiveTypeOK
  <2>. QED
    BY <2>1 DEF effectVars, tileVars, LiveTypeOK, SupersededIsGone, ConnectingEnds
<1>6. CASE WarmDropped \/ \E ok \in BOOLEAN : WarmupEnds(ok)
  <2>1. /\ warm' \in BOOLEAN
        /\ UNCHANGED <<attemptVars, effectVars, tileVars, shown, visible, choiceVars>>
    BY <1>6 DEF WarmDropped, WarmupEnds
  <2>. QED
    BY <2>1 DEF attemptVars, effectVars, tileVars, choiceVars, LiveTypeOK, SupersededIsGone,
                ConnectingEnds
<1>. QED
  BY <1>1, <1>2, <1>3, <1>4, <1>5, <1>6 DEF ViewerStep

LEMMA LiveStepKeeps == LiveInv /\ [LiveNext]_liveVars => LiveInv'
<1> SUFFICES ASSUME LiveInv, [LiveNext]_liveVars PROVE LiveInv'
  OBVIOUS
<1>1. ASSUME NEW a \in Attempts, AttemptStep(a) PROVE LiveInv'
  BY <1>1, AttemptStepKeeps
<1>2. CASE PictureStep
  BY <1>2, PictureStepKeeps
<1>3. CASE ViewerStep
  BY <1>3, ViewerStepKeeps
<1>4. CASE UNCHANGED liveVars
  BY <1>4 DEF liveVars, attemptVars, effectVars, tileVars, choiceVars, LiveInv, LiveTypeOK,
              SupersededIsGone, ConnectingEnds
<1>. QED
  BY <1>1, <1>2, <1>3, <1>4 DEF LiveNext

-------------------------------------------------------------------------------
\* The tile and its attempts are well typed, and the two facts below hold with it.
THEOREM LiveIsSound == LiveSpec => []LiveInv
<1>. QED  BY LiveInitHolds, LiveStepKeeps, PTL DEF LiveSpec

\* Only the attempt of the mounted effect is connected or shown; an older one is aborted,
\* or closed with its outcome in the ledger, for any number of attempts (VideoTile's connect
\* effect, webrtc.ts).
THEOREM NothingSuperseded == LiveSpec => []SupersededIsGone
<1>1. LiveInv => SupersededIsGone
  BY DEF LiveInv
<1>. QED  BY <1>1, LiveIsSound, PTL

\* A tile that says "connecting" has an attempt under way or a timer that ends it, whatever
\* the user chose and the network did meanwhile (VideoTile's media timer).
THEOREM ConnectingHasAnEnd == LiveSpec => []ConnectingEnds
<1>1. LiveInv => ConnectingEnds
  BY DEF LiveInv
<1>. QED  BY <1>1, LiveIsSound, PTL

-------------------------------------------------------------------------------
(* WatchPage. A sample that is on its way is no older than any that was shown, and  *)
(* the full-screen view has its entry.                                              *)

StatusTyped ==
  /\ sample \in 0..MaxSample /\ newest \in 0..MaxSample
  /\ latest \in 0..MaxSample \cup {Unknown}
  /\ abortedPolls \subseteq 0..MaxSample
  /\ poll \in 0..MaxSample \cup {Unknown, Sent}
  /\ streak \in 0..FailureStreakThreshold
  /\ tabShown \in BOOLEAN

ScreenTyped ==
  /\ full \in BOOLEAN /\ entry \in BOOLEAN /\ left \in BOOLEAN /\ nativeFull \in BOOLEAN
  /\ backs \in 0..MaxBacks
  /\ chrome \in {"shown", "fading", "hidden"} /\ wakeLock \in {"none", "asked", "held"}
  /\ todayLoad \in BOOLEAN /\ snapshot \in {"idle", "busy", "preview"}
  /\ today \in {"loading", "list", "error", "list-and-error"}

NoneOlder ==
  /\ newest <= sample
  /\ poll \notin {Unknown, Sent} => newest <= poll /\ poll <= sample
  /\ latest # Unknown => latest = newest

StatusInv == StatusTyped /\ NoneOlder
ScreenInv == ScreenTyped /\ (full => entry)
WatchInv == StatusInv /\ ScreenInv

LEMMA WatchConstants ==
  /\ MaxSample \in Nat /\ MaxBacks \in Nat /\ Unknown \notin Nat /\ Sent \notin Nat
  /\ 0 \in 0..MaxSample /\ 0 \in 0..MaxBacks /\ 0 \in 0..FailureStreakThreshold
  BY WatchAssumption DEF FailureStreakThreshold

LEMMA WatchTyped == WatchInv => WatchTypeOK
  BY DEF WatchInv, StatusInv, ScreenInv, StatusTyped, ScreenTyped, WatchTypeOK

LEMMA WatchInitHolds == WatchInit => WatchInv
<1> SUFFICES ASSUME WatchInit PROVE WatchInv
  OBVIOUS
<1>1. StatusTyped /\ ScreenTyped /\ (full => entry)
  BY WatchConstants DEF WatchInit, StatusTyped, ScreenTyped
<1>2. NoneOlder
  BY WatchConstants DEF WatchInit, NoneOlder
<1>. QED  BY <1>1, <1>2 DEF WatchInv, StatusInv, ScreenInv

\* The polls: one by one, since each moves samples between the places they are kept.
LEMMA PollStep ==
  ASSUME WatchInv,
         \/ SampleTaken \/ Tick \/ StatusServed \/ StatusArrives \/ PollFails \/ TabHidden
         \/ TabReturns \/ \E s \in abortedPolls : AbortedEnds(s)
  PROVE  StatusInv'
<1> USE WatchConstants DEF WatchInv, StatusInv, StatusTyped, NoneOlder
<1>1. CASE SampleTaken
  BY <1>1 DEF SampleTaken
<1>2. Abort => abortedPolls' \subseteq 0..MaxSample
  BY DEF Abort
<1>3. CASE Tick \/ TabHidden \/ TabReturns
  <2>1. /\ poll' \in {Unknown, Sent} /\ tabShown' \in BOOLEAN
        /\ abortedPolls' \subseteq 0..MaxSample
        /\ UNCHANGED <<sample, latest, streak, newest>>
    BY <1>2, <1>3 DEF Tick, TabHidden, TabReturns
  <2>. QED  BY <2>1
<1>4. CASE StatusServed
  BY <1>4 DEF StatusServed
<1>5. CASE StatusArrives
  BY <1>5 DEF StatusArrives
<1>6. CASE PollFails
  <2>1. streak' \in 0..FailureStreakThreshold
    BY <1>6 DEF PollFails, FailureStreakThreshold
  <2>. QED  BY <1>6, <2>1 DEF PollFails
<1>7. ASSUME NEW s \in abortedPolls, AbortedEnds(s) PROVE StatusInv'
  BY <1>7 DEF AbortedEnds
<1>. QED  BY <1>1, <1>3, <1>4, <1>5, <1>6, <1>7

LEMMA ScreenStep ==
  ASSUME WatchInv, MountedStep
  PROVE  ScreenInv'
<1> USE DEF WatchInv, ScreenInv, ScreenTyped
<1>1. CASE UNCHANGED <<fullVars, panelVars>>
  BY <1>1 DEF fullVars, panelVars
<1>2. CASE TabReturns
  BY <1>2 DEF TabReturns, AskWakeLock
<1>3. CASE EnterFull
  BY <1>3 DEF EnterFull, panelVars
<1>4. GoBack => /\ backs' \in 0..MaxBacks /\ full' \in BOOLEAN /\ (full' => full /\ entry)
                /\ wakeLock' \in {"none", "asked", "held"}
  <2>1. backs \in 0..MaxBacks /\ MaxBacks \in Nat
    BY WatchConstants
  <2>2. backs < MaxBacks => backs + 1 \in 0..MaxBacks
    BY <2>1
  <2>. QED  BY <2>2 DEF GoBack, DropWakeLock
<1>5. CASE ExitPressed
  BY <1>4, <1>5 DEF ExitPressed, panelVars
<1>6. CASE NativeFullEnds
  BY <1>4, <1>6 DEF NativeFullEnds, panelVars
<1>7. CASE Popped
  <2>1. /\ backs \in 0..MaxBacks /\ MaxBacks \in Nat
        /\ backs' = IF backs > 0 THEN backs - 1 ELSE 0
    BY <1>7, WatchConstants DEF Popped
  <2>2. backs' \in 0..MaxBacks
    BY <2>1
  <2>. QED  BY <1>7, <2>2 DEF Popped, DropWakeLock, panelVars
<1>8. CASE TapPicture \/ PressControl \/ ChromeTimer
  <2>1. /\ chrome' \in {"shown", "fading", "hidden"}
        /\ UNCHANGED <<full, entry, backs, left, nativeFull, wakeLock, panelVars>>
    BY <1>8 DEF TapPicture, PressControl, ChromeTimer
  <2>. QED  BY <2>1 DEF panelVars
<1>9. CASE TakeSnapshot \/ PreviewClosed \/ ReloadToday
  <2>1. /\ snapshot' \in {"idle", "busy", "preview"} /\ todayLoad' \in BOOLEAN
        /\ UNCHANGED <<fullVars, today>>
    BY <1>9 DEF TakeSnapshot, PreviewClosed, ReloadToday
  <2>. QED  BY <2>1 DEF fullVars
<1>10. ASSUME NEW ok \in BOOLEAN, NativeAnswers(ok) \/ WakeLockAnswers(ok) PROVE ScreenInv'
  BY <1>10 DEF NativeAnswers, WakeLockAnswers, panelVars
<1>11. ASSUME NEW ok \in BOOLEAN, SnapshotSettled(ok) PROVE ScreenInv'
  BY <1>11 DEF SnapshotSettled, fullVars
<1>12. ASSUME NEW ok \in BOOLEAN, TodaySettled(ok) PROVE ScreenInv'
  <2>1. today' \in {"list", "list-and-error", "error"}
    BY <1>12 DEF TodaySettled
  <2>. QED  BY <1>12, <2>1 DEF TodaySettled, fullVars
<1>13. ASSUME NEW s \in abortedPolls, AbortedEnds(s) PROVE UNCHANGED <<fullVars, panelVars>>
  BY <1>13 DEF AbortedEnds
<1>14. SampleTaken \/ Tick \/ StatusServed \/ StatusArrives \/ PollFails \/ TabHidden
       => UNCHANGED <<fullVars, panelVars>>
  BY DEF SampleTaken, Tick, StatusServed, StatusArrives, PollFails, TabHidden
<1>. QED
  BY <1>1, <1>2, <1>3, <1>5, <1>6, <1>7, <1>8, <1>9, <1>10, <1>11, <1>12, <1>13, <1>14
  DEF MountedStep

LEMMA WatchStepKeeps == WatchInv /\ [WatchNext]_watchVars => WatchInv'
<1> SUFFICES ASSUME WatchInv, [WatchNext]_watchVars PROVE WatchInv'
  OBVIOUS
<1>1. CASE UNCHANGED watchVars
  <2>1. StatusInv'
    BY <1>1 DEF watchVars, statusVars, WatchInv, StatusInv, StatusTyped, NoneOlder
  <2>2. ScreenInv'
    BY <1>1 DEF watchVars, fullVars, panelVars, WatchInv, ScreenInv, ScreenTyped
  <2>. QED  BY <2>1, <2>2 DEF WatchInv
<1>2. CASE MountedStep
  <2>1. ScreenInv'
    BY <1>2, ScreenStep
  <2>2. CASE UNCHANGED statusVars
    BY <2>1, <2>2 DEF statusVars, WatchInv, StatusInv, StatusTyped, NoneOlder
  <2>3. CASE ~UNCHANGED statusVars
    <3>1. \/ SampleTaken \/ Tick \/ StatusServed \/ StatusArrives \/ PollFails \/ TabHidden
          \/ TabReturns \/ \E s \in abortedPolls : AbortedEnds(s)
      BY <1>2, <2>3
      DEF MountedStep, EnterFull, ExitPressed, NativeFullEnds, Popped, NativeAnswers,
          WakeLockAnswers, SnapshotSettled, TodaySettled, TapPicture, PressControl,
          ChromeTimer, TakeSnapshot, PreviewClosed, ReloadToday
    <3>2. StatusInv'
      BY <3>1, PollStep
    <3>. QED  BY <2>1, <3>2 DEF WatchInv
  <2>. QED  BY <2>2, <2>3
<1>. QED  BY <1>1, <1>2 DEF WatchNext

\* What a step of NeverGoesBack does.
OnlyForward == (latest' # Unknown => latest' >= newest) /\ (full' => entry')

LEMMA WatchGoesForward == WatchInv /\ WatchInv' /\ [WatchNext]_watchVars => [OnlyForward]_watchVars
<1> SUFFICES ASSUME WatchInv, WatchInv', WatchNext PROVE OnlyForward
  OBVIOUS
<1>1. full' => entry'
  BY DEF WatchInv, ScreenInv
<1>2. ASSUME latest' # Unknown PROVE latest' >= newest
  <2>1. newest \in Nat /\ newest' \in Nat /\ latest' = newest'
    BY <1>2, WatchConstants DEF WatchInv, StatusInv, StatusTyped, NoneOlder
  <2>2. newest' = newest \/ newest' >= newest
    <3>1. CASE StatusArrives
      BY <2>1, <3>1 DEF StatusArrives, WatchInv, StatusInv, NoneOlder
    <3>2. CASE ~StatusArrives
      BY <3>2
      DEF WatchNext, MountedStep, SampleTaken, Tick, StatusServed, PollFails, TabHidden,
          TabReturns, EnterFull, ExitPressed, NativeFullEnds, Popped, AbortedEnds,
          NativeAnswers, WakeLockAnswers, SnapshotSettled, TodaySettled, TapPicture,
          PressControl, ChromeTimer, TakeSnapshot, PreviewClosed, ReloadToday, statusVars
    <3>. QED  BY <3>1, <3>2
  <2>. QED  BY <2>1, <2>2
<1>. QED  BY <1>1, <1>2 DEF OnlyForward

\* The page's state is well typed, and the sample on its way is at least as new as the one on
\* screen (useStatus).
THEOREM WatchIsSound == WatchSpec => [](WatchTypeOK /\ WatchInv)
<1>. QED  BY WatchInitHolds, WatchStepKeeps, WatchTyped, PTL DEF WatchSpec

\* A status is replaced by a newer one or by none, whatever polls were given up (useStatus),
\* and the full-screen view always has the entry Back takes first (enterFull, exitFull).
THEOREM NoStepBack == WatchSpec => NeverGoesBack
<1>1. WatchSpec => []WatchInv
  BY WatchIsSound, PTL
<1>2. WatchSpec => [][OnlyForward]_watchVars
  BY <1>1, WatchGoesForward, PTL DEF WatchSpec
<1>3. [OnlyForward]_watchVars =>
        [ /\ latest' # Unknown => latest' >= newest
          /\ full' => entry' ]_watchVars
  BY DEF OnlyForward
<1>. QED  BY <1>2, <1>3, PTL DEF NeverGoesBack

-------------------------------------------------------------------------------
(* EventsPage. The skeleton and the busy button each have what ends them; what the  *)
(* dialog names is what is deleted.                                                 *)

EventsStatus ==
  /\ loading \in BOOLEAN /\ error \in BOOLEAN /\ hasMore \in BOOLEAN
  /\ selectionMode \in BOOLEAN /\ bulkDeleting \in BOOLEAN

Nameable == EventIds \cup Days

ListTyped ==
  /\ list \subseteq EventIds /\ selectedIds \subseteq EventIds
  /\ loads \subseteq LoadKinds /\ filters \subseteq FilterKinds
  /\ day \in Days \cup {None}
  /\ opened \in EventIds \cup {None} /\ deepLink \in EventIds \cup {None}

DeletesTyped ==
  /\ asked # None => /\ asked.how \in {"one", "bulk", "day"} /\ asked.what \subseteq Nameable
                     /\ asked.counted \subseteq EventIds
  /\ \A r \in requests : r.what \subseteq Nameable /\ r.snapshot \subseteq EventIds

EventsInv == EventsStatus /\ ListTyped /\ DeletesTyped /\ SpinnersEnd

LEMMA EventsTyped == EventsInv => EventsTypeOK
  BY DEF EventsInv, EventsStatus, ListTyped, DeletesTyped, Nameable, EventsTypeOK

LEMMA EventsInitHolds == EventsInit => EventsInv
<1> SUFFICES ASSUME EventsInit PROVE EventsInv
  OBVIOUS
<1> USE DEF EventsInit
<1>1. EventsStatus
  BY DEF EventsStatus
<1>2. ListTyped
  BY DEF ListTyped, LoadKinds
<1>3. DeletesTyped
  BY DEF DeletesTyped
<1>4. SpinnersEnd
  BY DEF SpinnersEnd
<1>. QED  BY <1>1, <1>2, <1>3, <1>4 DEF EventsInv

\* A load that begins is one more that will end the skeleton; one that ends, other than an
\* older page, ends it.
LEMMA LoadStepKeeps == EventsInv /\ LoadStep => EventsInv'
<1> SUFFICES ASSUME EventsInv, LoadStep PROVE EventsInv'
  OBVIOUS
<1> USE DEF EventsInv
<1>1. ASSUME requests' = requests, asked' = asked PROVE DeletesTyped'
  BY <1>1 DEF DeletesTyped
<1>2. ASSUME NEW d \in Days \cup {None}, QueryDay(d), UNCHANGED deleteVars PROVE EventsInv'
  <2>1. ListTyped'
    BY <1>2 DEF QueryDay, Begin, ListTyped, LoadKinds, selectionVars
  <2>2. EventsStatus'
    BY <1>2 DEF QueryDay, Waits, EventsStatus, selectionVars
  <2>3. SpinnersEnd'
    BY <1>2 DEF QueryDay, Begin, SpinnersEnd, selectionVars, deleteVars
  <2>. QED  BY <1>1, <1>2, <2>1, <2>2, <2>3 DEF deleteVars
<1>3. CASE ClearDay \/ RetryLoad \/ TabVisible \/ LoadMore
  <2>1. ListTyped'
    BY <1>3 DEF ClearDay, ClearDayFilter, RetryLoad, TabVisible, LoadMore, Begin, ListTyped,
                LoadKinds, selectionVars, choiceOfEvents
  <2>2. EventsStatus'
    BY <1>3 DEF ClearDay, ClearDayFilter, RetryLoad, TabVisible, LoadMore, Waits,
                EventsStatus, selectionVars
  <2>3. SpinnersEnd'
    <3>1. (loading' => loading \/ "all" \in loads') /\ loads \subseteq loads'
      <4>1. ClearDay \/ RetryLoad => "all" \in loads' /\ loads \subseteq loads'
        BY DEF ClearDay, ClearDayFilter, RetryLoad, Begin
      <4>2. TabVisible \/ LoadMore => (loading' => loading) /\ loads \subseteq loads'
        BY DEF TabVisible, LoadMore, Begin
      <4>. QED  BY <1>3, <4>1, <4>2
    <3>2. bulkDeleting' = bulkDeleting /\ requests' = requests
      BY <1>3 DEF ClearDay, RetryLoad, TabVisible, LoadMore, selectionVars, deleteVars
    <3>. QED  BY <3>1, <3>2 DEF SpinnersEnd
  <2>. QED
    BY <1>1, <1>3, <2>1, <2>2, <2>3 DEF ClearDay, RetryLoad, TabVisible, LoadMore, deleteVars
<1>4. ASSUME NEW k \in LoadKinds, ListFails(k) PROVE EventsInv'
  <2>1. ListTyped'
    BY <1>4 DEF ListFails, ListTyped, selectionVars, deleteVars, choiceOfEvents
  <2>2. EventsStatus'
    BY <1>4 DEF ListFails, EventsStatus, selectionVars, deleteVars, choiceOfEvents
  <2>3. SpinnersEnd'
    BY <1>4 DEF ListFails, SpinnersEnd, selectionVars, deleteVars, choiceOfEvents
  <2>. QED  BY <1>1, <1>4, <2>1, <2>2, <2>3 DEF ListFails, deleteVars
<1>5. ASSUME NEW k \in LoadKinds, NEW evs \in SUBSET EventIds, ListAnswered(k, evs)
      PROVE  EventsInv'
  <2>1. ListTyped'
    BY <1>5 DEF ListAnswered, ListTyped, selectionVars, deleteVars, choiceOfEvents
  <2>2. EventsStatus'
    BY <1>5 DEF ListAnswered, EventsStatus, selectionVars, deleteVars, choiceOfEvents
  <2>3. SpinnersEnd'
    BY <1>5 DEF ListAnswered, SpinnersEnd, selectionVars, deleteVars, choiceOfEvents
  <2>. QED  BY <1>1, <1>5, <2>1, <2>2, <2>3 DEF ListAnswered, deleteVars
<1>6. ASSUME NEW evs \in SUBSET EventIds, NEW last \in BOOLEAN, MoreSettled(evs, last)
      PROVE  EventsInv'
  <2>1. ListTyped'
    BY <1>6 DEF MoreSettled, ListTyped, selectionVars, deleteVars, choiceOfEvents
  <2>2. EventsStatus'
    BY <1>6 DEF MoreSettled, EventsStatus, selectionVars, deleteVars, choiceOfEvents
  <2>3. SpinnersEnd'
    BY <1>6 DEF MoreSettled, SpinnersEnd, selectionVars, deleteVars, choiceOfEvents
  <2>. QED  BY <1>1, <1>6, <2>1, <2>2, <2>3 DEF MoreSettled, deleteVars
<1>7. ASSUME NEW e \in EventIds, EventArrives(e) PROVE EventsInv'
  <2>1. ListTyped'
    BY <1>7 DEF EventArrives, ListTyped, selectionVars, deleteVars, choiceOfEvents
  <2>2. EventsStatus'
    BY <1>7 DEF EventArrives, EventsStatus, selectionVars, deleteVars, choiceOfEvents
  <2>3. SpinnersEnd'
    BY <1>7 DEF EventArrives, SpinnersEnd, selectionVars, deleteVars, choiceOfEvents
  <2>. QED  BY <1>1, <1>7, <2>1, <2>2, <2>3 DEF EventArrives, deleteVars
<1>8. CASE DeepLinkResolves
  <2>1. ListTyped'
    BY <1>8 DEF DeepLinkResolves, ListTyped, listVars, selectionVars, deleteVars, choiceOfEvents
  <2>2. EventsStatus'
    BY <1>8 DEF DeepLinkResolves, EventsStatus, listVars, selectionVars, deleteVars, choiceOfEvents
  <2>3. SpinnersEnd'
    BY <1>8 DEF DeepLinkResolves, SpinnersEnd, listVars, selectionVars, deleteVars, choiceOfEvents
  <2>. QED  BY <1>1, <1>8, <2>1, <2>2, <2>3 DEF DeepLinkResolves, deleteVars
<1>. QED
  BY <1>2, <1>3, <1>4, <1>5, <1>6, <1>7, <1>8
  DEF LoadStep, SelectDay, ChangeTimes, ListTyped

LEMMA RowStepKeeps == EventsInv /\ RowStep => EventsInv'
<1> SUFFICES ASSUME EventsInv, RowStep PROVE EventsInv'
  OBVIOUS
<1> USE DEF EventsInv
<1>1. UNCHANGED <<loading, loads, bulkDeleting, requests, asked>>
  BY DEF RowStep, SetFilter, EnterSelection, ExitSelection, PressRow, CloseClip, ClipDeleted,
         listVars, selectionVars, deleteVars
<1>2. SpinnersEnd' /\ DeletesTyped'
  BY <1>1 DEF SpinnersEnd, DeletesTyped
<1>3. EventsStatus'
  BY <1>1 DEF RowStep, SetFilter, EnterSelection, ExitSelection, PressRow, CloseClip,
              ClipDeleted, listVars, selectionVars, EventsStatus
<1>4. ListTyped'
  <2> USE DEF ListTyped, listVars, selectionVars, choiceOfEvents
  <2>1. ASSUME NEW k \in FilterKinds, SetFilter(k) PROVE ListTyped'
    BY <2>1 DEF SetFilter
  <2>2. CASE EnterSelection
    BY <2>2 DEF EnterSelection
  <2>3. CASE ExitSelection
    BY <2>3 DEF ExitSelection
  <2>4. CASE CloseClip
    BY <2>4 DEF CloseClip
  <2>5. ASSUME NEW e \in EventIds, PressRow(e) PROVE ListTyped'
    BY <2>5 DEF PressRow
  <2>6. ASSUME NEW e \in EventIds, ClipDeleted(e) PROVE ListTyped'
    BY <2>6 DEF ClipDeleted
  <2>. QED  BY <2>1, <2>2, <2>3, <2>4, <2>5, <2>6 DEF RowStep
<1>. QED  BY <1>2, <1>3, <1>4

\* A bulk delete's answer is the only one that ends the busy button, and takes away only
\* its own request.
LEMMA DeleteStepKeeps == EventsInv /\ DeleteStep => EventsInv'
<1> SUFFICES ASSUME EventsInv, DeleteStep PROVE EventsInv'
  OBVIOUS
<1> USE DEF EventsInv
<1>1. ASSUME NEW how \in {"one", "bulk", "day"}, NEW what \in SUBSET Nameable,
             NEW counted \in SUBSET EventIds, Ask(how, what, counted)
      PROVE  EventsInv'
  <2>1. DeletesTyped'
    BY <1>1 DEF Ask, DeletesTyped
  <2>. QED
    BY <1>1, <2>1 DEF Ask, ListTyped, EventsStatus, SpinnersEnd, listVars, selectionVars,
                      choiceOfEvents
<1>2. ASSUME NEW e \in EventIds, AskDeleteOne(e) PROVE EventsInv'
  BY <1>1, <1>2 DEF AskDeleteOne, Nameable
<1>3. CASE AskBulkDelete
  BY <1>1, <1>3 DEF AskBulkDelete, Nameable, ListTyped
<1>4. CASE AskDeleteDay
  BY <1>1, <1>4 DEF AskDeleteDay, DeleteDayOffered, Nameable, ListTyped
<1>5. CASE Declined
  BY <1>5 DEF Declined, DeletesTyped, ListTyped, EventsStatus, SpinnersEnd, listVars,
              selectionVars, choiceOfEvents
<1>6. CASE Confirmed
  <2> DEFINE r == [how |-> asked.how, what |-> Target, snapshot |-> list]
  <2>1. /\ requests' = requests \cup {r} /\ asked' = None
        /\ r.how = asked.how /\ r.what = asked.what /\ r.snapshot = list
    BY <1>6 DEF Confirmed, Target
  <2>2. asked.what \subseteq Nameable
    BY <1>6 DEF Confirmed, DeletesTyped
  <2>3. DeletesTyped'
    BY <2>1, <2>2 DEF DeletesTyped, ListTyped
  <2>4. ListTyped'
    BY <1>6 DEF Confirmed, ListTyped, choiceOfEvents
  <2>5. EventsStatus'
    BY <1>6 DEF Confirmed, EventsStatus
  <2>6. SpinnersEnd'
    BY <1>6, <2>1 DEF Confirmed, SpinnersEnd
  <2>. QED  BY <2>3, <2>4, <2>5, <2>6
<1>7. ASSUME NEW r \in requests, NEW ok \in BOOLEAN, OneSettled(r, ok) PROVE EventsInv'
  <2>1. requests' = requests \ {r} /\ asked' = asked /\ r.how = "one"
    BY <1>7 DEF OneSettled, Settle
  <2>2. DeletesTyped'
    BY <2>1 DEF DeletesTyped
  <2>3. ListTyped'
    BY <1>7 DEF OneSettled, ListTyped, DeletesTyped, choiceOfEvents, selectionVars
  <2>4. EventsStatus'
    BY <1>7 DEF OneSettled, EventsStatus, selectionVars
  <2>5. SpinnersEnd'
    BY <1>7, <2>1 DEF OneSettled, SpinnersEnd, selectionVars
  <2>. QED  BY <2>2, <2>3, <2>4, <2>5
<1>8. ASSUME NEW r \in requests, NEW failed \in SUBSET r.what, BulkSettled(r, failed)
      PROVE  EventsInv'
  <2>1. requests' = requests \ {r} /\ asked' = asked
    BY <1>8 DEF BulkSettled, Settle
  <2>2. DeletesTyped'
    BY <2>1 DEF DeletesTyped
  <2>3. ListTyped'
    BY <1>8 DEF BulkSettled, ListTyped, DeletesTyped, choiceOfEvents
  <2>4. EventsStatus'
    BY <1>8 DEF BulkSettled, EventsStatus
  <2>5. SpinnersEnd'
    BY <1>8 DEF BulkSettled, SpinnersEnd
  <2>. QED  BY <2>2, <2>3, <2>4, <2>5
<1>9. ASSUME NEW r \in requests, NEW ok \in BOOLEAN, DaySettled(r, ok) PROVE EventsInv'
  <2>1. requests' = requests \ {r} /\ asked' = asked /\ r.how = "day"
    BY <1>9 DEF DaySettled, Settle
  <2>2. DeletesTyped'
    BY <2>1 DEF DeletesTyped
  <2>3. ListTyped'
    BY <1>9 DEF DaySettled, ClearDayFilter, Begin, ListTyped, LoadKinds, listVars,
                selectionVars
  <2>4. EventsStatus'
    BY <1>9 DEF DaySettled, ClearDayFilter, Waits, EventsStatus, listVars, selectionVars
  <2>5. SpinnersEnd'
    <3>1. (loading' => loading \/ "all" \in loads') /\ loads \subseteq loads'
      BY <1>9 DEF DaySettled, ClearDayFilter, Begin, listVars
    <3>2. bulkDeleting' = bulkDeleting
      BY <1>9 DEF DaySettled, selectionVars
    <3>. QED  BY <2>1, <3>1, <3>2 DEF SpinnersEnd
  <2>. QED  BY <2>2, <2>3, <2>4, <2>5
<1>. QED
  BY <1>2, <1>3, <1>4, <1>5, <1>6, <1>7, <1>8, <1>9 DEF DeleteStep

LEMMA EventsStepKeeps == EventsInv /\ [EventsNext]_eventsVars => EventsInv'
<1> SUFFICES ASSUME EventsInv, UNCHANGED eventsVars PROVE EventsInv'
  BY LoadStepKeeps, RowStepKeeps, DeleteStepKeeps DEF EventsNext
<1>. QED
  BY DEF eventsVars, listVars, choiceOfEvents, selectionVars, deleteVars, EventsInv,
         EventsStatus, ListTyped, DeletesTyped, SpinnersEnd

\* The page's state is well typed, and neither the skeleton nor the busy button stays without
\* a request that will end it, however loads and deletes overlap and fail (Events.tsx).
THEOREM NothingSpinsForEver == EventsSpec => [](EventsTypeOK /\ SpinnersEnd)
<1>1. EventsInv => EventsTypeOK /\ SpinnersEnd
  BY EventsTyped DEF EventsInv
<1>. QED  BY <1>1, EventsInitHolds, EventsStepKeeps, PTL DEF EventsSpec

-------------------------------------------------------------------------------
(* ClipViewer. A flag names an event somebody spoke of, and the interval probes the *)
(* event on view as long as the promise stands.                                     *)

Spoken == missingFor \in told \cup {NoClip} /\ erroredFor \in told \cup {NoClip}

AsksForIt == viewed \in HasOwnClip \ aged /\ ClipGone => polling = viewed

\* Only an event with a clip of its own is probed.
ProbesOwn == polling \in HasOwnClip \cup {NoClip}

ClipInv == ClipTypeOK /\ Spoken /\ AsksForIt /\ ProbesOwn

LEMMA ClipConstants == HasOwnClip \subseteq Clips /\ NoClip \notin Clips
  BY ClipAssumption

LEMMA ClipInitHolds == ClipInit => ClipInv
<1> SUFFICES ASSUME ClipInit PROVE ClipInv
  OBVIOUS
<1> USE ClipConstants DEF ClipInit
<1>1. ClipTypeOK
  BY DEF ClipTypeOK
<1>2. Spoken /\ AsksForIt /\ ProbesOwn
  BY DEF Spoken, AsksForIt, ProbesOwn, ClipGone, Gone, Missing
<1>. QED  BY <1>1, <1>2 DEF ClipInv

\* A render that shows e with the flags m and err leaves the promise kept, and the player and
\* the interval well typed.
LEMMA RenderKeeps ==
  ASSUME ClipInv, NEW e \in Clips, viewed' = e, aged' = aged,
         NEW m \in Clips \cup {NoClip}, NEW err \in Clips \cup {NoClip}, Render(e, m, err)
  PROVE  /\ AsksForIt'
         /\ missingFor' = m /\ erroredFor' = err
         /\ polling' \in HasOwnClip \cup {NoClip}
         /\ element' \in {"none", "loading", "loaded"} /\ heard' \in BOOLEAN
<1>1. missingFor' = m /\ erroredFor' = err /\ ClipGone' = Gone(e, m, err)
  BY DEF Render, ClipGone, Gone, Missing
<1>2. polling' \in HasOwnClip \cup {NoClip}
  BY DEF Render, Poll, PollingFor, ClipInv, ProbesOwn
<1>3. element' \in {"none", "loading", "loaded"} /\ heard' \in BOOLEAN
  BY DEF Render, Player, ClipInv, ClipTypeOK
<1>4. AsksForIt'
  <2>1. CASE e # viewed \/ Gone(e, m, err) # ClipGone
    BY <1>1, <2>1 DEF Render, Poll, PollingFor, AsksForIt
  <2>2. CASE e = viewed /\ Gone(e, m, err) = ClipGone
    BY <1>1, <2>2 DEF Render, Poll, ClipInv, AsksForIt
  <2>. QED  BY <2>1, <2>2
<1>. QED  BY <1>1, <1>2, <1>3, <1>4

\* What neither renders nor moves the flags keeps them, the event and the interval.
LEMMA QuietKeeps ==
  ASSUME ClipInv, ClipTypeOK', aged \subseteq aged', told \subseteq told',
         UNCHANGED <<viewed, missingFor, erroredFor, polling>>
  PROVE  ClipInv'
<1>1. ClipGone' = ClipGone
  BY DEF ClipGone, Gone, Missing
<1>. QED  BY <1>1 DEF ClipInv, Spoken, AsksForIt, ProbesOwn

LEMMA MountedKeeps ==
  ASSUME ClipInv, NEW e \in Clips, Mounted(e), aged' = aged, onDisk' \subseteq HasOwnClip
  PROVE  ClipInv'
<1> USE ClipConstants DEF ClipInv, Mounted
<1>1. ClipTypeOK'
  BY DEF ClipTypeOK
<1>2. Spoken' /\ AsksForIt' /\ ProbesOwn'
  BY DEF Spoken, AsksForIt, ProbesOwn, ClipGone, Gone, Missing
<1>. QED  BY <1>1, <1>2

LEMMA ShowKeeps ==
  ASSUME ClipInv, NEW e \in Clips, Show(e)
  PROVE  ClipInv'
<1>1. missingFor \in Clips \cup {NoClip} /\ erroredFor \in Clips \cup {NoClip}
  BY DEF ClipInv, ClipTypeOK
<1>2. /\ AsksForIt' /\ missingFor' = missingFor /\ erroredFor' = erroredFor
      /\ polling' \in HasOwnClip \cup {NoClip}
      /\ element' \in {"none", "loading", "loaded"} /\ heard' \in BOOLEAN
  BY <1>1, RenderKeeps DEF Show, serverVars
<1>3. ClipTypeOK'
  BY <1>1, <1>2, ClipConstants DEF Show, serverVars, ClipInv, ClipTypeOK
<1>4. Spoken'
  BY <1>2 DEF Show, ClipInv, Spoken
<1>. QED  BY <1>2, <1>3, <1>4 DEF ClipInv, ProbesOwn

LEMMA ProbeKeeps ==
  ASSUME ClipInv, NEW e \in Clips, ProbeAnswered(e) \/ PollAnswered(e)
  PROVE  ClipInv'
<1> DEFINE m == IF ProbeAnswered(e) THEN e ELSE NoClip
           err == IF ProbeAnswered(e) THEN erroredFor ELSE NoClip
<1>1. CASE Render(viewed, m, err) /\ (ProbeAnswered(e) => e \notin onDisk)
  <2>1. /\ viewed \in Clips /\ viewed' = viewed /\ aged' = aged
        /\ m \in Clips \cup {NoClip} /\ err \in Clips \cup {NoClip}
    BY DEF ProbeAnswered, PollAnswered, serverVars, ClipInv, ClipTypeOK
  <2>2. /\ AsksForIt' /\ missingFor' = m /\ erroredFor' = err
        /\ polling' \in HasOwnClip \cup {NoClip}
        /\ element' \in {"none", "loading", "loaded"} /\ heard' \in BOOLEAN
    BY <1>1, <2>1, RenderKeeps
  <2>3. ClipTypeOK'
    <3>1. /\ told' \in {told, told \cup {e}} /\ UNCHANGED <<viewed, onDisk, aged, readyFor, tracks>>
          /\ firstProbes' \subseteq firstProbes /\ pollProbes' \subseteq pollProbes
      BY DEF ProbeAnswered, PollAnswered, serverVars
    <3>. QED  BY <2>1, <2>2, <3>1, ClipConstants DEF ClipInv, ClipTypeOK
  <2>4. Spoken'
    BY <1>1, <2>2 DEF ProbeAnswered, PollAnswered, ClipInv, Spoken
  <2>. QED  BY <2>2, <2>3, <2>4 DEF ClipInv, ProbesOwn
<1>2. CASE UNCHANGED <<missingFor, erroredFor, polling, element, heard>>
  <2>1. /\ told' \in {told, told \cup {e}} /\ UNCHANGED <<viewed, onDisk, aged, readyFor, tracks>>
        /\ firstProbes' \subseteq firstProbes /\ pollProbes' \subseteq pollProbes
    BY DEF ProbeAnswered, PollAnswered, serverVars
  <2>2. ClipTypeOK'
    BY <1>2, <2>1 DEF ClipInv, ClipTypeOK
  <2>. QED  BY <1>2, <2>1, <2>2, QuietKeeps
<1>3. CASE ProbeAnswered(e)
  BY <1>1, <1>2, <1>3 DEF ProbeAnswered
<1>4. CASE PollAnswered(e) /\ ~ProbeAnswered(e)
  BY <1>1, <1>2, <1>4 DEF PollAnswered
<1>. QED  BY <1>3, <1>4

LEMMA ErrorKeeps == ClipInv /\ PlayerErrors => ClipInv'
<1> SUFFICES ASSUME ClipInv, PlayerErrors PROVE ClipInv'
  OBVIOUS
<1>1. viewed \in Clips /\ viewed' = viewed /\ aged' = aged /\ missingFor \in Clips \cup {NoClip}
  BY DEF PlayerErrors, serverVars, ClipInv, ClipTypeOK
<1>2. /\ AsksForIt' /\ missingFor' = missingFor /\ erroredFor' = viewed
      /\ polling' \in HasOwnClip \cup {NoClip}
      /\ element' \in {"none", "loading", "loaded"} /\ heard' \in BOOLEAN
  BY <1>1, RenderKeeps DEF PlayerErrors
<1>3. ClipTypeOK'
  BY <1>1, <1>2, ClipConstants DEF PlayerErrors, serverVars, ClipInv, ClipTypeOK
<1>4. Spoken'
  BY <1>2 DEF PlayerErrors, ClipInv, Spoken
<1>. QED  BY <1>2, <1>3, <1>4 DEF ClipInv, ProbesOwn

LEMMA ClipStepKeeps == ClipInv /\ [ClipNext]_clipVars => ClipInv'
<1> SUFFICES ASSUME ClipInv, [ClipNext]_clipVars PROVE ClipInv'
  OBVIOUS
<1>1. ASSUME NEW e \in Clips, SwipeTo(e) \/ OpenRow(e) PROVE ClipInv'
  BY <1>1, ShowKeeps DEF SwipeTo, OpenRow
<1>2. ASSUME NEW e \in Clips, Reopened(e) PROVE ClipInv'
  BY <1>2, MountedKeeps DEF Reopened, serverVars, ClipInv, ClipTypeOK
<1>3. ASSUME NEW e \in Clips, NEW d \in Clips, DeleteSucceeds(d, e) PROVE ClipInv'
  BY <1>3, MountedKeeps DEF DeleteSucceeds, ClipInv, ClipTypeOK
<1>4. ASSUME NEW e \in Clips, ProbeAnswered(e) \/ PollAnswered(e) PROVE ClipInv'
  BY <1>4, ProbeKeeps
<1>5. ASSUME NEW e \in Clips,
             ProbeFails(e) \/ ClipFinalized(e) \/ ClipPruned(e) \/ WindowPasses(e)
      PROVE  ClipInv'
  <2>1. /\ UNCHANGED <<viewed, missingFor, erroredFor, told, readyFor, element, heard, tracks,
                       polling, pollProbes>>
        /\ aged \subseteq aged' /\ aged' \subseteq aged \cup {e}
        /\ onDisk' \subseteq onDisk \cup ({e} \cap HasOwnClip) /\ firstProbes' \subseteq firstProbes
    BY <1>5 DEF ProbeFails, ClipFinalized, ClipPruned, WindowPasses, serverVars, verdictVars,
                playerVars, probeVars
  <2>2. ClipTypeOK'
    BY <2>1 DEF ClipInv, ClipTypeOK
  <2>. QED  BY <2>1, <2>2, QuietKeeps
<1>6. CASE PollTick
  <2>1. /\ UNCHANGED <<viewed, onDisk, aged, missingFor, erroredFor, told, readyFor, element,
                       heard, tracks, firstProbes>>
        /\ \/ polling \in aged /\ polling' = NoClip /\ pollProbes' = pollProbes
           \/ /\ polling # NoClip /\ polling' = polling
              /\ pollProbes' = pollProbes \cup {polling}
    BY <1>6 DEF PollTick, serverVars, verdictVars, playerVars
  <2>2. polling \in HasOwnClip \cup {NoClip}
    BY DEF ClipInv, ProbesOwn
  <2>3. ClipTypeOK'
    BY <2>1, <2>2, ClipConstants DEF ClipInv, ClipTypeOK
  <2>4. ClipGone' = ClipGone
    BY <2>1 DEF ClipGone, Gone, Missing
  <2>. QED  BY <2>1, <2>3, <2>4 DEF ClipInv, Spoken, AsksForIt, ProbesOwn
<1>7. CASE PlayerLoads
  <2>1. /\ UNCHANGED <<viewed, onDisk, aged, missingFor, erroredFor, told, heard, tracks,
                       firstProbes, polling, pollProbes>>
        /\ element' = "loaded" /\ readyFor' \in {viewed, readyFor}
    BY <1>7 DEF PlayerLoads, serverVars, verdictVars, probeVars
  <2>2. ClipTypeOK'
    BY <2>1 DEF ClipInv, ClipTypeOK
  <2>. QED  BY <2>1, <2>2, QuietKeeps
<1>8. CASE PlayerErrors
  BY <1>8, ErrorKeeps
<1>9. ASSUME NEW ok \in BOOLEAN, TracksAnswered(ok) PROVE ClipInv'
  <2>1. /\ UNCHANGED <<viewed, onDisk, aged, missingFor, erroredFor, told, readyFor, element,
                       heard, firstProbes, polling, pollProbes>>
        /\ tracks' \in {viewed, NoClip}
    BY <1>9 DEF TracksAnswered, serverVars, verdictVars, probeVars
  <2>2. ClipTypeOK'
    BY <2>1 DEF ClipInv, ClipTypeOK
  <2>. QED  BY <2>1, <2>2, QuietKeeps
<1>10. CASE UNCHANGED clipVars
  BY <1>10 DEF clipVars, serverVars, verdictVars, playerVars, probeVars, ClipInv, ClipTypeOK,
               Spoken, AsksForIt, ProbesOwn, ClipGone, Gone, Missing
<1>. QED
  BY <1>1, <1>2, <1>3, <1>4, <1>5, <1>6, <1>7, <1>8, <1>9, <1>10 DEF ClipNext

LEMMA ClipInvImplies == ClipInv => PromiseIsKept
  BY ClipConstants
  DEF ClipInv, ClipTypeOK, Spoken, AsksForIt, PromiseIsKept, ClipGone, Gone, Missing

\* A clip is called gone only on word about that very event, and a video that is promised is
\* asked for (ClipModal's probe and its interval), whatever was in flight for other events.
THEOREM PromisesKept == ClipSpec => []PromiseIsKept
<1>. QED  BY ClipInitHolds, ClipStepKeeps, ClipInvImplies, PTL DEF ClipSpec

-------------------------------------------------------------------------------
(* PushClient. The one step that turns the switch off without the browser's word is *)
(* the server's, and it comes after it.                                             *)

ForgetsLast == toggle = "forget" => ~subscribed

LEMMA ForgetsLastHolds == PushClientSpec => []ForgetsLast
<1>1. PushClientInit => ForgetsLast
  BY DEF PushClientInit, OpenSection, ForgetsLast
<1>2. ForgetsLast /\ [PushClientNext]_pushClientVars => ForgetsLast'
  <2> SUFFICES ASSUME ForgetsLast, [PushClientNext]_pushClientVars, toggle' = "forget"
               PROVE  ~subscribed'
    BY DEF ForgetsLast
  <2>1. CASE ToggleStep
    <3>1. CASE BrowserUnsubscribes
      BY <3>1 DEF BrowserUnsubscribes
    <3>2. CASE ~BrowserUnsubscribes
      <4>1. toggle = "forget" /\ subscribed' = subscribed
        BY <2>1, <3>2
        DEF ToggleStep, MountReads, TurnOn, TurnOff, ToggleFails, PermissionAnswered,
            KeyAnswered, BrowserSubscribes, ServerPersists, ServerForgets, deviceVars
      <4>. QED  BY <4>1 DEF ForgetsLast
    <3>. QED  BY <3>1, <3>2
  <2>2. ASSUME NEW p \in {"default", "granted", "denied"}, NEW known \in BOOLEAN,
               PermissionChanged(p, known)
        PROVE  ~subscribed'
    BY <2>2 DEF PermissionChanged, switchVars, ForgetsLast
  <2>3. CASE UNCHANGED <<toggle, subscribed>>
    BY <2>3 DEF ForgetsLast
  <2>4. \/ ToggleStep
        \/ \E p \in {"default", "granted", "denied"}, known \in BOOLEAN :
             PermissionChanged(p, known)
        \/ UNCHANGED <<toggle, subscribed>>
    BY DEF PushClientNext, ServerPrunes, FiltersLoaded, SaveSettled, EditFilters, SaveFilters,
           ReopenSection, deviceVars, switchVars, pushClientVars
  <2>. QED  BY <2>1, <2>2, <2>3, <2>4
<1>. QED  BY <1>1, <1>2, PTL DEF PushClientSpec

\* What a step of ToggleTellsTruth does.
TurnTellsTruth ==
  toggle # "idle" /\ toggle' = "idle" =>
    /\ ~pushEnabled /\ pushEnabled' => registered'
    /\ pushEnabled /\ ~pushEnabled' => ~subscribed' \/ grant' # "granted"

LEMMA TurnsTell == ForgetsLast /\ [PushClientNext]_pushClientVars => [TurnTellsTruth]_pushClientVars
<1> SUFFICES ASSUME ForgetsLast, PushClientNext, toggle # "idle", toggle' = "idle"
             PROVE  TurnTellsTruth
  BY DEF TurnTellsTruth
<1> USE DEF TurnTellsTruth
<1>1. CASE ToggleFails
  BY <1>1 DEF ToggleFails
<1>2. CASE PermissionAnswered
  <2>1. grant' # "granted" /\ pushEnabled' = FALSE
    BY <1>2 DEF PermissionAnswered, SwitchBecomes
  <2>. QED  BY <2>1
<1>3. CASE ServerPersists
  <2>1. registered' = TRUE /\ pushEnabled' = TRUE
    BY <1>3 DEF ServerPersists, SwitchBecomes
  <2>. QED  BY <2>1
<1>4. CASE BrowserUnsubscribes
  <2>1. pushEnabled' = FALSE /\ subscribed' = FALSE
    BY <1>4 DEF BrowserUnsubscribes, SwitchBecomes
  <2>. QED  BY <2>1
<1>5. CASE ServerForgets
  <2>1. pushEnabled' = FALSE /\ ~subscribed /\ subscribed' = subscribed
    BY <1>5 DEF ServerForgets, SwitchBecomes, ForgetsLast
  <2>. QED  BY <2>1
<1>6. \/ ToggleFails \/ PermissionAnswered \/ ServerPersists \/ BrowserUnsubscribes
      \/ ServerForgets
  BY DEF PushClientNext, ToggleStep, MountReads, TurnOn, TurnOff, KeyAnswered,
         BrowserSubscribes, PermissionChanged, ServerPrunes, FiltersLoaded, SaveSettled,
         EditFilters, SaveFilters, ReopenSection, switchVars
<1>. QED  BY <1>1, <1>2, <1>3, <1>4, <1>5, <1>6

\* A turn of the alerts switch tells the truth about the subscription (togglePush, lib/push),
\* also one that mends an earlier turn that failed halfway.
THEOREM SwitchTellsTruth == PushClientSpec => ToggleTellsTruth
<1>1. PushClientSpec => [][TurnTellsTruth]_pushClientVars
  BY ForgetsLastHolds, TurnsTell, PTL DEF PushClientSpec
<1>2. [TurnTellsTruth]_pushClientVars =>
        [ toggle # "idle" /\ toggle' = "idle" =>
            /\ ~pushEnabled /\ pushEnabled' => registered'
            /\ pushEnabled /\ ~pushEnabled' => ~subscribed' \/ grant' # "granted" ]_pushClientVars
  BY DEF TurnTellsTruth
<1>. QED  BY <1>1, <1>2, PTL DEF ToggleTellsTruth

\* The section's state is well typed.
LEMMA SwitchTypeKept ==
  PushClientTypeOK /\ [PushClientNext]_pushClientVars => PushClientTypeOK'
<1> SUFFICES ASSUME PushClientTypeOK, [PushClientNext]_pushClientVars PROVE PushClientTypeOK'
  OBVIOUS
<1> USE DEF PushClientTypeOK, Enabling, Disabling, Filters
<1>1. ASSUME NEW on \in BOOLEAN, SwitchBecomes(on)
      PROVE  /\ pushEnabled' \in BOOLEAN /\ scheduleValid' \in BOOLEAN
             /\ storedFilters' \in Filters
             /\ {filtersInput, filterLoad, filterSave}' \subseteq Filters \cup {Absent}
  BY <1>1 DEF SwitchBecomes
<1>2. CASE MountReads
  <2>1. mountRead \in BOOLEAN /\ SwitchBecomes(mountRead)
    BY <1>2 DEF MountReads
  <2>. QED  BY <1>1, <1>2, <2>1 DEF MountReads, deviceVars
<1>3. CASE TurnOn \/ TurnOff \/ ToggleFails \/ KeyAnswered \/ BrowserSubscribes
  BY <1>3 DEF TurnOn, TurnOff, ToggleFails, KeyAnswered, BrowserSubscribes, deviceVars, filterVars
<1>4. CASE PermissionAnswered
  <2>1. \/ SwitchBecomes(FALSE)
        \/ UNCHANGED <<pushEnabled, filterVars>>
    BY <1>4 DEF PermissionAnswered
  <2>2. /\ pushEnabled' \in BOOLEAN /\ scheduleValid' \in BOOLEAN /\ storedFilters' \in Filters
        /\ {filtersInput, filterLoad, filterSave}' \subseteq Filters \cup {Absent}
    BY <1>1, <2>1 DEF filterVars
  <2>. QED  BY <1>4, <2>2 DEF PermissionAnswered
<1>5. CASE ServerPersists
  BY <1>1, <1>5 DEF ServerPersists
<1>6. CASE BrowserUnsubscribes
  <2>1. \/ SwitchBecomes(FALSE)
        \/ UNCHANGED <<pushEnabled, filterVars>>
    BY <1>6 DEF BrowserUnsubscribes
  <2>2. /\ pushEnabled' \in BOOLEAN /\ scheduleValid' \in BOOLEAN /\ storedFilters' \in Filters
        /\ {filtersInput, filterLoad, filterSave}' \subseteq Filters \cup {Absent}
    BY <1>1, <2>1 DEF filterVars
  <2>. QED  BY <1>6, <2>2 DEF BrowserUnsubscribes
<1>7. CASE ServerForgets
  BY <1>1, <1>7 DEF ServerForgets
<1>8. ASSUME NEW p \in {"default", "granted", "denied"}, NEW h \in BOOLEAN,
             PermissionChanged(p, h)
      PROVE  PushClientTypeOK'
  BY <1>8 DEF PermissionChanged, switchVars, filterVars
<1>9. CASE ServerPrunes
  BY <1>9 DEF ServerPrunes, switchVars, filterVars
<1>10. ASSUME NEW ok \in BOOLEAN, FiltersLoaded(ok) \/ SaveSettled(ok) PROVE PushClientTypeOK'
  BY <1>10 DEF FiltersLoaded, SaveSettled, deviceVars, switchVars
<1>11. ASSUME NEW f \in Filters, NEW valid \in BOOLEAN, EditFilters(f, valid)
       PROVE  PushClientTypeOK'
  BY <1>11 DEF EditFilters, deviceVars, switchVars
<1>12. CASE SaveFilters \/ ReopenSection
  BY <1>12 DEF SaveFilters, ReopenSection, FormOffered, deviceVars, switchVars
<1>13. CASE UNCHANGED pushClientVars
  BY <1>13 DEF pushClientVars, deviceVars, switchVars, filterVars
<1>. QED
  BY <1>2, <1>3, <1>4, <1>5, <1>6, <1>7, <1>8, <1>9, <1>10, <1>11, <1>12, <1>13
  DEF PushClientNext, ToggleStep

LEMMA SwitchInitTyped == PushClientInit => PushClientTypeOK
  BY DEF PushClientInit, OpenSection, PushClientTypeOK, Enabling, Disabling, Filters

-------------------------------------------------------------------------------
(* AlertDelivery. What is counted was counted by the server, and so the reads, the  *)
(* count and the icon stay within what it can have.                                 *)

UnreadCounts == 0..MaxUnread

DeliveryTyped ==
  /\ tray \subseteq Alerts /\ receipts \subseteq Alerts /\ tapped \subseteq Alerts
  /\ window \in Alerts \cup {"none", "other"}
  /\ unread \in UnreadCounts /\ count \in UnreadCounts /\ icon \in UnreadCounts
  /\ reads \in Seq(UnreadCounts) /\ Len(reads) <= MaxReads

LEMMA ShortSequences ==
  ASSUME NEW S, NEW n \in Nat, NEW s \in Seq(S), Len(s) <= n
  PROVE  s \in BoundedSeq(S, n)
<1>1. Len(s) \in 0..n /\ s \in [1..Len(s) -> S]
  OBVIOUS
<1>. QED  BY <1>1 DEF BoundedSeq, SeqOf

LEMMA DeliveryImplies == DeliveryTyped => DeliveryTypeOK
  BY ShortSequences, DeliveryAssumption DEF DeliveryTyped, DeliveryTypeOK, UnreadCounts

LEMMA DeliveryInitTyped == DeliveryInit => DeliveryTyped
  BY DeliveryAssumption DEF DeliveryInit, DeliveryTyped, UnreadCounts

LEMMA ReadTaken ==
  ASSUME NEW S, NEW s \in Seq(S), NEW i \in DOMAIN s
  PROVE  RemoveAt(s, i) \in Seq(S) /\ Len(RemoveAt(s, i)) <= Len(s) /\ s[i] \in S
<1>1. i \in 1..Len(s)
  OBVIOUS
<1>2. /\ SubSeq(s, 1, i - 1) \in Seq(S) /\ Len(SubSeq(s, 1, i - 1)) = i - 1
      /\ SubSeq(s, i + 1, Len(s)) \in Seq(S) /\ Len(SubSeq(s, i + 1, Len(s))) = Len(s) - i
  BY <1>1, SubSeqProperties
<1>. QED  BY <1>1, <1>2, ConcatProperties DEF RemoveAt

\* The page's window moves, and its badge with it.
LEMMA PageAtKeeps ==
  ASSUME DeliveryTyped, NEW w \in Alerts \cup {"none", "other"}, PageAt(w)
  PROVE  /\ window' \in Alerts \cup {"none", "other"} /\ count' \in UnreadCounts
         /\ reads' \in Seq(UnreadCounts) /\ Len(reads') <= MaxReads
<1>1. 0 \in UnreadCounts /\ <<unread>> \in Seq(UnreadCounts) /\ Len(<<unread>>) = 1 /\ 1 <= MaxReads
      /\ <<>> \in Seq(UnreadCounts) /\ Len(<<>>) = 0 /\ 0 <= MaxReads
  BY DeliveryAssumption DEF DeliveryTyped, UnreadCounts
<1>. QED  BY <1>1 DEF PageAt, DeliveryTyped

LEMMA DeliveryStepKeeps == DeliveryTyped /\ [DeliveryNext]_deliveryVars => DeliveryTyped'
<1> SUFFICES ASSUME DeliveryTyped, [DeliveryNext]_deliveryVars PROVE DeliveryTyped'
  OBVIOUS
<1> USE DEF DeliveryTyped
<1>1. ASSUME NEW alert \in Alerts, PushArrives(alert) \/ Tap(alert) PROVE DeliveryTyped'
  BY <1>1 DEF PushArrives, Tap, badgeVars
<1>2. ASSUME NEW alert \in Alerts, MarkSeen(alert) PROVE DeliveryTyped'
  BY <1>2, DeliveryAssumption DEF MarkSeen, badgeVars, UnreadCounts
<1>3. ASSUME NEW ok \in BOOLEAN, NotificationShown(ok) PROVE DeliveryTyped'
  BY <1>3 DEF NotificationShown, badgeVars
<1>4. ASSUME NEW b \in BOOLEAN, Detected(b) PROVE DeliveryTyped'
  <2>1. /\ unread' \in UnreadCounts /\ count' \in UnreadCounts /\ icon' \in UnreadCounts
        /\ UNCHANGED <<tray, receipts, tapped, window, reads>>
    BY <1>4, DeliveryAssumption DEF Detected, Counts, UnreadCounts, workerVars
  <2>. QED  BY <2>1
<1>5. CASE WindowArrives
  <2>1. /\ window' \in Alerts \cup {"none", "other"} /\ count' \in UnreadCounts
        /\ reads' \in Seq(UnreadCounts) /\ Len(reads') <= MaxReads
    BY <1>5, PageAtKeeps DEF WindowArrives
  <2>. QED  BY <1>5, <2>1 DEF WindowArrives
<1>6. ASSUME NEW w \in Alerts \cup {"none", "other"}, UserMoves(w) PROVE DeliveryTyped'
  <2>1. /\ window' \in Alerts \cup {"none", "other"} /\ count' \in UnreadCounts
        /\ reads' \in Seq(UnreadCounts) /\ Len(reads') <= MaxReads
    BY <1>6, PageAtKeeps DEF UserMoves
  <2>. QED  BY <1>6, <2>1 DEF UserMoves, workerVars
<1>7. CASE AllSeen
  BY <1>7, DeliveryAssumption DEF AllSeen, workerVars, badgeVars, UnreadCounts
<1>8. CASE Reconcile
  <2>1. reads' \in Seq(UnreadCounts) /\ Len(reads') <= MaxReads
    BY <1>8, DeliveryAssumption DEF Reconcile
  <2>. QED  BY <1>8, <2>1 DEF Reconcile, workerVars
<1>9. ASSUME NEW i \in DOMAIN reads, ReconcileAnswered(i) \/ ReconcileFails(i)
      PROVE  DeliveryTyped'
  <2>1. reads' \in Seq(UnreadCounts) /\ Len(reads') <= MaxReads /\ reads[i] \in UnreadCounts
    <3>1. Len(reads) \in Nat /\ MaxReads \in Nat /\ Len(RemoveAt(reads, i)) \in Nat
      BY ReadTaken, DeliveryAssumption
    <3>. QED  BY <1>9, <3>1, ReadTaken DEF ReconcileAnswered, ReconcileFails
  <2>. QED  BY <1>9, <2>1 DEF ReconcileAnswered, ReconcileFails, Counts, workerVars
<1>10. CASE UNCHANGED deliveryVars
  BY <1>10 DEF deliveryVars, workerVars, badgeVars
<1>. QED
  BY <1>1, <1>2, <1>3, <1>4, <1>5, <1>6, <1>7, <1>8, <1>9, <1>10 DEF DeliveryNext

===============================================================================
