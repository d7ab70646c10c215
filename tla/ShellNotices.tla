----------------------------- MODULE ShellNotices -----------------------------
(* What the shell of the client tells the user about itself: the connection      *)
(* banner with its grace, escalation and sustained-outage timers                 *)
(* (ConnectionBanner), the login form with its session-expired notice (Login),   *)
(* and the banner for blocked notifications (PushDeniedBanner).                  *)
(*                                                                               *)
(* Time is discrete. A browser timer may fire late, never early. How the auth    *)
(* state and the socket change is ClientSession's subject: here they change      *)
(* within the transitions that module allows.                                    *)
EXTENDS Naturals

CONSTANTS
  GraceTime,      \* POST_AUTH_GRACE_MS
  EscalateTime,   \* ESCALATE_AFTER_MS
  DismissTime,    \* DISMISS_MS
  MaxNow,         \* bound: the clock
  Off             \* no timer is armed

ASSUME NoticesAssumption ==
  /\ {GraceTime, EscalateTime, DismissTime, MaxNow} \subseteq Nat
  /\ 0 < GraceTime /\ GraceTime < EscalateTime

VARIABLES
  clock,
  shellAuth,                  \* useAuth().state
  wsState,                    \* the state the banner's subscription last stored
  closedSince, authedSince,   \* history: when wsState, shellAuth took its value
  graceAt, graceElapsed,      \* the grace timer is due then; it fired
  escalateAt, escalated,      \* the escalation timer is due then; it fired
  wasExpired,                 \* ?expired=1, read by Login
  submitting, loginError,     \* Login's form
  capsLock, showPassword,
  permission,                 \* Notification.permission of this mount
  dismissedUntil, dismissed   \* PushDeniedBanner: localStorage, component state

bannerVars == <<wsState, closedSince, escalateAt, escalated>>
graceVars == <<shellAuth, authedSince, graceAt, graceElapsed, wasExpired>>
formVars == <<submitting, loginError, capsLock, showPassword>>
pushVars == <<permission, dismissedUntil, dismissed>>
noticesVars == <<clock, bannerVars, graceVars, formVars, pushVars>>

OnLogin == shellAuth = "anon"

\* What ConnectionBanner renders. The recovered variant is missing: it asks for a
\* step from closed to open, and connect() always reports connecting in between.
BannerKind ==
  CASE shellAuth # "authed" -> "hidden"
    [] shellAuth = "authed" /\ wsState = "connecting" -> "connecting"
    [] shellAuth = "authed" /\ wsState = "closed" /\ graceElapsed ->
         IF escalated THEN "closed-hard" ELSE "closed-soft"
    [] OTHER -> "hidden"

-------------------------------------------------------------------------------
\* Mutant of SocketTold: the timer of the outage before is left running.
SocketToldKeepingTimer(s) ==
  /\ s # wsState
  /\ wsState = "closed" => s = "connecting"
  /\ wsState' = s
  /\ closedSince' = clock
  /\ escalated' = (escalated /\ s = "connecting")
  /\ escalateAt' = IF s = "closed" /\ escalateAt = Off THEN clock + EscalateTime ELSE escalateAt
  /\ UNCHANGED <<clock, graceVars, formVars, pushVars>>

\* The subscription stores the new state: entering closed and reaching open take
\* the escalation back. The effect on [state] then clears its timer, and arms a
\* new one for a closed socket.
SocketTold(s) ==
  /\ s # wsState
  /\ wsState = "closed" => s = "connecting"
  /\ wsState' = s
  /\ closedSince' = clock
  /\ escalated' = (escalated /\ s = "connecting")
  /\ escalateAt' = IF s = "closed" THEN clock + EscalateTime ELSE Off
  /\ UNCHANGED <<clock, graceVars, formVars, pushVars>>

EscalationFires ==
  /\ escalateAt # Off /\ escalateAt <= clock
  /\ escalated' = TRUE /\ escalateAt' = Off
  /\ UNCHANGED <<clock, wsState, closedSince, graceVars, formVars, pushVars>>

\* The effect on [authState]: leaving authed clears the timer and resets grace and
\* escalation; becoming authed arms the timer. RequireAuth adds ?expired=1 to the
\* redirect of an expired session; Login shows a fresh form.
AuthChanges(a, byExpiry) ==
  /\ a # shellAuth /\ a # "loading"
  /\ byExpiry => a = "anon"
  /\ shellAuth' = a /\ authedSince' = clock
  /\ graceAt' = IF a = "authed" THEN clock + GraceTime ELSE Off
  /\ graceElapsed' = (graceElapsed /\ a = "authed")
  /\ escalated' = (escalated /\ a = "authed")
  /\ wasExpired' = byExpiry
  /\ submitting' = FALSE /\ loginError' = "none"
  /\ capsLock' = FALSE /\ showPassword' = FALSE
  /\ UNCHANGED <<clock, wsState, closedSince, escalateAt, pushVars>>

GraceFires ==
  /\ graceAt # Off /\ graceAt <= clock
  /\ graceElapsed' = TRUE /\ graceAt' = Off
  /\ UNCHANGED <<clock, shellAuth, authedSince, wasExpired, bannerVars, formVars, pushVars>>

\* setTimeout of both timers is relative: nothing happens while time passes.
ClockTick ==
  /\ clock < MaxNow /\ clock' = clock + 1
  /\ UNCHANGED <<bannerVars, graceVars, formVars, pushVars>>

-------------------------------------------------------------------------------
(* Login *)

LoginSubmitted ==
  /\ OnLogin /\ ~submitting
  /\ submitting' = TRUE /\ loginError' = "none"
  /\ UNCHANGED <<clock, bannerVars, graceVars, pushVars, capsLock, showPassword>>

\* 401 and every other failure; success is AuthChanges("authed", FALSE).
LoginRefused(e) ==
  /\ OnLogin /\ submitting
  /\ submitting' = FALSE /\ loginError' = e
  /\ UNCHANGED <<clock, bannerVars, graceVars, pushVars, capsLock, showPassword>>

\* The keyboard state is probed on every key and on focus; the eye is a toggle.
PasswordProbed ==
  /\ OnLogin
  /\ \/ capsLock' \in BOOLEAN /\ UNCHANGED showPassword
     \/ showPassword' = ~showPassword /\ UNCHANGED capsLock
  /\ UNCHANGED <<clock, bannerVars, graceVars, pushVars, submitting, loginError>>

\* What the form shows of it.
LoginView ==
  [expired |-> wasExpired, error |-> loginError, busy |-> submitting,
   caps |-> capsLock, plain |-> showPassword]

-------------------------------------------------------------------------------
(* PushDeniedBanner *)

IsDismissed == dismissedUntil # Off /\ clock < dismissedUntil
ShowsDenied == shellAuth = "authed" /\ permission = "denied" /\ ~dismissed

\* The dismissal is stored for a week; a failing storage only keeps the state.
DismissDenied(stored) ==
  /\ ShowsDenied
  /\ dismissed' = TRUE
  /\ dismissedUntil' = IF stored THEN clock + DismissTime ELSE dismissedUntil
  /\ UNCHANGED <<clock, bannerVars, graceVars, formVars, permission>>

\* A reload mounts everything anew; the permission may have changed meanwhile.
Reload(p) ==
  /\ permission' = p
  /\ dismissed' = IsDismissed
  /\ wsState' = "connecting" /\ closedSince' = clock
  /\ escalateAt' = Off /\ escalated' = FALSE
  /\ shellAuth' = "loading" /\ authedSince' = clock
  /\ graceAt' = Off /\ graceElapsed' = FALSE /\ wasExpired' = FALSE
  /\ submitting' = FALSE /\ loginError' = "none" /\ capsLock' = FALSE
  /\ showPassword' = FALSE
  /\ UNCHANGED <<clock, dismissedUntil>>

-------------------------------------------------------------------------------
NoticesInit ==
  /\ clock = 0
  /\ shellAuth = "loading" /\ authedSince = 0 /\ graceAt = Off /\ graceElapsed = FALSE
  /\ wsState = "connecting" /\ closedSince = 0 /\ escalateAt = Off /\ escalated = FALSE
  /\ wasExpired = FALSE /\ submitting = FALSE /\ loginError = "none"
  /\ capsLock = FALSE /\ showPassword = FALSE
  /\ permission = "default" /\ dismissedUntil = Off /\ dismissed = FALSE

NoticesNext ==
  \/ \E s \in {"connecting", "open", "closed"} : SocketTold(s)
  \/ EscalationFires
  \/ \E a \in {"authed", "anon"}, x \in BOOLEAN : AuthChanges(a, x)
  \/ GraceFires
  \/ ClockTick
  \/ LoginSubmitted
  \/ \E e \in {"credentials", "connection"} : LoginRefused(e)
  \/ PasswordProbed
  \/ \E stored \in BOOLEAN : DismissDenied(stored)
  \/ \E p \in {"default", "granted", "denied"} : Reload(p)

NoticesSpec == NoticesInit /\ [][NoticesNext]_noticesVars

-------------------------------------------------------------------------------
Moments == 0..(MaxNow + EscalateTime + DismissTime) \cup {Off}

NoticesTypeOK ==
  /\ clock \in 0..MaxNow
  /\ {closedSince, authedSince, graceAt, escalateAt, dismissedUntil} \subseteq Moments
  /\ shellAuth \in {"loading", "authed", "anon"}
  /\ wsState \in {"connecting", "open", "closed"}
  /\ {graceElapsed, escalated, wasExpired, submitting, capsLock, showPassword, dismissed}
       \subseteq BOOLEAN
  /\ loginError \in {"none", "credentials", "connection"}
  /\ permission \in {"default", "granted", "denied"}

\* The banner cries no wolf: the red alert means this very outage has lasted the
\* whole escalation time, and an amber one that the user has been signed in for the
\* whole grace; a timer of an earlier outage or sign-in never speaks for a later one.
BannerIsNotEarly ==
  /\ BannerKind = "closed-hard" => clock - closedSince >= EscalateTime
  /\ BannerKind \in {"closed-soft", "closed-hard"} => clock - authedSince >= GraceTime

===============================================================================
