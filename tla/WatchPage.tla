------------------------------- MODULE WatchPage -------------------------------
(* The home page of the client (Watch): the status it polls (lib/useStatus) and  *)
(* the word it makes of it (lib/watchState), today's events, the snapshot, and   *)
(* the full-screen view with its history entry, its fading controls and its      *)
(* screen lock. The picture itself is LiveVideo's subject.                       *)
(*                                                                               *)
(* A poll carries the sample the server takes when it answers; a sample's number *)
(* is its time. history.back() is asynchronous: its popstate comes later.        *)
EXTENDS Naturals

CONSTANTS
  MaxSample,     \* bound: samples of the server's status
  MaxBacks,      \* bound: calls of history.back() not yet popped
  Unknown,       \* no status, no poll
  Sent           \* a poll on its way to the server

ASSUME WatchAssumption == {MaxSample, MaxBacks} \subseteq Nat /\ {Unknown, Sent} \cap Nat = {}

FailureStreakThreshold == 2

VARIABLES
  sample,         \* the server's latest status
  tabShown,       \* the page is visible and polls
  poll,           \* inFlight: Unknown, Sent, or the sample its answer brings
  abortedPolls,   \* samples that polls given up since would have brought
  latest,         \* status: the sample shown, or Unknown
  streak,         \* failureStreak
  newest,         \* history: the newest sample ever shown
  full,           \* the full-screen view
  entry,          \* its history entry is on top
  backs,          \* history.back() calls under way
  left,           \* the browser went back past the page
  nativeFull,     \* document.fullscreenElement is the viewport
  chrome,         \* the controls: "shown", "fading" (a timer is armed), "hidden"
  wakeLock,       \* "none", "asked", "held"
  snapshot,       \* "idle", "busy", "preview"
  todayLoad,      \* the load of today's events that counts is in flight
  today           \* "loading", "list", "error", "list-and-error"

statusVars == <<sample, tabShown, poll, abortedPolls, latest, streak, newest>>
fullVars == <<full, entry, backs, left, nativeFull, chrome, wakeLock>>
panelVars == <<snapshot, todayLoad, today>>
watchVars == <<statusVars, fullVars, panelVars>>

-------------------------------------------------------------------------------
(* lib/useStatus *)

SampleTaken ==
  /\ sample < MaxSample /\ sample' = sample + 1
  /\ UNCHANGED <<tabShown, poll, abortedPolls, latest, streak, newest, fullVars, panelVars>>

\* inFlight.abort(): whatever was on its way no longer counts.
Abort ==
  abortedPolls' = abortedPolls \cup CASE poll = Unknown -> {}
                                     [] poll = Sent -> {sample}
                                     [] OTHER -> {poll}

\* tick(), every 5 s
Tick ==
  /\ tabShown /\ Abort /\ poll' = Sent
  /\ UNCHANGED <<sample, tabShown, latest, streak, newest, fullVars, panelVars>>

\* The server reads its status; the answer travels.
StatusServed ==
  /\ poll = Sent /\ poll' = sample
  /\ UNCHANGED <<sample, tabShown, abortedPolls, latest, streak, newest, fullVars, panelVars>>

\* Mutant of AbortedEnds: the poll before is not aborted, and its answer shown.
AbortedCounts(s) ==
  /\ s \in abortedPolls /\ abortedPolls' = abortedPolls \ {s}
  /\ latest' = s /\ streak' = 0
  /\ UNCHANGED <<sample, tabShown, poll, newest, fullVars, panelVars>>

\* An aborted poll ends in an AbortError, which is no failure.
AbortedEnds(s) ==
  /\ s \in abortedPolls /\ abortedPolls' = abortedPolls \ {s}
  /\ UNCHANGED <<sample, tabShown, poll, latest, streak, newest, fullVars, panelVars>>

StatusArrives ==
  /\ poll \notin {Unknown, Sent} /\ poll' = Unknown
  /\ latest' = poll /\ streak' = 0
  /\ newest' = IF newest < poll THEN poll ELSE newest
  /\ UNCHANGED <<sample, tabShown, abortedPolls, fullVars, panelVars>>

\* The last good status is held through one failure.
PollFails ==
  /\ poll # Unknown /\ poll' = Unknown
  /\ streak' = IF streak < FailureStreakThreshold THEN streak + 1 ELSE streak
  /\ latest' = IF streak' >= FailureStreakThreshold THEN Unknown ELSE latest
  /\ UNCHANGED <<sample, tabShown, abortedPolls, newest, fullVars, panelVars>>

\* Hiding stops the interval and aborts the poll; showing polls at once, loads
\* today's events again, and asks for the screen lock again.
AskWakeLock == IF full THEN "asked" ELSE wakeLock

TabHidden ==
  /\ tabShown /\ tabShown' = FALSE /\ Abort /\ poll' = Unknown
  /\ UNCHANGED <<sample, latest, streak, newest, fullVars, panelVars>>

TabReturns ==
  /\ ~tabShown /\ tabShown' = TRUE /\ Abort /\ poll' = Sent
  /\ todayLoad' = TRUE
  /\ wakeLock' = AskWakeLock
  /\ UNCHANGED <<sample, latest, streak, newest, full, entry, backs, left, nativeFull, chrome,
                 snapshot, today>>

\* watchStateOf: one word from the status and from what the tile sees ("yes", "no"
\* or "unresolved"), the first rule that fits.
StateKind(known, alive, active, playing) ==
  CASE (known /\ ~alive) \/ (~known /\ playing = "no") -> "offline"
    [] known /\ alive /\ active  -> "armed"
    [] ~known /\ playing = "yes" -> "reconnecting"
    [] known /\ alive /\ ~active -> "off-duty"
    [] OTHER                                       -> "checking"

\* The line under it.
WatchingDetail(kind, known, gear) ==
  CASE kind = "offline"      -> IF known THEN "check its power" ELSE "cannot be reached"
    [] kind = "reconnecting" -> "status reconnecting"
    [] kind \notin {"offline", "reconnecting"} /\ gear # "normal" -> gear
    [] kind = "armed" /\ gear = "normal"    -> "alerts on"
    [] kind = "off-duty" /\ gear = "normal" -> "turn alerts on"
    [] OTHER -> "checking"

-------------------------------------------------------------------------------
(* The full-screen view *)

DropWakeLock == wakeLock' = "none"

\* enterFull: a history entry first, so that Back leaves the view and not the page.
EnterFull ==
  /\ ~full /\ full' = TRUE
  /\ entry' = TRUE /\ chrome' = "fading" /\ wakeLock' = "asked"
  /\ UNCHANGED <<statusVars, backs, left, nativeFull, panelVars>>

NativeAnswers(ok) ==
  /\ full /\ ~nativeFull /\ nativeFull' = ok
  /\ UNCHANGED <<statusVars, full, entry, backs, left, chrome, wakeLock, panelVars>>

WakeLockAnswers(ok) ==
  /\ wakeLock = "asked" /\ wakeLock' = IF ok THEN "held" ELSE "none"
  /\ UNCHANGED <<statusVars, full, entry, backs, left, nativeFull, chrome, panelVars>>

\* exitFull: back over the entry if it is on top, and only then, at its popstate,
\* out of the view.
GoBack ==
  IF entry
    THEN backs < MaxBacks /\ backs' = backs + 1 /\ UNCHANGED <<full, wakeLock>>
    ELSE full' = FALSE /\ DropWakeLock /\ UNCHANGED backs

\* The button, the Escape key, the swipe down.
ExitPressed ==
  /\ full /\ GoBack
  /\ UNCHANGED <<statusVars, entry, left, nativeFull, chrome, panelVars>>

\* The browser's own way out of full screen ends in the same place.
NativeFullEnds ==
  /\ full /\ nativeFull /\ nativeFull' = FALSE
  /\ GoBack
  /\ UNCHANGED <<statusVars, entry, left, chrome, panelVars>>

\* A popstate, of exitFull or of the browser's Back: the entry goes and the view with
\* it; one more leaves the page.
Popped ==
  /\ backs' = IF backs > 0 THEN backs - 1 ELSE 0
  /\ IF entry
       THEN /\ entry' = FALSE /\ full' = FALSE /\ nativeFull' = FALSE
            /\ chrome' = "shown" /\ DropWakeLock
            /\ UNCHANGED left
       ELSE left' = TRUE /\ full' = FALSE /\ UNCHANGED <<entry, nativeFull, chrome, wakeLock>>
  /\ UNCHANGED <<statusVars, panelVars>>

\* The tap on the picture, the press on a control, and the timer of 3.5 s.
TapPicture ==
  /\ full /\ chrome' = IF chrome = "hidden" THEN "fading" ELSE "hidden"
  /\ UNCHANGED <<statusVars, full, entry, backs, left, nativeFull, wakeLock, panelVars>>

PressControl ==
  /\ full /\ chrome # "hidden" /\ chrome' = "fading"
  /\ UNCHANGED <<statusVars, full, entry, backs, left, nativeFull, wakeLock, panelVars>>

ChromeTimer ==
  /\ chrome = "fading" /\ chrome' = "hidden"
  /\ UNCHANGED <<statusVars, full, entry, backs, left, nativeFull, wakeLock, panelVars>>

\* What a finger on the picture does, from where it went: zoom and pan stay in the
\* view, only a long swipe down on a picture that is not zoomed leaves it.
Gesture(fingers, zoomed, moved, far) ==
  CASE fingers >= 2 -> "zoom"
    [] fingers = 1 /\ moved = "none" -> "tap"
    [] fingers = 1 /\ moved # "none" /\ zoomed -> "pan"
    [] fingers = 1 /\ moved = "down" /\ ~zoomed -> IF far THEN "exit" ELSE "back to place"
    [] OTHER -> "nothing"

-------------------------------------------------------------------------------
(* The panels *)

TakeSnapshot ==
  /\ snapshot # "busy" /\ snapshot' = "busy"
  /\ UNCHANGED <<statusVars, fullVars, todayLoad, today>>

SnapshotSettled(ok) ==
  /\ snapshot = "busy" /\ snapshot' = IF ok THEN "preview" ELSE "idle"
  /\ UNCHANGED <<statusVars, fullVars, todayLoad, today>>

PreviewClosed ==
  /\ snapshot = "preview" /\ snapshot' = "idle"
  /\ UNCHANGED <<statusVars, fullVars, todayLoad, today>>

\* A load replaces the one before, whose answer no longer counts; a failure keeps
\* the list that is there.
TodaySettled(ok) ==
  /\ todayLoad /\ todayLoad' = FALSE
  /\ today' = CASE ok -> "list"
                [] ~ok /\ today \in {"list", "list-and-error"} -> "list-and-error"
                [] OTHER -> "error"
  /\ UNCHANGED <<statusVars, fullVars, snapshot>>

\* Retry stands under the error; a deleted clip asks for the list as well.
ReloadToday ==
  /\ ~todayLoad /\ today # "loading" /\ todayLoad' = TRUE
  /\ UNCHANGED <<statusVars, fullVars, snapshot, today>>

-------------------------------------------------------------------------------
WatchInit ==
  /\ sample = 0 /\ tabShown = TRUE /\ poll = Sent /\ abortedPolls = {}
  /\ latest = Unknown /\ streak = 0 /\ newest = 0
  /\ full = FALSE /\ entry = FALSE /\ backs = 0 /\ left = FALSE /\ nativeFull = FALSE
  /\ chrome = "shown" /\ wakeLock = "none"
  /\ snapshot = "idle" /\ todayLoad = TRUE /\ today = "loading"

MountedStep ==
  \/ SampleTaken \/ Tick \/ StatusServed \/ StatusArrives \/ PollFails
  \/ TabHidden \/ TabReturns
  \/ EnterFull \/ ExitPressed \/ NativeFullEnds \/ Popped
  \/ \E s \in abortedPolls : AbortedEnds(s)
  \/ \E ok \in BOOLEAN : \/ NativeAnswers(ok) \/ WakeLockAnswers(ok)
                         \/ SnapshotSettled(ok) \/ TodaySettled(ok)
  \/ TapPicture \/ PressControl \/ ChromeTimer
  \/ TakeSnapshot \/ PreviewClosed \/ ReloadToday

\* Once the browser is past the page, it is unmounted.
WatchNext == ~left /\ MountedStep

WatchSpec == WatchInit /\ [][WatchNext]_watchVars

-------------------------------------------------------------------------------
WatchTypeOK ==
  /\ {sample, newest} \subseteq 0..MaxSample /\ latest \in 0..MaxSample \cup {Unknown}
  /\ abortedPolls \subseteq 0..MaxSample
  /\ poll \in 0..MaxSample \cup {Unknown, Sent}
  /\ streak \in 0..FailureStreakThreshold
  /\ {tabShown, full, entry, left, nativeFull, todayLoad} \subseteq BOOLEAN
  /\ backs \in 0..MaxBacks
  /\ chrome \in {"shown", "fading", "hidden"} /\ wakeLock \in {"none", "asked", "held"}
  /\ snapshot \in {"idle", "busy", "preview"}
  /\ today \in {"loading", "list", "error", "list-and-error"}

\* The page never goes back in time: a status is replaced by a newer one or by
\* none, whatever polls were slow, failed or were given up for the next one;
\* and Back leaves the full-screen view before it leaves the page.
NeverGoesBack ==
  [][ /\ latest' # Unknown => latest' >= newest
      /\ full' => entry' ]_watchVars

================================================================================
