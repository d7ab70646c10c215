--------------------------- MODULE CameraWatchdog ---------------------------
(***************************************************************************)
(* Recovery of a wedged camera: the escalation ladder                      *)
(* (detection/mediamtx_watchdog.py), the capture-failure handler that      *)
(* persists and executes it, the guarded reboot and the owner's host       *)
(* actions that share the recovery lock with it (detection/detect.py).     *)
(*                                                                         *)
(* Two threads of the worker act on the host: "main" (the capture loop,    *)
(* climbing the ladder) and "host" (the poll loop of HostActions, whose    *)
(* requests arrive here at any time).  The worker gives up by exiting      *)
(* after too many failures, may be killed by the very restart it asked     *)
(* for, goes down with the machine, or dies at any other point; systemd    *)
(* starts it again and the ladder resumes from the file.                   *)
(*                                                                         *)
(* Abstractions.  Timestamps are ages, saturated where no limit tells them *)
(* apart; a timestamp that lies in the future, after the clock was set     *)
(* back, is Future until it is written again.  "Never" is an age beyond    *)
(* every limit.  A guarded reboot takes no time from the look at the clock *)
(* to the command.  The video source can be opened when the worker starts. *)
(* A log tail holds the lock like a restart and is not told from one.      *)
(* Diagnostics, metrics and the visits drained before an action            *)
(* (VisitCapture!Escalate) are left out.                                   *)
(***************************************************************************)
EXTENDS Integers, FiniteSets

CONSTANTS
  FailThreshold,   \* consecutive failures before a rung may fire, 30
  GiveUp,          \* consecutive failures before the worker exits, 100
  Base,            \* cooldown_s, 60 s
  MtxDwell,        \* dwell after a mediamtx restart, 0.75 x
  ArgusDwell,      \* dwell after an nvargus restart or a reboot, 2.5 x
  RebootInterval,  \* _REBOOT_MIN_INTERVAL_S, 1800 s
  AllowReboot,     \* DETECT_WATCHDOG_ALLOW_REBOOT
  MaxRequests,     \* bound: host actions asked for by the owner
  MaxMishaps       \* bound: deaths at an arbitrary point, writes of the state
                   \* file that fail and setbacks of the clock, together

ASSUME WatchdogAssumption ==
  /\ FailThreshold \in Nat \ {0} /\ GiveUp \in Nat /\ FailThreshold <= GiveUp
  /\ Base \in Nat /\ MtxDwell \in Nat /\ ArgusDwell \in Nat
  /\ RebootInterval \in Nat \ {0}
  /\ AllowReboot \in BOOLEAN
  /\ MaxRequests \in Nat /\ MaxMishaps \in Nat

VARIABLES
  wedged,     \* the camera delivers no frames
  up,         \* the worker runs
  pc,         \* per thread: where it is
  act,        \* per thread: the action under way
  lock,       \* the holder of _RECOVERY_LOCK
  failures,   \* MediaMtxWatchdog.failures
  misses,     \* consecutive_failures of the loop
  level,      \* MediaMtxWatchdog.level
  lastAt,     \* MediaMtxWatchdog.last_action_at
  state,      \* _WATCHDOG_STATE: level, at (last_action_at), reboot (last_reboot_at)
  disk,       \* .watchdog_state.json
  rebooting,  \* the machine was told to reboot
  \* history
  tried,      \* remedies of the ladder since the last recovery on disk
  fired,      \* the last rung on disk since then, "none"
  firedAge,   \* time since it fired
  rebootAge,  \* time since a reboot was last asked for
  skipped,    \* rungs on disk whose action never started, counted up to 2
  disturbed,  \* the file failed to be written, whole, or the clock went back
  \* bookkeeping
  requests, mishaps

threads == <<pc, act, lock, rebooting>>
ladder == <<failures, misses, level, lastAt>>
saved == <<state, disk, disturbed, mishaps>>
past == <<tried, fired, firedAge, rebootAge, skipped>>
vars == <<wedged, up, threads, ladder, saved, past, requests>>

Thread == {"main", "host"}

Other(t) == IF t = "main" THEN "host" ELSE "main"

Action == {"mediamtx", "nvargus", "reboot"}

\* _DEFAULT_LADDER.
Rung == <<"mediamtx", "mediamtx", "nvargus", "nvargus", "reboot">>

Top == 4

Level == 0..Top

\* _DEFAULT_ACTION_COOLDOWN_MULT.
Dwell(a) == IF a = "mediamtx" THEN MtxDwell ELSE ArgusDwell

Larger(a, b) == IF a < b THEN b ELSE a

\* Ages of the last action, and of the last reboot, beyond every limit.
OldAction == Larger(Base, Larger(MtxDwell, ArgusDwell))
OldReboot == RebootInterval

Future == -1

ActionAge == {Future} \cup 0..OldAction
RebootAge == {Future} \cup 0..OldReboot

State == [level: Level, at: ActionAge, reboot: RebootAge]

\* No file, or one that cannot be read.
Fresh == [level |-> 0, at |-> OldAction, reboot |-> OldReboot]

-----------------------------------------------------------------------------
(* The state file *)

Mishap == mishaps < MaxMishaps /\ mishaps' = mishaps + 1

\* The points where a thread writes the file; neither write waits for the other.
Writing == {"persist", "clear", "mark"}

\* _save_watchdog_state: the file is replaced, or the write fails.  Both threads
\* use the same temporary file: when the other one is at a write of its own, the
\* file may end up unreadable.
Save(t, content) ==
  \/ disk' = content /\ UNCHANGED <<disturbed, mishaps>>
  \/ Mishap /\ disturbed' = TRUE /\ UNCHANGED disk
  \/ pc[Other(t)] \in Writing /\ disk' = Fresh /\ disturbed' = TRUE /\ UNCHANGED mishaps

-----------------------------------------------------------------------------
(* The capture loop *)

Init ==
  /\ wedged = FALSE /\ up = TRUE
  /\ pc = [main |-> "capture", host |-> "idle"]
  /\ act = [t \in Thread |-> "mediamtx"]
  /\ lock = "none" /\ rebooting = FALSE
  /\ failures = 0 /\ misses = 0 /\ level = 0 /\ lastAt = OldAction
  /\ state = Fresh /\ disk = Fresh
  /\ tried = {} /\ fired = "none" /\ firedAge = OldAction
  /\ rebootAge = OldReboot /\ skipped = 0
  /\ disturbed = FALSE /\ requests = 0 /\ mishaps = 0

\* _required_cooldown: the dwell of the rung below the next one.
Required == IF level = 0 THEN Base ELSE Dwell(Rung[level])

\* _resolve_action.
Resolve(l) ==
  IF Rung[l + 1] = "reboot" /\ ~AllowReboot THEN "nvargus" ELSE Rung[l + 1]

\* The cooldown check of next_action: passed, or the clock went back.
CooledDown == lastAt = Future \/ lastAt >= Required

\* This failure makes next_action fire.
Due == failures + 1 >= FailThreshold /\ CooledDown

AfterFailure == IF misses' > GiveUp THEN "exit" ELSE "capture"

\* A capture fails and no rung is due; too many exit the worker.
CaptureFails ==
  /\ up /\ pc["main"] = "capture"
  /\ ~Due
  /\ misses' = misses + 1
  /\ failures' = IF failures < FailThreshold THEN failures + 1 ELSE failures
  /\ pc' = [pc EXCEPT !["main"] = AfterFailure]
  /\ UNCHANGED <<wedged, up, act, lock, rebooting, level, lastAt, saved, past, requests>>

\* Mutant of RungFires: the level is not clamped at the top.
RungFiresUnclamped ==
  /\ up /\ pc["main"] = "capture"
  /\ Due
  /\ misses' = misses + 1 /\ failures' = 0
  /\ act' = [act EXCEPT !["main"] = Resolve(level)]
  /\ level' = level + 1
  /\ lastAt' = 0
  /\ pc' = [pc EXCEPT !["main"] = "persist"]
  /\ UNCHANGED <<wedged, up, lock, rebooting, saved, past, requests>>

\* A capture fails and next_action fires the next rung.
RungFires ==
  /\ up /\ pc["main"] = "capture"
  /\ Due
  /\ misses' = misses + 1 /\ failures' = 0
  /\ act' = [act EXCEPT !["main"] = Resolve(level)]
  /\ level' = IF level < Top THEN level + 1 ELSE Top
  /\ lastAt' = 0
  /\ pc' = [pc EXCEPT !["main"] = "persist"]
  /\ UNCHANGED <<wedged, up, lock, rebooting, saved, past, requests>>

\* Mutant of PersistLevel: the level is written after the action, that is never if
\* the action kills the worker.
PersistLevelInMemory ==
  /\ up /\ pc["main"] = "persist"
  /\ state' = [state EXCEPT !.level = level, !.at = lastAt]
  /\ fired' = act["main"] /\ firedAge' = IF lastAt = Future THEN 0 ELSE lastAt
  /\ pc' = [pc EXCEPT !["main"] = "act"]
  /\ UNCHANGED <<wedged, up, act, lock, rebooting, ladder, disk, disturbed, mishaps,
                 tried, rebootAge, skipped, requests>>

\* Mutant of PersistLevel: the time of the action is not written.
PersistLevelOnly ==
  /\ up /\ pc["main"] = "persist"
  /\ state' = [state EXCEPT !.level = level]
  /\ Save("main", state')
  /\ fired' = act["main"] /\ firedAge' = IF lastAt = Future THEN 0 ELSE lastAt
  /\ pc' = [pc EXCEPT !["main"] = "act"]
  /\ UNCHANGED <<wedged, up, act, lock, rebooting, ladder, tried, rebootAge, skipped,
                 requests>>

\* _persist_watchdog_level: the level is in the file before anything disruptive.
PersistLevel ==
  /\ up /\ pc["main"] = "persist"
  /\ state' = [state EXCEPT !.level = level, !.at = lastAt]
  /\ Save("main", state')
  /\ fired' = act["main"] /\ firedAge' = IF lastAt = Future THEN 0 ELSE lastAt
  /\ pc' = [pc EXCEPT !["main"] = "act"]
  /\ UNCHANGED <<wedged, up, act, lock, rebooting, ladder, tried, rebootAge, skipped,
                 requests>>

\* A frame arrives: on_capture_ok.
CaptureWorks ==
  /\ up /\ pc["main"] = "capture" /\ ~wedged
  /\ misses' = 0 /\ failures' = 0 /\ level' = 0
  /\ pc' = [pc EXCEPT !["main"] = IF level # 0 THEN "clear" ELSE "capture"]
  /\ UNCHANGED <<wedged, up, act, lock, rebooting, lastAt, saved, past, requests>>

\* Mutant of ClearEscalation: only the memory is reset.
ClearInMemory ==
  /\ up /\ pc["main"] = "clear"
  /\ state' = [state EXCEPT !.level = 0, !.at = OldAction]
  /\ tried' = {} /\ fired' = "none" /\ skipped' = 0
  /\ pc' = [pc EXCEPT !["main"] = "capture"]
  /\ UNCHANGED <<wedged, up, act, lock, rebooting, ladder, disk, disturbed, mishaps,
                 firedAge, rebootAge, requests>>

\* _clear_watchdog_escalation: the ladder is reset, the reboot guard kept.
ClearEscalation ==
  /\ up /\ pc["main"] = "clear"
  /\ IF state.level # 0
     THEN /\ state' = [state EXCEPT !.level = 0, !.at = OldAction]
          /\ Save("main", state')
     ELSE UNCHANGED saved
  /\ tried' = {} /\ fired' = "none" /\ skipped' = 0
  /\ pc' = [pc EXCEPT !["main"] = "capture"]
  /\ UNCHANGED <<wedged, up, act, lock, rebooting, ladder, firedAge, rebootAge, requests>>

-----------------------------------------------------------------------------
(* Acting on the host, under the recovery lock *)

\* The poll thread got an action of the owner to execute.
OwnerAsks(a) ==
  /\ up /\ pc["host"] = "idle"
  /\ a = "reboot" => AllowReboot
  /\ requests < MaxRequests /\ requests' = requests + 1
  /\ act' = [act EXCEPT !["host"] = a]
  /\ pc' = [pc EXCEPT !["host"] = "act"]
  /\ UNCHANGED <<wedged, up, lock, rebooting, ladder, saved, past>>

\* Mutant of Acquire: nobody waits for the lock.
AcquireUnlocked(t) ==
  /\ up /\ pc[t] = "act"
  /\ lock' = t
  /\ pc' = [pc EXCEPT ![t] = IF act[t] = "reboot" THEN "guard" ELSE "acting"]
  /\ tried' = IF t = "main" /\ act[t] # "reboot" THEN tried \cup {act[t]} ELSE tried
  /\ UNCHANGED <<wedged, up, act, rebooting, ladder, saved, fired, firedAge, rebootAge,
                 skipped, requests>>

\* The thread takes the lock and starts: a restart at once, a reboot by its guard.
Acquire(t) ==
  /\ up /\ pc[t] = "act"
  /\ lock = "none" /\ lock' = t
  /\ pc' = [pc EXCEPT ![t] = IF act[t] = "reboot" THEN "guard" ELSE "acting"]
  /\ tried' = IF t = "main" /\ act[t] # "reboot" THEN tried \cup {act[t]} ELSE tried
  /\ UNCHANGED <<wedged, up, act, rebooting, ladder, saved, fired, firedAge, rebootAge,
                 skipped, requests>>

\* A timestamp in the future counts as no reboot at all.
RebootAllowed == state.reboot = Future \/ state.reboot >= RebootInterval

\* _do_reboot within the interval of the last one: an nvargus restart instead.
SuppressReboot(t) ==
  /\ up /\ pc[t] = "guard" /\ ~RebootAllowed
  /\ act' = [act EXCEPT ![t] = "nvargus"]
  /\ pc' = [pc EXCEPT ![t] = "acting"]
  /\ UNCHANGED <<wedged, up, lock, rebooting, ladder, saved, past, requests>>

AllowGuarded(t) ==
  /\ up /\ pc[t] = "guard" /\ RebootAllowed
  /\ pc' = [pc EXCEPT ![t] = "mark"]
  /\ UNCHANGED <<wedged, up, act, lock, rebooting, ladder, saved, past, requests>>

\* _do_reboot: the time of the reboot is in the file before the command.
MarkReboot(t) ==
  /\ up /\ pc[t] = "mark"
  /\ state' = [state EXCEPT !.reboot = 0]
  /\ Save(t, state')
  /\ pc' = [pc EXCEPT ![t] = "command"]
  /\ UNCHANGED <<wedged, up, act, lock, rebooting, ladder, past, requests>>

\* systemctl reboot: it takes effect a little later, or not at all.
Reboot(t) ==
  /\ up /\ pc[t] = "command"
  /\ rebooting' \in {TRUE, rebooting}
  /\ rebootAge' = 0
  /\ tried' = IF t = "main" THEN tried \cup {"reboot"} ELSE tried
  /\ pc' = [pc EXCEPT ![t] = "acting"]
  /\ UNCHANGED <<wedged, up, act, lock, ladder, saved, fired, firedAge, skipped, requests>>

\* The commands returned; after the failure that fired the rung the loop may still
\* give up.
Finish(t) ==
  /\ up /\ pc[t] = "acting"
  /\ lock' = "none"
  /\ pc' = [pc EXCEPT ![t] = IF t = "host" THEN "idle"
                             ELSE IF misses > GiveUp THEN "exit" ELSE "capture"]
  /\ UNCHANGED <<wedged, up, act, rebooting, ladder, saved, past, requests>>

-----------------------------------------------------------------------------
(* Deaths and the environment *)

Down ==
  /\ up /\ up' = FALSE
  /\ pc' = [main |-> "capture", host |-> "idle"]
  /\ act' = [t \in Thread |-> "mediamtx"]
  /\ lock' = "none" /\ rebooting' = FALSE
  /\ failures' = 0 /\ misses' = 0 /\ level' = 0 /\ lastAt' = OldAction
  /\ state' = Fresh
  /\ skipped' = IF pc["main"] = "act" /\ skipped < 2 THEN skipped + 1 ELSE skipped
  /\ UNCHANGED <<wedged, disk, disturbed, tried, fired, firedAge, rebootAge, requests>>

\* SystemExit after too many failures.
Exit == pc["main"] = "exit" /\ Down /\ UNCHANGED mishaps

\* The restart a thread asked for takes the worker down with it.
KilledByAction == (\E t \in Thread : pc[t] = "acting") /\ Down /\ UNCHANGED mishaps

\* The machine goes down.
MachineReboots == rebooting /\ Down /\ UNCHANGED mishaps

Crash == Mishap /\ Down

\* systemd starts the worker, which resumes the ladder from the file (restore):
\* a time that lies far in the future counts as long ago.
Start ==
  /\ ~up /\ up' = TRUE
  /\ state' = disk
  /\ level' = disk.level
  /\ lastAt' \in {disk.at} \cup (IF disk.at = Future THEN {OldAction} ELSE {})
  /\ UNCHANGED <<wedged, threads, failures, misses, disk, disturbed, mishaps, past,
                 requests>>

\* The camera stops delivering, or delivers again.
CameraMoves ==
  /\ wedged' = ~wedged
  /\ UNCHANGED <<up, threads, ladder, saved, past, requests>>

OlderAction(a) == IF a = Future \/ a = OldAction THEN a ELSE a + 1

OlderReboot(a) == IF a = Future \/ a = OldReboot THEN a ELSE a + 1

OlderState(s) == [s EXCEPT !.at = OlderAction(@), !.reboot = OlderReboot(@)]

Tick ==
  /\ \A t \in Thread : pc[t] \notin {"mark", "command"}
  /\ lastAt' = OlderAction(lastAt)
  /\ state' = OlderState(state) /\ disk' = OlderState(disk)
  /\ firedAge' = OlderAction(firedAge) /\ rebootAge' = OlderReboot(rebootAge)
  /\ UNCHANGED <<wedged, up, threads, failures, misses, level, disturbed, mishaps, tried,
                 fired, skipped, requests>>

Unseen(s) ==
  [s EXCEPT !.at = IF @ = OldAction THEN @ ELSE Future,
            !.reboot = IF @ = OldReboot THEN @ ELSE Future]

\* The clock is set back, behind every recent timestamp.
SetBack ==
  /\ Mishap /\ disturbed' = TRUE
  /\ lastAt' = IF lastAt = OldAction THEN lastAt ELSE Future
  /\ state' = Unseen(state) /\ disk' = Unseen(disk)
  /\ UNCHANGED <<wedged, up, threads, failures, misses, level, past, requests>>

\* A capture always returns, with a frame or without.
Capture == CaptureFails \/ RungFires \/ CaptureWorks

Acts(t) ==
  \/ Acquire(t) \/ SuppressReboot(t) \/ AllowGuarded(t)
  \/ MarkReboot(t) \/ Reboot(t) \/ Finish(t)

MainStep == Capture \/ PersistLevel \/ ClearEscalation \/ Exit \/ Acts("main")

Next ==
  \/ MainStep
  \/ \E a \in Action : OwnerAsks(a)
  \/ Acts("host")
  \/ KilledByAction \/ MachineReboots \/ Crash
  \/ Start
  \/ CameraMoves \/ Tick \/ SetBack

Spec == Init /\ [][Next]_vars

\* Threads run, systemd restarts the worker, time passes.
FairSpec ==
  Spec /\ WF_vars(MainStep) /\ WF_vars(Acts("host")) /\ WF_vars(Start) /\ WF_vars(Tick)

-----------------------------------------------------------------------------
(* Properties *)

TypeOK ==
  /\ wedged \in BOOLEAN /\ up \in BOOLEAN /\ rebooting \in BOOLEAN
  /\ pc \in [Thread -> {"idle", "capture", "persist", "clear", "exit",
                        "act", "guard", "mark", "command", "acting"}]
  /\ pc["main"] # "idle"
  /\ pc["host"] \notin {"capture", "persist", "clear", "exit"}
  /\ act \in [Thread -> Action]
  /\ lock \in Thread \cup {"none"}
  /\ failures \in 0..FailThreshold /\ misses \in 0..(GiveUp + 1)
  /\ level \in Level /\ lastAt \in ActionAge
  /\ state \in State /\ disk \in State
  /\ tried \subseteq Action /\ fired \in Action \cup {"none"}
  /\ firedAge \in 0..OldAction /\ rebootAge \in 0..OldReboot
  /\ skipped \in 0..2 /\ disturbed \in BOOLEAN
  /\ requests \in 0..MaxRequests /\ mishaps \in 0..MaxMishaps

\* The boot-loop guard: two reboots are at least the interval apart, whoever asks
\* for them - the ladder, the owner, one after the other - and whatever dies in
\* between.
RebootsAreSpaced ==
  [][~disturbed /\ (\E t \in Thread : Reboot(t)) => rebootAge >= RebootInterval]_vars

\* A rung gets the dwell of the action before it: dying and starting again does not
\* make the ladder run ahead of a remedy that is still taking effect.
RemediesGetTheirTime ==
  [][~disturbed /\ RungFires /\ fired # "none" => firedAge >= Dwell(fired)]_vars

\* Reboot is the last resort: the ladder comes to it only after an nvargus restart
\* was tried in the same incident, unless the worker died twice between writing a
\* rung and acting on it.
RebootIsLastResort ==
  ~disturbed /\ skipped <= 1 /\ act["main"] = "reboot" /\ pc["main"] = "command"
  => "nvargus" \in tried

\* A wedge that lasts drives the ladder to its top, even if every action kills the
\* worker and every life of it is short: the level on disk keeps climbing.
LadderIsClimbed == wedged ~> (~wedged \/ "reboot" \in tried)
=============================================================================
