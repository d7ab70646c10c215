# HomeCameraSystem in TLA+

A formal model of the parts of HomeCameraSystem whose correctness depends on time,
concurrency, crashes and lost messages: how a visit in front of the camera becomes a clip,
how the owner's host actions are carried out once, how a wedged camera is recovered, and how
the browser client keeps its pages true while its requests are answered late, twice, in any
order or never.
TLC checks the models on small instances; TLAPS proves what matters most about them for every
value of the constants. All file names below are relative to the repository root (`src/`
stands in front of them in `PROJECT.json`).

## The system

A Jetson Nano at home runs three things. **MediaMTX** (external) publishes the camera as RTSP
and WebRTC. The **detection worker** (`detection/`, host process, one main loop and several
daemon threads) captures frames, runs inference, cuts clips and talks to the server over
loop-back HTTP. The **server** (`server/app/`, FastAPI in a container, one asyncio process)
stores events, serves clips, pushes notifications and takes the owner's commands. The **PWA**
(`client/src/`) is what people see.

| Component | State it keeps | Operations | What makes it hard |
|---|---|---|---|
| Visit state machine, `detection/visit.py` | live records per emit key | `observe`, `tick`, `forget`, `_prune` | wall-clock time, knobs that move between calls, eviction |
| Visit runner, `detection/visit_runtime.py` | open visits in memory, `.open_visits.json`, scratch directories | handlers of transitions, drain, `recover_open_visits`, `sweep_orphans` | crashes between any two effects, failed writes, threads |
| Clip recorder, `detection/recording.py` | outputs, finalize semaphore | `finalize_visit`, legacy `start_clip` | blocking semaphore, partial failure, cleanup on every exit |
| Pre-roll ring, `detection/preroll.py` | segment files | `copy_new_segments`, pruning | bounded buffer |
| Detection loop and config poll, `detection/detect.py` | runtime configuration, the armed runner | one iteration per frame, flag reconciliation | a thread that changes the configuration at any time |
| Recovery ladder, `detection/mediamtx_watchdog.py`, `detect.py` | level, time of the last action, time of the last reboot, `.watchdog_state.json` | `next_action`, restarts, guarded reboot | actions that kill the actor, two threads on one host, the clock |
| Host actions, `server/app/services/host_bridge.py`, `detect.py`, `host_action.py` | one slot, history, identifiers already started | enqueue, peek, claim, execute, result | lost and late calls, restarts of both sides |
| Event ingestion and bus, `services/event_bus.py`, `events_db.py`, `routes/_internal.py` | subscriber queues, SQLite history | publish, subscribe | full queues, fail-open persistence |
| Push, `services/push_service.py` | subscriptions | add, remove, fan-out | registry changed across an await |
| Configuration, `services/detection_config.py` | the configuration and its file | update, load | failed saves, presets and clamps |
| Auth and sessions, `auth/`, `sessions/` | users, tokens, revocations | login, refresh, revoke | rotation and revocation |
| OTA and backup, `services/ota_*`, `backup_*` | staged versions, active pointer, ledger | stage, apply, health check, rollback, restore | one step of several failing |
| Retention, time-lapse, face recognition, guards, zones | files, thresholds | sweeps, hysteresis | mostly sequential |
| Session and events socket, `lib/auth.tsx`, `lib/api.ts`, `lib/ws.ts` | auth state, one refresh in flight, one socket, its retry timer | boot, login, logout, self-heal, every listener of the socket | calls that share a refresh, timers that outlive their cause |
| Notices of the shell, `ConnectionBanner`, `Login`, `PushDeniedBanner` | banner, form, dismissal | grace, escalation, submit, dismiss | timers of an earlier outage |
| Live video, `VideoTile`, `lib/webrtc.ts`, `lib/streamQuality.ts` | effect, attempts, warm connection, tier | connect, retry, close, stall, resume | awaits settled after their effect has gone |
| Watch page, `Watch.tsx`, `lib/useStatus.ts` | status, full screen, history entry, wake lock | poll, Back, snapshot | aborted polls, asynchronous Back |
| Events page and viewer, `Events.tsx`, `EventList.tsx`, `ClipModal.tsx` | list, day, filters, selection, verdict about a clip | loads, live events, deletes, probes, swipes | loads that overlap, answers about what was left |
| Alerts on the device, `sw.ts`, `lib/swPushHandler.ts`, `lib/push.ts`, `lib/badge.tsx` | subscription, tray, window, count | subscribe, push, tap, reconcile | half-finished turns of the switch |
| Settings, `DetectionSection`, `ZoneEditor`, `NotificationsSection`, `TimelapsesSection` | form, draft, stored record, build loop | patches, saves, builds, deletions | answers that replace newer drafts |
| Owner's pages, `Training`, `Review`, `People`, `UserMgmt`, `DangerZone`, `GodView` | galleries, accounts, jobs, panels, devices | moves, deletions, restores, host requests | one lock for several requests |

How they interact: the worker posts events to the server and polls it for configuration and
host actions (HTTP, best effort, no retries of events); the server never calls the worker. The
main loop drives the visit runner and the ladder; the host-action thread shares the recovery
lock and the ladder's state with it; finalize threads share scratch directories and a
process-wide semaphore with recovery. Files are the only memory that survives the worker. The
pages of the client share the session and nothing else: each reads and writes the server by
requests of its own and is told of new events by the socket.

`PROJECT.json` lists every component with its status and every hazard at its line.

## Modules

| Module | Models | Shape |
|---|---|---|
| `VisitLifecycle` | the footage of a visit, whatever happens: it gathers while the visit is followed, ends in a clip or is given up, and neither is undone | abstract specification |
| `VisitTracker` | `visit.py` with time, driven by the loop through the runner's copies | one action per transition kind |
| `VisitCapture` | runner, table, recovery, sweep, finalize threads, arming and disarming, crashes; no time | one action per effect, in the order of the code; implements `VisitLifecycle` |
| `HostActions` | the server's slot and the worker's poll loop, with the network between them | one action per handler or step |
| `CameraWatchdog` | capture failures, ladder, state file, guarded reboot, both acting threads | one action per step |
| `ClientSession` | `auth.tsx`, `api.ts`, `ws.ts`, `RequireAuth` | a request is sent, answered by the cookies of that moment, received or lost |
| `ShellNotices` | connection banner, login form, banner for blocked notifications | discrete time, timers that may be late |
| `LiveVideo` | the tile's connect effect, WHEP attempts, warmed connection, tiers | one action per await that settles |
| `WatchPage` | status polls, full screen, snapshot, today's events | one action per handler |
| `EventsPage` | loads, days, filters, live events, selection, three deletes, deep link | likewise; loads and deletes settle in any order |
| `ClipViewer` | which event is shown, probes, polls, the player's errors, swipes | likewise, effects run with the render |
| `PushClient` | the alerts switch and filters, `lib/push.ts` | one action per await |
| `AlertDelivery` | service worker, tap on an alert, badge | the worker runs without the page |
| `DetectionSettings` | the form, its patches, the zone editor, the server's `update` | patches served and answered in any order |
| `FacePhotos`, `FaceSettings` | review, folders and gallery; capture, exports, consent, people | likewise |
| `Maintenance`, `ManageUsers`, `Timelapses` | jobs and backups; accounts and passwords; day videos | page and server's route together |
| `GodView` | recovery and log panels over the one slot, audit, signed-in devices | likewise |
| `MCVisitTracker`, `MCVisitCapture`, `MCClient` | instances for TLC | `HostActions` and `CameraWatchdog` need none |
| `VisitTracker_proofs`, `VisitCapture_proofs`, `CameraWatchdog_proofs`, `HostActions_proofs`, `ClientSession_proofs` | theorems about the module of that name | TLAPS |
| `ViewerPages_proofs` | theorems about `ShellNotices`, `LiveVideo`, `WatchPage`, `EventsPage`, `ClipViewer`, `PushClient`, `AlertDelivery` | TLAPS, one section per module |
| `OwnerPages_proofs` | theorems about `Maintenance`, `GodView`, `ManageUsers`, `FacePhotos`, `Timelapses`, `FaceSettings`, `DetectionSettings` | TLAPS, one section per module |
| `Client_proofs` | theorems about `MCClient`: the parts side by side | TLAPS |

### VisitTracker

`visits[k]` is `VisitTracker._visits[k]`; a record in state IDLE is the same as none (nothing
reads it, `_prune` deletes it first). `phase` says where the loop is: at the top, where it
takes one clock reading and ticks every key (`Tick`), or after it, where at most one key is
observed *at the same reading*. `Observe(k)` has the four outcomes of `observe`: `ObserveOpen`,
`ObserveExtend`, `ObserveCapSplit`, `ObserveLate`. Grace, cap and pre-roll are parameters of
the actions, because the code passes the configuration's current value at each call and a
poll thread may have moved it. `Drain` is the escalation and disarm path. `copied` is how far
the footage in scratch reaches (`_on_extend`, `_catchup_copy`), `starved` that a copy was
skipped because the card was below the floor. A copy (`copy_new_segments`) takes whole segments
of the ring and withholds the newest, which may still be being written, so it does not reach the
instant it was asked for exactly: `Copies` is what it may reach, a `Segment` short or a `Segment`
over, never the future, and each action that copies chooses one. Where ffmpeg puts the cuts is
left open, as is when within a segment a copy falls. `windows` is history: every window handed
to finalize.

### VisitCapture

The main thread runs one handler at a time; `pc` is its next effect (copy, pop, spawn, open,
drain, persist, recover), so a crash can fall between any two. `table` is `.open_visits.json`
(an entry is absent, OPEN, or FINALIZING with its attempts), `open` the runner's `_open`,
`job[c][v]` where the call of `finalize_visit` for `v` by `c` (a thread, or recovery in the
main thread) is: waiting for the semaphore, holding it, output written, published, refused.
`flag` is the polled capture flag; `armed` is `_VISIT_RUNNER is not None`. `Crash` clears the
memory and keeps the files. `StageOf(v)` is the refinement mapping to `VisitLifecycle`: a visit is
followed while the tracker has it alive or it is in hand on the way to its finalize (`Followed`);
whether there is footage is read from the scratch directory, whether it is kept from the clips.

### HostActions

`slot`, `history` and `disk` are `_current`, `_history` and the sidecar file. `wpc` walks the
poll loop: poll, plan, claim, mark, execute, report. A call that is not answered in time puts
a message into `late`; it may reach the server later or never. Ages saturate above the
largest limit, so time is unbounded.

### CameraWatchdog

`pc[t]`, `act[t]` are the two threads that act on the host; `lock` is `_RECOVERY_LOCK`.
`level`, `lastAt`, `failures` are the watchdog object, `state` the dictionary both threads
share, `disk` the file. A save succeeds, fails, or - when the other thread is at a write of
its own, because both use the same temporary file - leaves an unreadable file. Requests of
`HostActions` arrive as `OwnerAsks`; the drain of visits before an action is
`VisitCapture!Escalate`.

### The browser client

JavaScript runs one handler at a time, so an action is a whole handler up to its next `await`;
what comes after the await is an action of its own, and between the two anything else may
happen. React runs the effects whose dependencies changed before it handles anything else:
an action that changes a dependency takes the effect's clean-up and its next run with it. A
request is a member of a set (or an entry of a sequence when equal ones must be told apart)
which the server's action answers and the page's action receives, or which is lost. Where
the answer depends on the server's state, that state is a variable too and the route's
handler is the action that serves the request.

- `ClientSession`: `call[c]`, `heal[h]` are where a REST call and a self-heal are, `inflight`
  is `_refreshInflight`, `sock`, `timer` and `rejected` the module variables of `ws.ts`;
  `stray` counts retry timers whose handle was overwritten.
- `ShellNotices`: `closedSince`, `authedSince` remember when the outage and the sign-in began;
  `escalated`, `graceElapsed` are the state the banner's timers set.
- `LiveVideo`: `phase[a]` is an attempt of `connectWhep`, `cur` the one of the mounted effect,
  `shown` the owner of `video.srcObject`; `EffectIsStale` says that a render will rerun the
  effect.
- `WatchPage`: `poll` is the status poll under way and `abortedPolls` those given up for it,
  `full`, `entry`, `backs` the full-screen view, its history entry and the calls of
  `history.back()` not yet popped.
- `EventsPage`: `loads` are the kinds of load under way, `asked` the dialog, `requests` the
  deletes with the snapshot each one restores if it fails.
- `ClipViewer`: `missingFor`, `erroredFor`, `polling` are the event each state is about;
  `told` is what probes and the player have said.
- `PushClient`: `toggle` walks the awaits of `subscribeToPush`; `subscribed` is the browser's
  subscription, `registered` the server's. `AlertDelivery`: `tray`, `window`, `count`, `icon`.
- `DetectionSettings`: `config` is the form, `storedConfig` the server's, `patches` and
  `replies` what is between them. `Updated` is the server's `update` with its clamp.
- `FacePhotos`: `filed` is where the server has each photo; `busyKey` and `actionInflight` are
  the locks of `Review` and `Training`. `FaceSettings` has three parts without common state.
- `Maintenance`, `ManageUsers`, `Timelapses`, `GodView`: jobs and requests with the page they
  were pressed on, lists read when they were served.

`MCClient` puts these modules side by side. The variable `part` names the one that moves; the
others stand at an initial state. That loses nothing, because the modules share no variable,
and it keeps the number of states the sum and not the product. `ClientTypeOK` is the type
invariant of the part that moves.

## Runs

| Run | Checks | Bounds |
|---|---|---|
| `tracker` | continuations tile, windows of a key overlap by the pre-roll at most, footage is within a segment of the window | 1 key, readings 0..4, 3 visits, segments of 1, all knobs and the floor moving |
| `tracker_room` | windows stay under the cap; a visit leaves without a window only when the tracker is full and it is the one unseen for longest | 3 keys with room for 2, readings 0..4, 3 visits, fixed knobs, the floor moving |
| `tracker_floor` | violated: a window is no longer than its footage | 1 key, readings 0..6 |
| `capture` | no double publication, tracker and runner agree, open visits durable, footage owned, stages of the footage in order | 2 keys, 3 visits, 2 crashes, 1 failed write |
| `capture_live` | every visit settles; recovery gets through | 1 key, 2 visits, 1 crash, 1 failed write |
| `capture_retry` | violated: an entry left for retry survives | 1 key, 2 visits, 1 crash |
| `capture_toggle` | violated: nobody takes the scratch of a visit being finalized | 1 key, 1 visit, no crash |
| `host_actions` | at most once, the status is true, settled is final, the slot is freed | 2 requests, history of 1, 2 crashes, a failed write on each side |
| `host_reboot` | violated: a reboot that happened resolves to done | 1 request, 2 crashes |
| `watchdog` | reboots spaced, dwell respected, reboot last, ladder climbed | 1 owner's request, 1 mishap (death, failed write, clock setback) |
| `client` | the properties below and the types | `MCClient.cfg` |
| `maintenance_told` | violated: a green toast says what was done | 2 backups, 2 jobs |

What `client` checks, part by part: a call that joined the shared refresh is woken whoever
started it (`WaitersAreServed`); a closed socket has another attempt pending unless the server
rejected it (`NoLostReconnect`); no timer of an earlier outage or sign-in speaks for a later one
(`BannerIsNotEarly`); a superseded attempt is neither shown nor left connected
(`SupersededIsGone`), and "connecting" is never for ever (`ConnectingEnds`); no skeleton or busy
button without the request that ends it (`SpinnersEnd`); a clip is called gone only on word about
that event, and a promised video is asked for (`PromiseIsKept`); a status is not replaced by an older one and Back
leaves the full screen first (`NeverGoesBack`); a turn of the alerts switch that ends on leaves a
subscription on the server (`ToggleTellsTruth`); a photo's lock has its request
(`LocksAreFreed`); the one restore is of the backup its dialog named (`RestoresWhatWasNamed`); a
finished host request does not go back to running (`FinishedStays`). `ManageUsers` has no property
of its own beside its types: what an owner's account is safe by is one guard of the server's
transaction, and a property would say it again.

Why the bounds are enough. In `tracker`, all that is checked is about the windows of one key;
three visits give an open, a split and a late open in one run, a range of two values per knob is
enough for a raise and a cut between any two calls, and segments of one unit let a copy fall short
and overshoot. In `tracker_room`, three keys against room for two make the tracker choose whom to
evict, between one that began earlier and one that was seen earlier, and a subject can stay one
reading beyond the cap; it does not look at footage, so its copies are exact (`Segment` 0). In `capture`, two
crashes let the worker die in the recovery of an earlier death, one failed write leaves a stale
table, three visits allow two on different keys and a continuation. In `host_actions`, two
requests exercise replacement and the cut of a history of one; two crashes cover one on
each side and two on the same side; one failed write per side is what `AtMostOnce` says it takes. The
limits 0 and 1 keep the order of the code's 90 s and 120 s. In `watchdog` the dwell times keep
the code's order (mediamtx < nvargus < reboot interval) and exits without a mishap are free,
so a life of the worker may be as short as two failures. In `client` every part has
the two actors its property is about: a call and a self-heal for the shared refresh, two
attempts and two tiers, two clips to swipe between, two photos and two moves, two backups and
two jobs, two polls under way, two devices; the bounds on lists and requests under way let each
be overtaken once. The banner's clock runs one unit beyond its longest limit, which fits an
outage, a return and a second outage. Clicks and losses are unbounded.

### Violated claims

Five runs show that the code does not do what a comment, a test or a design document says;
`PROJECT.json` quotes the lines.

- `tracker_floor`: below the disk floor copies stop but the window goes on growing; finalize
  is asked for more than there is and the duration check refuses the clip.
- `capture_retry`: a FINALIZING entry left for a later retry is erased by the next
  visit's table write.
- `capture_toggle`: switching the capture flag off and on sweeps the scratch of the visit
  still being finalized.
- `host_reboot`: a reboot is claimed (running) before it is carried out; the fresh worker is
  offered only pending records, so it never reports `done` and the record expires.
- `maintenance_told`: a backup, restore or update the server refuses is answered with HTTP 200
  and `ok: false`; the toasts look at a few statuses only and announce the rest as a success.

### Behaviours without a property

Met while modelling, and left without a run. Four of them contradict a comment:

- The ring segment that a copy withholds is "absence-padding footage by definition"
  (`preroll.py:617-619`), but a visit drained for a failed camera or a flag switched off ends at
  its last sighting (`visit_runtime.py:760-802`), so what it loses may show its subject. In
  `VisitTracker`: `Drain` copies like every other end.
- A `note` in the answer to a restart means that the endpoint is a scaffold
  (`DangerZone.tsx:162-164`), but the server sends one with every restart it queues
  (`control.py:205-230`, `304`), and the owner reads "Restart isn't set up yet on the camera box.
  Nothing changed." In `Maintenance`: the toast "denied".
- A filter disables "Delete day", because the wording would be dishonest of a list that hides some
  (`Events.tsx:1326-1331`, `Events.test.tsx:1140-1142`), but only the person and label filters do
  (`:1353`), not the camera's; the dialog counts the whole list (`:930`). In `EventsPage`:
  `DeleteDayOffered`, and `counted` in `asked`.
- `exitFull` looks at `history.state` "so a stray double-call can't navigate the user away from the
  page" (`Watch.tsx:420-422`), but `history.back()` takes effect later and the second call finds
  the same state. In `WatchPage`: `backs` may be 2 with one entry.

Of the others no document claims the contrary, or the cure is a matter of taste. Some are in the
models, where the action's comment says so; those marked * are outside them.

- Worker and server: a record evicted by the tracker stays in the runner's table
  (`visit_runtime.py:561`)*; the visit leaves the durable table before its finalize thread
  exists (`:683`); the attempt limit is looked at only after a failed finalize (`:336`)*; the
  open event is posted once (`:604`)*; a failed finalize removes the scratch the retries need
  (`recording.py:1158`); two writers share one temporary name (`detect.py:1055`); a reboot mark
  in the future after the clock went back (`detect.py:1023`); a wedge that keeps the source from
  opening ends the worker before the ladder (`detect.py:1408`)*; a full queue drops the event
  (`event_bus.py:165`)*; registry changed across an await (`push_service.py:571`)*; a failed
  save leaves memory ahead of the file (`detection_config.py:574`)*; an in-place swap that fails
  half-way (`ota_apply.py:151`)*.
- Socket and session: after a 1008 nothing tries again until the tab is hidden and shown.
- Live video: choosing another quality that leads to the same path aborts the attempt and starts
  none, so the tile shows an error (`VideoTile.tsx:247`, `:482`); a failing warm-up forgets the
  warm connection of another call without closing it (`webrtc.ts:217`)*; the WHEP POST has no
  time limit.
- Watch: a second wake lock overwrites the handle of the first; a status slower than five seconds
  is always aborted.
- Events: a failed delete restores the list of the moment of the press; retry and refresh on
  return ignore the day; a load that ends clears the skeleton of another. A second dialog orphans the first (`confirm.tsx:52`).
- Viewer: a player mounted after its event was opened has no readiness listeners
  (`ClipModal.tsx:293`); a probe that finds the clip clears no older verdict (`:172`); the boxes
  of the event before stay until the next tracks are read (`:771`); a deletion that ends after a
  swipe closes the viewer.
- Alerts: the switch shows the browser's subscription and does not ask the server, which may have
  pruned its record (`NotificationsSection.tsx:134`); a failed load of the filters shows empty ones, and Save stores them
  (`NotificationsSection.tsx:161`).
- Detection settings: a control used before the first load drops the stored lists; quick taps
  lose one; a refused patch leaves its draft on the screen.
- Faces: an answer of the capture settings overwrites a number being typed; `Review` keeps one
  busy key for all cards; the export takes people without consent (`training.py:58`); the list of
  people stops at 500 and its error screen repeats the refused request (`events.py:460`).
- Accounts and maintenance: an answer closes the form reopened since (`UserMgmt.tsx:219`); a late
  list reopens the restore panel (`DangerZone.tsx:367`).
- Host panels: a log request while a recovery is live gets the recovery's id and polls a 404
  until the page is left; a recovery pressed during a log request says "Done" for the logs. A
  revoked device may be shown again by an older list (`SessionsPanel.tsx:139`).

### Fairness

`capture_live`: the main thread takes its next effect, finalize threads and recovery advance
(each call is bounded by a timeout in `recording.py`), systemd restarts the worker
(`Restart=on-failure`), and a visit does not stay open for ever: it expires or is split,
because of the cap that `VisitTracker` is about. The flag may move for ever. `host_actions`: the poll loop
runs (every exception is caught) and time passes; nothing is assumed of the network or of
either side's crashes beyond their bound. `watchdog`: `Capture` returns, with a frame or
without (2 s timeout), the steps after it are taken, systemd restarts the worker, time passes.
All fairness is weak. The client's properties are safety properties: what "ends" or "is served"
means there is that whatever ends it is under way, and no fairness is assumed of the user, the
network or the browser.

## Proofs

Every theorem holds for every value of the constants that satisfies the named assumption of
its module, and is checked to the last leaf. A module's theorems are about its own
specification; `Client_proofs` carries those about the parts of the client over to the whole.

### VisitTracker_proofs

From `TrackerAssumption` (non-empty ranges of natural knobs, a finite set of keys, room for one
key) alone:

- `TypeCorrect`: `Spec => []TypeOK`.
- `WindowsAreBounded`: no window outgrows cap + grace + start lag, however the knobs move.
- `FootageCoversWindows`: unless a copy was skipped, the footage is a segment short of the window
  at most, and overshoots it by a segment or the range of the cap at most.
- `ContinuationsTile`, `WindowsDoNotPileUp`: `ContinuationAdjacent` and `OverlapAtMostPreRoll`.
- `VisitsAreAccountedFor`: `Spec => NoVisitVanishes`.

The window bounds are not inductive. A window is made from its record, so the invariant says
how a record's instants relate (`RecordsHealthy`), and a continuation starts *before* the frame
that opens it, by a lag bounded only because the tick of the same iteration already closed
every visit unseen for a grace (`Ticked`). `IInv` is the conjunction of `TypeOK`,
`RecordsHealthy`, `Ticked` and `WindowsSound`, with one lemma per action. How windows follow
each other needs the order of time and of identifiers together: `Ordered` says that a live
record comes after every window of its key, reaches back into none of them by more than the
pre-roll, and, if it is a continuation, starts where the part before it ended. Each step then
either opens, splits or closes, and one lemma per case carries it over. `NoVisitVanishes` needs one more fact, that the tracker never holds more than `MaxKeys` records,
which is what makes at most one eviction per open enough.

### VisitCapture_proofs

From `CaptureAssumption` alone, for any number of keys, visits, deaths, failed writes and
attempts:

- `CaptureIsSound`: the inductive invariant below; `TypeCorrect`: `Spec => []TypeOK`.
- `PublishedAtMostOnce`: `AtMostOnePublish`.
- `RunnerFollowsTracker`: `TrackerRunnerAgree`.
- `OpenVisitsSurvive`: `OpenVisitDurable`.
- `FootageIsOwned`: `ScratchHasOwner`.
- `CaptureRefinesLifecycle`: `Spec => ImplementsLifecycle`.

None of them is inductive, since a death may fall between any two effects. The invariant says,
in this order: which effect can follow which and what is in hand at each (`Shape`, `OneKey`);
that an identifier goes from open to closing to being finalized and never back (`Unused`,
`Untouched`); that the finalize semaphore has one holder, which keeps it from the look at the
scratch to its removal, so that whoever is about to publish finds no clip (`OneHolder`,
`Exclusive`, `Counted`); how the runner's table of open visits differs from the tracker's while
a handler is half-way (`OpenAgrees`), and what of it is on disk (`Durable`); whose the footage
is (`Owned`); and that recovery looks at every entry before the sweep (`Covered`), without
which the sweep would be the end of a visit that can still be saved. `Exclusive` is where
"at most once" comes from: the lock alone would not do, because two callers of the same visit
may queue for it; it takes the second look at the scratch after the lock is got. The invariant
speaks of one step of one actor at a time, one lemma per action.

The refinement takes two facts more (`Sourced`): an identifier that was not handed out has no
footage, and an output that no sweep took has its footage in scratch. `Orderly` says how one step
may change what is followed, in scratch and published, one lemma per action; `OrderlyMovesOn`
says that whatever changes in this way goes from stage to stage.

### CameraWatchdog_proofs

From `WatchdogAssumption` alone, for every interval, dwell, threshold, number of owner's
requests and mishaps:

- `TypeCorrect`: `Spec => []TypeOK`.
- `RebootsSpaced`: `Spec => RebootsAreSpaced`.
- `RungsWait`: `Spec => RemediesGetTheirTime`.
- `RebootComesLast`: `Spec => []RebootIsLastResort`.

For the reboots: the guard reads a mark in memory, the property speaks of the machine's
reboots; what joins them is the invariant. `Exclusive`: a thread holds the recovery lock from
the look at the guard to the end of its action. `MarkFresh`: until the file is damaged or the
clock goes back, the marks in memory and on disk agree and are no older than the last reboot.
`Guarded`: a thread past the guard has found the last reboot long ago, and past the mark the
mark is new. `Surviving` (a loop that goes on has not reached the limit of failures) serves
`TypeOK`.

For the order of the rungs: what the code compares is the level and the time in memory; what
a death leaves is the file. `InStep` says that the two are the same but for the one effect
between a rung and its write, `Dated` that the level on disk names the dwell of the last remedy
and its time the moment of it, `Climbed` that whoever stands at the top has restarted nvargus
on the way, is about to, or lost that restart to a death. There are two levels below the top
that restart it, hence the two deaths the property allows for.

### HostActions_proofs

From `HostActionsAssumption` alone, for every number of requests, deaths, lost and late calls,
every limit on ages and every size of the history and of the worker's memory:

- `SlotAndMemoryAgree`: the inductive invariant below; `TypeCorrect`: `Spec => []TypeOK`.
- `StartedAtMostOnce`: `Spec => []AtMostOnce`.
- `StatusTellsTheTruth`: `Spec => []StatusIsTrue` (`StartedIsNotOffered` is its first half).
- `SettledStays`: `Spec => SettledIsFinal`.

`AtMostOnce` has two independent reasons, and the invariant keeps both. `OfferedOnce`: while
the server's writes succeed its file is its memory, and a record whose action was started, or
is past the claim, is no longer pending; only a new record is. `Remembered`: while the
worker's writes succeed and its limit is not reached, its file is its memory, every action
started is in it, and what is about to be marked is not. Both need `Allocated` (whatever
either side knows of was allocated before the next record), so that a new record has not
been started. The truncation of the memory is where the sizes matter: below the limit, a
subset with as many members is the whole set.

The other three are about the archive. `Truth`: what is archived is settled, a request has one
record (`OneRecord`), what is done was started, and so was what a late call will report as done.
`Known` says that nothing is archived under an identifier still to come. The archive drops the
older record of a request with `Without`, a recursive function on sequences. What it keeps is
data of any length, and the library's induction theorems are out of the provers' reach; the
lemmas `FilterExists`, `WithoutIs` and `WithoutKeeps` reason by least counterexample instead (a
non-empty set of naturals has a least element, `NatLessThanWellFounded`).

### ClientSession_proofs

- `SessionIsSound`, `WaitersServed` and `ReconnectIsNotLost`: `WaitersAreServed` and
  `NoLostReconnect`, for any number of calls, self-heals and stray timers. With the type
  invariant they are inductive as they stand.

### ViewerPages_proofs

What everybody has on screen; one section for each of `ShellNotices`, `LiveVideo`, `WatchPage`,
`EventsPage`, `ClipViewer`, `PushClient` and `AlertDelivery`.

- `BannerWaits`: `BannerIsNotEarly`. A timer that is armed is due a whole delay after the outage,
  or the sign-in, it is about (`EscalationDue`, `GraceDue`); the clean-up of the effect is what
  keeps an earlier one from being left armed.
- `LiveIsSound`, `NothingSuperseded` and `ConnectingHasAnEnd`: `SupersededIsGone` and
  `ConnectingEnds`, for any number of attempts and of tiers. The strengthening is that a tile
  that says connecting has an effect; the lemma about the effect's cleanup says that it leaves
  nothing connected and closes nothing without its outcome.
- `WatchIsSound`, `NoStepBack`: `NeverGoesBack`. The sample on its way is at least as new as the
  one on the screen (`NoneOlder`), because a poll that is overtaken is aborted first; full
  screen has its history entry.
- `NothingSpinsForEver`: `SpinnersEnd`, inductive with the page's types.
- `PromisesKept`: `PromiseIsKept`. A flag names an event somebody spoke of (`Spoken`), the
  interval runs as long as the promise stands (`AsksForIt`), and only an event with a clip of
  its own is probed (`ProbesOwn`).
- `SwitchTellsTruth`: `ToggleTellsTruth`; the server is told to forget only after the browser has
  (`ForgetsLast`).
- `AlertDelivery` has no property of its own beside its types. `DeliveryStepKeeps` proves them:
  a count that is shown was counted by the server, also when reads answer in any order and one
  of them is taken out of the middle (`ReadTaken`).

### OwnerPages_proofs

What only an owner opens; one section for each of `Maintenance`, `GodView`, `ManageUsers`,
`FacePhotos`, `Timelapses`, `FaceSettings` and `DetectionSettings`.

- `MaintenanceIsSound` and `RestoredAsNamed`: `RestoresWhatWasNamed`, for any number of backups
  and jobs. The strengthening, `AskedFresh`, is that no restore is under way while its dialog
  is open; "at most one" is carried as uniqueness, from which the cardinality follows.
- `PanelsAreSound` and `EndsAreKept`: `FinishedStays`, for every number of requests and polls. A
  late poll is harmless only because the effect that asked for it is torn down when the panel
  shows an end, its answers under way with it: `NothingLate` says that a finished panel has
  none. The step that shows an end, in either way (a poll's answer, a press answered with a
  record that has ended), must therefore empty `polls`, and that is what the lemma about
  `PanelBecomes` establishes.
- `PhotosAreUnlocked`: `LocksAreFreed` and the page's types, for any photos and folders. A page
  asks for nothing before its list is there (`WaitsAlone`, `Loaded`), a dialog covers every
  other control of the gallery (`DialogCovers`), a request belongs to the page on screen or to
  none (`OwnRequests`), and a lock has its request (`LockHasRequest`); Review's one busy key
  serves several requests, and stays right because every answer clears it.
- `ClipsFitTheirTier`: every configuration has a clip length within the cap of the tier it stands
  with, for any tiers and caps. A cap may be 0, as the pre-roll's is for the longest tier; the
  page then shows no slider (`SliderShown`). The form offers no other, and `update` clamps after the tier is
  set (`UpdatedFits`), so it does not matter which of two patches is served first. The longest
  of the caps exists because the tiers are finitely many: `LongestExists` is by least
  counterexample. `SettingsAssumption` says so, and that `month`, the default tier of
  `detection_config.py`, is among them.
- `ManageUsers`: the types.
- `FaceSettings`: the types, strengthened by `Retained`: the days that face photos are kept are
  never 0, in the section, on the wire or on the server, whatever is typed. `Timelapses` and the
  audit and device list of `GodView`: the types.

### Client_proofs

`PartsBehave` says that in the composed client each part behaves as its own specification says:
a step of another part leaves it alone (`ClientSteps`). So the theorems about the parts become
theorems about `ClientSpec`, the specification TLC explores: `ClientIsTyped` (`ClientTypeOK`),
`ClientIsSafe` (the nine invariants of its run) and `ClientStepsAreSafe` (its three action
properties).

### What stays with TLC

The liveness properties `EventuallySettled`, `RecoveryTerminates`, `SlotIsFreed` and
`LadderIsClimbed`: the prover has no support for ENABLED and fairness. Every invariant and
action property of a passing run is a theorem.

## Not modelled

Worker: inference, boxes, zones, faces and thumbnails (numeric or geometric, one thread, no
protocol: unit tests reach them); ffmpeg command lines and journal texts (pure I/O); within the
modelled components the bytes of footage (only how far it reaches), the legacy `start_clip` path,
kinds and results of host actions, the wedge that already prevents the video source from
opening, a tracker that evicts under the runner.

Server: the event bus and its queues, the push registry and its fan-out, OTA staging, swap and
rollback, the staged restore file by file, retention sweeps, token rotation and hashing, routes
that only read. Where a page depends on one of them, the page's module lets it answer whatever
the route can answer.

Client: rendering, animation and layout (`CatLayer`, `CatIcons`, heat map, gestures below their
threshold), statistics and sound of the live picture, zoom and export of a clip, uploads of
photos, the telemetry panels, which only show numbers, `LiveStats`, which no page uses, and a
WebSocket constructor that throws (`ws.ts:33`). React's commit follows the state it was given at
once: between a state change and the effects of its render no other answer is handled.

Each is named in the header of its module or in the component's note in `PROJECT.json`.

## Plan

Done: the visit pipeline, host actions, the recovery ladder, the browser client with the routes
it calls, the proofs above. Left, in order:

1. `PushRegistry`: fan-out over the live list across an await, prune, add, remove, two
   fan-outs at once; only dead subscriptions are pruned. `EventDelivery`: publish with
   persist-before-fan-out, bounded subscriber queues, the reconnecting client that reads
   history; an event that was stored is seen. Composition with the open event of
   `VisitCapture` and with `ClientSession`.
2. `OtaUpdate` (stage, in-place swap, pointer, health, rollback) and the staged restore of
   backups, under partial failure; failed saves of the detection configuration and its polling
   reader; rotation and revocation of tokens.
3. Worker guards (memory and thermal hysteresis, presence and cooldown) and the legacy clip
   recorder's capacity.
4. Proofs: the modules of this plan as they come.
