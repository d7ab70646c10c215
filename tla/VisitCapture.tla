---------------------------- MODULE VisitCapture ----------------------------
(***************************************************************************)
(* From visits to clips, without time: the runner (VisitRunner,            *)
(* detection/visit_runtime.py) that turns tracker transitions into footage *)
(* in a scratch directory, a durable table of open visits and background   *)
(* finalize threads; the recorder's finalize (detection/recording.py); the *)
(* boot recovery and orphan sweep; and the detection loop's arming and     *)
(* disarming of the runner when the capture flag moves (detect.py).        *)
(*                                                                         *)
(* The worker's main thread runs one handler at a time, one effect per     *)
(* step ("pc" is the effect that comes next), interleaved with the         *)
(* finalize threads.  The process may die between any two steps: the       *)
(* memory is gone, the files stay.                                         *)
(*                                                                         *)
(* Abstractions.  When a visit opens, splits or expires is left to chance  *)
(* (VisitTracker models the clock).  A scratch directory either holds      *)
(* usable footage or counts as absent.  rmtree and unlink succeed.  The    *)
(* probe of a published clip is exact.  The open-event POST changes        *)
(* nothing here: its failure is swallowed.  Keys stay below the tracker's  *)
(* own cap, so it evicts nothing.  A tick that closes several keys closes  *)
(* them one after the other.                                               *)
(***************************************************************************)
EXTENDS Integers

CONSTANTS
  Key,          \* emit keys
  NoKey,        \* no key
  NoVisit,      \* no visit
  MaxVisits,    \* bound: visits ever opened
  MaxAttempts,  \* RECOVERY_MAX_FINALIZE_ATTEMPTS
  MaxCrashes,   \* bound: times the worker dies
  MaxFaults,    \* bound: writes of the table that fail
  FlagValues    \* values the polled capture flag may take

ASSUME CaptureAssumption ==
  /\ MaxVisits \in Nat /\ MaxAttempts \in Nat \ {0}
  /\ MaxCrashes \in Nat /\ MaxFaults \in Nat
  /\ FlagValues \subseteq BOOLEAN
  /\ NoVisit \notin Nat /\ NoKey \notin Key

VARIABLES
  \* files
  table,      \* .open_visits.json: visit -> NoEntry, 0 (OPEN), or FINALIZING
              \* with that many attempts
  scratch,    \* visits with footage under _visits/
  tmp,        \* visits with an <id>.mp4.tmp
  clip,       \* visits with a valid <id>.mp4
  published,  \* history: renames onto <id>.mp4, per visit
  \* memory of the worker
  up,         \* the process is alive
  flag,       \* runtime.continuous_capture, moved by the config poll thread
  armed,      \* _VISIT_RUNNER is not None
  current,    \* the tracker's live visit per key
  open,       \* VisitRunner._open
  pc,         \* the main thread's next effect; "idle" between two handlers
  closing,    \* the visit a finalize transition is closing
  opening,    \* the key whose new visit is about to be opened
  draining,   \* why all visits are being closed: "no", "escalate", "disarm"
  visits,     \* recovery's local copy of the table
  todo,       \* the entries it has not resolved
  job,        \* per caller and visit: where its finalize_visit call is
  \* bookkeeping
  next, crashes, faults

files == <<table, scratch, tmp, clip, published>>
tracking == <<current, next>>
main == <<pc, closing, opening, draining>>
recovery == <<visits, todo>>
process == <<up, flag, armed, crashes>>
vars == <<files, tracking, main, recovery, process, open, job, faults>>

Visit == 1..MaxVisits

Caller == {"thread", "main"}   \* who runs a finalize: a thread, or recovery

NoEntry == -1

Entry == Nat \cup {NoEntry}

Phase == {"none", "wait", "held", "written", "published", "refused",
          "ok", "failed"}

EmptyTable == [v \in Visit |-> NoEntry]

NoJobs == [c \in Caller |-> [v \in Visit |-> "none"]]

LiveVisits == {current[k] : k \in Key} \ {NoVisit}

\* The main thread is between two handlers.
Idle == up /\ pc = "idle"

Holding == {"held", "written", "published", "refused"}

\* _FINALIZE_SEMAPHORE is taken.
Busy == \E c \in Caller, v \in Visit : job[c][v] \in Holding

-----------------------------------------------------------------------------
(* The table on disk *)

\* write_open_visits: the table is replaced whole, or the write fails and is
\* logged.
Persist(content) ==
  \/ table' = content /\ UNCHANGED faults
  \/ faults < MaxFaults /\ faults' = faults + 1 /\ UNCHANGED table

\* VisitRunner._persist writes the runner's open visits and nothing else.
RunnerTable(o) == [v \in Visit |-> IF v \in o THEN 0 ELSE NoEntry]

Unresolved(t) == {v \in Visit : t[v] # NoEntry}

-----------------------------------------------------------------------------
(* The detection loop: which handler runs *)

Init ==
  /\ table = EmptyTable
  /\ scratch = {} /\ tmp = {} /\ clip = {}
  /\ published = [v \in Visit |-> 0]
  /\ up = TRUE /\ flag \in FlagValues /\ armed = FALSE
  /\ current = [k \in Key |-> NoVisit]
  /\ open = {}
  /\ pc = "idle" /\ closing = NoVisit /\ opening = NoKey /\ draining = "no"
  /\ visits = EmptyTable /\ todo = {}
  /\ job = NoJobs
  /\ next = 1 /\ crashes = 0 /\ faults = 0

\* The tracker hands out the next identifier for key k.
Track(k) ==
  /\ next <= MaxVisits
  /\ current' = [current EXCEPT ![k] = next]
  /\ next' = next + 1

\* A subject appears on an idle key.
Appear(k) ==
  /\ Idle /\ armed
  /\ current[k] = NoVisit
  /\ Track(k)
  /\ opening' = k /\ pc' = "open"
  /\ UNCHANGED <<files, recovery, process, open, job, faults, closing, draining>>

\* The subject is still there: the new footage is copied (or not: floor, ring,
\* copy error) and the table is written again.
Extend(k) ==
  /\ Idle /\ armed
  /\ current[k] \in open
  /\ scratch' \in {scratch, scratch \cup {current[k]}}
  /\ Persist(RunnerTable(open))
  /\ UNCHANGED <<tmp, clip, published, tracking, main, recovery, process, open, job>>

\* The visit rolls into a continuation (cap), or a late frame starts a new one:
\* a finalize transition, then an open.
Split(k) ==
  /\ Idle /\ armed
  /\ current[k] # NoVisit
  /\ Track(k)
  /\ closing' = current[k] /\ opening' = k /\ pc' = "copy"
  /\ UNCHANGED <<files, recovery, process, open, job, faults, draining>>

\* The grace of the visit ran out at the tick.
Expire(k) ==
  /\ Idle /\ armed
  /\ current[k] # NoVisit
  /\ current' = [current EXCEPT ![k] = NoVisit]
  /\ closing' = current[k] /\ pc' = "copy"
  /\ UNCHANGED <<files, recovery, process, open, job, faults, opening, draining, next>>

\* The camera failed for long enough: visits are drained before the recovery
\* action (whose worst case, a reboot, is a Crash).
Escalate ==
  /\ Idle /\ armed
  /\ draining' = "escalate" /\ pc' = "drain"
  /\ UNCHANGED <<files, tracking, recovery, process, open, job, faults, closing, opening>>

\* Loop top: the flag is off and a runner is armed.
Disarm ==
  /\ Idle /\ armed /\ ~flag
  /\ draining' = "disarm" /\ pc' = "drain"
  /\ UNCHANGED <<files, tracking, recovery, process, open, job, faults, closing, opening>>

\* Boot or loop top: the flag is on and no runner is armed.  A new runner starts
\* with no open visits; recovery reads the table.
Arm ==
  /\ Idle /\ ~armed /\ flag
  /\ open' = {}
  /\ visits' = table /\ todo' = Unresolved(table)
  /\ pc' = "recover"
  /\ UNCHANGED <<files, tracking, process, job, faults, closing, opening, draining>>

-----------------------------------------------------------------------------
(* The effects of a handler, in order *)

\* _catchup_copy.
CopyFootage ==
  /\ up /\ pc = "copy"
  /\ scratch' \in {scratch, scratch \cup {closing}}
  /\ pc' = "pop"
  /\ UNCHANGED <<table, tmp, clip, published, tracking, recovery, process, open, job,
                 faults, closing, opening, draining>>

\* _on_finalize: the visit leaves the table before its thread exists.
PopVisit ==
  /\ up /\ pc = "pop" /\ draining = "no"
  /\ open' = open \ {closing}
  /\ Persist(RunnerTable(open'))
  /\ pc' = "spawn"
  /\ UNCHANGED <<scratch, tmp, clip, published, tracking, recovery, process, job,
                 closing, opening, draining>>

\* Escalation pops in memory and writes the table once, after the last visit.
DropVisit ==
  /\ up /\ pc = "pop" /\ draining # "no"
  /\ open' = open \ {closing}
  /\ pc' = "spawn"
  /\ UNCHANGED <<files, tracking, recovery, process, job, faults,
                 closing, opening, draining>>

\* _spawn_finalize, unless the visit is already being finalized.
SpawnFinalize ==
  /\ up /\ pc = "spawn"
  /\ job' = IF job["thread"][closing] = "none"
            THEN [job EXCEPT !["thread"][closing] = "wait"] ELSE job
  /\ pc' = IF draining # "no" THEN "drain"
           ELSE IF opening # NoKey THEN "open" ELSE "idle"
  /\ closing' = NoVisit
  /\ UNCHANGED <<files, tracking, recovery, process, open, faults, opening, draining>>

\* Mutant of RefuseOpen: the tracker is not told.
RefuseWithoutForget ==
  /\ up /\ pc = "open"
  /\ opening' = NoKey /\ pc' = "idle"
  /\ UNCHANGED <<files, tracking, recovery, process, open, job, faults,
                 closing, draining>>

\* _on_open below the floor: refused, and the tracker forgets the key.
RefuseOpen ==
  /\ up /\ pc = "open"
  /\ current' = [current EXCEPT ![opening] = NoVisit]
  /\ opening' = NoKey /\ pc' = "idle"
  /\ UNCHANGED <<files, recovery, process, open, job, faults, closing, draining, next>>

\* Mutant of RecordOpen: the table is not written.
RecordOpenUnpersisted ==
  /\ up /\ pc = "open"
  /\ open' = open \cup {current[opening]}
  /\ opening' = NoKey /\ pc' = "idle"
  /\ UNCHANGED <<files, tracking, recovery, process, job, faults, closing, draining>>

\* _on_open: the visit is in the table before anything else happens to it.
RecordOpen ==
  /\ up /\ pc = "open"
  /\ open' = open \cup {current[opening]}
  /\ Persist(RunnerTable(open'))
  /\ opening' = NoKey /\ pc' = "idle"
  /\ UNCHANGED <<scratch, tmp, clip, published, tracking, recovery, process, job,
                 closing, draining>>

\* Mutant of DrainNext: keys without a visit are not skipped.
DrainAnyKey ==
  /\ up /\ pc = "drain"
  /\ \/ \E k \in Key :
          /\ closing' = current[k]
          /\ current' = [current EXCEPT ![k] = NoVisit]
          /\ pc' = "copy"
     \/ LiveVisits = {} /\ pc' = "persist" /\ UNCHANGED <<current, closing>>
  /\ UNCHANGED <<files, recovery, process, open, job, faults, opening, draining, next>>

\* Mutant of DrainNext: the tracker goes on following the visit it handed over.
DrainWithoutForget ==
  /\ up /\ pc = "drain"
  /\ \/ \E k \in Key :
          /\ current[k] # NoVisit
          /\ closing' = current[k]
          /\ pc' = "copy"
     \/ LiveVisits = {} /\ pc' = "persist" /\ UNCHANGED closing
  /\ UNCHANGED <<files, tracking, recovery, process, open, job, faults, opening, draining>>

\* The next live visit of the drain, or its end.
DrainNext ==
  /\ up /\ pc = "drain"
  /\ \/ \E k \in Key :
          /\ current[k] # NoVisit
          /\ closing' = current[k]
          /\ current' = [current EXCEPT ![k] = NoVisit]
          /\ pc' = "copy"
     \/ LiveVisits = {} /\ pc' = "persist" /\ UNCHANGED <<current, closing>>
  /\ UNCHANGED <<files, recovery, process, open, job, faults, opening, draining, next>>

\* The drained table is written; on a disarm the runner is dropped.
EndDrain ==
  /\ up /\ pc = "persist"
  /\ Persist(RunnerTable(open))
  /\ armed' = (draining # "disarm")
  /\ draining' = "no" /\ pc' = "idle"
  /\ UNCHANGED <<scratch, tmp, clip, published, tracking, recovery, open, job,
                 closing, opening, up, flag, crashes>>

-----------------------------------------------------------------------------
(* Recovery, in the main thread *)

\* No finalize of recovery is under way.
Between == up /\ pc = "recover" /\ \A v \in Visit : job["main"][v] = "none"

\* A valid clip is there: the visit is done.
RecoverSkip(v) ==
  /\ Between /\ v \in todo /\ v \in clip
  /\ visits' = [visits EXCEPT ![v] = NoEntry]
  /\ todo' = todo \ {v}
  /\ Persist(visits')
  /\ UNCHANGED <<scratch, tmp, clip, published, tracking, main, process, open, job>>

\* Mutant of RecoverStart: no look at the clip that may already be there.
RecoverStartUnchecked(v) ==
  /\ Between /\ v \in todo
  /\ visits' = [visits EXCEPT ![v] = @ + 1]
  /\ todo' = todo \ {v}
  /\ Persist(visits')
  /\ job' = [job EXCEPT !["main"][v] = "wait"]
  /\ UNCHANGED <<scratch, tmp, clip, published, tracking, main, process, open>>

\* FINALIZING and one more attempt are on disk before the concat starts.
RecoverStart(v) ==
  /\ Between /\ v \in todo /\ v \notin clip
  /\ visits' = [visits EXCEPT ![v] = @ + 1]
  /\ todo' = todo \ {v}
  /\ Persist(visits')
  /\ job' = [job EXCEPT !["main"][v] = "wait"]
  /\ UNCHANGED <<scratch, tmp, clip, published, tracking, main, process, open>>

\* The entry is dropped on success and after the last attempt, else it stays.
RecoverEnd(v) ==
  /\ up /\ job["main"][v] \in {"ok", "failed"}
  /\ job' = [job EXCEPT !["main"][v] = "none"]
  /\ \/ /\ job["main"][v] = "ok" \/ visits[v] >= MaxAttempts
        /\ visits' = [visits EXCEPT ![v] = NoEntry]
        /\ Persist(visits')
     \/ /\ job["main"][v] = "failed" /\ visits[v] < MaxAttempts
        /\ UNCHANGED <<visits, table, faults>>
  /\ UNCHANGED <<scratch, tmp, clip, published, tracking, main, process, open, todo>>

\* Mutant of Sweep: only the unfinished outputs go.
SweepOutputsOnly ==
  /\ Between /\ todo = {}
  /\ tmp' = {}
  /\ armed' = TRUE /\ pc' = "idle"
  /\ visits' = EmptyTable
  /\ UNCHANGED <<table, scratch, clip, published, tracking, open, job, faults, todo,
                 closing, opening, draining, up, flag, crashes>>

\* sweep_orphans: scratch of visits that are not in the table on disk, and every
\* unfinished output; then the runner is armed.
Sweep ==
  /\ Between /\ todo = {}
  /\ scratch' = scratch \cap Unresolved(table)
  /\ tmp' = {}
  /\ armed' = TRUE /\ pc' = "idle"
  /\ visits' = EmptyTable
  /\ UNCHANGED <<table, clip, published, tracking, open, job, faults, todo,
                 closing, opening, draining, up, flag, crashes>>

-----------------------------------------------------------------------------
(* ClipRecorder.finalize_visit, for visit v, called by c *)

Move(c, v, from, to) ==
  /\ up /\ job[c][v] = from
  /\ job' = [job EXCEPT ![c][v] = to]
  /\ UNCHANGED <<table, tracking, main, recovery, process, open, faults>>

AcquireFinalize(c, v) ==
  /\ ~Busy
  /\ Move(c, v, "wait", "held")
  /\ UNCHANGED <<scratch, tmp, clip, published>>

\* No usable footage: return before anything is written (or cleaned).
NoFootage(c, v) ==
  /\ Move(c, v, "held", "refused")
  /\ UNCHANGED <<scratch, tmp, clip, published>>

\* The concat writes the output beside the final name.
Concat(c, v) ==
  /\ v \in scratch
  /\ Move(c, v, "held", "written")
  /\ tmp' = tmp \cup {v}
  /\ UNCHANGED <<scratch, clip, published>>

\* Concat failed, or the decode and duration checks refuse the output.
Reject(c, v) ==
  /\ \E from \in {"held", "written"} : Move(c, v, from, "refused")
  /\ tmp' = tmp \ {v}
  /\ UNCHANGED <<scratch, clip, published>>

\* The rename onto the final name.
Publish(c, v) ==
  /\ v \in tmp
  /\ Move(c, v, "written", "published")
  /\ tmp' = tmp \ {v}
  /\ clip' = clip \cup {v}
  /\ published' = [published EXCEPT ![v] = @ + 1]
  /\ UNCHANGED scratch

\* What the caller of finalize_visit goes on with.
Outcome(c, phase) ==
  IF c = "thread" THEN "none" ELSE IF phase = "published" THEN "ok" ELSE "failed"

\* Mutant of Reap: scratch is removed only after a publication.
ReapOnlyPublished(c, v) ==
  /\ \/ /\ Move(c, v, "published", Outcome(c, "published"))
        /\ scratch' = scratch \ {v}
     \/ Move(c, v, "refused", Outcome(c, "refused")) /\ UNCHANGED scratch
  /\ UNCHANGED <<tmp, clip, published>>

\* Mutant of Reap: a refused finalize never releases the semaphore.
ReapWithoutRelease(c, v) ==
  /\ Move(c, v, "published", Outcome(c, "published"))
  /\ scratch' = scratch \ {v}
  /\ UNCHANGED <<tmp, clip, published>>

\* On every exit: scratch is removed, then the semaphore is released.
Reap(c, v) ==
  /\ \E phase \in {"published", "refused"} : Move(c, v, phase, Outcome(c, phase))
  /\ scratch' = scratch \ {v}
  /\ UNCHANGED <<tmp, clip, published>>

-----------------------------------------------------------------------------
(* The environment *)

\* The config poll thread moves the flag.
MoveFlag ==
  /\ up
  /\ flag' \in FlagValues \ {flag}
  /\ UNCHANGED <<files, tracking, main, recovery, open, job, faults, up, armed, crashes>>

\* The process dies: give-up exit, kill, reboot.  Finalize threads are daemons.
Crash ==
  /\ up /\ crashes < MaxCrashes
  /\ crashes' = crashes + 1
  /\ up' = FALSE /\ armed' = FALSE
  /\ current' = [k \in Key |-> NoVisit]
  /\ open' = {}
  /\ pc' = "idle" /\ closing' = NoVisit /\ opening' = NoKey /\ draining' = "no"
  /\ visits' = EmptyTable /\ todo' = {}
  /\ job' = NoJobs
  /\ UNCHANGED <<files, flag, next, faults>>

Restart ==
  /\ ~up
  /\ up' = TRUE
  /\ UNCHANGED <<files, tracking, main, recovery, open, job, faults, flag, armed, crashes>>

Finalize(c, v) ==
  \/ AcquireFinalize(c, v) \/ NoFootage(c, v) \/ Concat(c, v)
  \/ Reject(c, v) \/ Publish(c, v) \/ Reap(c, v)

Effect ==
  \/ CopyFootage \/ PopVisit \/ DropVisit \/ SpawnFinalize
  \/ RefuseOpen \/ RecordOpen \/ DrainNext \/ EndDrain

Recover ==
  \/ \E v \in Visit : RecoverSkip(v) \/ RecoverStart(v) \/ RecoverEnd(v)
  \/ Sweep

\* Steps the main thread takes without waiting for anything to appear.
MainStep ==
  \/ Effect \/ Recover \/ Arm \/ Disarm
  \/ \E v \in Visit : Finalize("main", v)

Leave(k) == Expire(k) \/ Split(k)

Next ==
  \/ \E k \in Key : Appear(k) \/ Extend(k) \/ Leave(k)
  \/ Escalate
  \/ MainStep
  \/ \E v \in Visit : Finalize("thread", v)
  \/ MoveFlag \/ Crash \/ Restart

Spec == Init /\ [][Next]_vars

\* The main thread and the finalize threads are scheduled, systemd restarts the
\* worker, and no visit outlives the cap (VisitTracker).
Fairness ==
  /\ WF_vars(MainStep)
  /\ \A v \in Visit : WF_vars(Finalize("thread", v))
  /\ WF_vars(Restart)
  /\ \A k \in Key : WF_vars(Leave(k))

FairSpec == Spec /\ Fairness

-----------------------------------------------------------------------------
(* Properties *)

TypeOK ==
  /\ table \in [Visit -> Entry] /\ visits \in [Visit -> Entry]
  /\ scratch \subseteq Visit /\ tmp \subseteq Visit /\ clip \subseteq Visit
  /\ published \in [Visit -> Nat]
  /\ up \in BOOLEAN /\ flag \in FlagValues /\ armed \in BOOLEAN
  /\ current \in [Key -> Visit \cup {NoVisit}]
  /\ open \subseteq Visit /\ todo \subseteq Visit
  /\ pc \in {"idle", "copy", "pop", "spawn", "open", "drain", "persist", "recover"}
  /\ closing \in Visit \cup {NoVisit} /\ opening \in Key \cup {NoKey}
  /\ draining \in {"no", "escalate", "disarm"}
  /\ job \in [Caller -> [Visit -> Phase]]
  /\ next \in 1..(MaxVisits + 1)
  /\ crashes \in 0..MaxCrashes /\ faults \in 0..MaxFaults

\* Plan B4: whatever the crash points, the failed writes and the races between a
\* finalize thread and recovery, a clip is renamed into place at most once: a
\* good clip is never overwritten.
AtMostOnePublish == \A v \in Visit : published[v] <= 1

\* Between two handlers, the runner's open visits are exactly the visits the
\* tracker keeps alive: a refused open, a finalize or a drain that updates only
\* one of the two would leave extends without a visit or a visit nobody closes.
TrackerRunnerAgree == Idle /\ armed => open = LiveVisits

\* While no write failed, every open visit is in the table on disk between two
\* handlers, as OPEN: a crash here loses none of them.
OpenVisitDurable ==
  Idle /\ armed /\ faults = 0 => \A v \in open : table[v] = 0

\* Footage that is in no clip yet never lies in scratch with nobody responsible
\* for it: once the worker is armed and between two handlers, its visit is open,
\* being finalized, or in the table for the next recovery.
ScratchHasOwner ==
  Idle /\ armed =>
    \A v \in scratch \ clip :
      v \in open \/ job["thread"][v] # "none" \/ table[v] # NoEntry

\* If the flag ends up on, the footage of every visit ends up in a clip or
\* discarded: no unfinished output, no open visit and no scratch without a clip
\* stays behind.
EventuallySettled ==
  <>[]flag =>
    \A v \in Visit :
      [](v < next => <>(v \notin (scratch \ clip) \cup tmp \cup open))

\* Recovery runs in the detection thread and waits for the semaphore the
\* finalize threads hold: it always gets through, or the worker dies.
RecoveryTerminates == pc = "recover" ~> pc # "recover"

\* The visits the tracker keeps alive, and the one in hand between the tracker and
\* its finalize.
Followed == LiveVisits \cup ({closing} \ {NoVisit})

StageOf(v) ==
  CASE v >= next -> "unborn"
    [] v < next /\ v \in Followed -> IF v \in scratch THEN "growing" ELSE "awaited"
    [] v < next /\ v \notin Followed ->
         IF v \in clip THEN "kept" ELSE IF v \in scratch THEN "sealed" ELSE "gone"

Lifecycle == INSTANCE VisitLifecycle WITH stage <- [v \in Visit |-> StageOf(v)]

\* Crashes, drains, refusals, sweeps, retries and flag moves included, the footage of
\* every visit goes through its life in order: a visit is handed over once, its
\* footage neither grows nor comes back afterwards, and it leaves scratch only then.
ImplementsLifecycle == Lifecycle!LifecycleSpec

(* Claims of the code's comments and tests that the code does not keep *)

\* "A FINALIZING entry must survive for a later retry (never silently dropped)":
\* only a recovery pass, which abandons it loudly or finds its clip, removes it.
FailedEntryKept ==
  [][\A v \in Visit : table[v] > 0 /\ table'[v] = NoEntry => pc = "recover"]_vars

\* "Mid-visit footage is finalized into a short VALID clip, not lost" when the
\* flag is switched off: nobody but its own finalize takes the scratch of a
\* visit that is being finalized.
FinalizeKeepsScratch ==
  [][\A v \in scratch :
       job["thread"][v] \in {"wait", "held", "written"} => v \in scratch']_vars
=============================================================================
