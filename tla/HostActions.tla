----------------------------- MODULE HostActions -----------------------------
(***************************************************************************)
(* Host actions: the owner asks the server (in a container) for a restart, *)
(* a reboot or a log tail; the host's detection worker polls for it,       *)
(* claims it, carries it out and reports.  The server keeps ONE slot and a *)
(* bounded history (server/app/services/host_bridge.py), persisted on      *)
(* every change; the worker keeps the identifiers it started               *)
(* (detection/detect.py, start_host_action_poll; host_action.plan_action). *)
(*                                                                         *)
(* Both processes may die at any point.  A call whose answer does not      *)
(* arrive in time is an exception for the worker, which goes back to       *)
(* polling; the request itself may still reach the server later ("late").  *)
(* Either side's write of its file may fail, which is logged and ignored.  *)
(*                                                                         *)
(* Abstractions.  Ages saturate just above the largest limit, so time is   *)
(* unbounded; the clock, shared by both processes, does not go back.  The  *)
(* kind of an action, its arguments and its result are left out, and so is *)
(* the wait for _RECOVERY_LOCK (CameraWatchdog).  An action that kills the *)
(* worker (a reboot) is Execute followed by the crashes.                   *)
(***************************************************************************)
EXTENDS Integers, Sequences, FiniteSets

CONSTANTS
  NoId,            \* the worker handles nothing
  WorkerMaxAge,    \* plan_action(max_age_s = 90)
  PendingMaxAge,   \* max_pending_age_s = 120
  RunningMaxAge,   \* DEFAULT_MAX_RUNNING_AGE_S = 120
  HistoryLimit,    \* HISTORY_LIMIT = 20
  SeenLimit,       \* identifiers the worker remembers, 50
  MaxRequests,     \* bound: records ever created
  MaxCrashes,      \* bound: deaths of either process
  MaxFaults,       \* bound: writes of the server's file that fail
  MaxSeenFaults    \* bound: writes of the worker's file that fail

ASSUME HostActionsAssumption ==
  /\ WorkerMaxAge \in Nat /\ PendingMaxAge \in Nat /\ RunningMaxAge \in Nat
  /\ WorkerMaxAge <= PendingMaxAge
  /\ HistoryLimit \in Nat \ {0} /\ SeenLimit \in Nat \ {0}
  /\ MaxRequests \in Nat /\ MaxCrashes \in Nat
  /\ MaxFaults \in Nat /\ MaxSeenFaults \in Nat
  /\ NoId \notin Nat

VARIABLES
  \* server
  slot,      \* _current: a record, or NoRecord
  history,   \* _history, newest first
  disk,      \* the file: slot and history as last written
  \* worker
  wpc,       \* the poll loop's next step
  held,      \* the record it handles
  outcome,   \* the status it will report
  seen,      \* _HOST_ACTION_SEEN_IDS
  seenDisk,  \* .host_action_seen.json
  \* between them
  late,      \* requests given up on by the worker that may still arrive
  age,       \* per record: time since requested_at
  runAge,    \* per record: time since claimed_at
  \* bookkeeping
  ran,       \* history: how often each action was started
  killed,    \* history: actions the worker died in
  next, crashes, faults, seenFaults

server == <<slot, history, disk, faults>>
poller == <<wpc, held, outcome>>
memory == <<seen, seenDisk, seenFaults>>
clock == <<age, runAge>>
vars == <<server, poller, memory, clock, late, ran, killed, next, crashes>>

Id == 1..MaxRequests

Live == {"pending", "running"}

Terminal == {"done", "failed", "expired"}

Record == [id: Id, status: Live \cup Terminal]

\* _current is None.
NoRecord == [id |-> 0, status |-> "none"]

MaxAge == IF PendingMaxAge < RunningMaxAge THEN RunningMaxAge + 1 ELSE PendingMaxAge + 1

Message == [type: {"claim"}, id: Id]
             \cup [type: {"result"}, id: Id, status: {"done", "failed"}]

Messages == SUBSET Message

Archive == UNION {[1..n -> Record] : n \in 0..HistoryLimit}

-----------------------------------------------------------------------------
(* The server *)

\* _persist: both are written together, or the write fails.
Persist(s, h) ==
  \/ disk' = [slot |-> s, history |-> h] /\ UNCHANGED faults
  \/ faults < MaxFaults /\ faults' = faults + 1 /\ UNCHANGED disk

\* The records of h but those of request i, in their order.
Without(h, i) ==
  LET kept[n \in 0..Len(h)] ==
        IF n = 0 THEN <<>>
        ELSE IF h[n].id = i THEN kept[n - 1] ELSE Append(kept[n - 1], h[n])
  IN kept[Len(h)]

\* Mutant of Pushed: the history is never cut.
PushedUncut(r, h) == <<r>> \o Without(h, r.id)

\* _push_history.
Pushed(r, h) ==
  LET older == Without(h, r.id)
  IN SubSeq(<<r>> \o older, 1,
            IF Len(older) < HistoryLimit THEN Len(older) + 1 ELSE HistoryLimit)

\* Mutant of Stale: only a pending record ever goes stale.
PendingStale(r) == r.status = "pending" /\ age[r.id] > PendingMaxAge

\* _is_stale, _running_stale.
Stale(r) ==
  \/ r.status = "pending" /\ age[r.id] > PendingMaxAge
  \/ r.status = "running" /\ runAge[r.id] > RunningMaxAge

Expired(r) == [r EXCEPT !.status = "expired"]

Holds(i, statuses) == slot.id = i /\ slot.status \in statuses

\* enqueue: the owner's request becomes the current record, unless a live one is
\* there (which is returned instead, and nothing changes).
Enqueue ==
  LET stale == Stale(slot)
      kept == IF stale THEN Pushed(Expired(slot), history) ELSE history
  IN /\ next <= MaxRequests
     /\ slot.status \notin Live \/ stale
     /\ slot' = [id |-> next, status |-> "pending"]
     /\ history' = kept
     /\ \/ Persist(slot', history')
        \/ /\ stale /\ faults < MaxFaults /\ faults' = faults + 1
           /\ disk' = [slot |-> Expired(slot), history |-> kept]
     /\ next' = next + 1
     /\ age' = [age EXCEPT ![next] = 0]
     /\ UNCHANGED <<poller, memory, runAge, late, ran, killed, crashes>>

\* Mutant of Claimed: the running state is not written.
ClaimedInMemory(i) ==
  IF Holds(i, {"pending"})
  THEN /\ slot' = [slot EXCEPT !.status = "running"]
       /\ runAge' = [runAge EXCEPT ![i] = 0]
       /\ UNCHANGED <<history, disk, faults>>
  ELSE UNCHANGED <<server, runAge>>

\* claim: compare-and-set from pending to running.
Claimed(i) ==
  IF Holds(i, {"pending"})
  THEN /\ slot' = [slot EXCEPT !.status = "running"]
       /\ runAge' = [runAge EXCEPT ![i] = 0]
       /\ UNCHANGED history
       /\ Persist(slot', history)
  ELSE UNCHANGED <<server, runAge>>

\* Mutant of Recorded: a result is taken whatever the status.
RecordedAlways(i, status) ==
  IF Holds(i, Live \cup Terminal)
  THEN /\ slot' = [slot EXCEPT !.status = status]
       /\ history' = Pushed(slot', history)
       /\ Persist(slot', history')
  ELSE UNCHANGED server

\* record_result: a live record gets its terminal status.
Recorded(i, status) ==
  IF Holds(i, Live)
  THEN /\ slot' = [slot EXCEPT !.status = status]
       /\ history' = Pushed(slot', history)
       /\ Persist(slot', history')
  ELSE UNCHANGED server

\* The server dies and loads its file.
ServerCrash ==
  /\ crashes < MaxCrashes /\ crashes' = crashes + 1
  /\ slot' = disk.slot /\ history' = disk.history
  /\ UNCHANGED <<disk, faults, poller, memory, clock, late, ran, killed, next>>

-----------------------------------------------------------------------------
(* The worker's poll loop *)

Init ==
  /\ slot = NoRecord /\ history = <<>>
  /\ disk = [slot |-> NoRecord, history |-> <<>>]
  /\ wpc = "poll" /\ held = NoId /\ outcome = "failed"
  /\ seen = {} /\ seenDisk = {}
  /\ late = {}
  /\ age = [i \in Id |-> 0] /\ runAge = [i \in Id |-> 0]
  /\ ran = [i \in Id |-> 0] /\ killed = {}
  /\ next = 1 /\ crashes = 0 /\ faults = 0 /\ seenFaults = 0

BackToPoll == wpc' = "poll" /\ held' = NoId /\ outcome' = "failed"

\* peek finds a stale record: it expires, the worker gets nothing.
PollExpire ==
  /\ wpc = "poll"
  /\ Stale(slot)
  /\ slot' = Expired(slot)
  /\ history' = Pushed(slot', history)
  /\ Persist(slot', history')
  /\ UNCHANGED <<poller, memory, clock, late, ran, killed, next, crashes>>

\* peek hands out the pending record.
PollTake ==
  /\ wpc = "poll"
  /\ slot.status = "pending" /\ ~Stale(slot)
  /\ held' = slot.id /\ wpc' = "plan"
  /\ UNCHANGED <<server, outcome, memory, clock, late, ran, killed, next, crashes>>

\* plan_action: already started, too old, or to be claimed.
Plan ==
  /\ wpc = "plan"
  /\ \/ held \in seen /\ wpc' = "report" /\ outcome' = "done"
     \/ /\ held \notin seen /\ age[held] > WorkerMaxAge
        /\ wpc' = "report" /\ outcome' = "failed"
     \/ /\ held \notin seen /\ age[held] <= WorkerMaxAge
        /\ wpc' = "claim" /\ UNCHANGED outcome
  /\ UNCHANGED <<server, held, memory, clock, late, ran, killed, next, crashes>>

\* The claim is answered.
Claim ==
  /\ wpc = "claim"
  /\ Claimed(held)
  /\ IF Holds(held, {"pending"})
     THEN wpc' = "mark" /\ UNCHANGED <<held, outcome>>
     ELSE BackToPoll
  /\ UNCHANGED <<memory, age, late, ran, killed, next, crashes>>

\* The claim is not answered in time: it may arrive later.
ClaimTimeout ==
  /\ wpc = "claim"
  /\ late' = late \cup {[type |-> "claim", id |-> held]}
  /\ BackToPoll
  /\ UNCHANGED <<server, memory, clock, ran, killed, next, crashes>>

\* Mutant of Mark: remembered, but not in the file.
MarkInMemory ==
  /\ wpc = "mark"
  /\ seen' \in {s \in SUBSET (seen \cup {held}) :
                  Cardinality(s) = Cardinality(seen \cup {held})}
  /\ wpc' = "execute"
  /\ UNCHANGED <<server, held, outcome, seenDisk, seenFaults, clock, late, ran, killed,
                 next, crashes>>

\* _mark_host_action_seen: remembered, in the file too, before it is started.  Over
\* the limit, list(set)[-50:] keeps any SeenLimit of them.
Mark ==
  LET all == seen \cup {held}
      size == IF Cardinality(all) > SeenLimit THEN SeenLimit ELSE Cardinality(all)
  IN /\ wpc = "mark"
     /\ seen' \in {s \in SUBSET all : Cardinality(s) = size}
     /\ \/ seenDisk' = seen' /\ UNCHANGED seenFaults
        \/ /\ seenFaults < MaxSeenFaults /\ seenFaults' = seenFaults + 1
           /\ UNCHANGED seenDisk
     /\ wpc' = "execute"
     /\ UNCHANGED <<server, held, outcome, clock, late, ran, killed, next, crashes>>

\* execute_action: done, failed, or an exception that nobody reports.
Execute ==
  /\ wpc = "execute"
  /\ ran' = [ran EXCEPT ![held] = @ + 1]
  /\ \/ outcome' \in {"done", "failed"} /\ wpc' = "report" /\ UNCHANGED held
     \/ BackToPoll
  /\ UNCHANGED <<server, memory, clock, late, killed, next, crashes>>

\* The result is delivered.
Report ==
  /\ wpc = "report"
  /\ Recorded(held, outcome)
  /\ BackToPoll
  /\ UNCHANGED <<memory, clock, late, ran, killed, next, crashes>>

\* The result is not answered in time: it is never sent again.
ReportTimeout ==
  /\ wpc = "report"
  /\ late' = late \cup {[type |-> "result", id |-> held, status |-> outcome]}
  /\ BackToPoll
  /\ UNCHANGED <<server, memory, clock, ran, killed, next, crashes>>

\* The worker dies and loads its file.
WorkerCrash ==
  /\ crashes < MaxCrashes /\ crashes' = crashes + 1
  /\ BackToPoll
  /\ seen' = seenDisk
  /\ killed' = IF wpc = "report" /\ ran[held] > 0 THEN killed \cup {held} ELSE killed
  /\ UNCHANGED <<server, seenDisk, seenFaults, clock, late, ran, next>>

-----------------------------------------------------------------------------
(* The network and the clock *)

\* A request the worker gave up on reaches the server.
DeliverLate(m) ==
  /\ m \in late
  /\ late' = late \ {m}
  /\ \/ m.type = "claim" /\ Claimed(m.id)
     \/ m.type = "result" /\ Recorded(m.id, m.status) /\ UNCHANGED runAge
  /\ UNCHANGED <<poller, memory, age, ran, killed, next, crashes>>

\* ... or never.
LoseLate(m) ==
  /\ m \in late
  /\ late' = late \ {m}
  /\ UNCHANGED <<server, poller, memory, clock, ran, killed, next, crashes>>

Older(a) == [i \in Id |-> IF i < next /\ a[i] < MaxAge THEN a[i] + 1 ELSE a[i]]

\* Time passes.
Tick ==
  /\ <<Older(age), Older(runAge)>> # clock
  /\ age' = Older(age) /\ runAge' = Older(runAge)
  /\ UNCHANGED <<server, poller, memory, late, ran, killed, next, crashes>>

WorkerStep ==
  \/ PollExpire \/ PollTake \/ Plan
  \/ Claim \/ ClaimTimeout \/ Mark \/ Execute \/ Report \/ ReportTimeout

Next ==
  \/ Enqueue
  \/ WorkerStep
  \/ \E m \in late : DeliverLate(m) \/ LoseLate(m)
  \/ Tick
  \/ ServerCrash \/ WorkerCrash

Spec == Init /\ [][Next]_vars

\* The poll loop runs forever (systemd restarts the worker) and time passes.
FairSpec == Spec /\ WF_vars(WorkerStep) /\ WF_vars(Tick)

-----------------------------------------------------------------------------
(* Properties *)

Records == {history[n] : n \in DOMAIN history} \cup ({slot} \ {NoRecord})

TypeOK ==
  /\ slot \in Record \cup {NoRecord}
  /\ history \in Archive
  /\ disk \in [slot: Record \cup {NoRecord}, history: Archive]
  /\ wpc \in {"poll", "plan", "claim", "mark", "execute", "report"}
  /\ held \in Id \cup {NoId} /\ outcome \in {"done", "failed"}
  /\ seen \subseteq Id /\ seenDisk \subseteq Id
  /\ late \in Messages
  /\ age \in [Id -> 0..MaxAge] /\ runAge \in [Id -> 0..MaxAge]
  /\ ran \in [Id -> Nat] /\ killed \subseteq Id
  /\ next \in 1..(MaxRequests + 1)
  /\ crashes \in 0..MaxCrashes /\ faults \in 0..MaxFaults
  /\ seenFaults \in 0..MaxSeenFaults

\* An action is started at most once - a reboot does not repeat - whatever crashes
\* and whatever arrives late: it takes a failed write on the server's side AND one
\* on the worker's side (or more actions than the worker remembers) to start it twice.
AtMostOnce ==
  faults = 0 \/ (seenFaults = 0 /\ MaxRequests <= SeenLimit) =>
    \A i \in Id : ran[i] <= 1

\* While the server's writes succeed, the status a request shows is the truth about its
\* action, over every crash and every lost or late call: one that was started is never
\* offered again as pending, and one that is done was started.
StatusIsTrue ==
  faults = 0 =>
    /\ \A i \in Id : ran[i] > 0 => ~Holds(i, {"pending"})
    /\ \A r \in Records : r.status = "done" => ran[r.id] > 0

\* While the server's writes succeed, the status of a settled request never changes
\* again, whatever arrives late and whoever crashes.
SettledIsFinal ==
  [][faults' = 0 =>
       \A r \in Records : r.status \in Terminal =>
         \A q \in Records' : q.id = r.id => q = r]_vars

\* The slot never jams: a live request is settled or replaced, so a later one can be
\* made, even if the worker died between the claim and the result.
SlotIsFreed ==
  \A i \in Id : Holds(i, Live) ~> ~Holds(i, Live)

(* A claim of the design that the code does not keep *)

\* "A reboot that actually happened resolves to done": the worker that comes up
\* after the reboot recognises the identifier and reports it, so the request of an
\* action the worker died in does not expire.
RebootResolves == \A r \in Records : r.status = "expired" => r.id \notin killed
=============================================================================
