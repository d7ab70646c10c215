----------------------- MODULE CameraWatchdog_proofs -----------------------
(***************************************************************************)
(* Proofs about CameraWatchdog for every dwell, every interval and every   *)
(* number of requests and mishaps.                                         *)
(*                                                                         *)
(* That reboots are spaced rests on three facts.  The threads exclude each *)
(* other from the look at the guard to the command (Exclusive).  While the *)
(* file is written whole and the clock goes forward, the mark in memory is *)
(* the mark on disk, and it is never older than the last reboot            *)
(* (MarkFresh): so the guard, which reads the mark, bounds the age of the  *)
(* reboot itself.  And a thread past the guard has found that age large    *)
(* enough, and after the mark has left no older one behind (Guarded).      *)
(* The type invariant needs, besides, that a loop which goes on has not    *)
(* failed often enough to give up (Surviving).                             *)
(*                                                                         *)
(* That remedies get their time and that a reboot comes last are facts     *)
(* about the ladder across deaths (Ladder): the memory agrees with the     *)
(* file outside the steps that write it (InStep), the level on disk tells  *)
(* the dwell of the last rung and its time when it fired (Dated), and each *)
(* nvargus rung that was passed was tried or counted as skipped (Climbed). *)
(***************************************************************************)
EXTENDS CameraWatchdog, TLAPS

\* From the look at the guard to the end of the action a thread holds the lock.
Locked == {"guard", "mark", "command", "acting"}

Exclusive == \A t \in Thread : pc[t] \in Locked => lock = t

\* The mark in memory and on disk is one, and no older than the last reboot.
MarkFresh ==
  ~disturbed =>
    /\ disk.reboot \in 0..OldReboot
    /\ disk.reboot <= rebootAge
    /\ up => state.reboot = disk.reboot

\* Past the guard the last reboot is long ago; past the mark, the mark is new.
Guarded ==
  ~disturbed =>
    \A t \in Thread :
      /\ pc[t] \in {"mark", "command"} => rebootAge >= RebootInterval
      /\ pc[t] = "command" => disk.reboot = 0

\* A loop that goes on capturing has not reached the limit of failures.
Surviving == pc["main"] \in {"capture", "clear"} => misses <= GiveUp

IInv == TypeOK /\ Exclusive /\ MarkFresh /\ Guarded /\ Surviving

-----------------------------------------------------------------------------

\* The ages and levels are numbers, and their bounds are naturals.
LEMMA Bounds ==
  /\ OldAction \in Nat /\ OldReboot \in Nat \ {0} /\ OldReboot = RebootInterval
  /\ Fresh \in State
BY WatchdogAssumption DEF WatchdogAssumption, OldAction, OldReboot, Larger, Fresh, State,
   Level, Top, ActionAge, RebootAge

\* A thread and the other one are the two threads there are.
LEMMA Threads == \A t \in Thread : Other(t) \in Thread /\ Other(t) # t
BY DEF Thread, Other

\* The actions of the ladder are actions.
LEMMA ResolveType == \A l \in Level : Resolve(l) \in Action
BY DEF Level, Top, Resolve, Rung, Action

\* A saved file is a state, and mishaps stay bounded.
LEMMA SaveType ==
  ASSUME TypeOK, NEW t \in Thread, NEW content \in State, Save(t, content)
  PROVE  /\ disk' \in State /\ disturbed' \in BOOLEAN /\ mishaps' \in 0..MaxMishaps
         /\ ~disturbed' => disk' = content /\ ~disturbed
<1>1. CASE disk' = content /\ UNCHANGED <<disturbed, mishaps>>
  BY <1>1 DEF TypeOK
<1>2. CASE Mishap /\ disturbed' = TRUE /\ UNCHANGED disk
  BY <1>2, WatchdogAssumption DEF TypeOK, Mishap, WatchdogAssumption
<1>3. CASE disk' = Fresh /\ disturbed' = TRUE /\ UNCHANGED mishaps
  BY <1>3, Bounds DEF TypeOK
<1> QED BY <1>1, <1>2, <1>3 DEF Save

\* Time leaves ages and states what they are.
LEMMA OlderType ==
  /\ \A a \in ActionAge : OlderAction(a) \in ActionAge
  /\ \A a \in 0..OldAction : OlderAction(a) \in 0..OldAction
  /\ \A a \in 0..OldReboot : OlderReboot(a) \in 0..OldReboot
  /\ \A s \in State : OlderState(s) \in State
<1>1. \A a \in ActionAge : OlderAction(a) \in ActionAge
  BY Bounds DEF ActionAge, OlderAction, Future
<1>2. \A a \in 0..OldAction : OlderAction(a) \in 0..OldAction
  BY Bounds DEF OlderAction, Future
<1>3. \A a \in RebootAge : OlderReboot(a) \in RebootAge
  BY Bounds DEF RebootAge, OlderReboot, Future
<1>4. \A a \in 0..OldReboot : OlderReboot(a) \in 0..OldReboot
  BY Bounds DEF OlderReboot, Future
<1>5. \A s \in State : OlderState(s) \in State
  BY <1>1, <1>3 DEF State, OlderState
<1> QED BY <1>1, <1>2, <1>4, <1>5

\* Time ages the mark of a reboot.
LEMMA OlderMark == \A s \in State : OlderState(s).reboot = OlderReboot(s.reboot)
BY DEF State, OlderState

\* A clock that was set back leaves states what they are.
LEMMA UnseenType == \A s \in State : Unseen(s) \in State
BY DEF State, ActionAge, RebootAge, Unseen

\* A failed capture moves the main thread and its counters only.
LEMMA CaptureFailsInv ==
  ASSUME IInv, CaptureFails
  PROVE  IInv'
<1>1. TypeOK'
  BY Bounds, Threads, WatchdogAssumption DEF IInv, TypeOK, Surviving,
     WatchdogAssumption, Thread, CaptureFails, threads, ladder, saved, past,
     AfterFailure, Due
<1>2. Exclusive'
  BY Threads DEF IInv, TypeOK, Exclusive, Locked, Thread, CaptureFails, threads,
     ladder, saved, past, AfterFailure, Due
<1>3. MarkFresh'
  BY Bounds DEF IInv, TypeOK, MarkFresh, CaptureFails, threads, ladder, saved, past,
     AfterFailure, Due
<1>4. Guarded'
  BY Bounds, Threads DEF IInv, TypeOK, MarkFresh, Guarded, CaptureFails, threads,
     ladder, saved, past, AfterFailure, Due
<1>5. Surviving'
  BY WatchdogAssumption DEF IInv, TypeOK, Surviving, WatchdogAssumption, Thread,
     CaptureFails, threads, ladder, saved, past, AfterFailure, Due
<1> QED BY <1>1, <1>2, <1>3, <1>4, <1>5 DEF IInv

\* Firing a rung changes the memory of the ladder only.
LEMMA RungFiresInv ==
  ASSUME IInv, RungFires
  PROVE  IInv'
<1>1. TypeOK'
  BY Bounds, Threads, WatchdogAssumption, ResolveType DEF IInv, TypeOK, Surviving,
     WatchdogAssumption, Thread, RungFires, threads, ladder, saved, past, Due, Level,
     Top, ActionAge
<1>2. Exclusive'
  BY Threads DEF IInv, TypeOK, Exclusive, Locked, Thread, RungFires, threads, ladder,
     saved, past
<1>3. MarkFresh'
  BY Bounds DEF IInv, TypeOK, MarkFresh, RungFires, threads, ladder, saved, past
<1>4. Guarded'
  BY Bounds, Threads DEF IInv, TypeOK, MarkFresh, Guarded, RungFires, threads,
     ladder, saved, past
<1>5. Surviving'
  BY WatchdogAssumption DEF IInv, TypeOK, Surviving, WatchdogAssumption, Thread,
     RungFires, threads, ladder, saved, past
<1> QED BY <1>1, <1>2, <1>3, <1>4, <1>5 DEF IInv

\* A frame resets the memory of the ladder only.
LEMMA CaptureWorksInv ==
  ASSUME IInv, CaptureWorks
  PROVE  IInv'
<1>1. TypeOK'
  BY Bounds, Threads, WatchdogAssumption DEF IInv, TypeOK, Surviving,
     WatchdogAssumption, Thread, CaptureWorks, threads, ladder, saved, past, Level,
     Top
<1>2. Exclusive'
  BY Threads DEF IInv, TypeOK, Exclusive, Locked, Thread, CaptureWorks, threads,
     ladder, saved, past
<1>3. MarkFresh'
  BY Bounds DEF IInv, TypeOK, MarkFresh, CaptureWorks, threads, ladder, saved, past
<1>4. Guarded'
  BY Bounds, Threads DEF IInv, TypeOK, MarkFresh, Guarded, CaptureWorks, threads,
     ladder, saved, past
<1>5. Surviving'
  BY WatchdogAssumption DEF IInv, TypeOK, Surviving, WatchdogAssumption, Thread,
     CaptureWorks, threads, ladder, saved, past
<1> QED BY <1>1, <1>2, <1>3, <1>4, <1>5 DEF IInv

\* Writing the rung keeps the mark of the last reboot.
LEMMA PersistLevelInv ==
  ASSUME IInv, PersistLevel
  PROVE  IInv'
<1>1. state' \in State /\ state'.reboot = state.reboot
  BY DEF IInv, TypeOK, PersistLevel, State
<1>2. /\ disk' \in State /\ disturbed' \in BOOLEAN /\ mishaps' \in 0..MaxMishaps
      /\ ~disturbed' => disk' = state' /\ ~disturbed
  BY <1>1, SaveType DEF IInv, PersistLevel, Thread
<1>3. TypeOK'
  BY <1>1, <1>2, Bounds DEF IInv, TypeOK, PersistLevel, threads, ladder, Thread, ActionAge,
     Future
<1>4. Exclusive'
  BY DEF IInv, TypeOK, Exclusive, Locked, Thread, PersistLevel, threads
<1>5. MarkFresh'
  BY <1>1, <1>2 DEF IInv, TypeOK, MarkFresh, PersistLevel
<1>6. Guarded'
  BY <1>1, <1>2 DEF IInv, TypeOK, MarkFresh, Guarded, PersistLevel
<1>7. Surviving'
  BY DEF IInv, TypeOK, Surviving, Thread, PersistLevel
<1> QED BY <1>3, <1>4, <1>5, <1>6, <1>7 DEF IInv

\* Writing the recovery keeps the mark of the last reboot.
LEMMA ClearEscalationInv ==
  ASSUME IInv, ClearEscalation
  PROVE  IInv'
<1>1. state' \in State /\ state'.reboot = state.reboot
  <2>1. 0 \in Level /\ OldAction \in ActionAge
    BY Bounds DEF Level, Top, ActionAge
  <2>2. CASE state.level # 0
    BY <2>1, <2>2 DEF IInv, TypeOK, ClearEscalation, State
  <2>3. CASE state.level = 0
    BY <2>3 DEF IInv, TypeOK, ClearEscalation, saved
  <2> QED BY <2>2, <2>3
<1>2. /\ disk' \in State /\ disturbed' \in BOOLEAN /\ mishaps' \in 0..MaxMishaps
      /\ ~disturbed' => ~disturbed
      /\ ~disturbed' => disk' = state' \/ UNCHANGED <<state, disk>>
  <2>1. CASE state.level # 0
    BY <2>1, <1>1, SaveType DEF IInv, ClearEscalation, Thread
  <2>2. CASE state.level = 0
    BY <2>2 DEF IInv, TypeOK, ClearEscalation, saved
  <2> QED BY <2>1, <2>2
<1>3. TypeOK'
  BY <1>1, <1>2 DEF IInv, TypeOK, ClearEscalation, threads, ladder, Thread
<1>4. Exclusive'
  BY DEF IInv, TypeOK, Exclusive, Locked, Thread, ClearEscalation, threads
<1>5. MarkFresh'
  BY <1>1, <1>2 DEF IInv, TypeOK, MarkFresh, ClearEscalation
<1>6. Guarded'
  BY <1>1, <1>2 DEF IInv, TypeOK, MarkFresh, Guarded, ClearEscalation
<1>7. Surviving'
  BY DEF IInv, TypeOK, Surviving, Thread, ClearEscalation, ladder
<1> QED BY <1>3, <1>4, <1>5, <1>6, <1>7 DEF IInv

\* A request of the owner starts outside the lock.
LEMMA OwnerAsksInv ==
  ASSUME IInv, NEW a \in Action, OwnerAsks(a)
  PROVE  IInv'
<1>1. TypeOK'
  BY Bounds, Threads, WatchdogAssumption DEF IInv, TypeOK, Surviving,
     WatchdogAssumption, Thread, OwnerAsks, threads, ladder, saved, past
<1>2. Exclusive'
  BY Threads DEF IInv, TypeOK, Exclusive, Locked, Thread, OwnerAsks, threads, ladder,
     saved, past
<1>3. MarkFresh'
  BY Bounds DEF IInv, TypeOK, MarkFresh, OwnerAsks, threads, ladder, saved, past
<1>4. Guarded'
  BY Bounds, Threads DEF IInv, TypeOK, MarkFresh, Guarded, OwnerAsks, threads,
     ladder, saved, past
<1>5. Surviving'
  BY WatchdogAssumption DEF IInv, TypeOK, Surviving, WatchdogAssumption, Thread,
     OwnerAsks, threads, ladder, saved, past
<1> QED BY <1>1, <1>2, <1>3, <1>4, <1>5 DEF IInv

\* Taking the free lock keeps the threads exclusive.
LEMMA AcquireInv ==
  ASSUME IInv, NEW t \in Thread, Acquire(t)
  PROVE  IInv'
<1>1. TypeOK'
  BY Bounds, Threads, WatchdogAssumption DEF IInv, TypeOK, Surviving,
     WatchdogAssumption, Thread, Acquire, threads, ladder, saved, past
<1>2. Exclusive'
  BY Threads DEF IInv, TypeOK, Exclusive, Locked, Thread, Acquire, threads, ladder,
     saved, past
<1>3. MarkFresh'
  BY Bounds DEF IInv, TypeOK, MarkFresh, Acquire, threads, ladder, saved, past
<1>4. Guarded'
  BY Bounds, Threads DEF IInv, TypeOK, MarkFresh, Guarded, Acquire, threads, ladder,
     saved, past
<1>5. Surviving'
  BY WatchdogAssumption DEF IInv, TypeOK, Surviving, WatchdogAssumption, Thread,
     Acquire, threads, ladder, saved, past
<1> QED BY <1>1, <1>2, <1>3, <1>4, <1>5 DEF IInv

\* A suppressed reboot goes on under the same lock.
LEMMA SuppressRebootInv ==
  ASSUME IInv, NEW t \in Thread, SuppressReboot(t)
  PROVE  IInv'
<1>1. TypeOK'
  BY Bounds, Threads, WatchdogAssumption DEF IInv, TypeOK, Surviving,
     WatchdogAssumption, Thread, SuppressReboot, threads, ladder, saved, past, Action
<1>2. Exclusive'
  BY Threads DEF IInv, TypeOK, Exclusive, Locked, Thread, SuppressReboot, threads,
     ladder, saved, past
<1>3. MarkFresh'
  BY Bounds DEF IInv, TypeOK, MarkFresh, SuppressReboot, threads, ladder, saved, past
<1>4. Guarded'
  BY Bounds, Threads DEF IInv, TypeOK, MarkFresh, Guarded, SuppressReboot, threads,
     ladder, saved, past
<1>5. Surviving'
  BY WatchdogAssumption DEF IInv, TypeOK, Surviving, WatchdogAssumption, Thread,
     SuppressReboot, threads, ladder, saved, past
<1> QED BY <1>1, <1>2, <1>3, <1>4, <1>5 DEF IInv

\* The guard passes only if the last reboot is long enough ago.
LEMMA AllowGuardedInv ==
  ASSUME IInv, NEW t \in Thread, AllowGuarded(t)
  PROVE  IInv'
<1>1. TypeOK'
  BY Bounds, Threads, WatchdogAssumption DEF IInv, TypeOK, Surviving,
     WatchdogAssumption, Thread, AllowGuarded, threads, ladder, saved, past
<1>2. Exclusive'
  BY Threads DEF IInv, TypeOK, Exclusive, Locked, Thread, AllowGuarded, threads,
     ladder, saved, past
<1>3. MarkFresh'
  BY Bounds DEF IInv, TypeOK, MarkFresh, AllowGuarded, threads, ladder, saved, past
<1>4. Guarded'
  BY Bounds, Threads DEF IInv, TypeOK, MarkFresh, Guarded, AllowGuarded, threads,
     ladder, saved, past, RebootAllowed, Future
<1>5. Surviving'
  BY WatchdogAssumption DEF IInv, TypeOK, Surviving, WatchdogAssumption, Thread,
     AllowGuarded, threads, ladder, saved, past
<1> QED BY <1>1, <1>2, <1>3, <1>4, <1>5 DEF IInv

\* The mark is on disk before the command, and no other thread is past the guard.
LEMMA MarkRebootInv ==
  ASSUME IInv, NEW t \in Thread, MarkReboot(t)
  PROVE  IInv'
<1>1. state' \in State /\ state'.reboot = 0
  BY Bounds DEF IInv, TypeOK, MarkReboot, State, RebootAge
<1>2. /\ disk' \in State /\ disturbed' \in BOOLEAN /\ mishaps' \in 0..MaxMishaps
      /\ ~disturbed' => disk' = state' /\ ~disturbed
  BY <1>1, SaveType DEF IInv, MarkReboot
<1>3. TypeOK'
  BY <1>1, <1>2 DEF IInv, TypeOK, MarkReboot, threads, ladder, past, Thread
<1>4. Exclusive'
  BY DEF IInv, TypeOK, Exclusive, Locked, Thread, MarkReboot
<1>5. MarkFresh'
  <2>1. 0 \in 0..OldReboot /\ 0 <= rebootAge' /\ rebootAge' = rebootAge
    BY Bounds DEF IInv, TypeOK, MarkReboot, past
  <2> QED BY <1>1, <1>2, <2>1 DEF MarkFresh
<1>6. Guarded'
  BY <1>1, <1>2, Threads DEF IInv, TypeOK, Exclusive, Locked, MarkFresh, Guarded, Thread,
     MarkReboot, past
<1>7. Surviving'
  BY DEF IInv, TypeOK, Surviving, Thread, MarkReboot, ladder
<1> QED BY <1>3, <1>4, <1>5, <1>6, <1>7 DEF IInv

\* The command makes the last reboot as young as its mark.
LEMMA RebootInv ==
  ASSUME IInv, NEW t \in Thread, Reboot(t)
  PROVE  IInv'
<1>1. TypeOK'
  <2>1. rebooting' \in BOOLEAN /\ up' \in BOOLEAN
    BY Zenon DEF IInv, TypeOK, Reboot
  <2>2. rebootAge' \in 0..OldReboot
    BY Bounds DEF Reboot
  <2>3. tried' \subseteq Action
    BY DEF IInv, TypeOK, Reboot, Action
  <2>4. pc' = [pc EXCEPT ![t] = "acting"]
    BY DEF Reboot
  <2> QED
    BY <2>1, <2>2, <2>3, <2>4 DEF IInv, TypeOK, Reboot, ladder, saved, Thread
<1>2. Exclusive'
  BY Threads DEF IInv, TypeOK, Exclusive, Locked, Thread, Reboot, threads, ladder,
     saved, past
<1>3. MarkFresh'
  BY Bounds DEF IInv, TypeOK, MarkFresh, Reboot, threads, ladder, saved, past,
     Guarded
<1>4. Guarded'
  BY Bounds, Threads DEF IInv, TypeOK, MarkFresh, Guarded, Reboot, threads, ladder,
     saved, past, Exclusive, Locked, Thread
<1>5. Surviving'
  BY WatchdogAssumption DEF IInv, TypeOK, Surviving, WatchdogAssumption, Thread,
     Reboot, threads, ladder, saved, past
<1> QED BY <1>1, <1>2, <1>3, <1>4, <1>5 DEF IInv

\* The end of an action releases the lock.
LEMMA FinishInv ==
  ASSUME IInv, NEW t \in Thread, Finish(t)
  PROVE  IInv'
<1>1. TypeOK'
  BY Bounds, Threads, WatchdogAssumption DEF IInv, TypeOK, Surviving,
     WatchdogAssumption, Thread, Finish, threads, ladder, saved, past
<1>2. Exclusive'
  BY Threads DEF IInv, TypeOK, Exclusive, Locked, Thread, Finish, threads, ladder,
     saved, past
<1>3. MarkFresh'
  BY Bounds DEF IInv, TypeOK, MarkFresh, Finish, threads, ladder, saved, past
<1>4. Guarded'
  BY Bounds, Threads DEF IInv, TypeOK, MarkFresh, Guarded, Finish, threads, ladder,
     saved, past
<1>5. Surviving'
  BY WatchdogAssumption DEF IInv, TypeOK, Surviving, WatchdogAssumption, Thread,
     Finish, threads, ladder, saved, past
<1> QED BY <1>1, <1>2, <1>3, <1>4, <1>5 DEF IInv

\* A death leaves no thread in an action, and the file as it is.
LEMMA DownInv ==
  ASSUME IInv, mishaps' \in 0..MaxMishaps, Down
  PROVE  IInv'
<1>1. TypeOK'
  <2>1. /\ 0 \in Level /\ OldAction \in ActionAge
        /\ 0 \in 0..FailThreshold /\ 0 \in 0..(GiveUp + 1)
    BY Bounds, WatchdogAssumption DEF WatchdogAssumption, Level, Top, ActionAge
  <2>2. skipped' \in 0..2
    BY DEF IInv, TypeOK, Down
  <2>3. act' \in [Thread -> Action]
    BY DEF Down, Action
  <2>4. /\ pc' \in [Thread -> {"capture", "idle"}]
        /\ pc'["main"] = "capture" /\ pc'["host"] = "idle"
    BY DEF Down, Thread
  <2> QED
    BY <2>1, <2>2, <2>3, <2>4, Bounds DEF IInv, TypeOK, Down
<1>2. \A t \in Thread : pc'[t] \in {"capture", "idle"}
  BY DEF Down, Thread
<1>3. Exclusive'
  BY <1>2 DEF Exclusive, Locked
<1>4. MarkFresh'
  BY DEF IInv, MarkFresh, Down
<1>5. Guarded'
  BY <1>2 DEF Guarded
<1>6. Surviving'
  BY WatchdogAssumption DEF WatchdogAssumption, Surviving, Down
<1> QED BY <1>1, <1>3, <1>4, <1>5, <1>6 DEF IInv

\* The worker starts with the mark that is on disk.
LEMMA StartInv ==
  ASSUME IInv, Start
  PROVE  IInv'
<1>1. TypeOK'
  <2>1. level' \in Level /\ lastAt' \in ActionAge
    BY Bounds DEF IInv, TypeOK, Start, State, ActionAge
  <2> QED
    BY <2>1 DEF IInv, TypeOK, Start, threads, past
<1>2. Exclusive'
  BY Threads DEF IInv, TypeOK, Exclusive, Locked, Thread, Start, threads, ladder,
     saved, past
<1>3. MarkFresh'
  BY Bounds DEF IInv, TypeOK, MarkFresh, Start, threads, ladder, saved, past
<1>4. Guarded'
  BY Bounds, Threads DEF IInv, TypeOK, MarkFresh, Guarded, Start, threads, ladder,
     saved, past
<1>5. Surviving'
  BY WatchdogAssumption DEF IInv, TypeOK, Surviving, WatchdogAssumption, Thread,
     Start, threads, ladder, saved, past
<1> QED BY <1>1, <1>2, <1>3, <1>4, <1>5 DEF IInv

\* The camera touches nothing of the ladder.
LEMMA CameraMovesInv ==
  ASSUME IInv, CameraMoves
  PROVE  IInv'
<1>1. TypeOK'
  BY Bounds, Threads, WatchdogAssumption DEF IInv, TypeOK, Surviving,
     WatchdogAssumption, Thread, CameraMoves, threads, ladder, saved, past
<1>2. Exclusive'
  BY Threads DEF IInv, TypeOK, Exclusive, Locked, Thread, CameraMoves, threads,
     ladder, saved, past
<1>3. MarkFresh'
  BY Bounds DEF IInv, TypeOK, MarkFresh, CameraMoves, threads, ladder, saved, past
<1>4. Guarded'
  BY Bounds, Threads DEF IInv, TypeOK, MarkFresh, Guarded, CameraMoves, threads,
     ladder, saved, past
<1>5. Surviving'
  BY WatchdogAssumption DEF IInv, TypeOK, Surviving, WatchdogAssumption, Thread,
     CameraMoves, threads, ladder, saved, past
<1> QED BY <1>1, <1>2, <1>3, <1>4, <1>5 DEF IInv

\* Time ages the mark and the last reboot alike.
LEMMA TickInv ==
  ASSUME IInv, Tick
  PROVE  IInv'
<1>1. TypeOK'
  BY OlderType DEF IInv, TypeOK, Tick, threads
<1>2. Exclusive'
  BY DEF IInv, Exclusive, Tick, threads
<1>3. MarkFresh'
  BY OlderType, OlderMark, Bounds DEF IInv, TypeOK, MarkFresh, Tick, OlderReboot, Future
<1>4. Guarded'
  BY DEF IInv, Guarded, Tick, threads
<1>5. Surviving'
  BY DEF IInv, Surviving, Tick, threads
<1> QED BY <1>1, <1>2, <1>3, <1>4, <1>5 DEF IInv

\* A clock that was set back voids the guard.
LEMMA SetBackInv ==
  ASSUME IInv, SetBack
  PROVE  IInv'
<1>1. TypeOK'
  <2>1. mishaps' \in 0..MaxMishaps
    BY WatchdogAssumption DEF WatchdogAssumption, IInv, TypeOK, SetBack, Mishap
  <2>2. lastAt' \in ActionAge
    BY DEF IInv, TypeOK, SetBack, ActionAge
  <2> QED
    BY <2>1, <2>2, UnseenType DEF IInv, TypeOK, SetBack, threads, past
<1>2. Exclusive'
  BY DEF IInv, Exclusive, SetBack, threads
<1>3. MarkFresh' /\ Guarded'
  BY DEF MarkFresh, Guarded, SetBack
<1>4. Surviving'
  BY DEF IInv, Surviving, SetBack, threads
<1> QED BY <1>1, <1>2, <1>3, <1>4 DEF IInv

-----------------------------------------------------------------------------

\* The thread that commands a reboot has found the last one long enough ago.
LEMMA RebootSpaced ==
  ASSUME IInv, NEW t \in Thread, Reboot(t), ~disturbed
  PROVE  rebootAge >= RebootInterval
BY DEF IInv, Guarded, Reboot

\* The invariant holds at the start.
LEMMA InitInv ==
  ASSUME Init
  PROVE  IInv
<1>1. \A t \in Thread : pc[t] \in {"capture", "idle"}
  BY DEF Init, Thread
<1>2. TypeOK
  <2>1. /\ pc \in [Thread -> {"capture", "idle"}]
        /\ pc["main"] = "capture" /\ pc["host"] = "idle"
    BY DEF Init, Thread
  <2>2. act \in [Thread -> Action]
    BY DEF Init, Action
  <2>3. 0 \in Level /\ OldAction \in ActionAge
    BY Bounds DEF Level, Top, ActionAge
  <2>4. /\ failures \in 0..FailThreshold /\ misses \in 0..(GiveUp + 1)
        /\ firedAge \in 0..OldAction /\ rebootAge \in 0..OldReboot /\ skipped \in 0..2
        /\ requests \in 0..MaxRequests /\ mishaps \in 0..MaxMishaps
    BY Bounds, WatchdogAssumption DEF WatchdogAssumption, Init
  <2>5. /\ wedged \in BOOLEAN /\ up \in BOOLEAN
        /\ rebooting \in BOOLEAN /\ disturbed \in BOOLEAN
    BY DEF Init
  <2>6. /\ lock \in Thread \cup {"none"}
        /\ tried \subseteq Action /\ fired \in Action \cup {"none"}
    BY DEF Init
  <2>7. level \in Level /\ lastAt \in ActionAge /\ state \in State /\ disk \in State
    BY <2>3, Bounds DEF Init
  <2> QED
    BY <2>1, <2>2, <2>4, <2>5, <2>6, <2>7 DEF TypeOK
<1>3. Exclusive /\ Guarded
  BY <1>1 DEF Exclusive, Locked, Guarded
<1>4. MarkFresh
  BY Bounds DEF Init, MarkFresh, Fresh
<1>5. Surviving
  BY WatchdogAssumption DEF WatchdogAssumption, Init, Surviving
<1> QED BY <1>2, <1>3, <1>4, <1>5 DEF IInv

\* A step of a thread that acts on the host keeps the invariant.
LEMMA ActsInv ==
  ASSUME IInv, NEW t \in Thread, Acts(t)
  PROVE  IInv'
BY AcquireInv, SuppressRebootInv, AllowGuardedInv, MarkRebootInv, RebootInv, FinishInv
   DEF Acts

\* Every step keeps the invariant.
LEMMA NextInv ==
  ASSUME IInv, [Next]_vars
  PROVE  IInv'
<1>1. CASE MainStep
  <2>1. CASE Exit
    BY <2>1, DownInv DEF IInv, TypeOK, Exit
  <2>2. CASE Acts("main")
    BY <2>2, ActsInv DEF Thread
  <2> QED
    BY <1>1, <2>1, <2>2, CaptureFailsInv, RungFiresInv, CaptureWorksInv, PersistLevelInv,
       ClearEscalationInv DEF MainStep, Capture
<1>2. CASE \E a \in Action : OwnerAsks(a)
  BY <1>2, OwnerAsksInv
<1>3. CASE Acts("host")
  BY <1>3, ActsInv DEF Thread
<1>4. CASE KilledByAction \/ MachineReboots
  BY <1>4, DownInv DEF IInv, TypeOK, KilledByAction, MachineReboots
<1>5. CASE Crash
  <2>1. mishaps' \in 0..MaxMishaps
    BY <1>5, WatchdogAssumption DEF WatchdogAssumption, IInv, TypeOK, Crash, Mishap
  <2> QED BY <1>5, <2>1, DownInv DEF Crash
<1>6. CASE Start \/ CameraMoves \/ Tick \/ SetBack
  BY <1>6, StartInv, CameraMovesInv, TickInv, SetBackInv
<1>7. CASE UNCHANGED vars
  BY <1>7 DEF IInv, TypeOK, Exclusive, MarkFresh, Guarded, Surviving, vars, threads, ladder,
     saved, past
<1> QED BY <1>1, <1>2, <1>3, <1>4, <1>5, <1>6, <1>7 DEF Next

\* The invariant holds in every reachable state.
LEMMA Invariance == Spec => []IInv
BY InitInv, NextInv, PTL DEF Spec

\* The type invariant, whatever the limits: in particular the level is always one of
\* the ladder's (RungFires clamps it), in memory and in the file.
THEOREM TypeCorrect == Spec => []TypeOK
<1>1. IInv => TypeOK
  BY DEF IInv
<1> QED BY <1>1, Invariance, PTL

\* The boot-loop guard of _do_reboot: while the file is written whole and the clock goes
\* forward, two reboots are RebootInterval apart, whoever asks for them and whatever dies
\* in between.
THEOREM RebootsSpaced == Spec => RebootsAreSpaced
<1>1. IInv /\ [Next]_vars
      => [~disturbed /\ (\E t \in Thread : Reboot(t)) => rebootAge >= RebootInterval]_vars
  BY RebootSpaced
<1> QED BY <1>1, Invariance, PTL DEF Spec, RebootsAreSpaced

-----------------------------------------------------------------------------
(* The order of the ladder *)

\* While nothing disturbs the file, the ladder in memory is the one on disk, except
\* when a rung fired or a frame came and the write of it is the next step.  A worker
\* that is down starts with a capture.
InStep ==
  ~disturbed =>
    /\ IF up THEN state = disk ELSE pc["main"] = "capture"
    /\ disk.at \in 0..OldAction /\ lastAt \in 0..OldAction
    /\ pc["main"] = "clear" => level = 0
    /\ up /\ pc["main"] \notin {"persist", "clear"} => level = disk.level
    /\ pc["main"] = "persist" =>
         /\ act["main"] = Resolve(disk.level)
         /\ level = IF disk.level < Top THEN disk.level + 1 ELSE Top

\* The level on disk tells which dwell the last rung asks for, its time when it fired.
Dated ==
  ~disturbed =>
    /\ fired = "none" <=> disk.level = 0
    /\ fired # "none" => firedAge = disk.at /\ Dwell(fired) = Dwell(Rung[disk.level])
    /\ up /\ pc["main"] # "persist" /\ fired # "none" => lastAt = firedAge

\* Two levels below the top restart nvargus; each of them has been tried, is about to
\* be, or was skipped by a death.
Climbed ==
  ~disturbed =>
    /\ \/ "nvargus" \in tried
       \/ skipped >= disk.level - 2
       \/ pc["main"] = "act" /\ act["main"] = "nvargus" /\ skipped + 1 >= disk.level - 2
    /\ pc["main"] \in {"act", "guard", "mark", "command"} /\ act["main"] = "reboot"
       => disk.level = Top

Ladder == InStep /\ Dated /\ Climbed

\* The dwell of a fired rung is the one below the next rung, clamped or resolved.
LEMMA DwellBelow ==
  \A l \in Level : Dwell(Resolve(l)) = Dwell(Rung[IF l < Top THEN l + 1 ELSE Top])
BY DEF Level, Top, Resolve, Rung, Dwell

\* The rungs by level: nvargus on the two below the top, reboot on the top only.
LEMMA RungsByLevel ==
  \A l \in Level : /\ l \in {2, 3} => Resolve(l) = "nvargus"
                   /\ Resolve(l) = "reboot" => l = Top
                   /\ Resolve(l) # "none"
BY DEF Level, Top, Resolve, Rung

\* What the types say of the variables of the ladder.
LEMMA LadderTypes ==
  ASSUME IInv
  PROVE  /\ pc \in [Thread -> {"idle", "capture", "persist", "clear", "exit",
                               "act", "guard", "mark", "command", "acting"}]
         /\ act \in [Thread -> Action]
         /\ "main" \in Thread /\ "host" \in Thread /\ Other("main") = "host"
         /\ pc["host"] \notin {"capture", "persist", "clear", "exit"}
         /\ level \in 0..4 /\ Top = 4 /\ skipped \in 0..2
         /\ disk \in State /\ state \in State
         /\ disk.level \in 0..4 /\ state.level \in 0..4
BY DEF IInv, TypeOK, Level, Top, State, Thread, Other

\* A failed capture moves the main thread and its counters only.
LEMMA CaptureFailsLadder ==
  ASSUME IInv, Ladder, CaptureFails
  PROVE  Ladder'
<1>1. /\ up /\ pc["main"] = "capture" /\ pc'["main"] \in {"capture", "exit"}
      /\ UNCHANGED <<up, state, disk, disturbed, level, lastAt, act, past>>
  BY LadderTypes DEF CaptureFails, ladder, saved, AfterFailure
<1>2. InStep'
  BY <1>1 DEF Ladder, InStep
<1>3. Dated'
  BY <1>1 DEF Ladder, Dated, past
<1>4. Climbed'
  BY <1>1 DEF Ladder, Climbed, past
<1> QED BY <1>2, <1>3, <1>4 DEF Ladder

\* The next rung is that of the level on disk.
LEMMA RungFiresLadder ==
  ASSUME IInv, Ladder, RungFires
  PROVE  Ladder'
<1>1. /\ up /\ pc["main"] = "capture" /\ pc'["main"] = "persist"
      /\ act'["main"] = Resolve(level)
      /\ level' = IF level < Top THEN level + 1 ELSE Top
      /\ lastAt' = 0
      /\ UNCHANGED <<up, state, disk, disturbed, past>>
  BY LadderTypes DEF RungFires, saved
<1>2. InStep'
  BY <1>1, Bounds DEF Ladder, InStep
<1>3. Dated'
  BY <1>1 DEF Ladder, Dated, past
<1>4. Climbed'
  BY <1>1, LadderTypes DEF Ladder, Climbed, past
<1> QED BY <1>2, <1>3, <1>4 DEF Ladder

\* A frame resets the level in memory; the loop writes it next if there was one.
LEMMA CaptureWorksLadder ==
  ASSUME IInv, Ladder, CaptureWorks
  PROVE  Ladder'
<1>1. /\ up /\ pc["main"] = "capture" /\ level' = 0
      /\ pc'["main"] = IF level # 0 THEN "clear" ELSE "capture"
      /\ UNCHANGED <<up, act, lastAt, state, disk, disturbed, past>>
  BY LadderTypes DEF CaptureWorks, saved
<1>2. InStep'
  BY <1>1 DEF Ladder, InStep
<1>3. Dated'
  BY <1>1 DEF Ladder, Dated, past
<1>4. Climbed'
  BY <1>1 DEF Ladder, Climbed, past
<1> QED BY <1>2, <1>3, <1>4 DEF Ladder

\* The rung on disk is the one that fired, at the time it fired.
LEMMA PersistLevelLadder ==
  ASSUME IInv, Ladder, PersistLevel
  PROVE  Ladder'
<1>1. /\ up /\ pc["main"] = "persist" /\ pc'["main"] = "act"
      /\ UNCHANGED <<up, act, level, lastAt, tried, skipped>>
      /\ fired' = act["main"] /\ firedAge' = IF lastAt = Future THEN 0 ELSE lastAt
  BY LadderTypes DEF PersistLevel, ladder
<1>2. /\ state' \in State /\ state'.level = level /\ state'.at = lastAt
  BY DEF IInv, TypeOK, PersistLevel, State
<1>3. ~disturbed' => disk' = state' /\ ~disturbed
  BY <1>2, SaveType, LadderTypes DEF IInv, PersistLevel
<1> SUFFICES ASSUME ~disturbed' PROVE Ladder'
  BY DEF Ladder, InStep, Dated, Climbed
<1>4. /\ disk' = state' /\ disk'.level = level /\ disk'.at = lastAt
      /\ lastAt \in 0..OldAction /\ lastAt # Future
      /\ act["main"] = Resolve(disk.level)
      /\ level = IF disk.level < Top THEN disk.level + 1 ELSE Top
      /\ disk.level \in Level /\ level \in 1..4
  BY <1>1, <1>2, <1>3, Bounds, LadderTypes DEF Ladder, InStep, Future, Level, Top
<1>5. InStep'
  BY <1>1, <1>4 DEF InStep
<1>6. Dated'
  <2>1. fired' # "none" /\ Dwell(fired') = Dwell(Rung[disk'.level])
    BY <1>1, <1>4, DwellBelow, RungsByLevel
  <2> QED BY <1>1, <1>4, <2>1 DEF Dated
<1>7. Climbed'
  <2>1. act["main"] = "reboot" => level = Top
    <3>1. act["main"] = "reboot" => disk.level = Top
      BY <1>4, RungsByLevel
    <3>2. ~(Top < Top)
      BY DEF Top
    <3> QED BY <1>4, <3>1, <3>2
  <2>2. "nvargus" \in tried \/ skipped >= disk.level - 2
    BY <1>1, <1>3 DEF Ladder, Climbed
  <2>3. \/ "nvargus" \in tried
        \/ skipped >= level - 2
        \/ act["main"] = "nvargus" /\ skipped + 1 >= level - 2
    <3>1. CASE disk.level < 2
      BY <1>4, <3>1, LadderTypes
    <3>2. CASE disk.level \in {2, 3}
      BY <1>4, <2>2, <3>2, RungsByLevel, LadderTypes
    <3>3. CASE disk.level = 4
      BY <1>4, <2>2, <3>3, LadderTypes
    <3> QED BY <3>1, <3>2, <3>3, LadderTypes
  <2> QED BY <1>1, <1>4, <2>1, <2>3 DEF Climbed
<1> QED BY <1>5, <1>6, <1>7 DEF Ladder

\* A recovery on disk starts the ladder, and the account of it, over.
LEMMA ClearEscalationLadder ==
  ASSUME IInv, Ladder, ClearEscalation
  PROVE  Ladder'
<1>1. /\ up /\ pc["main"] = "clear" /\ pc'["main"] = "capture"
      /\ UNCHANGED <<up, act, level, lastAt>>
      /\ tried' = {} /\ fired' = "none" /\ skipped' = 0
  BY LadderTypes DEF ClearEscalation, ladder
<1> SUFFICES ASSUME ~disturbed' PROVE Ladder'
  BY DEF Ladder, InStep, Dated, Climbed
<1>2. ~disturbed /\ disk' = state' /\ disk'.level = 0 /\ disk'.at \in 0..OldAction
  <2>1. CASE state.level # 0
    <3>1. 0 \in Level /\ OldAction \in ActionAge /\ OldAction \in 0..OldAction
      BY Bounds DEF Level, Top, ActionAge
    <3>2. /\ state' \in State /\ state'.level = 0 /\ state'.at = OldAction
          /\ Save("main", state')
      BY <2>1, <3>1, LadderTypes DEF ClearEscalation, State
    <3>3. ~disturbed' => disk' = state' /\ ~disturbed
      BY <3>2, SaveType, LadderTypes DEF IInv
    <3> QED BY <3>1, <3>2, <3>3
  <2>2. CASE state.level = 0
    <3>1. UNCHANGED <<state, disk, disturbed>>
      BY <2>2 DEF ClearEscalation, saved
    <3> QED BY <1>1, <2>2, <3>1 DEF Ladder, InStep
  <2> QED BY <2>1, <2>2
<1>3. level = 0 /\ lastAt \in 0..OldAction
  BY <1>1, <1>2 DEF Ladder, InStep
<1>4. InStep'
  BY <1>1, <1>2, <1>3 DEF InStep
<1>5. Dated'
  BY <1>1, <1>2 DEF Dated
<1>6. Climbed'
  BY <1>1, <1>2 DEF Climbed
<1> QED BY <1>4, <1>5, <1>6 DEF Ladder

\* A request of the owner concerns the host thread only.
LEMMA OwnerAsksLadder ==
  ASSUME IInv, Ladder, NEW a \in Action, OwnerAsks(a)
  PROVE  Ladder'
<1>1. /\ pc'["main"] = pc["main"] /\ act'["main"] = act["main"]
      /\ UNCHANGED <<up, state, disk, disturbed, level, lastAt, past>>
  BY LadderTypes DEF OwnerAsks, ladder, saved, Thread
<1> QED BY <1>1 DEF Ladder, InStep, Dated, Climbed, past

\* A rung that starts is tried, unless it is the reboot, which is guarded first.
LEMMA AcquireLadder ==
  ASSUME IInv, Ladder, NEW t \in Thread, Acquire(t)
  PROVE  Ladder'
<1>1. /\ UNCHANGED <<up, act, state, disk, disturbed, level, lastAt>>
      /\ UNCHANGED <<fired, firedAge, skipped>>
  BY DEF Acquire, ladder, saved
<1>2. CASE t = "host"
  <2>1. pc'["main"] = pc["main"] /\ tried' = tried
    BY <1>2, LadderTypes DEF Acquire
  <2> QED BY <1>1, <2>1 DEF Ladder, InStep, Dated, Climbed
<1>3. CASE t = "main"
  <2>1. /\ pc["main"] = "act"
        /\ pc'["main"] = IF act["main"] = "reboot" THEN "guard" ELSE "acting"
        /\ tried' = IF act["main"] # "reboot" THEN tried \cup {act["main"]} ELSE tried
    BY <1>3, LadderTypes DEF Acquire
  <2>2. InStep' /\ Dated'
    BY <1>1, <2>1 DEF Ladder, InStep, Dated
  <2>3. Climbed'
    BY <1>1, <2>1 DEF Ladder, Climbed
  <2> QED BY <2>2, <2>3 DEF Ladder
<1> QED BY <1>2, <1>3 DEF Thread

\* A thread under the lock leaves the ladder as it is.
LEMMA UnderLockLadder ==
  ASSUME IInv, Ladder, NEW t \in Thread, SuppressReboot(t) \/ AllowGuarded(t) \/ Finish(t)
  PROVE  Ladder'
<1>1. /\ UNCHANGED <<up, state, disk, disturbed, level, lastAt, past>>
      /\ pc[t] \in {"guard", "acting"}
  BY DEF SuppressReboot, AllowGuarded, Finish, ladder, saved
<1>2. /\ pc'["main"] # pc["main"] =>
           /\ pc["main"] \in {"guard", "acting"}
           /\ pc'["main"] \in {"acting", "mark", "exit", "capture"}
           /\ pc'["main"] = "mark" => pc["main"] = "guard"
      /\ act'["main"] # act["main"] => pc'["main"] = "acting"
  BY LadderTypes DEF SuppressReboot, AllowGuarded, Finish, Thread
<1>3. InStep'
  BY <1>1, <1>2 DEF Ladder, InStep
<1>4. Dated'
  BY <1>1, <1>2 DEF Ladder, Dated, past
<1>5. Climbed'
  BY <1>1, <1>2 DEF Ladder, Climbed, past
<1> QED BY <1>3, <1>4, <1>5 DEF Ladder

\* The mark of a reboot is written over the level that is on disk.
LEMMA MarkRebootLadder ==
  ASSUME IInv, Ladder, NEW t \in Thread, MarkReboot(t)
  PROVE  Ladder'
<1>1. /\ state' \in State /\ state'.level = state.level /\ state'.at = state.at
      /\ up
      /\ UNCHANGED <<up, act, level, lastAt, past>>
  BY Bounds DEF IInv, TypeOK, MarkReboot, State, RebootAge, ladder
<1>2. ~disturbed' => disk' = state' /\ ~disturbed
  BY <1>1, SaveType DEF IInv, MarkReboot
<1>3. \/ pc'["main"] = pc["main"]
      \/ pc["main"] = "mark" /\ pc'["main"] = "command"
  BY LadderTypes DEF MarkReboot, Thread
<1> SUFFICES ASSUME ~disturbed' PROVE Ladder'
  BY DEF Ladder, InStep, Dated, Climbed
<1>4. /\ disk' = state' /\ ~disturbed /\ disk'.level = disk.level /\ disk'.at = disk.at
  BY <1>1, <1>2 DEF Ladder, InStep
<1>5. InStep'
  BY <1>1, <1>3, <1>4 DEF Ladder, InStep
<1>6. Dated'
  BY <1>1, <1>3, <1>4 DEF Ladder, Dated, past
<1>7. Climbed'
  BY <1>1, <1>3, <1>4 DEF Ladder, Climbed, past
<1> QED BY <1>5, <1>6, <1>7 DEF Ladder

\* The command leaves the ladder as it is.
LEMMA RebootLadder ==
  ASSUME IInv, Ladder, NEW t \in Thread, Reboot(t)
  PROVE  Ladder'
<1>1. /\ UNCHANGED <<up, act, state, disk, disturbed, level, lastAt>>
      /\ UNCHANGED <<fired, firedAge, skipped>>
      /\ tried \subseteq tried'
      /\ \/ pc'["main"] = pc["main"]
         \/ pc["main"] = "command" /\ pc'["main"] = "acting"
  BY LadderTypes DEF Reboot, ladder, saved, Thread
<1>2. InStep'
  BY <1>1 DEF Ladder, InStep
<1>3. Dated'
  BY <1>1 DEF Ladder, Dated
<1>4. Climbed'
  BY <1>1 DEF Ladder, Climbed
<1> QED BY <1>2, <1>3, <1>4 DEF Ladder

\* A death between the write of a rung and its action is counted.
LEMMA DownLadder ==
  ASSUME IInv, Ladder, Down
  PROVE  Ladder'
<1>1. /\ up' = FALSE /\ pc'["main"] = "capture" /\ lastAt' = OldAction
      /\ skipped' = IF pc["main"] = "act" /\ skipped < 2 THEN skipped + 1 ELSE skipped
      /\ UNCHANGED <<disk, disturbed, tried, fired, firedAge>>
  BY DEF Down
<1>2. InStep'
  BY <1>1, Bounds DEF Ladder, InStep
<1>3. Dated'
  BY <1>1 DEF Ladder, Dated
<1>4. Climbed'
  BY <1>1, LadderTypes DEF Ladder, Climbed
<1> QED BY <1>2, <1>3, <1>4 DEF Ladder

\* The worker resumes the ladder where the file says it was.
LEMMA StartLadder ==
  ASSUME IInv, Ladder, Start
  PROVE  Ladder'
<1>1. /\ state' = disk /\ level' = disk.level
      /\ lastAt' = disk.at \/ disk.at = Future
      /\ ~up /\ up'
      /\ UNCHANGED <<pc, act, disk, disturbed, past>>
  BY DEF Start, threads
<1>2. disk.at \in 0..OldAction => disk.at # Future
  BY Bounds DEF Future
<1>3. InStep'
  BY <1>1, <1>2 DEF Ladder, InStep
<1>4. Dated'
  BY <1>1, <1>2 DEF Ladder, InStep, Dated, past
<1>5. Climbed'
  BY <1>1 DEF Ladder, Climbed, past
<1> QED BY <1>3, <1>4, <1>5 DEF Ladder

\* Time passes for the memory, the file and the history alike.
LEMMA TickLadder ==
  ASSUME IInv, Ladder, Tick
  PROVE  Ladder'
<1>1. /\ UNCHANGED <<up, pc, act, level, disturbed, tried, fired, skipped>>
      /\ lastAt' = OlderAction(lastAt) /\ firedAge' = OlderAction(firedAge)
      /\ state' = OlderState(state) /\ disk' = OlderState(disk)
  BY DEF Tick, threads
<1>2. disk'.level = disk.level /\ disk'.at = OlderAction(disk.at)
  BY <1>1, LadderTypes DEF OlderState, State
<1>3. InStep'
  BY <1>1, <1>2, OlderType DEF Ladder, InStep
<1>4. Dated'
  BY <1>1, <1>2 DEF Ladder, Dated
<1>5. Climbed'
  BY <1>1, <1>2 DEF Ladder, Climbed
<1> QED BY <1>3, <1>4, <1>5 DEF Ladder

\* The ladder is as it should be at the start.
LEMMA InitLadder == Init => Ladder
<1> SUFFICES ASSUME Init PROVE Ladder
  OBVIOUS
<1>1. /\ state = disk /\ disk.level = 0 /\ disk.at = OldAction /\ lastAt = OldAction
      /\ pc["main"] = "capture" /\ level = 0 /\ fired = "none" /\ skipped = 0
  BY DEF Init, Fresh
<1> QED BY <1>1, Bounds DEF Ladder, InStep, Dated, Climbed

\* Every step keeps the ladder in order.
LEMMA NextLadder ==
  ASSUME IInv, Ladder, [Next]_vars
  PROVE  Ladder'
<1>1. CASE MainStep
  <2>1. CASE Exit
    BY <2>1, DownLadder DEF Exit
  <2>2. CASE Acts("main")
    BY <2>2, AcquireLadder, UnderLockLadder, MarkRebootLadder, RebootLadder
       DEF Acts, Thread
  <2> QED
    BY <1>1, <2>1, <2>2, CaptureFailsLadder, RungFiresLadder, CaptureWorksLadder,
       PersistLevelLadder, ClearEscalationLadder DEF MainStep, Capture
<1>2. CASE \E a \in Action : OwnerAsks(a)
  BY <1>2, OwnerAsksLadder
<1>3. CASE Acts("host")
  BY <1>3, AcquireLadder, UnderLockLadder, MarkRebootLadder, RebootLadder
     DEF Acts, Thread
<1>4. CASE KilledByAction \/ MachineReboots \/ Crash
  BY <1>4, DownLadder DEF KilledByAction, MachineReboots, Crash
<1>5. CASE Start \/ Tick
  BY <1>5, StartLadder, TickLadder
<1>6. CASE CameraMoves \/ UNCHANGED vars
  <2>1. UNCHANGED <<up, threads, ladder, saved, past>>
    BY <1>6 DEF CameraMoves, vars
  <2> QED
    BY <2>1 DEF Ladder, InStep, Dated, Climbed, threads, ladder, saved, past
<1>7. CASE SetBack
  BY <1>7 DEF SetBack, Ladder, InStep, Dated, Climbed
<1> QED BY <1>1, <1>2, <1>3, <1>4, <1>5, <1>6, <1>7 DEF Next

LEMMA LadderInvariant == Spec => []Ladder
<1>1. IInv /\ Ladder /\ [Next]_vars => Ladder'
  BY NextLadder
<1> QED BY <1>1, InitLadder, Invariance, PTL DEF Spec

\* A rung that fires has let the remedy before it take effect: what the loop asks of
\* the time of the last action is what the rung on disk asks of the time it fired.
LEMMA RungWaits ==
  ASSUME IInv, Ladder, ~disturbed, RungFires, fired # "none"
  PROVE  firedAge >= Dwell(fired)
<1>1. /\ up /\ pc["main"] = "capture" /\ lastAt = firedAge
      /\ level = disk.level /\ level # 0
      /\ Dwell(fired) = Dwell(Rung[level])
  BY DEF RungFires, Ladder, InStep, Dated
<1>2. lastAt # Future
  BY Bounds DEF Ladder, InStep, Future
<1> QED BY <1>1, <1>2 DEF RungFires, Due, CooledDown, Required

\* A rung waits for the dwell of the action before it, across deaths and restarts: the
\* level and the time of the last action come back from the file together.
THEOREM RungsWait == Spec => RemediesGetTheirTime
<1>1. IInv /\ Ladder /\ [Next]_vars
      => [~disturbed /\ RungFires /\ fired # "none" => firedAge >= Dwell(fired)]_vars
  BY RungWaits
<1> QED BY <1>1, Invariance, LadderInvariant, PTL DEF Spec, RemediesGetTheirTime

\* The ladder commands a reboot only after a restart of nvargus, unless deaths skipped
\* both of them.
THEOREM RebootComesLast == Spec => []RebootIsLastResort
<1>1. IInv /\ Ladder => RebootIsLastResort
  BY <1>1, LadderTypes DEF Ladder, Climbed, RebootIsLastResort
<1> QED BY <1>1, Invariance, LadderInvariant, PTL

=============================================================================
