-------------------------- MODULE HostActions_proofs --------------------------
(* AtMostOnce, TypeOK, StatusIsTrue and SettledIsFinal, for every number of      *)
(* requests, crashes and failed writes, every age limit and every size of the    *)
(* history and of the worker's memory.                                           *)
EXTENDS HostActions, FiniteSetTheorems, SequenceTheorems, WellFoundedInduction, TLAPS

Starting == wpc \in {"mark", "execute"}

\* The part of the type invariant AtMostOnce needs: what is archived plays no role in it.
Typed ==
  /\ slot \in Record \cup {NoRecord} /\ disk.slot \in Record \cup {NoRecord}
  /\ wpc \in {"poll", "plan", "claim", "mark", "execute", "report"}
  /\ wpc # "poll" => held \in Id
  /\ outcome \in {"done", "failed"}
  /\ seen \subseteq Id /\ seenDisk \subseteq Id
  /\ ran \in [Id -> Nat]
  /\ next \in Nat \ {0} /\ faults \in Nat /\ seenFaults \in Nat

\* Whatever the server or the worker knows of was allocated before the next record.
Allocated ==
  /\ slot.id < next /\ disk.slot.id < next
  /\ wpc # "poll" => held < next
  /\ \A i \in Id : ran[i] > 0 => i < next

\* While the server's writes succeed: its file is its memory, and an action that was
\* started, or is about to be, is not offered.
OfferedOnce ==
  faults = 0 =>
    /\ disk.slot = slot
    /\ \A i \in Id : ran[i] > 0 \/ (Starting /\ held = i) => ~Holds(i, {"pending"})
    /\ Starting => ran[held] = 0
    /\ \A i \in Id : ran[i] <= 1

\* While the worker's writes succeed and it forgets nothing: its file is its memory,
\* every action started is in it, and what is claimed is not.
Remembered ==
  seenFaults = 0 /\ MaxRequests <= SeenLimit =>
    /\ seenDisk = seen
    /\ \A i \in Id : ran[i] > 0 => i \in seen
    /\ wpc \in {"claim", "mark"} => held \notin seen
    /\ wpc = "execute" => held \in seen /\ ran[held] = 0
    /\ \A i \in Id : ran[i] <= 1

IInv == Typed /\ Allocated /\ OfferedOnce /\ Remembered

\* What may still arrive as a result is an end.
LateResults == \A m \in late : m.type = "result" => m.status \in {"done", "failed"}

-------------------------------------------------------------------------------
LEMMA InitHolds == Init => IInv
  BY HostActionsAssumption
  DEF Init, IInv, Typed, Allocated, OfferedOnce, Remembered, Starting, Record, NoRecord,
      Holds, Id

\* Expiry, a claim and a result only take the slot away from "pending".
LEMMA SettlingKeeps ==
  ASSUME IInv,
         NEW s \in (Live \cup Terminal) \ {"pending"},
         slot \in Record, slot' = [slot EXCEPT !.status = s],
         NEW h, Persist(slot', h),
         UNCHANGED <<memory, ran, next>>,
         UNCHANGED poller \/ BackToPoll
  PROVE  IInv'
<1>1. slot' \in Record /\ slot'.id = slot.id /\ slot'.status # "pending"
  BY DEF Record
<1>2. \/ disk'.slot = slot' /\ faults' = faults
      \/ disk' = disk /\ faults' = faults + 1
  BY DEF Persist
<1>3. Typed'
  BY <1>1, <1>2 DEF IInv, Typed, memory, poller, BackToPoll
<1>4. Allocated'
  BY <1>1, <1>2 DEF IInv, Typed, Allocated, poller, BackToPoll
<1>5. OfferedOnce'
  <2>1. faults' = 0 => faults = 0 /\ disk'.slot = slot'
    BY <1>2 DEF IInv, Typed
  <2>2. \A i \in Id : ~Holds(i, {"pending"})'
    BY <1>1 DEF Holds
  <2>. QED  BY <2>1, <2>2 DEF IInv, OfferedOnce, Starting, poller, BackToPoll
<1>6. Remembered'
  BY DEF IInv, Remembered, memory, poller, BackToPoll
<1>. QED  BY <1>3, <1>4, <1>5, <1>6 DEF IInv

\* A step of the worker alone, which starts nothing and remembers nothing new.
LEMMA WorkerMoves ==
  ASSUME IInv, UNCHANGED <<server, memory, ran, next>>,
         \/ wpc' = "poll"
         \/ wpc' \in {"plan", "report"} /\ held' \in Id /\ held' < next
         \/ wpc' = "claim" /\ held' = held /\ held \in Id /\ held < next /\ held \notin seen,
         outcome' \in {"done", "failed"}
  PROVE  IInv'
<1>1. Typed'
  BY DEF IInv, Typed, server, memory
<1>2. Allocated'
  BY DEF IInv, Allocated, server
<1>3. OfferedOnce'
  BY DEF IInv, OfferedOnce, Starting, Holds, server
<1>4. Remembered'
  BY DEF IInv, Remembered, memory
<1>. QED  BY <1>1, <1>2, <1>3, <1>4 DEF IInv

\* A claim answered, now or late, makes a pending record a running one or does nothing.
LEMMA ClaimedSettles ==
  ASSUME IInv, NEW i, Claimed(i), Holds(i, {"pending"})
  PROVE  slot \in Record /\ slot' = [slot EXCEPT !.status = "running"] /\ Persist(slot', history)
  BY DEF IInv, Typed, Claimed, Holds, NoRecord

\* The same of a result.
LEMMA RecordedSettles ==
  ASSUME IInv, NEW i, NEW s, Recorded(i, s), Holds(i, Live)
  PROVE  slot \in Record /\ slot' = [slot EXCEPT !.status = s] /\ Persist(slot', history')
  BY DEF IInv, Typed, Recorded, Holds, NoRecord, Live

LEMMA EnqueueKeeps ==
  ASSUME IInv, Enqueue
  PROVE  IInv'
<1>1. /\ next \in Id /\ next' = next + 1
      /\ slot' = [id |-> next, status |-> "pending"]
      /\ UNCHANGED <<poller, memory, ran>>
  BY DEF Enqueue, IInv, Typed, Id
<1>2. slot' \in Record
  BY <1>1 DEF Record, Live
<1>3. \/ disk'.slot = slot' /\ faults' = faults
      \/ disk' = disk /\ faults' = faults + 1
      \/ disk'.slot = Expired(slot) /\ Stale(slot) /\ faults' = faults + 1
  BY DEF Enqueue, Persist
<1>4. Stale(slot) => /\ slot \in Record
                     /\ Expired(slot) \in Record /\ Expired(slot).id = slot.id
  BY DEF IInv, Typed, Stale, Expired, NoRecord, Record, Terminal
<1>5. Typed'
  BY <1>1, <1>2, <1>3, <1>4 DEF IInv, Typed, memory, poller
<1>6. Allocated'
  <2>1. slot.id \in Nat /\ disk.slot.id \in Nat /\ next \in Nat
    BY DEF IInv, Typed, Record, NoRecord, Id
  <2>2. slot'.id < next' /\ disk'.slot.id < next'
    BY <1>1, <1>3, <1>4, <2>1 DEF IInv, Allocated
  <2>3. wpc' # "poll" => held' < next'
    BY <1>1, <2>1 DEF IInv, Typed, Allocated, poller, Id
  <2>4. \A i \in Id : ran'[i] > 0 => i < next'
    BY <1>1, <2>1 DEF IInv, Allocated, Id
  <2>. QED  BY <2>2, <2>3, <2>4 DEF Allocated
<1>7. OfferedOnce'
  <2>1. faults' = 0 => faults = 0 /\ disk'.slot = slot'
    BY <1>3 DEF IInv, Typed
  <2>2. \A i \in Id : ran'[i] > 0 \/ (Starting' /\ held' = i) => i # slot'.id
    BY <1>1 DEF IInv, Typed, Allocated, Starting, poller, Id
  <2>. QED  BY <1>1, <2>1, <2>2 DEF IInv, OfferedOnce, Starting, Holds, poller
<1>8. Remembered'
  BY <1>1 DEF IInv, Remembered, memory, poller
<1>. QED  BY <1>5, <1>6, <1>7, <1>8 DEF IInv

LEMMA ServerCrashKeeps ==
  ASSUME IInv, ServerCrash
  PROVE  IInv'
<1> USE DEF IInv, ServerCrash, poller, memory
<1>1. Typed'
  BY DEF Typed
<1>2. Allocated'
  BY DEF Allocated
<1>3. OfferedOnce'
  BY DEF OfferedOnce, Starting, Holds
<1>4. Remembered'
  BY DEF Remembered
<1>. QED  BY <1>1, <1>2, <1>3, <1>4

LEMMA WorkerCrashKeeps ==
  ASSUME IInv, WorkerCrash
  PROVE  IInv'
<1> USE DEF IInv, WorkerCrash, BackToPoll, server
<1>1. Typed'
  BY DEF Typed
<1>2. Allocated'
  BY DEF Allocated
<1>3. OfferedOnce'
  BY DEF OfferedOnce, Starting, Holds
<1>4. Remembered'
  BY DEF Remembered
<1>. QED  BY <1>1, <1>2, <1>3, <1>4

\* The claim that is answered is the only way to "mark": the record it found pending
\* has never been started, and is running from here on.
LEMMA ClaimKeeps ==
  ASSUME IInv, Claim
  PROVE  IInv'
<1>1. CASE ~Holds(held, {"pending"})
  BY <1>1, WorkerMoves DEF Claim, Claimed, BackToPoll
<1>2. CASE Holds(held, {"pending"})
  <2>1. /\ slot \in Record /\ slot' = [slot EXCEPT !.status = "running"]
        /\ Persist(slot', history)
    BY <1>2, ClaimedSettles DEF Claim
  <2>2. slot' \in Record /\ slot'.id = slot.id /\ slot'.status # "pending"
    BY <2>1 DEF Record, Live
  <2>3. /\ wpc = "claim" /\ wpc' = "mark"
        /\ UNCHANGED <<held, outcome, memory, ran, next>>
    BY <1>2 DEF Claim
  <2>4. \/ disk'.slot = slot' /\ faults' = faults
        \/ disk' = disk /\ faults' = faults + 1
    BY <2>1 DEF Persist
  <2>5. Typed'
    BY <2>2, <2>3, <2>4 DEF IInv, Typed, memory
  <2>6. Allocated'
    BY <2>2, <2>3, <2>4 DEF IInv, Typed, Allocated
  <2>7. OfferedOnce'
    <3>1. faults' = 0 => faults = 0 /\ disk'.slot = slot'
      BY <2>4 DEF IInv, Typed
    <3>2. \A i \in Id : ~Holds(i, {"pending"})'
      BY <2>2 DEF Holds
    <3>3. faults = 0 => ran[held] = 0
      BY <1>2, <2>3 DEF IInv, Typed, OfferedOnce
    <3>. QED  BY <2>3, <3>1, <3>2, <3>3 DEF IInv, OfferedOnce
  <2>8. Remembered'
    BY <2>3 DEF IInv, Remembered, memory
  <2>. QED  BY <2>5, <2>6, <2>7, <2>8 DEF IInv
<1>. QED  BY <1>1, <1>2

\* The worker remembers the identifier before it starts the action; below the limit it
\* keeps every identifier it had.
LEMMA MarkKeeps ==
  ASSUME IInv, Mark
  PROVE  IInv'
<1> DEFINE all == seen \cup {held}
<1>1. /\ wpc = "mark" /\ wpc' = "execute" /\ held \in Id
      /\ UNCHANGED <<server, held, outcome, ran, next>>
  BY DEF Mark, IInv, Typed
<1>2. all \in SUBSET Id /\ IsFiniteSet(Id) /\ Cardinality(Id) = MaxRequests
  BY <1>1, FS_Interval, HostActionsAssumption DEF IInv, Typed, Id
<1>3. IsFiniteSet(all) /\ Cardinality(all) <= MaxRequests
  BY <1>2, FS_Subset
<1>4. Cardinality(all) \in Nat
  BY <1>3, FS_CardinalityType
<1>5. seen' \in SUBSET all
  BY DEF Mark
<1>6. \/ seenDisk' = seen' /\ seenFaults' = seenFaults
      \/ seenDisk' = seenDisk /\ seenFaults' = seenFaults + 1
  BY DEF Mark
<1>7. MaxRequests <= SeenLimit => seen' = all
  <2>1. SUFFICES ASSUME MaxRequests <= SeenLimit  PROVE seen' = all
    OBVIOUS
  <2>2. ~(Cardinality(all) > SeenLimit)
    BY <1>3, <1>4, <2>1, HostActionsAssumption
  <2>3. Cardinality(seen') = Cardinality(all)
    BY <2>2 DEF Mark
  <2>. QED  BY <1>3, <1>5, <2>3, FS_Subset
<1>8. Typed'
  BY <1>1, <1>2, <1>5, <1>6 DEF IInv, Typed, server
<1>9. Allocated'
  BY <1>1 DEF IInv, Allocated, server
<1>10. OfferedOnce'
  BY <1>1 DEF IInv, OfferedOnce, Starting, Holds, server
<1>11. Remembered'
  <2>1. SUFFICES ASSUME seenFaults' = 0, MaxRequests <= SeenLimit
                 PROVE  Remembered'
    BY DEF Remembered
  <2>2. seenFaults = 0 /\ seenDisk' = seen' /\ seen' = all
    BY <1>6, <1>7, <2>1 DEF IInv, Typed
  <2>3. ran[held] = 0
    BY <1>1, <2>1, <2>2 DEF IInv, Typed, Remembered
  <2>. QED  BY <1>1, <2>1, <2>2, <2>3 DEF IInv, Remembered
<1>. QED  BY <1>8, <1>9, <1>10, <1>11 DEF IInv

LEMMA ExecuteKeeps ==
  ASSUME IInv, Execute
  PROVE  IInv'
<1>1. /\ wpc = "execute" /\ held \in Id /\ held < next
      /\ ran' = [ran EXCEPT ![held] = @ + 1]
      /\ UNCHANGED <<server, memory, next>>
      /\ wpc' \in {"report", "poll"} /\ outcome' \in {"done", "failed"}
      /\ wpc' = "report" => held' = held
  BY DEF Execute, BackToPoll, IInv, Typed, Allocated
<1>2. ran' \in [Id -> Nat] /\ \A i \in Id : ran'[i] = IF i = held THEN ran[i] + 1 ELSE ran[i]
  BY <1>1 DEF IInv, Typed
<1>3. Typed'
  BY <1>1, <1>2 DEF IInv, Typed, server, memory
<1>4. Allocated'
  BY <1>1, <1>2 DEF IInv, Allocated, server
<1>5. OfferedOnce'
  BY <1>1, <1>2 DEF IInv, Typed, OfferedOnce, Starting, Holds, server
<1>6. Remembered'
  BY <1>1, <1>2 DEF IInv, Typed, Remembered, memory
<1>. QED  BY <1>3, <1>4, <1>5, <1>6 DEF IInv

LEMMA Unmoved ==
  ASSUME IInv, UNCHANGED <<server, poller, memory, ran, next>>
  PROVE  IInv'
<1> USE DEF IInv, server, poller, memory
<1>1. Typed'
  BY DEF Typed
<1>2. Allocated'
  BY DEF Allocated
<1>3. OfferedOnce'
  BY DEF OfferedOnce, Starting, Holds
<1>4. Remembered'
  BY DEF Remembered
<1>. QED  BY <1>1, <1>2, <1>3, <1>4

\* Only a call the worker gives up on is added to what may still arrive.
LEMMA LateKeeps ==
  ASSUME IInv, LateResults, [Next]_vars
  PROVE  LateResults'
<1>1. \/ late' \subseteq late
      \/ late' = late \cup {[type |-> "claim", id |-> held]}
      \/ late' = late \cup {[type |-> "result", id |-> held, status |-> outcome]}
  BY DEF Next, WorkerStep, Enqueue, PollExpire, PollTake, Plan, Claim, ClaimTimeout, Mark,
         Execute, Report, ReportTimeout, DeliverLate, LoseLate, Tick, ServerCrash,
         WorkerCrash, vars
<1>2. outcome \in {"done", "failed"}
  BY DEF IInv, Typed
<1>. QED  BY <1>1, <1>2 DEF LateResults

\* No step makes the worker offer, claim or start an action twice while the writes of
\* either side succeed.
LEMMA NextKeeps ==
  ASSUME IInv, LateResults, [Next]_vars
  PROVE  IInv'
<1>1. CASE Enqueue
  BY <1>1, EnqueueKeeps
<1>2. CASE PollExpire
  <2>1. /\ slot \in Record /\ slot' = [slot EXCEPT !.status = "expired"]
        /\ Persist(slot', history')
        /\ UNCHANGED <<memory, ran, next, poller>>
    BY <1>2 DEF PollExpire, Stale, Expired, NoRecord, IInv, Typed
  <2>. QED  BY <2>1, SettlingKeeps DEF Terminal
<1>3. CASE PollTake
  <2>1. slot.id \in Id /\ slot.id < next
    BY <1>3 DEF PollTake, IInv, Typed, Allocated, Record, NoRecord
  <2>. QED  BY <1>3, <2>1, WorkerMoves DEF PollTake, IInv, Typed
<1>4. CASE Plan
  <2>1. held \in Id /\ held < next
    BY <1>4 DEF Plan, IInv, Typed, Allocated
  <2>. QED  BY <1>4, <2>1, WorkerMoves DEF Plan, IInv, Typed
<1>5. CASE Claim
  BY <1>5, ClaimKeeps
<1>6. CASE ClaimTimeout
  BY <1>6, WorkerMoves DEF ClaimTimeout, BackToPoll
<1>7. CASE Mark
  BY <1>7, MarkKeeps
<1>8. CASE Execute
  BY <1>8, ExecuteKeeps
<1>9. CASE Report
  <2>1. CASE Holds(held, Live)
    <3>1. outcome \in (Live \cup Terminal) \ {"pending"}
      BY DEF IInv, Typed, Terminal
    <3>2. /\ slot \in Record /\ slot' = [slot EXCEPT !.status = outcome]
          /\ Persist(slot', history') /\ BackToPoll
          /\ UNCHANGED <<memory, ran, next>>
      BY <1>9, <2>1, RecordedSettles DEF Report
    <3>. QED  BY <3>1, <3>2, SettlingKeeps
  <2>2. CASE ~Holds(held, Live)
    BY <1>9, <2>2, WorkerMoves DEF Report, Recorded, BackToPoll
  <2>. QED  BY <2>1, <2>2
<1>10. CASE ReportTimeout
  BY <1>10, WorkerMoves DEF ReportTimeout, BackToPoll
<1>11. ASSUME NEW m \in late, DeliverLate(m)
       PROVE  IInv'
  <2>1. UNCHANGED <<poller, memory, ran, next>>
    BY <1>11 DEF DeliverLate
  <2>2. CASE m.type = "claim" /\ Claimed(m.id) /\ Holds(m.id, {"pending"})
    <3>1. /\ slot \in Record /\ slot' = [slot EXCEPT !.status = "running"]
          /\ Persist(slot', history)
      BY <2>2, ClaimedSettles
    <3>. QED  BY <2>1, <3>1, SettlingKeeps DEF Live
  <2>3. CASE m.type = "result" /\ Recorded(m.id, m.status) /\ Holds(m.id, Live)
    <3>1. m.status \in (Live \cup Terminal) \ {"pending"}
      BY <1>11, <2>3 DEF LateResults, Terminal
    <3>2. /\ slot \in Record /\ slot' = [slot EXCEPT !.status = m.status]
          /\ Persist(slot', history')
      BY <2>3, RecordedSettles
    <3>. QED  BY <2>1, <3>1, <3>2, SettlingKeeps
  <2>4. CASE UNCHANGED server
    BY <2>1, <2>4, Unmoved
  <2>. QED  BY <1>11, <2>2, <2>3, <2>4 DEF DeliverLate, Claimed, Recorded
<1>12. ASSUME NEW m \in late, LoseLate(m)
       PROVE  IInv'
  BY <1>12, Unmoved DEF LoseLate
<1>13. CASE Tick
  BY <1>13, Unmoved DEF Tick
<1>14. CASE ServerCrash
  BY <1>14, ServerCrashKeeps
<1>15. CASE WorkerCrash
  BY <1>15, WorkerCrashKeeps
<1>16. CASE UNCHANGED vars
  BY <1>16, Unmoved DEF vars
<1>. QED
  BY <1>1, <1>2, <1>3, <1>4, <1>5, <1>6, <1>7, <1>8, <1>9, <1>10, <1>11, <1>12, <1>13,
     <1>14, <1>15, <1>16
  DEF Next, WorkerStep

\* In every reachable state the server's slot and the worker's memory tell the same story
\* of every action, as far as the writes of the files succeed.
THEOREM SlotAndMemoryAgree == Spec => [](IInv /\ LateResults)
<1>1. Init => IInv /\ LateResults
  BY InitHolds DEF Init, LateResults
<1>2. IInv /\ LateResults /\ [Next]_vars => (IInv /\ LateResults)'
  BY NextKeeps, LateKeeps
<1>. QED  BY <1>1, <1>2, PTL DEF Spec

\* An action is started at most once, whatever crashes and whatever arrives late, unless
\* a write fails on each side (or more is asked for than the worker remembers).
THEOREM StartedAtMostOnce == Spec => []AtMostOnce
<1>1. IInv => AtMostOnce
  BY DEF IInv, OfferedOnce, Remembered, AtMostOnce
<1>. QED  BY <1>1, SlotAndMemoryAgree, PTL

\* While the server's writes succeed, an action that was started is never offered again.
THEOREM StartedIsNotOffered ==
  Spec => [](faults = 0 => \A i \in Id : ran[i] > 0 => ~Holds(i, {"pending"}))
<1>1. IInv => (faults = 0 => \A i \in Id : ran[i] > 0 => ~Holds(i, {"pending"}))
  BY DEF IInv, OfferedOnce
<1>. QED  BY <1>1, SlotAndMemoryAgree, PTL
-------------------------------------------------------------------------------
(* The history.  Without is a recursive function over data: what it keeps is shown  *)
(* by the least counterexample, a set of naturals having a least element.           *)

\* A set of naturals that is not empty has a least element.
LEMMA Least ==
  ASSUME NEW T \in SUBSET Nat, T # {}
  PROVE  \E m \in T : \A k \in T : m <= k
<1>1. PICK m \in T : \A k \in T : ~(<<k, m>> \in OpToRel(<, Nat))
  BY NatLessThanWellFounded, WFMin
<1>2. \A k \in T : ~(k < m)
  BY <1>1 DEF OpToRel
<1>. QED  BY <1>2

\* f is what Without keeps of the first n records, for every n up to m.
Filtered(f, m, h, i) ==
  \A n \in 0..m :
    f[n] = IF n = 0 THEN <<>>
           ELSE IF h[n].id = i THEN f[n - 1] ELSE Append(f[n - 1], h[n])

\* There is such a sequence of sequences for every m up to the length of h.
LEMMA FilterExists ==
  ASSUME NEW S, NEW h \in Seq(S), NEW i, NEW m \in 0..Len(h)
  PROVE  \E f \in [0..m -> Seq(S)] : Filtered(f, m, h, i)
<1> DEFINE Defined(k) == \E f \in [0..k -> Seq(S)] : Filtered(f, k, h, i)
           Bad == {k \in 0..Len(h) : ~Defined(k)}
<1>1. SUFFICES ASSUME Bad # {} PROVE FALSE
  OBVIOUS
<1>2. PICK k \in Bad : \A j \in Bad : k <= j
  <2>1. Bad \in SUBSET Nat
    OBVIOUS
  <2>. HIDE DEF Bad
  <2>. QED  BY <1>1, <2>1, Least
<1>3. CASE k = 0
  <2>1. [n \in 0..0 |-> <<>>] \in [0..0 -> Seq(S)]
    OBVIOUS
  <2>2. Filtered([n \in 0..0 |-> <<>>], 0, h, i)
    BY DEF Filtered
  <2>. QED  BY <1>2, <1>3, <2>1, <2>2
<1>4. CASE k # 0
  <2>1. k - 1 \in 0..Len(h) /\ k \in 1..Len(h) /\ ~(k <= k - 1)
    BY <1>2, <1>4
  <2>2. Defined(k - 1)
    <3>. HIDE DEF Defined
    <3>. QED  BY <1>2, <2>1
  <2>3. PICK f \in [0..(k - 1) -> Seq(S)] : Filtered(f, k - 1, h, i)
    BY <2>2
  <2> DEFINE last == IF h[k].id = i THEN f[k - 1] ELSE Append(f[k - 1], h[k])
             g == [n \in 0..k |-> IF n = k THEN last ELSE f[n]]
  <2>4. h[k] \in S /\ f[k - 1] \in Seq(S)
    BY <2>1, <2>3
  <2>5. last \in Seq(S)
    BY <2>4
  <2>6. g \in [0..k -> Seq(S)]
    BY <2>1, <2>3, <2>5
  <2>7. Filtered(g, k, h, i)
    <3>1. \A n \in 0..(k - 1) : g[n] = f[n]
      BY <2>1
    <3>2. g[k] = last /\ k # 0
      BY <2>1
    <3>3. \A n \in 0..k : n = k \/ (n \in 0..(k - 1) /\ (n # 0 => n - 1 \in 0..(k - 1)))
      BY <2>1
    <3>4. k - 1 \in 0..(k - 1)
      BY <2>1
    <3> HIDE DEF g
    <3>. QED  BY <2>3, <3>1, <3>2, <3>3, <3>4 DEF Filtered
  <2>. QED  BY <1>2, <2>6, <2>7
<1>. QED  BY <1>3, <1>4

\* Without is the last of these sequences.
LEMMA WithoutIs ==
  ASSUME NEW S, NEW h \in Seq(S), NEW i
  PROVE  \E f \in [0..Len(h) -> Seq(S)] :
           Filtered(f, Len(h), h, i) /\ Without(h, i) = f[Len(h)]
<1> DEFINE Step(f, n) ==
             IF n = 0 THEN <<>>
             ELSE IF h[n].id = i THEN f[n - 1] ELSE Append(f[n - 1], h[n])
           kept == CHOOSE f : f = [n \in 0..Len(h) |-> Step(f, n)]
<1>1. PICK f \in [0..Len(h) -> Seq(S)] : Filtered(f, Len(h), h, i)
  <2>1. Len(h) \in 0..Len(h)
    BY LenProperties
  <2> HIDE DEF kept, Step
  <2>. QED  BY <2>1, FilterExists
<1>2. f = [n \in 0..Len(h) |-> Step(f, n)]
  BY <1>1 DEF Filtered
<1>3. kept = [n \in 0..Len(h) |-> Step(kept, n)]
  <2> HIDE DEF Step
  <2>. QED  BY <1>2
<1>4. Without(h, i) = kept[Len(h)]
  BY DEF Without
<1>5. \A n \in 0..Len(h) : kept[n] = f[n]
  <2> DEFINE Bad == {n \in 0..Len(h) : kept[n] # f[n]}
  <2>1. SUFFICES ASSUME Bad # {} PROVE FALSE
    OBVIOUS
  <2>2. PICK n \in Bad : \A j \in Bad : n <= j
    <3>1. Bad \in SUBSET Nat
      OBVIOUS
    <3>. HIDE DEF Bad
    <3>. QED  BY <2>1, <3>1, Least
  <2>3. kept[n] = Step(kept, n) /\ f[n] = Step(f, n) /\ n \in 0..Len(h)
    <3> HIDE DEF Step, kept
    <3>. QED  BY <1>2, <1>3, <2>2
  <2>4. n # 0 => kept[n - 1] = f[n - 1]
    <3>1. n # 0 => n - 1 \in 0..Len(h) /\ ~(n <= n - 1)
      BY <2>3
    <3> HIDE DEF kept
    <3>. QED  BY <2>2, <3>1
  <2>5. Step(kept, n) = Step(f, n)
    <3> HIDE DEF kept
    <3>. QED  BY <2>4
  <2>. HIDE DEF kept, Step
  <2>. QED  BY <2>2, <2>3, <2>5
<1>6. Len(h) \in 0..Len(h)
  BY LenProperties
<1> HIDE DEF kept
<1>. QED  BY <1>1, <1>4, <1>5, <1>6

\* Without keeps records of h in a sequence no longer than h, and none of action i.
LEMMA WithoutKeeps ==
  ASSUME NEW S, NEW h \in Seq(S), NEW i
  PROVE  /\ Without(h, i) \in Seq(S)
         /\ Len(Without(h, i)) <= Len(h)
         /\ \A j \in 1..Len(Without(h, i)) :
              \E k \in 1..Len(h) : Without(h, i)[j] = h[k] /\ h[k].id # i
<1>1. PICK f \in [0..Len(h) -> Seq(S)] :
        Filtered(f, Len(h), h, i) /\ Without(h, i) = f[Len(h)]
  BY WithoutIs
<1> DEFINE Kept(n) == /\ Len(f[n]) <= n
                      /\ \A j \in 1..Len(f[n]) :
                           \E k \in 1..Len(h) : f[n][j] = h[k] /\ h[k].id # i
           Bad == {n \in 0..Len(h) : ~Kept(n)}
<1>2. ASSUME Bad # {} PROVE FALSE
  <2>1. PICK n \in Bad : \A j \in Bad : n <= j
    <3>1. Bad \in SUBSET Nat
      OBVIOUS
    <3>. HIDE DEF Bad
    <3>. QED  BY <1>2, <3>1, Least
  <2>2. n \in 0..Len(h) /\ ~Kept(n)
    OBVIOUS
  <2>3. CASE n = 0
    <3>1. f[0] = <<>>
      BY <1>1 DEF Filtered
    <3>. QED  BY <2>2, <2>3, <3>1
  <2>4. CASE n # 0
    <3>1. n - 1 \in 0..Len(h) /\ n \in 1..Len(h) /\ ~(n <= n - 1)
      BY <2>2, <2>4
    <3>2. Kept(n - 1)
      <4>. HIDE DEF Kept
      <4>. QED  BY <2>1, <3>1
    <3>3. f[n - 1] \in Seq(S) /\ h[n] \in S
      BY <1>1, <3>1
    <3>4. f[n] = IF h[n].id = i THEN f[n - 1] ELSE Append(f[n - 1], h[n])
      BY <1>1, <3>1 DEF Filtered
    <3>5. CASE h[n].id = i
      BY <2>2, <3>1, <3>2, <3>3, <3>4, <3>5
    <3>6. CASE h[n].id # i
      <4>1. /\ Len(f[n]) = Len(f[n - 1]) + 1
            /\ \A j \in 1..Len(f[n - 1]) : f[n][j] = f[n - 1][j]
            /\ f[n][Len(f[n - 1]) + 1] = h[n]
        BY <3>3, <3>4, <3>6, AppendProperties
      <4>2. Len(f[n - 1]) \in Nat
        BY <3>3
      <4>3. \A j \in 1..Len(f[n]) : j \in 1..Len(f[n - 1]) \/ j = Len(f[n - 1]) + 1
        BY <4>1, <4>2
      <4>4. Kept(n)
        BY <3>1, <3>2, <3>6, <4>1, <4>2, <4>3
      <4>. QED  BY <2>2, <4>4
    <3>. QED  BY <3>5, <3>6
  <2>. QED  BY <2>3, <2>4
<1>3. Kept(Len(h))
  <2>1. Len(h) \in 0..Len(h)
    BY LenProperties
  <2> HIDE DEF Kept
  <2>. QED  BY <1>2, <2>1
<1>4. f[Len(h)] \in Seq(S)
  BY <1>1, LenProperties
<1>. QED  BY <1>1, <1>3, <1>4

Elements(h) == {h[n] : n \in DOMAIN h}

\* An archive is a sequence of records within the limit.
LEMMA ArchiveIs ==
  \A h : h \in Archive <=> h \in Seq(Record) /\ Len(h) <= HistoryLimit
<1>1. ASSUME NEW h, h \in Archive PROVE h \in Seq(Record) /\ Len(h) <= HistoryLimit
  <2>1. PICK n \in 0..HistoryLimit : h \in [1..n -> Record]
    BY <1>1 DEF Archive
  <2>. QED  BY <2>1, HostActionsAssumption
<1>2. ASSUME NEW h \in Seq(Record), Len(h) <= HistoryLimit PROVE h \in Archive
  <2>1. Len(h) \in 0..HistoryLimit /\ h \in [1..Len(h) -> Record]
    BY <1>2, HostActionsAssumption, LenProperties
  <2>. QED  BY <2>1 DEF Archive
<1>. QED  BY <1>1, <1>2

\* _push_history: the history stays within its limit, and holds the pushed record and
\* older ones of other requests.
LEMMA PushedIs ==
  ASSUME NEW r \in Record, NEW h \in Archive
  PROVE  /\ Pushed(r, h) \in Archive
         /\ \A x \in Elements(Pushed(r, h)) : x = r \/ (x \in Elements(h) /\ x.id # r.id)
<1> DEFINE older == Without(h, r.id)
           all == <<r>> \o older
           size == IF Len(older) < HistoryLimit THEN Len(older) + 1 ELSE HistoryLimit
<1>1. h \in Seq(Record)
  BY ArchiveIs
<1>2. /\ older \in Seq(Record)
      /\ \A j \in 1..Len(older) : \E k \in 1..Len(h) : older[j] = h[k] /\ h[k].id # r.id
  BY <1>1, WithoutKeeps
<1> HIDE DEF older
<1>3. <<r>> \in Seq(Record) /\ Len(<<r>>) = 1 /\ <<r>>[1] = r /\ Len(older) \in Nat
  BY <1>2
<1>4. /\ all \in Seq(Record) /\ Len(all) = Len(older) + 1
      /\ \A j \in 1..Len(all) : all[j] = IF j <= 1 THEN r ELSE older[j - 1]
  BY <1>2, <1>3, ConcatProperties
<1> HIDE DEF all
<1>5. size \in Nat /\ size <= Len(all) /\ size <= HistoryLimit /\ size >= 1
  BY <1>3, <1>4, HostActionsAssumption
<1> HIDE DEF size
<1>6. \A j \in 1..size : all[j] \in Record
  BY <1>4, <1>5
<1>7. Pushed(r, h) = SubSeq(all, 1, size)
  BY DEF Pushed, older, all, size
<1>8. /\ Pushed(r, h) \in Seq(Record)
      /\ Len(Pushed(r, h)) = size
      /\ \A j \in 1..size : Pushed(r, h)[j] = all[j]
  BY <1>5, <1>6, <1>7, SubSeqProperties
<1>9. ASSUME NEW x \in Elements(Pushed(r, h))
      PROVE  x = r \/ (x \in Elements(h) /\ x.id # r.id)
  <2>1. PICK j \in 1..size : x = all[j]
    BY <1>8, LenProperties DEF Elements
  <2>2. CASE j = 1
    BY <1>4, <1>5, <2>1, <2>2
  <2>3. CASE j # 1
    <3>1. j - 1 \in 1..Len(older) /\ x = older[j - 1]
      BY <1>3, <1>4, <1>5, <2>1, <2>3
    <3>2. PICK k \in 1..Len(h) : x = h[k] /\ h[k].id # r.id
      BY <1>2, <3>1
    <3>. QED  BY <1>1, <3>2, LenProperties DEF Elements
  <2>. QED  BY <2>2, <2>3
<1>. QED  BY <1>5, <1>8, <1>9, ArchiveIs

\* An archive's elements are records.
LEMMA ElementsAre ==
  ASSUME NEW h \in Archive
  PROVE  Elements(h) \subseteq Record
BY ArchiveIs, LenProperties DEF Elements

-------------------------------------------------------------------------------
(* What the server tells *)

\* A live record gets a status that settles it, and is pushed.
Settles(st) ==
  /\ slot \in Record /\ slot.status \in Live
  /\ slot' = [slot EXCEPT !.status = st]
  /\ history' = Pushed(slot', history)
  /\ Persist(slot', history')

\* The pending record is claimed.
Starts ==
  /\ slot \in Record /\ slot.status = "pending"
  /\ slot' = [slot EXCEPT !.status = "running"]
  /\ UNCHANGED history
  /\ Persist(slot', history)

\* The result that settles the slot is what the worker reports, or one that is late.
Source(st) ==
  \/ wpc = "report" /\ held = slot.id /\ outcome = st
  \/ \E m \in late : m.type = "result" /\ m.id = slot.id /\ m.status = st

\* All that happens to the server.
LEMMA ServerMoves ==
  ASSUME IInv, LateResults, [Next]_vars
  PROVE  \/ UNCHANGED server
         \/ Starts
         \/ \E st \in {"done", "failed"} : Settles(st) /\ Source(st)
         \/ Settles("expired")
         \/ Enqueue
         \/ ServerCrash
<1>1. ASSUME NEW i, Claimed(i)
      PROVE  UNCHANGED server \/ Starts
  BY <1>1, ClaimedSettles DEF Claimed, Holds, Starts
<1>2. ASSUME NEW i, NEW st, Recorded(i, st)
      PROVE  UNCHANGED server \/ (Settles(st) /\ i = slot.id)
  BY <1>2, RecordedSettles DEF Recorded, Holds, Settles
<1>3. CASE PollExpire
  <2>1. slot \in Record /\ slot.status \in Live
    BY <1>3 DEF PollExpire, Stale, NoRecord, IInv, Typed, Live
  <2>. QED  BY <1>3, <2>1 DEF PollExpire, Expired, Settles
<1>4. CASE Claim
  BY <1>1, <1>4 DEF Claim
<1>5. CASE Report
  <2>1. outcome \in {"done", "failed"}
    BY DEF IInv, Typed
  <2>. QED  BY <1>2, <1>5, <2>1 DEF Report, Source
<1>6. ASSUME NEW m \in late, DeliverLate(m)
      PROVE  \/ UNCHANGED server \/ Starts
             \/ \E st \in {"done", "failed"} : Settles(st) /\ Source(st)
  <2>1. CASE m.type = "claim" /\ Claimed(m.id)
    BY <1>1, <2>1
  <2>2. CASE m.type = "result" /\ Recorded(m.id, m.status)
    <3>1. m.status \in {"done", "failed"}
      BY <1>6, <2>2 DEF LateResults
    <3>2. UNCHANGED server \/ (Settles(m.status) /\ m.id = slot.id)
      BY <1>2, <2>2
    <3>3. m.id = slot.id => Source(m.status)
      BY <2>2 DEF Source
    <3>. QED  BY <3>1, <3>2, <3>3
  <2>. QED  BY <1>6, <2>1, <2>2 DEF DeliverLate
<1>7. CASE UNCHANGED vars
  BY <1>7 DEF vars
<1>8. CASE PollTake \/ Plan \/ ClaimTimeout \/ Mark \/ Execute \/ ReportTimeout
  BY <1>8 DEF PollTake, Plan, ClaimTimeout, Mark, Execute, ReportTimeout
<1>9. CASE Tick \/ WorkerCrash \/ \E m \in late : LoseLate(m)
  BY <1>9 DEF Tick, WorkerCrash, LoseLate
<1>. QED
  BY <1>3, <1>4, <1>5, <1>6, <1>7, <1>8, <1>9 DEF Next, WorkerStep

\* A status leaves a record a record of the same request.
LEMMA StatusKeepsRecord ==
  ASSUME NEW r \in Record, NEW st \in Live \cup Terminal
  PROVE  /\ [r EXCEPT !.status = st] \in Record
         /\ [r EXCEPT !.status = st].id = r.id
         /\ [r EXCEPT !.status = st].status = st
BY DEF Record

\* The server's memory and file are a slot and an archive.
LEMMA ServerTypes ==
  ASSUME IInv, LateResults, TypeOK, [Next]_vars
  PROVE  /\ slot' \in Record \cup {NoRecord} /\ history' \in Archive
         /\ disk' \in [slot: Record \cup {NoRecord}, history: Archive]
         /\ faults' \in 0..MaxFaults
<1> DEFINE Slots == Record \cup {NoRecord}
<1>0. /\ slot \in Slots /\ history \in Archive
      /\ disk \in [slot: Slots, history: Archive]
      /\ faults \in 0..MaxFaults /\ MaxFaults \in Nat
  BY HostActionsAssumption DEF TypeOK, HostActionsAssumption
<1> HIDE DEF Slots
<1>1. ASSUME NEW s \in Slots, NEW h \in Archive, Persist(s, h)
      PROVE  disk' \in [slot: Slots, history: Archive] /\ faults' \in 0..MaxFaults
  BY <1>0, <1>1 DEF Persist
<1>2. ASSUME NEW st \in {"done", "failed", "expired"}, Settles(st)
      PROVE  slot' \in Record /\ history' \in Archive
  <2>1. slot' \in Record
    BY <1>2, StatusKeepsRecord DEF Settles, Terminal
  <2>. QED  BY <1>0, <1>2, <2>1, PushedIs DEF Settles
<1>3. CASE UNCHANGED server
  BY <1>0, <1>3 DEF server, Slots
<1>4. CASE Starts
  <2>1. slot' \in Record
    BY <1>4, StatusKeepsRecord DEF Starts, Live
  <2>2. slot' \in Slots
    BY <2>1 DEF Slots
  <2>. QED  BY <1>0, <1>1, <1>4, <2>2 DEF Starts, Slots
<1>5. ASSUME NEW st \in {"done", "failed", "expired"}, Settles(st)
      PROVE  /\ slot' \in Slots /\ history' \in Archive
             /\ disk' \in [slot: Slots, history: Archive] /\ faults' \in 0..MaxFaults
  <2>1. slot' \in Slots /\ history' \in Archive
    BY <1>2, <1>5 DEF Slots
  <2>. QED  BY <1>1, <1>5, <2>1 DEF Settles
<1>6. CASE Enqueue
  <2>1. slot' \in Record
    BY <1>6 DEF Enqueue, IInv, Typed, Record, Live, Id
  <2>2. Stale(slot) => /\ slot \in Record /\ Expired(slot) \in Record
    BY StatusKeepsRecord DEF IInv, Typed, Stale, Expired, NoRecord, Terminal
  <2>3. history' \in Archive
    BY <1>0, <1>6, <2>2, PushedIs DEF Enqueue
  <2>4. slot' \in Slots /\ (Stale(slot) => Expired(slot) \in Slots)
    BY <2>1, <2>2 DEF Slots
  <2>5. CASE Persist(slot', history')
    BY <1>1, <2>3, <2>4, <2>5 DEF Slots
  <2>6. CASE /\ Stale(slot) /\ faults < MaxFaults /\ faults' = faults + 1
             /\ disk' = [slot |-> Expired(slot), history |-> history']
    BY <1>0, <2>3, <2>4, <2>6 DEF Slots
  <2>. QED  BY <1>6, <2>5, <2>6 DEF Enqueue
<1>7. CASE ServerCrash
  BY <1>0, <1>7 DEF ServerCrash, Slots
<1>. QED  BY <1>3, <1>4, <1>5, <1>6, <1>7, ServerMoves DEF Slots

\* The clocks of the records run up to their limit.
LEMMA OlderType ==
  ASSUME NEW a \in [Id -> 0..MaxAge]
  PROVE  Older(a) \in [Id -> 0..MaxAge]
<1>1. MaxAge \in Nat
  BY HostActionsAssumption DEF HostActionsAssumption, MaxAge
<1>. QED  BY <1>1 DEF Older

LEMMA TypeKept ==
  ASSUME IInv, IInv', LateResults, TypeOK, [Next]_vars
  PROVE  TypeOK'
<1>1. /\ slot' \in Record \cup {NoRecord} /\ history' \in Archive
      /\ disk' \in [slot: Record \cup {NoRecord}, history: Archive]
      /\ faults' \in 0..MaxFaults
  BY ServerTypes
<1>2. /\ wpc' \in {"poll", "plan", "claim", "mark", "execute", "report"}
      /\ outcome' \in {"done", "failed"}
      /\ seen' \subseteq Id /\ seenDisk' \subseteq Id /\ ran' \in [Id -> Nat]
      /\ wpc # "poll" => held \in Id
      /\ wpc' # "poll" => held' \in Id
      /\ outcome \in {"done", "failed"}
  BY DEF IInv, Typed
<1>3. held' \in Id \cup {NoId}
  <2>1. wpc' # "poll" \/ held' \in {held, NoId}
    BY DEF Next, WorkerStep, Enqueue, PollExpire, PollTake, Plan, Claim, ClaimTimeout,
       Mark, Execute, Report, ReportTimeout, DeliverLate, LoseLate, Tick, ServerCrash,
       WorkerCrash, BackToPoll, vars, poller
  <2>. QED  BY <1>2, <2>1 DEF TypeOK
<1>4. late' \in Messages
  <2>1. \/ late' \subseteq late
        \/ late' = late \cup {[type |-> "claim", id |-> held]} /\ wpc # "poll"
        \/ /\ late' = late \cup {[type |-> "result", id |-> held, status |-> outcome]}
           /\ wpc # "poll"
    BY DEF Next, WorkerStep, Enqueue, PollExpire, PollTake, Plan, Claim, ClaimTimeout, Mark,
           Execute, Report, ReportTimeout, DeliverLate, LoseLate, Tick, ServerCrash,
           WorkerCrash, vars
  <2>2. late \in Messages
    BY DEF TypeOK
  <2>. QED  BY <1>2, <2>1, <2>2 DEF Messages, Message
<1>5. age' \in [Id -> 0..MaxAge] /\ runAge' \in [Id -> 0..MaxAge]
  <2>1. MaxAge \in Nat
    BY HostActionsAssumption DEF HostActionsAssumption, MaxAge
  <2>2. /\ \/ age' = age \/ age' = Older(age)
           \/ \E i : age' = [age EXCEPT ![i] = 0]
        /\ \/ runAge' = runAge \/ runAge' = Older(runAge)
           \/ \E i : runAge' = [runAge EXCEPT ![i] = 0]
    BY DEF Next, WorkerStep, Enqueue, PollExpire, PollTake, Plan, Claim, ClaimTimeout, Mark,
           Execute, Report, ReportTimeout, DeliverLate, LoseLate, Tick, ServerCrash,
           WorkerCrash, Claimed, vars, clock
  <2>. QED  BY <2>1, <2>2, OlderType DEF TypeOK
<1>6. /\ killed' \subseteq Id /\ crashes' \in 0..MaxCrashes
      /\ seenFaults' \in 0..MaxSeenFaults /\ next' \in 1..(MaxRequests + 1)
  <2>1. \/ killed' = killed
        \/ killed' = killed \cup {held} /\ wpc # "poll"
    BY DEF Next, WorkerStep, Enqueue, PollExpire, PollTake, Plan, Claim, ClaimTimeout, Mark,
           Execute, Report, ReportTimeout, DeliverLate, LoseLate, Tick, ServerCrash,
           WorkerCrash, vars
  <2>2. \/ crashes' = crashes
        \/ crashes < MaxCrashes /\ crashes' = crashes + 1
    BY DEF Next, WorkerStep, Enqueue, PollExpire, PollTake, Plan, Claim, ClaimTimeout, Mark,
           Execute, Report, ReportTimeout, DeliverLate, LoseLate, Tick, ServerCrash,
           WorkerCrash, vars
  <2>3. \/ seenFaults' = seenFaults
        \/ seenFaults < MaxSeenFaults /\ seenFaults' = seenFaults + 1
    BY DEF Next, WorkerStep, Enqueue, PollExpire, PollTake, Plan, Claim, ClaimTimeout, Mark,
           Execute, Report, ReportTimeout, DeliverLate, LoseLate, Tick, ServerCrash,
           WorkerCrash, memory, vars
  <2>4. \/ next' = next
        \/ next <= MaxRequests /\ next' = next + 1
    BY DEF Next, WorkerStep, Enqueue, PollExpire, PollTake, Plan, Claim, ClaimTimeout, Mark,
           Execute, Report, ReportTimeout, DeliverLate, LoseLate, Tick, ServerCrash,
           WorkerCrash, vars
  <2>. QED  BY <1>2, <2>1, <2>2, <2>3, <2>4, HostActionsAssumption
            DEF HostActionsAssumption, TypeOK
<1>. QED  BY <1>1, <1>2, <1>3, <1>4, <1>5, <1>6 DEF TypeOK

LEMMA InitTyped == Init => TypeOK
<1> SUFFICES ASSUME Init PROVE TypeOK
  OBVIOUS
<1>1. <<>> \in Archive
  <2>1. <<>> \in Seq(Record) /\ Len(<<>>) = 0
    OBVIOUS
  <2>2. 0 <= HistoryLimit
    BY HostActionsAssumption DEF HostActionsAssumption
  <2>. QED  BY <2>1, <2>2, ArchiveIs
<1>2. 0 \in 0..MaxAge
  BY HostActionsAssumption DEF HostActionsAssumption, MaxAge
<1>. QED  BY <1>1, <1>2, HostActionsAssumption DEF HostActionsAssumption, Init, TypeOK, Messages

\* The types, whatever dies, is lost or arrives late: in particular neither the history
\* nor its copy in the file outgrows its limit (_push_history).
THEOREM TypeCorrect == Spec => []TypeOK
<1>1. IInv /\ IInv' /\ LateResults /\ TypeOK /\ [Next]_vars => TypeOK'
  BY TypeKept
<1>. QED  BY <1>1, InitTyped, SlotAndMemoryAgree, PTL DEF Spec

-------------------------------------------------------------------------------
(* The status tells the truth *)

\* Whatever was pushed or remembered was allocated before the next record.
Known ==
  /\ \A x \in Elements(history) \cup Elements(disk.history) : x.id < next
  /\ \A i \in seen \cup seenDisk : i < next

\* While the server's writes succeed: its file is its memory; what it keeps is settled,
\* one record for a request; what is done was started, and so was what will be reported
\* as done, now or late; and what the worker remembers is not offered.
Truth ==
  faults = 0 =>
    /\ disk.history = history
    /\ \A x \in Elements(history) : x.status \in Terminal
    /\ \A x, y \in Elements(history) \cup {slot} : x.id = y.id => x = y
    /\ \A x \in Elements(history) \cup {slot} : x.status = "done" => ran[x.id] > 0
    /\ \A i \in seen \cup seenDisk : ~Holds(i, {"pending"}) /\ (wpc = "plan" => held # i)
    /\ wpc = "report" /\ outcome = "done" => ran[held] > 0
    /\ \A m \in late : m.type = "result" /\ m.status = "done" => ran[m.id] > 0

\* Nothing started is forgotten, and the next identifier only grows.
LEMMA OnlyGrows ==
  ASSUME IInv, TypeOK, [Next]_vars
  PROVE  /\ next' \in {next, next + 1} /\ next \in Nat
         /\ \A i \in Id : ran[i] > 0 => ran'[i] > 0
         /\ faults' = 0 => faults = 0
<1>1. next' \in {next, next + 1}
  BY DEF Next, WorkerStep, Enqueue, PollExpire, PollTake, Plan, Claim, ClaimTimeout, Mark,
         Execute, Report, ReportTimeout, DeliverLate, LoseLate, Tick, ServerCrash,
         WorkerCrash, vars
<1>2. ran' = ran \/ ran' = [ran EXCEPT ![held] = @ + 1]
  BY DEF Next, WorkerStep, Enqueue, PollExpire, PollTake, Plan, Claim, ClaimTimeout, Mark,
         Execute, Report, ReportTimeout, DeliverLate, LoseLate, Tick, ServerCrash,
         WorkerCrash, vars
<1>3. faults' \in {faults, faults + 1}
  BY DEF Next, WorkerStep, Enqueue, PollExpire, PollTake, Plan, Claim, ClaimTimeout, Mark,
         Execute, Report, ReportTimeout, DeliverLate, LoseLate, Tick, ServerCrash,
         WorkerCrash, Claimed, Recorded, Persist, server, vars
<1>. QED  BY <1>1, <1>2, <1>3 DEF IInv, Typed

\* A thread of the worker remembers only what it holds, and that is no longer offered.
LEMMA SeenGrows ==
  ASSUME IInv, TypeOK, [Next]_vars
  PROVE  \/ seen' \subseteq seen \cup seenDisk /\ seenDisk' \subseteq seen \cup seenDisk
         \/ Mark /\ seen' \cup seenDisk' \subseteq seen \cup seenDisk \cup {held}
<1>1. CASE Mark
  BY <1>1 DEF Mark
<1>2. CASE ~Mark
  BY <1>2 DEF Next, WorkerStep, Enqueue, PollExpire, PollTake, Plan, Claim, ClaimTimeout,
     Execute, Report, ReportTimeout, DeliverLate, LoseLate, Tick, ServerCrash,
     WorkerCrash, memory, vars
<1>. QED  BY <1>1, <1>2

LEMMA KnownKept ==
  ASSUME IInv, IInv', LateResults, TypeOK, Known, [Next]_vars
  PROVE  Known'
<1>1. /\ next' \in {next, next + 1} /\ next \in Nat
      /\ history \in Archive /\ disk.history \in Archive
      /\ slot \in Record => slot.id < next
      /\ \A r \in Record : r.id \in Nat
  BY OnlyGrows DEF IInv, Allocated, TypeOK, Record, Id
<1>2. ASSUME NEW r \in Record, NEW h \in Archive, r.id < next, \A x \in Elements(h) : x.id < next
      PROVE  \A x \in Elements(Pushed(r, h)) : x.id < next
  BY <1>2, PushedIs
<1>3. /\ \A x \in Elements(history') : x.id < next
      /\ \A x \in Elements(disk'.history) : x.id < next
  <2>1. CASE UNCHANGED server
    BY <2>1 DEF server, Known
  <2>2. CASE Starts
    <3>1. history' = history /\ (disk' = disk \/ disk'.history = history)
      BY <2>2 DEF Starts, Persist
    <3>. QED  BY <3>1 DEF Known
  <2>3. ASSUME NEW st \in {"done", "failed", "expired"}, Settles(st) PROVE <1>3!:
    <3>1. slot' \in Record /\ slot'.id < next
      BY <1>1, <2>3, StatusKeepsRecord DEF Settles, Terminal
    <3>2. \A x \in Elements(history') : x.id < next
      BY <1>1, <1>2, <2>3, <3>1 DEF Settles, Known
    <3>3. disk' = disk \/ disk'.history = history'
      BY <2>3 DEF Settles, Persist
    <3>. QED  BY <3>2, <3>3 DEF Known
  <2>4. CASE Enqueue
    <3>1. Stale(slot) => /\ Expired(slot) \in Record /\ Expired(slot).id < next
      BY <1>1, StatusKeepsRecord DEF IInv, Typed, Stale, Expired, NoRecord, Terminal
    <3>2. \A x \in Elements(history') : x.id < next
      BY <1>1, <1>2, <2>4, <3>1 DEF Enqueue, Known
    <3>3. disk' = disk \/ disk'.history = history'
      BY <2>4 DEF Enqueue, Persist
    <3>. QED  BY <3>2, <3>3 DEF Known
  <2>5. CASE ServerCrash
    BY <2>5 DEF ServerCrash, Known
  <2>. QED  BY <2>1, <2>2, <2>3, <2>4, <2>5, ServerMoves
<1>4. \A i \in seen' \cup seenDisk' : i < next
  <2>1. Mark => held < next
    BY DEF Mark, IInv, Allocated
  <2>. QED  BY <2>1, SeenGrows DEF Known
<1>5. /\ \A x \in Elements(history') \cup Elements(disk'.history) : x.id \in Nat
      /\ \A i \in seen' \cup seenDisk' : i \in Nat
  <2>1. history' \in Archive /\ disk'.history \in Archive
    BY ServerTypes
  <2>2. \A i \in seen' \cup seenDisk' : i \in Nat
    BY DEF IInv, Typed, Id
  <2>. QED  BY <1>1, <2>1, <2>2, ElementsAre
<1>. QED  BY <1>1, <1>3, <1>4, <1>5 DEF Known

Kept == Elements(history) \cup {slot}

\* What is archived is settled, and a request has one record.
OneRecord ==
  /\ \A x \in Elements(history) : x.status \in Terminal
  /\ \A x, y \in Kept : x.id = y.id => x = y

DoneWasRun == \A x \in Kept : x.status = "done" => ran[x.id] > 0

\* The step leaves the status of what was settled.
LeavesSettled ==
  \A x \in Kept : x.status \in Terminal => \A y \in Kept' : y.id = x.id => y = x

\* What the server's variables hold while its writes succeed.
LEMMA KeptIs ==
  ASSUME IInv, TypeOK, Truth, faults = 0
  PROVE  /\ disk.history = history /\ disk.slot = slot
         /\ OneRecord /\ DoneWasRun
         /\ \A x \in Elements(history) : x \in Record /\ x.id \in Id
         /\ slot \in Record => slot.id \in Id
         /\ slot \in Record \cup {NoRecord}
         /\ slot.status \in Live => \A x \in Elements(history) : x.id # slot.id
<1>1. /\ disk.history = history /\ disk.slot = slot /\ OneRecord /\ DoneWasRun
  BY DEF IInv, OfferedOnce, Truth, OneRecord, DoneWasRun, Kept
<1>2. /\ \A x \in Elements(history) : x \in Record /\ x.id \in Id
      /\ slot \in Record => slot.id \in Id
      /\ slot \in Record \cup {NoRecord}
  BY ElementsAre DEF TypeOK, Record
<1>3. slot.status \in Live => \A x \in Elements(history) : x.id # slot.id
  BY <1>1 DEF OneRecord, Kept, Live, Terminal
<1>. QED  BY <1>1, <1>2, <1>3

\* A claim and a result only replace the live record by one of the same request.
LEMMA SlotMoves ==
  ASSUME IInv, TypeOK, Truth, faults = 0, [Next]_vars,
         slot \in Record, slot.status \in Live,
         slot' \in Record, slot'.id = slot.id,
         slot'.status = "done" => ran[slot.id] > 0,
         \/ history' = history
         \/ /\ slot'.status \in Terminal
            /\ \A x \in Elements(history') : x = slot' \/ x \in Elements(history)
  PROVE  OneRecord' /\ DoneWasRun' /\ LeavesSettled
<1>1. /\ OneRecord /\ DoneWasRun /\ slot.id \in Id
      /\ \A x \in Elements(history) : x \in Record /\ x.id \in Id /\ x.id # slot.id
  BY KeptIs
<1>2. \A i \in Id : ran[i] > 0 => ran'[i] > 0
  BY OnlyGrows
<1>3. \A x \in Kept' : x = slot' \/ x \in Elements(history)
  BY DEF Kept
<1>4. OneRecord'
  <2>1. \A x \in Elements(history') : x.status \in Terminal
    BY <1>1 DEF OneRecord
  <2>2. \A x, y \in Kept' : x.id = y.id => x = y
    BY <1>1, <1>3 DEF OneRecord, Kept
  <2>. QED  BY <2>1, <2>2 DEF OneRecord
<1>5. DoneWasRun'
  <2>1. \A x \in Elements(history) : x.status = "done" => ran'[x.id] > 0
    BY <1>1, <1>2 DEF DoneWasRun, Kept
  <2>2. slot'.status = "done" => ran'[slot'.id] > 0
    BY <1>1, <1>2
  <2>. QED  BY <1>3, <2>1, <2>2 DEF DoneWasRun
<1>6. LeavesSettled
  <2>1. \A x \in Kept : x.status \in Terminal => x \in Elements(history)
    BY DEF Kept, Live, Terminal
  <2>2. \A x \in Elements(history) : \A y \in Kept' : y.id = x.id => y = x
    BY <1>1, <1>3 DEF OneRecord, Kept
  <2>. QED  BY <2>1, <2>2 DEF LeavesSettled
<1>. QED  BY <1>4, <1>5, <1>6

\* A new request comes with an identifier of its own; the record it replaces was archived,
\* or is now, as expired.
LEMMA EnqueueMoves ==
  ASSUME IInv, TypeOK, Known, Truth, faults = 0, Enqueue
  PROVE  OneRecord' /\ DoneWasRun' /\ LeavesSettled
<1>1. /\ OneRecord /\ DoneWasRun
      /\ \A x \in Elements(history) : x \in Record /\ x.id \in Id
      /\ slot.status \in Live => \A x \in Elements(history) : x.id # slot.id
  BY KeptIs
<1>2. /\ slot' = [id |-> next, status |-> "pending"] /\ ran' = ran
      /\ slot'.id = next /\ slot'.status = "pending"
      /\ slot.status \notin Live \/ Stale(slot)
      /\ history' = IF Stale(slot) THEN Pushed(Expired(slot), history) ELSE history
      /\ next \in Nat
  BY DEF Enqueue, IInv, Typed
<1>3. Stale(slot) =>
        /\ slot.status \in Live
        /\ Expired(slot) \in Record
        /\ Expired(slot).id = slot.id /\ Expired(slot).status = "expired"
  <2>1. Stale(slot) => slot.status \in Live /\ slot \in Record
    BY DEF IInv, Typed, Stale, NoRecord, Live
  <2>2. "expired" \in Live \cup Terminal
    BY DEF Terminal
  <2>. QED  BY <2>1, <2>2, StatusKeepsRecord DEF Expired
<1>4. /\ \A x \in Elements(history) : x.id # next
      /\ slot.id # next
  <2>1. \A x \in Elements(history) : x.id \in Nat /\ x.id < next
    BY <1>1 DEF Known, Id
  <2>2. slot.id \in Nat /\ slot.id < next
    BY DEF IInv, Typed, Allocated, Record, NoRecord, Id
  <2>. QED  BY <1>2, <2>1, <2>2
<1>5. \A x \in Elements(history') :
        \/ x \in Elements(history)
        \/ Stale(slot) /\ x = Expired(slot)
  BY <1>2, <1>3, PushedIs DEF TypeOK
<1>6. OneRecord'
  <2>1. \A x \in Elements(history') : x.status \in Terminal
    BY <1>1, <1>3, <1>5 DEF OneRecord, Terminal
  <2>2. \A x \in Elements(history') : x.id # next
    BY <1>3, <1>4, <1>5
  <2>3. \A x, y \in Elements(history') : x.id = y.id => x = y
    BY <1>1, <1>3, <1>5 DEF OneRecord, Kept
  <2>. QED  BY <1>2, <2>1, <2>2, <2>3 DEF OneRecord, Kept
<1>7. DoneWasRun'
  <2>1. \A x \in Elements(history') : x.status = "done" => x \in Elements(history)
    BY <1>3, <1>5
  <2>. QED  BY <1>1, <1>2, <2>1 DEF DoneWasRun, Kept
<1>8. LeavesSettled
  <2>1. ASSUME NEW x \in Kept, x.status \in Terminal,
               NEW y \in Kept', y.id = x.id
        PROVE  y = x
    <3>1. y \in Elements(history')
      BY <1>2, <1>4, <2>1 DEF Kept
    <3>2. CASE y \in Elements(history)
      BY <1>1, <2>1, <3>2 DEF OneRecord, Kept
    <3>3. CASE Stale(slot) /\ y = Expired(slot)
      <4>1. x # slot
        BY <1>3, <2>1, <3>3 DEF Live, Terminal
      <4>. QED  BY <1>1, <1>3, <2>1, <3>3, <4>1 DEF Kept
    <3>. QED  BY <1>5, <3>1, <3>2, <3>3
  <2>. QED  BY <2>1 DEF LeavesSettled
<1>. QED  BY <1>6, <1>7, <1>8

\* Every step of the server, while its writes succeed.
LEMMA ServerTruth ==
  ASSUME IInv, LateResults, TypeOK, Known, Truth, [Next]_vars, faults' = 0
  PROVE  disk'.history = history' /\ OneRecord' /\ DoneWasRun' /\ LeavesSettled
<1>1. /\ faults = 0
      /\ disk.history = history /\ disk.slot = slot /\ OneRecord /\ DoneWasRun
      /\ \A x \in Elements(history) : x \in Record /\ x.id \in Id
      /\ slot \in Record => slot.id \in Id
      /\ slot \in Record \cup {NoRecord}
  BY OnlyGrows, KeptIs
<1>2. ASSUME NEW s, NEW h, Persist(s, h) PROVE disk'.history = h
  BY <1>1, <1>2 DEF Persist
<1>3. CASE UNCHANGED server \/ ServerCrash
  <2>1. slot' = slot /\ history' = history /\ disk' = disk
    BY <1>1, <1>3 DEF server, ServerCrash
  <2>2. Kept' = Kept
    BY <2>1 DEF Kept, Elements
  <2>3. DoneWasRun'
    <3>1. \A x \in Kept : x.status = "done" => x.id \in Id
      BY <1>1 DEF Kept, NoRecord
    <3>. QED  BY <1>1, <2>2, <3>1, OnlyGrows DEF DoneWasRun
  <2>4. OneRecord' /\ LeavesSettled
    BY <1>1, <2>1, <2>2 DEF OneRecord, LeavesSettled
  <2>. QED  BY <1>1, <2>1, <2>3, <2>4
<1>4. CASE Starts
  <2>1. /\ slot \in Record /\ slot.status \in Live /\ history' = history
        /\ slot' \in Record /\ slot'.id = slot.id /\ slot'.status = "running"
        /\ disk'.history = history
    BY <1>2, <1>4, StatusKeepsRecord DEF Starts, Live
  <2>. QED  BY <1>1, <2>1, SlotMoves
<1>5. ASSUME NEW st \in Terminal, Settles(st), st = "done" => ran[slot.id] > 0
      PROVE  disk'.history = history' /\ OneRecord' /\ DoneWasRun' /\ LeavesSettled
  <2>1. /\ slot \in Record /\ slot.status \in Live
        /\ slot' \in Record /\ slot'.id = slot.id /\ slot'.status = st
        /\ disk'.history = history' /\ history' = Pushed(slot', history)
    BY <1>2, <1>5, StatusKeepsRecord DEF Settles
  <2>2. \A x \in Elements(history') : x = slot' \/ x \in Elements(history)
    BY <2>1, PushedIs DEF TypeOK
  <2>. QED  BY <1>1, <1>5, <2>1, <2>2, SlotMoves
<1>6. CASE Settles("expired")
  BY <1>5, <1>6 DEF Terminal
<1>7. ASSUME NEW st \in {"done", "failed"}, Settles(st), Source(st)
      PROVE  disk'.history = history' /\ OneRecord' /\ DoneWasRun' /\ LeavesSettled
  <2>1. st = "done" => ran[slot.id] > 0
    BY <1>1, <1>7 DEF Source, Truth
  <2>. QED  BY <1>5, <1>7, <2>1 DEF Terminal
<1>8. CASE Enqueue
  <2>1. disk'.history = history'
    BY <1>1, <1>8 DEF Enqueue, Persist
  <2>. QED  BY <1>1, <1>8, <2>1, EnqueueMoves
<1>. QED  BY <1>3, <1>4, <1>6, <1>7, <1>8, ServerMoves

\* The worker's part: what it remembers is not offered, and what it will report as done,
\* or has, was started.
LEMMA WorkerTruth ==
  ASSUME IInv, IInv', LateResults, TypeOK, Known, Known', Truth, [Next]_vars, faults' = 0
  PROVE  /\ \A i \in seen' \cup seenDisk' :
              ~(Holds(i, {"pending"})') /\ (wpc' = "plan" => held' # i)
         /\ wpc' = "report" /\ outcome' = "done" => ran'[held'] > 0
         /\ \A m \in late' : m.type = "result" /\ m.status = "done" => ran'[m.id] > 0
<1>1. /\ faults = 0 /\ next \in Nat
      /\ \A i \in Id : ran[i] > 0 => ran'[i] > 0
      /\ \A i \in seen \cup seenDisk : ~Holds(i, {"pending"}) /\ (wpc = "plan" => held # i)
      /\ wpc = "report" /\ outcome = "done" => ran[held] > 0
      /\ \A m \in late : m.type = "result" /\ m.status = "done" => ran[m.id] > 0
  BY OnlyGrows DEF Truth
<1>2. /\ slot'.status = "pending" =>
           \/ slot' = slot
           \/ slot'.id = next /\ Enqueue
  <2>1. CASE UNCHANGED server \/ ServerCrash
    BY <1>1, <2>1, KeptIs DEF server, ServerCrash
  <2>2. CASE Starts
    BY <2>2, StatusKeepsRecord DEF Starts, Live
  <2>3. ASSUME NEW st \in Terminal, Settles(st) PROVE slot'.status # "pending"
    BY <2>3, StatusKeepsRecord DEF Settles, Terminal
  <2>4. CASE Enqueue
    BY <2>4 DEF Enqueue
  <2>. QED  BY <2>1, <2>2, <2>3, <2>4, ServerMoves DEF Terminal
<1>3. ASSUME NEW i \in seen' \cup seenDisk'
      PROVE  ~(Holds(i, {"pending"})')
  <2>1. i < next \/ (Mark /\ i = held)
    BY SeenGrows DEF Known
  <2>2. Mark => held < next /\ next' = next /\ UNCHANGED server
    BY DEF Mark, IInv, Allocated
  <2>3. i \in Nat /\ i < next
    BY <1>1, <2>1, <2>2 DEF IInv, Typed, Id
  <2>4. ~Holds(i, {"pending"})
    <3>1. Mark /\ i = held => ~Holds(i, {"pending"})
      BY <1>1 DEF Mark, IInv, Typed, OfferedOnce, Starting
    <3>. QED  BY <1>1, <3>1, SeenGrows
  <2>. QED  BY <1>1, <1>2, <2>3, <2>4 DEF Holds
<1>4. ASSUME NEW i \in seen' \cup seenDisk', wpc' = "plan"
      PROVE  held' # i
  <2>1. ~Mark
    BY <1>4 DEF Mark
  <2>2. i \in seen \cup seenDisk
    BY <2>1, SeenGrows
  <2>3. \/ wpc = "plan" /\ held' = held
        \/ held' = slot.id /\ slot.status = "pending"
    BY <1>4 DEF Next, WorkerStep, Enqueue, PollExpire, PollTake, Plan, Claim, ClaimTimeout,
       Mark, Execute, Report, ReportTimeout, DeliverLate, LoseLate, Tick, ServerCrash,
       WorkerCrash, BackToPoll, poller, vars
  <2>. QED  BY <1>1, <2>2, <2>3 DEF Holds
<1>5. ASSUME wpc' = "report", outcome' = "done" PROVE ran'[held'] > 0
  <2>1. CASE Plan
    <3>1. held \notin seen
      BY <1>1, <2>1 DEF Plan
    <3>. QED  BY <1>5, <2>1, <3>1 DEF Plan
  <2>2. CASE Execute
    <3>1. held' = held /\ held \in Id /\ ran' = [ran EXCEPT ![held] = @ + 1]
      BY <1>5, <2>2 DEF Execute, BackToPoll, IInv, Typed
    <3>. QED  BY <3>1 DEF IInv, Typed
  <2>3. CASE ~Plan /\ ~Execute
    <3>1. UNCHANGED poller /\ held \in Id
      BY <1>5, <2>3 DEF Next, WorkerStep, Enqueue, PollExpire, PollTake, Claim,
         ClaimTimeout, Mark, Report, ReportTimeout, DeliverLate, LoseLate, Tick,
         ServerCrash, WorkerCrash, BackToPoll, poller, vars, IInv, Typed
    <3>. QED  BY <1>1, <1>5, <3>1 DEF poller
  <2>. QED  BY <2>1, <2>2, <2>3
<1>6. ASSUME NEW m \in late', m.type = "result", m.status = "done"
      PROVE  ran'[m.id] > 0
  <2>1. \/ m \in late
        \/ /\ wpc = "report"
           /\ m = [type |-> "result", id |-> held, status |-> outcome]
        \/ m = [type |-> "claim", id |-> held]
    BY DEF Next, WorkerStep, Enqueue, PollExpire, PollTake, Plan, Claim, ClaimTimeout, Mark,
           Execute, Report, ReportTimeout, DeliverLate, LoseLate, Tick, ServerCrash,
           WorkerCrash, vars
  <2>2. m.id \in Id /\ ran[m.id] > 0
    <3>1. CASE m \in late
      BY <1>1, <1>6, <3>1 DEF TypeOK, Messages, Message
    <3>2. CASE /\ wpc = "report"
               /\ m = [type |-> "result", id |-> held, status |-> outcome]
      BY <1>1, <1>6, <3>2 DEF IInv, Typed
    <3>. QED  BY <1>6, <2>1, <3>1, <3>2
  <2>. QED  BY <1>1, <2>2
<1>. QED  BY <1>3, <1>4, <1>5, <1>6

LEMMA TruthKept ==
  ASSUME IInv, IInv', LateResults, TypeOK, Known, Known', Truth, [Next]_vars
  PROVE  Truth'
<1> SUFFICES ASSUME faults' = 0 PROVE Truth'
  BY DEF Truth
<1>. QED  BY ServerTruth, WorkerTruth DEF Truth, OneRecord, DoneWasRun, Kept

LEMMA InitTruth == Init => Known /\ Truth
<1> SUFFICES ASSUME Init PROVE Known /\ Truth
  OBVIOUS
<1>1. Elements(history) = {} /\ Elements(disk.history) = {}
  BY DEF Init, Elements
<1>. QED  BY <1>1 DEF Init, Known, Truth, NoRecord

LEMMA TruthInvariant == Spec => [](Known /\ Truth)
<1>1. /\ IInv /\ IInv' /\ LateResults /\ TypeOK /\ (Known /\ Truth) /\ [Next]_vars
      => (Known /\ Truth)'
  BY KnownKept, TruthKept
<1>. QED  BY <1>1, InitTruth, SlotAndMemoryAgree, TypeCorrect, PTL DEF Spec

\* While the server's writes succeed, a request that was started is never offered again,
\* and one that shows "done" was started: a result reported late, or after a crash of
\* either side, is the result of the action it names.
THEOREM StatusTellsTheTruth == Spec => []StatusIsTrue
<1>1. IInv /\ TypeOK /\ Truth => StatusIsTrue
  <2> SUFFICES ASSUME IInv, TypeOK, Truth, faults = 0 PROVE StatusIsTrue
    BY DEF StatusIsTrue
  <2>1. DoneWasRun
    BY KeptIs
  <2>2. \A i \in Id : ran[i] > 0 => ~Holds(i, {"pending"})
    BY DEF IInv, OfferedOnce
  <2>. QED  BY <2>1, <2>2 DEF StatusIsTrue, Records, DoneWasRun, Kept, Elements
<1>. QED  BY <1>1, SlotAndMemoryAgree, TypeCorrect, TruthInvariant, PTL

\* While the server's writes succeed, the status of a settled request never changes again.
THEOREM SettledStays == Spec => SettledIsFinal
<1>1. IInv /\ LateResults /\ TypeOK /\ Known /\ Truth /\ [Next]_vars
      => [faults' = 0 =>
            \A r \in Records : r.status \in Terminal =>
              \A q \in Records' : q.id = r.id => q = r]_vars
  <2> SUFFICES ASSUME IInv, LateResults, TypeOK, Known, Truth, [Next]_vars, faults' = 0,
                      NEW r \in Records, r.status \in Terminal,
                      NEW q \in Records', q.id = r.id
               PROVE  q = r
    OBVIOUS
  <2>1. r \in Kept /\ q \in Kept'
    BY DEF Records, Kept, Elements
  <2>. QED  BY <2>1, ServerTruth DEF LeavesSettled
<1>. QED  BY <1>1, SlotAndMemoryAgree, TypeCorrect, TruthInvariant, PTL
         DEF Spec, SettledIsFinal

===============================================================================
