------------------------ MODULE VisitCapture_proofs ------------------------
(***************************************************************************)
(* Proofs about VisitCapture, for every set of keys, every number of       *)
(* visits, attempts, deaths and failed writes.                             *)
(*                                                                         *)
(* No property is inductive by itself.  What joins the tracker, the runner,*)
(* the files and the finalize threads is: which handler effects can follow *)
(* which (Shape), that an identifier is open, closing or being finalized,  *)
(* in this order, and never comes back (Untouched, Unused), that the       *)
(* semaphore is held from the look at the scratch to its removal           *)
(* (OneHolder, Exclusive), and that recovery looks at every entry before   *)
(* the sweep (Covered).                                                    *)
(***************************************************************************)
EXTENDS VisitCapture, TLAPS

Handling == {"copy", "pop", "spawn", "open", "drain", "persist"}

Closing == {"copy", "pop", "spawn"}

\* Which effects follow which, and what is in hand at each.
Shape ==
  /\ ~up => pc = "idle" /\ ~armed
  /\ \A c \in Caller, v \in Visit : job[c][v] # "none" => up
  /\ \A v \in Visit : job["main"][v] # "none" => pc = "recover"
  /\ pc \in Handling => armed
  /\ pc = "recover" => ~armed
  /\ closing # NoVisit <=> pc \in Closing
  /\ opening # NoKey => pc \in Closing \cup {"open"} /\ draining = "no"
  /\ pc = "open" => opening # NoKey
  /\ draining # "no" => pc \in Closing \cup {"drain", "persist"}
  /\ pc \in {"drain", "persist"} => draining # "no"

\* A visit has one key, and the one being closed has none any more.
OneKey ==
  /\ opening # NoKey => current[opening] # NoVisit
  /\ ~armed \/ pc = "persist" => \A k \in Key : current[k] = NoVisit
  /\ \A k \in Key : current[k] # NoVisit => current[k] # closing
  /\ \A j, k \in Key : current[j] = current[k] /\ current[j] # NoVisit => j = k

IsLive(v) == \E k \in Key : current[k] = v

\* Nothing knows of an identifier that has not been handed out.
Unused ==
  /\ \A k \in Key : current[k] # NoVisit => current[k] < next
  /\ closing # NoVisit => closing < next
  /\ \A v \in Visit : v >= next =>
       /\ v \notin clip /\ v \notin todo
       /\ table[v] = NoEntry /\ visits[v] = NoEntry
       /\ \A c \in Caller : job[c][v] = "none"

\* A visit that is open or being closed has not been finalized.
Untouched ==
  \A v \in Visit : IsLive(v) \/ v = closing =>
    v \notin clip /\ \A c \in Caller : job[c][v] = "none"

\* The semaphore has one holder.
OneHolder ==
  \A c, d \in Caller, v, w \in Visit :
    job[c][v] \in Holding /\ job[d][w] \in Holding => c = d /\ v = w

\* Who is about to publish finds no clip: a clip comes with the removal of the scratch
\* before the semaphore is free again.
Exclusive ==
  \A v \in Visit, c \in Caller :
    /\ job[c][v] = "written" => v \notin clip
    /\ job[c][v] = "held" /\ v \in clip => v \notin scratch
    /\ job[c][v] = "wait" /\ v \in clip /\ v \in scratch =>
         \E d \in Caller : job[d][v] = "published"

Counted == \A v \in Visit : published[v] <= 1 /\ (v \notin clip => published[v] = 0)

\* The runner's open visits are the tracker's, but for the one just tracked that is not
\* recorded yet and the one just closed that is not popped yet.
OpenAgrees ==
  \A v \in Visit :
    v \in open <=> \/ pc \in {"copy", "pop"} /\ v = closing
                   \/ \E k \in Key : k # opening /\ current[k] = v

Durable == faults = 0 => \A v \in open : table[v] = 0

\* While a runner is armed, footage that is in no clip belongs to a visit that is open,
\* being closed, or being finalized by its thread.
Owned ==
  armed => \A v \in scratch \ clip :
             v \in open \/ v = closing \/ job["thread"][v] # "none"

\* Recovery has yet to finalize every entry that has footage and no clip.
Covered ==
  pc = "recover" =>
    \A v \in scratch \ clip :
      table[v] # NoEntry \/ visits[v] # NoEntry =>
        v \in todo \/ job["main"][v] \in {"wait"} \cup Holding

IInv ==
  /\ TypeOK /\ Shape /\ OneKey /\ Unused /\ Untouched
  /\ OneHolder /\ Exclusive /\ Counted
  /\ OpenAgrees /\ Durable /\ Owned /\ Covered

-----------------------------------------------------------------------------
LEMMA Types ==
  /\ Visit \subseteq Nat /\ MaxVisits \in Nat
  /\ NoVisit \notin Visit /\ NoKey \notin Key
  /\ 0 \in Entry /\ NoEntry \in Entry /\ NoEntry # 0
  /\ \A n \in Entry : n + 1 \in Entry /\ n + 1 # NoEntry
  /\ EmptyTable \in [Visit -> Entry] /\ \A v \in Visit : EmptyTable[v] = NoEntry
  /\ NoJobs \in [Caller -> [Visit -> Phase]]
  /\ \A c \in Caller, v \in Visit : NoJobs[c][v] = "none"
  BY CaptureAssumption DEF Visit, Entry, NoEntry, EmptyTable, NoJobs, Phase

\* The table the runner writes: its open visits, as OPEN.
LEMMA RunnerTableIs ==
  ASSUME NEW o
  PROVE  /\ RunnerTable(o) \in [Visit -> Entry]
         /\ \A v \in Visit : RunnerTable(o)[v] = IF v \in o THEN 0 ELSE NoEntry
  BY Types DEF RunnerTable

LEMMA PersistTyped ==
  ASSUME TypeOK, NEW t \in [Visit -> Entry], Persist(t)
  PROVE  /\ table' = t \/ table' = table
         /\ table' \in [Visit -> Entry] /\ faults' \in 0..MaxFaults
         /\ faults' = 0 => table' = t /\ faults = 0
  BY CaptureAssumption DEF TypeOK, Persist

LEMMA InitHolds == Init => IInv
<1> SUFFICES ASSUME Init PROVE IInv
  OBVIOUS
<1> USE Types, CaptureAssumption DEF Init
<1>1. TypeOK
  <2>1. /\ published \in [Visit -> Nat] /\ current \in [Key -> Visit \cup {NoVisit}]
        /\ next \in 1..(MaxVisits + 1) /\ crashes \in 0..MaxCrashes /\ faults \in 0..MaxFaults
    OBVIOUS
  <2>. QED  BY <2>1 DEF TypeOK
<1>2. Shape
  BY DEF Shape, Handling, Closing, Caller
<1>6. OneKey
  BY DEF OneKey
<1>3. Unused /\ Untouched
  BY DEF Unused, Untouched, IsLive
<1>4. OneHolder /\ Exclusive /\ Counted
  BY DEF OneHolder, Exclusive, Counted, Holding
<1>5. OpenAgrees /\ Durable /\ Owned /\ Covered
  BY DEF OpenAgrees, Durable, Owned, Covered
<1>. QED  BY <1>1, <1>2, <1>3, <1>4, <1>5, <1>6 DEF IInv

-----------------------------------------------------------------------------
(* A finalize call *)

LEMMA MoveIs ==
  ASSUME TypeOK, NEW c \in Caller, NEW v \in Visit, NEW from, NEW to \in Phase,
         Move(c, v, from, to)
  PROVE  /\ up /\ job[c][v] = from
         /\ job' \in [Caller -> [Visit -> Phase]]
         /\ \A d \in Caller, w \in Visit :
              job'[d][w] = IF d = c /\ w = v THEN to ELSE job[d][w]
  BY DEF Move, TypeOK

\* A finalize call of visit v that goes on leaves the main thread, the tracker and the
\* runner alone, whatever it does to the files of v.
LEMMA MoveKeeps ==
  ASSUME IInv, NEW c \in Caller, NEW v \in Visit, NEW from, from # "none",
         NEW to \in Phase, Move(c, v, from, to), clip' \subseteq clip \cup {v}
  PROVE  Shape' /\ OneKey' /\ Unused' /\ Untouched' /\ OpenAgrees' /\ Durable'
<1>1. /\ up /\ job[c][v] # "none"
      /\ \A d \in Caller, w \in Visit :
           job'[d][w] = IF d = c /\ w = v THEN to ELSE job[d][w]
  BY MoveIs DEF IInv
<1>2. UNCHANGED <<table, current, next, pc, closing, opening, draining, visits, todo,
                  up, armed, open, faults>>
  BY DEF Move, tracking, main, recovery, process
<1>3. Shape'
  BY <1>1, <1>2 DEF IInv, Shape, Caller
<1>4. OneKey'
  BY <1>2 DEF IInv, OneKey
<1>5. Unused'
  BY <1>1, <1>2 DEF IInv, Unused
<1>6. Untouched'
  BY <1>1, <1>2 DEF IInv, Untouched, IsLive
<1>7. OpenAgrees' /\ Durable'
  BY <1>2 DEF IInv, OpenAgrees, Durable
<1>. QED  BY <1>3, <1>4, <1>5, <1>6, <1>7

LEMMA AcquireKeeps ==
  ASSUME IInv, NEW c \in Caller, NEW v \in Visit, AcquireFinalize(c, v)
  PROVE  IInv'
<1>1. /\ Move(c, v, "wait", "held") /\ "held" \in Phase
      /\ UNCHANGED <<scratch, tmp, clip, published>>
      /\ \A d \in Caller, w \in Visit : job[d][w] \notin Holding
  BY DEF AcquireFinalize, Phase, Busy
<1>2. /\ job[c][v] = "wait" /\ job' \in [Caller -> [Visit -> Phase]]
      /\ \A d \in Caller, w \in Visit :
           job'[d][w] = IF d = c /\ w = v THEN "held" ELSE job[d][w]
  BY <1>1, MoveIs DEF IInv
<1>3. UNCHANGED <<table, visits, todo, pc, closing, open, armed, up, flag, current, opening,
                  draining, next, crashes, faults>>
  BY <1>1 DEF Move, tracking, main, recovery, process
<1>4. TypeOK'
  BY <1>1, <1>2, <1>3 DEF IInv, TypeOK
<1>5. OneHolder'
  BY <1>1, <1>2 DEF OneHolder, Holding
<1>6. Exclusive'
  <2>1. v \in clip => v \notin scratch
    BY <1>1, <1>2 DEF IInv, Exclusive, Holding
  <2>. QED  BY <1>1, <1>2, <2>1 DEF IInv, Exclusive
<1>7. Counted'
  BY <1>1 DEF IInv, Counted
<1>8. Owned' /\ Covered'
  BY <1>1, <1>2, <1>3 DEF IInv, Owned, Covered, Holding, TypeOK, Caller
<1>. QED  BY <1>1, <1>4, <1>5, <1>6, <1>7, <1>8, MoveKeeps DEF IInv

\* The holder goes on, before anything is published: its footage stays.
LEMMA HolderKeeps ==
  ASSUME IInv, NEW c \in Caller, NEW v \in Visit,
         NEW from \in {"held", "written"}, NEW to \in {"written", "refused"},
         Move(c, v, from, to), to = "written" => v \in scratch /\ from = "held",
         tmp' \subseteq Visit, UNCHANGED <<scratch, clip, published>>
  PROVE  IInv'
<1>1. /\ job[c][v] = from /\ to \in Phase /\ job' \in [Caller -> [Visit -> Phase]]
      /\ \A d \in Caller, w \in Visit :
           job'[d][w] = IF d = c /\ w = v THEN to ELSE job[d][w]
  BY MoveIs DEF IInv, Phase
<1>2. UNCHANGED <<table, visits, todo, pc, closing, open, armed, up, flag, current, opening,
                  draining, next, crashes, faults>>
  BY DEF Move, tracking, main, recovery, process
<1>3. TypeOK'
  BY <1>1, <1>2 DEF IInv, TypeOK
<1>4. OneHolder'
  BY <1>1 DEF IInv, OneHolder, Holding
<1>5. Exclusive'
  BY <1>1 DEF IInv, Exclusive
<1>6. Counted'
  BY DEF IInv, Counted
<1>7. Owned' /\ Covered'
  BY <1>1, <1>2 DEF IInv, Owned, Covered, Holding, TypeOK, Caller
<1>. QED  BY <1>1, <1>3, <1>4, <1>5, <1>6, <1>7, MoveKeeps DEF IInv

\* The rename: no clip was there.
LEMMA PublishKeeps ==
  ASSUME IInv, NEW c \in Caller, NEW v \in Visit, Publish(c, v)
  PROVE  IInv'
<1>1. /\ Move(c, v, "written", "published") /\ "published" \in Phase
      /\ tmp' = tmp \ {v} /\ clip' = clip \cup {v} /\ scratch' = scratch
      /\ published' = [published EXCEPT ![v] = @ + 1]
  BY DEF Publish, Phase
<1>2. /\ job[c][v] = "written" /\ job' \in [Caller -> [Visit -> Phase]]
      /\ \A d \in Caller, w \in Visit :
           job'[d][w] = IF d = c /\ w = v THEN "published" ELSE job[d][w]
  BY <1>1, MoveIs DEF IInv
<1>3. UNCHANGED <<table, visits, todo, pc, closing, open, armed, up, flag, current, opening,
                  draining, next, crashes, faults>>
  BY <1>1 DEF Move, tracking, main, recovery, process
<1>4. v \notin clip /\ published[v] = 0 /\ published \in [Visit -> Nat]
  BY <1>2 DEF IInv, Exclusive, Counted, TypeOK
<1>5. /\ published' \in [Visit -> Nat]
      /\ \A w \in Visit : published'[w] = IF w = v THEN 1 ELSE published[w]
  BY <1>1, <1>4
<1>6. TypeOK'
  BY <1>1, <1>2, <1>3, <1>5 DEF IInv, TypeOK
<1>7. OneHolder'
  BY <1>2 DEF IInv, OneHolder, Holding
<1>8. \A d \in Caller : d # c => job[d][v] \notin Holding
  BY <1>2 DEF IInv, OneHolder, Holding
<1>9. Exclusive'
  BY <1>1, <1>2, <1>8 DEF IInv, Exclusive, Holding
<1>10. Counted'
  BY <1>1, <1>5 DEF IInv, Counted
<1>11. Owned' /\ Covered'
  BY <1>1, <1>2, <1>3 DEF IInv, Owned, Covered, Holding, TypeOK, Caller
<1>. QED  BY <1>1, <1>6, <1>7, <1>9, <1>10, <1>11, MoveKeeps DEF IInv

\* The end: the scratch is gone before anybody else can hold the semaphore.
LEMMA ReapKeeps ==
  ASSUME IInv, NEW c \in Caller, NEW v \in Visit, Reap(c, v)
  PROVE  IInv'
<1>1. PICK from \in {"published", "refused"} : Move(c, v, from, Outcome(c, from))
  BY DEF Reap
<1> DEFINE to == Outcome(c, from)
<1>2. to \in {"none", "ok", "failed"} /\ to \in Phase
  BY DEF Outcome, Phase
<1> HIDE DEF to
<1>3. scratch' = scratch \ {v} /\ UNCHANGED <<tmp, clip, published>>
  BY DEF Reap
<1>4. /\ job[c][v] = from /\ job' \in [Caller -> [Visit -> Phase]]
      /\ \A d \in Caller, w \in Visit :
           job'[d][w] = IF d = c /\ w = v THEN to ELSE job[d][w]
  BY <1>1, <1>2, MoveIs DEF IInv, to
<1>5. UNCHANGED <<table, visits, todo, pc, closing, open, armed, up, flag, current, opening,
                  draining, next, crashes, faults>>
  BY <1>1 DEF Move, tracking, main, recovery, process
<1>6. TypeOK'
  BY <1>3, <1>4, <1>5 DEF IInv, TypeOK
<1>7. OneHolder'
  BY <1>2, <1>4 DEF IInv, OneHolder, Holding
<1>8. Exclusive'
  BY <1>2, <1>3, <1>4 DEF IInv, Exclusive
<1>9. Counted'
  BY <1>3 DEF IInv, Counted
<1>10. Owned' /\ Covered'
  BY <1>3, <1>4, <1>5 DEF IInv, Owned, Covered, Holding, TypeOK, Caller
<1>. QED  BY <1>1, <1>2, <1>3, <1>6, <1>7, <1>8, <1>9, <1>10, MoveKeeps DEF IInv, to

LEMMA FinalizeKeeps ==
  ASSUME IInv, NEW c \in Caller, NEW v \in Visit, Finalize(c, v)
  PROVE  IInv'
<1>1. CASE AcquireFinalize(c, v)
  BY <1>1, AcquireKeeps
<1>2. CASE NoFootage(c, v)
  BY <1>2, HolderKeeps DEF NoFootage, IInv, TypeOK
<1>3. CASE Concat(c, v)
  BY <1>3, HolderKeeps DEF Concat, IInv, TypeOK
<1>4. CASE Reject(c, v)
  <2>1. PICK from \in {"held", "written"} : Move(c, v, from, "refused")
    BY <1>4 DEF Reject
  <2>. QED  BY <1>4, <2>1, HolderKeeps DEF Reject, IInv, TypeOK
<1>5. CASE Publish(c, v)
  BY <1>5, PublishKeeps
<1>6. CASE Reap(c, v)
  BY <1>6, ReapKeeps
<1>. QED  BY <1>1, <1>2, <1>3, <1>4, <1>5, <1>6 DEF Finalize

-----------------------------------------------------------------------------
(* The handlers of the main thread *)

\* Footage is only added to visits nobody has begun to finalize.
LEMMA FinalizersKept ==
  ASSUME IInv, UNCHANGED <<job, clip, published>>,
         \A v \in scratch' \ scratch : v \in Visit /\ (IsLive(v) \/ v = closing)
  PROVE  OneHolder' /\ Exclusive' /\ Counted'
<1>1. OneHolder' /\ Counted'
  BY DEF IInv, OneHolder, Counted
<1>2. Exclusive'
  BY DEF IInv, Exclusive, Untouched
<1>. QED  BY <1>1, <1>2

LEMMA OpenIsUsed ==
  ASSUME IInv, NEW v \in Visit, v >= next
  PROVE  v \notin open
<1>1. v \in Nat /\ next \in Nat /\ v # NoVisit
  BY Types DEF IInv, TypeOK
<1>2. ASSUME NEW k \in Key, current[k] = v  PROVE FALSE
  <2>1. current[k] # NoVisit /\ current[k] < next
    BY <1>1, <1>2 DEF IInv, Unused
  <2>. QED  BY <1>1, <1>2, <2>1
<1>3. v # closing
  BY <1>1 DEF IInv, Unused
<1>. QED  BY <1>2, <1>3 DEF IInv, OpenAgrees

\* Between two handlers nothing is in hand.
LEMMA NothingInHand ==
  ASSUME IInv, Idle
  PROVE  /\ up /\ pc = "idle" /\ closing = NoVisit /\ opening = NoKey /\ draining = "no"
         /\ \A v \in Visit : v \in open <=> IsLive(v)
<1>1. up /\ pc = "idle" /\ closing = NoVisit /\ opening = NoKey /\ draining = "no"
  BY DEF IInv, Idle, Shape, Closing, TypeOK
<1>. QED  BY <1>1, Types DEF IInv, OpenAgrees, IsLive

LEMMA TrackIs ==
  ASSUME TypeOK, NEW k \in Key, Track(k)
  PROVE  /\ next \in Visit /\ next' = next + 1 /\ next' \in 1..(MaxVisits + 1)
         /\ current' \in [Key -> Visit \cup {NoVisit}]
         /\ \A j \in Key : current'[j] = IF j = k THEN next ELSE current[j]
  BY Types DEF Track, TypeOK, Visit

\* A visit stays below the next identifier as that moves on.
LEMMA LiveIsUsed ==
  ASSUME IInv
  PROVE  /\ next \in Nat /\ next < next + 1
         /\ \A k \in Key : current[k] # NoVisit =>
              current[k] \in Nat /\ current[k] < next /\ current[k] < next + 1
<1>1. next \in Nat /\ next < next + 1
  BY Types DEF IInv, TypeOK
<1>2. ASSUME NEW k \in Key, current[k] # NoVisit
      PROVE  current[k] \in Nat /\ current[k] < next
  BY <1>2, Types DEF IInv, TypeOK, Unused
<1>. QED  BY <1>1, <1>2

LEMMA AppearKeeps ==
  ASSUME IInv, NEW k \in Key, Appear(k)
  PROVE  IInv'
<1>1. /\ Idle /\ armed /\ current[k] = NoVisit /\ opening' = k /\ pc' = "open"
      /\ UNCHANGED <<table, scratch, tmp, clip, published, visits, todo, up, flag, armed,
                     crashes, open, job, faults, closing, draining>>
  BY DEF Appear, files, recovery, process
<1>2. /\ up /\ pc = "idle" /\ closing = NoVisit /\ opening = NoKey /\ draining = "no"
      /\ \A v \in Visit : v \in open <=> IsLive(v)
  BY <1>1, NothingInHand
<1>3. /\ next \in Visit /\ next' = next + 1 /\ next' \in 1..(MaxVisits + 1)
      /\ current' \in [Key -> Visit \cup {NoVisit}]
      /\ \A j \in Key : current'[j] = IF j = k THEN next ELSE current[j]
  BY TrackIs DEF Appear, IInv
<1>4. TypeOK'
  BY <1>1, <1>3 DEF IInv, TypeOK
<1>5. Shape'
  BY <1>1, <1>2, Types DEF IInv, Shape, Handling, Closing
<1>6. OneKey'
  BY <1>1, <1>2, <1>3, Types DEF IInv, OneKey, Unused
<1>7. Unused'
  <2>1. \A j \in Key : current'[j] # NoVisit => current'[j] < next'
    BY <1>3, LiveIsUsed
  <2>2. \A v \in Visit : v >= next' => v >= next
    BY <1>3, Types DEF IInv, TypeOK
  <2>. QED  BY <1>1, <1>2, <2>1, <2>2 DEF IInv, Unused
<1>8. Untouched'
  BY <1>1, <1>2, <1>3, Types DEF IInv, Untouched, IsLive, Unused
<1>9. OneHolder' /\ Exclusive' /\ Counted'
  BY <1>1, FinalizersKept
<1>10. OpenAgrees'
  BY <1>1, <1>2, <1>3, Types DEF OpenAgrees, IsLive
<1>11. Durable' /\ Owned' /\ Covered'
  BY <1>1 DEF IInv, Durable, Owned, Covered
<1>. QED  BY <1>4, <1>5, <1>6, <1>7, <1>8, <1>9, <1>10, <1>11 DEF IInv

LEMMA ExtendKeeps ==
  ASSUME IInv, NEW k \in Key, Extend(k)
  PROVE  IInv'
<1>1. /\ Idle /\ armed /\ current[k] \in open /\ Persist(RunnerTable(open))
      /\ scratch' \in {scratch, scratch \cup {current[k]}}
      /\ UNCHANGED <<tmp, clip, published, current, next, pc, closing, opening, draining,
                     visits, todo, up, flag, armed, crashes, open, job>>
  BY DEF Extend, tracking, main, recovery, process
<1>2. /\ table' \in [Visit -> Entry] /\ faults' \in 0..MaxFaults
      /\ table' = RunnerTable(open) \/ table' = table
      /\ faults' = 0 => table' = RunnerTable(open) /\ faults = 0
  BY <1>1, PersistTyped, RunnerTableIs DEF IInv
<1>3. \A v \in Visit : RunnerTable(open)[v] = IF v \in open THEN 0 ELSE NoEntry
  BY RunnerTableIs
<1>4. current[k] \in Visit
  BY <1>1 DEF IInv, TypeOK
<1>5. TypeOK'
  BY <1>1, <1>2, <1>4 DEF IInv, TypeOK
<1>6. Shape' /\ OneKey'
  BY <1>1 DEF IInv, Shape, OneKey
<1>7. Unused'
  <2>1. \A v \in Visit : v >= next => v \notin open
    BY OpenIsUsed
  <2>. QED  BY <1>1, <1>2, <1>3, <2>1 DEF IInv, Unused
<1>8. Untouched'
  BY <1>1 DEF IInv, Untouched, IsLive
<1>9. OneHolder' /\ Exclusive' /\ Counted'
  BY <1>1, <1>4, FinalizersKept DEF IsLive
<1>10. OpenAgrees'
  BY <1>1 DEF IInv, OpenAgrees
<1>11. Durable'
  BY <1>1, <1>2, <1>3 DEF IInv, Durable, TypeOK
<1>12. Owned' /\ Covered'
  BY <1>1 DEF IInv, Owned, Covered, Idle
<1>. QED  BY <1>5, <1>6, <1>7, <1>8, <1>9, <1>10, <1>11, <1>12 DEF IInv

LEMMA SplitKeeps ==
  ASSUME IInv, NEW k \in Key, Split(k)
  PROVE  IInv'
<1>1. /\ Idle /\ armed /\ current[k] # NoVisit
      /\ closing' = current[k] /\ opening' = k /\ pc' = "copy"
      /\ UNCHANGED <<table, scratch, tmp, clip, published, visits, todo, up, flag, armed,
                     crashes, open, job, faults, draining>>
  BY DEF Split, files, recovery, process
<1>2. /\ up /\ pc = "idle" /\ closing = NoVisit /\ opening = NoKey /\ draining = "no"
      /\ \A v \in Visit : v \in open <=> IsLive(v)
  BY <1>1, NothingInHand
<1>3. /\ next \in Visit /\ next' = next + 1 /\ next' \in 1..(MaxVisits + 1)
      /\ current' \in [Key -> Visit \cup {NoVisit}]
      /\ \A j \in Key : current'[j] = IF j = k THEN next ELSE current[j]
  BY TrackIs DEF Split, IInv
<1>4. current[k] \in Visit /\ current[k] < next
  BY <1>1 DEF IInv, TypeOK, Unused
<1>5. TypeOK'
  BY <1>1, <1>3, <1>4 DEF IInv, TypeOK
<1>6. Shape'
  BY <1>1, <1>2, Types DEF IInv, Shape, Handling, Closing
<1>7. OneKey'
  BY <1>1, <1>3, <1>4, Types DEF IInv, OneKey, Unused
<1>8. Unused'
  <2>1. /\ \A j \in Key : current'[j] # NoVisit => current'[j] < next'
        /\ closing' < next'
    BY <1>1, <1>3, LiveIsUsed
  <2>2. \A v \in Visit : v >= next' => v >= next
    BY <1>3, Types DEF IInv, TypeOK
  <2>. QED  BY <1>1, <2>1, <2>2 DEF IInv, Unused
<1>9. Untouched'
  BY <1>1, <1>3, <1>4, Types DEF IInv, Untouched, IsLive, Unused
<1>10. OneHolder' /\ Exclusive' /\ Counted'
  BY <1>1, FinalizersKept
<1>11. OpenAgrees'
  BY <1>1, <1>2, <1>3, Types DEF IInv, OneKey, OpenAgrees, IsLive
<1>12. Durable' /\ Owned' /\ Covered'
  BY <1>1, <1>2, Types DEF IInv, Durable, Owned, Covered, TypeOK
<1>. QED  BY <1>5, <1>6, <1>7, <1>8, <1>9, <1>10, <1>11, <1>12 DEF IInv

\* A visit leaves its key to be closed: the grace ran out, or the next of a drain.
LEMMA TakenKeeps ==
  ASSUME IInv, NEW k \in Key, up, armed, pc \in {"idle", "drain"},
         current[k] # NoVisit,
         closing' = current[k], current' = [current EXCEPT ![k] = NoVisit], pc' = "copy",
         UNCHANGED <<files, recovery, process, open, job, faults, opening, draining, next>>
  PROVE  IInv'
<1>1. UNCHANGED <<table, scratch, tmp, clip, published, visits, todo, up, flag, armed,
                  crashes>>
  BY DEF files, recovery, process
<1>2. /\ current' \in [Key -> Visit \cup {NoVisit}]
      /\ \A j \in Key : current'[j] = IF j = k THEN NoVisit ELSE current[j]
      /\ current[k] \in Visit /\ current[k] < next
  BY DEF IInv, TypeOK, Unused
<1>3. opening = NoKey /\ closing = NoVisit
  BY DEF IInv, Shape, Closing
<1>4. TypeOK'
  BY <1>1, <1>2 DEF IInv, TypeOK
<1>5. Shape'
  BY <1>1, <1>2, <1>3, Types DEF IInv, Shape, Handling, Closing
<1>6. OneKey'
  BY <1>1, <1>2, <1>3, Types DEF IInv, OneKey
<1>7. Unused'
  BY <1>1, <1>2 DEF IInv, Unused
<1>8. Untouched'
  BY <1>1, <1>2, Types DEF IInv, Untouched, IsLive
<1>9. OneHolder' /\ Exclusive' /\ Counted'
  BY <1>1, FinalizersKept
<1>10. OpenAgrees'
  BY <1>1, <1>2, <1>3, Types DEF IInv, OneKey, OpenAgrees
<1>11. Durable' /\ Owned' /\ Covered'
  BY <1>1, <1>3, Types DEF IInv, Durable, Owned, Covered, TypeOK
<1>. QED  BY <1>4, <1>5, <1>6, <1>7, <1>8, <1>9, <1>10, <1>11 DEF IInv

\* A drain begins.
LEMMA DrainBegins ==
  ASSUME IInv, Idle, armed, draining' \in {"escalate", "disarm"}, pc' = "drain",
         UNCHANGED <<files, tracking, recovery, process, open, job, faults, closing, opening>>
  PROVE  IInv'
<1>1. UNCHANGED <<table, scratch, tmp, clip, published, current, next, visits, todo, up,
                  flag, armed, crashes>>
  BY DEF files, tracking, recovery, process
<1>2. up /\ pc = "idle" /\ closing = NoVisit /\ opening = NoKey
  BY NothingInHand
<1>3. TypeOK'
  BY <1>1 DEF IInv, TypeOK
<1>4. Shape'
  BY <1>1, <1>2 DEF IInv, Shape, Handling, Closing
<1>5. OneKey' /\ Unused' /\ Untouched'
  BY <1>1 DEF IInv, OneKey, Unused, Untouched, IsLive
<1>6. OneHolder' /\ Exclusive' /\ Counted'
  BY <1>1, FinalizersKept
<1>7. OpenAgrees' /\ Durable' /\ Owned' /\ Covered'
  BY <1>1, <1>2 DEF IInv, OpenAgrees, Durable, Owned, Covered
<1>. QED  BY <1>3, <1>4, <1>5, <1>6, <1>7 DEF IInv

LEMMA CopyKeeps ==
  ASSUME IInv, CopyFootage
  PROVE  IInv'
<1>1. /\ up /\ pc = "copy" /\ pc' = "pop" /\ scratch' \in {scratch, scratch \cup {closing}}
      /\ UNCHANGED <<table, tmp, clip, published, current, next, visits, todo, up, flag,
                     armed, crashes, open, job, faults, closing, opening, draining>>
  BY DEF CopyFootage, tracking, recovery, process
<1>2. closing \in Visit
  BY <1>1 DEF IInv, TypeOK, Shape, Closing
<1>3. TypeOK'
  BY <1>1, <1>2 DEF IInv, TypeOK
<1>4. Shape'
  BY <1>1 DEF IInv, Shape, Handling, Closing
<1>5. OneKey' /\ Unused' /\ Untouched'
  BY <1>1 DEF IInv, OneKey, Unused, Untouched, IsLive
<1>6. OneHolder' /\ Exclusive' /\ Counted'
  BY <1>1, <1>2, FinalizersKept
<1>7. OpenAgrees' /\ Durable' /\ Owned' /\ Covered'
  BY <1>1 DEF IInv, OpenAgrees, Durable, Owned, Covered
<1>. QED  BY <1>3, <1>4, <1>5, <1>6, <1>7 DEF IInv

\* The visit leaves the runner, whether or not its table is written at once.
LEMMA PopKeeps ==
  ASSUME IInv, PopVisit \/ DropVisit
  PROVE  IInv'
<1>1. /\ up /\ pc = "pop" /\ pc' = "spawn" /\ open' = open \ {closing}
      /\ UNCHANGED <<scratch, tmp, clip, published, current, next, visits, todo, up, flag,
                     armed, crashes, job, closing, opening, draining>>
  BY DEF PopVisit, DropVisit, files, tracking, recovery, process
<1>2. \/ Persist(RunnerTable(open'))
      \/ table' = table /\ faults' = faults
  BY DEF PopVisit, DropVisit, files
<1>3. /\ table' \in [Visit -> Entry] /\ faults' \in 0..MaxFaults
      /\ table' = RunnerTable(open') \/ table' = table
      /\ faults' = 0 => faults = 0 /\ (table' = RunnerTable(open') \/ table' = table)
  BY <1>2, PersistTyped, RunnerTableIs DEF IInv, TypeOK
<1>4. \A v \in Visit : RunnerTable(open')[v] = IF v \in open' THEN 0 ELSE NoEntry
  BY RunnerTableIs
<1>5. closing \in Visit
  BY <1>1 DEF IInv, TypeOK, Shape, Closing
<1>6. TypeOK'
  BY <1>1, <1>3 DEF IInv, TypeOK
<1>7. Shape'
  BY <1>1 DEF IInv, Shape, Handling, Closing
<1>8. OneKey' /\ Untouched'
  BY <1>1 DEF IInv, OneKey, Untouched, IsLive
<1>9. Unused'
  <2>1. \A v \in Visit : v >= next => v \notin open'
    BY <1>1, OpenIsUsed
  <2>. QED  BY <1>1, <1>3, <1>4, <2>1 DEF IInv, Unused
<1>10. OneHolder' /\ Exclusive' /\ Counted'
  BY <1>1, FinalizersKept
<1>11. OpenAgrees'
  BY <1>1, <1>5, Types DEF IInv, OneKey, OpenAgrees
<1>12. Durable'
  BY <1>1, <1>3, <1>4 DEF IInv, Durable, TypeOK
<1>13. Owned' /\ Covered'
  BY <1>1 DEF IInv, Owned, Covered
<1>. QED  BY <1>6, <1>7, <1>8, <1>9, <1>10, <1>11, <1>12, <1>13 DEF IInv

\* The thread that owns the footage from here on.
LEMMA SpawnKeeps ==
  ASSUME IInv, SpawnFinalize
  PROVE  IInv'
<1>1. /\ up /\ pc = "spawn" /\ closing' = NoVisit
      /\ pc' = IF draining # "no" THEN "drain" ELSE IF opening # NoKey THEN "open" ELSE "idle"
      /\ UNCHANGED <<table, scratch, tmp, clip, published, current, next, visits, todo, up,
                     flag, armed, crashes, open, faults, opening, draining>>
  BY DEF SpawnFinalize, files, tracking, recovery, process
<1>2. /\ closing \in Visit /\ closing \notin clip /\ closing < next
      /\ ~IsLive(closing) /\ \A c \in Caller : job[c][closing] = "none"
  BY <1>1, Types DEF IInv, TypeOK, Shape, Closing, Untouched, OneKey, Unused, IsLive
<1>3. /\ job' \in [Caller -> [Visit -> Phase]]
      /\ \A c \in Caller, v \in Visit :
           job'[c][v] = IF c = "thread" /\ v = closing THEN "wait" ELSE job[c][v]
  BY <1>2 DEF SpawnFinalize, IInv, TypeOK, Caller, Phase
<1>4. TypeOK'
  BY <1>1, <1>3 DEF IInv, TypeOK
<1>5. Shape'
  <2>1. /\ armed /\ (opening # NoKey => draining = "no")
        /\ \A v \in Visit : job'["main"][v] = "none"
    BY <1>1, <1>3 DEF IInv, Shape, Handling, Caller
  <2>2. pc' \in {"drain", "open", "idle"} /\ (pc' = "drain" <=> draining # "no")
        /\ (pc' = "open" <=> opening # NoKey)
    BY <1>1, <2>1
  <2>. QED  BY <1>1, <2>1, <2>2 DEF Shape, Closing
<1>6. OneKey'
  BY <1>1 DEF IInv, OneKey, Shape, Handling
<1>7. Unused'
  <2>1. ~(closing >= next)
    BY <1>2, Types DEF IInv, TypeOK
  <2>. QED  BY <1>1, <1>3, <2>1 DEF IInv, Unused
<1>8. Untouched'
  BY <1>1, <1>2, <1>3, Types DEF IInv, Untouched, IsLive
<1>9. OneHolder'
  BY <1>3 DEF IInv, OneHolder, Holding
<1>10. Exclusive'
  BY <1>1, <1>2, <1>3 DEF IInv, Exclusive
<1>11. Counted' /\ Durable'
  BY <1>1 DEF IInv, Counted, Durable
<1>12. OpenAgrees'
  BY <1>1 DEF IInv, OpenAgrees
<1>13. Owned'
  BY <1>1, <1>3 DEF IInv, Owned, TypeOK, Caller
<1>14. Covered'
  BY <1>1 DEF Covered
<1>. QED  BY <1>4, <1>5, <1>6, <1>7, <1>8, <1>9, <1>10, <1>11, <1>12, <1>13, <1>14 DEF IInv

\* Below the floor the tracker forgets the key, and the runner never knew of it.
LEMMA RefuseKeeps ==
  ASSUME IInv, RefuseOpen
  PROVE  IInv'
<1>1. /\ up /\ pc = "open" /\ opening' = NoKey /\ pc' = "idle"
      /\ current' = [current EXCEPT ![opening] = NoVisit]
      /\ UNCHANGED <<table, scratch, tmp, clip, published, visits, todo, up, flag, armed,
                     crashes, open, job, faults, closing, draining, next>>
  BY DEF RefuseOpen, files, recovery, process
<1>2. /\ opening \in Key /\ closing = NoVisit
      /\ current' \in [Key -> Visit \cup {NoVisit}]
      /\ \A k \in Key : current'[k] = IF k = opening THEN NoVisit ELSE current[k]
  BY <1>1 DEF IInv, TypeOK, Shape, Closing
<1>3. TypeOK'
  BY <1>1, <1>2 DEF IInv, TypeOK
<1>4. Shape'
  BY <1>1, <1>2 DEF IInv, Shape, Handling, Closing
<1>5. OneKey' /\ Unused'
  BY <1>1, <1>2 DEF IInv, OneKey, Unused
<1>6. Untouched'
  BY <1>1, <1>2, Types DEF IInv, Untouched, IsLive
<1>7. OneHolder' /\ Exclusive' /\ Counted'
  BY <1>1, FinalizersKept
<1>8. OpenAgrees'
  BY <1>1, <1>2, Types DEF IInv, OpenAgrees
<1>9. Durable' /\ Owned' /\ Covered'
  BY <1>1 DEF IInv, Durable, Owned, Covered
<1>. QED  BY <1>3, <1>4, <1>5, <1>6, <1>7, <1>8, <1>9 DEF IInv

LEMMA RecordKeeps ==
  ASSUME IInv, RecordOpen
  PROVE  IInv'
<1>1. /\ up /\ pc = "open" /\ opening' = NoKey /\ pc' = "idle"
      /\ open' = open \cup {current[opening]} /\ Persist(RunnerTable(open'))
      /\ UNCHANGED <<scratch, tmp, clip, published, current, next, visits, todo, up, flag,
                     armed, crashes, job, closing, draining>>
  BY DEF RecordOpen, tracking, recovery, process
<1>2. /\ opening \in Key /\ closing = NoVisit /\ current[opening] \in Visit
  BY <1>1 DEF IInv, TypeOK, Shape, Closing, OneKey
<1>3. /\ table' \in [Visit -> Entry] /\ faults' \in 0..MaxFaults
      /\ table' = RunnerTable(open') \/ table' = table
      /\ faults' = 0 => table' = RunnerTable(open')
  BY <1>1, PersistTyped, RunnerTableIs DEF IInv
<1>4. \A v \in Visit : RunnerTable(open')[v] = IF v \in open' THEN 0 ELSE NoEntry
  BY RunnerTableIs
<1>5. TypeOK'
  BY <1>1, <1>2, <1>3 DEF IInv, TypeOK
<1>6. Shape'
  BY <1>1, <1>2 DEF IInv, Shape, Handling, Closing
<1>7. OneKey' /\ Untouched'
  BY <1>1 DEF IInv, OneKey, Untouched, IsLive
<1>8. Unused'
  <2>1. ~(current[opening] >= next)
    BY <1>2, LiveIsUsed, Types
  <2>2. \A v \in Visit : v >= next => v \notin open'
    BY <1>1, <2>1, OpenIsUsed
  <2>. QED  BY <1>1, <1>3, <1>4, <2>2 DEF IInv, Unused
<1>9. OneHolder' /\ Exclusive' /\ Counted'
  BY <1>1, FinalizersKept
<1>10. OpenAgrees'
  BY <1>1, <1>2, Types DEF IInv, OpenAgrees
<1>11. Durable'
  BY <1>3, <1>4, <1>5 DEF Durable, TypeOK
<1>12. Owned' /\ Covered'
  BY <1>1 DEF IInv, Owned, Covered
<1>. QED  BY <1>5, <1>6, <1>7, <1>8, <1>9, <1>10, <1>11, <1>12 DEF IInv

\* No visit is left: the drain comes to its end.
LEMMA DrainedKeeps ==
  ASSUME IInv, up, pc = "drain", LiveVisits = {}, pc' = "persist",
         UNCHANGED <<files, tracking, recovery, process, open, job, faults, closing, opening,
                     draining>>
  PROVE  IInv'
<1>1. UNCHANGED <<table, scratch, tmp, clip, published, current, next, visits, todo, up,
                  flag, armed, crashes>>
  BY DEF files, tracking, recovery, process
<1>2. \A k \in Key : current[k] = NoVisit
  BY DEF LiveVisits
<1>3. TypeOK'
  BY <1>1 DEF IInv, TypeOK
<1>4. Shape'
  BY <1>1 DEF IInv, Shape, Handling, Closing
<1>5. OneKey' /\ Unused' /\ Untouched'
  BY <1>1, <1>2 DEF IInv, OneKey, Unused, Untouched, IsLive
<1>6. OneHolder' /\ Exclusive' /\ Counted'
  BY <1>1, FinalizersKept
<1>7. OpenAgrees' /\ Durable' /\ Owned' /\ Covered'
  BY <1>1 DEF IInv, OpenAgrees, Durable, Owned, Covered
<1>. QED  BY <1>3, <1>4, <1>5, <1>6, <1>7 DEF IInv

LEMMA EndDrainKeeps ==
  ASSUME IInv, EndDrain
  PROVE  IInv'
<1>1. /\ up /\ pc = "persist" /\ Persist(RunnerTable(open))
      /\ armed' = (draining # "disarm") /\ draining' = "no" /\ pc' = "idle"
      /\ UNCHANGED <<scratch, tmp, clip, published, current, next, visits, todo, open, job,
                     closing, opening, up, flag, crashes>>
  BY DEF EndDrain, tracking, recovery
<1>2. /\ armed /\ closing = NoVisit /\ opening = NoKey
      /\ \A k \in Key : current[k] = NoVisit
  BY <1>1 DEF IInv, Shape, Handling, Closing, OneKey
<1>3. /\ table' \in [Visit -> Entry] /\ faults' \in 0..MaxFaults
      /\ table' = RunnerTable(open) \/ table' = table
      /\ faults' = 0 => table' = RunnerTable(open)
  BY <1>1, PersistTyped, RunnerTableIs DEF IInv
<1>4. \A v \in Visit : RunnerTable(open)[v] = IF v \in open THEN 0 ELSE NoEntry
  BY RunnerTableIs
<1>5. TypeOK'
  BY <1>1, <1>3 DEF IInv, TypeOK
<1>6. Shape'
  BY <1>1, <1>2 DEF IInv, Shape, Handling, Closing
<1>7. OneKey' /\ Untouched'
  BY <1>1, <1>2 DEF IInv, OneKey, Untouched, IsLive
<1>8. Unused'
  <2>1. \A v \in Visit : v >= next => v \notin open
    BY OpenIsUsed
  <2>. QED  BY <1>1, <1>3, <1>4, <2>1 DEF IInv, Unused
<1>9. OneHolder' /\ Exclusive' /\ Counted'
  BY <1>1, FinalizersKept
<1>10. OpenAgrees'
  BY <1>1, <1>2 DEF IInv, OpenAgrees
<1>11. Durable'
  BY <1>1, <1>3, <1>4 DEF Durable, IInv, TypeOK
<1>12. Owned' /\ Covered'
  BY <1>1, <1>2 DEF IInv, Owned, Covered
<1>. QED  BY <1>5, <1>6, <1>7, <1>8, <1>9, <1>10, <1>11, <1>12 DEF IInv

-----------------------------------------------------------------------------
(* Recovery *)

\* While no runner is armed, the tracker and the runner hold nothing.
LEMMA NothingOpen ==
  ASSUME IInv, ~armed
  PROVE  /\ closing = NoVisit /\ opening = NoKey /\ draining = "no"
         /\ pc \in {"idle", "recover"}
         /\ \A k \in Key : current[k] = NoVisit
         /\ \A v \in Visit : v \notin open /\ ~IsLive(v)
<1>1. pc \notin Handling /\ \A k \in Key : current[k] = NoVisit
  BY DEF IInv, Shape, OneKey
<1>2. pc \in {"idle", "recover"} /\ closing = NoVisit /\ opening = NoKey /\ draining = "no"
  BY <1>1 DEF IInv, TypeOK, Shape, Handling, Closing
<1>. QED  BY <1>1, <1>2, Types DEF IInv, OpenAgrees, IsLive

LEMMA ArmKeeps ==
  ASSUME IInv, Arm
  PROVE  IInv'
<1>1. /\ up /\ pc = "idle" /\ ~armed /\ open' = {} /\ pc' = "recover"
      /\ visits' = table /\ todo' = Unresolved(table)
      /\ UNCHANGED <<table, scratch, tmp, clip, published, current, next, up, flag, armed,
                     crashes, job, faults, closing, opening, draining>>
  BY DEF Arm, Idle, files, tracking, process
<1>2. /\ closing = NoVisit /\ opening = NoKey /\ draining = "no"
      /\ \A k \in Key : current[k] = NoVisit
  BY <1>1, NothingOpen
<1>3. TypeOK'
  BY <1>1 DEF IInv, TypeOK, Unresolved
<1>4. Shape'
  BY <1>1, <1>2 DEF IInv, Shape, Handling, Closing
<1>5. OneKey' /\ Untouched'
  BY <1>1, <1>2 DEF IInv, OneKey, Untouched, IsLive
<1>6. Unused'
  BY <1>1 DEF IInv, Unused, Unresolved
<1>7. OneHolder' /\ Exclusive' /\ Counted'
  BY <1>1, FinalizersKept
<1>8. OpenAgrees'
  BY <1>1, <1>2, Types DEF OpenAgrees
<1>9. Durable' /\ Owned'
  BY <1>1 DEF Durable, Owned
<1>10. Covered'
  BY <1>1 DEF IInv, Covered, Unresolved, TypeOK
<1>. QED  BY <1>3, <1>4, <1>5, <1>6, <1>7, <1>8, <1>9, <1>10 DEF IInv

\* Between two entries, recovery has no finalize call.
LEMMA NothingRecovering ==
  ASSUME IInv, pc = "recover"
  PROVE  /\ ~armed /\ closing = NoVisit /\ opening = NoKey /\ draining = "no"
         /\ \A k \in Key : current[k] = NoVisit
         /\ \A v \in Visit : v \notin open /\ ~IsLive(v) /\ v # closing
  BY NothingOpen, Types DEF IInv, Shape

\* Recovery's entry of v moves to n, and the whole table is written.
LEMMA EntryKeeps ==
  ASSUME IInv, pc = "recover", NEW v \in Visit, v < next, NEW n \in Entry,
         visits' = [visits EXCEPT ![v] = n], Persist(visits') \/ UNCHANGED <<table, faults>>,
         todo' \subseteq todo,
         UNCHANGED <<current, next, closing, opening, open>>
  PROVE  /\ visits' \in [Visit -> Entry] /\ table' \in [Visit -> Entry]
         /\ faults' \in 0..MaxFaults
         /\ \A w \in Visit : visits'[w] = IF w = v THEN n ELSE visits[w]
         /\ \A w \in Visit : table'[w] = visits'[w] \/ table'[w] = table[w]
         /\ \A w \in Visit : w >= next' =>
              w \notin todo' /\ table'[w] = NoEntry /\ visits'[w] = NoEntry
         /\ Durable'
<1>1. /\ visits' \in [Visit -> Entry]
      /\ \A w \in Visit : visits'[w] = IF w = v THEN n ELSE visits[w]
  BY DEF IInv, TypeOK
<1>2. /\ table' = visits' \/ table' = table
      /\ table' \in [Visit -> Entry] /\ faults' \in 0..MaxFaults
  BY <1>1, PersistTyped DEF IInv, TypeOK
<1>3. ~(v >= next)
  BY Types DEF IInv, TypeOK
<1>4. \A w \in Visit : w >= next' =>
        w \notin todo' /\ table'[w] = NoEntry /\ visits'[w] = NoEntry
  BY <1>1, <1>2, <1>3 DEF IInv, Unused
<1>5. Durable'
  BY NothingRecovering DEF Durable, IInv, TypeOK
<1>. QED  BY <1>1, <1>2, <1>4, <1>5

LEMMA SkipKeeps ==
  ASSUME IInv, NEW v \in Visit, RecoverSkip(v)
  PROVE  IInv'
<1>1. /\ up /\ pc = "recover" /\ v \in todo /\ v \in clip
      /\ visits' = [visits EXCEPT ![v] = NoEntry] /\ todo' = todo \ {v} /\ Persist(visits')
      /\ UNCHANGED <<scratch, tmp, clip, published, current, next, pc, closing, opening,
                     draining, up, flag, armed, crashes, open, job>>
  BY DEF RecoverSkip, Between, tracking, main, process
<1>2. v < next
  BY <1>1, Types DEF IInv, Unused, TypeOK
<1>3. /\ visits' \in [Visit -> Entry] /\ table' \in [Visit -> Entry]
      /\ faults' \in 0..MaxFaults
      /\ \A w \in Visit : visits'[w] = IF w = v THEN NoEntry ELSE visits[w]
      /\ \A w \in Visit : table'[w] = visits'[w] \/ table'[w] = table[w]
      /\ \A w \in Visit : w >= next' =>
           w \notin todo' /\ table'[w] = NoEntry /\ visits'[w] = NoEntry
      /\ Durable'
  BY <1>1, <1>2, EntryKeeps, Types
<1>4. TypeOK'
  BY <1>1, <1>3 DEF IInv, TypeOK
<1>5. Shape' /\ OneKey' /\ Untouched' /\ OpenAgrees'
  BY <1>1 DEF IInv, Shape, OneKey, Untouched, OpenAgrees, IsLive
<1>6. Unused'
  BY <1>1, <1>3 DEF IInv, Unused
<1>7. OneHolder' /\ Exclusive' /\ Counted'
  BY <1>1, FinalizersKept
<1>8. Owned'
  BY <1>1 DEF IInv, Owned
<1>9. Covered'
  BY <1>1, <1>3 DEF IInv, Covered, TypeOK
<1>. QED  BY <1>3, <1>4, <1>5, <1>6, <1>7, <1>8, <1>9 DEF IInv

\* The look at the clip is what keeps a second rename away.
LEMMA StartKeeps ==
  ASSUME IInv, NEW v \in Visit, RecoverStart(v)
  PROVE  IInv'
<1>1. /\ up /\ pc = "recover" /\ v \in todo /\ v \notin clip
      /\ visits' = [visits EXCEPT ![v] = @ + 1] /\ todo' = todo \ {v} /\ Persist(visits')
      /\ job["main"][v] = "none" /\ job' = [job EXCEPT !["main"][v] = "wait"]
      /\ UNCHANGED <<scratch, tmp, clip, published, current, next, pc, closing, opening,
                     draining, up, flag, armed, crashes, open>>
  BY DEF RecoverStart, Between, tracking, main, process
<1>2. v < next
  BY <1>1, Types DEF IInv, Unused, TypeOK
<1>3. visits[v] + 1 \in Entry
  BY Types DEF IInv, TypeOK
<1>4. /\ visits' \in [Visit -> Entry] /\ table' \in [Visit -> Entry]
      /\ faults' \in 0..MaxFaults
      /\ \A w \in Visit : visits'[w] = IF w = v THEN visits[v] + 1 ELSE visits[w]
      /\ \A w \in Visit : table'[w] = visits'[w] \/ table'[w] = table[w]
      /\ \A w \in Visit : w >= next' =>
           w \notin todo' /\ table'[w] = NoEntry /\ visits'[w] = NoEntry
      /\ Durable'
  BY <1>1, <1>2, <1>3, EntryKeeps
<1>5. /\ job' \in [Caller -> [Visit -> Phase]]
      /\ \A c \in Caller, w \in Visit :
           job'[c][w] = IF c = "main" /\ w = v THEN "wait" ELSE job[c][w]
  BY <1>1 DEF IInv, TypeOK, Caller, Phase
<1>6. /\ ~armed /\ \A w \in Visit : ~IsLive(w) /\ w # closing
  BY <1>1, NothingRecovering
<1>7. TypeOK'
  BY <1>1, <1>4, <1>5 DEF IInv, TypeOK
<1>8. Shape'
  BY <1>1, <1>5 DEF IInv, Shape
<1>9. OneKey' /\ OpenAgrees'
  BY <1>1 DEF IInv, OneKey, OpenAgrees
<1>10. Unused'
  <2>1. ~(v >= next)
    BY <1>2, Types DEF IInv, TypeOK
  <2>. QED  BY <1>1, <1>4, <1>5, <2>1 DEF IInv, Unused
<1>11. Untouched'
  BY <1>1, <1>6 DEF Untouched, IsLive
<1>12. OneHolder'
  BY <1>5 DEF IInv, OneHolder, Holding
<1>13. Exclusive'
  BY <1>1, <1>5 DEF IInv, Exclusive
<1>14. Counted' /\ Owned'
  BY <1>1, <1>6 DEF IInv, Counted, Owned
<1>15. Covered'
  BY <1>1, <1>4, <1>5 DEF IInv, Covered, TypeOK, Caller
<1>. QED  BY <1>4, <1>7, <1>8, <1>9, <1>10, <1>11, <1>12, <1>13, <1>14, <1>15 DEF IInv

LEMMA EndKeeps ==
  ASSUME IInv, NEW v \in Visit, RecoverEnd(v)
  PROVE  IInv'
<1>1. /\ up /\ job["main"][v] \in {"ok", "failed"} /\ todo' = todo
      /\ job' = [job EXCEPT !["main"][v] = "none"]
      /\ \/ visits' = [visits EXCEPT ![v] = NoEntry] /\ Persist(visits')
         \/ visits' = visits /\ table' = table /\ faults' = faults
      /\ UNCHANGED <<scratch, tmp, clip, published, current, next, pc, closing, opening,
                     draining, up, flag, armed, crashes, open>>
  BY DEF RecoverEnd, tracking, main, process
<1>2. pc = "recover"
  BY <1>1 DEF IInv, Shape
<1>3. v < next
  BY <1>1, Types DEF IInv, Unused, TypeOK, Caller
<1>4. /\ visits' \in [Visit -> Entry] /\ table' \in [Visit -> Entry]
      /\ faults' \in 0..MaxFaults
      /\ \A w \in Visit : visits'[w] = visits[w] \/ visits'[w] = NoEntry
      /\ \A w \in Visit : table'[w] = visits'[w] \/ table'[w] = table[w]
      /\ \A w \in Visit : w >= next' =>
           w \notin todo' /\ table'[w] = NoEntry /\ visits'[w] = NoEntry
      /\ Durable'
  <2>1. CASE visits' = [visits EXCEPT ![v] = NoEntry] /\ Persist(visits')
    BY <1>1, <1>2, <1>3, <2>1, EntryKeeps, Types
  <2>2. CASE visits' = visits /\ table' = table /\ faults' = faults
    BY <1>1, <2>2 DEF IInv, TypeOK, Unused, Durable
  <2>. QED  BY <1>1, <2>1, <2>2
<1>5. /\ job' \in [Caller -> [Visit -> Phase]]
      /\ \A c \in Caller, w \in Visit :
           job'[c][w] = IF c = "main" /\ w = v THEN "none" ELSE job[c][w]
  BY <1>1 DEF IInv, TypeOK, Caller, Phase
<1>6. /\ ~armed /\ \A w \in Visit : ~IsLive(w) /\ w # closing
  BY <1>2, NothingRecovering
<1>7. TypeOK'
  BY <1>1, <1>4, <1>5 DEF IInv, TypeOK
<1>8. Shape'
  BY <1>1, <1>5 DEF IInv, Shape
<1>9. OneKey' /\ OpenAgrees'
  BY <1>1 DEF IInv, OneKey, OpenAgrees
<1>10. Unused'
  BY <1>1, <1>4, <1>5 DEF IInv, Unused
<1>11. Untouched'
  BY <1>1, <1>6 DEF Untouched, IsLive
<1>12. OneHolder'
  BY <1>5 DEF IInv, OneHolder, Holding
<1>13. Exclusive'
  BY <1>1, <1>5 DEF IInv, Exclusive
<1>14. Counted' /\ Owned'
  BY <1>1, <1>6 DEF IInv, Counted, Owned
<1>15. Covered'
  BY <1>1, <1>2, <1>4, <1>5 DEF IInv, Covered, TypeOK, Caller, Holding
<1>. QED  BY <1>4, <1>7, <1>8, <1>9, <1>10, <1>11, <1>12, <1>13, <1>14, <1>15 DEF IInv

\* What the sweep leaves is in a clip: every entry of the table was looked at.
LEMMA SweepKeeps ==
  ASSUME IInv, Sweep
  PROVE  IInv'
<1>1. /\ up /\ pc = "recover" /\ todo = {} /\ \A v \in Visit : job["main"][v] = "none"
      /\ scratch' = scratch \cap Unresolved(table) /\ tmp' = {}
      /\ armed' = TRUE /\ pc' = "idle" /\ visits' = EmptyTable
      /\ UNCHANGED <<table, clip, published, current, next, open, job, faults, todo,
                     closing, opening, draining, up, flag, crashes>>
  BY DEF Sweep, Between, tracking
<1>2. /\ closing = NoVisit /\ opening = NoKey /\ draining = "no"
      /\ \A k \in Key : current[k] = NoVisit
  BY <1>1, NothingRecovering
<1>3. TypeOK'
  BY <1>1, Types DEF IInv, TypeOK
<1>4. Shape'
  BY <1>1, <1>2 DEF IInv, Shape, Handling, Closing
<1>5. OneKey' /\ Untouched'
  BY <1>1, <1>2 DEF IInv, OneKey, Untouched, IsLive
<1>6. Unused'
  BY <1>1, Types DEF IInv, Unused
<1>7. OneHolder' /\ Exclusive' /\ Counted'
  BY <1>1, FinalizersKept
<1>8. OpenAgrees' /\ Durable' /\ Covered'
  BY <1>1, <1>2 DEF IInv, OpenAgrees, Durable, Covered
<1>9. Owned'
  BY <1>1 DEF IInv, Owned, Covered, Unresolved, Holding
<1>. QED  BY <1>3, <1>4, <1>5, <1>6, <1>7, <1>8, <1>9 DEF IInv

-----------------------------------------------------------------------------
(* The environment *)

LEMMA CrashKeeps ==
  ASSUME IInv, Crash
  PROVE  IInv'
<1>1. /\ up' = FALSE /\ armed' = FALSE /\ crashes < MaxCrashes /\ crashes' = crashes + 1
      /\ current' = [k \in Key |-> NoVisit] /\ open' = {}
      /\ pc' = "idle" /\ closing' = NoVisit /\ opening' = NoKey /\ draining' = "no"
      /\ visits' = EmptyTable /\ todo' = {} /\ job' = NoJobs
      /\ UNCHANGED <<table, scratch, tmp, clip, published, flag, next, faults>>
  BY DEF Crash, files
<1>2. TypeOK'
  <2>1. crashes' \in 0..MaxCrashes
    BY <1>1, CaptureAssumption DEF IInv, TypeOK
  <2>2. current' \in [Key -> Visit \cup {NoVisit}]
    BY <1>1
  <2>. QED  BY <1>1, <2>1, <2>2, Types DEF IInv, TypeOK
<1>3. Shape'
  BY <1>1, Types DEF Shape, Handling, Closing, Caller
<1>4. OneKey' /\ OpenAgrees'
  BY <1>1, Types DEF OneKey, OpenAgrees
<1>5. Unused' /\ Untouched'
  BY <1>1, Types DEF IInv, Unused, Untouched, IsLive
<1>6. OneHolder' /\ Exclusive' /\ Counted'
  BY <1>1, Types DEF IInv, OneHolder, Exclusive, Counted, Holding
<1>7. Durable' /\ Owned' /\ Covered'
  BY <1>1 DEF Durable, Owned, Covered
<1>. QED  BY <1>2, <1>3, <1>4, <1>5, <1>6, <1>7 DEF IInv

\* The flag moves, or the worker comes up again: nothing it remembers changes.
LEMMA UnmovedKeeps ==
  ASSUME IInv, up' \in BOOLEAN, up => up', flag' \in FlagValues,
         UNCHANGED <<files, tracking, main, recovery, open, job, faults, armed, crashes>>
  PROVE  IInv'
<1>1. UNCHANGED <<table, scratch, tmp, clip, published, current, next, pc, closing, opening,
                  draining, visits, todo, open, job, faults, armed, crashes>>
  BY DEF files, tracking, main, recovery
<1>2. TypeOK'
  BY <1>1 DEF IInv, TypeOK
<1>3. Shape'
  BY <1>1 DEF IInv, Shape, TypeOK
<1>4. OneKey' /\ Unused' /\ Untouched' /\ OpenAgrees'
  BY <1>1 DEF IInv, OneKey, Unused, Untouched, OpenAgrees, IsLive
<1>5. OneHolder' /\ Exclusive' /\ Counted'
  BY <1>1, FinalizersKept
<1>6. Durable' /\ Owned' /\ Covered'
  BY <1>1 DEF IInv, Durable, Owned, Covered
<1>. QED  BY <1>2, <1>3, <1>4, <1>5, <1>6 DEF IInv

\* One step of anybody.
LEMMA NextKeeps ==
  ASSUME IInv, [Next]_vars
  PROVE  IInv'
<1>1. ASSUME NEW k \in Key, Appear(k) \/ Extend(k) \/ Split(k)
      PROVE  IInv'
  BY <1>1, AppearKeeps, ExtendKeeps, SplitKeeps
<1>2. ASSUME NEW k \in Key, Expire(k)
      PROVE  IInv'
  BY <1>2, TakenKeeps DEF Expire, Idle
<1>3. CASE Escalate
  BY <1>3, DrainBegins DEF Escalate
<1>4. CASE Disarm
  BY <1>4, DrainBegins DEF Disarm
<1>5. CASE Arm
  BY <1>5, ArmKeeps
<1>6. CASE CopyFootage \/ PopVisit \/ DropVisit \/ SpawnFinalize
  BY <1>6, CopyKeeps, PopKeeps, SpawnKeeps
<1>7. CASE RefuseOpen \/ RecordOpen \/ EndDrain
  BY <1>7, RefuseKeeps, RecordKeeps, EndDrainKeeps
<1>8. CASE DrainNext
  <2>1. CASE LiveVisits = {} /\ pc' = "persist" /\ UNCHANGED <<current, closing>>
    BY <1>8, <2>1, DrainedKeeps DEF DrainNext, tracking
  <2>2. ASSUME NEW k \in Key, current[k] # NoVisit, closing' = current[k], pc' = "copy",
               current' = [current EXCEPT ![k] = NoVisit]
        PROVE  IInv'
    BY <1>8, <2>2, TakenKeeps DEF DrainNext, IInv, Shape, Handling
  <2>. QED  BY <1>8, <2>1, <2>2 DEF DrainNext
<1>9. ASSUME NEW v \in Visit, RecoverSkip(v) \/ RecoverStart(v) \/ RecoverEnd(v)
      PROVE  IInv'
  BY <1>9, SkipKeeps, StartKeeps, EndKeeps
<1>10. CASE Sweep
  BY <1>10, SweepKeeps
<1>11. ASSUME NEW c \in Caller, NEW v \in Visit, Finalize(c, v)
       PROVE  IInv'
  BY <1>11, FinalizeKeeps
<1>12. CASE MoveFlag
  BY <1>12, UnmovedKeeps DEF MoveFlag, IInv, TypeOK
<1>13. CASE Crash
  BY <1>13, CrashKeeps
<1>14. CASE Restart
  BY <1>14, UnmovedKeeps DEF Restart, IInv, TypeOK
<1>15. CASE UNCHANGED vars
  BY <1>15, UnmovedKeeps DEF vars, process, IInv, TypeOK
<1>. QED
  BY <1>1, <1>2, <1>3, <1>4, <1>5, <1>6, <1>7, <1>8, <1>9, <1>10, <1>11, <1>12, <1>13,
     <1>14, <1>15
  DEF Next, MainStep, Effect, Recover, Leave, Caller

-----------------------------------------------------------------------------
(* The theorems *)

\* In every reachable state the tracker, the runner, the files and the finalize calls fit
\* together as IInv says.
THEOREM CaptureIsSound == Spec => []IInv
<1>. QED  BY InitHolds, NextKeeps, PTL DEF Spec

\* Every variable of the pipeline stays in its set (VisitRunner, ClipRecorder, the table).
THEOREM TypeCorrect == Spec => []TypeOK
<1>1. IInv => TypeOK
  BY DEF IInv
<1>. QED  BY <1>1, CaptureIsSound, PTL

\* A clip is renamed into place at most once (finalize_visit), whatever the crash points, the
\* failed writes of the table and the races of a finalize thread with recovery.
THEOREM PublishedAtMostOnce == Spec => []AtMostOnePublish
<1>1. IInv => AtMostOnePublish
  BY DEF IInv, Counted, AtMostOnePublish
<1>. QED  BY <1>1, CaptureIsSound, PTL

\* Between two handlers the runner and the tracker agree on what is open (VisitRunner._open
\* and VisitTracker._visits).
THEOREM RunnerFollowsTracker == Spec => []TrackerRunnerAgree
<1>1. ASSUME IInv  PROVE TrackerRunnerAgree
  <2> SUFFICES ASSUME Idle  PROVE open = LiveVisits
    BY DEF TrackerRunnerAgree
  <2>1. \A v \in Visit : v \in open <=> IsLive(v)
    BY <1>1, NothingInHand
  <2>2. open \subseteq Visit /\ LiveVisits \subseteq Visit
    BY <1>1 DEF IInv, TypeOK, LiveVisits
  <2>3. \A v \in Visit : IsLive(v) <=> v \in LiveVisits
    BY Types DEF IsLive, LiveVisits
  <2>. QED  BY <2>1, <2>2, <2>3
<1>. QED  BY <1>1, CaptureIsSound, PTL

\* While no write failed, a death between two handlers loses no open visit
\* (write_open_visits).
THEOREM OpenVisitsSurvive == Spec => []OpenVisitDurable
<1>1. IInv => OpenVisitDurable
  BY DEF IInv, Durable, OpenVisitDurable
<1>. QED  BY <1>1, CaptureIsSound, PTL

\* Footage that is in no clip has somebody responsible for it once the worker is armed
\* (recovery, the sweep and the handlers).
THEOREM FootageIsOwned == Spec => []ScratchHasOwner
<1>1. ASSUME IInv  PROVE ScratchHasOwner
  BY <1>1, NothingInHand, Types DEF IInv, Owned, ScratchHasOwner, TypeOK
<1>. QED  BY <1>1, CaptureIsSound, PTL

-----------------------------------------------------------------------------
(* Refinement.  Two more facts make it go through: an identifier that was not *)
(* handed out has no footage, and the output of a finalize call, as long as   *)
(* no sweep took it, has its footage in scratch.                              *)

Sourced ==
  /\ \A v \in scratch : v < next
  /\ \A c \in Caller, v \in Visit : job[c][v] = "written" /\ v \in tmp => v \in scratch

\* The visits followed are those of the keys and the one in hand.
LEMMA FollowedIs ==
  ASSUME TypeOK, NEW v \in Visit
  PROVE  v \in Followed <=> IsLive(v) \/ v = closing
  BY Types DEF Followed, LiveVisits, IsLive, TypeOK

\* A visit that moves from stage to stage in this way keeps to the life cycle.
Orderly(v) ==
  /\ v < next => v < next'
  /\ v >= next /\ v < next' => v \in Followed' /\ v \notin scratch'
  /\ v \in Followed' /\ v < next => v \in Followed
  /\ v \in Followed /\ v \in scratch => v \in scratch'
  /\ v \in scratch' \ scratch /\ v < next => v \in Followed /\ v \in Followed'
  /\ v \in clip => v \in clip'
  /\ v \in clip' \ clip => v \notin Followed /\ v \in scratch

LEMMA OrderlyMovesOn ==
  ASSUME IInv, IInv', NEW v \in Visit, Orderly(v)
  PROVE  /\ StageOf(v)' \in Lifecycle!Stage
         /\ StageOf(v)' = StageOf(v) \/ <<StageOf(v), StageOf(v)'>> \in Lifecycle!Onward
<1>1. v \in Nat /\ next \in Nat /\ next' \in Nat
  BY Types DEF IInv, TypeOK, Visit
<1>2. v >= next <=> ~(v < next)
  BY <1>1
<1>3. v >= next' <=> ~(v < next')
  BY <1>1
<1>4. v \in Followed => v \notin clip
  BY FollowedIs DEF IInv, Untouched
<1>5. v \in Followed' => v \notin clip'
  <2>1. v \in Followed' <=> IsLive(v)' \/ v = closing'
    BY Types DEF Followed, LiveVisits, IsLive, IInv, TypeOK
  <2>. QED  BY <2>1 DEF IInv, Untouched
<1>6. v \in clip => v < next
  BY <1>1, <1>2 DEF IInv, Unused
<1>7. StageOf(v) =
        IF v >= next THEN "unborn"
        ELSE IF v \in Followed THEN IF v \in scratch THEN "growing" ELSE "awaited"
        ELSE IF v \in clip THEN "kept" ELSE IF v \in scratch THEN "sealed" ELSE "gone"
  BY <1>2 DEF StageOf
<1>8. StageOf(v)' =
        IF v >= next' THEN "unborn"
        ELSE IF v \in Followed' THEN IF v \in scratch' THEN "growing" ELSE "awaited"
        ELSE IF v \in clip' THEN "kept" ELSE IF v \in scratch' THEN "sealed" ELSE "gone"
  BY <1>3 DEF StageOf
<1>9. CASE v >= next
  BY <1>2, <1>3, <1>5, <1>6, <1>7, <1>8, <1>9 DEF Lifecycle!Onward, Lifecycle!Stage, Orderly
<1>10. CASE v < next /\ v \in Followed
  BY <1>2, <1>3, <1>4, <1>5, <1>7, <1>8, <1>10
  DEF Lifecycle!Onward, Lifecycle!Stage, Orderly
<1>11. CASE v < next /\ v \notin Followed
  BY <1>2, <1>3, <1>7, <1>8, <1>11 DEF Lifecycle!Onward, Lifecycle!Stage, Orderly
<1>. QED  BY <1>2, <1>9, <1>10, <1>11

\* Files that stay, and a tracker that lets go of visits: nothing else changes for them.
LEMMA LettingGo ==
  ASSUME UNCHANGED <<scratch, clip, next>>, Followed' \subseteq Followed, NEW v \in Visit,
         next \in Nat
  PROVE  Orderly(v)
  BY Types DEF Orderly

\* A new visit is followed, and has no footage yet.
LEMMA TakingOn ==
  ASSUME TypeOK, Sourced, UNCHANGED <<scratch, clip>>, next' = next + 1, next \in Visit,
         Followed' \subseteq Followed \cup {next}, next \in Followed', NEW v \in Visit
  PROVE  Orderly(v)
<1>1. v \in Nat /\ next \in Nat
  BY Types DEF TypeOK, Visit
<1>2. v >= next /\ v < next' => v = next
  BY <1>1
<1>3. next \notin scratch
  BY <1>1 DEF Sourced
<1>4. v < next => v < next' /\ v # next
  BY <1>1
<1>. QED  BY <1>2, <1>3, <1>4 DEF Orderly

\* The main thread and the environment.
LEMMA MainIsOrderly ==
  ASSUME IInv, Sourced, Next, NEW v \in Visit,
         \A c \in Caller, w \in Visit : ~Finalize(c, w)
  PROVE  Orderly(v)
<1>0. /\ TypeOK /\ Shape /\ OneKey /\ Unused
      /\ current \in [Key -> Visit \cup {NoVisit}] /\ next \in Nat
      /\ open \subseteq Visit /\ closing \in Visit \cup {NoVisit} /\ NoVisit \notin Visit
  BY Types DEF IInv, TypeOK, Visit
<1>1. ASSUME NEW k \in Key, Appear(k)  PROVE Orderly(v)
  <2>1. /\ next' = next + 1 /\ next \in Visit /\ UNCHANGED <<scratch, clip, closing>>
        /\ current' = [current EXCEPT ![k] = next]
    BY <1>0, <1>1 DEF Appear, Track, files, Visit, TypeOK
  <2>2. Followed' \subseteq Followed \cup {next} /\ next \in Followed'
    BY <1>0, <2>1 DEF Followed, LiveVisits
  <2>. QED  BY <1>0, <2>1, <2>2, TakingOn
<1>2. ASSUME NEW k \in Key, Split(k)  PROVE Orderly(v)
  <2>1. /\ next' = next + 1 /\ next \in Visit /\ UNCHANGED <<scratch, clip>>
        /\ current[k] # NoVisit /\ closing' = current[k]
        /\ current' = [current EXCEPT ![k] = next]
    BY <1>0, <1>2 DEF Split, Track, files, Visit, TypeOK
  <2>2. Followed' \subseteq Followed \cup {next} /\ next \in Followed'
    BY <1>0, <2>1 DEF Followed, LiveVisits
  <2>. QED  BY <1>0, <2>1, <2>2, TakingOn
<1>3. ASSUME NEW k \in Key, Expire(k)  PROVE Orderly(v)
  <2>1. /\ UNCHANGED <<scratch, clip, next>>
        /\ current[k] # NoVisit /\ closing' = current[k]
        /\ current' = [current EXCEPT ![k] = NoVisit]
    BY <1>3 DEF Expire, files
  <2>2. Followed' \subseteq Followed
    BY <1>0, <2>1 DEF Followed, LiveVisits
  <2>. QED  BY <1>0, <2>1, <2>2, LettingGo
<1>4. CASE DrainNext
  <2>1. /\ UNCHANGED <<scratch, clip, next>>
        /\ \/ \E k \in Key : /\ current[k] # NoVisit /\ closing' = current[k]
                             /\ current' = [current EXCEPT ![k] = NoVisit]
           \/ UNCHANGED <<current, closing>>
    BY <1>4 DEF DrainNext, files
  <2>2. Followed' \subseteq Followed
    BY <1>0, <2>1 DEF Followed, LiveVisits
  <2>. QED  BY <1>0, <2>1, <2>2, LettingGo
<1>5. CASE RefuseOpen
  <2>1. /\ UNCHANGED <<scratch, clip, next, closing>>
        /\ current' = [current EXCEPT ![opening] = NoVisit]
    BY <1>5 DEF RefuseOpen, files
  <2>2. Followed' \subseteq Followed
    BY <1>0, <2>1 DEF Followed, LiveVisits
  <2>. QED  BY <1>0, <2>1, <2>2, LettingGo
<1>6. CASE SpawnFinalize
  <2>1. UNCHANGED <<scratch, clip, next, current>> /\ closing' = NoVisit
    BY <1>6 DEF SpawnFinalize, files, tracking
  <2>2. Followed' \subseteq Followed
    BY <2>1 DEF Followed, LiveVisits
  <2>. QED  BY <1>0, <2>1, <2>2, LettingGo
<1>7. CASE Crash
  <2>1. /\ UNCHANGED <<scratch, clip, next>> /\ closing' = NoVisit
        /\ current' = [k \in Key |-> NoVisit]
    BY <1>7 DEF Crash, files
  <2>2. Followed' \subseteq Followed
    BY <2>1 DEF Followed, LiveVisits
  <2>. QED  BY <1>0, <2>1, <2>2, LettingGo
<1>8. ASSUME NEW k \in Key, Extend(k)  PROVE Orderly(v)
  <2>1. /\ UNCHANGED <<clip, next, current, closing>> /\ current[k] \in open
        /\ scratch \subseteq scratch' /\ scratch' \subseteq scratch \cup {current[k]}
    BY <1>8 DEF Extend, tracking, main
  <2>2. Followed' = Followed
    BY <2>1 DEF Followed, LiveVisits
  <2>3. current[k] \in Followed /\ current[k] < next /\ current[k] \in Visit
    BY <1>0, <2>1 DEF Followed, LiveVisits, Unused
  <2>4. v \in Nat /\ (v >= next => ~(v < next))
    BY <1>0, Types DEF Visit
  <2>. QED  BY <2>1, <2>2, <2>3, <2>4 DEF Orderly
<1>9. CASE CopyFootage
  <2>1. /\ UNCHANGED <<clip, next, current, closing>> /\ pc = "copy"
        /\ scratch \subseteq scratch' /\ scratch' \subseteq scratch \cup {closing}
    BY <1>9 DEF CopyFootage, tracking
  <2>2. Followed' = Followed
    BY <2>1 DEF Followed, LiveVisits
  <2>3. closing \in Followed
    BY <1>0, <2>1 DEF Followed, Shape, Closing
  <2>4. v \in Nat /\ (v >= next => ~(v < next))
    BY <1>0, Types DEF Visit
  <2>. QED  BY <2>1, <2>2, <2>3, <2>4 DEF Orderly
<1>10. CASE Sweep
  <2>1. /\ UNCHANGED <<clip, next, current, closing>> /\ pc = "recover"
        /\ scratch' \subseteq scratch
    BY <1>10 DEF Sweep, Between, tracking
  <2>2. Followed = {} /\ Followed' = {}
    <3>1. closing = NoVisit /\ \A k \in Key : current[k] = NoVisit
      BY <1>0, <2>1 DEF Shape, Closing, OneKey
    <3>. QED  BY <2>1, <3>1 DEF Followed, LiveVisits
  <2>3. v \in Nat /\ (v >= next => ~(v < next))
    BY <1>0, Types DEF Visit
  <2>. QED  BY <2>1, <2>2, <2>3 DEF Orderly
<1>11. ASSUME UNCHANGED <<scratch, clip, next, current, closing>>  PROVE Orderly(v)
  <2>1. Followed' = Followed
    BY <1>11 DEF Followed, LiveVisits
  <2>. QED  BY <1>0, <1>11, <2>1, LettingGo
<1>12. CASE Escalate \/ Disarm \/ Arm \/ MoveFlag \/ Restart
  BY <1>11, <1>12 DEF Escalate, Disarm, Arm, MoveFlag, Restart, files, tracking, main
<1>13. CASE PopVisit \/ DropVisit \/ RecordOpen \/ EndDrain
  BY <1>11, <1>13 DEF PopVisit, DropVisit, RecordOpen, EndDrain, files, tracking
<1>14. ASSUME NEW w \in Visit, RecoverSkip(w) \/ RecoverStart(w) \/ RecoverEnd(w)
       PROVE  Orderly(v)
  BY <1>11, <1>14 DEF RecoverSkip, RecoverStart, RecoverEnd, files, tracking, main
<1>. QED
  BY <1>1, <1>2, <1>3, <1>4, <1>5, <1>6, <1>7, <1>8, <1>9, <1>10, <1>12, <1>13, <1>14
  DEF Next, MainStep, Effect, Recover, Leave, Caller

\* A finalize call: its visit is not followed any more, it publishes only what has
\* footage, and it takes footage away only at its end.
LEMMA FinalizeIsOrderly ==
  ASSUME IInv, Sourced, NEW c \in Caller, NEW w \in Visit, Finalize(c, w), NEW v \in Visit
  PROVE  Orderly(v)
<1>1. UNCHANGED <<next, current, closing>> /\ job[c][w] # "none"
  BY DEF Finalize, AcquireFinalize, NoFootage, Concat, Reject, Publish, Reap, Move,
         tracking, main
<1>2. Followed' = Followed
  BY <1>1 DEF Followed, LiveVisits
<1>3. w \notin Followed
  BY <1>1, FollowedIs DEF IInv, Untouched
<1>4. v \in Nat /\ next \in Nat /\ (v >= next => ~(v < next))
  BY Types DEF IInv, TypeOK, Visit
<1>5. CASE Publish(c, w)
  <2>1. UNCHANGED scratch /\ clip' = clip \cup {w} /\ w \in scratch
    BY <1>5 DEF Publish, Move, Sourced
  <2>. QED  BY <1>1, <1>2, <1>3, <1>4, <2>1 DEF Orderly
<1>6. CASE Reap(c, w)
  <2>1. UNCHANGED clip /\ scratch' = scratch \ {w}
    BY <1>6 DEF Reap
  <2>. QED  BY <1>1, <1>2, <1>3, <1>4, <2>1 DEF Orderly
<1>7. CASE AcquireFinalize(c, w) \/ NoFootage(c, w) \/ Concat(c, w) \/ Reject(c, w)
  <2>1. UNCHANGED <<scratch, clip>>
    BY <1>7 DEF AcquireFinalize, NoFootage, Concat, Reject
  <2>. QED  BY <1>1, <1>2, <1>4, <2>1 DEF Orderly
<1>. QED  BY <1>5, <1>6, <1>7 DEF Finalize

LEMMA InitSourced == Init => Sourced
  BY DEF Init, Sourced

\* Only followed visits gain footage, and an output loses its footage only with its
\* finalize, or is swept with it.
LEMMA NextSourced ==
  ASSUME IInv, Sourced, [Next]_vars
  PROVE  Sourced'
<1>0. /\ TypeOK /\ Shape /\ Unused /\ OneHolder /\ next \in Nat
      /\ open \subseteq Visit /\ closing \in Visit \cup {NoVisit} /\ NoVisit \notin Visit
      /\ scratch \subseteq Nat
  BY Types DEF IInv, TypeOK, Visit
<1>1. ASSUME UNCHANGED <<scratch, tmp>>, next' \in {next, next + 1},
             \A c \in Caller, v \in Visit : job'[c][v] = "written" => job[c][v] = "written"
      PROVE  Sourced'
  BY <1>0, <1>1 DEF Sourced
<1>2. CASE UNCHANGED vars
  BY <1>2 DEF vars, files, tracking, Sourced
<1>3. ASSUME NEW k \in Key, Extend(k)  PROVE Sourced'
  <2>1. /\ UNCHANGED <<tmp, next, job>> /\ current[k] \in open
        /\ scratch \subseteq scratch' /\ scratch' \subseteq scratch \cup {current[k]}
    BY <1>3 DEF Extend, tracking
  <2>2. current[k] < next
    BY <1>0, <2>1 DEF Unused
  <2>. QED  BY <2>1, <2>2 DEF Sourced
<1>4. CASE CopyFootage
  <2>1. /\ UNCHANGED <<tmp, next, job>> /\ pc = "copy"
        /\ scratch \subseteq scratch' /\ scratch' \subseteq scratch \cup {closing}
    BY <1>4 DEF CopyFootage, tracking
  <2>2. closing < next
    BY <1>0, <2>1 DEF Shape, Closing, Unused
  <2>. QED  BY <2>1, <2>2 DEF Sourced
<1>5. CASE Sweep
  <2>1. tmp' = {} /\ next' = next /\ scratch' \subseteq scratch
    BY <1>5 DEF Sweep, tracking
  <2>. QED  BY <2>1 DEF Sourced
<1>6. CASE Crash
  <2>1. UNCHANGED <<scratch, next>> /\ job' = NoJobs
    BY <1>6 DEF Crash, files
  <2>. QED  BY <2>1, Types DEF Sourced
<1>7. ASSUME NEW k \in Key, Appear(k) \/ Leave(k)  PROVE Sourced'
  BY <1>1, <1>7 DEF Appear, Leave, Expire, Split, Track, files
<1>8. CASE Escalate \/ Disarm \/ Arm \/ MoveFlag \/ Restart
  BY <1>1, <1>8 DEF Escalate, Disarm, Arm, MoveFlag, Restart, files, tracking
<1>9. CASE PopVisit \/ DropVisit \/ RecordOpen \/ EndDrain \/ RefuseOpen \/ DrainNext
  BY <1>1, <1>9 DEF PopVisit, DropVisit, RecordOpen, EndDrain, RefuseOpen, DrainNext,
                    files, tracking
<1>10. CASE SpawnFinalize
  <2>1. UNCHANGED <<scratch, tmp, next>>
    BY <1>10 DEF SpawnFinalize, files, tracking
  <2>2. \A c \in Caller, v \in Visit : job'[c][v] = "written" => job[c][v] = "written"
    BY <1>0, <1>10 DEF SpawnFinalize, TypeOK
  <2>. QED  BY <1>1, <2>1, <2>2
<1>11. ASSUME NEW v \in Visit, RecoverSkip(v) \/ RecoverStart(v) \/ RecoverEnd(v)
       PROVE  Sourced'
  <2>1. UNCHANGED <<scratch, tmp, next>>
    BY <1>11 DEF RecoverSkip, RecoverStart, RecoverEnd, tracking
  <2>2. \A d \in Caller, u \in Visit : job'[d][u] = "written" => job[d][u] = "written"
    BY <1>0, <1>11 DEF RecoverSkip, RecoverStart, RecoverEnd, TypeOK
  <2>. QED  BY <1>1, <2>1, <2>2
<1>12. ASSUME NEW c \in Caller, NEW v \in Visit, Finalize(c, v)  PROVE Sourced'
  <2>0. next' = next
    BY <1>12 DEF Finalize, AcquireFinalize, NoFootage, Concat, Reject, Publish, Reap, Move,
                 tracking
  <2>1. ASSUME NEW from, NEW to \in Phase, Move(c, v, from, to)
        PROVE  \A d \in Caller, u \in Visit :
                 job'[d][u] = IF d = c /\ u = v THEN to ELSE job[d][u]
    BY <1>0, <2>1, MoveIs
  <2>2. CASE AcquireFinalize(c, v) \/ NoFootage(c, v)
    <3>1. UNCHANGED <<scratch, tmp>>
      BY <2>2 DEF AcquireFinalize, NoFootage
    <3>2. \A d \in Caller, u \in Visit : job'[d][u] = "written" => job[d][u] = "written"
      BY <2>1, <2>2 DEF AcquireFinalize, NoFootage, Phase
    <3>. QED  BY <1>1, <2>0, <3>1, <3>2
  <2>3. CASE Concat(c, v)
    <3>1. /\ v \in scratch /\ UNCHANGED scratch /\ tmp' = tmp \cup {v}
          /\ \A d \in Caller, u \in Visit :
               job'[d][u] = IF d = c /\ u = v THEN "written" ELSE job[d][u]
      BY <2>1, <2>3 DEF Concat, Phase
    <3>. QED  BY <2>0, <3>1 DEF Sourced
  <2>4. CASE Reject(c, v) \/ Publish(c, v)
    <3>1. /\ UNCHANGED scratch /\ tmp' \subseteq tmp
          /\ \A d \in Caller, u \in Visit : job'[d][u] = "written" => job[d][u] = "written"
      BY <2>1, <2>4 DEF Reject, Publish, Phase
    <3>. QED  BY <2>0, <3>1 DEF Sourced
  <2>5. CASE Reap(c, v)
    <3>1. PICK phase \in {"published", "refused"} : Move(c, v, phase, Outcome(c, phase))
      BY <2>5 DEF Reap
    <3>2. Outcome(c, phase) \in Phase /\ Outcome(c, phase) # "written"
      BY <3>1 DEF Outcome, Phase
    <3>3. /\ job[c][v] \in Holding /\ UNCHANGED tmp /\ scratch' = scratch \ {v}
          /\ job[c][v] # "written"
          /\ \A d \in Caller, u \in Visit :
               job'[d][u] = IF d = c /\ u = v THEN Outcome(c, phase) ELSE job[d][u]
      BY <2>1, <2>5, <3>1, <3>2 DEF Reap, Move, Holding
    <3>4. \A d \in Caller : job[d][v] # "written"
      BY <1>0, <3>3 DEF OneHolder, Holding
    <3>. QED  BY <2>0, <3>2, <3>3, <3>4 DEF Sourced
  <2>. QED  BY <1>12, <2>2, <2>3, <2>4, <2>5 DEF Finalize
<1>. QED
  BY <1>2, <1>3, <1>4, <1>5, <1>6, <1>7, <1>8, <1>9, <1>10, <1>11, <1>12
  DEF Next, MainStep, Effect, Recover, Caller

\* The stages of all visits, mapped on the abstract variable.
Stages == [v \in Visit |-> StageOf(v)]

LEMMA InitRefines == Init => Lifecycle!LifecycleInit
<1> SUFFICES ASSUME Init, NEW v \in Visit PROVE StageOf(v) = "unborn"
  BY DEF Lifecycle!LifecycleInit
<1>1. v \in Nat /\ v >= 1
  BY Types DEF Visit
<1>2. v >= next /\ ~(v < next)
  BY <1>1 DEF Init
<1>. QED  BY <1>2 DEF StageOf

LEMMA StepRefines ==
  ASSUME IInv, IInv', Sourced, [Next]_vars
  PROVE  [Lifecycle!LifecycleNext]_Stages
<1>1. CASE UNCHANGED vars
  BY <1>1 DEF vars, files, tracking, main, Stages, StageOf, Followed, LiveVisits
<1>2. CASE Next
  <2>1. \A v \in Visit : Orderly(v)
    BY <1>2, MainIsOrderly, FinalizeIsOrderly
  <2>2. \A v \in Visit : /\ StageOf(v)' \in Lifecycle!Stage
                         /\ \/ StageOf(v)' = StageOf(v)
                            \/ <<StageOf(v), StageOf(v)'>> \in Lifecycle!Onward
    BY <2>1, OrderlyMovesOn
  <2>. QED  BY <2>2 DEF Lifecycle!LifecycleNext, Stages
<1>. QED  BY <1>1, <1>2

\* Whatever dies, fails or moves, the footage of a visit goes through its life in order
\* (VisitRunner, finalize_visit, recovery and sweep_orphans together): it gathers only
\* while the visit is followed, leaves scratch only after the visit was handed over,
\* and neither grows nor comes back from then on.
THEOREM CaptureRefinesLifecycle == Spec => ImplementsLifecycle
<1>1. IInv /\ IInv' /\ Sourced /\ [Next]_vars => [Lifecycle!LifecycleNext]_Stages
  BY StepRefines
<1>2. IInv /\ Sourced /\ [Next]_vars => Sourced'
  BY NextSourced
<1>. QED  BY <1>1, <1>2, CaptureIsSound, InitRefines, InitSourced, PTL
          DEF Spec, ImplementsLifecycle, Lifecycle!LifecycleSpec, Stages
=============================================================================
