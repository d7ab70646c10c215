------------------------ MODULE VisitTracker_proofs ------------------------
(***************************************************************************)
(* Proofs about VisitTracker for every set of keys, every range of the     *)
(* knobs and every run.                                                    *)
(*                                                                         *)
(* The window bounds are not inductive by themselves: a window is built    *)
(* from its record, so the invariant must say how a record's instants      *)
(* relate (Healthy), and a continuation starts before the frame that opens *)
(* it, by a lag that is bounded only because the tick of the same          *)
(* iteration closed every visit unseen for a grace (Ticked).               *)
(***************************************************************************)
EXTENDS VisitTracker, FiniteSetTheorems, TLAPS

\* How the instants of a live record relate at reading n.
Healthy(r, n) ==
  /\ r.seen <= n
  /\ r.started <= r.seen
  /\ r.seen - r.started < MaxCap
  /\ r.start <= r.started
  /\ r.started - r.start <= MaxLag
  /\ r.copied <= r.seen

\* What the properties ask of a window at reading n.
Sound(w, n) ==
  /\ w.start <= w.end
  /\ w.end <= n
  /\ w.end - w.start < MaxCap + MaxGrace + MaxLag
  /\ ~w.starved => /\ w.end - w.copied <= Segment
                   /\ w.copied - w.end <= Later(Segment, MaxCap - MinCap)

RecordsHealthy == \A k \in Live : Healthy(visits[k], now)

Ticked == phase = "observe" => \A k \in Live : now <= visits[k].seen + MaxGrace

WindowsSound == \A w \in windows : Sound(w, now)

IInv == TypeOK /\ RecordsHealthy /\ Ticked /\ WindowsSound

-----------------------------------------------------------------------------

\* The lag of a start is a natural number, at least the pre-roll and at least
\* the spread of the cap plus one grace.
LEMMA MaxLagBounds ==
  /\ MaxLag \in Nat
  /\ MaxPreRoll <= MaxLag
  /\ MaxCap - MinCap + MaxGrace <= MaxLag
BY TrackerAssumption DEF TrackerAssumption, MaxLag, Later

\* The knobs an action may see are natural numbers inside their ranges.
LEMMA KnobTypes ==
  /\ \A g \in Grace : g \in Nat /\ g >= 1 /\ g <= MaxGrace
  /\ \A c \in Cap : c \in Nat /\ c >= 1 /\ MinCap <= c /\ c <= MaxCap
  /\ \A p \in PreRoll : p \in Nat /\ p <= MaxPreRoll
BY TrackerAssumption DEF TrackerAssumption, Grace, Cap, PreRoll

\* A record opened now, with a start at most one lag ago, is healthy.
LEMMA NewVisitHealthy ==
  ASSUME TypeOK,
         NEW start \in Int, NEW seg \in Nat,
         start <= now, now - start <= MaxLag
  PROVE  /\ NewVisit(start, seg) \in Visit
         /\ Healthy(NewVisit(start, seg), now)
         /\ NewVisit(start, seg).seen = now
BY TrackerAssumption
DEF TrackerAssumption, TypeOK, NewVisit, Visit, Healthy

\* The footage a copy leaves in scratch is an instant.
LEMMA FootageType ==
  ASSUME NEW r \in Visit, NEW low \in BOOLEAN, NEW until \in Int, NEW t \in Nat,
         NEW upTo \in Copies(until, t)
  PROVE  /\ upTo \in Int /\ until - Segment <= upTo
         /\ upTo <= until + Segment /\ upTo <= t
         /\ Footage(r, low, upTo) \in Int
BY TrackerAssumption DEF TrackerAssumption, Copies, Footage, Visit, Earlier, Later

\* The window of a healthy record, closed at an instant between what its footage
\* may overshoot and one grace after the subject was last seen, is sound.
LEMMA ClosedSound ==
  ASSUME NEW k \in Key, NEW r \in Visit, NEW n \in Nat,
         Healthy(r, n),
         NEW end \in Int, NEW low \in BOOLEAN, NEW upTo \in Copies(end, n),
         r.started <= end, end <= n,
         end < r.started + MaxCap + MaxGrace,
         r.seen - end <= MaxCap - MinCap
  PROVE  /\ Closed(k, r, end, low, upTo) \in Window
         /\ Sound(Closed(k, r, end, low, upTo), n)
<1> DEFINE w == Closed(k, r, end, low, upTo)
<1>1. /\ r.id \in Nat /\ r.started \in Nat /\ r.seen \in Nat /\ r.start \in Int
      /\ r.seg \in Nat /\ r.copied \in Int /\ r.starved \in BOOLEAN
  BY DEF Visit
<1>2. /\ w.start = r.start /\ w.end = end
      /\ w.copied = Footage(r, low, upTo)
      /\ w.starved = (r.starved \/ low)
  BY DEF Closed
<1>3. /\ upTo \in Int /\ end - Segment <= upTo /\ upTo <= end + Segment
      /\ Footage(r, low, upTo) \in Int /\ Segment \in Nat
  BY FootageType, TrackerAssumption DEF TrackerAssumption
<1>4. w \in Window
  BY <1>1, <1>3 DEF Closed, Window
<1>5. /\ w.start <= w.end
      /\ w.end <= n
      /\ w.end - w.start < MaxCap + MaxGrace + MaxLag
  BY <1>1, <1>2, MaxLagBounds, TrackerAssumption DEF Healthy, TrackerAssumption
<1>6. ASSUME ~w.starved
      PROVE  /\ w.end - w.copied <= Segment
             /\ w.copied - w.end <= Later(Segment, MaxCap - MinCap)
  <2>1. w.copied = Later(r.copied, upTo)
    BY <1>2, <1>6 DEF Footage
  <2>2. r.copied - end <= MaxCap - MinCap /\ MaxCap - MinCap \in Int
    BY <1>1, TrackerAssumption DEF Healthy, TrackerAssumption
  <2>3. /\ end - Later(r.copied, upTo) <= Segment
        /\ Later(r.copied, upTo) - end <= Later(Segment, MaxCap - MinCap)
    BY <1>1, <1>3, <2>2 DEF Later
  <2> QED BY <1>2, <2>1, <2>3
<1> QED BY <1>4, <1>5, <1>6 DEF Sound

\* Soundness of a window survives the passing of time.
LEMMA SoundLater ==
  ASSUME NEW w \in Window, NEW m \in Nat, NEW n \in Nat, m <= n, Sound(w, m)
  PROVE  Sound(w, n)
BY DEF Sound, Window

\* So does the health of a record.
LEMMA HealthyLater ==
  ASSUME NEW r \in Visit, NEW m \in Nat, NEW n \in Nat, m <= n, Healthy(r, m)
  PROVE  Healthy(r, n)
BY DEF Healthy, Visit

\* Pruning keeps or empties each slot.
LEMMA PrunedSlots ==
  ASSUME NEW vs \in [Key -> Visit \cup {NoVisit}], NEW kept \in Pruned(vs)
  PROVE  /\ kept \in [Key -> Visit \cup {NoVisit}]
         /\ \A k \in Key : kept[k] = NoVisit \/ kept[k] = vs[k]
BY DEF Pruned

-----------------------------------------------------------------------------
(* What one action does to the invariant *)

\* The clock: an action that only closes records, at instants up to the new
\* reading, keeps the invariant but for the tick's own part.
LEMMA TickInv ==
  ASSUME IInv, NEW t \in now..Horizon, NEW grace \in Grace, Tick(t, grace)
  PROVE  IInv'
<1> DEFINE expired == {k \in Live : t > visits[k].seen + grace}
           End(k) == Earlier(visits[k].seen + grace, t)
<1>1. t \in Nat /\ now \in Nat /\ now <= t /\ t <= Horizon /\ t \in 0..Horizon
  BY TrackerAssumption DEF IInv, TypeOK, TrackerAssumption
<1>2. \A k \in Live : visits[k] \in Visit /\ Healthy(visits[k], t)
  <2> SUFFICES ASSUME NEW k \in Live PROVE visits[k] \in Visit /\ Healthy(visits[k], t)
    OBVIOUS
  <2>1. visits[k] \in Visit
    BY DEF IInv, TypeOK, Live
  <2>2. Healthy(visits[k], now)
    BY DEF IInv, RecordsHealthy
  <2> QED BY <2>1, <2>2, <1>1, HealthyLater
<1>3. PICK low \in [expired -> FloorReadings], upTo \in [expired -> (-Segment)..t] :
        /\ \A k \in expired : upTo[k] \in Copies(End(k), t)
        /\ windows' = windows \cup
             {Closed(k, visits[k], End(k), low[k], upTo[k]) : k \in expired}
  BY DEF Tick
<1>4. \A k \in expired : /\ Closed(k, visits[k], End(k), low[k], upTo[k]) \in Window
                         /\ Sound(Closed(k, visits[k], End(k), low[k], upTo[k]), t)
  <2> SUFFICES ASSUME NEW k \in expired
               PROVE  /\ Closed(k, visits[k], End(k), low[k], upTo[k]) \in Window
                      /\ Sound(Closed(k, visits[k], End(k), low[k], upTo[k]), t)
    OBVIOUS
  <2>1. k \in Key /\ low[k] \in BOOLEAN /\ visits[k] \in Visit /\ Healthy(visits[k], t)
    BY <1>2, TrackerAssumption DEF Live, TrackerAssumption
  <2>2. grace \in Nat /\ grace <= MaxGrace
    BY KnobTypes
  <2>3. End(k) = visits[k].seen + grace
    BY <2>1, <2>2, <1>1 DEF Earlier, Visit
  <2>4. /\ End(k) \in Int /\ visits[k].started <= End(k) /\ End(k) <= t
        /\ End(k) < visits[k].started + MaxCap + MaxGrace
        /\ visits[k].seen - End(k) <= MaxCap - MinCap
    BY <2>1, <2>2, <2>3, <1>1, TrackerAssumption
    DEF Visit, Healthy, TrackerAssumption
  <2> QED BY <2>1, <2>4, <1>1, <1>3, ClosedSound
<1>5. now' = t /\ phase' = "observe" /\ nextId' = nextId
      /\ visits' = [k \in Key |-> IF k \in expired THEN NoVisit ELSE visits[k]]
  BY DEF Tick
<1>6. TypeOK'
  BY <1>1, <1>3, <1>4, <1>5 DEF IInv, TypeOK
<1>7. \A k \in Live' : k \in Live /\ k \notin expired /\ visits'[k] = visits[k]
  BY <1>5 DEF Live
<1>8. RecordsHealthy'
  BY <1>2, <1>5, <1>7 DEF RecordsHealthy
<1>9. Ticked'
  <2> SUFFICES ASSUME NEW k \in Live' PROVE t <= visits[k].seen + MaxGrace
    BY <1>5, <1>7 DEF Ticked
  <2>1. k \in Live /\ ~(t > visits[k].seen + grace) /\ visits[k].seen \in Nat
    BY <1>2, <1>7 DEF Visit
  <2> QED BY <2>1, <1>1, KnobTypes, TrackerAssumption DEF TrackerAssumption
<1>10. WindowsSound'
  BY <1>1, <1>3, <1>4, <1>5, SoundLater DEF IInv, TypeOK, WindowsSound
<1> QED BY <1>6, <1>8, <1>9, <1>10 DEF IInv

\* The drain closes every record where its subject was last seen.
LEMMA DrainInv ==
  ASSUME IInv, NEW t \in now..Horizon, Drain(t)
  PROVE  IInv'
<1> DEFINE End(k) == Earlier(visits[k].seen, t)
<1>1. t \in Nat /\ now \in Nat /\ now <= t /\ t <= Horizon /\ t \in 0..Horizon
  BY TrackerAssumption DEF IInv, TypeOK, TrackerAssumption
<1>2. PICK low \in [Live -> FloorReadings], upTo \in [Live -> (-Segment)..t] :
        /\ \A k \in Live : upTo[k] \in Copies(End(k), t)
        /\ windows' = windows \cup
             {Closed(k, visits[k], End(k), low[k], upTo[k]) : k \in Live}
  BY DEF Drain
<1>3. \A k \in Live : /\ Closed(k, visits[k], End(k), low[k], upTo[k]) \in Window
                      /\ Sound(Closed(k, visits[k], End(k), low[k], upTo[k]), t)
  <2> SUFFICES ASSUME NEW k \in Live
               PROVE  /\ Closed(k, visits[k], End(k), low[k], upTo[k]) \in Window
                      /\ Sound(Closed(k, visits[k], End(k), low[k], upTo[k]), t)
    OBVIOUS
  <2>1. k \in Key /\ low[k] \in BOOLEAN /\ visits[k] \in Visit
    BY TrackerAssumption DEF Live, TrackerAssumption, IInv, TypeOK
  <2>2. Healthy(visits[k], now)
    BY DEF IInv, RecordsHealthy
  <2>3. Healthy(visits[k], t)
    BY <2>1, <2>2, <1>1, HealthyLater
  <2>4. End(k) = visits[k].seen
    BY <2>1, <2>2, <1>1 DEF Earlier, Visit, Healthy
  <2>5. /\ End(k) \in Int /\ visits[k].started <= End(k) /\ End(k) <= t
        /\ End(k) < visits[k].started + MaxCap + MaxGrace
        /\ visits[k].seen - End(k) <= MaxCap - MinCap
    BY <2>1, <2>3, <2>4, <1>1, TrackerAssumption DEF Visit, Healthy, TrackerAssumption
  <2> QED BY <2>1, <2>3, <2>5, <1>1, <1>2, ClosedSound
<1>4. /\ now' = t /\ phase' = phase /\ phase = "top" /\ nextId' = nextId
      /\ visits' = [k \in Key |-> NoVisit]
  BY DEF Drain
<1>5. TypeOK'
  BY <1>1, <1>2, <1>3, <1>4 DEF IInv, TypeOK
<1>6. Live' = {}
  BY <1>4 DEF Live
<1>7. WindowsSound'
  BY <1>1, <1>2, <1>3, <1>4, SoundLater DEF IInv, TypeOK, WindowsSound
<1> QED BY <1>5, <1>6, <1>7 DEF IInv, RecordsHealthy, Ticked

\* A slot map whose records are healthy now.
SlotsHealthy(vs) ==
  /\ vs \in [Key -> Visit \cup {NoVisit}]
  /\ \A k \in Key : vs[k] # NoVisit => Healthy(vs[k], now)

\* Windows that are old or sound now.
OldOrSound(ws) == \A w \in ws : w \in windows \/ (w \in Window /\ Sound(w, now))

\* Healthy slots and sound windows make the invariant hold at the top of the loop.
LEMMA TopInv ==
  ASSUME IInv, phase' = "top", now' = now, nextId' \in 0..MaxVisits,
         SlotsHealthy(visits'), OldOrSound(windows')
  PROVE  IInv'
<1>1. TypeOK'
  BY DEF IInv, TypeOK, SlotsHealthy, OldOrSound
<1>2. RecordsHealthy' /\ Ticked'
  BY DEF RecordsHealthy, Ticked, Live, SlotsHealthy
<1>3. WindowsSound'
  BY DEF IInv, WindowsSound, OldOrSound
<1> QED BY <1>1, <1>2, <1>3 DEF IInv
\* A live record, inside an iteration that ticked.
LEMMA LiveFacts ==
  ASSUME IInv, NEW k \in Live
  PROVE  /\ k \in Key /\ visits[k] \in Visit /\ Healthy(visits[k], now)
         /\ now \in Nat
         /\ phase = "observe" => now <= visits[k].seen + MaxGrace
BY TrackerAssumption
DEF IInv, TypeOK, RecordsHealthy, Ticked, Live, TrackerAssumption

\* A slot map that keeps or empties each slot stays healthy once a visit that
\* started at most one lag ago is opened in it, or refused.
LEMMA OpenedSlots ==
  ASSUME IInv, NEW kept \in [Key -> Visit \cup {NoVisit}],
         \A j \in Key : kept[j] = NoVisit \/ kept[j] = visits[j],
         NEW k \in Key, NEW start \in Int, NEW seg \in Nat,
         start <= now, now - start <= MaxLag,
         NEW refused \in BOOLEAN
  PROVE  SlotsHealthy(Opened(kept, k, start, seg, refused))
<1> DEFINE o == Opened(kept, k, start, seg, refused)
<1>1. TypeOK
  BY DEF IInv
<1>2. NewVisit(start, seg) \in Visit /\ Healthy(NewVisit(start, seg), now)
  BY <1>1, NewVisitHealthy
<1>3. o = [kept EXCEPT ![k] = IF refused THEN NoVisit ELSE NewVisit(start, seg)]
  BY DEF Opened
<1>4. o \in [Key -> Visit \cup {NoVisit}]
  BY <1>2, <1>3
<1>5. ASSUME NEW j \in Key, o[j] # NoVisit
      PROVE  Healthy(o[j], now)
  <2>1. CASE j = k
    BY <1>2, <1>3, <1>5, <2>1
  <2>2. CASE j # k
    <3>1. o[j] = kept[j] /\ o[j] = visits[j] /\ j \in Live
      BY <1>3, <1>5, <2>2 DEF Live
    <3> QED BY <3>1, LiveFacts
  <2> QED BY <2>1, <2>2
<1> QED BY <1>4, <1>5 DEF SlotsHealthy

LEMMA NextIdStep ==
  ASSUME TypeOK, nextId < MaxVisits
  PROVE  nextId + 1 \in 0..MaxVisits
BY TrackerAssumption DEF TypeOK, TrackerAssumption

LEMMA ObserveOpenInv ==
  ASSUME IInv, NEW k \in Key, NEW preRoll \in PreRoll, NEW refused \in FloorReadings,
         ObserveOpen(k, preRoll, refused)
  PROVE  IInv'
<1>1. /\ nextId' = nextId + 1 /\ nextId < MaxVisits /\ phase' = "top"
      /\ now' = now /\ windows' = windows
  BY DEF ObserveOpen
<1>2. PICK kept \in Pruned(visits) : visits' = Opened(kept, k, now - preRoll, 0, refused)
  BY DEF ObserveOpen
<1>3. TypeOK /\ now \in Nat /\ refused \in BOOLEAN
      /\ visits \in [Key -> Visit \cup {NoVisit}]
  BY TrackerAssumption DEF IInv, TypeOK, TrackerAssumption
<1>4. /\ now - preRoll \in Int /\ now - preRoll <= now
      /\ now - (now - preRoll) <= MaxLag
  BY <1>3, KnobTypes, MaxLagBounds, TrackerAssumption DEF TrackerAssumption
<1>5. /\ kept \in [Key -> Visit \cup {NoVisit}]
      /\ \A j \in Key : kept[j] = NoVisit \/ kept[j] = visits[j]
  BY <1>3, PrunedSlots
<1>6. SlotsHealthy(visits')
  BY <1>2, <1>3, <1>4, <1>5, OpenedSlots
<1>7. nextId' \in 0..MaxVisits
  BY <1>1, <1>3, NextIdStep
<1>8. OldOrSound(windows')
  BY <1>1 DEF OldOrSound
<1> QED BY <1>1, <1>6, <1>7, <1>8, TopInv

LEMMA ObserveCapSplitInv ==
  ASSUME IInv, NEW k \in Key, NEW cap \in Cap,
         NEW low \in FloorReadings, NEW refused \in FloorReadings,
         ObserveCapSplit(k, cap, low, refused)
  PROVE  IInv'
<1> DEFINE r == visits[k]
           boundary == r.started + cap
<1>0. PICK upTo \in Copies(boundary, now) :
        windows' = windows \cup {Closed(k, r, boundary, low, upTo)}
  BY DEF ObserveCapSplit
<1>1. /\ nextId' = nextId + 1 /\ nextId < MaxVisits /\ phase' = "top"
      /\ now' = now /\ k \in Live /\ phase = "observe"
      /\ now - r.started >= cap
      /\ visits' = Opened(visits, k, boundary, r.seg + 1, refused)
  BY DEF ObserveCapSplit
<1>2. /\ TypeOK /\ low \in BOOLEAN /\ refused \in BOOLEAN
      /\ visits \in [Key -> Visit \cup {NoVisit}]
  BY TrackerAssumption DEF IInv, TypeOK, TrackerAssumption
<1>3. r \in Visit /\ Healthy(r, now) /\ now \in Nat /\ now <= r.seen + MaxGrace
  BY <1>1, LiveFacts
<1>4. cap \in Nat /\ cap >= 1 /\ MinCap <= cap /\ cap <= MaxCap
  BY KnobTypes
<1>5. r.started \in Nat /\ r.seen \in Nat /\ r.seg \in Nat
  BY <1>3 DEF Visit
<1>6. /\ boundary \in Int /\ r.started <= boundary /\ boundary <= now
      /\ boundary < r.started + MaxCap + MaxGrace
      /\ r.seen - boundary <= MaxCap - MinCap
  BY <1>1, <1>3, <1>4, <1>5, TrackerAssumption DEF Healthy, TrackerAssumption
<1>7. now - boundary <= MaxLag
  BY <1>3, <1>4, <1>5, MaxLagBounds, TrackerAssumption DEF Healthy, TrackerAssumption
<1>8. /\ Closed(k, r, boundary, low, upTo) \in Window
      /\ Sound(Closed(k, r, boundary, low, upTo), now)
  BY <1>2, <1>3, <1>6, ClosedSound
<1>9. SlotsHealthy(visits')
  <2>1. r.seg + 1 \in Nat
    BY <1>5
  <2> QED BY <1>1, <1>2, <1>6, <1>7, <2>1, OpenedSlots
<1>10. nextId' \in 0..MaxVisits
  BY <1>1, <1>2, NextIdStep
<1>11. OldOrSound(windows')
  BY <1>0, <1>8 DEF OldOrSound
<1> QED BY <1>1, <1>9, <1>10, <1>11, TopInv

LEMMA ObserveLateInv ==
  ASSUME IInv, NEW k \in Key, NEW grace \in Grace, NEW cap \in Cap,
         NEW preRoll \in PreRoll,
         NEW low \in FloorReadings, NEW refused \in FloorReadings,
         ObserveLate(k, grace, cap, preRoll, low, refused)
  PROVE  IInv'
<1> DEFINE r == visits[k]
           end == Earlier(r.seen + grace, now)
           others == [visits EXCEPT ![k] = NoVisit]
<1>0. PICK upTo \in Copies(end, now) :
        windows' = windows \cup {Closed(k, r, end, low, upTo)}
  BY DEF ObserveLate
<1>1. /\ nextId' = nextId + 1 /\ nextId < MaxVisits /\ phase' = "top"
      /\ now' = now /\ k \in Live /\ now > r.seen + grace
  BY DEF ObserveLate
<1>2. PICK kept \in Pruned(others) : visits' = Opened(kept, k, now - preRoll, 0, refused)
  BY DEF ObserveLate
<1>3. /\ TypeOK /\ low \in BOOLEAN /\ refused \in BOOLEAN
      /\ visits \in [Key -> Visit \cup {NoVisit}]
  BY TrackerAssumption DEF IInv, TypeOK, TrackerAssumption
<1>4. r \in Visit /\ Healthy(r, now) /\ now \in Nat
  BY <1>1, LiveFacts
<1>5. r.started \in Nat /\ r.seen \in Nat /\ grace \in Nat /\ grace <= MaxGrace
  BY <1>4, KnobTypes DEF Visit
<1>6. end = r.seen + grace
  BY <1>1, <1>4, <1>5 DEF Earlier
<1>7. /\ end \in Int /\ r.started <= end /\ end <= now
      /\ end < r.started + MaxCap + MaxGrace
      /\ r.seen - end <= MaxCap - MinCap
  BY <1>1, <1>4, <1>5, <1>6, TrackerAssumption DEF Healthy, TrackerAssumption
<1>8. /\ Closed(k, r, end, low, upTo) \in Window
      /\ Sound(Closed(k, r, end, low, upTo), now)
  BY <1>3, <1>4, <1>7, ClosedSound
<1>9. /\ kept \in [Key -> Visit \cup {NoVisit}]
      /\ \A j \in Key : kept[j] = NoVisit \/ kept[j] = visits[j]
  <2>1. others \in [Key -> Visit \cup {NoVisit}]
    BY <1>3
  <2>2. \A j \in Key : others[j] = NoVisit \/ others[j] = visits[j]
    BY <1>3
  <2> QED BY <2>1, <2>2, PrunedSlots
<1>10. /\ now - preRoll \in Int /\ now - preRoll <= now
       /\ now - (now - preRoll) <= MaxLag
  BY <1>4, KnobTypes, MaxLagBounds, TrackerAssumption DEF TrackerAssumption
<1>11. SlotsHealthy(visits')
  BY <1>2, <1>3, <1>9, <1>10, OpenedSlots
<1>12. nextId' \in 0..MaxVisits
  BY <1>1, <1>3, NextIdStep
<1>13. OldOrSound(windows')
  BY <1>0, <1>8 DEF OldOrSound
<1> QED BY <1>1, <1>11, <1>12, <1>13, TopInv

\* An extended record is a record, of the same visit.
LEMMA ExtendedIs ==
  ASSUME NEW r \in Visit, NEW low \in BOOLEAN, now \in Nat, NEW upTo \in Copies(now, now)
  PROVE  LET s == Extended(r, low, upTo) IN
         /\ s \in Visit /\ s # NoVisit
         /\ s.id = r.id /\ s.start = r.start /\ s.seg = r.seg /\ s.started = r.started
         /\ s.seen = now /\ s.copied = Footage(r, low, upTo)
<1>1. Footage(r, low, upTo) \in Int /\ (r.starved \/ low) \in BOOLEAN
  BY FootageType DEF Visit
<1>2. Extended(r, low, upTo) =
        [r EXCEPT !.seen = now, !.copied = Footage(r, low, upTo),
                  !.starved = r.starved \/ low]
  BY DEF Extended, Visit
<1>3. Extended(r, low, upTo) \in Visit
  BY <1>1, <1>2 DEF Visit
<1> QED BY <1>2, <1>3, TrackerAssumption DEF Visit, TrackerAssumption

LEMMA ObserveExtendInv ==
  ASSUME IInv, NEW k \in Key, NEW grace \in Grace, NEW cap \in Cap,
         NEW low \in FloorReadings, ObserveExtend(k, grace, cap, low)
  PROVE  IInv'
<1> DEFINE r == visits[k]
<1>0. PICK upTo \in Copies(now, now) :
        visits' = [visits EXCEPT ![k] = Extended(@, low, upTo)]
  BY DEF ObserveExtend
<1> DEFINE s == Extended(r, low, upTo)
<1>1. /\ k \in Live /\ phase' = "top" /\ now' = now /\ nextId' = nextId
      /\ windows' = windows /\ now - r.started < cap
  BY DEF ObserveExtend
<1>2. TypeOK /\ low \in BOOLEAN /\ visits \in [Key -> Visit \cup {NoVisit}]
      /\ nextId \in 0..MaxVisits
  BY TrackerAssumption DEF IInv, TypeOK, TrackerAssumption
<1>3. r \in Visit /\ Healthy(r, now) /\ now \in Nat
  BY <1>1, LiveFacts
<1>4. visits' = [visits EXCEPT ![k] = s]
  BY <1>0, <1>2
<1>5. /\ s \in Visit /\ s.start = r.start /\ s.started = r.started /\ s.seen = now
      /\ s.copied = Footage(r, low, upTo)
  BY <1>2, <1>3, ExtendedIs
<1>6. Healthy(s, now)
  <2>1. upTo \in Int /\ upTo <= now
    BY <1>2, <1>3, FootageType
  <2>2. r.copied \in Int /\ r.started \in Nat /\ r.start \in Int /\ r.seen \in Nat
    BY <1>3 DEF Visit
  <2>3. Footage(r, low, upTo) <= now
    BY <1>3, <2>1, <2>2 DEF Footage, Later, Healthy
  <2> HIDE DEF s
  <2> QED BY <1>1, <1>3, <1>5, <2>2, <2>3, KnobTypes, TrackerAssumption
          DEF Healthy, TrackerAssumption
<1> HIDE DEF s
<1>7. SlotsHealthy(visits')
  <2>1. ASSUME NEW j \in Key, visits'[j] # NoVisit PROVE Healthy(visits'[j], now)
    <3>1. CASE j = k
      BY <1>2, <1>4, <1>6, <3>1
    <3>2. CASE j # k
      <4>1. visits'[j] = visits[j] /\ j \in Live
        BY <1>2, <1>4, <2>1, <3>2 DEF Live
      <4> QED BY <4>1, LiveFacts
    <3> QED BY <3>1, <3>2
  <2> QED BY <1>2, <1>4, <1>5, <2>1 DEF SlotsHealthy
<1>8. OldOrSound(windows')
  BY <1>1 DEF OldOrSound
<1> QED BY <1>1, <1>2, <1>7, <1>8, TopInv

LEMMA NoDetectionInv ==
  ASSUME IInv, NoDetection
  PROVE  IInv'
BY DEF IInv, TypeOK, RecordsHealthy, Ticked, WindowsSound, Healthy, Sound,
       NoDetection, Live

-----------------------------------------------------------------------------
(* The theorems *)

LEMMA InitInv == Init => IInv
BY TrackerAssumption
DEF Init, IInv, TypeOK, RecordsHealthy, Ticked, WindowsSound, Live, TrackerAssumption

LEMMA NextInv == IInv /\ [Next]_vars => IInv'
<1> SUFFICES ASSUME IInv, [Next]_vars PROVE IInv'
  OBVIOUS
<1>1. CASE UNCHANGED vars
  BY <1>1 DEF vars, IInv, TypeOK, RecordsHealthy, Ticked, WindowsSound, Healthy,
              Sound, Live
<1>2. ASSUME NEW t \in now..Horizon, Drain(t) PROVE IInv'
  BY <1>2, DrainInv
<1>3. ASSUME NEW t \in now..Horizon, NEW grace \in Grace, Tick(t, grace) PROVE IInv'
  BY <1>3, TickInv
<1>4. CASE NoDetection
  BY <1>4, NoDetectionInv
<1>5. ASSUME NEW k \in Key, Observe(k) PROVE IInv'
  BY <1>5, ObserveExtendInv, ObserveOpenInv, ObserveCapSplitInv, ObserveLateInv
  DEF Observe
<1> QED BY <1>1, <1>2, <1>3, <1>4, <1>5 DEF Next

LEMMA Invariance == Spec => []IInv
BY InitInv, NextInv, PTL DEF Spec

\* The tracker keeps its types: instants are integers, records and windows are
\* complete, whatever the knobs and the floor readings are.
THEOREM TypeCorrect == Spec => []TypeOK
<1>1. IInv => TypeOK
  BY DEF IInv
<1> QED BY <1>1, Invariance, PTL

\* The cap is a disk guard: no schedule of detections, knob changes, drains and
\* floor readings makes VisitTracker hand out a window as long as the cap, one
\* grace and one start lag together, or one that reaches into the future.
THEOREM WindowsAreBounded == Spec => []WindowBounded
<1>1. IInv => WindowBounded
  BY DEF IInv, WindowsSound, Sound, WindowBounded
<1> QED BY <1>1, Invariance, PTL

\* When no copy was skipped, the footage in scratch falls short of the window
\* finalize checks it against by at most one ring segment, the one every copy
\* withholds, and overshoots it by at most one segment or what the cap was lowered.
THEOREM FootageCoversWindows == Spec => []FootageMatchesWindow
<1>1. IInv => FootageMatchesWindow
  BY DEF IInv, WindowsSound, Sound, FootageMatchesWindow
<1> QED BY <1>1, Invariance, PTL

-----------------------------------------------------------------------------
(* The tracker holds at most max_keys visits                               *)

LiveIn(vs) == {k \in Key : vs[k] # NoVisit}

Bounded(vs) == Cardinality(LiveIn(vs)) <= MaxKeys

\* Pruning leaves room for one more record.
LEMMA PrunedRoom ==
  ASSUME NEW vs \in [Key -> Visit \cup {NoVisit}], Bounded(vs),
         NEW kept \in Pruned(vs)
  PROVE  Cardinality(LiveIn(kept)) < MaxKeys
<1>1. IsFiniteSet(LiveIn(vs)) /\ MaxKeys \in Nat /\ Cardinality(LiveIn(vs)) \in Nat
  BY TrackerAssumption, FS_Subset, FS_CardinalityType DEF TrackerAssumption, LiveIn
<1>2. CASE Cardinality(LiveIn(vs)) < MaxKeys
  BY <1>2 DEF Pruned, LiveIn
<1>3. CASE ~(Cardinality(LiveIn(vs)) < MaxKeys)
  <2>1. PICK k \in LiveIn(vs) : kept = [vs EXCEPT ![k] = NoVisit]
    BY <1>3 DEF Pruned, LiveIn
  <2>2. LiveIn(kept) = LiveIn(vs) \ {k}
    BY <2>1 DEF LiveIn
  <2>3. Cardinality(LiveIn(kept)) = Cardinality(LiveIn(vs)) - 1
    BY <1>1, <2>1, <2>2, FS_RemoveElement
  <2> QED BY <1>1, <2>3 DEF Bounded
<1> QED BY <1>2, <1>3

\* Opening one record where there is room keeps the bound.
LEMMA OpenedBounded ==
  ASSUME NEW kept \in [Key -> Visit \cup {NoVisit}],
         Cardinality(LiveIn(kept)) < MaxKeys,
         NEW k \in Key, NEW start, NEW seg, NEW refused
  PROVE  Bounded(Opened(kept, k, start, seg, refused))
<1> DEFINE o == Opened(kept, k, start, seg, refused)
<1>1. IsFiniteSet(LiveIn(kept)) /\ IsFiniteSet(LiveIn(kept) \cup {k})
      /\ Cardinality(LiveIn(kept)) \in Nat /\ MaxKeys \in Nat
  BY TrackerAssumption, FS_Subset, FS_CardinalityType, FS_AddElement
  DEF TrackerAssumption, LiveIn
<1>2. LiveIn(o) \subseteq LiveIn(kept) \cup {k}
  BY DEF Opened, LiveIn
<1>3. Cardinality(LiveIn(o)) <= Cardinality(LiveIn(kept) \cup {k})
  BY <1>1, <1>2, FS_Subset
<1>4. Cardinality(LiveIn(kept) \cup {k}) <= Cardinality(LiveIn(kept)) + 1
  BY <1>1, FS_AddElement
<1>5. Cardinality(LiveIn(o)) \in Nat /\ Cardinality(LiveIn(kept) \cup {k}) \in Nat
  BY <1>1, <1>2, FS_Subset, FS_CardinalityType
<1> QED BY <1>1, <1>3, <1>4, <1>5 DEF Bounded

\* A map with fewer live keys stays bounded.
LEMMA FewerBounded ==
  ASSUME NEW vs, NEW ws, Bounded(vs), LiveIn(ws) \subseteq LiveIn(vs)
  PROVE  Bounded(ws)
<1>1. IsFiniteSet(LiveIn(vs)) /\ MaxKeys \in Nat /\ Cardinality(LiveIn(vs)) \in Nat
  BY TrackerAssumption, FS_Subset, FS_CardinalityType DEF TrackerAssumption, LiveIn
<1>2. Cardinality(LiveIn(ws)) <= Cardinality(LiveIn(vs))
      /\ Cardinality(LiveIn(ws)) \in Nat
  BY <1>1, FS_Subset, FS_CardinalityType
<1> QED BY <1>1, <1>2 DEF Bounded

\* Once a record is gone there is room, and pruning changes nothing.
LEMMA PrunedIdle ==
  ASSUME NEW vs \in [Key -> Visit \cup {NoVisit}], Bounded(vs),
         NEW k \in LiveIn(vs)
  PROVE  LET others == [vs EXCEPT ![k] = NoVisit]
         IN /\ Pruned(others) = {others}
            /\ Cardinality(LiveIn(others)) < MaxKeys
<1> DEFINE others == [vs EXCEPT ![k] = NoVisit]
<1>1. IsFiniteSet(LiveIn(vs)) /\ MaxKeys \in Nat /\ Cardinality(LiveIn(vs)) \in Nat
  BY TrackerAssumption, FS_Subset, FS_CardinalityType DEF TrackerAssumption, LiveIn
<1>2. LiveIn(others) = LiveIn(vs) \ {k}
  BY DEF LiveIn
<1>3. Cardinality(LiveIn(others)) = Cardinality(LiveIn(vs)) - 1
  BY <1>1, <1>2, FS_RemoveElement
<1>4. Cardinality(LiveIn(others)) < MaxKeys
  BY <1>1, <1>3 DEF Bounded
<1>5. Pruned(others) = {others}
  BY <1>4 DEF Pruned, LiveIn
<1> QED BY <1>4, <1>5

\* The tracker holds at most max_keys records.
LEMMA NextBounded ==
  ASSUME TypeOK, Bounded(visits), [Next]_vars
  PROVE  Bounded(visits')
<1>0. visits \in [Key -> Visit \cup {NoVisit}]
  BY DEF TypeOK
<1>1. CASE UNCHANGED vars
  BY <1>1 DEF vars
<1>2. ASSUME NEW t \in now..Horizon, Drain(t) PROVE Bounded(visits')
  <2>1. LiveIn(visits') = {}
    BY <1>2 DEF Drain, LiveIn
  <2> QED BY <2>1, FewerBounded
<1>3. ASSUME NEW t \in now..Horizon, NEW grace \in Grace, Tick(t, grace)
      PROVE  Bounded(visits')
  <2>1. LiveIn(visits') \subseteq LiveIn(visits)
    BY <1>3 DEF Tick, LiveIn
  <2> QED BY <2>1, FewerBounded
<1>4. CASE NoDetection
  BY <1>4 DEF NoDetection
<1>5. ASSUME NEW k \in Key, NEW grace \in Grace, NEW cap \in Cap,
             NEW low \in FloorReadings, ObserveExtend(k, grace, cap, low)
      PROVE  Bounded(visits')
  <2>1. LiveIn(visits') \subseteq LiveIn(visits)
    BY <1>0, <1>5 DEF ObserveExtend, LiveIn, Live
  <2> QED BY <2>1, FewerBounded
<1>6. ASSUME NEW k \in Key, NEW preRoll \in PreRoll, NEW refused \in FloorReadings,
             ObserveOpen(k, preRoll, refused)
      PROVE  Bounded(visits')
  <2>1. PICK kept \in Pruned(visits) :
          visits' = Opened(kept, k, now - preRoll, 0, refused)
    BY <1>6 DEF ObserveOpen
  <2>2. kept \in [Key -> Visit \cup {NoVisit}]
    BY <1>0, PrunedSlots
  <2> QED BY <1>0, <2>1, <2>2, PrunedRoom, OpenedBounded
<1>7. ASSUME NEW k \in Key, NEW cap \in Cap, NEW low \in FloorReadings,
             NEW refused \in FloorReadings, ObserveCapSplit(k, cap, low, refused)
      PROVE  Bounded(visits')
  <2>1. k \in Live
        /\ visits' = Opened(visits, k, visits[k].started + cap, visits[k].seg + 1, refused)
    BY <1>7 DEF ObserveCapSplit
  <2>2. LiveIn(visits') \subseteq LiveIn(visits)
    BY <1>0, <2>1 DEF Opened, LiveIn, Live
  <2> QED BY <2>2, FewerBounded
<1>8. ASSUME NEW k \in Key, NEW grace \in Grace, NEW cap \in Cap,
             NEW preRoll \in PreRoll, NEW low \in FloorReadings,
             NEW refused \in FloorReadings,
             ObserveLate(k, grace, cap, preRoll, low, refused)
      PROVE  Bounded(visits')
  <2> DEFINE others == [visits EXCEPT ![k] = NoVisit]
  <2>1. k \in LiveIn(visits)
    BY <1>8 DEF ObserveLate, Live, LiveIn
  <2>2. PICK kept \in Pruned(others) :
          visits' = Opened(kept, k, now - preRoll, 0, refused)
    BY <1>8 DEF ObserveLate
  <2>3. kept = others /\ Cardinality(LiveIn(others)) < MaxKeys
    BY <1>0, <2>1, <2>2, PrunedIdle
  <2>4. others \in [Key -> Visit \cup {NoVisit}]
    BY <1>0
  <2> QED BY <2>2, <2>3, <2>4, OpenedBounded
<1> QED BY <1>1, <1>2, <1>3, <1>4, <1>5, <1>6, <1>7, <1>8 DEF Next, Observe

LEMMA InitBounded == Init => Bounded(visits)
<1> SUFFICES ASSUME Init PROVE Bounded(visits)
  OBVIOUS
<1>1. LiveIn(visits) = {}
  BY DEF Init, LiveIn
<1> QED BY <1>1, FS_EmptySet, TrackerAssumption DEF Bounded, TrackerAssumption

LEMMA BoundInvariant == Spec => []Bounded(visits)
<1>1. TypeOK /\ Bounded(visits) /\ [Next]_vars => Bounded(visits)'
  BY NextBounded DEF Bounded, LiveIn
<1> QED BY <1>1, InitBounded, TypeCorrect, PTL DEF Spec

-----------------------------------------------------------------------------

(* The windows of one key, in the order of their identifiers                *)

\* A live record r of key k continues the window before it, and its own window will come
\* after every window of the key so far.
Continues(k, r) ==
  /\ r.seg > 0 => \E p \in windows : /\ p.key = k /\ p.seg = r.seg - 1
                                     /\ p.end = r.start /\ p.id < r.id
  /\ \A w \in windows : w.key = k => w.id < r.id /\ w.end <= r.start + MaxPreRoll

Ordered ==
  /\ \A w \in windows : w.id < nextId
  /\ \A k \in Live : visits[k].id < nextId /\ Continues(k, visits[k])
  /\ ContinuationAdjacent
  /\ OverlapAtMostPreRoll

\* A window that is new closes the live record of its key.
ClosesItsRecord(w) ==
  /\ w.key \in Live
  /\ w.id = visits[w.key].id /\ w.start = visits[w.key].start /\ w.seg = visits[w.key].seg

\* The record of key k goes on, and no window of its key is new.
GoesOn(k) ==
  /\ k \in Live
  /\ visits'[k].id = visits[k].id /\ visits'[k].start = visits[k].start
  /\ visits'[k].seg = visits[k].seg
  /\ \A w \in windows' \ windows : w.key # k

\* The record of key k is new, and starts no earlier than the pre-roll before the end of
\* any window of its key.
IsNew(k) ==
  /\ visits'[k].id = nextId /\ nextId' = nextId + 1
  /\ visits'[k].seg > 0 => \E p \in windows' : /\ p.key = k /\ p.seg = visits'[k].seg - 1
                                               /\ p.end = visits'[k].start /\ p.id < nextId
  /\ \A w \in windows' : w.key = k => w.end <= visits'[k].start + MaxPreRoll

LEMMA OrderedTypes ==
  ASSUME TypeOK
  PROVE  /\ nextId \in Nat /\ now \in Nat /\ MaxPreRoll \in Nat
         /\ \A k \in Live : /\ k \in Key /\ visits[k] \in Visit /\ visits[k].id \in Nat
                            /\ visits[k].start \in Int /\ visits[k].seg \in Nat
         /\ \A w \in windows : /\ w.id \in Nat /\ w.seg \in Nat /\ w.start \in Int
                               /\ w.end \in Int /\ w.key \in Key
BY TrackerAssumption DEF TrackerAssumption, TypeOK, Live, Visit, Window

\* Steps that close and open records in this way keep the order.
LEMMA OrderKept ==
  ASSUME TypeOK, TypeOK', Ordered, windows \subseteq windows',
         nextId' \in {nextId, nextId + 1},
         \A w \in windows' \ windows : ClosesItsRecord(w),
         \A k \in Live' : GoesOn(k) \/ IsNew(k)
  PROVE  Ordered'
<1>1. /\ nextId \in Nat /\ MaxPreRoll \in Nat /\ nextId' \in Nat /\ nextId <= nextId'
      /\ \A w \in windows' : /\ w.id \in Nat /\ w.seg \in Nat /\ w.start \in Int
                             /\ w.end \in Int /\ w.key \in Key
      /\ \A k \in Live' : /\ k \in Key /\ visits'[k].id \in Nat
                          /\ visits'[k].start \in Int /\ visits'[k].seg \in Nat
  <2>1. nextId \in Nat /\ MaxPreRoll \in Nat
    BY OrderedTypes
  <2>2. /\ \A w \in windows' : /\ w.id \in Nat /\ w.seg \in Nat /\ w.start \in Int
                               /\ w.end \in Int /\ w.key \in Key
        /\ \A k \in Live' : /\ k \in Key /\ visits'[k].id \in Nat
                            /\ visits'[k].start \in Int /\ visits'[k].seg \in Nat
    BY DEF TypeOK, Live, Visit, Window
  <2>. QED  BY <2>1, <2>2
<1>2. \A w \in windows : w.id < nextId
  BY DEF Ordered
<1>3. \A w \in windows' \ windows :
        /\ w.id < nextId
        /\ w.seg > 0 => \E p \in windows : /\ p.key = w.key /\ p.seg = w.seg - 1
                                           /\ p.end = w.start /\ p.id < w.id
        /\ \A v \in windows : v.key = w.key => v.id < w.id /\ v.end <= w.start + MaxPreRoll
  BY DEF ClosesItsRecord, Ordered, Continues
<1>4. \A w \in windows' : w.id < nextId'
  BY <1>1, <1>2, <1>3
<1>5. ASSUME NEW k \in Live'
      PROVE  visits'[k].id < nextId' /\ Continues(k, visits[k])'
  <2>1. CASE GoesOn(k)
    <3>1. visits[k].id < nextId /\ Continues(k, visits[k])
      BY <2>1 DEF GoesOn, Ordered
    <3>2. visits'[k].id < nextId'
      BY <1>1, <1>5, <2>1, <3>1 DEF GoesOn
    <3>. QED  BY <2>1, <3>1, <3>2 DEF GoesOn, Continues
  <2>2. CASE IsNew(k)
    <3>1. \A w \in windows' : w.id < nextId
      BY <1>2, <1>3
    <3>. QED  BY <1>1, <2>2, <3>1 DEF IsNew, Continues
  <2>. QED  BY <2>1, <2>2
<1>6. ContinuationAdjacent'
  <2>1. \A k \in Live' : visits'[k].seg > 0 =>
          \E p \in windows' : /\ p.key = k /\ p.seg = visits'[k].seg - 1
                              /\ p.end = visits'[k].start
    BY <1>5 DEF Continues
  <2>2. \A w \in windows' : w.seg > 0 =>
          \E p \in windows' : /\ p.key = w.key /\ p.seg = w.seg - 1
                              /\ p.end = w.start /\ p.id < w.id
    BY <1>3 DEF Ordered, ContinuationAdjacent
  <2>. QED  BY <2>1, <2>2 DEF ContinuationAdjacent
<1>7. OverlapAtMostPreRoll'
  <2> SUFFICES ASSUME NEW w1 \in windows', NEW w2 \in windows',
                      w1.key = w2.key, w1.id < w2.id
               PROVE  w1.end <= w2.start + MaxPreRoll
    BY DEF OverlapAtMostPreRoll
  <2>1. CASE w1 \in windows /\ w2 \in windows
    BY <2>1 DEF Ordered, OverlapAtMostPreRoll
  <2>2. CASE w1 \in windows /\ w2 \notin windows
    BY <1>3, <2>2
  <2>3. CASE w1 \notin windows /\ w2 \in windows
    BY <1>1, <1>3, <2>3
  <2>4. CASE w1 \notin windows /\ w2 \notin windows
    BY <1>1, <2>4 DEF ClosesItsRecord
  <2>. QED  BY <2>1, <2>2, <2>3, <2>4
<1>. QED  BY <1>4, <1>5, <1>6, <1>7 DEF Ordered

\* What a record becomes when a slot is opened, closed or left.
LEMMA OpenedIs ==
  ASSUME NEW kept \in [Key -> Visit \cup {NoVisit}], NEW k \in Key, NEW start, NEW seg,
         NEW refused \in BOOLEAN
  PROVE  LET o == Opened(kept, k, start, seg, refused) IN
         /\ \A j \in Key : j # k => o[j] = kept[j]
         /\ o[k] # NoVisit => o[k] = NewVisit(start, seg)
BY DEF Opened

LEMMA InitOrdered == Init => Ordered
BY DEF Init, Ordered, ContinuationAdjacent, OverlapAtMostPreRoll, Live

LEMMA NextOrdered ==
  ASSUME IInv, IInv', Ordered, [Next]_vars
  PROVE  Ordered'
<1>0. /\ TypeOK /\ TypeOK' /\ WindowsSound /\ WindowsSound'
      /\ visits \in [Key -> Visit \cup {NoVisit}]
      /\ \A b \in FloorReadings : b \in BOOLEAN
  BY TrackerAssumption DEF IInv, TypeOK, TrackerAssumption
<1>a. /\ nextId \in Nat /\ now \in Nat /\ MaxPreRoll \in Nat
      /\ \A k \in Live : /\ k \in Key /\ visits[k] \in Visit /\ visits[k].id \in Nat
                         /\ visits[k].start \in Int /\ visits[k].seg \in Nat
  BY <1>0, OrderedTypes
<1>1. ASSUME windows' = windows, nextId' = nextId,
             \A k \in Live' : /\ k \in Live /\ visits'[k].id = visits[k].id
                              /\ visits'[k].start = visits[k].start
                              /\ visits'[k].seg = visits[k].seg
      PROVE  Ordered'
  BY <1>0, <1>1, OrderKept DEF GoesOn
<1>2. CASE UNCHANGED vars
  BY <1>1, <1>2 DEF vars, Live
<1>3. ASSUME NEW t \in now..Horizon, Drain(t)  PROVE Ordered'
  <2>1. Live' = {} /\ nextId' = nextId
    BY <1>3 DEF Drain, Live
  <2>2. PICK low \in [Live -> FloorReadings], upTo \in [Live -> (-Segment)..t] :
          windows' = windows \cup
            {Closed(k, visits[k], Earlier(visits[k].seen, t), low[k], upTo[k]) :
               k \in Live}
    BY <1>3 DEF Drain
  <2>3. \A w \in windows' \ windows : ClosesItsRecord(w)
    BY <2>2 DEF Closed, ClosesItsRecord
  <2>. QED  BY <1>0, <2>1, <2>2, <2>3, OrderKept
<1>4. ASSUME NEW t \in now..Horizon, NEW grace \in Grace, Tick(t, grace)  PROVE Ordered'
  <2> DEFINE expired == {k \in Live : t > visits[k].seen + grace}
             End(k) == Earlier(visits[k].seen + grace, t)
  <2>1. PICK low \in [expired -> FloorReadings], upTo \in [expired -> (-Segment)..t] :
          windows' = windows \cup
            {Closed(k, visits[k], End(k), low[k], upTo[k]) : k \in expired}
    BY <1>4 DEF Tick
  <2>2. /\ nextId' = nextId
        /\ visits' = [k \in Key |-> IF k \in expired THEN NoVisit ELSE visits[k]]
    BY <1>4 DEF Tick
  <2>3. \A w \in windows' \ windows : ClosesItsRecord(w) /\ w.key \in expired
    BY <2>1 DEF Closed, ClosesItsRecord
  <2>4. \A k \in Live' : k \in Live /\ k \notin expired /\ visits'[k] = visits[k]
    BY <2>2 DEF Live
  <2>. QED  BY <1>0, <2>1, <2>2, <2>3, <2>4, OrderKept DEF GoesOn
<1>5. CASE NoDetection
  BY <1>1, <1>5 DEF NoDetection, Live
<1>6. ASSUME NEW k \in Key, NEW grace \in Grace, NEW cap \in Cap,
             NEW low \in FloorReadings, ObserveExtend(k, grace, cap, low)
      PROVE  Ordered'
  <2>1. k \in Live /\ windows' = windows /\ nextId' = nextId
    BY <1>6 DEF ObserveExtend
  <2>a. PICK upTo \in Copies(now, now) :
          visits' = [visits EXCEPT ![k] = Extended(@, low, upTo)]
    BY <1>6 DEF ObserveExtend
  <2> DEFINE r == visits[k]
             s == Extended(r, low, upTo)
  <2>2. visits' = [visits EXCEPT ![k] = s]
    BY <1>0, <2>a
  <2>3. s.id = r.id /\ s.start = r.start /\ s.seg = r.seg
    BY <1>0, <1>a, <2>1, ExtendedIs
  <2> HIDE DEF s
  <2>4. \A j \in Live' : /\ j \in Live /\ visits'[j].id = visits[j].id
                         /\ visits'[j].start = visits[j].start
                         /\ visits'[j].seg = visits[j].seg
    BY <1>0, <2>1, <2>2, <2>3 DEF Live
  <2>. QED  BY <1>1, <2>1, <2>4
<1>7. ASSUME NEW k \in Key, NEW preRoll \in PreRoll, NEW refused \in FloorReadings,
             ObserveOpen(k, preRoll, refused)
      PROVE  Ordered'
  <2>1. PICK kept \in Pruned(visits) : visits' = Opened(kept, k, now - preRoll, 0, refused)
    BY <1>7 DEF ObserveOpen
  <2>2. windows' = windows /\ now' = now /\ nextId' = nextId + 1
    BY <1>7 DEF ObserveOpen
  <2>3. /\ kept \in [Key -> Visit \cup {NoVisit}]
        /\ \A j \in Key : kept[j] = NoVisit \/ kept[j] = visits[j]
    BY <1>0, PrunedSlots
  <2>4. ASSUME NEW j \in Live'  PROVE GoesOn(j) \/ IsNew(j)
    <3>1. CASE j # k
      <4>1. visits'[j] = visits[j] /\ j \in Live
        BY <1>0, <2>1, <2>3, <2>4, <3>1, OpenedIs DEF Live
      <4>. QED  BY <2>2, <4>1 DEF GoesOn
    <3>2. CASE j = k
      <4>1. visits'[k] = NewVisit(now - preRoll, 0)
        BY <1>0, <2>1, <2>3, <2>4, <3>2, OpenedIs DEF Live
      <4>2. \A w \in windows : w.end <= (now - preRoll) + MaxPreRoll
        BY <1>0, <1>a, OrderedTypes, KnobTypes DEF WindowsSound, Sound
      <4>. QED  BY <2>2, <3>2, <4>1, <4>2 DEF IsNew, NewVisit
    <3>. QED  BY <3>1, <3>2
  <2>. QED  BY <1>0, <2>2, <2>4, OrderKept
<1>8. ASSUME NEW k \in Key, NEW cap \in Cap, NEW low \in FloorReadings,
             NEW refused \in FloorReadings, ObserveCapSplit(k, cap, low, refused)
      PROVE  Ordered'
  <2> DEFINE r == visits[k]
             boundary == r.started + cap
  <2>a. PICK upTo \in Copies(boundary, now) :
          windows' = windows \cup {Closed(k, r, boundary, low, upTo)}
    BY <1>8 DEF ObserveCapSplit
  <2> DEFINE w == Closed(k, r, boundary, low, upTo)
  <2>1. /\ k \in Live /\ windows' = windows \cup {w} /\ nextId' = nextId + 1
        /\ visits' = Opened(visits, k, boundary, r.seg + 1, refused)
    BY <1>8, <2>a DEF ObserveCapSplit
  <2>2. w.key = k /\ w.id = r.id /\ w.start = r.start /\ w.seg = r.seg /\ w.end = boundary
    BY DEF Closed
  <2>3. /\ r.id < nextId /\ r.start <= r.started /\ r.started \in Nat /\ cap \in Nat
        /\ r.start \in Int /\ r.seg \in Nat /\ Continues(k, r)
    BY <1>a, <2>1, LiveFacts, KnobTypes DEF Healthy, Visit, Ordered
  <2> HIDE DEF w
  <2>4. \A v \in windows' \ windows : ClosesItsRecord(v) /\ v.key = k
    BY <2>1, <2>2 DEF ClosesItsRecord
  <2>5. ASSUME NEW j \in Live'  PROVE GoesOn(j) \/ IsNew(j)
    <3>1. CASE j # k
      <4>1. visits'[j] = visits[j] /\ j \in Live
        BY <1>0, <2>1, <2>5, <3>1, OpenedIs DEF Live
      <4>. QED  BY <2>4, <3>1, <4>1 DEF GoesOn
    <3>2. CASE j = k
      <4>1. visits'[k] = NewVisit(boundary, r.seg + 1)
        BY <1>0, <2>1, <2>5, <3>2, OpenedIs DEF Live
      <4>2. /\ visits'[k].id = nextId /\ visits'[k].start = boundary
            /\ visits'[k].seg = r.seg + 1
        BY <4>1 DEF NewVisit
      <4>3. \A v \in windows' : v.key = k => v.end <= boundary + MaxPreRoll
        BY <1>a, <2>1, <2>2, <2>3, OrderedTypes, <1>0 DEF Continues
      <4>4. w \in windows' /\ w.seg = (r.seg + 1) - 1
        BY <2>1, <2>2, <2>3
      <4>. QED  BY <2>1, <2>2, <2>3, <3>2, <4>2, <4>3, <4>4 DEF IsNew
    <3>. QED  BY <3>1, <3>2
  <2>. QED  BY <1>0, <2>1, <2>4, <2>5, OrderKept
<1>9. ASSUME NEW k \in Key, NEW grace \in Grace, NEW cap \in Cap,
             NEW preRoll \in PreRoll, NEW low \in FloorReadings,
             NEW refused \in FloorReadings,
             ObserveLate(k, grace, cap, preRoll, low, refused)
      PROVE  Ordered'
  <2> DEFINE r == visits[k]
             others == [visits EXCEPT ![k] = NoVisit]
             end == Earlier(r.seen + grace, now)
  <2>a. PICK upTo \in Copies(end, now) :
          windows' = windows \cup {Closed(k, r, end, low, upTo)}
    BY <1>9 DEF ObserveLate
  <2> DEFINE w == Closed(k, r, end, low, upTo)
  <2>1. /\ k \in Live /\ windows' = windows \cup {w} /\ nextId' = nextId + 1 /\ now' = now
    BY <1>9, <2>a DEF ObserveLate
  <2>2. PICK kept \in Pruned(others) : visits' = Opened(kept, k, now - preRoll, 0, refused)
    BY <1>9 DEF ObserveLate
  <2>3. w.key = k /\ w.id = r.id /\ w.start = r.start /\ w.seg = r.seg
    BY DEF Closed
  <2> HIDE DEF w
  <2>4. /\ kept \in [Key -> Visit \cup {NoVisit}]
        /\ \A j \in Key : kept[j] = NoVisit \/ kept[j] = visits[j]
    <3>1. /\ others \in [Key -> Visit \cup {NoVisit}]
          /\ \A j \in Key : others[j] = NoVisit \/ others[j] = visits[j]
      BY <1>0
    <3>. QED  BY <3>1, PrunedSlots
  <2>5. \A v \in windows' \ windows : ClosesItsRecord(v) /\ v.key = k
    BY <2>1, <2>3 DEF ClosesItsRecord
  <2>6. ASSUME NEW j \in Live'  PROVE GoesOn(j) \/ IsNew(j)
    <3>1. CASE j # k
      <4>1. visits'[j] = visits[j] /\ j \in Live
        BY <1>0, <2>2, <2>4, <2>6, <3>1, OpenedIs DEF Live
      <4>. QED  BY <2>5, <3>1, <4>1 DEF GoesOn
    <3>2. CASE j = k
      <4>1. visits'[k] = NewVisit(now - preRoll, 0)
        BY <1>0, <2>2, <2>4, <2>6, <3>2, OpenedIs DEF Live
      <4>2. \A v \in windows' : v.end \in Int /\ v.end <= now
        BY <1>0, <2>1 DEF WindowsSound, Sound, TypeOK, Window
      <4>3. \A v \in windows' : v.end <= (now - preRoll) + MaxPreRoll
        BY <1>a, <4>2, KnobTypes
      <4>. QED  BY <2>1, <3>2, <4>1, <4>3 DEF IsNew, NewVisit
    <3>. QED  BY <3>1, <3>2
  <2>. QED  BY <1>0, <2>1, <2>5, <2>6, OrderKept
<1>. QED  BY <1>2, <1>3, <1>4, <1>5, <1>6, <1>7, <1>8, <1>9 DEF Next, Observe

LEMMA OrderInvariant == Spec => []Ordered
<1>1. IInv /\ IInv' /\ Ordered /\ [Next]_vars => Ordered'
  BY NextOrdered
<1>. QED  BY <1>1, Invariance, InitOrdered, PTL DEF Spec

\* Continuations tile (observe()'s cap split): a continuation starts exactly where the
\* window before it ended, however the knobs move.
THEOREM ContinuationsTile == Spec => []ContinuationAdjacent
<1>1. Ordered => ContinuationAdjacent
  BY DEF Ordered
<1>. QED  BY <1>1, OrderInvariant, PTL

\* A later window of a key reaches back into an earlier one by the pre-roll at most, so
\* windows of one key do not pile up.
THEOREM WindowsDoNotPileUp == Spec => []OverlapAtMostPreRoll
<1>1. Ordered => OverlapAtMostPreRoll
  BY DEF Ordered
<1>. QED  BY <1>1, OrderInvariant, PTL

-----------------------------------------------------------------------------
(* No visit vanishes *)

\* What the step makes of the visit of key j: it goes on, it has left a window, or
\* the tracker was full and it was the one unseen for longest.
Accounted(j) ==
  \/ visits'[j] # NoVisit /\ visits'[j].id = visits[j].id
  \/ \E w \in windows' : w.key = j /\ w.id = visits[j].id
  \/ EvictedForRoom(j)

\* A window carries the key and the identifier of its record.
LEMMA ClosedNames ==
  ASSUME NEW k, NEW r, NEW end, NEW low, NEW upTo
  PROVE  /\ Closed(k, r, end, low, upTo).key = k
         /\ Closed(k, r, end, low, upTo).id = r.id
BY DEF Closed

\* The visit of a key whose record was handed to finalize is accounted for.
LEMMA ClosedAccounted ==
  ASSUME NEW j \in Live, NEW end, NEW low, NEW upTo,
         Closed(j, visits[j], end, low, upTo) \in windows'
  PROVE  Accounted(j)
BY ClosedNames DEF Accounted

\* Opening a record touches no other key.
LEMMA OpenedElsewhere ==
  ASSUME NEW kept \in [Key -> Visit \cup {NoVisit}], NEW k \in Key, NEW j \in Key, j # k,
         NEW start, NEW seg, NEW refused
  PROVE  Opened(kept, k, start, seg, refused)[j] = kept[j]
BY DEF Opened

\* Every step accounts for every live visit: pruning takes a record only at the cap
\* (_prune), every other end goes through finalize.
LEMMA StepAccounts ==
  ASSUME TypeOK, Bounded(visits), [Next]_vars, NEW j \in Live
  PROVE  Accounted(j)
<1>0. /\ visits \in [Key -> Visit \cup {NoVisit}] /\ j \in Key /\ visits[j] # NoVisit
      /\ Live = LiveIn(visits) /\ nextId \in Nat
  BY TrackerAssumption DEF TrackerAssumption, TypeOK, Live, LiveIn
<1>1. CASE UNCHANGED vars
  BY <1>0, <1>1 DEF vars, Accounted
<1>2. ASSUME NEW t \in now..Horizon, Drain(t) PROVE Accounted(j)
  <2>1. PICK low \in [Live -> FloorReadings], upTo \in [Live -> (-Segment)..t] :
          windows' = windows \cup
            {Closed(k, visits[k], Earlier(visits[k].seen, t), low[k], upTo[k]) :
               k \in Live}
    BY <1>2 DEF Drain
  <2>2. Closed(j, visits[j], Earlier(visits[j].seen, t), low[j], upTo[j]) \in windows'
    BY <2>1
  <2>. QED  BY <2>2, ClosedAccounted
<1>3. ASSUME NEW t \in now..Horizon, NEW grace \in Grace, Tick(t, grace)
      PROVE  Accounted(j)
  <2>. DEFINE expired == {k \in Live : t > visits[k].seen + grace}
              End(k) == Earlier(visits[k].seen + grace, t)
  <2>1. PICK low \in [expired -> FloorReadings], upTo \in [expired -> (-Segment)..t] :
          windows' = windows \cup
            {Closed(k, visits[k], End(k), low[k], upTo[k]) : k \in expired}
    BY <1>3 DEF Tick
  <2>2. CASE j \in expired
    <3>1. Closed(j, visits[j], End(j), low[j], upTo[j]) \in windows'
      BY <2>1, <2>2
    <3>. QED  BY <3>1, ClosedAccounted
  <2>3. CASE j \notin expired
    <3>1. visits'[j] = visits[j]
      BY <1>0, <1>3, <2>3 DEF Tick
    <3>. QED  BY <1>0, <3>1 DEF Accounted
  <2>. QED  BY <2>2, <2>3
<1>4. CASE NoDetection
  BY <1>0, <1>4 DEF NoDetection, Accounted
<1>5. ASSUME NEW k \in Key, NEW grace \in Grace, NEW cap \in Cap,
             NEW low \in FloorReadings, ObserveExtend(k, grace, cap, low)
      PROVE  Accounted(j)
  <2>1. CASE j = k
    <3>1. visits[k] \in Visit
      BY <1>0, <2>1
    <3>2. visits'[k] \in Visit /\ visits'[k].id = visits[k].id
      <4>1. now \in Nat /\ low \in BOOLEAN
        BY TrackerAssumption DEF TrackerAssumption, TypeOK
      <4>2. PICK upTo \in Copies(now, now) :
              visits' = [visits EXCEPT ![k] = Extended(@, low, upTo)]
        BY <1>5 DEF ObserveExtend
      <4>3. visits'[k] = Extended(visits[k], low, upTo)
        BY <1>0, <4>2
      <4>. QED  BY <3>1, <4>1, <4>3, ExtendedIs
    <3>. QED  BY <2>1, <3>2, TrackerAssumption DEF TrackerAssumption, Accounted
  <2>2. CASE j # k
    <3>1. visits'[j] = visits[j]
      BY <1>0, <1>5, <2>2 DEF ObserveExtend
    <3>. QED  BY <1>0, <3>1 DEF Accounted
  <2>. QED  BY <2>1, <2>2
<1>6. ASSUME NEW k \in Key, NEW preRoll \in PreRoll, NEW refused \in FloorReadings,
             ObserveOpen(k, preRoll, refused)
      PROVE  Accounted(j)
  <2>1. PICK kept \in Pruned(visits) :
          visits' = Opened(kept, k, now - preRoll, 0, refused)
    BY <1>6 DEF ObserveOpen
  <2>2. k \notin Live /\ nextId' = nextId + 1 /\ j # k
    BY <1>0, <1>6 DEF ObserveOpen
  <2>3. CASE Cardinality(Live) < MaxKeys
    <3>1. kept = visits
      BY <1>0, <2>1, <2>3 DEF Pruned, LiveIn
    <3>2. visits'[j] = visits[j]
      BY <1>0, <2>1, <2>2, <3>1, OpenedElsewhere
    <3>. QED  BY <1>0, <3>2 DEF Accounted
  <2>4. CASE ~(Cardinality(Live) < MaxKeys)
    <3>1. Cardinality(Live) \in Nat /\ MaxKeys \in Nat
      BY <1>0, TrackerAssumption, FS_Subset, FS_CardinalityType
      DEF TrackerAssumption, LiveIn
    <3>2. Cardinality(Live) = MaxKeys
      BY <1>0, <2>4, <3>1 DEF Bounded
    <3>3. PICK v \in Live : /\ \A i \in Live : visits[v].seen <= visits[i].seen
                            /\ kept = [visits EXCEPT ![v] = NoVisit]
      BY <1>0, <2>1, <2>4 DEF Pruned, LiveIn
    <3>4. kept \in [Key -> Visit \cup {NoVisit}]
      BY <1>0, <3>3
    <3>5. \A i \in Live \ {v} : visits'[i] = visits[i]
      <4> SUFFICES ASSUME NEW i \in Live \ {v} PROVE visits'[i] = visits[i]
        OBVIOUS
      <4>1. i \in Key /\ i # k /\ kept[i] = visits[i]
        BY <1>0, <2>2, <3>3 DEF Live
      <4>. QED  BY <2>1, <3>4, <4>1, OpenedElsewhere
    <3>6. CASE j = v
      BY <2>2, <3>2, <3>3, <3>5, <3>6 DEF Accounted, EvictedForRoom
    <3>7. CASE j # v
      BY <1>0, <3>5, <3>7 DEF Accounted
    <3>. QED  BY <3>6, <3>7
  <2>. QED  BY <2>3, <2>4
<1>7. ASSUME NEW k \in Key, NEW cap \in Cap, NEW low \in FloorReadings,
             NEW refused \in FloorReadings, ObserveCapSplit(k, cap, low, refused)
      PROVE  Accounted(j)
  <2>1. CASE j = k
    <3>1. \E upTo : Closed(j, visits[j], visits[j].started + cap, low, upTo) \in windows'
      BY <1>7, <2>1 DEF ObserveCapSplit
    <3>. QED  BY <3>1, ClosedAccounted
  <2>2. CASE j # k
    <3>1. visits'[j] = visits[j]
      BY <1>0, <1>7, <2>2, OpenedElsewhere DEF ObserveCapSplit
    <3>. QED  BY <1>0, <3>1 DEF Accounted
  <2>. QED  BY <2>1, <2>2
<1>8. ASSUME NEW k \in Key, NEW grace \in Grace, NEW cap \in Cap,
             NEW preRoll \in PreRoll, NEW low \in FloorReadings,
             NEW refused \in FloorReadings,
             ObserveLate(k, grace, cap, preRoll, low, refused)
      PROVE  Accounted(j)
  <2>. DEFINE others == [visits EXCEPT ![k] = NoVisit]
  <2>1. CASE j = k
    <3>1. \E upTo : Closed(j, visits[j], Earlier(visits[j].seen + grace, now), low, upTo)
                      \in windows'
      BY <1>8, <2>1 DEF ObserveLate
    <3>. QED  BY <3>1, ClosedAccounted
  <2>2. CASE j # k
    <3>1. k \in LiveIn(visits)
      BY <1>8 DEF ObserveLate, Live, LiveIn
    <3>2. PICK kept \in Pruned(others) :
            visits' = Opened(kept, k, now - preRoll, 0, refused)
      BY <1>8 DEF ObserveLate
    <3>3. kept = others
      BY <1>0, <3>1, <3>2, PrunedIdle
    <3>4. kept \in [Key -> Visit \cup {NoVisit}] /\ kept[j] = visits[j]
      BY <1>0, <2>2, <3>3
    <3>5. visits'[j] = visits[j]
      BY <1>0, <2>2, <3>2, <3>4, OpenedElsewhere
    <3>. QED  BY <1>0, <3>5 DEF Accounted
  <2>. QED  BY <2>1, <2>2
<1>. QED  BY <1>1, <1>2, <1>3, <1>4, <1>5, <1>6, <1>7, <1>8 DEF Next, Observe

\* A visit disappears without a window only at max_keys, for a new one, and then it
\* is the one unseen for longest and goes alone (_prune): no other step of the
\* tracker forgets a visit it has not handed to finalize.
THEOREM VisitsAreAccountedFor == Spec => NoVisitVanishes
<1>1. TypeOK /\ Bounded(visits) /\ [Next]_vars
      => [\A k \in Live :
            \/ visits'[k] # NoVisit /\ visits'[k].id = visits[k].id
            \/ \E w \in windows' : w.key = k /\ w.id = visits[k].id
            \/ EvictedForRoom(k)]_vars
  BY StepAccounts DEF Accounted
<1>. QED  BY <1>1, TypeCorrect, BoundInvariant, PTL DEF Spec, NoVisitVanishes
=============================================================================
