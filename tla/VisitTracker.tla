---------------------------- MODULE VisitTracker ----------------------------
(***************************************************************************)
(* The visit state machine (detection/visit.py) driven by the detection    *)
(* loop (detection/detect.py) through the runner's copy side effects       *)
(* (detection/visit_runtime.py), with wall-clock time.                     *)
(*                                                                         *)
(* One loop iteration takes a clock reading, ticks every key, and then     *)
(* observes at most one key (the top-confidence label of the frame) at     *)
(* that SAME reading.  The grace (absence_finalize_s), cap (max_visit_s)   *)
(* and pre-roll knobs are call arguments read from the configuration that  *)
(* a poll thread keeps changing, so every call may see a value of its own: *)
(* each action takes the knobs it reads as parameters.                     *)
(*                                                                         *)
(* Abstractions.  Time is a number of units; clock readings do not go      *)
(* back.  A record in state IDLE is the same as no record: nothing reads   *)
(* it and _prune deletes it before it counts.  The footage a visit has in  *)
(* scratch is summarised by the instant it has been copied up to.  It is   *)
(* copied in whole segments of the pre-roll ring, and the segment that may *)
(* still be being written is left out (preroll.py), so a copy stops short  *)
(* of the instant it was asked for, or runs past it, by one segment at     *)
(* most.  The ring is assumed to be written without gaps, and not to wrap  *)
(* between two copies of one visit.                                        *)
(***************************************************************************)
EXTENDS Integers, FiniteSets

CONSTANTS
  Key,           \* emit keys
  MaxKeys,       \* VisitTracker(max_keys)
  MinGrace, MaxGrace,    \* range of absence_finalize_s
  MinCap, MaxCap,        \* range of max_visit_s
  MaxPreRoll,    \* clip_pre_roll_s is in 0..MaxPreRoll
  Segment,       \* the longest ring segment: segment_s, or the stream's GOP
  FloorReadings, \* what _disk_below_floor can return: a subset of BOOLEAN
  NoVisit,       \* no live record
  Horizon,       \* bound: the last clock reading
  MaxVisits      \* bound: visits opened

VARIABLES
  phase,     \* "top": loop top, before tick; "observe": after tick, this frame
  now,       \* the loop's clock reading
  visits,    \* VisitTracker._visits: Key -> live record, or NoVisit
  nextId,    \* identifiers 0..nextId-1 were handed out (uuid4 in the code)
  windows    \* history: every window handed to finalize

vars == <<phase, now, visits, nextId, windows>>

Grace == MinGrace..MaxGrace

Cap == MinCap..MaxCap

PreRoll == 0..MaxPreRoll

\* started: started_at, seen: last_seen, start: start_ts (nominal window start),
\* seg: segment_index, copied: footage is in scratch up to here, starved: some
\* copy was skipped because the card was below the worker's floor.
Visit == [id: Nat, started: Nat, seen: Nat, start: Int, seg: Nat,
          copied: Int, starved: BOOLEAN]

Window == [key: Key, id: Nat, start: Int, end: Int, seg: Nat, copied: Int,
           starved: BOOLEAN]

ASSUME TrackerAssumption ==
  /\ IsFiniteSet(Key) /\ MaxKeys \in Nat \ {0}
  /\ MinGrace \in Nat \ {0} /\ MaxGrace \in Nat /\ MinGrace <= MaxGrace
  /\ MinCap \in Nat \ {0} /\ MaxCap \in Nat /\ MinCap <= MaxCap
  /\ MaxPreRoll \in Nat /\ Segment \in Nat
  /\ FloorReadings \subseteq BOOLEAN
  /\ Horizon \in Nat /\ MaxVisits \in Nat
  /\ NoVisit \notin Nat /\ NoVisit \notin Visit

Live == {k \in Key : visits[k] # NoVisit}

Later(a, b) == IF a < b THEN b ELSE a

Earlier(a, b) == IF a < b THEN a ELSE b

-----------------------------------------------------------------------------
(* Pieces of the handlers *)

\* Mutant of NewVisit: the segment index is off by one.
NewVisitBadSegment(start, seg) ==
  [id |-> nextId, started |-> now, seen |-> now, start |-> start, seg |-> seg - 1,
   copied |-> start, starved |-> FALSE]

\* VisitTracker._open, with the runner's fresh table entry (last_extend is
\* start_ts: nothing copied yet).
NewVisit(start, seg) ==
  [id |-> nextId, started |-> now, seen |-> now, start |-> start, seg |-> seg,
   copied |-> start, starved |-> FALSE]

\* copy_new_segments at reading t, asked for the footage up to instant until:
\* the instants the copied segments may reach.  The newest segment is withheld, and
\* one that the overlap test (which takes every segment to last segment_s) puts
\* after until is left out; the rest are copied whole.
Copies(until, t) == (until - Segment)..Earlier(until + Segment, t)

\* The footage in scratch after such a copy reached instant upTo; below the floor
\* (low) the copy is skipped.
Footage(r, low, upTo) == IF low THEN r.copied ELSE Later(r.copied, upTo)

\* Mutant of Closed: finalize without the catch-up copy.
ClosedWithoutCatchup(k, r, end, low, upTo) ==
  [key |-> k, id |-> r.id, start |-> r.start, end |-> end, seg |-> r.seg,
   copied |-> r.copied, starved |-> r.starved \/ low]

\* VisitTracker._finalize and the catch-up copy of VisitRunner._on_finalize:
\* the window [start, end] of record r of key k.
Closed(k, r, end, low, upTo) ==
  [key |-> k, id |-> r.id, start |-> r.start, end |-> end, seg |-> r.seg,
   copied |-> Footage(r, low, upTo), starved |-> r.starved \/ low]

\* Mutant of Pruned: evicts the visit that has been going on longest, not the one
\* unseen for longest.
PrunedByStart(vs) ==
  LET live == {k \in Key : vs[k] # NoVisit}
      oldest == {k \in live : \A j \in live : vs[k].started <= vs[j].started}
  IN IF Cardinality(live) < MaxKeys THEN {vs}
     ELSE {[vs EXCEPT ![k] = NoVisit] : k \in oldest}

\* VisitTracker._prune on the live records vs: at the cap, the record seen
\* longest ago is deleted without being finalized.
Pruned(vs) ==
  LET live == {k \in Key : vs[k] # NoVisit}
      oldest == {k \in live : \A j \in live : vs[k].seen <= vs[j].seen}
  IN IF Cardinality(live) < MaxKeys THEN {vs}
     ELSE {[vs EXCEPT ![k] = NoVisit] : k \in oldest}

\* VisitRunner._on_open: below the floor the visit is refused and the tracker
\* forgets the key.
Opened(vs, k, start, seg, refused) ==
  [vs EXCEPT ![k] = IF refused THEN NoVisit ELSE NewVisit(start, seg)]

-----------------------------------------------------------------------------
(* The loop *)

Init ==
  /\ phase = "top"
  /\ now = 0
  /\ visits = [k \in Key |-> NoVisit]
  /\ nextId = 0
  /\ windows = {}

\* Loop top: read the clock and finalize every key whose grace ran out.
Tick(t, grace) ==
  LET expired == {k \in Live : t > visits[k].seen + grace}
      End(k) == Earlier(visits[k].seen + grace, t)
  IN /\ phase = "top"
     /\ now' = t
     /\ visits' = [k \in Key |-> IF k \in expired THEN NoVisit ELSE visits[k]]
     /\ \E low \in [expired -> FloorReadings], upTo \in [expired -> (-Segment)..t] :
          /\ \A k \in expired : upTo[k] \in Copies(End(k), t)
          /\ windows' = windows \cup
               {Closed(k, visits[k], End(k), low[k], upTo[k]) : k \in expired}
     /\ phase' = "observe"
     /\ UNCHANGED nextId

\* The rest of the iteration saw no detection to observe.
NoDetection ==
  /\ phase = "observe"
  /\ phase' = "top"
  /\ UNCHANGED <<now, visits, nextId, windows>>

\* observe() on an idle key: a fresh visit, reaching back by the pre-roll.
ObserveOpen(k, preRoll, refused) ==
  /\ phase = "observe" /\ nextId < MaxVisits
  /\ k \notin Live
  /\ \E kept \in Pruned(visits) :
        visits' = Opened(kept, k, now - preRoll, 0, refused)
  /\ nextId' = nextId + 1
  /\ phase' = "top"
  /\ UNCHANGED <<now, windows>>

\* Mutant of ObserveCapSplit: the continuation starts at the frame, not at the
\* boundary (a gap between the two windows).
CapSplitAtFrame(k, cap, low, refused) ==
  /\ phase = "observe" /\ nextId < MaxVisits
  /\ k \in Live
  /\ now - visits[k].started >= cap
  /\ LET r == visits[k]
         boundary == r.started + cap
     IN /\ \E upTo \in Copies(boundary, now) :
              windows' = windows \cup {Closed(k, r, boundary, low, upTo)}
        /\ visits' = Opened(visits, k, now, r.seg + 1, refused)
  /\ nextId' = nextId + 1
  /\ phase' = "top"
  /\ UNCHANGED now

\* Mutant of ObserveCapSplit: the first window runs on to the frame while the
\* continuation starts at the boundary (footage in both windows).
CapSplitOverlapping(k, cap, low, refused) ==
  /\ phase = "observe" /\ nextId < MaxVisits
  /\ k \in Live
  /\ now - visits[k].started >= cap
  /\ LET r == visits[k]
     IN /\ \E upTo \in Copies(now, now) :
              windows' = windows \cup {Closed(k, r, now, low, upTo)}
        /\ visits' = Opened(visits, k, r.started + cap, r.seg + 1, refused)
  /\ nextId' = nextId + 1
  /\ phase' = "top"
  /\ UNCHANGED now

\* observe() on a visit that reached the cap: it is finalized at the nominal
\* boundary and its continuation starts exactly there, without pre-roll.
ObserveCapSplit(k, cap, low, refused) ==
  /\ phase = "observe" /\ nextId < MaxVisits
  /\ k \in Live
  /\ now - visits[k].started >= cap
  /\ LET r == visits[k]
         boundary == r.started + cap
     IN /\ \E upTo \in Copies(boundary, now) :
              windows' = windows \cup {Closed(k, r, boundary, low, upTo)}
        /\ visits' = Opened(visits, k, boundary, r.seg + 1, refused)
  /\ nextId' = nextId + 1
  /\ phase' = "top"
  /\ UNCHANGED now

\* observe() on a visit whose grace already ran out: a new visit.  The tick of
\* the same iteration would have closed it, so this needs a knob change between.
ObserveLate(k, grace, cap, preRoll, low, refused) ==
  /\ phase = "observe" /\ nextId < MaxVisits
  /\ k \in Live
  /\ now - visits[k].started < cap
  /\ now > visits[k].seen + grace
  /\ LET r == visits[k]
         end == Earlier(r.seen + grace, now)
     IN /\ \E upTo \in Copies(end, now) :
              windows' = windows \cup {Closed(k, r, end, low, upTo)}
        /\ \E kept \in Pruned([visits EXCEPT ![k] = NoVisit]) :
              visits' = Opened(kept, k, now - preRoll, 0, refused)
  /\ nextId' = nextId + 1
  /\ phase' = "top"
  /\ UNCHANGED now

\* VisitRunner._on_extend: the subject is seen now, and a copy reached upTo.
Extended(r, low, upTo) ==
  [r EXCEPT !.seen = now,
            !.copied = Footage(r, low, upTo),
            !.starved = @ \/ low]

\* Mutant of ObserveExtend: the cap is measured from the last frame, so a subject
\* who stays resets it.
ExtendResettingCap(k, grace, cap, low) ==
  /\ phase = "observe"
  /\ k \in Live
  /\ now - visits[k].seen < cap
  /\ now <= visits[k].seen + grace
  /\ \E upTo \in Copies(now, now) :
       visits' = [visits EXCEPT ![k] = Extended(@, low, upTo)]
  /\ phase' = "top"
  /\ UNCHANGED <<now, nextId, windows>>

\* observe() within the window: the grace restarts; the runner copies the new
\* footage unless the card is below the floor.
ObserveExtend(k, grace, cap, low) ==
  /\ phase = "observe"
  /\ k \in Live
  /\ now - visits[k].started < cap
  /\ now <= visits[k].seen + grace
  /\ \E upTo \in Copies(now, now) :
       visits' = [visits EXCEPT ![k] = Extended(@, low, upTo)]
  /\ phase' = "top"
  /\ UNCHANGED <<now, nextId, windows>>

\* finalize_open_visits_for_escalation: the camera failed (or the flag was
\* switched off): every visit ends where its subject was last seen, and a new
\* tracker takes over.
Drain(t) ==
  /\ phase = "top"
  /\ now' = t
  /\ \E low \in [Live -> FloorReadings], upTo \in [Live -> (-Segment)..t] :
       /\ \A k \in Live : upTo[k] \in Copies(Earlier(visits[k].seen, t), t)
       /\ windows' = windows \cup
            {Closed(k, visits[k], Earlier(visits[k].seen, t), low[k], upTo[k]) :
               k \in Live}
  /\ visits' = [k \in Key |-> NoVisit]
  /\ UNCHANGED <<phase, nextId>>

Observe(k) ==
  \/ \E grace \in Grace, cap \in Cap, low \in FloorReadings :
        ObserveExtend(k, grace, cap, low)
  \/ \E preRoll \in PreRoll, refused \in FloorReadings :
        ObserveOpen(k, preRoll, refused)
  \/ \E cap \in Cap, low, refused \in FloorReadings :
        ObserveCapSplit(k, cap, low, refused)
  \/ \E grace \in Grace, cap \in Cap, preRoll \in PreRoll,
        low, refused \in FloorReadings :
        ObserveLate(k, grace, cap, preRoll, low, refused)

Next ==
  \/ \E t \in now..Horizon : Drain(t) \/ \E grace \in Grace : Tick(t, grace)
  \/ NoDetection
  \/ \E k \in Key : Observe(k)

Spec == Init /\ [][Next]_vars

-----------------------------------------------------------------------------
(* Properties *)

TypeOK ==
  /\ phase \in {"top", "observe"}
  /\ now \in 0..Horizon
  /\ visits \in [Key -> Visit \cup {NoVisit}]
  /\ nextId \in 0..MaxVisits
  /\ windows \subseteq Window

\* A continuation may start this long before the frame that opened it: the
\* subject was unseen for at most the grace, and lowering the cap mid-visit
\* puts the boundary back by at most the range of the cap.
MaxLag == Later(MaxPreRoll, (MaxCap - MinCap) + MaxGrace)

\* The cap is a disk guard: whatever the knobs do and however the subject comes
\* and goes, every window is shorter than the cap, one grace and one start lag; and
\* a window never claims an instant that had not happened when it was closed.
WindowBounded ==
  \A w \in windows :
    /\ w.start <= w.end /\ w.end <= now
    /\ w.end - w.start < MaxCap + MaxGrace + MaxLag

\* Continuations tile: a continuation starts exactly where the previous window
\* of its key ended, so a person who stays is recorded with no gap and no overlap.
ContinuationAdjacent ==
  /\ \A k \in Live : visits[k].seg > 0 =>
       \E p \in windows : /\ p.key = k /\ p.seg = visits[k].seg - 1
                          /\ p.end = visits[k].start
  /\ \A w \in windows : w.seg > 0 =>
       \E p \in windows : /\ p.key = w.key /\ p.seg = w.seg - 1
                          /\ p.end = w.start /\ p.id < w.id

\* Windows of one key do not pile up: a later window reaches back into an earlier
\* one by at most the pre-roll.
OverlapAtMostPreRoll ==
  \A w1, w2 \in windows :
    w1.key = w2.key /\ w1.id < w2.id => w1.end <= w2.start + MaxPreRoll

\* The footage in scratch matches the window finalize will check it against: if
\* no copy was skipped, it falls short of the window by one segment at most, and
\* overshoots it by one segment or by what the cap was lowered, whichever is more.
FootageMatchesWindow ==
  \A w \in windows : ~w.starved =>
    /\ w.end - w.copied <= Segment
    /\ w.copied - w.end <= Later(Segment, MaxCap - MinCap)

\* Opening a visit makes room for it by dropping k: the tracker was full, and no
\* other visit, all of which go on untouched, was unseen for longer.
EvictedForRoom(k) ==
  /\ Cardinality(Live) = MaxKeys /\ nextId' = nextId + 1
  /\ \A j \in Live \ {k} : visits[k].seen <= visits[j].seen /\ visits'[j] = visits[j]

\* A visit never vanishes: it goes on, or it is handed to finalize, unless the
\* tracker is full and it is the one unseen for longest.
NoVisitVanishes ==
  [][\A k \in Live :
       \/ visits'[k] # NoVisit /\ visits'[k].id = visits[k].id
       \/ \E w \in windows' : w.key = k /\ w.id = visits[k].id
       \/ EvictedForRoom(k)]_vars
=============================================================================
