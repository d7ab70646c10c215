--------------------------- MODULE VisitLifecycle ---------------------------
(***************************************************************************)
(* What the capture pipeline promises about the footage of a visit,        *)
(* whatever the disk, the threads and the deaths of the worker do.         *)
(*                                                                         *)
(* Footage gathers only while the visit is followed; nothing but the end   *)
(* of following takes it out of growth; it becomes a clip, or is given up, *)
(* only afterwards, and each of these is final: no clip grows again or is  *)
(* lost, no clip comes from footage that was given up, and a visit that    *)
(* was handed over once is never followed again.                           *)
(***************************************************************************)
CONSTANT Visit       \* visit identifiers

VARIABLE stage       \* Visit -> Stage

Stage == {"unborn",  \* the identifier was not handed out
          "awaited", \* followed, no footage yet
          "growing", \* followed, with footage
          "sealed",  \* no longer followed, footage not yet in a clip
          "kept",    \* in a clip
          "gone"}    \* no footage and no clip

\* The ways on from a stage.
Onward ==
  {<<"unborn", "awaited">>,
   <<"awaited", "growing">>, <<"awaited", "gone">>,
   <<"growing", "sealed">>,
   <<"sealed", "kept">>, <<"sealed", "gone">>}

LifecycleInit == stage = [v \in Visit |-> "unborn"]

\* A death, a drain or a sweep moves several visits on at once.
LifecycleNext ==
  /\ stage' \in [Visit -> Stage]
  /\ \A v \in Visit : stage'[v] = stage[v] \/ <<stage[v], stage'[v]>> \in Onward

LifecycleSpec == LifecycleInit /\ [][LifecycleNext]_stage
=============================================================================
