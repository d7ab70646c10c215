--------------------------- MODULE MCVisitTracker ---------------------------
(* VisitTracker on small instances. *)
EXTENDS VisitTracker, TLC

CONSTANTS k1, k2, k3

\* _FINALIZE_DURATION_TOLERANCE_S, in the model's units.
Tolerance == 1

\* The claim of VisitRunner._on_extend's comment: a visit whose copies stopped
\* below the floor is finalized over a window bounded by the footage on disk, so
\* that the recorder's duration check accepts the clip.
FinalizeMatchesFootage ==
  \A w \in windows : w.end - w.copied <= Tolerance

KeySymmetry == Permutations(Key)
=============================================================================
