--------------------------- MODULE MCVisitCapture ---------------------------
(* VisitCapture on small instances. *)
EXTENDS VisitCapture, TLC

CONSTANTS k1, k2

KeySymmetry == Permutations(Key)
=============================================================================
