----------------------------- MODULE MCLearning -----------------------------
(* Instances of Learning for TLC: one duration per class GradeFromResult    *)
(* tells apart would be -1, 1000, 8000 and 20000; each run takes the ones   *)
(* its properties need.                                                     *)
EXTENDS Learning, TLC

AllDurations == {-1, 1000, 8000, 20000}
FastAndSlow == {1000, 20000}
Fast == {1000}

Symmetry ==
    Permutations(Users) \cup Permutations(Questions) \cup Permutations(Slots)
=============================================================================
