------------------------------- MODULE MCAuth -------------------------------
(* Instances of Auth for TLC. *)
EXTENDS Auth, TLC

Symmetry ==
    Permutations(Users) \cup Permutations(SessionIds) \cup Permutations(Jtis)
        \cup Permutations(Slots)
=============================================================================
