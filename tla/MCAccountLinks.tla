--------------------------- MODULE MCAccountLinks ---------------------------
(* Instance of AccountLinks for TLC.                                       *)
EXTENDS AccountLinks, TLC

Symmetry ==
    Permutations(User) \cup Permutations(Email) \cup Permutations(Link)
        \cup Permutations(Request)
=============================================================================
