--------------------------- MODULE MCSecondFactor ---------------------------
(* Instance of SecondFactor for TLC.                                       *)
EXTENDS SecondFactor, TLC

Symmetry == Permutations(Secret) \cup Permutations(Otp) \cup Permutations(Request)
=============================================================================
