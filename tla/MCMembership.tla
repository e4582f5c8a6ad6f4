---------------------------- MODULE MCMembership ----------------------------
(* Instance of Membership for TLC.                                         *)
EXTENDS Membership, TLC

Symmetry ==
    Permutations(User) \cup Permutations(Email) \cup Permutations(Invite)
        \cup Permutations(Slug) \cup Permutations(Request)
=============================================================================
