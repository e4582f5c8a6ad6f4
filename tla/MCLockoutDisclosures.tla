------------------------ MODULE MCLockoutDisclosures ------------------------
(***************************************************************************)
(* LoginLockout and Disclosures share no row, so a run of both needs no    *)
(* step of one while the other is busy: each moves while the other is as   *)
(* it was in the beginning, and the states of the two add up.              *)
(***************************************************************************)
EXTENDS LoginLockout, Disclosures, TLC

vars == <<lockoutVars, disclosureVars>>

NoLogins == lockoutVars = <<0, "null", [r \in Login |-> NotRunning], 0>>

NoDisclosures ==
    /\ \A d \in Disclosure : disclosure[d] = NoDisclosure
    /\ \A r \in Request : req[r] = Idle

Init == LockoutInit /\ DisclosureInit

Next ==
    \/ LockoutNext /\ NoDisclosures /\ UNCHANGED disclosureVars
    \/ DisclosureNext /\ NoLogins /\ UNCHANGED lockoutVars

Spec == Init /\ [][Next]_vars

\* Of Disclosures only: WrongPasswordsLock mentions none of these values, and
\* permuting them leaves every state of LoginLockout as it is.
Symmetry ==
    Permutations(Disclosure) \cup Permutations(Jurisdiction) \cup Permutations(Language)
        \cup Permutations(Request)
=============================================================================
