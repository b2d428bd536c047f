-------------------------- MODULE MCFamilyAccess ---------------------------
(* Small families; users, devices, codes and requests are interchangeable. *)
EXTENDS FamilyAccess, TLC

Symmetry ==
    Permutations(User) \cup Permutations(Device) \cup Permutations(Invite)
        \cup Permutations(Handler)
=============================================================================
