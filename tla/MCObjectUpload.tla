--------------------------- MODULE MCObjectUpload ---------------------------
(***************************************************************************)
(* Small instances of ObjectUpload for TLC.                                 *)
(***************************************************************************)
EXTENDS ObjectUpload, TLC

CONSTANTS hot, canonical, primary, replica, i1, i2, k1, k2, u1, u2, c1

Dual == {hot, canonical}
Route == {primary, replica}

OneIntent == {i1}
TwoIntents == {i1, i2}

OneKey == {k1}
TwoKeys == {k1, k2}

TwoUploads == {u1, u2}
NoCancel == {}
OneCancel == {c1}

AllFaults == FaultKinds
Restarts == {"crash", "database", "cleanup"}

(* Neither uploads nor keys are told apart by any definition.                *)
Symmetric == Permutations(TwoUploads) \cup Permutations(TwoKeys)

=============================================================================
