--------------------------- MODULE MCTargetedRetry ---------------------------
(***************************************************************************)
(* A small instance of TargetedRetry for TLC.                               *)
(***************************************************************************)
EXTENDS TargetedRetry, TLC

CONSTANTS primary, first, second, r1, r2, r3

ThreeTargets == {primary, first, second}
ThreeRetries == {r1, r2, r3}
Everything == DisturbanceKinds

Symmetric == Permutations(Retries)

=============================================================================
