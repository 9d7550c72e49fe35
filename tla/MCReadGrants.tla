---------------------------- MODULE MCReadGrants ----------------------------
(***************************************************************************)
(* A small instance of ReadGrants for TLC.                                  *)
(***************************************************************************)
EXTENDS ReadGrants

CONSTANTS primary, r1, g1, k1, get, head

TwoTargets == {primary, r1}
PeerFirst == <<r1, primary>>
OneGrant == {g1}
OneKey == {k1}
GetAndHead == {get, head}
OnlyHead == {head}

Everything == DisturbanceKinds

=============================================================================
