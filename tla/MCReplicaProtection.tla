------------------------ MODULE MCReplicaProtection ------------------------
(***************************************************************************)
(* Small instances of ReplicaProtection for TLC.                            *)
(***************************************************************************)
EXTENDS ReplicaProtection, TLC

CONSTANTS primary, r1, r2, w1, w2, g1

OneReplica == {primary, r1}
TwoReplicas == {primary, r1, r2}

OneWorker == {w1}
TwoWorkers == {w1, w2}
OneRetainer == {g1}
NoRetainer == {}

OnlyCrash == {"crash"}
OnlyLate == {"late"}
Failures == {"provider", "database", "inactive"}
AllButDeactivation == DisturbanceKinds \ {"inactive"}

(* Neither workers of one kind nor replicas are told apart.                  *)
Symmetric == Permutations(Repairers) \cup Permutations(Retainers) \cup Permutations(Peers)

=============================================================================
