----------------------- MODULE MCClientConfiguration -----------------------
(***************************************************************************)
(* A small instance of ClientConfiguration for TLC: two requests, a service  *)
(* with three envelopes, a connection, and two versions. Tokens share        *)
(* nothing with the rest but the lock of the client's row, and are looked at *)
(* apart from it.                                                            *)
(***************************************************************************)
EXTENDS ClientConfiguration, FiniteSets, TLC

CONSTANTS s1, k1, k2, k3, r1, r2, c1, t1, t2, t3

OneService == {s1}
ThreeSecrets == {k1, k2, k3}
AllOfOne == [k \in Secrets |-> s1]
TwoRequests == {r1, r2}
TwoVersions == 1 .. 2
OneConnection == {c1}
ConnectionOfOne == [s \in OneService |-> c1]
SmallDocuments == {[vaults |-> {}, valid |-> TRUE], [vaults |-> {}, valid |-> FALSE],
                   [vaults |-> {c1}, valid |-> TRUE]}
ThreeTokens == {t1, t2, t3}

Symmetric == Permutations(ThreeSecrets) \cup Permutations(TwoRequests) \cup Permutations(ThreeTokens)

TokensApart ==
  (\E t \in Tokens : token'[t] # "none") =>
    /\ \A s \in Services : status'[s] = "none"
    /\ \A v \in Versions : version'[v] = "none"

Settled(s) == status[s] = "ready" /\ \A k \in Secrets : envelope[k] # "none" => secret[s] = k

(* Once there is a version, its service was ready and may be closed, by      *)
(* requests that meet one editor; two editors meet over a ready service, and *)
(* one of them at most clones a version.                                     *)
VersionsApart ==
  (\E v \in Versions : version'[v] # "none") =>
    LET editing == {r \in Requests : edit'[r] # NoEdit}
        cloning == {r \in editing : edit'[r].at \in {"cloning", "loading", "linking"}}
    IN /\ refused' => \E s \in Services : Closed(s)
       /\ \A r \in Requests : request'[r].at \in {"idle", "disabling", "archiving", "retiring"}
       /\ Cardinality(cloning) < 2
       /\ \A s \in Services : \/ Closed(s) /\ Cardinality(editing) < 2
                              \/ Settled(s)

ApartSpec == Init /\ [][Next /\ TokensApart /\ VersionsApart]_vars

=============================================================================
