---------------------------- MODULE OutcomeTable ----------------------------
(***************************************************************************)
(* The states of an intent, its copies and its object, and the table that   *)
(* says what the copies make of the object. Storage reads the same table in  *)
(* four places: the first upload and the retry of one target, each for hot   *)
(* and canonical and for a configured route.                                 *)
(***************************************************************************)

CONSTANTS
  Targets,      \* the copies of an object: hot and canonical, or the targets of a route
  Primary,      \* the canonical copy, or the primary target of the route
  Configured    \* TRUE: a configured route; FALSE: hot and canonical

ASSUME TargetsAssumption ==
  /\ Primary \in Targets
  /\ Configured \in BOOLEAN

(* The object of a legacy profile has exactly one copy besides the canonical *)
(* one, the hot copy; a route has any number of replicas.                    *)
ASSUME DualAssumption ==
  Configured \/ \E hot \in Targets : hot # Primary /\ Targets = {hot, Primary}

IntentStates == {"none", "accepted", "uploading", "completed",
                 "expired", "cancelled", "failed"}

CopyStates == {"pending", "verified", "failed"}

Peers == Targets \ {Primary}

(* The copies an upload writes before it answers: both copies of a legacy    *)
(* profile, the primary target alone of a route.                             *)
Written == IF Configured THEN {Primary} ELSE Targets

NothingWritten == [t \in Targets |-> "pending"]

Truth(storageState, registry, stage) ==
  [state |-> storageState, registry |-> registry, stage |-> stage]

Created == Truth("none", "reserved", "write-intent-created")

(* The table of outcomes for hot and canonical: every combination the table  *)
(* does not name is unavailable.                                             *)
DualTruth(c) ==
  LET every(state) == \A t \in Peers : c[t] = state
  IN CASE c[Primary] = "verified" /\ every("verified") ->
            Truth("ready", "active", "canonical-and-hot-verified")
       [] c[Primary] = "verified" /\ every("failed") ->
            Truth("degraded", "degraded", "canonical-verified-hot-repair-required")
       [] c[Primary] = "failed" /\ every("verified") ->
            Truth("degraded", "degraded", "hot-verified-canonical-repair-required")
       [] OTHER ->
            Truth("unavailable", "reserved", "provider-write-failed")

(* The truth of a route: nothing without its primary, whole only with every  *)
(* replica.                                                                  *)
RouteTruth(c) ==
  IF c[Primary] # "verified"
  THEN Truth("unavailable", "reserved", "configuration-primary-write-failed")
  ELSE IF \A t \in Peers : c[t] = "verified"
       THEN Truth("ready", "active", "configuration-primary-and-replicas-verified")
       ELSE Truth("degraded", "degraded", "configuration-replica-repair-required")

DeriveTruth(c) == IF Configured THEN RouteTruth(c) ELSE DualTruth(c)

=============================================================================
