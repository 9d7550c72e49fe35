---------------------------- MODULE TargetedRetry ----------------------------
(***************************************************************************)
(* The retry of one failed copy of one completed object. A call reserves the *)
(* copy in one transaction (a new attempt in progress, the copy pending, its *)
(* row version up by one), writes the target with no transaction open, and   *)
(* records the outcome in a second transaction that compares the versions    *)
(* the first one read: of the copy, which it raised itself, and of the       *)
(* object, which it only read.                                               *)
(***************************************************************************)
EXTENDS ProviderWriter, Naturals, Sequences

CONSTANTS
  Targets, Primary,   \* the copies of an object over a route, as in OutcomeTable
  Hot,           \* the copy a legacy object has besides the canonical one
  Retries,       \* calls of a retry coordinator
  NoTarget,      \* this call names no copy yet
  Disturbances   \* what may happen in this run besides calls one after the other

DisturbanceKinds == {"overlap", "crash", "unresolved", "deactivated"}

(* The object may be of either kind: stored over a route, or hot and         *)
(* canonical.                                                                *)
Route == INSTANCE OutcomeTable WITH Configured <- TRUE
Dual == INSTANCE OutcomeTable WITH Targets <- {Hot, Primary}, Configured <- FALSE

ASSUME RetriesAssumption ==
  /\ {Hot, Primary} \subseteq Targets /\ Hot # Primary
  /\ NoTarget \notin Targets
  /\ Disturbances \subseteq DisturbanceKinds

VARIABLES
  configured,     \* the object was stored over a route
  copies,         \* the copy_state of each copy's row
  copyVersion,    \* the row_version of each copy's row
  truth,          \* registry_state and object_protection_stage of the object's row
  objectVersion,  \* the row_version of the object's row
  attempts,       \* the state of each copy's attempts, by attempt number
  stored,         \* what the provider of each target holds of the object
  phase,          \* where each call is
  target,         \* the copy each call is to retry
  expected,       \* the version of that copy's row the call expects to find
  reserved,       \* the version of the object's row its reservation read
  attempt,        \* the number of the attempt it has appended
  step,           \* how far its provider write is
  peers,          \* the copy states its second transaction has read
  seen            \* the disturbances that have happened

databaseVars == <<configured, copies, copyVersion, truth, objectVersion, attempts>>
callVars == <<phase, target, expected, reserved, attempt, step, peers>>
vars == <<databaseVars, stored, callVars, seen>>

Phases == {"idle", "called", "writing", "recording", "done"}

InFlight(r) == phase[r] \notin {"idle", "done"}

Disturb(kind) == kind \in Disturbances /\ seen' = seen \cup {kind}

Move(r, to) == phase' = [phase EXCEPT ![r] = to]

-----------------------------------------------------------------------------

CopyStates == Route!CopyStates

Copies == IF configured THEN Targets ELSE {Hot, Primary}

DeriveTruth(c) == IF configured THEN Route!DeriveTruth(c) ELSE Dual!DeriveTruth(c)

(* A completed upload has left every copy it wrote verified or failed, with  *)
(* one attempt each; the replicas of a route are as their worker left them.  *)
(* A failed write may have left its bytes behind.                            *)
Outcomes ==
  {c \in [Targets -> CopyStates] :
     /\ \A t \in Targets \ Copies : c[t] = "pending"
     /\ IF configured THEN c[Primary] = "verified"
        ELSE \A t \in Copies : c[t] # "pending"}

FirstAttempts(state) ==
  CASE state = "verified" -> <<"succeeded">>
    [] state = "failed" -> <<"failed">>
    [] OTHER -> <<>>

Init ==
  /\ configured \in BOOLEAN
  /\ copies \in Outcomes
  /\ copyVersion = [t \in Targets |-> 2]
  /\ truth = DeriveTruth(copies)
  /\ objectVersion = 2
  /\ attempts = [t \in Targets |-> FirstAttempts(copies[t])]
  /\ stored \in [Targets -> Contents]
  /\ \A t \in Targets : copies[t] = "verified" => stored[t] = "exact"
  /\ \A t \in Targets : copies[t] = "pending" => stored[t] = "absent"
  /\ phase = [r \in Retries |-> "idle"]
  /\ target = [r \in Retries |-> NoTarget]
  /\ expected = [r \in Retries |-> 0]
  /\ reserved = [r \in Retries |-> 0]
  /\ attempt = [r \in Retries |-> 0]
  /\ step = [r \in Retries |-> "resolved"]
  /\ peers = [r \in Retries |-> copies]
  /\ seen = {}

(* The caller has seen the copy failed, at some version of its row.          *)
Retry(r, t) ==
  /\ phase[r] = "idle" /\ copies[t] = "failed"
  /\ Move(r, "called")
  /\ target' = [target EXCEPT ![r] = t]
  /\ expected' = [expected EXCEPT ![r] = copyVersion[t]]
  /\ IF \E q \in Retries : InFlight(q) THEN Disturb("overlap") ELSE UNCHANGED seen
  /\ UNCHANGED <<databaseVars, stored, reserved, attempt, step, peers>>

-----------------------------------------------------------------------------
(* The first transaction.                                                    *)

(* Mutant: the caller's expectation is not compared with the row.            *)
ReservableAnyway(r) == attempts[target[r]] # <<>>

Reservable(r) ==
  copies[target[r]] = "failed" /\ copyVersion[target[r]] = expected[r]

Reserve(r) ==
  LET t == target[r]
  IN /\ phase[r] = "called" /\ Reservable(r)
     /\ attempts' = [attempts EXCEPT ![t] = Append(@, "in_progress")]
     /\ copies' = [copies EXCEPT ![t] = "pending"]
     /\ copyVersion' = [copyVersion EXCEPT ![t] = @ + 1]
     /\ expected' = [expected EXCEPT ![r] = @ + 1]
     /\ reserved' = [reserved EXCEPT ![r] = objectVersion]
     /\ attempt' = [attempt EXCEPT ![r] = Len(attempts[t]) + 1]
     /\ Move(r, "writing")
     /\ UNCHANGED <<configured, truth, objectVersion, stored, target, step, peers, seen>>

(* The copy has moved on; or, for a route, the client is not active any more.*)
ReserveConflict(r) ==
  /\ phase[r] = "called"
  /\ \/ ~Reservable(r) /\ UNCHANGED seen
     \/ configured /\ Disturb("deactivated")
  /\ Move(r, "done")
  /\ UNCHANGED <<databaseVars, stored, target, expected, reserved, attempt, step, peers>>

-----------------------------------------------------------------------------
(* The provider write.                                                       *)

(* A provider role does not resolve to a target any more: the error leaves   *)
(* the reservation as it is. The target of a route is in the reservation.    *)
ResolveFails(r) ==
  /\ phase[r] = "writing" /\ step[r] = "resolved" /\ ~configured
  /\ Disturb("unresolved")
  /\ Move(r, "done")
  /\ UNCHANGED <<databaseVars, stored, target, expected, reserved, attempt, step, peers>>

Progress(r, from, results) ==
  /\ phase[r] = "writing" /\ step[r] = from
  /\ \E result \in results :
       /\ step' = [step EXCEPT ![r] = result.step]
       /\ stored' = [stored EXCEPT ![target[r]] = result.content]
  /\ UNCHANGED <<databaseVars, phase, target, expected, reserved, attempt, peers, seen>>

Content(r) == stored[target[r]]

(* A source that does not open ends like a PUT that was refused.             *)
PutObject(r) == Progress(r, "resolved", AfterPut("exact", Content(r)))
HeadObject(r) == Progress(r, "stored", AfterHead(Content(r)))
Cleanup(r) == Progress(r, "undo", AfterDelete \cup AfterLostDelete(Content(r)))

-----------------------------------------------------------------------------
(* The second transaction.                                                   *)

AttemptState(outcome) == IF outcome = "verified" THEN "succeeded" ELSE "failed"

(* Mutant: a cleanup is not waited for.                                      *)
ReadCopiesEarly(r) ==
  /\ phase[r] = "writing" /\ step[r] \in {"verified", "failed", "undo"}
  /\ Move(r, "recording")
  /\ peers' = [peers EXCEPT ![r] = [copies EXCEPT ![target[r]] = step[r]]]
  /\ UNCHANGED <<databaseVars, stored, target, expected, reserved, attempt, step, seen>>

(* Mutant: the copies are read before the update of this one.                *)
ReadCopiesFirst(r) ==
  /\ phase[r] = "writing" /\ step[r] \in {"verified", "failed"}
  /\ Move(r, "recording")
  /\ peers' = [peers EXCEPT ![r] = copies]
  /\ UNCHANGED <<databaseVars, stored, target, expected, reserved, attempt, step, seen>>

(* The attempt and the copy are updated and the states of all copies are     *)
(* read, the transaction's own update included; then the object's row may    *)
(* have to be waited for.                                                    *)
ReadCopies(r) ==
  /\ phase[r] = "writing" /\ step[r] \in {"verified", "failed"}
  /\ Move(r, "recording")
  /\ peers' = [peers EXCEPT ![r] = [copies EXCEPT ![target[r]] = step[r]]]
  /\ UNCHANGED <<databaseVars, stored, target, expected, reserved, attempt, step, seen>>

(* Mutant: the truth is taken from the outcome of this write alone.          *)
TruthReadBy(r) ==
  DeriveTruth([t \in Targets |-> IF step[r] = "verified" THEN "verified" ELSE peers[r][t]])

TruthOf(r) == DeriveTruth(peers[r])

Recordable(r) ==
  LET t == target[r]
  IN /\ attempts[t][attempt[r]] = "in_progress"
     /\ copies[t] = "pending" /\ copyVersion[t] = expected[r]
     /\ objectVersion = reserved[r]

(* Mutant: the outcome is not recorded on the copy.                          *)
CompleteAttemptOnly(r) ==
  LET t == target[r]
  IN /\ phase[r] = "recording"
     /\ objectVersion = reserved[r]
     /\ attempts' = [attempts EXCEPT ![t][attempt[r]] = AttemptState(step[r])]
     /\ truth' = TruthOf(r)
     /\ objectVersion' = objectVersion + 1
     /\ Move(r, "done")
     /\ UNCHANGED <<configured, copies, copyVersion, stored, target, expected, reserved,
                    attempt, step, peers, seen>>

Complete(r) ==
  LET t == target[r]
  IN /\ phase[r] = "recording"
     /\ Recordable(r)
     /\ attempts' = [attempts EXCEPT ![t][attempt[r]] = AttemptState(step[r])]
     /\ copies' = [copies EXCEPT ![t] = step[r]]
     /\ copyVersion' = [copyVersion EXCEPT ![t] = @ + 1]
     /\ truth' = TruthOf(r)
     /\ objectVersion' = objectVersion + 1
     /\ Move(r, "done")
     /\ UNCHANGED <<configured, stored, target, expected, reserved, attempt, step,
                    peers, seen>>

(* Another retry has changed the object: ROLLBACK.                           *)
CompleteConflict(r) ==
  /\ phase[r] = "recording" /\ ~Recordable(r)
  /\ Move(r, "done")
  /\ UNCHANGED <<databaseVars, stored, target, expected, reserved, attempt, step, peers, seen>>

(* The process stops: what it had not committed is gone.                     *)
Crash ==
  /\ \E r \in Retries : InFlight(r)
  /\ Disturb("crash")
  /\ phase' = [r \in Retries |-> IF InFlight(r) THEN "done" ELSE phase[r]]
  /\ UNCHANGED <<databaseVars, stored, target, expected, reserved, attempt, step, peers>>

Finished == (\A r \in Retries : ~InFlight(r)) /\ UNCHANGED vars

Next ==
  \/ \E r \in Retries :
       \/ \E t \in Targets : Retry(r, t)
       \/ Reserve(r) \/ ReserveConflict(r)
       \/ ResolveFails(r) \/ PutObject(r) \/ HeadObject(r) \/ Cleanup(r)
       \/ ReadCopies(r) \/ Complete(r) \/ CompleteConflict(r)
  \/ Crash
  \/ Finished

Spec == Init /\ [][Next]_vars

-----------------------------------------------------------------------------
(* Properties.                                                               *)

TypeOK ==
  /\ configured \in BOOLEAN
  /\ copies \in [Targets -> CopyStates]
  /\ copyVersion \in [Targets -> Nat]
  /\ \E c \in [Targets -> CopyStates] : truth = DeriveTruth(c)
  /\ objectVersion \in Nat
  /\ attempts \in [Targets -> Seq({"in_progress", "succeeded", "failed"})]
  /\ stored \in [Targets -> Contents]
  /\ phase \in [Retries -> Phases]
  /\ target \in [Retries -> Targets \cup {NoTarget}]
  /\ expected \in [Retries -> Nat]
  /\ reserved \in [Retries -> Nat]
  /\ attempt \in [Retries -> Nat]
  /\ step \in [Retries -> WriterSteps]
  /\ peers \in [Retries -> [Targets -> CopyStates]]
  /\ seen \subseteq Disturbances

(* A retry never rewrites or deletes a verified copy, neither its row nor    *)
(* its bytes, whatever other retries and crashes do meanwhile.               *)
VerifiedIsUntouched ==
  [][\A t \in Targets :
       copies[t] = "verified" => copies'[t] = "verified" /\ stored'[t] = stored[t]]_vars

(* A copy has one retry at its provider at a time.                           *)
Working(r) == phase[r] \in {"writing", "recording"}

OneRetryPerCopy ==
  \A q, r \in Retries :
    Working(q) /\ Working(r) /\ target[q] = target[r] => q = r

(* The truth never claims a copy that is not verified, or whose bytes are    *)
(* not there, not even between the transactions of concurrent retries.       *)
Claims(t) ==
  \/ truth.stage \in {"canonical-and-hot-verified",
                      "configuration-primary-and-replicas-verified"}
  \/ t = Primary /\ truth.stage \in {"canonical-verified-hot-repair-required",
                                     "configuration-replica-repair-required"}
  \/ t # Primary /\ truth.stage = "hot-verified-canonical-repair-required"

ClaimsAreBacked ==
  \A t \in Copies : Claims(t) => copies[t] = "verified" /\ stored[t] = "exact"

(* The latest attempt of a copy tells the state of the copy, also when the   *)
(* process stopped between the two transactions of a retry.                  *)
AttemptsTellCopies ==
  \A t \in Targets :
    attempts[t] # <<>> =>
      LET last == attempts[t][Len(attempts[t])]
      IN /\ (copies[t] = "verified") <=> (last = "succeeded")
         /\ (copies[t] = "failed") <=> (last = "failed")

(* Retries made one after the other leave nothing in progress, and the truth *)
(* of the object is the row of the table that its copies are in.             *)
Quiet == \A r \in Retries : ~InFlight(r)

RetriesSettle ==
  Quiet /\ seen = {} =>
    /\ truth = DeriveTruth(copies)
    /\ \A t \in Targets : \A n \in DOMAIN attempts[t] : attempts[t][n] # "in_progress"

=============================================================================
