------------------------- MODULE ReplicaProtection -------------------------
(***************************************************************************)
(* The workers that copy the primary of a route to its replicas, and that   *)
(* delete the primary once its days are over and every replica holds the    *)
(* object.                                                                  *)
(*                                                                          *)
(* A worker takes a job by appending an attempt with a lease to the copy it *)
(* will change, works at the providers with no lock held, and then finishes *)
(* the attempt, if that is still in progress. A batch takes the time once,  *)
(* before its first claim, and compares every lease and every retry with    *)
(* it. The whole of an attempt's owner and token is its place in the list   *)
(* of the copy's attempts.                                                  *)
(*                                                                          *)
(* One object of one client is modelled, whose days are over, after its     *)
(* upload and any retries of its replicas are done.                         *)
(***************************************************************************)
EXTENDS OutcomeTable, ProviderWriter, Naturals, Sequences

CONSTANTS
  Repairers,            \* processes that run repair batches
  Retainers,            \* processes that run retention batches
  NoTarget,             \* this worker has no job
  MaximumAttempts, RetryDelay, LeaseDuration,
  RepairBatchSize, RetentionBatchSize,
  MaxTime,              \* the clock stops here
  Disturbances          \* what may go wrong in this run

Workers == Repairers \cup Retainers

DisturbanceKinds ==
  {"provider",  \* a call of a provider fails
   "database",  \* a transaction fails
   "inactive",  \* a provider connection is deactivated, for good
   "crash",     \* a worker stops, once
   "late",      \* a worker goes on when its lease is over
   "race"}      \* a claim reads the attempts before another one commits

ASSUME ProtectionAssumption ==
  /\ Configured
  /\ Repairers \cap Retainers = {}
  /\ NoTarget \notin Targets
  /\ {MaximumAttempts, LeaseDuration, RetryDelay} \subseteq Nat \ {0}
  /\ {RepairBatchSize, RetentionBatchSize} \subseteq Nat \ {0}
  /\ MaxTime \in Nat
  /\ Disturbances \subseteq DisturbanceKinds

VARIABLES
  copies,    \* the copy_state of each copy's row
  truth,     \* registry_state and object_protection_stage of the object's row
  attempts,  \* each replica's repair attempts, the primary's deletion attempts
  active,    \* the targets whose provider connection is active
  stored,    \* what the provider of each target holds of the object
  clock,     \* the time
  phase,     \* where each worker is
  now,       \* the time its batch began
  left,      \* the claims its batch has still to make
  found,     \* the copies its claim has found to be claimable
  job,       \* the copy it works on
  attempt,   \* the number of its attempt
  step,      \* how far its provider write is
  mirrored,  \* what has passed from the primary through it
  unchecked, \* the replicas its retention job has still to verify
  error,     \* whether the error on its way out is worth another attempt
  seen       \* the disturbances that have happened

databaseVars == <<copies, truth, attempts>>
batchVars == <<now, left>>
jobVars == <<job, attempt, step, mirrored, unchecked, error>>
vars == <<databaseVars, active, stored, clock, phase, batchVars, found, jobVars, seen>>

Phases ==
  {"idle", "next", "looking",
   "claimed", "clearing", "reading", "writing", "racing", "undoing", "checking",
   "guarding", "invalidating",
   "completing", "failing"}

Bytes == Contents \cup {"wrong"}

RepairRequired == Truth("degraded", "degraded", "configuration-replica-repair-required")
Protected == Truth("ready", "active", "configuration-primary-and-replicas-verified")
Cleaned == Truth("ready", "active", "configuration-primary-retention-cleaned")

InProgress(due) == [state |-> "in_progress", retryable |-> FALSE, due |-> due]
Failed(retryable, due) == [state |-> "failed", retryable |-> retryable, due |-> due]
Succeeded == [state |-> "succeeded", retryable |-> FALSE, due |-> 0]

Attempts ==
  [state : {"in_progress", "succeeded", "failed"}, retryable : BOOLEAN, due : Nat]

Last(list) == list[Len(list)]

May(kind) == kind \in Disturbances
Disturb(kind) == May(kind) /\ seen' = seen \cup {kind}

Move(w, to) == phase' = [phase EXCEPT ![w] = to]

(* The job of this worker is over, and with it what the process knew of it.  *)
Forget(w) ==
  /\ found' = [found EXCEPT ![w] = {}]
  /\ job' = [job EXCEPT ![w] = NoTarget]
  /\ attempt' = [attempt EXCEPT ![w] = 0]
  /\ step' = [step EXCEPT ![w] = "resolved"]
  /\ mirrored' = [mirrored EXCEPT ![w] = "absent"]
  /\ unchecked' = [unchecked EXCEPT ![w] = {}]
  /\ error' = [error EXCEPT ![w] = FALSE]

EndBatch(w) ==
  /\ Move(w, "idle")
  /\ now' = [now EXCEPT ![w] = 0]
  /\ left' = [left EXCEPT ![w] = 0]
  /\ Forget(w)

(* Mutant: the batch does not end.                                           *)
ContinueForever(w) == Move(w, "next") /\ Forget(w) /\ UNCHANGED batchVars

(* The next claim of the batch, if there is one.                             *)
Continue(w) ==
  IF left[w] = 0 THEN EndBatch(w)
  ELSE Move(w, "next") /\ Forget(w) /\ UNCHANGED batchVars

Fail(w, retryable) ==
  /\ Move(w, "failing")
  /\ error' = [error EXCEPT ![w] = retryable]

-----------------------------------------------------------------------------

(* A completed upload over a route, and whatever became of its replicas. Any *)
(* provider may have lost or damaged what it held; none does later.          *)
Init ==
  /\ copies \in [Targets -> CopyStates]
  /\ copies[Primary] = "verified"
  /\ truth = DeriveTruth(copies)
  /\ attempts = [t \in Targets |-> <<>>]
  /\ active = Targets
  /\ stored \in [Targets -> Bytes]
  /\ clock = 0
  /\ phase = [w \in Workers |-> "idle"]
  /\ now = [w \in Workers |-> 0]
  /\ left = [w \in Workers |-> 0]
  /\ found = [w \in Workers |-> {}]
  /\ job = [w \in Workers |-> NoTarget]
  /\ attempt = [w \in Workers |-> 0]
  /\ step = [w \in Workers |-> "resolved"]
  /\ mirrored = [w \in Workers |-> "absent"]
  /\ unchecked = [w \in Workers |-> {}]
  /\ error = [w \in Workers |-> FALSE]
  /\ seen = {}

-----------------------------------------------------------------------------
(* Claims.                                                                   *)

(* A request to run the protection: the batch begins, with the time it will  *)
(* use until it ends.                                                        *)
RunBatch(w) ==
  /\ phase[w] = "idle"
  /\ Move(w, "next")
  /\ now' = [now EXCEPT ![w] = clock]
  /\ left' = [left EXCEPT ![w] = IF w \in Repairers THEN RepairBatchSize
                                                    ELSE RetentionBatchSize]
  /\ UNCHANGED <<databaseVars, active, stored, clock, found, jobVars, seen>>

(* Mutant: an attempt in progress is never taken over.                       *)
EligibleIfFailed(t, time) ==
  /\ Len(attempts[t]) < MaximumAttempts
  /\ attempts[t] # <<>> => LET last == Last(attempts[t])
                           IN last.retryable /\ last.due <= time

(* Mutant: the lease of an attempt in progress is not looked at.             *)
EligibleInProgress(t, time) ==
  /\ Len(attempts[t]) < MaximumAttempts
  /\ attempts[t] # <<>> => LET last == Last(attempts[t])
                           IN \/ last.state = "in_progress"
                              \/ last.retryable /\ last.due <= time

(* retryEligibleSql: no attempt yet, or a last one that failed and is to be  *)
(* retried by now, or one whose lease is over.                               *)
RetryEligible(t, time) ==
  /\ Len(attempts[t]) < MaximumAttempts
  /\ attempts[t] # <<>> => LET last == Last(attempts[t])
                           IN /\ last.retryable \/ last.state = "in_progress"
                              /\ last.due <= time

(* What the claiming SELECT asks of the copy the claim is for.               *)
Wanted(w, t) ==
  IF w \in Repairers THEN t \in Peers /\ copies[t] \in {"pending", "failed"}
                     ELSE t = Primary /\ copies[t] = "verified"

(* The snapshot of the claiming SELECT.                                      *)
Look(w) ==
  /\ phase[w] = "next"
  /\ Move(w, "looking")
  /\ left' = [left EXCEPT ![w] = @ - 1]
  /\ found' = [found EXCEPT ![w] =
                 {t \in Targets : /\ copies[Primary] = "verified"
                                  /\ Wanted(w, t) /\ RetryEligible(t, now[w])}]
  /\ UNCHANGED <<databaseVars, active, stored, clock, now, jobVars, seen>>

(* The row is locked then, and looked at again if it has changed; but the    *)
(* attempts are rows of another table, and stay as the snapshot has them.    *)
Claimable(w, t) ==
  t \in found[w] /\ Wanted(w, t) /\ (RetryEligible(t, now[w]) \/ May("race"))

(* Mutant: a lease that is over stays with its worker.                       *)
KeepExpired(list, time) == list

(* Attempts whose lease is over are failed before another is appended.       *)
Expire(list, time) ==
  [n \in DOMAIN list |->
     IF list[n].state = "in_progress" /\ list[n].due <= time
     THEN Failed(TRUE, time) ELSE list[n]]

TakeJob(w, t) ==
  /\ attempts' = [attempts EXCEPT
                    ![t] = Append(Expire(@, now[w]), InProgress(now[w] + LeaseDuration))]
  /\ job' = [job EXCEPT ![w] = t]
  /\ attempt' = [attempt EXCEPT ![w] = Len(attempts[t]) + 1]
  /\ IF RetryEligible(t, now[w]) THEN UNCHANGED seen ELSE Disturb("race")

ClaimRepair(w) ==
  /\ phase[w] = "looking" /\ w \in Repairers
  /\ Primary \in active /\ copies[Primary] = "verified"
  /\ \E t \in Peers \cap active : Claimable(w, t) /\ TakeJob(w, t)
  /\ Move(w, "claimed")
  /\ UNCHANGED <<copies, truth, active, stored, clock, batchVars, found, step, mirrored,
                 unchecked, error>>

(* The replicas with an active connection are locked and must be verified.   *)
(* Their recorded checksums are the expected one: nothing else is ever       *)
(* recorded with "verified".                                                 *)
Guards == Peers \cap active

Guarded == Guards # {} /\ \A t \in Guards : copies[t] = "verified"

ClaimRetention(w) ==
  /\ phase[w] = "looking" /\ w \in Retainers
  /\ Primary \in active /\ Claimable(w, Primary) /\ Guarded
  /\ TakeJob(w, Primary)
  /\ unchecked' = [unchecked EXCEPT ![w] = Guards]
  /\ Move(w, "guarding")
  /\ UNCHANGED <<copies, truth, active, stored, clock, batchVars, found, step, mirrored, error>>

(* A replica is not verified: its repair is required, and the primary stays. *)
(* A lease that was over has been ended all the same.                        *)
RetentionBlocked(w) ==
  /\ phase[w] = "looking" /\ w \in Retainers
  /\ Primary \in active /\ Claimable(w, Primary) /\ ~Guarded
  /\ attempts' = [attempts EXCEPT ![Primary] = Expire(@, now[w])]
  /\ truth' = RepairRequired
  /\ Continue(w)
  /\ UNCHANGED <<copies, active, stored, clock, seen>>

NothingToClaim(w) ==
  /\ phase[w] = "looking"
  /\ \A t \in Targets : ~Claimable(w, t)
  /\ Continue(w)
  /\ UNCHANGED <<databaseVars, active, stored, clock, seen>>

(* A provider connection of the locked copy is not active, or the primary    *)
(* went since it was found, or the database fails: the error ends the whole  *)
(* batch.                                                                    *)
ClaimFails(w) ==
  /\ phase[w] = "looking"
  /\ \/ May("database")
     \/ \E t \in Targets :
          /\ Claimable(w, t)
          /\ ~({t, Primary} \subseteq active) \/ copies[Primary] # "verified"
  /\ EndBatch(w)
  /\ UNCHANGED <<databaseVars, active, stored, clock, seen>>

-----------------------------------------------------------------------------
(* processRepair. An error goes to failRepair with the worth of a retry.     *)

(* A GET and the comparison of all its bytes.                                *)
Seen(t) == {stored[t]} \cup (IF May("provider") THEN {"unreadable"} ELSE {})

(* Its failure is worth a retry, unless the stream broke after it was opened.*)
Worth(t, sight) ==
  {TRUE} \cup (IF sight = "unreadable" /\ stored[t] # "absent" THEN {FALSE} ELSE {})

(* Where a verification leads.                                               *)
Verify(w, outcomes) ==
  /\ \E sight \in Seen(job[w]) : \E retryable \in Worth(job[w], sight) :
       /\ Move(w, outcomes[sight])
       /\ error' = [error EXCEPT ![w] = retryable]
  /\ UNCHANGED <<databaseVars, active, stored, clock, batchVars, found, job, attempt,
                 step, mirrored, unchecked, seen>>

VerifyTarget(w) ==
  /\ phase[w] = "claimed"
  /\ Verify(w, [exact |-> "completing", wrong |-> "clearing",
                absent |-> "reading", unreadable |-> "failing"])

(* A DELETE at the provider of t: done, or reported as failed, with or       *)
(* without having taken effect.                                              *)
Delete(w, t, afterwards) ==
  \/ /\ stored' = [stored EXCEPT ![t] = "absent"]
     /\ Move(w, afterwards) /\ UNCHANGED error
  \/ /\ May("provider")
     /\ stored' \in {stored, [stored EXCEPT ![t] = "absent"]}
     /\ Fail(w, TRUE)

ClearTarget(w) ==
  /\ phase[w] = "clearing"
  /\ Delete(w, job[w], "reading")
  /\ UNCHANGED <<databaseVars, active, clock, batchVars, found, job, attempt, step,
                 mirrored, unchecked, seen>>

(* The stream of the primary is opened. If it is too short or too long, or   *)
(* cannot be read, the repair fails.                                         *)
OpenSource(w) ==
  /\ phase[w] = "reading"
  /\ \/ /\ stored[Primary] # "absent"
        /\ Move(w, "writing")
        /\ step' = [step EXCEPT ![w] = "resolved"]
        /\ mirrored' = [mirrored EXCEPT ![w] = stored[Primary]]
        /\ UNCHANGED error
     \/ /\ stored[Primary] = "absent" \/ May("provider")
        /\ Fail(w, TRUE) /\ UNCHANGED <<step, mirrored>>
     \/ /\ stored[Primary] = "wrong"
        /\ Fail(w, FALSE) /\ UNCHANGED <<step, mirrored>>
  /\ UNCHANGED <<databaseVars, active, stored, clock, batchVars, found, job, attempt,
                 unchecked, seen>>

(* What has passed through must be the whole object, byte by byte.           *)
CheckMirror(bytes) == IF bytes = "exact" THEN "checking" ELSE "undoing"

(* What is left of a refused PUT may be the whole stream, or part of it.     *)
Passed(w, result) ==
  IF result.step = "stored" \/ result.content # stored[job[w]]
  THEN {mirrored[w]} ELSE {mirrored[w], "wrong"}

(* Without failures a conditional PUT creates the object or is refused.      *)
Likely(result, t) ==
  \/ May("provider")
  \/ result.step = "stored"
  \/ result.step = "failed" /\ stored[t] # "absent"

PutObject(w) ==
  /\ phase[w] = "writing" /\ step[w] = "resolved"
  /\ \E result \in AfterPut(mirrored[w], stored[job[w]]) :
       /\ Likely(result, job[w])
       /\ stored' = [stored EXCEPT ![job[w]] = result.content]
       /\ step' = [step EXCEPT ![w] = result.step]
       /\ \E bytes \in Passed(w, result) : mirrored' = [mirrored EXCEPT ![w] = bytes]
       /\ Move(w, IF result.step = "stored" THEN "writing" ELSE "racing")
       /\ \E retryable \in {TRUE} \cup (IF result.step = "failed" THEN {FALSE} ELSE {}) :
            error' = [error EXCEPT ![w] = retryable]
  /\ UNCHANGED <<databaseVars, active, clock, batchVars, found, job, attempt,
                 unchecked, seen>>

(* The verification inside the write; its failure is not worth a retry.      *)
HeadObject(w) ==
  /\ phase[w] = "writing" /\ step[w] = "stored"
  /\ \E result \in AfterHead(stored[job[w]]) :
       /\ May("provider") \/ result.step = "verified" \/ stored[job[w]] = "absent"
       /\ step' = [step EXCEPT ![w] = result.step]
       /\ Move(w, IF result.step = "verified" THEN CheckMirror(mirrored[w]) ELSE "racing")
  /\ error' = [error EXCEPT ![w] = FALSE]
  /\ UNCHANGED <<databaseVars, active, stored, clock, batchVars, found, job, attempt,
                 mirrored, unchecked, seen>>

(* After an error of the write: the object may be there, from this worker or *)
(* from another one; if it is not, what this one wrote is taken away.        *)
VerifyRaced(w) ==
  /\ phase[w] = "racing"
  /\ \E sight \in Seen(job[w]) :
       \/ /\ sight = "exact"
          /\ Move(w, CheckMirror(mirrored[w]))
          /\ error' = [error EXCEPT ![w] = FALSE]
       \/ /\ sight \in {"absent", "wrong"}
          /\ Move(w, IF step[w] = "undo" THEN "undoing" ELSE "failing")
          /\ UNCHANGED error
       \/ /\ sight = "unreadable"
          /\ \E retryable \in Worth(job[w], sight) : Fail(w, retryable)
  /\ UNCHANGED <<databaseVars, active, stored, clock, batchVars, found, job, attempt,
                 step, mirrored, unchecked, seen>>

(* A cleanup whose own failure nobody asks for.                              *)
Undo(w) ==
  /\ phase[w] = "undoing"
  /\ \E result \in AfterDelete \cup (IF May("provider")
                                     THEN AfterLostDelete(stored[job[w]]) ELSE {}) :
       stored' = [stored EXCEPT ![job[w]] = result.content]
  /\ Move(w, "failing")
  /\ UNCHANGED <<databaseVars, active, clock, batchVars, found, jobVars, seen>>

VerifyWritten(w) ==
  /\ phase[w] = "checking"
  /\ Verify(w, [exact |-> "completing", wrong |-> "undoing",
                absent |-> "undoing", unreadable |-> "failing"])

-----------------------------------------------------------------------------
(* The transactions that end an attempt. They compare the lease with the     *)
(* time of the batch, which is always earlier: what counts is that the       *)
(* attempt is still in progress.                                             *)

(* Mutant: the attempt is not asked for its state.                           *)
OwnsAnyAttempt(w) == Len(attempts[job[w]]) >= attempt[w]

Owns(w) == attempts[job[w]][attempt[w]].state = "in_progress"

Recordable(w) ==
  /\ Owns(w)
  /\ phase[w] = "completing" =>
       copies[job[w]] \in IF w \in Repairers THEN {"pending", "failed"} ELSE {"verified"}

EndAttempt(w, outcome) == attempts' = [attempts EXCEPT ![job[w]][attempt[w]] = outcome]

(* Mutant: one verified replica makes the object whole.                      *)
TruthOfOne(c) == IF \E t \in Peers : c[t] = "verified" THEN Protected ELSE RepairRequired

TruthOf(c) ==
  IF \A t \in Targets : c[t] = "verified" THEN Protected ELSE RepairRequired

CompleteRepair(w) ==
  /\ phase[w] = "completing" /\ w \in Repairers
  /\ Recordable(w)
  /\ EndAttempt(w, Succeeded)
  /\ copies' = [copies EXCEPT ![job[w]] = "verified"]
  /\ truth' = TruthOf(copies')
  /\ Continue(w)
  /\ UNCHANGED <<active, stored, clock, seen>>

RetryOf(w) ==
  IF error[w] /\ attempt[w] < MaximumAttempts
  THEN Failed(TRUE, now[w] + RetryDelay) ELSE Failed(FALSE, 0)

FailRepair(w) ==
  /\ phase[w] = "failing" /\ w \in Repairers
  /\ Owns(w)
  /\ EndAttempt(w, RetryOf(w))
  /\ copies' = [copies EXCEPT ![job[w]] =
                  IF @ \in {"pending", "failed"} THEN "failed" ELSE @]
  /\ truth' = RepairRequired
  /\ Continue(w)
  /\ UNCHANGED <<active, stored, clock, seen>>

(* The lease is lost, or another worker has recorded the copy, or the        *)
(* database fails, which alone is worth a retry: ROLLBACK.                   *)
RecordingFails(w) ==
  /\ phase[w] \in {"completing", "invalidating"}
  /\ \/ ~Recordable(w) /\ Fail(w, FALSE)
     \/ May("database") /\ Fail(w, TRUE)
  /\ UNCHANGED <<databaseVars, active, stored, clock, batchVars, found, job, attempt,
                 step, mirrored, unchecked, seen>>

FailureIsLost(w) ==
  /\ phase[w] = "failing"
  /\ ~Owns(w) \/ May("database")
  /\ Continue(w)
  /\ UNCHANGED <<databaseVars, active, stored, clock, seen>>

-----------------------------------------------------------------------------
(* processRetention.                                                         *)

(* Every replica that guards the primary is read before the primary goes.    *)
VerifyGuard(w) ==
  /\ phase[w] = "guarding"
  /\ \E t \in unchecked[w] : \E sight \in Seen(t) :
       \/ /\ sight = "exact"
          /\ unchecked' = [unchecked EXCEPT ![w] = @ \ {t}]
          /\ UNCHANGED <<phase, error>>
       \/ /\ sight \in {"absent", "wrong"}
          /\ unchecked' = [unchecked EXCEPT ![w] = {t}]
          /\ Move(w, "invalidating")
          /\ error' = [error EXCEPT ![w] = TRUE]
       \/ /\ sight = "unreadable"
          /\ \E retryable \in Worth(t, sight) : Fail(w, retryable)
          /\ UNCHANGED unchecked
  /\ UNCHANGED <<databaseVars, active, stored, clock, batchVars, found, job, attempt,
                 step, mirrored, seen>>

(* Mutant: the replica is not recorded as failed.                            *)
InvalidateTruthOnly(w) ==
  /\ phase[w] = "invalidating"
  /\ Owns(w)
  /\ EndAttempt(w, RetryOf(w))
  /\ truth' = RepairRequired
  /\ Continue(w)
  /\ UNCHANGED <<copies, active, stored, clock, seen>>

(* failRetention with the replica that was not there.                        *)
Invalidate(w) ==
  /\ phase[w] = "invalidating"
  /\ Owns(w)
  /\ EndAttempt(w, RetryOf(w))
  /\ copies' = [t \in Targets |->
                  IF t \in unchecked[w] /\ copies[t] = "verified" THEN "failed" ELSE copies[t]]
  /\ truth' = RepairRequired
  /\ Continue(w)
  /\ UNCHANGED <<active, stored, clock, seen>>

(* Mutant: the primary is deleted before every guard was read.               *)
DeleteUnchecked(w) ==
  /\ phase[w] = "guarding"
  /\ Delete(w, Primary, "completing")
  /\ UNCHANGED <<databaseVars, active, clock, batchVars, found, job, attempt, step,
                 mirrored, unchecked, seen>>

DeletePrimary(w) ==
  /\ phase[w] = "guarding" /\ unchecked[w] = {}
  /\ Delete(w, Primary, "completing")
  /\ UNCHANGED <<databaseVars, active, clock, batchVars, found, job, attempt, step,
                 mirrored, unchecked, seen>>

(* The object stays as it is if no replica is verified any more.             *)
CompleteRetention(w) ==
  /\ phase[w] = "completing" /\ w \in Retainers
  /\ Recordable(w)
  /\ EndAttempt(w, Succeeded)
  /\ copies' = [copies EXCEPT ![Primary] = "deleted"]
  /\ truth' = IF \E t \in Peers : copies[t] = "verified" THEN Cleaned ELSE truth
  /\ Continue(w)
  /\ UNCHANGED <<active, stored, clock, seen>>

FailRetention(w) ==
  /\ phase[w] = "failing" /\ w \in Retainers
  /\ Owns(w)
  /\ EndAttempt(w, RetryOf(w))
  /\ Continue(w)
  /\ UNCHANGED <<copies, truth, active, stored, clock, seen>>

-----------------------------------------------------------------------------
(* The surroundings.                                                         *)

(* The process of a worker stops, once.                                      *)
Crash(w) ==
  /\ phase[w] # "idle" /\ "crash" \notin seen
  /\ Disturb("crash")
  /\ EndBatch(w)
  /\ UNCHANGED <<databaseVars, active, stored, clock>>

Deactivate(t) ==
  /\ t \in active
  /\ Disturb("inactive")
  /\ active' = active \ {t}
  /\ UNCHANGED <<databaseVars, stored, clock, phase, batchVars, found, jobVars>>

(* All leases of a batch are counted from its beginning.                     *)
Overtaken(w) == phase[w] # "idle" /\ now[w] + LeaseDuration <= clock + 1

Tick ==
  /\ clock < MaxTime
  /\ clock' = clock + 1
  /\ IF \E w \in Workers : Overtaken(w) THEN Disturb("late") ELSE UNCHANGED seen
  /\ UNCHANGED <<databaseVars, active, stored, phase, batchVars, found, jobVars>>

-----------------------------------------------------------------------------

Claim(w) ==
  \/ RunBatch(w) \/ Look(w)
  \/ ClaimRepair(w) \/ ClaimRetention(w) \/ RetentionBlocked(w)
  \/ NothingToClaim(w) \/ ClaimFails(w)

ProcessRepair(w) ==
  \/ VerifyTarget(w) \/ ClearTarget(w) \/ OpenSource(w)
  \/ PutObject(w) \/ HeadObject(w) \/ VerifyRaced(w) \/ Undo(w) \/ VerifyWritten(w)
  \/ CompleteRepair(w) \/ FailRepair(w)

ProcessRetention(w) ==
  \/ VerifyGuard(w) \/ Invalidate(w) \/ DeletePrimary(w)
  \/ CompleteRetention(w) \/ FailRetention(w)

Work(w) ==
  Claim(w) \/ ProcessRepair(w) \/ ProcessRetention(w) \/ RecordingFails(w) \/ FailureIsLost(w)

Next ==
  \/ \E w \in Workers : Work(w) \/ Crash(w)
  \/ \E t \in Targets : Deactivate(t)
  \/ Tick

Spec == Init /\ [][Next]_vars

(* Batches are requested again and again, each is worked off, time passes.   *)
FairSpec == Spec /\ (\A w \in Workers : WF_vars(Work(w))) /\ WF_vars(Tick)

-----------------------------------------------------------------------------
(* Properties.                                                               *)

TypeOK ==
  /\ copies \in [Targets -> CopyStates \cup {"deleted"}]
  /\ truth \in {RepairRequired, Protected, Cleaned}
  /\ attempts \in [Targets -> Seq(Attempts)]
  /\ active \subseteq Targets
  /\ stored \in [Targets -> Bytes]
  /\ clock \in Nat
  /\ phase \in [Workers -> Phases]
  /\ now \in [Workers -> Nat]
  /\ left \in [Workers -> Nat]
  /\ found \in [Workers -> SUBSET Targets]
  /\ job \in [Workers -> Targets \cup {NoTarget}]
  /\ attempt \in [Workers -> Nat]
  /\ step \in [Workers -> WriterSteps]
  /\ mirrored \in [Workers -> Bytes]
  /\ unchecked \in [Workers -> SUBSET Targets]
  /\ error \in [Workers -> BOOLEAN]
  /\ seen \subseteq Disturbances

(* No worker has gone on without its lease, or shares a lease with another.  *)
Exclusive == seen \cap {"late", "race"} = {}

(* A copy has one attempt in progress: a claim ends the lease it takes over, *)
(* and is refused one that is alive.                                         *)
Live(t) == {n \in DOMAIN attempts[t] : attempts[t][n].state = "in_progress"}

SingleOwner == \A t \in Targets : \A m, n \in Live(t) : m = n

ClaimsAreExclusive == "race" \notin seen => SingleOwner

(* An attempt that has ended is history, also for a worker that finds its    *)
(* lease lost.                                                               *)
AttemptsAreFinal ==
  [][\A t \in Targets : \A n \in DOMAIN attempts[t] \ Live(t) :
       n \in DOMAIN attempts'[t] /\ attempts'[t][n] = attempts[t][n]]_vars

(* A replica is recorded as verified when it holds the object, and keeps it  *)
(* as long as every worker has its lease for itself: no cleanup, retry or    *)
(* crash takes bytes away that a record vouches for.                         *)
ReplicaIsExact ==
  [][Exclusive' =>
       \A t \in Peers :
         copies'[t] = "verified" /\ (copies[t] = "verified" => stored[t] = "exact")
           => stored'[t] = "exact"]_vars

(* The primary's bytes go only while the replicas hold the object.           *)
PrimaryGoesLast ==
  [][Exclusive' /\ stored[Primary] # "absent" /\ stored'[Primary] = "absent"
       => /\ \E t \in Peers : copies[t] = "verified" /\ stored[t] = "exact"
          /\ \A t \in Peers \cap active : copies[t] = "verified" /\ stored[t] = "exact"]_vars

(* The truth of the object never claims more than its copies do, whatever    *)
(* late workers and races do.                                                *)
TruthIsBacked ==
  /\ truth = Protected => \A t \in Targets : copies[t] = "verified"
  /\ truth = Cleaned => /\ copies[Primary] = "deleted"
                        /\ \E t \in Peers : copies[t] = "verified"

(* A repair that is required is possible: some replica is not verified, and  *)
(* the primary is there to repair it from.                                   *)
RepairIsPossible ==
  seen \cap {"race", "inactive"} = {} /\ truth = RepairRequired =>
    /\ copies[Primary] = "verified"
    /\ \E t \in Peers : copies[t] # "verified"

(* Without other failures a sound primary reaches every replica and is then  *)
(* deleted, also when the process stops between any two steps of a job: the  *)
(* lease it held ends. The clock of the model ends too, and an attempt that  *)
(* waits for a time after that is the only excuse.                           *)
ClockRanOut ==
  \E t \in Targets :
    attempts[t] # <<>> /\ Last(attempts[t]).due > MaxTime

RetentionCompletes == stored[Primary] = "exact" => <>(truth = Cleaned \/ ClockRanOut)

(* The tests: repair claims are stale-safe. A worker whose lease was taken   *)
(* over leaves the replica alone that its successor has verified.            *)
StaleSafe ==
  [][\A t \in Peers :
       copies[t] = "verified" /\ stored[t] = "exact" => stored'[t] = "exact"]_vars

=============================================================================
