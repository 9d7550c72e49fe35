---------------------------- MODULE ObjectUpload ----------------------------
(***************************************************************************)
(* PUT and DELETE of an object write intent, from the durable duplicate     *)
(* protection down to the provider writes.                                  *)
(*                                                                          *)
(* The whole of an upload runs inside the ONE PostgreSQL transaction that   *)
(* `execute` opens: nested registry calls find that transaction in the      *)
(* asynchronous scope and join it. So the idempotency row, the move to      *)
(* "uploading", the attempts, the outcome and the "succeeded" mark become   *)
(* visible together at COMMIT, and an exception drops them together. The    *)
(* provider writes in between are not transactional. Recording the failure  *)
(* is a second transaction, after the first one's ROLLBACK.                 *)
(*                                                                          *)
(* intent, copies, truth, recorded and keys are committed rows; uncommitted *)
(* is the intent-row write a transaction has made but not committed, which  *)
(* is also its lock on that row.                                            *)
(***************************************************************************)
EXTENDS OutcomeTable, ProviderWriter

CONSTANTS
  Intents,    \* write intents; each one owns one storage object
  Uploads,    \* PUT requests
  Cancels,    \* DELETE requests
  Keys,       \* values of the duplicate-protection header
  NoRequest,  \* no request owns this
  NoIntent,   \* this key is not recorded
  Faults      \* the kinds of fault that may happen in this run

Requests == Uploads \cup Cancels

FaultKinds == {"crash", "connection", "database", "cleanup"}

ASSUME RequestsAssumption ==
  /\ Uploads \cap Cancels = {}
  /\ NoRequest \notin Requests
  /\ NoIntent \notin Intents
  /\ Faults \subseteq FaultKinds

VARIABLES
  intent,       \* the state of each write intent's row
  copies,       \* the copy_state of each copy's row
  truth,        \* registry_state and object_protection_stage of each object's row
  recorded,     \* safe_technical_metadata.completion of each object's row
  keys,         \* the intent each key's succeeded row refers to, per operation scope
  expired,      \* the intents whose expires_at has passed
  stored,       \* what the provider holds of each object, per target
  pc,           \* where each request is
  keyOf,        \* the key each request carries
  intentOf,     \* the intent each request names
  uncommitted,  \* the state this request's open transaction wrote to its intent's row
  progress,     \* how far each target of this upload is
  answer,       \* what each request was answered
  active,       \* #active: the execution registered for each intent in this process
  seen          \* the kinds of fault that have happened

requestVars == <<pc, keyOf, intentOf, uncommitted, progress, answer>>
databaseVars == <<intent, copies, truth, recorded, keys>>
vars == <<databaseVars, expired, stored, requestVars, active, seen>>

Scope(r) == IF r \in Uploads THEN "object-upload-completion"
                             ELSE "object-write-intent-cancel"
Scopes == {"object-upload-completion", "object-write-intent-cancel"}

Phases == {"idle",       \* not sent yet
           "sent",       \* about to insert the idempotency row, or waiting for its key
           "reserved",   \* the idempotency row is inserted
           "checked",    \* the execution context was read, without a lock
           "rejecting",  \* an error that leaves the intent alone is on its way out
           "staging",    \* the intent is "uploading" and the attempts are reserved
           "writing",    \* the providers are being written
           "cleaning",   \* an error that will fail the intent is on its way out
           "failing",    \* rolled back; the failure is still to be recorded
           "done"}

Steps == WriterSteps \cup {"todo"}

Recorded(storageState, c) == [state |-> storageState, copies |-> c]
NotRecorded == Recorded("none", NothingWritten)

Answer(kind, stage, completion) ==
  [kind |-> kind, stage |-> stage, completion |-> completion]
Unanswered == Answer("none", "none", NotRecorded)
Problem(kind) == Answer(kind, "none", NotRecorded)

(* The copies of a recorded completion: a replica that is still pending is   *)
(* reported as failed.                                                       *)
CompletionCopies(c) ==
  [t \in Targets |-> IF c[t] = "verified" THEN "verified" ELSE "failed"]

-----------------------------------------------------------------------------
(* Locks and guards.                                                         *)

(* The database has dropped this upload's connection and its locks; the      *)
(* request has not noticed.                                                  *)
Severed(r) ==
  /\ pc[r] \in {"staging", "writing", "cleaning"}
  /\ uncommitted[r] = "none"

(* An open transaction holds the row its INSERT ... ON CONFLICT made.        *)
HoldsKey(r, s, k) ==
  /\ Scope(r) = s /\ keyOf[r] = k
  /\ pc[r] \in {"reserved", "checked", "rejecting", "staging", "writing", "cleaning"}
  /\ ~Severed(r)

(* Mutant: an insert does not wait for the transaction that has the same key. *)
KeyNotLocked(s, k) == s \in Scopes /\ k \in Keys

KeyFree(s, k) == \A r \in Requests : ~HoldsKey(r, s, k)

(* An UPDATE waits for the transaction that has changed the row.             *)
HoldsRow(r, i) == intentOf[r] = i /\ uncommitted[r] # "none"

(* Mutant: the intent's row is read and written without its lock.            *)
RowNotLocked(i) == i \in Intents

RowFree(i) == \A r \in Requests : ~HoldsRow(r, i)

Running(r) == pc[r] \notin {"idle", "done"}

Settled(r) == \A t \in Written : progress[r][t] \in {"failed", "verified"}

(* Mutant: a write is recorded without asking whether it was made, so that   *)
(* the replicas of a route are recorded as the writer left them.             *)
OutcomeOfAllTargets(r) == progress[r]

(* Mutant: every write that was tried counts as verified.                    *)
OutcomeUnverified(r) == [t \in Targets |-> IF t \in Written THEN "verified" ELSE "pending"]

Outcome(r) == [t \in Targets |-> IF t \in Written THEN progress[r][t] ELSE "pending"]

(* Mutant: the outcome of a route is recorded without its primary.           *)
PrimaryOptional(r) == r \notin Requests

PrimaryLost(r) == Configured /\ progress[r][Primary] = "failed"

(* Mutant: the transaction is left open, with its locks.                     *)
LeaveOpen(r, phase) ==
  /\ pc' = [pc EXCEPT ![r] = phase]
  /\ UNCHANGED uncommitted

(* ROLLBACK: nothing this transaction wrote was ever visible.                *)
Leave(r, phase) ==
  /\ pc' = [pc EXCEPT ![r] = phase]
  /\ uncommitted' = [uncommitted EXCEPT ![r] = "none"]

Finish(r, a) ==
  /\ Leave(r, "done")
  /\ answer' = [answer EXCEPT ![r] = a]

Fault(kind) == kind \in Faults /\ seen' = seen \cup {kind}

-----------------------------------------------------------------------------

Init ==
  /\ intent = [i \in Intents |-> "none"]
  /\ copies = [i \in Intents |-> NothingWritten]
  /\ truth = [i \in Intents |-> Created]
  /\ recorded = [i \in Intents |-> NotRecorded]
  /\ keys = [s \in Scopes |-> [k \in Keys |-> NoIntent]]
  /\ expired = {}
  /\ stored = [i \in Intents |-> [t \in Targets |-> "absent"]]
  /\ pc = [r \in Requests |-> "idle"]
  /\ keyOf \in [Requests -> Keys]
  /\ intentOf \in [Requests -> Intents]
  /\ uncommitted = [r \in Requests |-> "none"]
  /\ progress = [r \in Requests |-> [t \in Targets |-> "todo"]]
  /\ answer = [r \in Requests |-> Unanswered]
  /\ active = [i \in Intents |-> NoRequest]
  /\ seen = {}

(* POST: the object, its intent and its pending copies in one transaction.   *)
CreateObjectWriteIntent(i) ==
  /\ intent[i] = "none"
  /\ intent' = [intent EXCEPT ![i] = "accepted"]
  /\ UNCHANGED <<copies, truth, recorded, keys, expired, stored, requestVars, active, seen>>

(* The intent's 15 minutes pass.                                             *)
TimePasses(i) ==
  /\ intent[i] # "none" /\ i \notin expired
  /\ expired' = expired \cup {i}
  /\ UNCHANGED <<databaseVars, stored, requestVars, active, seen>>

-----------------------------------------------------------------------------
(* Arrival, and `execute`: duplicate protection.                             *)

(* The upload token carries the expiry of its intent: a PUT that arrives     *)
(* later is refused before the registry is asked for anything.               *)
Send(r) ==
  /\ pc[r] = "idle" /\ intent[intentOf[r]] # "none"
  /\ r \in Uploads => intentOf[r] \notin expired
  /\ pc' = [pc EXCEPT ![r] = "sent"]
  /\ UNCHANGED <<databaseVars, expired, stored, keyOf, intentOf, uncommitted,
                 progress, answer, active, seen>>

TokenExpired(r) ==
  /\ pc[r] = "idle" /\ r \in Uploads
  /\ intent[intentOf[r]] # "none" /\ intentOf[r] \in expired
  /\ Finish(r, Problem("token-expired"))
  /\ UNCHANGED <<databaseVars, expired, stored, keyOf, intentOf, progress, active, seen>>

(* The key is new: the row is inserted in progress.                          *)
Reserve(r) ==
  /\ pc[r] = "sent" /\ KeyFree(Scope(r), keyOf[r])
  /\ keys[Scope(r)][keyOf[r]] = NoIntent
  /\ pc' = [pc EXCEPT ![r] = "reserved"]
  /\ UNCHANGED <<databaseVars, expired, stored, keyOf, intentOf, uncommitted,
                 progress, answer, active, seen>>

(* The key is known for another request: its fingerprint differs.            *)
KeyReused(r) ==
  /\ pc[r] = "sent" /\ KeyFree(Scope(r), keyOf[r])
  /\ keys[Scope(r)][keyOf[r]] \notin {NoIntent, intentOf[r]}
  /\ Finish(r, Problem("key-reused"))
  /\ UNCHANGED <<databaseVars, expired, stored, keyOf, intentOf, progress, active, seen>>

(* The key is known for this request: the answer is decoded from the rows as *)
(* they are now, the stage from the object, the rest from its completion.    *)
Decode(r) ==
  LET i == intentOf[r]
  IN IF r \in Uploads /\ intent[i] = "completed"
     THEN Answer("recorded", truth[i].stage, recorded[i])
     ELSE IF r \in Cancels /\ intent[i] = "cancelled"
          THEN Problem("cancelled")
          ELSE Problem("result-missing")

(* Mutant: the fingerprint of the request is not compared.                   *)
ReplayAnyRequest(r) ==
  /\ pc[r] = "sent" /\ KeyFree(Scope(r), keyOf[r])
  /\ keys[Scope(r)][keyOf[r]] # NoIntent
  /\ Finish(r, Decode(r))
  /\ UNCHANGED <<databaseVars, expired, stored, keyOf, intentOf, progress, active, seen>>

Replay(r) ==
  /\ pc[r] = "sent" /\ KeyFree(Scope(r), keyOf[r])
  /\ keys[Scope(r)][keyOf[r]] = intentOf[r]
  /\ Finish(r, Decode(r))
  /\ UNCHANGED <<databaseVars, expired, stored, keyOf, intentOf, progress, active, seen>>

-----------------------------------------------------------------------------
(* The checks both handlers make on the execution context they read without  *)
(* a lock.                                                                   *)

ReadContext(r) ==
  /\ pc[r] = "reserved"
  /\ intent[intentOf[r]] = "accepted" /\ intentOf[r] \notin expired
  /\ pc' = [pc EXCEPT ![r] = "checked"]
  /\ UNCHANGED <<databaseVars, expired, stored, keyOf, intentOf, uncommitted,
                 progress, answer, active, seen>>

RefuseTerminal(r) ==
  /\ pc[r] = "reserved"
  /\ intent[intentOf[r]] # "accepted" /\ intentOf[r] \notin expired
  /\ Finish(r, Problem("refused"))
  /\ UNCHANGED <<databaseVars, expired, stored, keyOf, intentOf, progress, active, seen>>

(* The intent is due: the row is moved to "expired" in this transaction, and *)
(* the conflict thrown next rolls that back.                                 *)
ExpireIfDue(r) ==
  LET i == intentOf[r]
  IN /\ pc[r] = "reserved" /\ i \in expired
     /\ intent[i] = "accepted" => RowFree(i)
     /\ uncommitted' = [uncommitted EXCEPT
                          ![r] = IF intent[i] = "accepted" THEN "expired" ELSE "none"]
     /\ pc' = [pc EXCEPT ![r] = "rejecting"]
     /\ UNCHANGED <<databaseVars, expired, stored, keyOf, intentOf, progress,
                    answer, active, seen>>

RefuseExpired(r) ==
  /\ pc[r] = "rejecting"
  /\ Finish(r, Problem("expired"))
  /\ UNCHANGED <<databaseVars, expired, stored, keyOf, intentOf, progress, active, seen>>

-----------------------------------------------------------------------------
(* DELETE: the compare-and-set, which does not look at the expiry again, and *)
(* the COMMIT that follows it. A connection that breaks at the COMMIT leaves *)
(* it unknown whether it took effect.                                        *)

CancelObjectWriteIntent(r) ==
  LET i == intentOf[r]
  IN /\ r \in Cancels /\ pc[r] = "checked" /\ RowFree(i)
     /\ intent[i] = "accepted"
     /\ intent' = [intent EXCEPT ![i] = "cancelled"]
     /\ keys' = [keys EXCEPT ![Scope(r)][keyOf[r]] = i]
     /\ Finish(r, Problem("cancelled"))
     /\ UNCHANGED <<copies, truth, recorded, expired, stored, keyOf, intentOf,
                    progress, active, seen>>

CancelCommitFails(r) ==
  LET i == intentOf[r]
  IN /\ r \in Cancels /\ pc[r] = "checked" /\ RowFree(i)
     /\ intent[i] = "accepted"
     /\ \/ /\ intent' = [intent EXCEPT ![i] = "cancelled"]
           /\ keys' = [keys EXCEPT ![Scope(r)][keyOf[r]] = i]
        \/ UNCHANGED <<intent, keys>>
     /\ Fault("database")
     /\ Finish(r, Problem("error"))
     /\ UNCHANGED <<copies, truth, recorded, expired, stored, keyOf, intentOf,
                    progress, active>>

CancelConflict(r) ==
  LET i == intentOf[r]
  IN /\ r \in Cancels /\ pc[r] = "checked" /\ RowFree(i)
     /\ intent[i] # "accepted"
     /\ Finish(r, Problem("refused"))
     /\ UNCHANGED <<databaseVars, expired, stored, keyOf, intentOf, progress, active, seen>>

-----------------------------------------------------------------------------
(* PUT: beginObjectUpload, then the adapter's reservation of one attempt per *)
(* copy, in the same transaction and on rows no other transaction can take.  *)
(* The time the expiry is compared with is read before the row is waited     *)
(* for, so an intent that falls due in between may still begin.              *)

(* Mutant: the state read before the lock is not compared again under it.    *)
BeginUnchecked(r) ==
  LET i == intentOf[r]
  IN /\ r \in Uploads /\ pc[r] = "checked" /\ RowFree(i)
     /\ uncommitted' = [uncommitted EXCEPT ![r] = "uploading"]
     /\ pc' = [pc EXCEPT ![r] = "staging"]
     /\ active' = [active EXCEPT ![i] = r]
     /\ UNCHANGED <<databaseVars, expired, stored, keyOf, intentOf, progress, answer, seen>>

BeginObjectUpload(r) ==
  LET i == intentOf[r]
  IN /\ r \in Uploads /\ pc[r] = "checked" /\ RowFree(i)
     /\ intent[i] = "accepted"
     /\ \A t \in Targets : copies[i][t] = "pending"
     /\ uncommitted' = [uncommitted EXCEPT ![r] = "uploading"]
     /\ pc' = [pc EXCEPT ![r] = "staging"]
     /\ active' = [active EXCEPT ![i] = r]
     /\ UNCHANGED <<databaseVars, expired, stored, keyOf, intentOf, progress, answer, seen>>

(* A statement of the adapter's reservation fails: the intent's row is       *)
(* "uploading" in this transaction until the ROLLBACK, but no execution was  *)
(* registered.                                                               *)
ReservationFails(r) ==
  LET i == intentOf[r]
  IN /\ r \in Uploads /\ pc[r] = "checked" /\ RowFree(i)
     /\ intent[i] = "accepted"
     /\ Fault("database")
     /\ uncommitted' = [uncommitted EXCEPT ![r] = "uploading"]
     /\ pc' = [pc EXCEPT ![r] = "cleaning"]
     /\ UNCHANGED <<databaseVars, expired, stored, keyOf, intentOf, progress, answer, active>>

BeginConflict(r) ==
  LET i == intentOf[r]
  IN /\ r \in Uploads /\ pc[r] = "checked" /\ RowFree(i)
     /\ intent[i] # "accepted" \/ i \in expired
     /\ Finish(r, Problem("refused"))
     /\ UNCHANGED <<databaseVars, expired, stored, keyOf, intentOf, progress, active, seen>>

(* The body is staged, its media verified and every target resolved.         *)
Stage(r) ==
  /\ pc[r] = "staging"
  /\ pc' = [pc EXCEPT ![r] = "writing"]
  /\ progress' = [progress EXCEPT
       ![r] = [t \in Targets |-> IF t \in Written THEN "resolved" ELSE "todo"]]
  /\ UNCHANGED <<databaseVars, expired, stored, keyOf, intentOf, uncommitted,
                 answer, active, seen>>

(* A short or wrong body, refused media, or a target that does not resolve   *)
(* although the hot one before it did.                                       *)
StageFails(r) ==
  /\ pc[r] = "staging"
  /\ pc' = [pc EXCEPT ![r] = "cleaning"]
  /\ \E some \in (IF Configured THEN {{}} ELSE {{}, Peers}) :
       progress' = [progress EXCEPT
         ![r] = [t \in Targets |-> IF t \in some THEN "resolved" ELSE "todo"]]
  /\ UNCHANGED <<databaseVars, expired, stored, keyOf, intentOf, uncommitted,
                 answer, active, seen>>

-----------------------------------------------------------------------------
(* The provider writer, one target of one upload at a time; the targets      *)
(* proceed independently. The bytes always reach their target through a      *)
(* conditional create, and only the exact bytes pass staging.                *)

Content(r, t) == stored[intentOf[r]][t]

Progress(r, t, from, results) ==
  /\ pc[r] = "writing" /\ progress[r][t] = from
  /\ \E result \in results :
       /\ progress' = [progress EXCEPT ![r][t] = result.step]
       /\ stored' = [stored EXCEPT ![intentOf[r]][t] = result.content]
  /\ UNCHANGED <<databaseVars, expired, pc, keyOf, intentOf, uncommitted, answer, active>>

PutObject(r, t) == Progress(r, t, "resolved", AfterPut("exact", Content(r, t))) /\ UNCHANGED seen

HeadObject(r, t) == Progress(r, t, "stored", AfterHead(Content(r, t))) /\ UNCHANGED seen

(* The writer's own cleanup of the target it failed to write: a deletion     *)
(* that fails is reported in a result nobody reads.                          *)
CleanupTarget(r, t) ==
  \/ Progress(r, t, "undo", AfterDelete) /\ UNCHANGED seen
  \/ Progress(r, t, "undo", AfterLostDelete(Content(r, t))) /\ Fault("cleanup")

-----------------------------------------------------------------------------
(* The outcome is recorded: attempts, copies, object, completed intent, then *)
(* the execution is forgotten, the key marked succeeded and the COMMIT.      *)

Recording(r) == pc[r] = "writing" /\ Settled(r) /\ ~Severed(r)

(* Mutant: the object keeps the truth it was created with.                   *)
CommitWithoutTruth(r) ==
  LET i == intentOf[r]
      completion == Recorded(DeriveTruth(Outcome(r)).state, CompletionCopies(Outcome(r)))
  IN /\ intent' = [intent EXCEPT ![i] = "completed"]
     /\ copies' = [copies EXCEPT ![i] = Outcome(r)]
     /\ recorded' = [recorded EXCEPT ![i] = completion]
     /\ keys' = [keys EXCEPT ![Scope(r)][keyOf[r]] = i]
     /\ UNCHANGED truth

Commit(r) ==
  LET i == intentOf[r]
      completion == Recorded(DeriveTruth(Outcome(r)).state, CompletionCopies(Outcome(r)))
  IN /\ intent' = [intent EXCEPT ![i] = "completed"]
     /\ copies' = [copies EXCEPT ![i] = Outcome(r)]
     /\ truth' = [truth EXCEPT ![i] = DeriveTruth(Outcome(r))]
     /\ recorded' = [recorded EXCEPT ![i] = completion]
     /\ keys' = [keys EXCEPT ![Scope(r)][keyOf[r]] = i]

CompleteProviderWrite(r) ==
  LET i == intentOf[r]
  IN /\ Recording(r) /\ ~PrimaryLost(r)
     /\ Commit(r)
     /\ active' = [active EXCEPT ![i] = NoRequest]
     /\ Finish(r, Answer("recorded", truth'[i].stage, recorded'[i]))
     /\ UNCHANGED <<expired, stored, keyOf, intentOf, progress, seen>>

(* The connection breaks at the COMMIT: it took effect or it did not, and    *)
(* the error carries no wish to fail the intent.                             *)
CommitFails(r) ==
  /\ Recording(r) /\ ~PrimaryLost(r)
  /\ Commit(r) \/ UNCHANGED databaseVars
  /\ Fault("database")
  /\ active' = [active EXCEPT ![intentOf[r]] = NoRequest]
  /\ Finish(r, Problem("error"))
  /\ UNCHANGED <<expired, stored, keyOf, intentOf, progress>>

(* Mutant: the failure of a route's primary write ends with the rollback.    *)
PrimaryWriteFailedUnrecorded(r) ==
  /\ Recording(r) /\ PrimaryLost(r)
  /\ active' = [active EXCEPT ![intentOf[r]] = NoRequest]
  /\ Finish(r, Problem("error"))
  /\ UNCHANGED <<databaseVars, expired, stored, keyOf, intentOf, progress, seen>>

(* A route's primary write failed: the outcome is recorded and the execution *)
(* forgotten, but the error thrown next rolls the record back.               *)
PrimaryWriteFailed(r) ==
  /\ Recording(r) /\ PrimaryLost(r)
  /\ active' = [active EXCEPT ![intentOf[r]] = NoRequest]
  /\ Leave(r, "failing")
  /\ UNCHANGED <<databaseVars, expired, stored, keyOf, intentOf, progress, answer, seen>>

(* The first statement on the dead connection fails.                         *)
CompleteFails(r) ==
  /\ pc[r] = "writing" /\ Settled(r) /\ Severed(r)
  /\ pc' = [pc EXCEPT ![r] = "cleaning"]
  /\ UNCHANGED <<databaseVars, expired, stored, keyOf, intentOf, uncommitted,
                 progress, answer, active, seen>>

(* A statement of the record fails on a connection that lives: the row stays *)
(* locked until the ROLLBACK, and the execution registered until the cleanup.*)
RecordingFails(r) ==
  /\ Recording(r) /\ Fault("database")
  /\ pc' = [pc EXCEPT ![r] = "cleaning"]
  /\ UNCHANGED <<databaseVars, expired, stored, keyOf, intentOf, uncommitted,
                 progress, answer, active>>

(* safeCleanup: the targets of the execution registered for the intent that  *)
(* were resolved and not verified, whoever registered it; then ROLLBACK.     *)
Cleanable(i) ==
  {t \in Targets : active[i] # NoRequest /\ progress[active[i]][t] \notin {"todo", "verified"}}

SafeCleanup(r) ==
  LET i == intentOf[r]
  IN /\ pc[r] = "cleaning"
     /\ \E kept \in SUBSET Cleanable(i) :
          /\ stored' = [stored EXCEPT ![i] = [t \in Targets |->
                          IF t \in Cleanable(i) \ kept THEN "absent" ELSE @[t]]]
          /\ IF kept = {} THEN UNCHANGED seen ELSE Fault("cleanup")
     /\ active' = [active EXCEPT ![i] = NoRequest]
     /\ Leave(r, "failing")
     /\ UNCHANGED <<databaseVars, expired, keyOf, intentOf, progress, answer>>

(* Mutant: a late failure overwrites whatever the intent has become.         *)
FailAnyState(r) ==
  LET i == intentOf[r]
  IN /\ pc[r] = "failing" /\ RowFree(i)
     /\ intent' = [intent EXCEPT ![i] = "failed"]
     /\ Finish(r, Problem("error"))
     /\ UNCHANGED <<copies, truth, recorded, keys, expired, stored, keyOf, intentOf,
                    progress, active, seen>>

(* handleObjectUploadFailure, in a transaction of its own: whatever state    *)
(* and version the intent has by then, if it is not terminal it fails.       *)
FailObjectUpload(r) ==
  LET i == intentOf[r]
  IN /\ pc[r] = "failing"
     /\ intent[i] = "accepted" => RowFree(i)
     /\ \/ /\ intent' = [intent EXCEPT ![i] = IF @ = "accepted" THEN "failed" ELSE @]
           /\ UNCHANGED seen
        \/ UNCHANGED intent /\ Fault("database")
     /\ Finish(r, Problem("error"))
     /\ UNCHANGED <<copies, truth, recorded, keys, expired, stored, keyOf, intentOf,
                    progress, active>>

-----------------------------------------------------------------------------
(* Faults.                                                                   *)

(* The server process stops: every transaction is rolled back, the providers *)
(* keep what they have.                                                      *)
Crash ==
  /\ \E r \in Requests : Running(r)
  /\ Fault("crash")
  /\ pc' = [r \in Requests |-> IF Running(r) THEN "done" ELSE pc[r]]
  /\ answer' = [r \in Requests |-> IF Running(r) THEN Problem("error") ELSE answer[r]]
  /\ uncommitted' = [r \in Requests |-> "none"]
  /\ active' = [i \in Intents |-> NoRequest]
  /\ UNCHANGED <<databaseVars, expired, stored, keyOf, intentOf, progress>>

(* The database gives up the connection of an upload that is receiving its   *)
(* body or writing: the locks go at once, the request finds out when it next *)
(* needs the connection.                                                     *)
LoseConnection(r) ==
  /\ pc[r] \in {"staging", "writing"} /\ ~Severed(r)
  /\ Fault("connection")
  /\ uncommitted' = [uncommitted EXCEPT ![r] = "none"]
  /\ UNCHANGED <<databaseVars, expired, stored, pc, keyOf, intentOf, progress,
                 answer, active>>

(* A statement fails before anything but the key was written.                *)
StatementFails(r) ==
  /\ pc[r] \in {"sent", "reserved", "checked", "rejecting"}
  /\ Fault("database")
  /\ Finish(r, Problem("error"))
  /\ UNCHANGED <<databaseVars, expired, stored, keyOf, intentOf, progress, active>>

-----------------------------------------------------------------------------

Write(r, t) == PutObject(r, t) \/ HeadObject(r, t) \/ CleanupTarget(r, t)

Handle(r) ==
  \/ Reserve(r) \/ KeyReused(r) \/ Replay(r)
  \/ ReadContext(r) \/ RefuseTerminal(r) \/ ExpireIfDue(r) \/ RefuseExpired(r)
  \/ CancelObjectWriteIntent(r) \/ CancelConflict(r)
  \/ BeginObjectUpload(r) \/ BeginConflict(r)
  \/ Stage(r) \/ StageFails(r)
  \/ \E t \in Targets : Write(r, t)
  \/ CompleteProviderWrite(r) \/ PrimaryWriteFailed(r) \/ CompleteFails(r)
  \/ SafeCleanup(r) \/ FailObjectUpload(r)

Arrive(r) == Send(r) \/ TokenExpired(r)

Break(r) ==
  \/ StatementFails(r) \/ ReservationFails(r) \/ RecordingFails(r)
  \/ CommitFails(r) \/ CancelCommitFails(r) \/ LoseConnection(r)

AllDone == (\A r \in Requests : pc[r] = "done") /\ UNCHANGED vars

Next ==
  \/ \E i \in Intents : CreateObjectWriteIntent(i) \/ TimePasses(i)
  \/ \E r \in Requests : Arrive(r) \/ Handle(r) \/ Break(r)
  \/ Crash
  \/ AllDone

(* A request that has arrived is executed: the event loop, the providers and *)
(* the database serve it. Nothing obliges a client to send one, time to pass *)
(* or a fault to happen.                                                     *)
Fairness == \A r \in Requests : WF_vars(Handle(r))

Spec == Init /\ [][Next]_vars /\ Fairness

-----------------------------------------------------------------------------
(* Properties.                                                               *)

Closed == {"completed", "expired", "cancelled", "failed"}

StorageStates == {"none", "ready", "degraded", "unavailable"}

Stages == {"write-intent-created", "canonical-and-hot-verified",
           "canonical-verified-hot-repair-required",
           "hot-verified-canonical-repair-required", "provider-write-failed",
           "configuration-primary-and-replicas-verified",
           "configuration-replica-repair-required", "configuration-primary-write-failed"}

Truths == [state : StorageStates, registry : {"reserved", "active", "degraded"},
           stage : Stages]

Completions == [state : StorageStates, copies : [Targets -> CopyStates]]

Answers == [kind : {"none", "recorded", "cancelled", "refused", "expired", "key-reused",
                    "token-expired", "result-missing", "error"},
            stage : Stages \cup {"none"},
            completion : Completions]

(* Every variable keeps its type; an intent is never seen in "uploading" or  *)
(* in "expired", since the transactions that write those states never commit *)
(* them.                                                                     *)
TypeOK ==
  /\ intent \in [Intents -> IntentStates \ {"uploading", "expired"}]
  /\ copies \in [Intents -> [Targets -> CopyStates]]
  /\ truth \in [Intents -> Truths]
  /\ recorded \in [Intents -> Completions]
  /\ keys \in [Scopes -> [Keys -> Intents \cup {NoIntent}]]
  /\ expired \subseteq Intents
  /\ stored \in [Intents -> [Targets -> Contents]]
  /\ pc \in [Requests -> Phases]
  /\ keyOf \in [Requests -> Keys]
  /\ intentOf \in [Requests -> Intents]
  /\ uncommitted \in [Requests -> {"none", "uploading", "expired"}]
  /\ progress \in [Requests -> [Targets -> Steps]]
  /\ answer \in [Requests -> Answers]
  /\ active \in [Intents -> Uploads \cup {NoRequest}]
  /\ seen \subseteq Faults

(* Two uploads with different keys may name the same intent: the lock on the *)
(* row keeps all but one of them away from the providers, as long as the     *)
(* database keeps the connection that holds it.                              *)
Driving(r) == pc[r] \in {"staging", "writing", "cleaning"}

OneWriter ==
  \A q, r \in Uploads :
    q # r /\ intentOf[q] = intentOf[r] /\ Driving(q) /\ Driving(r)
      => Severed(q) \/ Severed(r)

(* A copy is recorded as verified only while the provider holds its bytes:   *)
(* no cleanup, of this upload or of any other of the same intent, takes them *)
(* away. It needs the row lock, so a run that loses connections has no claim *)
(* to it.                                                                    *)
VerifiedHasBytes ==
  "connection" \notin seen =>
    \A i \in Intents, t \in Targets : copies[i][t] = "verified" => stored[i][t] = "exact"

(* Without faults every byte stored belongs to a verified copy, once nobody  *)
(* is at work on the intent: failed and refused uploads leave nothing behind.*)
Quiet(i) == \A r \in Uploads : intentOf[r] = i => ~Running(r)

NoOrphans ==
  seen = {} =>
    \A i \in Intents, t \in Targets :
      Quiet(i) /\ stored[i][t] = "exact" => copies[i][t] = "verified"

(* Nothing is stored for or deleted from an intent that is closed.           *)
NoWriteAfterClose ==
  [][\A i \in Intents :
       intent[i] \in Closed /\ "connection" \notin seen => stored'[i] = stored[i]]_vars

(* What a client was told stays true: a recorded upload stays completed with *)
(* the outcome of the answer, whether the answer was the first or a replay,  *)
(* and a cancelled intent stays cancelled.                                   *)
AnswerIsDurable ==
  \A r \in Requests :
    LET i == intentOf[r]
    IN /\ answer[r].kind = "recorded" =>
            /\ intent[i] = "completed"
            /\ answer[r] = Answer("recorded", truth[i].stage, recorded[i])
       /\ answer[r].kind = "cancelled" => intent[i] = "cancelled"

(* A key that was recorded always has a result to replay.                    *)
ReplayHasResult == \A r \in Requests : answer[r].kind # "result-missing"

(* Without faults, an upload that got past the lock and was answered with an *)
(* error has closed its intent: nothing is left open for a client that will  *)
(* not retry.                                                                *)
FailureIsRecorded ==
  seen = {} =>
    \A r \in Uploads : answer[r].kind = "error" => intent[intentOf[r]] \in Closed

(* A key, once recorded, answers for the same intent for ever, however many  *)
(* requests carry it at once.                                                *)
KeysAreFinal ==
  [][\A s \in Scopes, k \in Keys :
       keys[s][k] # NoIntent => keys'[s][k] = keys[s][k]]_vars

(* Seen from the outside an upload is one step: open, then one row of the    *)
(* outcome table, or closed with nothing recorded.                           *)
Abstract == INSTANCE StorageTruth WITH
  Intents <- Intents, intent <- intent, copies <- copies, truth <- truth

ImplementsStorageTruth == Abstract!Spec

(* A request that has arrived is answered: the waits for a key and for a row *)
(* end.                                                                      *)
EveryRequestAnswered == \A r \in Requests : (pc[r] # "idle") ~> (pc[r] = "done")

=============================================================================
