# A formal model of the Z-S storage runtime

This directory models the storage runtime of `src/` in TLA+, checks the models with TLC on
small instances, and proves the properties that matter most with TLAPS for every value of the
constants. Line numbers are those of the repository at the commit beside this directory;
`PROJECT.json` has, for every definition, the lines it stands for.

## 1. The system and its parts

Z-S is a control plane for object storage. An application asks it for a *write intent*, sends
the bytes with a PUT, and later reads them through a *grant*. Everything durable is in
PostgreSQL; the bytes are at one or more S3-compatible *providers*.

| Component | State it keeps | Operations | Talks to |
|---|---|---|---|
| HTTP runtime (`runtime-service.ts`, `runtime-upload-token.ts`) | none; signed upload tokens | POST, PUT, DELETE of an intent, grants, status | ingest runtime, duplicate protection |
| Duplicate protection (`runtime-storage-registry-duplicate.ts`) | `storage_idempotency_records`: one row per caller, operation and key | `execute`: reserve, run, mark succeeded, or replay | opens *the* transaction of a request |
| Ingest runtime (`runtime-ingest.ts`) | none | create, complete, cancel, fail an upload | registry, ingest adapter |
| Registry (`runtime-storage-registry*.ts`) | intents, objects, copies, attempts, with row versions | compare-and-set updates inside whatever transaction is open | PostgreSQL |
| Ingest adapter (`runtime-dual-provider.ts`) | `#active`: the execution of each intent, in memory | stage, write the targets, record, clean up | registry, writer |
| Provider writer (`runtime-s3-provider.ts`) | none; the objects at the provider | conditional PUT, verifying HEAD, unconditional DELETE | S3 |
| Targeted retry (`runtime-dual-provider.ts`, registry) | attempts, copies | reserve, write, complete | registry, writer |
| Replica protection (`runtime-replica-protection*.ts`) | leased attempts `async-replica:*` and `protected-primary-retention` | claim, repair, retain, complete, fail | registry rows, writer, reader |
| Image derivatives (`image-derivative*.ts`) | leased jobs, their output objects and lineage | enqueue, claim, read and process, reserve output, complete, fail, recover | registry rows, writer |
| Client storage configuration (`client-storage-configuration*.ts`) | versions, one of them active; connections; integration tokens | draft, replace, activate, clone, delete, seed from a service; create, rotate, revoke a token | services, the resolver of routes |
| Read grants (`runtime-read-grant*.ts`) | grants, an event for each change | issue, look up (lazy expiry), revoke, replay | registry rows |
| Read delivery (`runtime-read-delivery.ts`) | an attempt for each copy a read tries | snapshot, HEAD or GET with fallback, finish | grants, reader |
| Storage services (`storage-service*.ts`) | services with a status | create, bind, test, replace the secret, disable, archive | secret store, configuration |
| Secret store (`provider-secret-store*.ts`) | encrypted envelopes | store, resolve, revoke | services |
| Control pages, planner, media parsing, wiring | per-process abuse counters | HTML, forms, validation | - |

What is hard here, and hardly reached by the repository's tests, which drive one request at a
time against doubles without transactions:

* **One transaction, many calls.** `execute` opens a transaction; `PostgresTransactionScope`
  lets every nested registry call join it through `AsyncLocalStorage`. So an upload's move to
  `uploading`, its attempts, its outcome and its idempotency row commit or vanish together, while
  its provider writes do neither. An exception undoes rows that the code has just written.
* **Locks for the length of an upload.** Requests for the same key or the same intent wait, and
  continue on a state other than the one they read.
* **Two transactions around a provider write** (retries, repairs), with row versions or leases in
  place of locks, and a process that may stop in between.
* **Unconditional deletion.** A cleanup takes away whatever the key holds.
* **Stale clocks.** A worker's batch computes all its lease comparisons from one time.
* **Chains of transactions.** A request about a service, a seeded draft or a delivery is several
  transactions in a row with nothing held between them; it reads first and writes later what
  follows, may be broken off anywhere, and meets others of its kind.
* **Rows that several things share.** The versions of a configuration share connections, the jobs of
  a source share its state, the reads under a grant share its row.

`PROJECT.json` lists each hazard at its line with the properties that would catch it.

## 2. Modules

| Module | Models | Built on |
|---|---|---|
| `OutcomeTable` | the states of intents, copies and objects, and the table from copies to the truth of the object | - |
| `ProviderWriter` | what a PUT, a HEAD and a DELETE can do to one key, as sets of results | - |
| `StorageTruth` | abstract: an intent is accepted and then closed once, copies and truth with it | `OutcomeTable` |
| `ObjectUpload` | PUT and DELETE of an intent, transaction by transaction | `OutcomeTable`, `ProviderWriter`, implements `StorageTruth` |
| `TargetedRetry` | the two retry coordinators | `ProviderWriter`, two instances of `OutcomeTable` |
| `ReplicaProtection` | the repair and retention workers of a route | `OutcomeTable`, `ProviderWriter` |
| `BoundedJobs` | abstract: jobs that are tried a bounded number of times and published once or given up | - |
| `ImageDerivatives` | the derivative jobs and their workers | `ProviderWriter`, implements `BoundedJobs` |
| `ReadAuthority` | abstract: a read is admitted only at an instant at which its grant is live | - |
| `ReadGrants` | read grants, and deliveries with fallback under them, beside retention and repair | two instances of `OutcomeTable`, implements `ReadAuthority` |
| `StorageServices` | services, their envelopes, and the requests that create, test, replace and close them | - |
| `ReleaseHistory` | abstract: one release in force, made once from a valid document, fixed for good | - |
| `ClientConfiguration` | versions, connections and tokens, composed with the services they refer to | extends `StorageServices`, implements `ReleaseHistory` |
| `*_proofs` | theorems (section 4) | the module they are named after |
| `MC*` | small instances for TLC | the module they are named after |

### `ObjectUpload`: state and actions

`intent`, `copies`, `truth`, `recorded` and `keys` are *committed* rows. What a transaction has
written and not committed is visible to it alone, so it is not in these variables:
`uncommitted[r]` says what request `r` wrote to its intent's row, and that is also its row lock.
The key's row is locked from `Reserve` to the end of the transaction (`HoldsKey`). A request
whose connection the database gave up has lost its locks and does not know (`Severed`).

| Code | Actions |
|---|---|
| POST of an intent | `CreateObjectWriteIntent` |
| token check of a PUT | `Send`, `TokenExpired` |
| `execute`: insert, fingerprint, replay | `Reserve`, `KeyReused`, `Replay` |
| execution context, expiry, state | `ReadContext`, `RefuseTerminal`, `ExpireIfDue`, `RefuseExpired` |
| `cancelObjectWriteIntent` and COMMIT | `CancelObjectWriteIntent`, `CancelConflict`, `CancelCommitFails` |
| `beginObjectUpload`, `begin*ProviderWrite` | `BeginObjectUpload`, `BeginConflict`, `ReservationFails` |
| `stageBody`, media, targets | `Stage`, `StageFails` |
| `write` and its cleanup, per target | `PutObject`, `HeadObject`, `CleanupTarget` |
| `complete*ProviderWrite`, mark, COMMIT | `CompleteProviderWrite`, `RecordingFails`, `CompleteFails`, `CommitFails`, `PrimaryWriteFailed` |
| `safeCleanup`, ROLLBACK | `SafeCleanup` |
| `handleObjectUploadFailure`, second transaction | `FailObjectUpload` |
| the process stops; connections and statements fail | `Crash`, `LoseConnection`, `StatementFails` |

Abstracted: bytes are `absent` or `exact` (nothing but the staged, checksummed bytes is ever
sent, through a conditional create); a fingerprint is the intent it names; row versions of an
intent are left out because an accepted intent has exactly one committed change in its life, so
state and version agree. The `in_progress` state of a committed idempotency row is unreachable:
that row is only ever committed as `succeeded`, in the transaction that inserted it.
A statement that fails while its connection lives keeps the row locked until the ROLLBACK, after
the cleanup (`ReservationFails`, `RecordingFails`); one that fails because the connection is gone
finds the lock gone too (`LoseConnection`, then `CompleteFails`).
Removing the temporary file is taken to succeed, and a PUT is not delayed past the end of its
request. The idempotency key of POST and the older receipt without provider results
(`completeObjectUpload` of the registry) are not modelled.

### `TargetedRetry`: state and actions

One completed object, its copies with their row versions and attempts. `configured` says whether it
was stored over a route or hot and canonical: a constant of the object, chosen in `Init`, which
decides what its copies are (`Copies`) and which half of the outcome table derives its truth
(`Route`, `Dual`).

| Code | Actions |
|---|---|
| `retry*TargetOnce`, with the version the caller saw | `Retry` |
| first transaction: a new attempt, the copy pending | `Reserve`, `ReserveConflict` |
| resolve the role, then the writer, no transaction open | `ResolveFails`, `PutObject`, `HeadObject`, `Cleanup` |
| second transaction: the reads before the object's row is locked, then the update | `ReadCopies`, `Complete`, `CompleteConflict` |
| the process stops | `Crash` |

`Crash`, `ResolveFails` and `CompleteConflict` leave a reservation as it is, as the code does. A
COMMIT whose answer is lost is, for this coordinator, a crash right after `Complete`.

### `ReplicaProtection`: state and actions

One object whose upload is done and whose primary has outlived its days. `copies`, `truth` and
`attempts` are the rows (the attempts of a replica are those of `async-replica:*`, the attempts of
the primary those of `protected-primary-retention`); `stored` is what each provider holds, `absent`,
`exact` or `wrong`: a repair reads from a provider, so damaged bytes can be found and, if the source
is damaged, be sent. The other variables are where each worker is. A worker's identity and lease
token are the number of its attempt.

| Code | Actions |
|---|---|
| `runRepairBatch`, `runRetentionBatch` | `RunBatch` (the time of the batch), `Continue`, `EndBatch` |
| `claimRepair`, `claimRetention` | `Look` (snapshot of the SELECT), then `ClaimRepair`, `ClaimRetention`, `RetentionBlocked`, `NothingToClaim` or `ClaimFails` |
| `processRepair` | `VerifyTarget`, `ClearTarget`, `OpenSource`, `PutObject`, `HeadObject`, `VerifyRaced`, `Undo`, `VerifyWritten` |
| `completeRepair`, `failRepair` | `CompleteRepair`, `FailRepair` |
| `processRetention` | `VerifyGuard` (each replica), `DeletePrimary` |
| `completeRetention`, `failRetention` | `CompleteRetention`, `Invalidate` (with the replica that was not there), `FailRetention` |
| their ROLLBACKs | `RecordingFails`, `FailureIsLost` |
| the process stops; a connection is deactivated; time passes | `Crash`, `Deactivate`, `Tick` |

A claim is two steps because its SELECT reads the attempts by the snapshot of the statement and
then locks the row of the copy, which a claim does not change. `Disturbances` says whether the
second step may meet attempts that are newer than the snapshot (`race`), and whether the clock may
pass the end of a lease while its worker goes on (`late`). The row lock itself, with SKIP LOCKED, is
the atomicity of the second step. A COMMIT whose answer is lost is, for a worker, `RecordingFails`
after which the attempt is no longer in progress, or a crash right after the transaction.

Abstracted: `wrong` stands for any bytes of a wrong length or checksum; the copy state `missing`,
which no code writes; the checksums recorded with `verified`, which are always the expected ones;
the order of the replicas in `processRetention`.

### `ImageDerivatives`: state and actions

Jobs, each of one source. `state`, `attempts`, `lease` and `retry` are the job's row (the lease token
of an attempt is its number); `output` and `copy` the object reserved for its output; `lineage` the
published rows; `stored` what the provider of the output holds. Where a worker is, and what it knows
of its claim and of the error it met, are `pc`, `job`, `token`, `step`, `retryable` and `inner`.
The model is that of the recovery store, which overrides `claimNext`, `complete`, `fail`,
`sourceAuthority`, `reserveOutput` and `markOutputVerified` of the base store and is what every
composition uses; the overridden methods are not modelled.

| Code | Actions |
|---|---|
| the answer of a PUT, or of its replay | `EnqueueVerifiedSource` |
| `claimNext`: exhausted jobs are ended, one is taken, SKIP LOCKED | `ClaimNext` |
| `sourceAuthority`, the GET, the codec | `SourceAuthority`, `ReadAndProcess` |
| `reserveOutput`, `write` of the provider | `ReserveOutput`, `PutObject`, `HeadObject`, `UndoWrite` |
| `markOutputVerified`, `complete` | `MarkOutputVerified`, `Complete` |
| `catch` of `processNext`, `cleanup` | `NothingToClean`, `DeleteOutput`, `MarkOutputFailed`, `Fail` |
| transactions fail, the process stops, leases and delays run out | `DatabaseFails`, `Crash`, `LeaseEnds`, `RetryDue` |
| a trigger on the source's state | `DegradeSource`, `RepairSource`, the conjuncts `Active` |

`write` cleans up inside and throws, and its caller cleans up again: `inner` tells the first cleanup
from the second. A claim may skip any job whose row somebody else may have locked (`Contended`).
Time is left out: a lease or a delay may end at any moment, and `disturbed` remembers whether one
ended while its worker was still at work. Pixels, formats and limits are one choice
(`ImageRejected`); each width of the preset is a job. An attempt that finds the output verified but
encodes the image to other bytes, as a new build of the encoder may, refuses it
(`image-derivative-provider.ts:109-119`): that is the disturbance `encoder`. Against leftover bytes of
an unverified output a difference shows only as the conditional PUT that fails.

### `ReadGrants`: state and actions

One object, of either kind, of one caller. `grant`, `expiry`, `keys` and `events` are rows of the
grants and of the outbox, `attempt` the rows a delivery writes, `delivered` its events; `copies`,
`registry` and `stored` the object; `serving` the rows (app, profile, providers) that a statement
asks to be active. A read is at `pc[r]`, with the copies of its snapshot (`usable`) and those it has
not tried (`left`).

| Code | Actions |
|---|---|
| POST, its replay, DELETE of a grant | `IssueGrant`, `ReplayGrant`, `RevokeObjectReadGrant` |
| token, row (lazily expired), time again, snapshot | `DeliverContent`, `GetObjectReadGrant`, `ExpiresMeanwhile`, `TakeSnapshot` |
| attempts in the order of `orderedCopies` | `BeginObjectReadAttempt`, `BeginFails`, `ProviderAnswers`, `ProviderFails`, `FallBack`, `Exhausted` |
| HEAD and GET to the end | `StreamEnds`, `StreamBreaks`, `FinishBroken`, `FinishSucceeded`, `AppendSuccessEvent`, `UndoHead`, `RecordingFails` |
| nobody reads the stream; the process stops | `Abandon`, `Crash` |
| repair, retention, deactivation, time | `CompleteRepair`, `DeletePrimary`, `CompleteRetention`, `Deactivate`, `Tick` |

Abstracted: the bytes are exact or absent, as the length is all a delivery compares; method, range
and scopes are checks of the request; the key of a revocation decides only whether the answer says
`replayed`; the superseded version of a route counts as active, which is what the query of a read
says; verified copies that disagree in length or checksum cannot arise from the writers above. A
grant that is found expired by a look-up gets no event, one found expired by a revocation does. A
HEAD whose event cannot be appended answers 503 although its attempt has succeeded; a stream nobody
reads and a process that stops leave the attempt in progress, and no lease ends it.

### `StorageServices` and `ClientConfiguration`: state and actions

`StorageServices` has the rows of services (`status`, `secret`) and envelopes, and for each request
where it is and what it has read. A request is a chain of steps, each of them one statement or
transaction; `BreakOff` ends it anywhere, and `refused` remembers that one was. The CHECKs of the
tables are guards of the statements (`BindSecret`, `RecordTest`, `SetStatus`).
`ClientConfiguration` adds versions with their documents, connections, editors and tokens. Changes of the
store hold the client's row and are one step; what the safe facade and the activation policy do
around them reads first (`ReadVersion`, `Loaded`) and writes later.

| Code | Actions |
|---|---|
| create, replace the secret | `CreateClientOwned`, `ReplaceSecret`, `StoreSecret`, `BindStored`, `RevokePrevious` |
| test | `Test`, `LookAtService`, `ResolveSecret`, `RecordResult`, `NoteTest`, `NoteFails` |
| disable, archive | `DisableOrArchive`, `Disable`, `Archive`, `RetireSecret` |
| drafts | `CreateDraft`, `DeleteDraft` (not of a draft another was cloned from), `ReadVersion`, `CloneVersion`, `ReplaceDraft` |
| activation with its policy | `ReadVersion`, `AssertActivationAllowed`, `ActivateDraft` |
| a draft from a service, one await after the other | `CreateConfigurationDraft`, `Overview`, `SeedFirst` or `SeedFromActive`, `CloneVersion`, `LoadClone`, `LinkService` |
| tokens | `CreateIntegrationToken`, `RotateIntegrationToken`, `RevokeIntegrationToken`, `Expire` |

Abstracted: a document is the connections its vaults are on and whether it is valid; `loadVersion` is five
queries and one instant; an archive that is refused for durable copies changes nothing; the
sequence of version numbers is the order of `Versions`.

## 3. Runs

| Run | Instance | Shows |
|---|---|---|
| `ConfiguredUpload` | primary and one replica; 1 intent, 2 PUTs, 1 DELETE, 2 keys; all faults | one writer, answers are durable, no orphans, failures recorded, no write after close, refinement of `StorageTruth` |
| `ReusedKeys` | hot and canonical; 2 intents, 2 PUTs, 1 key; crashes, database and cleanup errors | keys are final, replays have results, verified copies have bytes, every request is answered |
| `Retries` | an object of either kind with two or three copies; 3 retries; all disturbances | one retry per copy, attempts tell copies, settled truth, claims are backed, verified copies stay |
| `ReplicaWorkers` | one replica; 2 repair workers, batches of 2; everything but deactivations | one owner unless claims race, ended attempts are final, a verified replica is exact |
| `TwoReplicas` | two replicas; 1 repair worker, 1 retention worker; provider and database failures, deactivations | truth is backed, repair is possible, the primary goes last |
| `RetentionLiveness` | one replica; 1 worker of each kind; a crash | repair and retention complete |
| `ImageDerivatives` | 2 jobs of two images, 2 workers, 2 attempts; all disturbances | published outputs are backed, verified ones stored as long as only providers fail, every job ends, refinement of `BoundedJobs` |
| `ReadDelivery` | two copies of either kind; 1 grant, 1 key, a GET and a HEAD; all disturbances | attempts and events tell what was delivered, fallback is orderly, refinement of `ReadAuthority` |
| `ClientConfiguration` | 1 service, 3 envelopes, 2 requests, 1 connection, 2 versions, 3 tokens | bound secrets are usable, success means settled, closed stays closed, one token per line, refinement of `ReleaseHistory` |
| `StaleWorker` | one replica; 2 repair workers, no failures but slowness | **violated**: a stale worker deletes verified bytes (finding 1) |
| `DerivativeCleanup` | as `ImageDerivatives`; nothing but leases that end early | **violated**: a cleanup deletes a verified output (finding 2) |
| `ActiveVersion` | as `ClientConfiguration` | **violated**: a draft changes the version in force (finding 3) |

Two uploads and a cancellation are enough for every conflict the code distinguishes: a holder of
the row, a waiter that read `accepted`, and a third party that closes the intent in between. Two
targets per kind of route give every row of the outcome table; three in `Retries` let one repair while
another's truth is derived. Faults may happen any number of times in any
order, a crash of a protection worker once; `Faults` and `Disturbances` only say which kinds. The
uploads and the retries cap no counter: they are bounded by the number of calls. Uploads, retries
and keys are interchangeable in every definition, so the safety runs use their symmetry; the runs
with a liveness property use none.

The protection workers need a clock. Its bounds are `MaxTime` (2: the end of a lease; 1 in
`TwoReplicas`, where no lease is to end; 3 in `StaleWorker`, 6 in the liveness run),
`MaximumAttempts` (2: a first attempt and a last one; 4 in the liveness run; 8 in the code),
`LeaseDuration` (2) and `RetryDelay` (1), shorter than a lease as in the code. With them a lease
ends, its copy is claimed again, and the successor finishes, while the first worker is at any of
its steps. Two workers of a kind are an owner and a successor; a third would only find an attempt
the bound forbids. The replicas start in every state an upload or its
retries leave, and at every provider the bytes may be exact, lost or damaged before the workers
begin; providers do not lose bytes later, as no check can foresee it. The runs divide the workers
and the disturbances because all of them together are too many states.

`ImageDerivatives` has two attempts for the same reason and two workers. `NarrowSpec` keeps the
second job, there for the order of the claims, from multiplying the states: it is worked at by one
worker alone, whose attempt meets no cleanup and no lost lease. `DerivativeCleanup` needs no such limit.
In `ReadDelivery` the grant lives for one tick of two: it may be over before a read, while one is
checked, or while one streams. `ApartSpec` of `ClientConfiguration` divides
what is independent: tokens, which share only the lock of the client's row with the rest, are
looked at while nothing else exists; two overlapping requests to a service are explored in full as long
as there is no version; once there is one, its service is ready or closed, and of two
editors at most one clones. Three envelopes are a first one and one for each of two replacements;
three tokens are a line with two rotations, or two rivals.

**Fairness.** `WF_vars(Handle(r))` for each request: once a request has arrived, the event loop,
the database and the providers take its next step, because a promise that can settle does and
every lock is released by a transaction that is itself fair. Nothing is assumed about clients
that send, time that passes or faults that happen. `ReusedKeys` excludes lost connections only
to keep the run small. For the protection workers `WF_vars(Work(w))` says that a batch goes on, for
the same reason, and that another one is requested after it: the runtime has no timer, so liveness
rests on a caller that posts to the route again and again.
`WF_vars(Tick)` is the passing of time. `ClockRanOut` excuses a job that has to wait for a time the
model's clock does not reach, as when a worker begins late and then crashes.
For the derivatives, `WF_vars(ClaimNext(w))` and `WF_vars(Work(w))` are the poll of
`client-control-composition.ts:165-180`, which comes back after every batch, and the steps of a batch;
`LeaseEnds` and `RetryDue` are time, and `RepairSource` the repair of a degraded source, without which
the trigger keeps a job from any change. A provider call that never returns would
stop the poll of its process: the code sets a deadline for processing an image and none for
a provider's answer, so that fairness rests on the provider's client coming back. No fairness is assumed of `ReadGrants` and
`ClientConfiguration`, which are about safety only.

**Properties that speak of faults.** `VerifiedHasBytes` and `NoWriteAfterClose` claim nothing
once a database connection was lost in mid-upload: the row lock is all that protects an intent
from a second writer, and a request that has lost it still writes and cleans up. `NoOrphans` and
`FailureIsRecorded` hold without faults only: a crash between a PUT and the COMMIT leaves bytes,
and a failed second transaction leaves an accepted intent. `ReplicaIsExact` and `PrimaryGoesLast`
hold as long as no worker outlives its lease and no claims race (`Exclusive`): finding 1 and the
race below it are what happens otherwise. `RepairIsPossible` claims nothing after a race or a
deactivation, after which the primary may be gone while a replica still fails (a replica with an
inactive connection does not guard it). `VerifiedIsStored` claims nothing after a disturbance,
that is after a lost lease, a crash, a failed transaction or a degraded source: it describes a run in
which only providers and images fail, says nothing of a job that is taken over, and finding 2 is what
happens then. `LineageIsBacked` and the refinement of `BoundedJobs` are what holds of a takeover.
`RetriesSettle` is about retries made one after the other and describes how they end when nothing
disturbs them; of overlapping ones `OneRetryPerCopy`, `AttemptsTellCopies` and `ClaimsAreBacked` hold,
`SuccessMeansSettled` about requests that were all answered without an error, and the clause of
`AuditTrail` that nothing is left in progress about reads all of whose recordings went through. What needs no such condition is said without it (`TruthIsBacked`, `AttemptsAreFinal`).

## 4. Proofs

`ObjectUpload_proofs` proves, for any sets of intents, requests, keys and targets and any
subset of the faults, from the assumptions named in `OutcomeTable` and `ObjectUpload` (`Primary`
is a target, a legacy profile has one other copy, uploads and cancellations are disjoint, the
two null values are not requests or intents): type correctness, `OneWriter`, `KeysAreFinal`,
`AnswerIsDurable`, `VerifiedHasBytes`, `NoWriteAfterClose`, `ReplayHasResult`, `NoOrphans`,
`FailureIsRecorded` and the refinement of `StorageTruth` (initial states, and every step a step or a stutter).

None of these is inductive as it stands. The invariant is built in layers, each proved from the
ones before:

1. `TypeOK` and `Place`: where a request is determines what it may have written uncommitted.
2. `RowLock`: two requests never hold one row, and a request that holds a row does so on an
   accepted intent; hence `OneWriter`.
3. `KeyLock`: two requests never hold one key, and the holder of a key finds it unbound.
4. `Rows`: an intent that is not completed has the rows it was created with, a completed one has
   a row of the table and the completion that goes with it; hence the refinement and, with the
   fact that closed intents do not change, `AnswerIsDurable`.
5. `BytesInv`: the upload that drives an intent is the one `#active` names, what it counts as
   verified is stored, and a recorded verified copy is stored; hence `VerifiedHasBytes`.
6. `KeysHaveResults`: a bound key's intent is completed or cancelled as its scope says.
7. `OrphanInv`: without a fault, bytes that no verified copy vouches for are those of a target which
   the registered upload of the intent is still to answer for (written, verified, or to be undone), and
   an upload in its cleanup has none left. Hence `NoOrphans`, which looks only at intents nobody works on
   and is not inductive.
8. `FailureIsRecorded` takes `IntentExists` (a request was sent for an intent that exists) and
   the steps that answer with an error (`ErrorSteps`), each of which has just closed the intent or found it
   closed; closed intents stay closed.

`ReplicaProtection_proofs` proves, for any replicas, any number of workers of each kind, any
limits, delays and batch sizes and any subset of the disturbances, from `TargetsAssumption` and
`ProtectionAssumption` (the object has a route; the two kinds of worker are disjoint; the limits,
the delays and the batch sizes are positive): type correctness, `AttemptsAreFinal`,
`ClaimsAreExclusive`, `TruthIsBacked`, `ReplicaIsExact`, `PrimaryGoesLast`, `RepairIsPossible`, and that the
object survives. Its layers:

1. `AttemptsStep`: every step leaves the attempts of a copy alone, ends leases that are over,
   appends an attempt to a list a claim may extend, or ends one attempt in progress. The clock, the
   providers and the workers are gone from here on; `AttemptsAreFinal` follows from it alone.
2. `TypeOK`, `BatchOK` and `JobsOK`, proved together: a batch that goes on has a claim left, a worker
   with a job has an attempt of its own at that copy (attempts are never lost), and the job of a
   retention is the primary of an object with replicas.
3. `LiveIsLast`: without a race only the last attempt of a copy is in progress.
   `ClaimsAreExclusive` is not inductive, because a claim looks at the lease of the last attempt
   only; with `LiveIsLast` the lease it ends is the only one there is.
4. `TruthIsBacked` is inductive with `JobsOK`: a retention that completes without a verified replica
   leaves the truth as it is, which is then neither protected nor cleaned because the object has
   replicas.
5. `Places` and `WorkerSteps`: which worker is in which phase at which copy, and the five things a step
   makes of a worker (it begins, looks, takes a job, goes on, rests) while the others keep what they
   have.
6. `LeaseInv`: while the run is `Exclusive` (no worker outlived its lease, no claims raced), a worker
   with a job holds the last attempt of its copy, in progress and not yet due, and is alone there. A claim
   compares leases with the beginning of its batch, which is in the past (`NowInPast`), so it takes
   over none that still runs.
7. `Unverified`: without a race no attempt is in progress at a replica that is verified. With
   `LeaseInv`, nobody who may write to a replica finds it vouched for, so a verified replica keeps its bytes
   (`VerifiedIsKept`); with `CompletingOK` (a repair that will record its success has just seen the
   bytes) follows `ReplicaIsExact`.
8. `GuardInv`: a retention about to delete relies on a set of replicas that holds every active one, is
   not empty, and each of which is verified and either read already or still to be read; hence
   `PrimaryGoesLast`. It needs `Alone`: another retention could give up a replica in between.
9. `DamageIsReal`: a replica that a retention gives up is damaged. With `GuardInv` and
   `VerifiedIsKept` follows `ObjectSurvives`, the end-to-end result: an object that the primary or a
   verified replica holds at first is always held so, through all failures and crashes, as long as leases
   are kept. No run checks it; the finding `StaleWorker` is what happens without leases.
10. `RepairInv`, inductive together with `RepairIsPossible`: with all connections active and no race, a
    retention has its attempt only while every copy is verified, and a repair only while the primary
    is. `RepairIsPossibleHolds` has the hypothesis `Peers # {}`, because the statement is false of a
    route without replicas whose days are over: the retention's claim finds no guard and marks the object
    for a repair that nothing can make (`runtime-replica-protection-postgres.ts:569`, listed as a hazard). The
    instances have replicas.

Layers 5 to 10 were checked by TLC on the instances of the runs before they were proved.

`TargetedRetry_proofs` proves every property of the run `Retries`, for any targets, any number of
overlapping calls and any disturbances, from `RetriesAssumption` (hot and primary
are two of the targets). Its layers:

1. `Basics`: `TypeOK`, and what a call between its two transactions knows: its copy is pending, its
   attempt in progress, and nobody else works at that copy; hence `OneRetryPerCopy` and, as
   a call touches its own copy only, `VerifiedIsUntouched`. Every step is one of six kinds (`Steps`):
   a call, a reservation, the writer's steps, a read of the copies, a completion, and ends.
2. `Backed` (`BytesOK`, `PeersOK`, `ClaimsOK`): a verified copy has its bytes, what a call has read
   as verified of the other copies is so (a copy never stops being verified), and the truth claims
   no more than its row of the table; hence `ClaimsAreBacked`.
3. `AttemptsTellCopies` is inductive with `Basics`: copy and attempt are written by the same statements.
4. `SettleOK`: while calls come one after the other, the truth follows from the copies whenever
   none is at work, an open attempt is that of the call at work, and what that call has read of
   the object is still so; hence `RetriesSettle`.

`ImageDerivatives_proofs` proves the safety properties of its run, for any jobs, workers, limits and
disturbances, from `DerivativeAssumption` (a job has a source, and at least one attempt):

1. `Basics`: `TypeOK` and `ClaimsOK`, that a busy worker's token is a count of attempts its job has
   reached: nobody ever has a token that is still to come.
2. `LineageIsBacked` is inductive with it: only a completion publishes, and it reads the rows of the
   output itself.
3. The refinement of `BoundedJobs`: a claim is a try, a completion publishes, a failure misses or gives
   up, and what a worker does without its lease stutters, because every statement about a
   job names its token.
4. `VerifiedIsStored` needs `Calm`, which holds until the first disturbance: whoever is at a job has its
   lease, one worker is at a job, and a verified output is published or held by a
   worker that is about to complete it, never by one that is about to clean up.

`ReadGrants_proofs` proves every property of the run `ReadDelivery`, for any grants, keys, reads,
copies, order of the copies, lifetime and disturbances, from `ReadAssumption` and `OrderAssumption`
(the order names every copy once, the primary last):

1. `TypeOK`, and `EventsOK`, that a revoked grant has its event.
2. `ReadOK(r)`, for each delivery: the copies of its snapshot were verified and so never get other
   bytes; it has taken them up in their order; those before the one it is at have failed; and where
   it is tells the state of its last attempt. Every step of a delivery takes up a copy, ends an
   attempt or only moves (`TakingUp`, `EndingAttempts`, `MovingReads`), and what other deliveries,
   repair and retention do leaves `ReadOK` alone (`RestingReads`). `AuditTrail` and
   `FallbackIsOrderly` follow from it; they are not inductive, since they do not say which copies
   are left.
3. The refinement of `ReadAuthority`: a look-up admits only while the grant is live; a grant that is due
   counts as over before a row says so, and moving the row to `expired` stutters.

`StorageServices_proofs` and `ClientConfiguration_proofs` prove every property of the run
`ClientConfiguration`, from `ServiceAssumption` (an envelope is made for one service) and
`ConfigurationAssumption`. The run looks at
services, versions and tokens apart from one another; the proofs are about `Spec`, in which
they interleave in any way, for any number of each.

1. `ServicesOK`: who makes, replaces or tests a service is involved with it alone, and of an
   envelope that can be opened it is known to whom it belongs, whether it is bound, and who
   will revoke it otherwise. An envelope is bound once, so what a replacement revokes is bound nowhere:
   `BoundSecretIsUsable`.
2. `SettlesOrTells`: somebody was refused, or will be (`Doomed`: two replacements of one secret,
   the second of which finds it revoked), or every service is on its way (`Settling`: a service
   that awaits its secret or its test, or has an envelope to be revoked, has a request that will see
   to it); hence `SuccessMeansSettled`. It is inductive only with the
   second alternative, as the refusal comes several steps after it has become certain.
3. `ConfigOK`: rows, what editors have read, one active version, and the lines of tokens; hence
   `OneTokenPerLine` and the refinement of `ReleaseHistory`.
4. `ClosedStaysClosed` is a fact about single steps (`StepKeepsClosed`).

Model-checked only: liveness (`EveryRequestAnswered`, `RetentionCompletes`, `EveryJobEnds`), which is out of
the prover's reach, as fairness and ENABLED are. Every safety property that a passing run checks has a
theorem.

## 5. Findings

1. **A stale worker deletes verified bytes** (`StaleWorker`). Leases guard the rows, not the
   provider: a repair that outlives its lease still clears or cleans up the key, where its successor has just
   written and verified the replica. The copy stays `verified`. A batch compares every lease with
   the time it began, so the worker cannot notice before its completion is refused.
2. **A cleanup deletes a verified output** (`DerivativeCleanup`). The cleanup of a derivative asks
   whether its output was verified already, of a query that never says so. When the completion
   fails after the verification was committed, the bytes are deleted and the rows stay
   verified, and the next attempt takes them at their word and publishes the output.
3. **A draft changes the version in force** (`ActiveVersion`). Connections are rows of the client, and
   saving a draft overwrites them, references to secrets included; uploads resolve the
   active version to whatever was saved last.

Two claims of a replica can race in the model, as they can in the code: a claim that takes its snapshot before
another one commits and its row lock afterwards does not see the other's attempt, and appends a
second one in progress (the claim changes no column of the locked row, so PostgreSQL does not look
at it again). `ClaimsAreExclusive` says that this is the only way to a second owner; its antecedent
excludes the race itself. An integration test asserts that, of six claims made at once, exactly one
gets the replica (`tests/runtime-replica-protection.integration.test.ts:150-163`): that is the excluded
case. The test passes unless one claim's statement begins before, and takes its row lock after, the
COMMIT of another. The disagreement is not listed as a finding, because it rests on how PostgreSQL
evaluates that statement and not on this repository's code alone.

Seen while modelling, without a run of its own:

* A PUT or DELETE that finds its intent due updates it to `expired` and throws inside the same
  transaction (`runtime-ingest.ts:603`): the refusal is right, the state is lost. The tests that
  assert it (`tests/runtime-ingest.test.ts:975`, `:999`) use a registry without transactions.
* Overlapping retries of both copies of an object conflict on the object's row version
  (`runtime-storage-registry.ts:1239-1259`). The later one is rolled back after its bytes were
  written: its copy stays `pending` and its attempt `in_progress`, and no primitive retries either
  (`README.md:81-88`, `docs/runtime-contract.md:169`). `AttemptsTellCopies` holds of it.
* A replay after a retry has the stage of the object as it is, and the storage state and copies as the
  upload left them (`runtime-storage-registry.ts:145`, `README.md:64`).
* An enqueue of derivatives for a degraded source is dropped; only a replayed PUT makes up for it.
* `loadVersion` finds connections through vaults: a draft seeded with a connection alone does not
  show it, and edits that use it are refused. An editor that writes back connections it read
  may undo what another one saved meanwhile.
* A creation broken off before its secret is bound leaves the service `awaiting-secret`, and its
  identifier taken. Of two overlapping replacements one is answered 404 and may leave an envelope nobody
  revokes. A test of the old secret can mark a service ready that has a new one. An
  activity row that cannot be written makes a successful test a failed one.
* A service is checked for use and then disabled, a version's services are checked for readiness and
  the version then activated; the two checks share no lock, so a version in force may use a disabled
  service.

## 6. Plan

Done: the upload path, the targeted retry, replica protection, image derivatives, read grants and
delivery, services and client configuration. Left:

1. The composition of `ReplicaProtection` with the retry of a configured target, and with several
   objects, for the hazards that have no property yet.
2. `ProviderAttempts`: leased attempts and reconciliation issues of the registry, once something calls them.

Theorems to come: those of the composition in 1, once it is modelled: which of `ReplicaIsExact` and
`ObjectSurvives` remain when a retry of a configured target writes next to the repair worker.

## 7. Not modelled

* Sign-in, sessions, HTML and forms, the editor and the planner: no state that outlives a call but a
  counter of abuse per process.
* The parsing of media and the arithmetic of PNG: functions of one input, one outcome each in the
  models.
* The wiring of the compositions, and the streaming of HTTP at the Node boundary.
* The leased attempts and reconciliation issues of the registry: library operations that no
  worker, route or composition calls.
* Managed services, whose secret is not theirs; the limiter of mutations; listings; the CHECK that
  may refuse a revocation by a request older than the envelope; deadlocks that PostgreSQL breaks,
  other than as failed transactions; a COMMIT of a rotation whose answer is lost, which leaves a token
  nobody holds.
* A second process. `#active` is per process, and another process would only add uploads
  that the row lock already separates; the workers, reads and editors of other processes are
  covered, as these share nothing but the database in the models.
