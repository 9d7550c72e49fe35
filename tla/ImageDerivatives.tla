-------------------------- MODULE ImageDerivatives --------------------------
(***************************************************************************)
(* Derivative images: one durable job for each width of the preset of an     *)
(* uploaded image. Workers claim jobs under a lease, read the source, write  *)
(* the output to its vault, record it as verified and publish it; every      *)
(* error runs a cleanup before it is recorded. A lease may end, and its job  *)
(* be claimed again, while the worker that had it still works.               *)
(***************************************************************************)
EXTENDS ProviderWriter, Naturals, Sequences

CONSTANTS
  Jobs,          \* the jobs of all sources
  Queue,         \* Jobs in the order of created_at and id
  Sources,       \* the uploaded images
  SourceOf,      \* the image each job derives from
  Workers,       \* callers of processNext: the periodic poll and the upload requests
  NoJob,
  MaxAttempts,   \* maximum_attempts
  Disturbances   \* what may happen in this run besides failures of a provider

DisturbanceKinds == {"crash", "database", "lease", "source", "image", "encoder"}

ASSUME DerivativeAssumption ==
  /\ NoJob \notin Jobs
  /\ SourceOf \in [Jobs -> Sources]
  /\ MaxAttempts \in Nat \ {0}
  /\ Disturbances \subseteq DisturbanceKinds

ASSUME QueueAssumption ==
  /\ Queue \in Seq(Jobs)
  /\ \A j \in Jobs : \E n \in DOMAIN Queue : Queue[n] = j

VARIABLES
  source,     \* each source's object, with the repair of its replicas
  state,      \* the state of each job's row
  attempts,   \* its attempt_count, which is also the lease_token of its latest claim
  lease,      \* its lease, or that it has run out
  retry,      \* its next_retry_at, or that it has passed
  output,     \* the registry_state of the object reserved for its output
  copy,       \* the copy_state of that object's only copy
  stored,     \* what the provider of the output's vault holds of it
  lineage,    \* jobs with a row in storage_image_derivative_outputs
  pc,         \* where each worker is
  job,        \* the job it has claimed
  token,      \* the lease token of that claim
  step,       \* how far its provider write is
  retryable,  \* of the error it has met
  inner,      \* whether it cleans up within the write that failed
  disturbed   \* whether anything has gone wrong outside the provider

jobRows == <<state, attempts, lease, retry>>
outputRows == <<output, copy, lineage>>
workVars == <<pc, job, token, step, retryable, inner>>
vars == <<source, jobRows, outputRows, stored, workVars, disturbed>>

JobStates == {"none", "queued", "processing", "succeeded", "failed"}
Phases == {"idle", "claimed", "reading", "reserving", "writing", "completing",
           "cleaning", "deleting", "degrading", "failing"}

Disturb(kind) == kind \in Disturbances /\ disturbed' = TRUE

Active(j) == source[SourceOf[j]] # "degraded"

(* The job's row, as the lock of a transaction finds it, is the worker's.    *)
HasLease(w) ==
  LET j == job[w]
  IN state[j] = "processing" /\ attempts[j] = token[w] /\ lease[j] = "live"

Move(w, to) == pc' = [pc EXCEPT ![w] = to]

(* processNext returns or throws, and what it knew is gone.                  *)
Return(w) ==
  /\ Move(w, "idle")
  /\ job' = [job EXCEPT ![w] = NoJob]
  /\ token' = [token EXCEPT ![w] = 0]
  /\ step' = [step EXCEPT ![w] = "resolved"]
  /\ retryable' = [retryable EXCEPT ![w] = FALSE]
  /\ inner' = [inner EXCEPT ![w] = FALSE]

(* An error is caught: the cleanup follows, then the error is recorded.      *)
Throw(w, again) ==
  /\ Move(w, "cleaning")
  /\ retryable' = [retryable EXCEPT ![w] = again]

-----------------------------------------------------------------------------

(* Images have been uploaded; one whose route has replicas is degraded       *)
(* until they are repaired.                                                  *)
Init ==
  /\ source \in [Sources -> {"active", "degraded"}]
  /\ state = [j \in Jobs |-> "none"]
  /\ attempts = [j \in Jobs |-> 0]
  /\ lease = [j \in Jobs |-> "none"]
  /\ retry = [j \in Jobs |-> "none"]
  /\ output = [j \in Jobs |-> "none"]
  /\ copy = [j \in Jobs |-> "none"]
  /\ stored = [j \in Jobs |-> "absent"]
  /\ lineage = {}
  /\ pc = [w \in Workers |-> "idle"]
  /\ job = [w \in Workers |-> NoJob]
  /\ token = [w \in Workers |-> 0]
  /\ step = [w \in Workers |-> "resolved"]
  /\ retryable = [w \in Workers |-> FALSE]
  /\ inner = [w \in Workers |-> FALSE]
  /\ disturbed = FALSE

(* The answer to the PUT of an image, or to its replay, with all its copies  *)
(* verified. An image that is degraded then gets no jobs, and an error of    *)
(* the enqueue is dropped.                                                   *)
EnqueueVerifiedSource(o) ==
  LET derived == {j \in Jobs : SourceOf[j] = o /\ state[j] = "none"}
  IN /\ source[o] # "degraded" /\ derived # {}
     /\ state' = [j \in Jobs |-> IF j \in derived THEN "queued" ELSE state[j]]
     /\ UNCHANGED <<source, attempts, lease, retry, outputRows, stored, workVars, disturbed>>

-----------------------------------------------------------------------------
(* Claims.                                                                   *)

Lost(j) == state[j] = "processing" /\ lease[j] = "over"

(* Mutant: one attempt more than the maximum.                                *)
EligibleOnceMore(j) ==
  /\ attempts[j] <= MaxAttempts
  /\ \/ state[j] = "queued"
     \/ state[j] = "failed" /\ retry[j] = "due"
     \/ Lost(j)

(* Mutant: a lease is not waited for.                                        *)
EligibleInProgress(j) ==
  /\ attempts[j] < MaxAttempts
  /\ \/ state[j] \in {"queued", "processing"}
     \/ state[j] = "failed" /\ retry[j] = "due"

Eligible(j) ==
  /\ attempts[j] < MaxAttempts
  /\ \/ state[j] = "queued"
     \/ state[j] = "failed" /\ retry[j] = "due"
     \/ Lost(j)

(* Mutant: nobody looks for attempts that were lost and were the last ones.  *)
NothingFinal(locked) == {}

(* Lost attempts that were the last ones end with the claim that finds them. *)
Final(locked) == {j \in Jobs \ locked : Lost(j) /\ attempts[j] >= MaxAttempts}

Candidates(locked) == {j \in Jobs \ locked : Eligible(j)}

IsFirst(j, jobs) ==
  \E n \in DOMAIN Queue : Queue[n] = j /\ \A m \in 1 .. n - 1 : Queue[m] \notin jobs

(* Rows that transactions of others may hold at the moment of a claim, which *)
(* passes over them: of workers at their jobs, and the one that another      *)
(* claim has come upon.                                                      *)
Contended(w) ==
  LET others == Workers \ {w}
  IN {job[v] : v \in {u \in others : pc[u] # "idle"}}
     \cup {j \in Candidates({}) : /\ IsFirst(j, Candidates({}))
                                  /\ \E v \in others : pc[v] = "idle"}

EndAll(final) ==
  /\ state' = [j \in Jobs |-> IF j \in final THEN "failed" ELSE state[j]]
  /\ lease' = [j \in Jobs |-> IF j \in final THEN "none" ELSE lease[j]]
  /\ UNCHANGED <<attempts, retry>>

(* A trigger lets no row of a job change while its source is not active: the *)
(* whole claim is rolled back then, and its worker finds nothing to do.      *)
Take(w, j, final) ==
  /\ state' = [i \in Jobs |-> IF i = j THEN "processing"
                              ELSE IF i \in final THEN "failed" ELSE state[i]]
  /\ attempts' = [attempts EXCEPT ![j] = @ + 1]
  /\ lease' = [i \in Jobs |-> IF i = j THEN "live"
                              ELSE IF i \in final THEN "none" ELSE lease[i]]
  /\ retry' = [retry EXCEPT ![j] = "none"]
  /\ Move(w, "claimed")
  /\ job' = [job EXCEPT ![w] = j]
  /\ token' = [token EXCEPT ![w] = attempts[j] + 1]
  /\ UNCHANGED <<step, retryable, inner>>

ClaimNext(w) ==
  /\ pc[w] = "idle"
  /\ \E locked \in SUBSET Contended(w) :
       /\ \A f \in Final(locked) : Active(f)
       /\ \/ /\ Candidates(locked) = {} /\ Final(locked) # {}
             /\ EndAll(Final(locked))
             /\ UNCHANGED workVars
          \/ \E j \in Candidates(locked) :
               IsFirst(j, Candidates(locked)) /\ Active(j) /\ Take(w, j, Final(locked))
  /\ UNCHANGED <<source, outputRows, stored, disturbed>>

-----------------------------------------------------------------------------
(* The source.                                                               *)

SourceAuthority(w) ==
  /\ pc[w] = "claimed"
  /\ IF HasLease(w) /\ Active(job[w])
     THEN Move(w, "reading") /\ UNCHANGED retryable
     ELSE Throw(w, HasLease(w))
  /\ UNCHANGED <<source, jobRows, outputRows, stored, job, token, step, inner, disturbed>>

(* The GET fails, the stream breaks, or it takes longer than its deadline.    *)
SourceInterrupted(w) == Throw(w, TRUE)

(* The bytes are not those of the source, or no image within the limits.     *)
ImageRejected(w) == "image" \in Disturbances /\ Throw(w, FALSE)

(* The image is decoded, resized and encoded again.                          *)
Processed(w) == Move(w, "reserving") /\ UNCHANGED retryable

ReadAndProcess(w) ==
  /\ pc[w] = "reading"
  /\ Processed(w) \/ SourceInterrupted(w) \/ ImageRejected(w)
  /\ UNCHANGED <<source, jobRows, outputRows, stored, job, token, step, inner, disturbed>>

-----------------------------------------------------------------------------
(* The output.                                                               *)

IsVerified(j) == output[j] = "active" /\ copy[j] = "verified"

(* The output object of a job is reserved once and taken up again by later   *)
(* attempts; one that is verified is not written again, and must be what the *)
(* image is encoded to now, which another build of the encoder may have      *)
(* changed. The connection of a new output may not be active.                *)
ReserveOutput(w) ==
  LET j == job[w]
  IN /\ pc[w] = "reserving"
     /\ \/ /\ HasLease(w) /\ output[j] = "none"
           /\ \/ /\ output' = [output EXCEPT ![j] = "reserved"]
                 /\ copy' = [copy EXCEPT ![j] = "pending"]
                 /\ Move(w, "writing")
                 /\ step' = [step EXCEPT ![w] = "resolved"]
                 /\ UNCHANGED retryable
              \/ Throw(w, TRUE) /\ UNCHANGED <<output, copy, step>>
           /\ UNCHANGED disturbed
        \/ /\ HasLease(w) /\ output[j] # "none"
           /\ Move(w, IF IsVerified(j) THEN "completing" ELSE "writing")
           /\ step' = [step EXCEPT ![w] = "resolved"]
           /\ UNCHANGED <<output, copy, retryable, disturbed>>
        \/ /\ HasLease(w) /\ IsVerified(j) /\ Disturb("encoder")
           /\ Throw(w, FALSE)
           /\ UNCHANGED <<output, copy, step>>
        \/ /\ ~HasLease(w) /\ Throw(w, FALSE)
           /\ UNCHANGED <<output, copy, step, disturbed>>
     /\ UNCHANGED <<source, jobRows, lineage, stored, job, token, inner>>

(* An error inside the write is cleaned up there, before it is thrown.       *)
CleanUpWrite(w, again) ==
  /\ Move(w, "deleting")
  /\ inner' = [inner EXCEPT ![w] = TRUE]
  /\ retryable' = [retryable EXCEPT ![w] = again]

Progress(w, from, results) ==
  /\ pc[w] = "writing" /\ step[w] = from
  /\ \E result \in results :
       /\ step' = [step EXCEPT ![w] = result.step]
       /\ stored' = [stored EXCEPT ![job[w]] = result.content]
       /\ IF result.step = "failed"
          THEN \E again \in BOOLEAN : CleanUpWrite(w, again)
          ELSE UNCHANGED <<pc, retryable, inner>>
  /\ UNCHANGED <<source, jobRows, outputRows, job, token, disturbed>>

Content(w) == stored[job[w]]

PutObject(w) == Progress(w, "resolved", AfterPut("exact", Content(w)))
HeadObject(w) == Progress(w, "stored", AfterHead(Content(w)))
UndoWrite(w) == Progress(w, "undo", AfterDelete \cup AfterLostDelete(Content(w)))

(* The answer to the COMMIT may be lost.                                     *)
MarkOutputVerified(w) ==
  LET j == job[w]
  IN /\ pc[w] = "writing" /\ step[w] = "verified"
     /\ IF HasLease(w)
        THEN /\ output' = [output EXCEPT ![j] = "active"]
             /\ copy' = [copy EXCEPT ![j] = "verified"]
             /\ \/ Move(w, "completing") /\ UNCHANGED <<retryable, inner, disturbed>>
                \/ Disturb("database") /\ CleanUpWrite(w, TRUE)
        ELSE CleanUpWrite(w, FALSE) /\ UNCHANGED <<output, copy, disturbed>>
     /\ UNCHANGED <<source, jobRows, lineage, stored, job, token, step>>

-----------------------------------------------------------------------------
(* The end of an attempt.                                                    *)

(* Lineage and success are one transaction, whose answer may be lost. A lost *)
(* lease and an output that is not verified are conflicts and end the job;   *)
(* what the trigger of an inactive source refuses can be retried.            *)
Complete(w) ==
  LET j == job[w]
  IN /\ pc[w] = "completing"
     /\ IF HasLease(w) /\ Active(j) /\ IsVerified(j)
        THEN /\ lineage' = lineage \cup {j}
             /\ state' = [state EXCEPT ![j] = "succeeded"]
             /\ lease' = [lease EXCEPT ![j] = "none"]
             /\ retry' = [retry EXCEPT ![j] = "none"]
             /\ \/ Return(w) /\ UNCHANGED disturbed
                \/ /\ Disturb("database") /\ Throw(w, TRUE)
                   /\ UNCHANGED <<job, token, step, inner>>
        ELSE /\ Throw(w, HasLease(w) /\ IsVerified(j))
             /\ UNCHANGED <<lineage, state, lease, retry, disturbed, job, token, step, inner>>
     /\ UNCHANGED <<source, attempts, output, copy, stored>>

(* The cleanup after any error looks for the job's output, and deletes it    *)
(* without asking whether it is verified. A DELETE that fails makes the      *)
(* error one that can be retried.                                            *)
NothingToClean(w) ==
  /\ pc[w] = "cleaning" /\ output[job[w]] = "none"
  /\ Move(w, "failing")
  /\ UNCHANGED <<source, jobRows, outputRows, stored, job, token, step, retryable, inner,
                 disturbed>>

DeleteOutput(w) ==
  /\ \/ pc[w] = "deleting"
     \/ pc[w] = "cleaning" /\ output[job[w]] # "none"
  /\ Move(w, "degrading")
  /\ \/ stored' = [stored EXCEPT ![job[w]] = "absent"] /\ UNCHANGED retryable
     \/ retryable' = [retryable EXCEPT ![w] = TRUE] /\ UNCHANGED stored
  /\ UNCHANGED <<source, jobRows, outputRows, job, token, step, inner, disturbed>>

AfterDegrading(w) ==
  /\ Move(w, IF inner[w] THEN "cleaning" ELSE "failing")
  /\ inner' = [inner EXCEPT ![w] = FALSE]

(* Mutant: a verified copy is marked as failed.                              *)
MarkAnyFailed(w) ==
  LET j == job[w]
  IN /\ pc[w] = "degrading"
     /\ copy' = [copy EXCEPT ![j] = "failed"]
     /\ output' = [output EXCEPT ![j] = IF @ = "active" THEN @ ELSE "degraded"]
     /\ AfterDegrading(w)
     /\ UNCHANGED <<source, jobRows, lineage, stored, job, token, step, retryable, disturbed>>

(* No lease is asked for, and no row of a verified output changed.           *)
MarkOutputFailed(w) ==
  LET j == job[w]
  IN /\ pc[w] = "degrading"
     /\ copy' = [copy EXCEPT ![j] = IF @ = "verified" THEN @ ELSE "failed"]
     /\ output' = [output EXCEPT ![j] = IF @ = "active" THEN @ ELSE "degraded"]
     /\ AfterDegrading(w)
     /\ UNCHANGED <<source, jobRows, lineage, stored, job, token, step, retryable, disturbed>>

(* Mutant: the lease of an attempt that failed is kept.                      *)
FailKeepsLease(w) ==
  LET j == job[w]
  IN /\ pc[w] = "failing"
     /\ IF HasLease(w) /\ Active(j)
        THEN /\ state' = [state EXCEPT ![j] = "failed"]
             /\ retry' = [retry EXCEPT ![j] =
                  IF retryable[w] /\ token[w] < MaxAttempts THEN "waiting" ELSE "none"]
        ELSE UNCHANGED <<state, retry>>
     /\ Return(w)
     /\ UNCHANGED <<source, attempts, lease, outputRows, stored, disturbed>>

(* An error of the failure's own transaction ends the batch.                 *)
Fail(w) ==
  LET j == job[w]
  IN /\ pc[w] = "failing"
     /\ IF HasLease(w) /\ Active(j)
        THEN /\ state' = [state EXCEPT ![j] = "failed"]
             /\ lease' = [lease EXCEPT ![j] = "none"]
             /\ retry' = [retry EXCEPT ![j] =
                  IF retryable[w] /\ token[w] < MaxAttempts THEN "waiting" ELSE "none"]
        ELSE UNCHANGED <<state, lease, retry>>
     /\ Return(w)
     /\ UNCHANGED <<source, attempts, outputRows, stored, disturbed>>

(* A transaction fails and is rolled back.                                   *)
DatabaseFails(w) ==
  /\ Disturb("database")
  /\ \/ /\ pc[w] \in {"claimed", "reserving", "completing"}
        /\ Throw(w, TRUE) /\ UNCHANGED <<job, token, step, inner>>
     \/ /\ pc[w] = "writing" /\ step[w] = "verified"
        /\ CleanUpWrite(w, TRUE) /\ UNCHANGED <<job, token, step>>
     \/ /\ pc[w] = "cleaning"
        /\ Move(w, "failing")
        /\ retryable' = [retryable EXCEPT ![w] = TRUE]
        /\ UNCHANGED <<job, token, step, inner>>
     \/ /\ pc[w] = "degrading"
        /\ AfterDegrading(w)
        /\ retryable' = [retryable EXCEPT ![w] = TRUE]
        /\ UNCHANGED <<job, token, step>>
     \/ pc[w] = "failing" /\ Return(w)
  /\ UNCHANGED <<source, jobRows, outputRows, stored>>

-----------------------------------------------------------------------------
(* What happens to workers, leases and sources.                              *)

Crash(w) ==
  /\ pc[w] # "idle" /\ Disturb("crash")
  /\ Return(w)
  /\ UNCHANGED <<source, jobRows, outputRows, stored>>

(* The lease of a worker that is gone runs out, and that of a slow one may.  *)
LeaseEnds(j) ==
  /\ lease[j] = "live"
  /\ IF \E w \in Workers : pc[w] # "idle" /\ job[w] = j /\ HasLease(w)
     THEN Disturb("lease") ELSE UNCHANGED disturbed
  /\ lease' = [lease EXCEPT ![j] = "over"]
  /\ UNCHANGED <<source, state, attempts, retry, outputRows, stored, workVars>>

RetryDue(j) ==
  /\ retry[j] = "waiting"
  /\ retry' = [retry EXCEPT ![j] = "due"]
  /\ UNCHANGED <<source, state, attempts, lease, outputRows, stored, workVars, disturbed>>

(* Replica protection finds a copy of the source missing, once at most in a  *)
(* run, and repairs it.                                                      *)
DegradeSource(o) ==
  /\ source[o] = "active" /\ Disturb("source")
  /\ source' = [source EXCEPT ![o] = "degraded"]
  /\ UNCHANGED <<jobRows, outputRows, stored, workVars>>

RepairSource(o) ==
  /\ source[o] = "degraded"
  /\ source' = [source EXCEPT ![o] = "repaired"]
  /\ UNCHANGED <<jobRows, outputRows, stored, workVars, disturbed>>

Work(w) ==
  \/ SourceAuthority(w) \/ ReadAndProcess(w)
  \/ ReserveOutput(w) \/ PutObject(w) \/ HeadObject(w) \/ UndoWrite(w)
  \/ MarkOutputVerified(w) \/ Complete(w)
  \/ NothingToClean(w) \/ DeleteOutput(w) \/ MarkOutputFailed(w) \/ Fail(w)

Next ==
  \/ \E o \in Sources : EnqueueVerifiedSource(o) \/ DegradeSource(o) \/ RepairSource(o)
  \/ \E w \in Workers : ClaimNext(w) \/ Work(w) \/ DatabaseFails(w) \/ Crash(w)
  \/ \E j \in Jobs : LeaseEnds(j) \/ RetryDue(j)

Spec == Init /\ [][Next]_vars

(* The poll repeats, provider calls and transactions return, time passes,    *)
(* and the copies of a source are repaired.                                  *)
Fairness ==
  /\ \A w \in Workers : WF_vars(ClaimNext(w)) /\ WF_vars(Work(w))
  /\ \A j \in Jobs : WF_vars(LeaseEnds(j)) /\ WF_vars(RetryDue(j))
  /\ \A o \in Sources : WF_vars(RepairSource(o))

FairSpec == Spec /\ Fairness

-----------------------------------------------------------------------------
(* Properties.                                                               *)

(* Every variable has its type, and a job has a lease exactly while it is    *)
(* being processed and a time of retry only after it has failed.             *)
TypeOK ==
  /\ source \in [Sources -> {"active", "degraded", "repaired"}]
  /\ state \in [Jobs -> JobStates]
  /\ attempts \in [Jobs -> 0 .. MaxAttempts]
  /\ lease \in [Jobs -> {"none", "live", "over"}]
  /\ retry \in [Jobs -> {"none", "waiting", "due"}]
  /\ output \in [Jobs -> {"none", "reserved", "degraded", "active"}]
  /\ copy \in [Jobs -> {"none", "pending", "failed", "verified"}]
  /\ stored \in [Jobs -> Contents]
  /\ lineage \subseteq Jobs
  /\ pc \in [Workers -> Phases]
  /\ job \in [Workers -> Jobs \cup {NoJob}]
  /\ token \in [Workers -> 0 .. MaxAttempts]
  /\ step \in [Workers -> WriterSteps]
  /\ retryable \in [Workers -> BOOLEAN]
  /\ inner \in [Workers -> BOOLEAN]
  /\ disturbed \in BOOLEAN
  /\ \A j \in Jobs : /\ (lease[j] # "none") <=> (state[j] = "processing")
                     /\ retry[j] # "none" => state[j] = "failed"

(* What is published is an active object with a verified copy, of a job that *)
(* succeeded; and the object and its copy never tell different stories,      *)
(* whatever workers without a lease do to them.                              *)
LineageIsBacked ==
  \A j \in Jobs :
    /\ j \in lineage <=> state[j] = "succeeded"
    /\ j \in lineage => copy[j] = "verified"
    /\ output[j] = "active" <=> copy[j] = "verified"

(* As long as nothing but a provider has failed, an output that is recorded  *)
(* as verified is at its provider: attempts, their cleanups and retries      *)
(* never get in one another's way.                                           *)
VerifiedIsStored ==
  ~disturbed => \A j \in Jobs : copy[j] = "verified" => stored[j] = "exact"

(* A verified output is immutable, says the document, and a cleanup leaves   *)
(* it alone.                                                                 *)
CleanupSparesVerified ==
  \A j \in Jobs : copy[j] = "verified" => stored[j] = "exact"

(* The jobs implement bounded tries with one publication at the end.         *)
JobOf(j) ==
  CASE state[j] = "none" -> "none"
    [] state[j] = "processing" -> "running"
    [] state[j] = "succeeded" -> "published"
    [] state[j] = "failed" /\ retry[j] = "none" -> "abandoned"
    [] OTHER -> "open"

Abstract == INSTANCE BoundedJobs WITH
  Jobs <- Jobs, MaxAttempts <- MaxAttempts,
  job <- [j \in Jobs |-> JobOf(j)], tries <- attempts

ImplementsBoundedJobs == Abstract!Spec

(* Every job that was enqueued ends, published or given up, although workers *)
(* crash and leases, transactions and sources are lost.                      *)
EveryJobEnds ==
  \A j \in Jobs : state[j] # "none" ~> JobOf(j) \in {"published", "abandoned"}

=============================================================================
