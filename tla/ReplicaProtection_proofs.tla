---------------------- MODULE ReplicaProtection_proofs ----------------------
(***************************************************************************)
(* Proofs about ReplicaProtection, for any route, any number of workers, any *)
(* limits and any disturbances: its types, what a worker may know of its     *)
(* attempt, who owns a copy, and what backs the truth of the object; and, as *)
(* long as workers keep their leases, what the providers hold: that replicas *)
(* are exact, the primary goes last, and the object survives.                *)
(***************************************************************************)
EXTENDS ReplicaProtection, SequenceTheorems, TLAPS

-----------------------------------------------------------------------------
(* Attempts.                                                                 *)

(* Ending the leases that are over leaves the other attempts as they are.    *)
LEMMA ExpireKeeps ==
  ASSUME NEW list \in Seq(Attempts), NEW time \in Nat
  PROVE  /\ Expire(list, time) \in Seq(Attempts)
         /\ Len(Expire(list, time)) = Len(list)
         /\ DOMAIN Expire(list, time) = DOMAIN list
         /\ \A n \in DOMAIN list :
              \/ Expire(list, time)[n] = list[n]
              \/ list[n].state = "in_progress" /\ Expire(list, time)[n].state = "failed"
<1>1. Failed(TRUE, time) \in Attempts /\ Failed(TRUE, time).state = "failed"
  BY DEF Failed, Attempts
<1>2. /\ Len(list) \in Nat /\ DOMAIN list = 1 .. Len(list)
      /\ \A n \in 1 .. Len(list) : list[n] \in Attempts
  BY LenProperties, ElementOfSeq
<1> DEFINE after(n) == IF list[n].state = "in_progress" /\ list[n].due <= time
                       THEN Failed(TRUE, time) ELSE list[n]
<1>3. Expire(list, time) = [n \in 1 .. Len(list) |-> after(n)]
  BY <1>2 DEF Expire
<1>4. \A n \in 1 .. Len(list) : after(n) \in Attempts
  BY <1>1, <1>2
<1> HIDE DEF after
<1>5. Expire(list, time) \in [1 .. Len(list) -> Attempts]
  BY <1>3, <1>4
<1>6. /\ Expire(list, time) \in Seq(Attempts)
      /\ Len(Expire(list, time)) = Len(list)
  BY <1>2, <1>5
<1>7. \A n \in DOMAIN list :
        \/ Expire(list, time)[n] = list[n]
        \/ list[n].state = "in_progress" /\ Expire(list, time)[n].state = "failed"
  BY <1>1, <1>2, <1>3 DEF after
<1> QED
  BY <1>2, <1>5, <1>6, <1>7

(* The outcomes of an attempt.                                               *)
LEMMA OutcomesAreTyped ==
  ASSUME TypeOK, NEW w \in Workers
  PROVE  /\ Succeeded \in Attempts /\ Succeeded.state # "in_progress"
         /\ RetryOf(w) \in Attempts /\ RetryOf(w).state # "in_progress"
         /\ InProgress(now[w] + LeaseDuration) \in Attempts
<1>1. now[w] + RetryDelay \in Nat /\ now[w] + LeaseDuration \in Nat
  BY ProtectionAssumption DEF TypeOK
<1> QED
  BY <1>1 DEF Succeeded, RetryOf, Failed, InProgress, Attempts

(* What a step may do to the attempts of one copy: end leases that are over, *)
(* append an attempt, or end one that is in progress.                        *)
Expires(t) == \E time \in Nat : attempts'[t] = Expire(attempts[t], time)

Appends(t) ==
  \E time, due \in Nat :
    /\ attempts'[t] = Append(Expire(attempts[t], time), InProgress(due))
    /\ RetryEligible(t, time) \/ "race" \in seen'

Ends(t) ==
  \E outcome \in Attempts : \E n \in Live(t) :
    /\ outcome.state # "in_progress"
    /\ attempts'[t] = [attempts[t] EXCEPT ![n] = outcome]

AttemptsStep ==
  /\ attempts' \in [Targets -> Seq(Attempts)]
  /\ seen \subseteq seen'
  /\ \A t \in Targets : attempts'[t] = attempts[t] \/ Expires(t) \/ Appends(t) \/ Ends(t)

-----------------------------------------------------------------------------
(* Where the workers are.                                                    *)

(* The phases of a worker that has a job.                                    *)
Busy == Phases \ {"idle", "next", "looking"}

(* A batch that goes on has a claim left to make.                            *)
BatchOK == \A w \in Workers : phase[w] = "next" => left[w] > 0

(* A worker with a job has an attempt of its own at the copy of the job; a   *)
(* retention works on the primary, and was claimed because of a replica.     *)
JobsOK ==
  \A w \in Workers : phase[w] \in Busy =>
    /\ job[w] \in Targets
    /\ attempt[w] \in 1 .. Len(attempts[job[w]])
    /\ w \in Retainers => job[w] = Primary /\ Peers # {}

(* What a worker that takes a job does to the attempts.                      *)
LEMMA TakeJobAppends ==
  ASSUME TypeOK, NEW w \in Workers, NEW t \in Targets, TakeJob(w, t)
  PROVE  /\ AttemptsStep /\ Appends(t)
         /\ job' = [job EXCEPT ![w] = t]
         /\ attempt' = [attempt EXCEPT ![w] = Len(attempts[t]) + 1]
         /\ Len(attempts[t]) \in Nat
         /\ Len(attempts'[t]) = Len(attempts[t]) + 1
         /\ seen' \subseteq Disturbances
<1> DEFINE expired == Expire(attempts[t], now[w])
           mine == InProgress(now[w] + LeaseDuration)
<1>1. /\ attempts[t] \in Seq(Attempts) /\ now[w] \in Nat
      /\ now[w] + LeaseDuration \in Nat /\ seen \subseteq Disturbances
  BY ProtectionAssumption DEF TypeOK
<1>2. mine \in Attempts
  BY OutcomesAreTyped
<1>3. expired \in Seq(Attempts) /\ Len(expired) = Len(attempts[t])
  BY <1>1, ExpireKeeps
<1>4. /\ Append(expired, mine) \in Seq(Attempts)
      /\ Len(Append(expired, mine)) = Len(attempts[t]) + 1
  BY <1>2, <1>3, AppendProperties
<1>5. attempts' = [attempts EXCEPT ![t] = Append(expired, mine)]
  BY DEF TakeJob
<1>6. /\ attempts' \in [Targets -> Seq(Attempts)]
      /\ attempts'[t] = Append(expired, mine)
      /\ \A u \in Targets \ {t} : attempts'[u] = attempts[u]
  BY <1>4, <1>5 DEF TypeOK
<1>7. /\ seen \subseteq seen' /\ seen' \subseteq Disturbances
      /\ RetryEligible(t, now[w]) \/ "race" \in seen'
  BY <1>1 DEF TakeJob, Disturb, May
<1>8. Appends(t)
  BY <1>1, <1>6, <1>7 DEF Appends
<1> QED
  BY <1>1, <1>4, <1>6, <1>7, <1>8 DEF AttemptsStep, TakeJob

(* What a worker that ends its attempt does to the attempts.                 *)
LEMMA EndAttemptEnds ==
  ASSUME TypeOK, JobsOK, NEW w \in Workers, phase[w] \in Busy, Owns(w),
         NEW outcome \in Attempts, outcome.state # "in_progress",
         EndAttempt(w, outcome), seen' = seen
  PROVE  AttemptsStep
<1> DEFINE t == job[w]
           n == attempt[w]
<1>1. t \in Targets /\ attempts[t] \in Seq(Attempts) /\ n \in 1 .. Len(attempts[t])
  BY DEF TypeOK, JobsOK
<1>2. [attempts[t] EXCEPT ![n] = outcome] \in Seq(Attempts)
  BY <1>1, ExceptSeq
<1>3. attempts' = [attempts EXCEPT ![t] = [attempts[t] EXCEPT ![n] = outcome]]
  BY <1>1 DEF EndAttempt, TypeOK
<1>4. /\ attempts' \in [Targets -> Seq(Attempts)]
      /\ attempts'[t] = [attempts[t] EXCEPT ![n] = outcome]
      /\ \A u \in Targets \ {t} : attempts'[u] = attempts[u]
  BY <1>1, <1>2, <1>3 DEF TypeOK
<1>5. n \in Live(t)
  BY <1>1 DEF Owns, Live
<1>6. Ends(t)
  BY <1>4, <1>5 DEF Ends
<1> QED
  BY <1>4, <1>6 DEF AttemptsStep

(* The next claim of a batch, or its end: the worker has no job any more.    *)
LEMMA ContinueIsTyped ==
  ASSUME TypeOK, NEW w \in Workers, Continue(w) \/ EndBatch(w)
  PROVE  /\ phase' \in [Workers -> Phases] /\ now' \in [Workers -> Nat]
         /\ left' \in [Workers -> Nat] /\ found' \in [Workers -> SUBSET Targets]
         /\ job' \in [Workers -> Targets \cup {NoTarget}] /\ attempt' \in [Workers -> Nat]
         /\ step' \in [Workers -> WriterSteps] /\ mirrored' \in [Workers -> Bytes]
         /\ unchecked' \in [Workers -> SUBSET Targets] /\ error' \in [Workers -> BOOLEAN]
         /\ phase'[w] \in {"idle", "next"}
         /\ phase'[w] = "next" => left'[w] > 0
         /\ \A v \in Workers \ {w} : /\ phase'[v] = phase[v] /\ left'[v] = left[v]
                                     /\ job'[v] = job[v] /\ attempt'[v] = attempt[v]
<1>1. CASE EndBatch(w)
  BY <1>1 DEF TypeOK, EndBatch, Forget, Move, Phases, WriterSteps, Bytes, Contents
<1>2. CASE left[w] # 0 /\ Move(w, "next") /\ Forget(w) /\ UNCHANGED batchVars
  <2>1. left[w] > 0
    BY <1>2 DEF TypeOK
  <2> QED
    BY <1>2, <2>1 DEF TypeOK, Forget, Move, Phases, WriterSteps, Bytes, Contents, batchVars
<1> QED
  BY <1>1, <1>2 DEF Continue

-----------------------------------------------------------------------------
(* Every step, as the attempts see it.                                       *)
LEMMA NextAttemptsStep == TypeOK /\ JobsOK /\ [Next]_vars => AttemptsStep
<1> SUFFICES ASSUME TypeOK, JobsOK, [Next]_vars PROVE AttemptsStep
  OBVIOUS
<1>1. ASSUME UNCHANGED attempts, seen \subseteq seen' PROVE AttemptsStep
  BY <1>1 DEF AttemptsStep, TypeOK
<1>2. ASSUME NEW w \in Workers, ClaimRepair(w) PROVE AttemptsStep
  <2>1. PICK t \in Targets : TakeJob(w, t)
    BY <1>2 DEF ClaimRepair, Peers
  <2> QED
    BY <2>1, TakeJobAppends
<1>3. ASSUME NEW w \in Workers, ClaimRetention(w) PROVE AttemptsStep
  BY <1>3, TakeJobAppends, TargetsAssumption DEF ClaimRetention
<1>4. ASSUME NEW w \in Workers, RetentionBlocked(w) PROVE AttemptsStep
  <2>1. now[w] \in Nat /\ Primary \in Targets /\ attempts[Primary] \in Seq(Attempts)
    BY TargetsAssumption DEF TypeOK
  <2>2. attempts' = [attempts EXCEPT ![Primary] = Expire(attempts[Primary], now[w])]
    BY <1>4 DEF RetentionBlocked
  <2>3. Expire(attempts[Primary], now[w]) \in Seq(Attempts)
    BY <2>1, ExpireKeeps
  <2> QED
    BY <1>4, <2>1, <2>2, <2>3 DEF RetentionBlocked, AttemptsStep, Expires, TypeOK
<1>5. ASSUME NEW w \in Workers,
             CompleteRepair(w) \/ FailRepair(w) \/ Invalidate(w) \/ CompleteRetention(w)
               \/ FailRetention(w)
      PROVE  AttemptsStep
  <2>1. phase[w] \in Busy /\ Owns(w) /\ seen' = seen
    BY <1>5 DEF CompleteRepair, FailRepair, Invalidate, CompleteRetention, FailRetention,
                Recordable, Busy, Phases
  <2>2. EndAttempt(w, Succeeded) \/ EndAttempt(w, RetryOf(w))
    BY <1>5 DEF CompleteRepair, FailRepair, Invalidate, CompleteRetention, FailRetention
  <2> QED
    BY <2>1, <2>2, OutcomesAreTyped, EndAttemptEnds
<1>6. ASSUME NEW w \in Workers, Claim(w) PROVE AttemptsStep
  BY <1>1, <1>2, <1>3, <1>4, <1>6
     DEF Claim, RunBatch, Look, NothingToClaim, ClaimFails, databaseVars
<1>7. ASSUME NEW w \in Workers, ProcessRepair(w) PROVE AttemptsStep
  BY <1>1, <1>5, <1>7
     DEF ProcessRepair, VerifyTarget, Verify, ClearTarget, OpenSource, PutObject, HeadObject,
         VerifyRaced, Undo, VerifyWritten, databaseVars
<1>8. ASSUME NEW w \in Workers, ProcessRetention(w) PROVE AttemptsStep
  BY <1>1, <1>5, <1>8 DEF ProcessRetention, VerifyGuard, DeletePrimary, databaseVars
<1>9. ASSUME NEW w \in Workers, RecordingFails(w) \/ FailureIsLost(w) \/ Crash(w)
      PROVE  AttemptsStep
  BY <1>1, <1>9 DEF RecordingFails, FailureIsLost, Crash, Disturb, databaseVars
<1>10. ASSUME NEW t \in Targets, Deactivate(t) PROVE AttemptsStep
  BY <1>1, <1>10 DEF Deactivate, Disturb, databaseVars
<1>11. CASE Tick
  BY <1>1, <1>11 DEF Tick, Disturb, databaseVars
<1>12. CASE UNCHANGED vars
  BY <1>1, <1>12 DEF vars, databaseVars
<1> QED
  BY <1>6, <1>7, <1>8, <1>9, <1>10, <1>11, <1>12 DEF Next, Work

(* No attempt is ever lost.                                                  *)
LEMMA AttemptsGrow ==
  ASSUME TypeOK, AttemptsStep, NEW t \in Targets
  PROVE  Len(attempts[t]) \in Nat /\ Len(attempts'[t]) \in Nat
           /\ Len(attempts[t]) <= Len(attempts'[t])
<1>1. attempts[t] \in Seq(Attempts) /\ attempts'[t] \in Seq(Attempts)
  BY DEF TypeOK, AttemptsStep
<1>2. Len(attempts[t]) \in Nat /\ Len(attempts'[t]) \in Nat
  BY <1>1, LenProperties
<1>3. CASE Expires(t)
  BY <1>1, <1>2, <1>3, ExpireKeeps DEF Expires
<1>4. CASE Appends(t)
  <2>1. PICK time \in Nat, due \in Nat :
          attempts'[t] = Append(Expire(attempts[t], time), InProgress(due))
    BY <1>4 DEF Appends
  <2>2. InProgress(due) \in Attempts
    BY DEF InProgress, Attempts
  <2>3. Len(attempts'[t]) = Len(Expire(attempts[t], time)) + 1
    BY <1>1, <2>1, <2>2, ExpireKeeps, AppendProperties
  <2> QED
    BY <1>1, <1>2, <2>3, ExpireKeeps
<1>5. CASE Ends(t)
  <2>1. PICK outcome \in Attempts, n \in Live(t) :
          attempts'[t] = [attempts[t] EXCEPT ![n] = outcome]
    BY <1>5 DEF Ends
  <2>2. n \in 1 .. Len(attempts[t])
    BY <1>1, LenProperties DEF Live
  <2> QED
    BY <1>1, <1>2, <2>1, <2>2, ExceptSeq
<1> QED
  BY <1>2, <1>3, <1>4, <1>5 DEF AttemptsStep

-----------------------------------------------------------------------------
(* Types.                                                                    *)

LEMMA InitTypeOK == Init => TypeOK /\ BatchOK /\ JobsOK
<1> SUFFICES ASSUME Init PROVE TypeOK /\ BatchOK /\ JobsOK
  OBVIOUS
<1>1. truth \in {RepairRequired, Protected, Cleaned}
  BY TargetsAssumption, ProtectionAssumption
     DEF Init, DeriveTruth, RouteTruth, RepairRequired, Protected
<1>2. attempts \in [Targets -> Seq(Attempts)]
  BY DEF Init
<1>3. TypeOK
  BY <1>1, <1>2 DEF Init, TypeOK, Phases, WriterSteps, Bytes, Contents
<1> QED
  BY <1>3 DEF Init, BatchOK, JobsOK, Busy

(* A write of the provider writer, with the bytes of a repair.               *)
LEMMA ResultsAreTyped ==
  ASSUME NEW source \in Bytes, NEW content \in Bytes
  PROVE  LET results == [step : WriterSteps, content : Bytes]
         IN /\ AfterPut(source, content) \subseteq results
            /\ AfterHead(content) \subseteq results
            /\ AfterDelete \subseteq results
            /\ AfterLostDelete(content) \subseteq results
  BY DEF AfterPut, AfterHead, AfterDelete, AfterLostDelete, Result, WriterSteps, Bytes, Contents

(* A deletion at a provider.                                                 *)
LEMMA DeleteIsTyped ==
  ASSUME TypeOK, NEW w \in Workers, NEW t \in Targets, NEW to \in Busy, Delete(w, t, to)
  PROVE  /\ stored' \in [Targets -> Bytes] /\ phase' \in [Workers -> Phases]
         /\ error' \in [Workers -> BOOLEAN] /\ phase'[w] \in Busy
         /\ \A v \in Workers \ {w} : phase'[v] = phase[v]
<1>1. \E next \in {to, "failing"} : Move(w, next)
  BY DEF Delete, Fail
<1>2. error' \in [Workers -> BOOLEAN]
  BY DEF Delete, Fail, TypeOK
<1>3. stored' = stored \/ stored' = [stored EXCEPT ![t] = "absent"]
  BY DEF Delete
<1>4. stored' \in [Targets -> Bytes]
  BY <1>3 DEF TypeOK, Bytes, Contents
<1>5. /\ phase' \in [Workers -> Phases] /\ phase'[w] \in Busy
      /\ \A v \in Workers \ {w} : phase'[v] = phase[v]
  BY <1>1 DEF Move, TypeOK, Busy, Phases
<1> QED
  BY <1>2, <1>4, <1>5

(* The steps of a repair at the providers keep the types; the worker keeps   *)
(* its job.                                                                  *)
LEMMA RepairIsTyped ==
  ASSUME TypeOK, JobsOK, NEW w \in Workers,
         \/ VerifyTarget(w) \/ ClearTarget(w) \/ OpenSource(w) \/ PutObject(w)
         \/ HeadObject(w) \/ VerifyRaced(w) \/ Undo(w) \/ VerifyWritten(w)
  PROVE  /\ TypeOK' /\ phase[w] \in Busy /\ phase'[w] \in Busy
         /\ \A v \in Workers \ {w} : phase'[v] = phase[v]
         /\ UNCHANGED <<databaseVars, left, job, attempt>>
<1> USE DEF Busy, Phases, databaseVars, batchVars
<1>0. /\ Primary \in Targets /\ stored[Primary] \in Bytes /\ mirrored[w] \in Bytes
      /\ phase[w] \in Busy => job[w] \in Targets /\ stored[job[w]] \in Bytes
  BY TargetsAssumption DEF TypeOK, JobsOK
<1>1. ASSUME NEW t \in Targets PROVE Seen(t) \subseteq {"exact", "wrong", "absent", "unreadable"}
  BY <1>1 DEF Seen, TypeOK, Bytes, Contents
<1>2. ASSUME NEW t, NEW sight PROVE Worth(t, sight) \subseteq BOOLEAN
  BY DEF Worth
<1>3. CASE VerifyTarget(w)
  BY <1>0, <1>1, <1>2, <1>3 DEF VerifyTarget, Verify, Move, TypeOK
<1>4. CASE VerifyWritten(w)
  BY <1>0, <1>1, <1>2, <1>4 DEF VerifyWritten, Verify, Move, TypeOK
<1>5. CASE ClearTarget(w)
  BY <1>0, <1>5, DeleteIsTyped DEF ClearTarget, TypeOK
<1>6. CASE OpenSource(w)
  BY <1>0, <1>6 DEF OpenSource, Fail, Move, TypeOK, WriterSteps
<1>7. CASE PutObject(w)
  <2>1. PICK result \in AfterPut(mirrored[w], stored[job[w]]) :
          /\ stored' = [stored EXCEPT ![job[w]] = result.content]
          /\ step' = [step EXCEPT ![w] = result.step]
          /\ \E bytes \in Passed(w, result) : mirrored' = [mirrored EXCEPT ![w] = bytes]
          /\ Move(w, IF result.step = "stored" THEN "writing" ELSE "racing")
          /\ \E retryable \in {TRUE} \cup (IF result.step = "failed" THEN {FALSE} ELSE {}) :
               error' = [error EXCEPT ![w] = retryable]
    BY <1>7 DEF PutObject
  <2>2. result.step \in WriterSteps /\ result.content \in Bytes
    BY <1>0, <1>7, <2>1, ResultsAreTyped DEF PutObject
  <2>3. Passed(w, result) \subseteq Bytes
    BY <1>0 DEF Passed, Bytes
  <2>4. error' \in [Workers -> BOOLEAN]
    BY <2>1 DEF TypeOK
  <2> QED
    BY <1>0, <1>7, <2>1, <2>2, <2>3, <2>4 DEF PutObject, Move, TypeOK
<1>8. CASE HeadObject(w)
  <2>1. PICK result \in AfterHead(stored[job[w]]) :
          /\ step' = [step EXCEPT ![w] = result.step]
          /\ Move(w, IF result.step = "verified" THEN CheckMirror(mirrored[w]) ELSE "racing")
    BY <1>8 DEF HeadObject
  <2>2. result.step \in WriterSteps
    BY <1>0, <1>8, <2>1, ResultsAreTyped DEF HeadObject
  <2> QED
    BY <1>8, <2>1, <2>2 DEF HeadObject, Move, CheckMirror, TypeOK
<1>9. CASE VerifyRaced(w)
  <2>1. \E to \in {"checking", "undoing", "failing"} : Move(w, to)
    BY <1>9 DEF VerifyRaced, Fail, CheckMirror
  <2>2. error' \in [Workers -> BOOLEAN]
    <3>1. error' = error \/ \E retryable \in BOOLEAN : error' = [error EXCEPT ![w] = retryable]
      BY <1>2, <1>9 DEF VerifyRaced, Fail
    <3> QED
      BY <3>1 DEF TypeOK
  <2> QED
    BY <1>9, <2>1, <2>2 DEF VerifyRaced, Move, TypeOK
<1>10. CASE Undo(w)
  <2>1. PICK result \in AfterDelete \cup AfterLostDelete(stored[job[w]]) :
          stored' = [stored EXCEPT ![job[w]] = result.content]
    BY <1>10 DEF Undo
  <2>2. result.content \in Bytes
    BY <1>0, <1>10, <2>1, ResultsAreTyped DEF Undo
  <2> QED
    BY <1>10, <2>1, <2>2 DEF Undo, Move, TypeOK, jobVars
<1> QED
  BY <1>3, <1>4, <1>5, <1>6, <1>7, <1>8, <1>9, <1>10

(* The steps of a retention before its attempt ends, likewise.               *)
LEMMA RetentionIsTyped ==
  ASSUME TypeOK, JobsOK, NEW w \in Workers, VerifyGuard(w) \/ DeletePrimary(w)
  PROVE  /\ TypeOK' /\ phase[w] \in Busy /\ phase'[w] \in Busy
         /\ \A v \in Workers \ {w} : phase'[v] = phase[v]
         /\ UNCHANGED <<databaseVars, left, job, attempt>>
<1> USE DEF Busy, Phases, databaseVars, batchVars
<1>1. CASE VerifyGuard(w)
  <2>1. PICK t \in unchecked[w] :
          \/ /\ unchecked' = [unchecked EXCEPT ![w] = @ \ {t}]
             /\ UNCHANGED <<phase, error>>
          \/ /\ unchecked' = [unchecked EXCEPT ![w] = {t}]
             /\ Move(w, "invalidating")
             /\ error' = [error EXCEPT ![w] = TRUE]
          \/ /\ \E retryable \in BOOLEAN : Fail(w, retryable)
             /\ UNCHANGED unchecked
    BY <1>1 DEF VerifyGuard, Worth
  <2>2. unchecked[w] \subseteq Targets /\ t \in Targets
    BY <2>1 DEF TypeOK
  <2>3. unchecked' \in [Workers -> SUBSET Targets]
    <3>1. unchecked[w] \ {t} \in SUBSET Targets /\ {t} \in SUBSET Targets
      BY <2>2
    <3>2. \/ \E S \in SUBSET Targets : unchecked' = [unchecked EXCEPT ![w] = S]
          \/ unchecked' = unchecked
      BY <2>1, <3>1 DEF Fail
    <3> QED
      BY <3>2 DEF TypeOK
  <2>4. /\ phase' \in [Workers -> Phases] /\ phase'[w] \in Busy
        /\ \A v \in Workers \ {w} : phase'[v] = phase[v]
    <3>1. phase[w] \in Busy
      BY <1>1 DEF VerifyGuard
    <3>2. phase' = phase \/ \E to \in {"invalidating", "failing"} : Move(w, to)
      BY <2>1 DEF Fail
    <3> QED
      BY <3>1, <3>2 DEF Move, TypeOK
  <2>5. error' \in [Workers -> BOOLEAN]
    BY <2>1 DEF Fail, TypeOK
  <2>6. /\ phase[w] \in Busy
        /\ UNCHANGED <<databaseVars, active, stored, clock, batchVars, found, job, attempt, step,
                       mirrored, seen>>
    BY <1>1 DEF VerifyGuard
  <2> QED
    BY <2>3, <2>4, <2>5, <2>6 DEF TypeOK
<1>2. CASE DeletePrimary(w)
  BY <1>2, TargetsAssumption, DeleteIsTyped DEF DeletePrimary, TypeOK
<1> QED
  BY <1>1, <1>2

(* The transactions that end an attempt.                                     *)
LEMMA EndingIsTyped ==
  ASSUME TypeOK, AttemptsStep, NEW w \in Workers,
         \/ CompleteRepair(w) \/ FailRepair(w) \/ Invalidate(w)
         \/ CompleteRetention(w) \/ FailRetention(w) \/ FailureIsLost(w)
  PROVE  TypeOK'
<1>1. Continue(w) /\ UNCHANGED <<active, stored, clock, seen>>
  BY DEF CompleteRepair, FailRepair, Invalidate, CompleteRetention, FailRetention, FailureIsLost
<1>2. copies' \in [Targets -> CopyStates \cup {"deleted"}]
  BY DEF CompleteRepair, FailRepair, Invalidate, CompleteRetention, FailRetention, FailureIsLost,
         databaseVars, CopyStates, TypeOK
<1>3. truth' \in {RepairRequired, Protected, Cleaned}
  BY DEF CompleteRepair, FailRepair, Invalidate, CompleteRetention, FailRetention, FailureIsLost,
         databaseVars, TruthOf, TypeOK
<1> QED
  BY <1>1, <1>2, <1>3, ContinueIsTyped DEF AttemptsStep, TypeOK

(* A claim.                                                                  *)
LEMMA ClaimIsTyped ==
  ASSUME TypeOK, BatchOK, AttemptsStep, NEW w \in Workers, Claim(w)
  PROVE  TypeOK'
<1> USE DEF databaseVars, batchVars, jobVars
<1>1. CASE RunBatch(w)
  <2>1. RepairBatchSize \in Nat /\ RetentionBatchSize \in Nat
    BY ProtectionAssumption
  <2> QED
    BY <1>1, <2>1 DEF RunBatch, Move, TypeOK, Phases
<1>2. CASE Look(w)
  <2>1. left[w] - 1 \in Nat
    BY <1>2 DEF Look, BatchOK, TypeOK
  <2>2. {t \in Targets : copies[Primary] = "verified" /\ Wanted(w, t) /\ RetryEligible(t, now[w])}
          \subseteq Targets
    OBVIOUS
  <2> QED
    BY <1>2, <2>1, <2>2 DEF Look, Move, TypeOK, Phases
<1>3. CASE ClaimRepair(w)
  <2>1. PICK t \in Targets : TakeJob(w, t)
    BY <1>3 DEF ClaimRepair, Peers
  <2>2. /\ job' \in [Workers -> Targets \cup {NoTarget}]
        /\ attempt' \in [Workers -> Nat] /\ seen' \subseteq Disturbances
    <3>1. /\ job' = [job EXCEPT ![w] = t]
          /\ attempt' = [attempt EXCEPT ![w] = Len(attempts[t]) + 1]
          /\ Len(attempts[t]) + 1 \in Nat /\ seen' \subseteq Disturbances
      BY <2>1, TakeJobAppends
    <3> QED
      BY <2>1, <3>1 DEF TypeOK
  <2>3. phase' \in [Workers -> Phases]
    BY <1>3 DEF ClaimRepair, Move, TypeOK, Phases
  <2> QED
    BY <1>3, <2>2, <2>3 DEF ClaimRepair, AttemptsStep, TypeOK
<1>4. CASE ClaimRetention(w)
  <2>1. TakeJob(w, Primary) /\ Primary \in Targets
    BY <1>4, TargetsAssumption DEF ClaimRetention
  <2>2. Guards \subseteq Targets
    BY DEF Guards, Peers
  <2>3. /\ job' \in [Workers -> Targets \cup {NoTarget}]
        /\ attempt' \in [Workers -> Nat] /\ seen' \subseteq Disturbances
    <3>1. /\ job' = [job EXCEPT ![w] = Primary]
          /\ attempt' = [attempt EXCEPT ![w] = Len(attempts[Primary]) + 1]
          /\ Len(attempts[Primary]) + 1 \in Nat /\ seen' \subseteq Disturbances
      BY <2>1, TakeJobAppends
    <3> QED
      BY <2>1, <3>1 DEF TypeOK
  <2>4. phase' \in [Workers -> Phases] /\ unchecked' \in [Workers -> SUBSET Targets]
    BY <1>4, <2>2 DEF ClaimRetention, Move, TypeOK, Phases
  <2> QED
    BY <1>4, <2>3, <2>4 DEF ClaimRetention, AttemptsStep, TypeOK
<1>5. CASE RetentionBlocked(w)
  BY <1>5, ContinueIsTyped DEF RetentionBlocked, AttemptsStep, TypeOK
<1>6. CASE NothingToClaim(w) \/ ClaimFails(w)
  BY <1>6, ContinueIsTyped DEF NothingToClaim, ClaimFails, TypeOK
<1> QED
  BY <1>1, <1>2, <1>3, <1>4, <1>5, <1>6 DEF Claim

(* Every step keeps the types.                                               *)
LEMMA NextTypeOK == TypeOK /\ BatchOK /\ JobsOK /\ [Next]_vars => TypeOK'
<1> SUFFICES ASSUME TypeOK, BatchOK, JobsOK, [Next]_vars PROVE TypeOK'
  OBVIOUS
<1> USE DEF databaseVars, batchVars, jobVars
<1>0. AttemptsStep
  BY NextAttemptsStep
<1>1. ASSUME NEW w \in Workers, Claim(w) PROVE TypeOK'
  BY <1>0, <1>1, ClaimIsTyped
<1>2. ASSUME NEW w \in Workers, ProcessRepair(w) PROVE TypeOK'
  BY <1>0, <1>2, RepairIsTyped, EndingIsTyped DEF ProcessRepair
<1>3. ASSUME NEW w \in Workers, ProcessRetention(w) PROVE TypeOK'
  BY <1>0, <1>3, RetentionIsTyped, EndingIsTyped DEF ProcessRetention
<1>4. ASSUME NEW w \in Workers, RecordingFails(w) PROVE TypeOK'
  BY <1>4 DEF RecordingFails, Fail, Move, TypeOK, Phases
<1>5. ASSUME NEW w \in Workers, FailureIsLost(w) PROVE TypeOK'
  BY <1>0, <1>5, EndingIsTyped
<1>6. ASSUME NEW w \in Workers, Crash(w) PROVE TypeOK'
  <2>1. seen' \subseteq Disturbances
    BY <1>6 DEF Crash, Disturb, May, TypeOK
  <2> QED
    BY <1>6, <2>1, ContinueIsTyped DEF Crash, TypeOK
<1>7. ASSUME NEW t \in Targets, Deactivate(t) PROVE TypeOK'
  BY <1>7 DEF Deactivate, Disturb, May, TypeOK
<1>8. CASE Tick
  BY <1>8 DEF Tick, Disturb, May, TypeOK
<1>9. CASE UNCHANGED vars
  BY <1>9 DEF vars, TypeOK
<1> QED
  BY <1>1, <1>2, <1>3, <1>4, <1>5, <1>6, <1>7, <1>8, <1>9 DEF Next, Work

-----------------------------------------------------------------------------
(* Batches and jobs.                                                         *)

(* What a step makes of a worker: it has no job afterwards, keeps the one it *)
(* has, or takes one.                                                        *)
Leaves(w) == phase'[w] \notin Busy /\ (phase'[w] = "next" => left'[w] > 0)

Stays(w) ==
  /\ phase'[w] = phase[w] \/ phase'[w] \in Busy
  /\ phase'[w] \in Busy => phase[w] \in Busy
  /\ left'[w] = left[w] /\ job'[w] = job[w] /\ attempt'[w] = attempt[w]

Takes(w) ==
  /\ phase'[w] \in Busy /\ job'[w] \in Targets
  /\ attempt'[w] \in 1 .. Len(attempts'[job'[w]])
  /\ w \in Retainers => job'[w] = Primary /\ Peers # {}

(* A worker with a job that the others leave alone keeps its attempt.        *)
LEMMA JobsStep ==
  ASSUME TypeOK, BatchOK, JobsOK, AttemptsStep,
         \A w \in Workers : Leaves(w) \/ Stays(w) \/ Takes(w)
  PROVE  BatchOK' /\ JobsOK'
<1>1. ASSUME NEW w \in Workers, phase'[w] = "next" PROVE left'[w] > 0
  BY <1>1 DEF BatchOK, Leaves, Stays, Takes, Busy
<1>2. ASSUME NEW w \in Workers, phase'[w] \in Busy
      PROVE  /\ job'[w] \in Targets
             /\ attempt'[w] \in 1 .. Len(attempts'[job'[w]])
             /\ w \in Retainers => job'[w] = Primary /\ Peers # {}
  <2>1. CASE Stays(w)
    <3>1. /\ job'[w] = job[w] /\ job[w] \in Targets /\ attempt'[w] = attempt[w]
          /\ attempt[w] \in 1 .. Len(attempts[job[w]])
          /\ w \in Retainers => job[w] = Primary /\ Peers # {}
      BY <1>2, <2>1 DEF JobsOK, Stays
    <3> QED
      BY <3>1, AttemptsGrow
  <2> QED
    BY <1>2, <2>1 DEF Leaves, Takes
<1> QED
  BY <1>1, <1>2 DEF BatchOK, JobsOK

(* Every step takes each worker one of the three ways.                       *)
LEMMA NextJobs ==
  TypeOK /\ BatchOK /\ JobsOK /\ [Next]_vars
    => \A w \in Workers : Leaves(w) \/ Stays(w) \/ Takes(w)
<1> SUFFICES ASSUME TypeOK, BatchOK, JobsOK, [Next]_vars, NEW v \in Workers
             PROVE  Leaves(v) \/ Stays(v) \/ Takes(v)
  OBVIOUS
<1> DEFINE Way == Leaves(v) \/ Stays(v) \/ Takes(v)
<1> USE DEF databaseVars, batchVars, jobVars
<1>1. ASSUME NEW w \in Workers, Continue(w) \/ EndBatch(w) PROVE Way
  <2>1. /\ phase'[w] \in {"idle", "next"} /\ (phase'[w] = "next" => left'[w] > 0)
        /\ \A u \in Workers \ {w} : /\ phase'[u] = phase[u] /\ left'[u] = left[u]
                                    /\ job'[u] = job[u] /\ attempt'[u] = attempt[u]
    BY <1>1, ContinueIsTyped
  <2> QED
    BY <2>1 DEF Leaves, Stays, Busy
<1>2. ASSUME NEW w \in Workers, NEW to \in Phases, Move(w, to), to # "next",
             to \in Busy => phase[w] \in Busy,
             \A u \in Workers \ {w} : left'[u] = left[u],
             to \in Busy => left' = left, UNCHANGED <<job, attempt>>
      PROVE  Way
  <2>1. phase'[w] = to /\ \A u \in Workers \ {w} : phase'[u] = phase[u]
    BY <1>2 DEF Move, TypeOK
  <2> QED
    BY <1>2, <2>1 DEF Leaves, Stays, Busy
<1>3. ASSUME NEW w \in Workers, RunBatch(w) PROVE Way
  <2>1. RepairBatchSize > 0 /\ RetentionBatchSize > 0
    BY ProtectionAssumption
  <2> QED
    BY <1>3, <2>1 DEF RunBatch, Move, TypeOK, Leaves, Stays, Busy
<1>4. ASSUME NEW w \in Workers, Look(w) PROVE Way
  BY <1>4 DEF Look, Move, TypeOK, Leaves, Stays, Busy
<1>5. ASSUME NEW w \in Workers, NEW t \in Targets, TakeJob(w, t),
             Move(w, "claimed") \/ Move(w, "guarding"), left' = left,
             w \in Retainers => t = Primary /\ Peers # {}
      PROVE  Way
  <2>1. /\ job' = [job EXCEPT ![w] = t]
        /\ attempt' = [attempt EXCEPT ![w] = Len(attempts[t]) + 1]
        /\ Len(attempts[t]) \in Nat
        /\ Len(attempts'[t]) = Len(attempts[t]) + 1
    BY <1>5, TakeJobAppends
  <2>2. /\ job'[w] = t /\ attempt'[w] \in 1 .. Len(attempts'[t]) /\ phase'[w] \in Busy
        /\ \A u \in Workers \ {w} : /\ phase'[u] = phase[u] /\ job'[u] = job[u]
                                    /\ attempt'[u] = attempt[u]
    BY <1>5, <2>1 DEF Move, TypeOK, Busy, Phases
  <2>3. v = w => Takes(v)
    BY <1>5, <2>2 DEF Takes
  <2>4. v # w => Stays(v)
    BY <1>5, <2>2 DEF Stays
  <2> QED
    BY <2>3, <2>4
<1>6. ASSUME NEW w \in Workers, ClaimRepair(w) PROVE Way
  <2>1. PICK t \in Targets : TakeJob(w, t)
    BY <1>6 DEF ClaimRepair, Peers
  <2>2. w \notin Retainers
    BY <1>6, ProtectionAssumption DEF ClaimRepair
  <2> QED
    BY <1>5, <1>6, <2>1, <2>2 DEF ClaimRepair
<1>7. ASSUME NEW w \in Workers, ClaimRetention(w) PROVE Way
  <2>1. Peers # {}
    BY <1>7 DEF ClaimRetention, Guarded, Guards
  <2> QED
    BY <1>5, <1>7, <2>1, TargetsAssumption DEF ClaimRetention
<1>8. ASSUME NEW w \in Workers, Claim(w) PROVE Way
  BY <1>1, <1>3, <1>4, <1>6, <1>7, <1>8 DEF Claim, RetentionBlocked, NothingToClaim, ClaimFails
<1>9. ASSUME NEW w \in Workers, phase[w] \in Busy, phase'[w] \in Busy,
             \A u \in Workers \ {w} : phase'[u] = phase[u], UNCHANGED <<left, job, attempt>>
      PROVE  Way
  BY <1>9 DEF Stays
<1>10. ASSUME NEW w \in Workers, ProcessRepair(w) PROVE Way
  BY <1>1, <1>9, <1>10, RepairIsTyped DEF ProcessRepair, CompleteRepair, FailRepair
<1>11. ASSUME NEW w \in Workers, ProcessRetention(w) PROVE Way
  BY <1>1, <1>9, <1>11, RetentionIsTyped
     DEF ProcessRetention, Invalidate, CompleteRetention, FailRetention
<1>12. ASSUME NEW w \in Workers, RecordingFails(w) PROVE Way
  BY <1>12 DEF RecordingFails, Fail, Move, TypeOK, Stays, Busy, Phases
<1>13. ASSUME NEW w \in Workers, FailureIsLost(w) \/ Crash(w) PROVE Way
  BY <1>1, <1>13 DEF FailureIsLost, Crash
<1>14. ASSUME UNCHANGED <<phase, left, job, attempt>> PROVE Way
  BY <1>14 DEF Stays
<1>15. ASSUME NEW t \in Targets, Deactivate(t) PROVE Way
  BY <1>14, <1>15 DEF Deactivate
<1>16. CASE Tick
  BY <1>14, <1>16 DEF Tick
<1>17. CASE UNCHANGED vars
  BY <1>14, <1>17 DEF vars
<1> QED
  BY <1>8, <1>10, <1>11, <1>12, <1>13, <1>15, <1>16, <1>17 DEF Next, Work

(* The variables have their types in every reachable state.                  *)
LEMMA BasicsHold == Spec => [](TypeOK /\ BatchOK /\ JobsOK)
<1>1. Init => TypeOK /\ BatchOK /\ JobsOK
  BY InitTypeOK
<1>2. TypeOK /\ BatchOK /\ JobsOK /\ [Next]_vars => (TypeOK /\ BatchOK /\ JobsOK)'
  BY NextTypeOK, NextAttemptsStep, NextJobs, JobsStep
<1> QED
  BY <1>1, <1>2, PTL DEF Spec

(* The rows, the clock, the leases and every worker's progress stay within   *)
(* the states the code knows, whatever fails.                                *)
THEOREM TypeCorrect == Spec => []TypeOK
  BY BasicsHold, PTL

-----------------------------------------------------------------------------
(* Attempts are final.                                                       *)

LEMMA StepKeepsEnded ==
  ASSUME TypeOK, AttemptsStep, NEW t \in Targets, NEW n \in DOMAIN attempts[t] \ Live(t)
  PROVE  n \in DOMAIN attempts'[t] /\ attempts'[t][n] = attempts[t][n]
<1>1. /\ attempts[t] \in Seq(Attempts) /\ Len(attempts[t]) \in Nat
      /\ DOMAIN attempts[t] = 1 .. Len(attempts[t])
      /\ attempts[t][n].state # "in_progress"
  BY LenProperties DEF TypeOK, Live
<1>2. CASE Expires(t)
  BY <1>1, <1>2, ExpireKeeps DEF Expires
<1>3. CASE Appends(t)
  <2>1. PICK time \in Nat, due \in Nat :
          attempts'[t] = Append(Expire(attempts[t], time), InProgress(due))
    BY <1>3 DEF Appends
  <2>2. InProgress(due) \in Attempts
    BY DEF InProgress, Attempts
  <2>3. /\ Expire(attempts[t], time) \in Seq(Attempts)
        /\ Len(Expire(attempts[t], time)) = Len(attempts[t])
        /\ Expire(attempts[t], time)[n] = attempts[t][n]
    BY <1>1, ExpireKeeps
  <2>4. /\ attempts'[t] \in Seq(Attempts)
        /\ Len(attempts'[t]) = Len(attempts[t]) + 1
        /\ attempts'[t][n] = attempts[t][n]
    BY <1>1, <2>1, <2>2, <2>3, AppendProperties
  <2> QED
    BY <1>1, <2>4, LenProperties
<1>4. CASE Ends(t)
  <2>1. PICK outcome \in Attempts, m \in Live(t) :
          attempts'[t] = [attempts[t] EXCEPT ![m] = outcome]
    BY <1>4 DEF Ends
  <2> QED
    BY <1>1, <2>1
<1> QED
  BY <1>2, <1>3, <1>4 DEF AttemptsStep

(* An attempt that has ended stays as it ended, in every step: a worker that *)
(* comes back after its lease was taken over cannot rewrite the history, and *)
(* no claim drops or changes what earlier attempts left.                     *)
THEOREM AttemptsAreFinalHolds == Spec => AttemptsAreFinal
<1>1. TypeOK /\ BatchOK /\ JobsOK /\ [Next]_vars
        => [\A t \in Targets : \A n \in DOMAIN attempts[t] \ Live(t) :
              n \in DOMAIN attempts'[t] /\ attempts'[t][n] = attempts[t][n]]_vars
  BY NextAttemptsStep, StepKeepsEnded
<1> QED
  BY <1>1, BasicsHold, PTL DEF Spec, AttemptsAreFinal

-----------------------------------------------------------------------------
(* Claims are exclusive.                                                     *)

(* Only the last attempt may be in progress: this is what makes the check of *)
(* the last one's lease enough for a claim.                                  *)
LiveIsLast ==
  "race" \notin seen => \A t \in Targets : \A n \in Live(t) : n = Len(attempts[t])

LEMMA StepKeepsLiveLast ==
  ASSUME TypeOK, AttemptsStep, LiveIsLast, "race" \notin seen',
         NEW t \in Targets, NEW n \in Live(t)'
  PROVE  n = Len(attempts'[t])
<1>1. /\ attempts[t] \in Seq(Attempts) /\ Len(attempts[t]) \in Nat
      /\ DOMAIN attempts[t] = 1 .. Len(attempts[t])
      /\ attempts'[t] \in Seq(Attempts) /\ DOMAIN attempts'[t] = 1 .. Len(attempts'[t])
  BY LenProperties DEF TypeOK, AttemptsStep
<1>2. \A m \in Live(t) : m = Len(attempts[t])
  BY DEF LiveIsLast, AttemptsStep
<1>3. n \in DOMAIN attempts'[t] /\ attempts'[t][n].state = "in_progress"
  BY DEF Live
<1>4. CASE attempts'[t] = attempts[t]
  BY <1>2, <1>3, <1>4 DEF Live
<1>5. CASE Expires(t)
  <2>1. PICK time \in Nat : attempts'[t] = Expire(attempts[t], time)
    BY <1>5 DEF Expires
  <2>2. n \in Live(t) /\ Len(attempts'[t]) = Len(attempts[t])
    BY <1>1, <1>3, <2>1, ExpireKeeps DEF Live
  <2> QED
    BY <1>2, <2>2
<1>6. CASE Appends(t)
  <2>1. PICK time \in Nat, due \in Nat :
          /\ attempts'[t] = Append(Expire(attempts[t], time), InProgress(due))
          /\ RetryEligible(t, time)
    BY <1>6 DEF Appends
  <2>2. InProgress(due) \in Attempts
    BY DEF InProgress, Attempts
  <2>3. /\ Expire(attempts[t], time) \in Seq(Attempts)
        /\ Len(Expire(attempts[t], time)) = Len(attempts[t])
    BY <1>1, ExpireKeeps
  <2>4. /\ Len(attempts'[t]) = Len(attempts[t]) + 1
        /\ \A m \in 1 .. Len(attempts[t]) : attempts'[t][m] = Expire(attempts[t], time)[m]
    BY <1>1, <2>1, <2>2, <2>3, AppendProperties
  <2>5. ASSUME n \in 1 .. Len(attempts[t]) PROVE FALSE
    <3>1. Expire(attempts[t], time)[n].state = "in_progress"
      BY <1>3, <2>4, <2>5
    <3>2. n \in Live(t)
      <4>1. \/ Expire(attempts[t], time)[n] = attempts[t][n]
            \/ attempts[t][n].state = "in_progress"
        BY <1>1, <2>5, ExpireKeeps
      <4> QED
        BY <1>1, <2>5, <3>1, <4>1 DEF Live
    <3>3. attempts[t][n] = Last(attempts[t]) /\ attempts[t] # <<>>
      BY <1>1, <1>2, <2>5, <3>2 DEF Last
    <3>4. attempts[t][n].state = "in_progress" /\ attempts[t][n].due <= time
      BY <2>1, <3>2, <3>3 DEF RetryEligible, Live
    <3>5. Expire(attempts[t], time)[n] = Failed(TRUE, time)
      BY <1>1, <2>5, <3>4 DEF Expire
    <3> QED
      BY <3>1, <3>5 DEF Failed
  <2> QED
    BY <1>1, <1>3, <2>4, <2>5
<1>7. CASE Ends(t)
  <2>1. PICK outcome \in Attempts, m \in Live(t) :
          /\ outcome.state # "in_progress"
          /\ attempts'[t] = [attempts[t] EXCEPT ![m] = outcome]
    BY <1>7 DEF Ends
  <2>2. Len(attempts'[t]) = Len(attempts[t])
    BY <1>1, <2>1, ExceptSeq DEF Live
  <2>3. n \in Live(t)
    BY <1>1, <1>3, <2>1, <2>2 DEF Live
  <2> QED
    BY <1>2, <2>2, <2>3
<1> QED
  BY <1>4, <1>5, <1>6, <1>7 DEF AttemptsStep

LEMMA InitLiveIsLast == Init => LiveIsLast
  BY DEF Init, LiveIsLast, Live

LEMMA NextLiveIsLast == TypeOK /\ JobsOK /\ LiveIsLast /\ [Next]_vars => LiveIsLast'
<1> SUFFICES ASSUME TypeOK, LiveIsLast, AttemptsStep, "race" \notin seen',
                    NEW t \in Targets, NEW n \in Live(t)'
             PROVE  n = Len(attempts'[t])
  BY NextAttemptsStep DEF LiveIsLast
<1> QED
  BY StepKeepsLiveLast

(* As long as no claim reads the attempts before another claim of the same   *)
(* copy commits, no copy has two attempts in progress, with any number of    *)
(* workers, leases that run out, crashes, and failing transactions.          *)
THEOREM ClaimsAreExclusiveHolds == Spec => []ClaimsAreExclusive
<1>1. LiveIsLast => ClaimsAreExclusive
  BY DEF LiveIsLast, ClaimsAreExclusive, SingleOwner
<1> QED
  BY <1>1, InitLiveIsLast, NextLiveIsLast, BasicsHold, PTL DEF Spec

-----------------------------------------------------------------------------
(* The truth of the object is backed by its copies.                          *)

LEMMA TruthsDiffer == RepairRequired # Protected /\ RepairRequired # Cleaned /\ Protected # Cleaned
  BY DEF RepairRequired, Protected, Cleaned, Truth

LEMMA InitTruth == Init => TruthIsBacked
<1> SUFFICES ASSUME Init PROVE TruthIsBacked
  OBVIOUS
<1>1. truth = RouteTruth(copies) /\ copies[Primary] = "verified"
  BY ProtectionAssumption DEF Init, DeriveTruth
<1>2. truth \in {RepairRequired, Protected}
  BY <1>1 DEF RouteTruth, RepairRequired, Protected
<1>3. truth = Protected => \A t \in Targets : copies[t] = "verified"
  BY <1>1 DEF RouteTruth, Protected, Truth, Peers
<1> QED
  BY <1>2, <1>3, TruthsDiffer DEF TruthIsBacked

(* The transactions that record a success.                                   *)
LEMMA EndingKeepsTruth ==
  ASSUME TypeOK, JobsOK, TruthIsBacked, NEW w \in Workers,
         CompleteRepair(w) \/ CompleteRetention(w)
  PROVE  TruthIsBacked'
<1>1. CASE CompleteRepair(w)
  <2>1. truth' = TruthOf(copies')
    BY <1>1 DEF CompleteRepair
  <2> QED
    BY <2>1, TruthsDiffer DEF TruthOf, TruthIsBacked
<1>2. CASE CompleteRetention(w)
  <2>1. job[w] = Primary /\ Primary \in Targets
    BY <1>2, TargetsAssumption DEF CompleteRetention, JobsOK, Busy, Phases
  <2>2. copies'[Primary] = "deleted" /\ \A t \in Peers : copies'[t] = copies[t]
    BY <1>2, <2>1 DEF CompleteRetention, TypeOK, Peers
  <2>3. CASE \E t \in Peers : copies[t] = "verified"
    BY <1>2, <2>2, <2>3, TruthsDiffer DEF CompleteRetention, TruthIsBacked
  <2>4. CASE ~\E t \in Peers : copies[t] = "verified"
    <3>1. Peers # {} /\ truth' = truth
      BY <1>2, <2>4 DEF CompleteRetention, JobsOK, Busy, Phases
    <3>2. truth # Protected /\ truth # Cleaned
      BY <2>4, <3>1 DEF TruthIsBacked, Peers
    <3> QED
      BY <3>1, <3>2 DEF TruthIsBacked
  <2> QED
    BY <2>3, <2>4
<1> QED
  BY <1>1, <1>2

LEMMA NextTruth == TypeOK /\ JobsOK /\ TruthIsBacked /\ [Next]_vars => TruthIsBacked'
<1> SUFFICES ASSUME TypeOK, JobsOK, TruthIsBacked, [Next]_vars PROVE TruthIsBacked'
  OBVIOUS
<1> USE DEF databaseVars
<1>1. ASSUME UNCHANGED <<copies, truth>> PROVE TruthIsBacked'
  BY <1>1 DEF TruthIsBacked
<1>2. ASSUME truth' = RepairRequired PROVE TruthIsBacked'
  BY <1>2, TruthsDiffer DEF TruthIsBacked
<1>3. ASSUME NEW w \in Workers, Claim(w) PROVE TruthIsBacked'
  BY <1>1, <1>2, <1>3
     DEF Claim, RunBatch, Look, ClaimRepair, ClaimRetention, RetentionBlocked,
         NothingToClaim, ClaimFails
<1>4. ASSUME NEW w \in Workers, ProcessRepair(w) PROVE TruthIsBacked'
  BY <1>1, <1>2, <1>4, EndingKeepsTruth
     DEF ProcessRepair, VerifyTarget, Verify, ClearTarget, OpenSource, PutObject, HeadObject,
         VerifyRaced, Undo, VerifyWritten, FailRepair
<1>5. ASSUME NEW w \in Workers, ProcessRetention(w) PROVE TruthIsBacked'
  BY <1>1, <1>2, <1>5, EndingKeepsTruth
     DEF ProcessRetention, VerifyGuard, Invalidate, DeletePrimary, FailRetention
<1>6. ASSUME NEW w \in Workers, RecordingFails(w) \/ FailureIsLost(w) \/ Crash(w)
      PROVE  TruthIsBacked'
  BY <1>1, <1>6 DEF RecordingFails, FailureIsLost, Crash
<1>7. ASSUME NEW t \in Targets, Deactivate(t) PROVE TruthIsBacked'
  BY <1>1, <1>7 DEF Deactivate
<1>8. CASE Tick
  BY <1>1, <1>8 DEF Tick
<1>9. CASE UNCHANGED vars
  BY <1>1, <1>9 DEF vars
<1> QED
  BY <1>3, <1>4, <1>5, <1>6, <1>7, <1>8, <1>9 DEF Next, Work

(* An object recorded as protected has all its copies verified, and one      *)
(* recorded as cleaned has a verified replica and no primary: through races, *)
(* lost leases, stale workers, and the repair and the retention at once.     *)
THEOREM TruthIsBackedHolds == Spec => []TruthIsBacked
<1>1. TypeOK /\ BatchOK /\ JobsOK /\ TruthIsBacked /\ [Next]_vars => TruthIsBacked'
  BY NextTruth
<1> QED
  BY <1>1, InitTruth, BasicsHold, PTL DEF Spec

-----------------------------------------------------------------------------
(* What one step makes of one worker.                                        *)

(* Nothing of this worker changes.                                           *)
Keeps(v) ==
  /\ phase'[v] = phase[v] /\ now'[v] = now[v] /\ job'[v] = job[v]
  /\ attempt'[v] = attempt[v] /\ unchecked'[v] = unchecked[v]

(* It begins a batch, looks for a job, takes one, goes on with it, or is     *)
(* without a job again.                                                      *)
Begins(w) ==
  /\ phase[w] = "idle" /\ phase'[w] = "next" /\ now'[w] = clock
  /\ unchecked'[w] = unchecked[w] /\ UNCHANGED <<databaseVars, stored>>

Looks(w) ==
  /\ phase[w] = "next" /\ phase'[w] = "looking" /\ now'[w] = now[w]
  /\ unchecked'[w] = unchecked[w] /\ UNCHANGED <<databaseVars, stored>>

TakesJob(w) ==
  /\ ClaimRepair(w) \/ ClaimRetention(w)
  /\ phase'[w] = (IF w \in Repairers THEN "claimed" ELSE "guarding")
  /\ now'[w] = now[w] /\ UNCHANGED <<copies, truth, active, stored>>
  /\ \E t \in Targets : TakeJob(w, t) /\ job'[w] = t /\ attempt'[w] = Len(attempts[t]) + 1

GoesOn(w) ==
  /\ phase[w] \in Busy /\ phase'[w] \in Busy
  /\ now'[w] = now[w] /\ job'[w] = job[w] /\ attempt'[w] = attempt[w]
  /\ UNCHANGED databaseVars

Rests(w) ==
  /\ phase[w] # "idle" /\ phase'[w] \in {"idle", "next"}
  /\ phase'[w] = "next" => now'[w] = now[w]
  /\ now'[w] \in {0, now[w]} /\ unchecked'[w] = {}
  /\ UNCHANGED stored

LEMMA ContinueRests ==
  ASSUME TypeOK, NEW w \in Workers, Continue(w) \/ EndBatch(w)
  PROVE  /\ phase'[w] \in {"idle", "next"} /\ unchecked'[w] = {}
         /\ phase'[w] = "next" => now'[w] = now[w]
         /\ now'[w] \in {0, now[w]}
         /\ \A v \in Workers \ {w} : Keeps(v)
<1>1. CASE EndBatch(w)
  BY <1>1 DEF EndBatch, Forget, Move, TypeOK, Keeps
<1>2. CASE Move(w, "next") /\ Forget(w) /\ UNCHANGED batchVars
  BY <1>2 DEF Forget, Move, TypeOK, Keeps, batchVars
<1> QED
  BY <1>1, <1>2 DEF Continue

(* The steps of a worker that has no job yet.                                *)
LEMMA ClaimSteps ==
  ASSUME TypeOK, NEW w \in Workers, Claim(w)
  PROVE  /\ \A v \in Workers \ {w} : Keeps(v)
         /\ Begins(w) \/ Looks(w) \/ TakesJob(w) \/ Rests(w)
<1> USE DEF databaseVars, batchVars, jobVars
<1>1. CASE RunBatch(w)
  BY <1>1 DEF RunBatch, Move, TypeOK, Keeps, Begins
<1>2. CASE Look(w)
  BY <1>2 DEF Look, Move, TypeOK, Keeps, Looks
<1>3. CASE ClaimRepair(w)
  <2>1. PICK t \in Targets : TakeJob(w, t)
    BY <1>3 DEF ClaimRepair, Peers
  <2>2. w \in Repairers /\ Move(w, "claimed") /\ UNCHANGED <<copies, truth, active, stored, now, unchecked>>
    BY <1>3 DEF ClaimRepair
  <2> QED
    BY <1>3, <2>1, <2>2 DEF TakeJob, Move, TypeOK, Keeps, TakesJob
<1>4. CASE ClaimRetention(w)
  <2>1. TakeJob(w, Primary) /\ Primary \in Targets /\ w \notin Repairers
    BY <1>4, TargetsAssumption, ProtectionAssumption DEF ClaimRetention
  <2>2. /\ Move(w, "guarding") /\ unchecked' = [unchecked EXCEPT ![w] = Guards]
        /\ UNCHANGED <<copies, truth, active, stored, now>>
    BY <1>4 DEF ClaimRetention
  <2> QED
    BY <1>4, <2>1, <2>2 DEF TakeJob, Move, TypeOK, Keeps, TakesJob
<1>5. CASE RetentionBlocked(w) \/ NothingToClaim(w) \/ ClaimFails(w)
  <2>1. /\ phase[w] = "looking" /\ UNCHANGED stored
        /\ Continue(w) \/ EndBatch(w)
    BY <1>5 DEF RetentionBlocked, NothingToClaim, ClaimFails
  <2> QED
    BY <1>5, <2>1, ContinueRests DEF Rests, RetentionBlocked, NothingToClaim, ClaimFails
<1> QED
  BY <1>1, <1>2, <1>3, <1>4, <1>5 DEF Claim

(* The steps of a worker with a job.                                         *)
LEMMA JobSteps ==
  ASSUME TypeOK, JobsOK, NEW w \in Workers,
         ProcessRepair(w) \/ ProcessRetention(w) \/ RecordingFails(w) \/ FailureIsLost(w)
  PROVE  /\ \A v \in Workers \ {w} : Keeps(v)
         /\ GoesOn(w) \/ Rests(w)
<1> USE DEF databaseVars, batchVars, jobVars, Busy, Phases
<1>1. ASSUME \/ VerifyTarget(w) \/ ClearTarget(w) \/ OpenSource(w) \/ PutObject(w)
             \/ HeadObject(w) \/ VerifyRaced(w) \/ Undo(w) \/ VerifyWritten(w)
      PROVE  (\A v \in Workers \ {w} : Keeps(v)) /\ GoesOn(w)
  <2>1. /\ phase[w] \in Busy /\ phase'[w] \in Busy
        /\ \A v \in Workers \ {w} : phase'[v] = phase[v]
        /\ UNCHANGED <<copies, truth, attempts, job, attempt>>
    BY <1>1, RepairIsTyped
  <2>2. UNCHANGED <<now, unchecked>>
    BY <1>1 DEF VerifyTarget, VerifyWritten, Verify, ClearTarget, OpenSource, PutObject,
                HeadObject, VerifyRaced, Undo
  <2> QED
    BY <2>1, <2>2 DEF Keeps, GoesOn
<1>2. ASSUME VerifyGuard(w) \/ DeletePrimary(w)
      PROVE  (\A v \in Workers \ {w} : Keeps(v)) /\ GoesOn(w)
  <2>1. /\ phase[w] \in Busy /\ phase'[w] \in Busy
        /\ \A v \in Workers \ {w} : phase'[v] = phase[v]
        /\ UNCHANGED <<copies, truth, attempts, job, attempt>>
    BY <1>2, RetentionIsTyped
  <2>2. /\ UNCHANGED now
        /\ \A v \in Workers \ {w} : unchecked'[v] = unchecked[v]
    BY <1>2 DEF VerifyGuard, DeletePrimary, TypeOK
  <2> QED
    BY <2>1, <2>2 DEF Keeps, GoesOn
<1>3. ASSUME RecordingFails(w)
      PROVE  (\A v \in Workers \ {w} : Keeps(v)) /\ GoesOn(w)
  BY <1>3 DEF RecordingFails, Fail, Move, TypeOK, Keeps, GoesOn
<1>4. ASSUME \/ CompleteRepair(w) \/ FailRepair(w) \/ Invalidate(w) \/ CompleteRetention(w)
             \/ FailRetention(w) \/ FailureIsLost(w)
      PROVE  (\A v \in Workers \ {w} : Keeps(v)) /\ Rests(w)
  <2>1. phase[w] # "idle" /\ Continue(w) /\ UNCHANGED stored
    BY <1>4 DEF CompleteRepair, FailRepair, Invalidate, CompleteRetention, FailRetention,
                FailureIsLost
  <2> QED
    BY <2>1, ContinueRests DEF Rests
<1> QED
  BY <1>1, <1>2, <1>3, <1>4 DEF ProcessRepair, ProcessRetention

LEMMA WorkerSteps ==
  ASSUME TypeOK, JobsOK, NEW w \in Workers, Work(w) \/ Crash(w)
  PROVE  /\ \A v \in Workers \ {w} : Keeps(v)
         /\ Begins(w) \/ Looks(w) \/ TakesJob(w) \/ GoesOn(w) \/ Rests(w)
         /\ UNCHANGED <<active, clock>>
<1>1. CASE Crash(w)
  BY <1>1, ContinueRests DEF Crash, Rests
<1>2. CASE Claim(w)
  <2>1. UNCHANGED <<active, clock>>
    BY <1>2 DEF Claim, RunBatch, Look, ClaimRepair, ClaimRetention, RetentionBlocked,
                NothingToClaim, ClaimFails
  <2> QED
    BY <1>2, <2>1, ClaimSteps
<1>3. CASE ProcessRepair(w) \/ ProcessRetention(w) \/ RecordingFails(w) \/ FailureIsLost(w)
  <2>1. ProcessRepair(w) => UNCHANGED <<active, clock>>
    BY DEF ProcessRepair, VerifyTarget, VerifyWritten, Verify, ClearTarget, OpenSource,
           PutObject, HeadObject, VerifyRaced, Undo, CompleteRepair, FailRepair
  <2>2. ProcessRetention(w) => UNCHANGED <<active, clock>>
    BY DEF ProcessRetention, VerifyGuard, DeletePrimary, Invalidate, CompleteRetention,
           FailRetention
  <2>3. RecordingFails(w) \/ FailureIsLost(w) => UNCHANGED <<active, clock>>
    BY DEF RecordingFails, FailureIsLost
  <2> QED
    BY <1>3, <2>1, <2>2, <2>3, JobSteps
<1> QED
  BY <1>1, <1>2, <1>3 DEF Work

(* The other steps leave the workers and the database alone.                 *)
LEMMA SurroundingSteps ==
  ASSUME TypeOK, [Next]_vars
  PROVE  \/ \E w \in Workers : Work(w) \/ Crash(w)
         \/ /\ \A v \in Workers : Keeps(v)
            /\ active' \subseteq active /\ UNCHANGED <<databaseVars, stored>>
            /\ clock' = clock \/ Tick
<1>1. ASSUME NEW t \in Targets, Deactivate(t)
      PROVE  /\ \A v \in Workers : Keeps(v)
             /\ active' \subseteq active /\ UNCHANGED <<databaseVars, stored, clock>>
  BY <1>1 DEF Deactivate, batchVars, jobVars, Keeps
<1>2. ASSUME Tick
      PROVE  /\ \A v \in Workers : Keeps(v)
             /\ active' \subseteq active /\ UNCHANGED <<databaseVars, stored>>
  BY <1>2 DEF Tick, batchVars, jobVars, Keeps
<1>3. ASSUME UNCHANGED vars
      PROVE  /\ \A v \in Workers : Keeps(v)
             /\ active' \subseteq active /\ UNCHANGED <<databaseVars, stored, clock>>
  BY <1>3 DEF vars, databaseVars, batchVars, jobVars, Keeps
<1> QED
  BY <1>1, <1>2, <1>3 DEF Next

-----------------------------------------------------------------------------
(* Which worker is in which phase.                                           *)

RepairPhases == {"claimed", "clearing", "reading", "writing", "racing", "undoing", "checking"}

(* Repairs work on replicas, retentions on the primary; what a retention has *)
(* yet to verify are replicas, and it has found one when it invalidates.     *)
Places ==
  \A w \in Workers :
    /\ phase[w] \in RepairPhases => w \in Repairers
    /\ phase[w] \in {"guarding", "invalidating"} => w \in Retainers
    /\ phase[w] \in Busy /\ w \in Repairers => job[w] \in Peers
    /\ unchecked[w] \subseteq Peers
    /\ phase[w] = "invalidating" => unchecked[w] # {}

(* A repair at the providers ends in one of the two transactions.            *)
LEMMA RepairPlaces ==
  ASSUME TypeOK, JobsOK, NEW w \in Workers,
         \/ VerifyTarget(w) \/ ClearTarget(w) \/ OpenSource(w) \/ PutObject(w)
         \/ HeadObject(w) \/ VerifyRaced(w) \/ Undo(w) \/ VerifyWritten(w)
  PROVE  /\ phase[w] \in RepairPhases
         /\ phase'[w] \in RepairPhases \cup {"completing", "failing"}
         /\ unchecked' = unchecked
<1> USE DEF RepairPhases
<1>1. ASSUME NEW t \in Targets PROVE Seen(t) \subseteq {"exact", "wrong", "absent", "unreadable"}
  BY DEF Seen, TypeOK, Bytes, Contents
<1>2. phase[w] \in RepairPhases
  BY DEF VerifyTarget, ClearTarget, OpenSource, PutObject, HeadObject, VerifyRaced, Undo,
         VerifyWritten
<1>3. job[w] \in Targets
  BY <1>2 DEF JobsOK, Busy, Phases
<1>4. \E to \in RepairPhases \cup {"completing", "failing"} : Move(w, to)
  <2>1. CASE VerifyTarget(w)
    BY <1>1, <1>3, <2>1 DEF VerifyTarget, Verify
  <2>2. CASE VerifyWritten(w)
    BY <1>1, <1>3, <2>2 DEF VerifyWritten, Verify
  <2>3. CASE ClearTarget(w)
    BY <2>3 DEF ClearTarget, Delete, Fail
  <2>4. CASE OpenSource(w)
    BY <2>4 DEF OpenSource, Fail
  <2>5. CASE PutObject(w)
    BY <2>5 DEF PutObject
  <2>6. CASE HeadObject(w)
    BY <2>6 DEF HeadObject, CheckMirror
  <2>7. CASE VerifyRaced(w)
    BY <2>7 DEF VerifyRaced, Fail, CheckMirror
  <2>8. CASE Undo(w)
    BY <2>8 DEF Undo
  <2> QED
    BY <2>1, <2>2, <2>3, <2>4, <2>5, <2>6, <2>7, <2>8
<1>5. unchecked' = unchecked
  BY DEF VerifyTarget, VerifyWritten, Verify, ClearTarget, OpenSource, PutObject, HeadObject,
         VerifyRaced, Undo, jobVars
<1> QED
  BY <1>2, <1>4, <1>5 DEF Move, TypeOK

(* And so does a retention.                                                  *)
LEMMA RetentionPlaces ==
  ASSUME TypeOK, NEW w \in Workers, VerifyGuard(w) \/ DeletePrimary(w)
  PROVE  /\ phase[w] = "guarding"
         /\ phase'[w] \in {"guarding", "invalidating", "completing", "failing"}
         /\ unchecked'[w] \subseteq unchecked[w]
         /\ phase'[w] = "invalidating" => unchecked'[w] # {}
<1>1. CASE VerifyGuard(w)
  <2>1. PICK t \in unchecked[w] :
          \/ /\ unchecked' = [unchecked EXCEPT ![w] = @ \ {t}]
             /\ UNCHANGED phase
          \/ /\ unchecked' = [unchecked EXCEPT ![w] = {t}]
             /\ Move(w, "invalidating")
          \/ /\ Move(w, "failing")
             /\ UNCHANGED unchecked
    BY <1>1 DEF VerifyGuard, Fail
  <2>2. phase[w] = "guarding" /\ w \in DOMAIN phase /\ w \in DOMAIN unchecked
    BY <1>1 DEF VerifyGuard, TypeOK
  <2>3. \/ unchecked'[w] = unchecked[w] \ {t} /\ phase'[w] = "guarding"
        \/ unchecked'[w] = {t} /\ phase'[w] = "invalidating"
        \/ unchecked'[w] = unchecked[w] /\ phase'[w] = "failing"
    BY <2>1, <2>2 DEF Move
  <2> QED
    BY <2>1, <2>2, <2>3
<1>2. CASE DeletePrimary(w)
  BY <1>2 DEF DeletePrimary, Delete, Fail, Move, TypeOK
<1> QED
  BY <1>1, <1>2

LEMMA GoingOnKeepsPlaces ==
  ASSUME TypeOK, JobsOK, Places, NEW w \in Workers,
         ProcessRepair(w) \/ ProcessRetention(w) \/ RecordingFails(w) \/ FailureIsLost(w)
  PROVE  \/ Rests(w)
         \/ /\ phase[w] \in RepairPhases => phase'[w] \in RepairPhases \cup {"completing", "failing"}
            /\ phase[w] = "guarding" => phase'[w] \in {"guarding", "invalidating", "completing", "failing"}
            /\ phase[w] \in {"completing", "invalidating"} => phase'[w] = "failing"
            /\ phase[w] \in RepairPhases \cup {"guarding", "completing", "invalidating"}
            /\ unchecked'[w] \subseteq unchecked[w]
            /\ phase'[w] = "invalidating" => unchecked'[w] # {}
            /\ job'[w] = job[w]
<1>1. CASE \/ VerifyTarget(w) \/ ClearTarget(w) \/ OpenSource(w) \/ PutObject(w)
           \/ HeadObject(w) \/ VerifyRaced(w) \/ Undo(w) \/ VerifyWritten(w)
  BY <1>1, RepairPlaces, RepairIsTyped DEF RepairPhases
<1>2. CASE VerifyGuard(w) \/ DeletePrimary(w)
  BY <1>2, RetentionPlaces, RetentionIsTyped DEF RepairPhases
<1>3. CASE RecordingFails(w)
  BY <1>3 DEF RecordingFails, Fail, Move, TypeOK, RepairPhases
<1>4. CASE \/ CompleteRepair(w) \/ FailRepair(w) \/ Invalidate(w) \/ CompleteRetention(w)
           \/ FailRetention(w) \/ FailureIsLost(w)
  <2>1. phase[w] # "idle" /\ Continue(w) /\ UNCHANGED stored
    BY <1>4 DEF CompleteRepair, FailRepair, Invalidate, CompleteRetention, FailRetention,
                FailureIsLost
  <2> QED
    BY <2>1, ContinueRests DEF Rests
<1> QED
  BY <1>1, <1>2, <1>3, <1>4 DEF ProcessRepair, ProcessRetention

LEMMA NextPlaces == TypeOK /\ JobsOK /\ Places /\ [Next]_vars => Places'
<1> SUFFICES ASSUME TypeOK, JobsOK, Places, [Next]_vars PROVE Places'
  OBVIOUS
<1> DEFINE InPlace(v) ==
             /\ phase'[v] \in RepairPhases => v \in Repairers
             /\ phase'[v] \in {"guarding", "invalidating"} => v \in Retainers
             /\ phase'[v] \in Busy /\ v \in Repairers => job'[v] \in Peers
             /\ unchecked'[v] \subseteq Peers
             /\ phase'[v] = "invalidating" => unchecked'[v] # {}
<1>1. ASSUME NEW v \in Workers, Keeps(v) PROVE InPlace(v)
  BY <1>1 DEF Keeps, Places
<1>2. ASSUME NEW w \in Workers, Begins(w) \/ Looks(w) \/ Rests(w) PROVE InPlace(w)
  BY <1>2 DEF Begins, Looks, Rests, Places, RepairPhases, Busy
<1>3. ASSUME NEW w \in Workers, ClaimRepair(w) PROVE InPlace(w)
  <2>1. PICK t \in Peers : TakeJob(w, t)
    BY <1>3 DEF ClaimRepair
  <2> QED
    BY <1>3, <2>1, ProtectionAssumption
       DEF ClaimRepair, TakeJob, Move, TypeOK, Places, RepairPhases, Busy, Phases
<1>4. ASSUME NEW w \in Workers, ClaimRetention(w) PROVE InPlace(w)
  <2>1. Guards \subseteq Peers
    BY DEF Guards
  <2>2. /\ w \in Retainers /\ phase'[w] = "guarding" /\ unchecked'[w] = Guards
        /\ w \notin Repairers
    BY <1>4, ProtectionAssumption DEF ClaimRetention, Move, TypeOK
  <2> QED
    BY <2>1, <2>2 DEF RepairPhases
<1>5. ASSUME NEW w \in Workers, Claim(w) PROVE InPlace(w)
  BY <1>2, <1>3, <1>4, <1>5, ClaimSteps DEF TakesJob
<1>6. ASSUME NEW w \in Workers,
             ProcessRepair(w) \/ ProcessRetention(w) \/ RecordingFails(w) \/ FailureIsLost(w)
      PROVE  InPlace(w)
  <2>1. CASE Rests(w)
    BY <1>2, <2>1
  <2>2. CASE ~Rests(w)
    BY <1>6, <2>2, GoingOnKeepsPlaces DEF Places, RepairPhases, Busy, Phases
  <2> QED
    BY <2>1, <2>2
<1>7. ASSUME NEW w \in Workers, Crash(w) PROVE InPlace(w)
  BY <1>2, <1>7, ContinueRests DEF Crash, Rests
<1>8. ASSUME NEW v \in Workers PROVE InPlace(v)
  <2>1. CASE \A u \in Workers : Keeps(u)
    BY <1>1, <2>1
  <2>2. ASSUME NEW w \in Workers, Work(w) \/ Crash(w) PROVE InPlace(v)
    <3>1. v # w => InPlace(v)
      BY <1>1, <2>2, WorkerSteps
    <3>2. InPlace(w)
      BY <1>5, <1>6, <1>7, <2>2 DEF Work
    <3> QED
      BY <3>1, <3>2
  <2> QED
    BY <2>1, <2>2, SurroundingSteps
<1> QED
  BY <1>8 DEF Places

-----------------------------------------------------------------------------
(* Leases. As long as no worker has outlived its lease and no claim raced    *)
(* another, a worker with a job holds the last attempt of its copy, in       *)
(* progress and not yet due, and is the only one at that copy.               *)

NowInPast == \A w \in Workers : now[w] <= clock

LeaseRuns == \A w \in Workers : phase[w] # "idle" => clock < now[w] + LeaseDuration

HoldsLease ==
  \A w \in Workers :
    phase[w] \in Busy => attempts[job[w]][attempt[w]] = InProgress(now[w] + LeaseDuration)

Alone ==
  \A v, w \in Workers :
    phase[v] \in Busy /\ phase[w] \in Busy /\ job[v] = job[w] => v = w

LeaseInv == NowInPast /\ (Exclusive => LeaseRuns /\ HoldsLease /\ Alone)

(* What a worker with a job finds at its copy.                               *)
LEMMA LeaseIsLast ==
  ASSUME TypeOK, JobsOK, LiveIsLast, LeaseInv, Exclusive,
         NEW v \in Workers, phase[v] \in Busy
  PROVE  /\ Owns(v) /\ attempt[v] \in Live(job[v])
         /\ attempt[v] = Len(attempts[job[v]]) /\ attempts[job[v]] # <<>>
         /\ Last(attempts[job[v]]).due \in Nat /\ Last(attempts[job[v]]).due > clock
<1> DEFINE list == attempts[job[v]]
<1>1. /\ job[v] \in Targets /\ list \in Seq(Attempts) /\ Len(list) \in Nat
      /\ DOMAIN list = 1 .. Len(list) /\ attempt[v] \in 1 .. Len(list)
  BY LenProperties DEF TypeOK, JobsOK
<1>2. list[attempt[v]] = InProgress(now[v] + LeaseDuration) /\ clock < now[v] + LeaseDuration
  BY DEF LeaseInv, LeaseRuns, HoldsLease, Busy
<1>3. list[attempt[v]].state = "in_progress" /\ list[attempt[v]].due = now[v] + LeaseDuration
  BY <1>2 DEF InProgress
<1>4. attempt[v] \in Live(job[v])
  BY <1>1, <1>3 DEF Live
<1>5. attempt[v] = Len(list)
  BY <1>1, <1>4 DEF LiveIsLast, Exclusive
<1>6. now[v] + LeaseDuration \in Nat /\ clock \in Nat
  BY ProtectionAssumption DEF TypeOK
<1> QED
  BY <1>1, <1>2, <1>3, <1>4, <1>5, <1>6 DEF Last, Owns

(* No copy with a worker at it can be claimed.                               *)
LEMMA ClaimFindsNobody ==
  ASSUME TypeOK, JobsOK, LiveIsLast, LeaseInv, Exclusive, Exclusive',
         NEW w \in Workers, NEW t \in Targets, TakeJob(w, t), NEW v \in Workers, phase[v] \in Busy
  PROVE  job[v] # t
<1> SUFFICES ASSUME job[v] = t PROVE FALSE
  OBVIOUS
<1>1. /\ attempts[t] # <<>> /\ Last(attempts[t]).due > clock
      /\ Last(attempts[t]).due \in Nat
  BY LeaseIsLast
<1>2. RetryEligible(t, now[w])
  BY DEF TakeJob, Disturb, Exclusive
<1>3. Last(attempts[t]).due <= now[w] /\ now[w] <= clock /\ now[w] \in Nat /\ clock \in Nat
  BY <1>1, <1>2 DEF RetryEligible, LeaseInv, NowInPast, TypeOK
<1> QED
  BY <1>1, <1>3

(* What a worker does to the attempts, as the workers at other copies see it.*)
LEMMA AttemptsOfWorker ==
  ASSUME TypeOK, JobsOK, NEW w \in Workers, Work(w) \/ Crash(w)
  PROVE  \/ UNCHANGED attempts
         \/ RetentionBlocked(w)
         \/ \E t \in Targets : TakeJob(w, t)
         \/ /\ phase[w] \in Busy /\ Rests(w)
            /\ \A t \in Targets \ {job[w]} : attempts'[t] = attempts[t]
<1> USE DEF databaseVars
<1>1. ASSUME Claim(w)
      PROVE  \/ UNCHANGED attempts \/ RetentionBlocked(w)
             \/ \E t \in Targets : TakeJob(w, t)
  BY <1>1, TargetsAssumption DEF Claim, RunBatch, Look, ClaimRepair, ClaimRetention, NothingToClaim, ClaimFails, Peers
<1>2. ASSUME \/ CompleteRepair(w) \/ FailRepair(w) \/ Invalidate(w) \/ CompleteRetention(w)
             \/ FailRetention(w)
      PROVE  /\ phase[w] \in Busy /\ Rests(w)
             /\ \A t \in Targets \ {job[w]} : attempts'[t] = attempts[t]
  <2>1. phase[w] \in Busy /\ Continue(w) /\ UNCHANGED stored
    BY <1>2 DEF CompleteRepair, FailRepair, Invalidate, CompleteRetention, FailRetention,
                Busy, Phases
  <2>2. \E outcome : EndAttempt(w, outcome)
    BY <1>2 DEF CompleteRepair, FailRepair, Invalidate, CompleteRetention, FailRetention
  <2> QED
    BY <2>1, <2>2, ContinueRests DEF Rests, EndAttempt, TypeOK, Busy
<1>3. ASSUME \/ VerifyTarget(w) \/ ClearTarget(w) \/ OpenSource(w) \/ PutObject(w)
             \/ HeadObject(w) \/ VerifyRaced(w) \/ Undo(w) \/ VerifyWritten(w)
             \/ VerifyGuard(w) \/ DeletePrimary(w)
      PROVE  UNCHANGED attempts
  BY <1>3, RepairIsTyped, RetentionIsTyped
<1>4. ASSUME RecordingFails(w) \/ FailureIsLost(w) \/ Crash(w) PROVE UNCHANGED attempts
  BY <1>4 DEF RecordingFails, FailureIsLost, Crash
<1> QED
  BY <1>1, <1>2, <1>3, <1>4 DEF Work, ProcessRepair, ProcessRetention

(* Nobody ends the lease of another one that runs.                           *)
LEMMA OthersKeepLease ==
  ASSUME TypeOK, JobsOK, LiveIsLast, LeaseInv, Exclusive, Exclusive',
         NEW w \in Workers, Work(w) \/ Crash(w), NEW v \in Workers \ {w}, phase[v] \in Busy
  PROVE  attempts'[job[v]][attempt[v]] = attempts[job[v]][attempt[v]]
<1> DEFINE u == job[v]
<1>1. u \in Targets /\ attempts[u] \in Seq(Attempts) /\ attempt[v] \in 1 .. Len(attempts[u])
      /\ DOMAIN attempts[u] = 1 .. Len(attempts[u])
  BY LenProperties DEF TypeOK, JobsOK
<1>2. CASE UNCHANGED attempts
  BY <1>2
<1>3. CASE RetentionBlocked(w)
  <2>1. attempts' = [attempts EXCEPT ![Primary] = Expire(attempts[Primary], now[w])]
    BY <1>3 DEF RetentionBlocked
  <2>2. /\ attempts[u][attempt[v]] = InProgress(now[v] + LeaseDuration)
        /\ clock < now[v] + LeaseDuration /\ now[w] <= clock
    BY DEF LeaseInv, HoldsLease, LeaseRuns, NowInPast, Busy
  <2>3. attempts[u][attempt[v]].due = now[v] + LeaseDuration
    BY <2>2 DEF InProgress
  <2>4. now[v] + LeaseDuration \in Nat /\ now[w] \in Nat /\ clock \in Nat
    BY ProtectionAssumption DEF TypeOK
  <2>5. ~(attempts[u][attempt[v]].due <= now[w])
    BY <2>2, <2>3, <2>4
  <2>6. Expire(attempts[u], now[w])[attempt[v]] = attempts[u][attempt[v]]
    BY <1>1, <2>5 DEF Expire
  <2> QED
    BY <1>1, <2>1, <2>6 DEF TypeOK
<1>4. ASSUME NEW t \in Targets, TakeJob(w, t)
      PROVE  attempts'[job[v]][attempt[v]] = attempts[job[v]][attempt[v]]
  <2>1. t # u
    BY <1>4, ClaimFindsNobody
  <2> QED
    BY <1>1, <1>4, <2>1 DEF TakeJob, TypeOK
<1>5. CASE phase[w] \in Busy /\ \A t \in Targets \ {job[w]} : attempts'[t] = attempts[t]
  <2>1. job[w] # u
    BY <1>5 DEF LeaseInv, Alone
  <2> QED
    BY <1>1, <1>5, <2>1
<1> QED
  BY <1>2, <1>3, <1>4, <1>5, AttemptsOfWorker

LEMMA TakenAttempt ==
  ASSUME TypeOK, NEW w \in Workers, NEW t \in Targets, TakeJob(w, t)
  PROVE  attempts'[t][Len(attempts[t]) + 1] = InProgress(now[w] + LeaseDuration)
<1>1. attempts[t] \in Seq(Attempts) /\ now[w] \in Nat
  BY DEF TypeOK
<1>2. /\ Expire(attempts[t], now[w]) \in Seq(Attempts)
      /\ Len(Expire(attempts[t], now[w])) = Len(attempts[t])
  BY <1>1, ExpireKeeps
<1>3. InProgress(now[w] + LeaseDuration) \in Attempts
  BY OutcomesAreTyped
<1>4. attempts'[t] = Append(Expire(attempts[t], now[w]), InProgress(now[w] + LeaseDuration))
  BY DEF TakeJob, TypeOK
<1> QED
  BY <1>2, <1>3, <1>4, AppendProperties

LEMMA InitLeaseInv == Init => LeaseInv
  BY DEF Init, LeaseInv, NowInPast, LeaseRuns, HoldsLease, Alone, Busy

(* A step of one worker.                                                     *)
LEMMA WorkKeepsLeases ==
  ASSUME TypeOK, JobsOK, LiveIsLast, LeaseInv, Exclusive, Exclusive',
         NEW w \in Workers, Work(w) \/ Crash(w)
  PROVE  LeaseRuns' /\ HoldsLease' /\ Alone'
<1>1. /\ \A v \in Workers \ {w} : Keeps(v)
      /\ Begins(w) \/ Looks(w) \/ TakesJob(w) \/ GoesOn(w) \/ Rests(w)
      /\ clock' = clock
  BY WorkerSteps
<1>2. NowInPast /\ LeaseRuns /\ HoldsLease /\ Alone
  BY DEF LeaseInv
<1>3. phase'[w] \in Busy => TakesJob(w) \/ GoesOn(w)
  BY <1>1 DEF Begins, Looks, Rests, Busy
<1>4. TakesJob(w) => phase[w] = "looking"
  BY DEF TakesJob, ClaimRepair, ClaimRetention
<1>5. LeaseRuns'
  <2>1. ASSUME NEW v \in Workers, phase'[v] # "idle" PROVE clock < now'[v] + LeaseDuration
    <3>1. CASE Begins(w) /\ v = w
      BY <3>1, ProtectionAssumption DEF Begins, TypeOK
    <3>2. CASE ~(Begins(w) /\ v = w)
      <4>1. phase[v] # "idle" /\ now'[v] = now[v]
        BY <1>1, <1>4, <2>1, <3>2 DEF Keeps, Looks, TakesJob, GoesOn, Rests, Busy
      <4> QED
        BY <1>2, <4>1 DEF LeaseRuns
    <3> QED
      BY <3>1, <3>2
  <2> QED
    BY <1>1, <2>1 DEF LeaseRuns
<1>6. HoldsLease'
  <2>1. ASSUME NEW v \in Workers, phase'[v] \in Busy
        PROVE  attempts'[job'[v]][attempt'[v]] = InProgress(now'[v] + LeaseDuration)
    <3>1. CASE v # w
      <4>1. /\ phase[v] \in Busy /\ now'[v] = now[v]
            /\ job'[v] = job[v] /\ attempt'[v] = attempt[v]
        BY <1>1, <2>1, <3>1 DEF Keeps
      <4> QED
        BY <1>2, <3>1, <4>1, OthersKeepLease DEF HoldsLease
    <3>2. CASE v = w /\ TakesJob(w)
      <4>1. PICK t \in Targets :
              TakeJob(w, t) /\ job'[w] = t /\ attempt'[w] = Len(attempts[t]) + 1
        BY <3>2 DEF TakesJob
      <4>2. now'[w] = now[w]
        BY <3>2 DEF TakesJob
      <4> QED
        BY <3>2, <4>1, <4>2, TakenAttempt
    <3>3. CASE v = w /\ GoesOn(w)
      <4>1. /\ phase[w] \in Busy /\ now'[w] = now[w] /\ job'[w] = job[w]
            /\ attempt'[w] = attempt[w] /\ attempts' = attempts
        BY <3>3 DEF GoesOn, databaseVars
      <4> QED
        BY <1>2, <3>3, <4>1 DEF HoldsLease
    <3> QED
      BY <1>3, <2>1, <3>1, <3>2, <3>3
  <2> QED
    BY <2>1 DEF HoldsLease, Busy
<1>7. Alone'
  <2>1. ASSUME NEW v \in Workers \ {w}, phase'[v] \in Busy, phase'[w] \in Busy
        PROVE  job'[v] # job'[w]
    <3>1. phase[v] \in Busy /\ job'[v] = job[v]
      BY <1>1, <2>1 DEF Keeps
    <3>2. CASE TakesJob(w)
      BY <3>1, <3>2, ClaimFindsNobody DEF TakesJob
    <3>3. CASE GoesOn(w)
      BY <1>2, <3>1, <3>3 DEF GoesOn, Alone
    <3> QED
      BY <1>3, <2>1, <3>2, <3>3
  <2>2. ASSUME NEW u \in Workers \ {w}, NEW v \in Workers \ {w},
               phase'[u] \in Busy, phase'[v] \in Busy, job'[u] = job'[v]
        PROVE  u = v
    BY <1>1, <1>2, <2>2 DEF Keeps, Alone
  <2>3. ASSUME NEW u \in Workers, NEW v \in Workers,
               phase'[u] \in Busy, phase'[v] \in Busy, job'[u] = job'[v]
        PROVE  u = v
    BY <2>1, <2>2, <2>3
  <2> QED
    BY <2>3 DEF Alone, Busy
<1> QED
  BY <1>5, <1>6, <1>7

LEMMA NextLeaseInv == TypeOK /\ JobsOK /\ LiveIsLast /\ LeaseInv /\ [Next]_vars => LeaseInv'
<1> SUFFICES ASSUME TypeOK, JobsOK, LiveIsLast, LeaseInv, [Next]_vars PROVE LeaseInv'
  OBVIOUS
<1>1. seen \subseteq seen' /\ (Exclusive' => Exclusive)
  BY NextAttemptsStep DEF AttemptsStep, Exclusive
<1>2. clock \in Nat /\ \A v \in Workers : now[v] \in Nat
  BY DEF TypeOK
<1>3. NowInPast /\ (Exclusive => LeaseRuns /\ HoldsLease /\ Alone)
  BY DEF LeaseInv
<1>4. ASSUME NEW w \in Workers, Work(w) \/ Crash(w) PROVE LeaseInv'
  <2>1. /\ \A v \in Workers \ {w} : Keeps(v)
        /\ Begins(w) \/ Looks(w) \/ TakesJob(w) \/ GoesOn(w) \/ Rests(w)
        /\ clock' = clock
    BY <1>4, WorkerSteps
  <2>2. \A v \in Workers : now'[v] \in {0, clock, now[v]}
    BY <2>1 DEF Keeps, Begins, Looks, TakesJob, GoesOn, Rests
  <2>3. NowInPast'
    BY <1>2, <1>3, <2>1, <2>2 DEF NowInPast
  <2> QED
    BY <1>1, <1>4, <2>3, WorkKeepsLeases DEF LeaseInv
<1>5. ASSUME \A v \in Workers : Keeps(v), UNCHANGED databaseVars, clock' = clock \/ Tick
      PROVE  LeaseInv'
  <2>1. clock' \in {clock, clock + 1}
    BY <1>5 DEF Tick
  <2>2. NowInPast'
    BY <1>2, <1>3, <1>5, <2>1 DEF NowInPast, Keeps
  <2>3. ASSUME Exclusive' PROVE LeaseRuns'
    <3>1. ASSUME NEW v \in Workers, phase[v] # "idle" PROVE clock' < now[v] + LeaseDuration
      <4>1. now[v] + LeaseDuration \in Nat
        BY <1>2, ProtectionAssumption
      <4>2. CASE clock' = clock
        BY <1>1, <1>3, <2>3, <3>1, <4>2 DEF LeaseRuns
      <4>3. CASE Tick
        <5>1. ~Overtaken(v)
          BY <2>3, <4>3 DEF Tick, Disturb, Exclusive
        <5> QED
          BY <1>2, <3>1, <4>1, <4>3, <5>1 DEF Overtaken, Tick
      <4> QED
        BY <1>5, <4>2, <4>3
    <3> QED
      BY <1>5, <3>1 DEF LeaseRuns, Keeps
  <2>4. HoldsLease => HoldsLease'
    BY <1>5 DEF HoldsLease, Keeps, databaseVars, Busy
  <2>5. Alone => Alone'
    BY <1>5 DEF Alone, Keeps, Busy
  <2> QED
    BY <1>1, <1>3, <2>2, <2>3, <2>4, <2>5 DEF LeaseInv
<1> QED
  BY <1>4, <1>5, SurroundingSteps


-----------------------------------------------------------------------------
(* What the transactions make of the copies and their attempts.              *)

(* The transactions that end an attempt.                                     *)
Records(w) ==
  \/ CompleteRepair(w) \/ FailRepair(w) \/ Invalidate(w)
  \/ CompleteRetention(w) \/ FailRetention(w)

(* Nothing else changes the database, but the claims.                        *)
LEMMA DatabaseSteps ==
  ASSUME TypeOK, JobsOK, [Next]_vars
  PROVE  \/ UNCHANGED databaseVars
         \/ \E w \in Workers :
              ClaimRepair(w) \/ ClaimRetention(w) \/ RetentionBlocked(w) \/ Records(w)
<1>1. ASSUME NEW w \in Workers, Claim(w)
      PROVE  \/ UNCHANGED databaseVars
             \/ ClaimRepair(w) \/ ClaimRetention(w) \/ RetentionBlocked(w)
  BY <1>1 DEF Claim, RunBatch, Look, NothingToClaim, ClaimFails
<1>2. ASSUME NEW w \in Workers, ProcessRepair(w) \/ ProcessRetention(w)
      PROVE  UNCHANGED databaseVars \/ Records(w)
  BY <1>2, RepairIsTyped, RetentionIsTyped DEF ProcessRepair, ProcessRetention, Records
<1>3. ASSUME NEW w \in Workers, RecordingFails(w) \/ FailureIsLost(w) \/ Crash(w)
      PROVE  UNCHANGED databaseVars
  BY <1>3 DEF RecordingFails, FailureIsLost, Crash
<1> QED
  BY <1>1, <1>2, <1>3, SurroundingSteps DEF Work

(* A worker that ends its attempt owned it, and ends no other.               *)
LEMMA RecordingEnds ==
  ASSUME TypeOK, JobsOK, NEW w \in Workers, Records(w)
  PROVE  /\ phase[w] \in Busy /\ job[w] \in Targets /\ attempt[w] \in Live(job[w])
         /\ \A t \in Targets : Live(t)' \subseteq Live(t)
         /\ \A t \in Targets : t = job[w] => attempt[w] \notin Live(t)'
         /\ UNCHANGED <<active, stored, seen>>
<1>1. /\ phase[w] \in Busy /\ Owns(w) /\ UNCHANGED <<active, stored, seen>>
      /\ EndAttempt(w, Succeeded) \/ EndAttempt(w, RetryOf(w))
  BY DEF Records, CompleteRepair, FailRepair, Invalidate, CompleteRetention, FailRetention,
         Recordable, Busy, Phases
<1>2. /\ job[w] \in Targets /\ attempt[w] \in 1 .. Len(attempts[job[w]])
      /\ DOMAIN attempts[job[w]] = 1 .. Len(attempts[job[w]])
  BY <1>1, LenProperties DEF TypeOK, JobsOK
<1>3. PICK outcome \in Attempts : outcome.state # "in_progress" /\ EndAttempt(w, outcome)
  BY <1>1, OutcomesAreTyped
<1>4. /\ attempts'[job[w]] = [attempts[job[w]] EXCEPT ![attempt[w]] = outcome]
      /\ \A t \in Targets \ {job[w]} : attempts'[t] = attempts[t]
  BY <1>2, <1>3 DEF EndAttempt, TypeOK
<1>5. attempts'[job[w]][attempt[w]].state # "in_progress"
  BY <1>2, <1>3, <1>4
<1>6. ASSUME NEW t \in Targets, t = job[w]
      PROVE  Live(t)' \subseteq Live(t) /\ attempt[w] \notin Live(t)'
  <2>1. ASSUME NEW n \in DOMAIN attempts'[t], attempts'[t][n].state = "in_progress"
        PROVE  n \in DOMAIN attempts[t] /\ attempts[t][n].state = "in_progress"
    BY <1>2, <1>4, <1>5, <1>6, <2>1
  <2> QED
    BY <1>5, <1>6, <2>1 DEF Live
<1>7. \A t \in Targets : Live(t)' \subseteq Live(t)
  <2>1. \A t \in Targets \ {job[w]} : Live(t)' = Live(t)
    BY <1>4 DEF Live
  <2> QED
    BY <1>6, <2>1
<1> QED
  BY <1>1, <1>2, <1>6, <1>7 DEF Live, Owns

(* A claim begins an attempt at a copy that is wanted, and at no other; a    *)
(* retention that is blocked begins none.                                    *)
LEMMA ClaimBegins ==
  ASSUME TypeOK, NEW w \in Workers, NEW t \in Targets, TakeJob(w, t)
  PROVE  \A u \in Targets \ {t} : Live(u)' = Live(u)
  BY DEF TakeJob, TypeOK, Live

LEMMA BlockedBeginsNothing ==
  ASSUME TypeOK, NEW w \in Workers, RetentionBlocked(w)
  PROVE  \A t \in Targets : Live(t)' \subseteq Live(t)
<1>1. now[w] \in Nat /\ attempts[Primary] \in Seq(Attempts) /\ Primary \in Targets
  BY TargetsAssumption DEF TypeOK
<1>2. /\ attempts'[Primary] = Expire(attempts[Primary], now[w])
      /\ \A t \in Targets \ {Primary} : attempts'[t] = attempts[t]
  BY <1>1 DEF RetentionBlocked, TypeOK
<1>3. Live(Primary)' \subseteq Live(Primary)
  <2>1. ASSUME NEW n \in DOMAIN attempts'[Primary],
               attempts'[Primary][n].state = "in_progress"
        PROVE  n \in DOMAIN attempts[Primary] /\ attempts[Primary][n].state = "in_progress"
    BY <1>1, <1>2, <2>1, ExpireKeeps
  <2> QED
    BY <2>1 DEF Live
<1> QED
  BY <1>2, <1>3 DEF Live

(* A replica becomes verified by the repair of it alone, and is given up     *)
(* only when a retention has found it damaged.                               *)
LEMMA ReplicaSteps ==
  ASSUME TypeOK, JobsOK, Places, [Next]_vars, NEW t \in Peers
  PROVE  /\ copies'[t] = "verified" /\ copies[t] # "verified"
              => \E w \in Repairers : CompleteRepair(w) /\ job[w] = t
         /\ copies'[t] # "verified" /\ copies[t] = "verified"
              => \E w \in Retainers : Invalidate(w)
<1>1. ASSUME NEW w \in Workers, CompleteRepair(w)
      PROVE  w \in Repairers /\ (copies'[t] = copies[t] \/ (copies'[t] = "verified" /\ job[w] = t))
  BY <1>1 DEF CompleteRepair, TypeOK, Peers
<1>2. ASSUME NEW w \in Workers, FailRepair(w)
      PROVE  copies'[t] = copies[t] \/ (copies[t] # "verified" /\ copies'[t] # "verified")
  BY <1>2 DEF FailRepair, TypeOK, Peers
<1>3. ASSUME NEW w \in Workers, Invalidate(w)
      PROVE  w \in Retainers /\ copies'[t] \in {"failed", copies[t]}
  BY <1>3 DEF Invalidate, TypeOK, Peers, Places
<1>4. ASSUME NEW w \in Workers, CompleteRetention(w) \/ FailRetention(w)
      PROVE  copies'[t] = copies[t]
  BY <1>4 DEF CompleteRetention, FailRetention, TypeOK, Peers
<1>5. ASSUME NEW w \in Workers, ClaimRepair(w) \/ ClaimRetention(w) \/ RetentionBlocked(w)
      PROVE  copies'[t] = copies[t]
  BY <1>5 DEF ClaimRepair, ClaimRetention, RetentionBlocked
<1>6. \/ copies'[t] = copies[t]
      \/ \E w \in Repairers : CompleteRepair(w) /\ job[w] = t /\ copies'[t] = "verified"
      \/ copies[t] # "verified" /\ copies'[t] # "verified"
      \/ (\E w \in Retainers : Invalidate(w)) /\ copies'[t] = "failed"
  BY <1>1, <1>2, <1>3, <1>4, <1>5, DatabaseSteps DEF databaseVars, Records
<1> QED
  BY <1>6

-----------------------------------------------------------------------------
(* As long as no claim raced another, no attempt is in progress at a replica *)
(* that is verified: nobody who may write to a replica finds it vouched for. *)

Unverified ==
  "race" \notin seen => \A t \in Peers : Live(t) # {} => copies[t] # "verified"

LEMMA InitUnverified == Init => Unverified
  BY DEF Init, Unverified, Live, Peers

(* The owner's end leaves nobody at the copy.                                *)
LEMMA OwnerLeaves ==
  ASSUME TypeOK, JobsOK, LiveIsLast, "race" \notin seen, NEW w \in Workers, Records(w),
         NEW t \in Targets, t = job[w]
  PROVE  Live(t) # {} /\ Live(t)' = {}
<1>1. attempt[w] \in Live(t) /\ Live(t)' \subseteq Live(t) /\ attempt[w] \notin Live(t)'
  BY RecordingEnds
<1>2. \A n \in Live(t) : n = attempt[w]
  BY <1>1 DEF LiveIsLast
<1> QED
  BY <1>1, <1>2

LEMMA NextUnverified ==
  TypeOK /\ JobsOK /\ Places /\ LiveIsLast /\ Unverified /\ [Next]_vars => Unverified'
<1> SUFFICES ASSUME TypeOK, JobsOK, Places, LiveIsLast, Unverified, [Next]_vars,
                    "race" \notin seen', NEW t \in Peers, Live(t)' # {}, copies'[t] = "verified"
             PROVE  FALSE
  BY DEF Unverified
<1>1. "race" \notin seen /\ t \in Targets /\ (Live(t) # {} => copies[t] # "verified")
  BY NextAttemptsStep DEF AttemptsStep, Unverified, Peers
<1>2. CASE UNCHANGED databaseVars
  BY <1>1, <1>2 DEF databaseVars, Live
<1>3. ASSUME NEW w \in Workers, ClaimRepair(w) PROVE FALSE
  <2>1. PICK u \in Peers : Claimable(w, u) /\ TakeJob(w, u)
    BY <1>3 DEF ClaimRepair
  <2>2. copies[u] # "verified" /\ copies' = copies
    BY <1>3, <2>1 DEF ClaimRepair, Claimable, Wanted
  <2>3. t # u => Live(t)' = Live(t)
    BY <1>1, <2>1, ClaimBegins DEF Peers
  <2> QED
    BY <1>1, <2>2, <2>3
<1>4. ASSUME NEW w \in Workers, ClaimRetention(w) PROVE FALSE
  <2>1. TakeJob(w, Primary) /\ copies' = copies
    BY <1>4 DEF ClaimRetention
  <2>2. Live(t)' = Live(t)
    BY <1>1, <2>1, ClaimBegins, TargetsAssumption DEF Peers
  <2> QED
    BY <1>1, <2>1, <2>2
<1>5. ASSUME NEW w \in Workers, RetentionBlocked(w) PROVE FALSE
  <2>1. copies' = copies
    BY <1>5 DEF RetentionBlocked
  <2> QED
    BY <1>1, <1>5, <2>1, BlockedBeginsNothing
<1>6. ASSUME NEW w \in Workers, Records(w) PROVE FALSE
  <2>1. Live(t) # {}
    BY <1>1, <1>6, RecordingEnds
  <2>2. PICK v \in Repairers : CompleteRepair(v) /\ job[v] = t
    BY <1>1, <2>1, ReplicaSteps
  <2> QED
    BY <1>1, <2>2, OwnerLeaves DEF Records, Workers
<1> QED
  BY <1>2, <1>3, <1>4, <1>5, <1>6, DatabaseSteps


-----------------------------------------------------------------------------
(* What the providers hold.                                                  *)

(* A replica's bytes are written or deleted only by a repair of it, and the  *)
(* primary's only by the deletion of a retention.                            *)
LEMMA StoredSteps ==
  ASSUME TypeOK, JobsOK, Places, [Next]_vars, NEW t \in Targets, stored'[t] # stored[t]
  PROVE  \/ \E w \in Workers : phase[w] \in RepairPhases /\ job[w] = t /\ t \in Peers
         \/ \E w \in Workers : DeletePrimary(w) /\ t = Primary
<1> DEFINE Goal == \/ \E w \in Workers : phase[w] \in RepairPhases /\ job[w] = t /\ t \in Peers
                   \/ \E w \in Workers : DeletePrimary(w) /\ t = Primary
<1>1. PICK w \in Workers : Work(w) \/ Crash(w)
  BY SurroundingSteps
<1>2. GoesOn(w)
  BY <1>1, WorkerSteps DEF Begins, Looks, TakesJob, Rests
<1>3. ~Claim(w) /\ ~FailureIsLost(w) /\ ~Crash(w) /\ ~RecordingFails(w)
  <2>1. ~FailureIsLost(w) /\ ~Crash(w) /\ ~RecordingFails(w)
    BY DEF FailureIsLost, Crash, RecordingFails
  <2>2. ~Claim(w)
    BY DEF Claim, RunBatch, Look, ClaimRepair, ClaimRetention, RetentionBlocked,
           NothingToClaim, ClaimFails
  <2> QED
    BY <2>1, <2>2
<1>4. ProcessRepair(w) \/ ProcessRetention(w)
  BY <1>1, <1>3 DEF Work
<1>5. CASE ClearTarget(w) \/ PutObject(w) \/ Undo(w)
  <2>1. phase[w] \in RepairPhases
    BY <1>5, RepairPlaces
  <2>2. job[w] \in Peers
    BY <2>1 DEF Places, RepairPhases, Busy, Phases
  <2>3. \E content : stored' = [stored EXCEPT ![job[w]] = content] \/ stored' = stored
    BY <1>5 DEF ClearTarget, Delete, PutObject, Undo
  <2>4. job[w] = t
    BY <2>2, <2>3 DEF TypeOK, Peers
  <2> QED
    BY <2>1, <2>2, <2>4
<1>6. CASE DeletePrimary(w)
  <2>1. stored' = stored \/ stored' = [stored EXCEPT ![Primary] = "absent"]
    BY <1>6 DEF DeletePrimary, Delete
  <2>2. t = Primary
    BY <2>1 DEF TypeOK
  <2> QED
    BY <1>6, <2>2
<1>7. CASE \/ VerifyTarget(w) \/ OpenSource(w) \/ HeadObject(w) \/ VerifyRaced(w)
           \/ VerifyWritten(w) \/ CompleteRepair(w) \/ FailRepair(w)
  BY <1>7 DEF VerifyTarget, VerifyWritten, Verify, OpenSource, HeadObject, VerifyRaced,
              CompleteRepair, FailRepair
<1>8. CASE VerifyGuard(w) \/ Invalidate(w) \/ CompleteRetention(w) \/ FailRetention(w)
  BY <1>8 DEF VerifyGuard, Invalidate, CompleteRetention, FailRetention
<1> QED
  BY <1>4, <1>5, <1>6, <1>7, <1>8 DEF ProcessRepair, ProcessRetention

(* As long as leases are kept, no worker is at a replica that is verified,   *)
(* and what it holds stays.                                                  *)
LEMMA VerifiedIsKept ==
  ASSUME TypeOK, JobsOK, Places, LiveIsLast, LeaseInv, Unverified, Exclusive, [Next]_vars,
         NEW t \in Peers, copies[t] = "verified"
  PROVE  stored'[t] = stored[t]
<1> SUFFICES ASSUME stored'[t] # stored[t] PROVE FALSE
  OBVIOUS
<1>1. t \in Targets /\ t # Primary
  BY DEF Peers
<1>2. PICK w \in Workers : phase[w] \in RepairPhases /\ job[w] = t
  BY <1>1, StoredSteps
<1>3. attempt[w] \in Live(t)
  BY <1>2, LeaseIsLast DEF RepairPhases, Busy, Phases
<1> QED
  BY <1>3 DEF Unverified, Exclusive

(* A repair is about to record its success: the replica holds the object.    *)
CompletingOK ==
  Exclusive => \A w \in Repairers : phase[w] = "completing" => stored[job[w]] = "exact"

LEMMA InitCompletingOK == Init => CompletingOK
  BY DEF Init, CompletingOK, Workers

(* It has just seen it there.                                                *)
LEMMA CompletingHasSeen ==
  ASSUME TypeOK, JobsOK, Places, NEW w \in Repairers, Work(w) \/ Crash(w),
         phase'[w] = "completing"
  PROVE  /\ stored[job[w]] = "exact" /\ stored' = stored /\ job'[w] = job[w]
<1>1. w \in Workers /\ w \notin Retainers
  BY ProtectionAssumption DEF Workers
<1>2. phase'[w] = "completing" /\ phase'[w] # "failing"
  OBVIOUS
<1>3. ASSUME Verify(w, [exact |-> "completing", wrong |-> "clearing",
                        absent |-> "reading", unreadable |-> "failing"])
               \/ Verify(w, [exact |-> "completing", wrong |-> "undoing",
                             absent |-> "undoing", unreadable |-> "failing"]),
             job[w] \in Targets
      PROVE  stored[job[w]] = "exact"
  <2>1. Seen(job[w]) \subseteq {"exact", "wrong", "absent", "unreadable"}
    BY <1>3 DEF Seen, TypeOK, Bytes, Contents
  <2>2. PICK sight \in Seen(job[w]) :
          \/ Move(w, [exact |-> "completing", wrong |-> "clearing",
                      absent |-> "reading", unreadable |-> "failing"][sight])
          \/ Move(w, [exact |-> "completing", wrong |-> "undoing",
                      absent |-> "undoing", unreadable |-> "failing"][sight])
    BY <1>3 DEF Verify
  <2>3. sight = "exact"
    BY <1>1, <1>2, <2>1, <2>2 DEF Move, TypeOK
  <2> QED
    BY <2>2, <2>3 DEF Seen
<1>4. CASE VerifyTarget(w) \/ VerifyWritten(w)
  <2>1. phase[w] \in RepairPhases
    BY <1>1, <1>4, RepairPlaces
  <2>2. job[w] \in Targets
    BY <1>1, <2>1 DEF JobsOK, RepairPhases, Busy, Phases
  <2>3. stored[job[w]] = "exact"
    BY <1>3, <1>4, <2>2 DEF VerifyTarget, VerifyWritten
  <2> QED
    BY <1>4, <2>3 DEF VerifyTarget, VerifyWritten, Verify
<1>5. CASE ClearTarget(w) \/ OpenSource(w)
  BY <1>1, <1>2, <1>5 DEF ClearTarget, OpenSource, Delete, Fail, Move, TypeOK
<1>6. CASE PutObject(w) \/ HeadObject(w)
  BY <1>1, <1>2, <1>6 DEF PutObject, HeadObject, CheckMirror, Move, TypeOK
<1>7. CASE VerifyRaced(w) \/ Undo(w)
  BY <1>1, <1>2, <1>7 DEF VerifyRaced, Undo, CheckMirror, Fail, Move, TypeOK
<1>8. CASE VerifyGuard(w) \/ DeletePrimary(w)
  BY <1>1, <1>8 DEF VerifyGuard, DeletePrimary, Places
<1>9. CASE RecordingFails(w)
  BY <1>1, <1>2, <1>9 DEF RecordingFails, Fail, Move, TypeOK
<1>10. CASE \/ CompleteRepair(w) \/ FailRepair(w) \/ Invalidate(w) \/ CompleteRetention(w)
            \/ FailRetention(w) \/ FailureIsLost(w) \/ Crash(w)
  <2>1. Continue(w) \/ EndBatch(w)
    BY <1>10 DEF CompleteRepair, FailRepair, Invalidate, CompleteRetention, FailRetention,
                 FailureIsLost, Crash
  <2> QED
    BY <1>1, <1>2, <2>1, ContinueRests
<1>11. CASE Claim(w)
  BY <1>1, <1>2, <1>11, ClaimSteps DEF Begins, Looks, TakesJob, Rests
<1> QED
  BY <1>4, <1>5, <1>6, <1>7, <1>8, <1>9, <1>10, <1>11 DEF Work, ProcessRepair, ProcessRetention

LEMMA NextCompletingOK ==
  TypeOK /\ JobsOK /\ Places /\ LeaseInv /\ CompletingOK /\ [Next]_vars => CompletingOK'
<1> SUFFICES ASSUME TypeOK, JobsOK, Places, LeaseInv, CompletingOK, [Next]_vars, Exclusive',
                    NEW w \in Repairers, phase'[w] = "completing"
             PROVE  stored'[job'[w]] = "exact"
  BY DEF CompletingOK
<1>1. w \in Workers /\ Exclusive
  BY NextAttemptsStep DEF AttemptsStep, Exclusive, Workers
<1>2. CASE Work(w) \/ Crash(w)
  BY <1>2, CompletingHasSeen
<1>3. CASE Keeps(w)
  <2>1. phase[w] = "completing" /\ job'[w] = job[w] /\ stored[job[w]] = "exact"
    BY <1>1, <1>3 DEF Keeps, CompletingOK
  <2>2. job[w] \in Peers
    BY <1>1, <2>1 DEF Places, Busy, Phases
  <2>3. ASSUME stored'[job[w]] # stored[job[w]] PROVE FALSE
    <3>1. PICK v \in Workers : phase[v] \in RepairPhases /\ job[v] = job[w]
      BY <2>2, <2>3, StoredSteps DEF Peers
    <3>2. v = w
      BY <1>1, <2>1, <3>1 DEF LeaseInv, Alone, RepairPhases, Busy, Phases
    <3> QED
      BY <2>1, <3>1, <3>2 DEF RepairPhases
  <2> QED
    BY <2>1, <2>3
<1> QED
  BY <1>1, <1>2, <1>3, WorkerSteps, SurroundingSteps


(* What every step starts from.                                              *)
Ground == TypeOK /\ BatchOK /\ JobsOK /\ Places /\ LiveIsLast /\ LeaseInv /\ Unverified

LEMMA GroundHolds == Spec => []Ground
<1>1. Init => Places
  BY DEF Init, Places, RepairPhases, Busy
<1>2. Init => Ground
  BY <1>1, InitTypeOK, InitLiveIsLast, InitLeaseInv, InitUnverified DEF Ground
<1>3. Ground /\ [Next]_vars => Ground'
  BY NextTypeOK, NextAttemptsStep, NextJobs, JobsStep, NextPlaces, NextLiveIsLast,
     NextLeaseInv, NextUnverified DEF Ground
<1> QED
  BY <1>2, <1>3, PTL DEF Spec

LEMMA StepIsExact ==
  ASSUME Ground, CompletingOK, [Next]_vars, Exclusive', NEW t \in Peers,
         copies'[t] = "verified", copies[t] = "verified" => stored[t] = "exact"
  PROVE  stored'[t] = "exact"
<1>1. Exclusive
  BY NextAttemptsStep DEF Ground, AttemptsStep, Exclusive
<1>2. CASE copies[t] = "verified"
  BY <1>1, <1>2, VerifiedIsKept DEF Ground
<1>3. CASE copies[t] # "verified"
  <2>1. PICK w \in Repairers : CompleteRepair(w) /\ job[w] = t
    BY <1>3, ReplicaSteps DEF Ground
  <2>2. phase[w] = "completing" /\ stored' = stored
    BY <2>1 DEF CompleteRepair
  <2> QED
    BY <1>1, <2>1, <2>2 DEF CompletingOK
<1> QED
  BY <1>2, <1>3

(* completeRepair records a replica as verified only when the provider holds *)
(* the object, and no later repair, cleanup, crash or deletion takes it away *)
(* from a replica on record, for any number of workers that keep within      *)
(* their leases.                                                             *)
THEOREM ReplicaIsExactHolds == Spec => ReplicaIsExact
<1>1. Ground /\ CompletingOK /\ [Next]_vars => CompletingOK'
  BY NextCompletingOK DEF Ground
<1>2. Ground /\ CompletingOK /\ [Next]_vars
        => [Exclusive' =>
              \A t \in Peers :
                copies'[t] = "verified" /\ (copies[t] = "verified" => stored[t] = "exact")
                  => stored'[t] = "exact"]_vars
  BY StepIsExact
<1> QED
  BY <1>1, <1>2, GroundHolds, InitCompletingOK, PTL DEF Spec, ReplicaIsExact

-----------------------------------------------------------------------------
(* The primary goes last.                                                    *)

(* The replicas a retention relies on: all of the active ones, each verified *)
(* and either seen to hold the object or still to be read.                   *)
Relied(w, G) ==
  /\ G # {} /\ Peers \cap active \subseteq G /\ unchecked[w] \subseteq G
  /\ \A t \in G : /\ copies[t] = "verified"
                  /\ t \in unchecked[w] \/ stored[t] = "exact"

GuardInv ==
  Exclusive => \A w \in Workers : phase[w] = "guarding" => \E G \in SUBSET Peers : Relied(w, G)

LEMMA InitGuardInv == Init => GuardInv
  BY DEF Init, GuardInv

(* While a retention has its lease, no other one gives up a replica, and     *)
(* none that is verified changes.                                            *)
Guarding == {"guarding", "invalidating"}

LEMMA GuardsStay ==
  ASSUME Ground, [Next]_vars, Exclusive, NEW w \in Workers, phase[w] \in Guarding,
         phase'[w] \in Guarding, NEW t \in Peers, copies[t] = "verified"
  PROVE  copies'[t] = "verified" /\ stored'[t] = stored[t]
<1>1. stored'[t] = stored[t]
  BY VerifiedIsKept DEF Ground
<1>2. ASSUME NEW v \in Retainers, Invalidate(v) PROVE FALSE
  <2>1. w \in Retainers /\ v \in Workers /\ phase[v] = "invalidating" /\ Continue(v)
    BY <1>2 DEF Ground, Places, Guarding, Invalidate, Workers
  <2>2. job[v] = Primary /\ job[w] = Primary
    BY <1>2, <2>1 DEF Ground, JobsOK, Guarding, Busy, Phases
  <2>3. v = w
    BY <2>1, <2>2 DEF Ground, LeaseInv, Alone, Guarding, Busy, Phases
  <2> QED
    BY <2>1, <2>3, ContinueRests DEF Ground, Guarding
<1> QED
  BY <1>1, <1>2, ReplicaSteps DEF Ground

LEMMA NextGuardInv == Ground /\ GuardInv /\ [Next]_vars => GuardInv'
<1> SUFFICES ASSUME Ground, GuardInv, [Next]_vars, Exclusive',
                    NEW w \in Workers, phase'[w] = "guarding"
             PROVE  \E G \in SUBSET Peers : Relied(w, G)'
  BY DEF GuardInv
<1>1. Exclusive /\ TypeOK /\ JobsOK /\ Places
  BY NextAttemptsStep DEF Ground, AttemptsStep, Exclusive
<1>2. active' \subseteq active
  BY <1>1, SurroundingSteps, WorkerSteps
<1>3. ASSUME phase[w] = "guarding",
             \A t \in unchecked[w] \ unchecked'[w] : stored[t] = "exact",
             unchecked'[w] \subseteq unchecked[w]
      PROVE  \E G \in SUBSET Peers : Relied(w, G)'
  <2>1. PICK G \in SUBSET Peers : Relied(w, G)
    BY <1>1, <1>3 DEF GuardInv
  <2>2. \A t \in G : copies'[t] = "verified" /\ stored'[t] = stored[t]
    BY <1>1, <1>3, <2>1, GuardsStay DEF Relied, Guarding
  <2>3. Relied(w, G)'
    BY <1>2, <1>3, <2>1, <2>2 DEF Relied
  <2> QED
    BY <2>3
<1>4. CASE Keeps(w)
  BY <1>3, <1>4 DEF Keeps
<1>5. CASE ClaimRetention(w)
  <2>1. /\ Guards # {} /\ \A t \in Guards : copies[t] = "verified"
        /\ unchecked'[w] = Guards /\ copies' = copies /\ active' = active
    BY <1>1, <1>5 DEF ClaimRetention, Guarded, TypeOK
  <2>2. PICK G \in SUBSET Peers : G = Guards
    BY DEF Guards
  <2>3. Relied(w, G)'
    BY <2>1, <2>2 DEF Relied, Guards
  <2> QED
    BY <2>3
<1>6. CASE ClaimRepair(w)
  BY <1>1, <1>6 DEF ClaimRepair, Move, TypeOK
<1>7. CASE Claim(w) /\ ~ClaimRepair(w) /\ ~ClaimRetention(w)
  BY <1>1, <1>7, ClaimSteps DEF Begins, Looks, TakesJob, Rests
<1>8. CASE VerifyGuard(w)
  <2>1. PICK t \in unchecked[w] : \E sight \in Seen(t) :
          \/ sight = "exact" /\ unchecked' = [unchecked EXCEPT ![w] = @ \ {t}]
          \/ Move(w, "invalidating")
          \/ Move(w, "failing")
    BY <1>8 DEF VerifyGuard, Fail
  <2>2. ~Move(w, "invalidating") /\ ~Move(w, "failing")
    BY <1>1 DEF Move, TypeOK
  <2>3. stored[t] = "exact" /\ unchecked' = [unchecked EXCEPT ![w] = @ \ {t}]
    BY <2>1, <2>2 DEF Seen
  <2>4. w \in DOMAIN unchecked /\ phase[w] = "guarding"
    BY <1>1, <1>8 DEF VerifyGuard, TypeOK
  <2>5. unchecked'[w] = unchecked[w] \ {t}
    BY <2>3, <2>4
  <2> QED
    BY <1>3, <2>3, <2>4, <2>5
<1>9. CASE \/ ProcessRepair(w) \/ (ProcessRetention(w) /\ ~VerifyGuard(w)) \/ RecordingFails(w)
           \/ FailureIsLost(w)
  <2>1. ~Rests(w)
    BY DEF Rests
  <2>2. phase[w] = "guarding"
    BY <1>1, <1>9, <2>1, GoingOnKeepsPlaces DEF RepairPhases
  <2>3. ~ProcessRepair(w) /\ ~RecordingFails(w) /\ ~FailureIsLost(w)
    <3>1. ~RecordingFails(w) /\ ~FailureIsLost(w) /\ ~CompleteRepair(w) /\ ~FailRepair(w)
      BY <2>2 DEF RecordingFails, FailureIsLost, CompleteRepair, FailRepair
    <3> QED
      BY <1>1, <2>2, <3>1, RepairPlaces DEF ProcessRepair, RepairPhases
  <2>4. DeletePrimary(w)
    BY <1>9, <2>2, <2>3 DEF ProcessRetention, Invalidate, CompleteRetention, FailRetention
  <2> QED
    BY <1>1, <2>4 DEF DeletePrimary, Delete, Fail, Move, TypeOK
<1>10. CASE Crash(w)
  BY <1>1, <1>10, ContinueRests DEF Crash
<1>11. Keeps(w) \/ Work(w) \/ Crash(w)
  BY <1>1, WorkerSteps, SurroundingSteps
<1> QED
  BY <1>4, <1>5, <1>6, <1>7, <1>8, <1>9, <1>10, <1>11 DEF Work

(* processRetention deletes the primary while all replicas with an active    *)
(* connection hold the object and are verified, and there is such a replica, *)
(* for any number of replicas and of repairs and retentions at once that     *)
(* keep within their leases.                                                 *)
THEOREM PrimaryGoesLastHolds == Spec => PrimaryGoesLast
<1>1. ASSUME Ground, GuardInv, [Next]_vars, Exclusive',
             stored[Primary] # "absent", stored'[Primary] = "absent"
      PROVE  /\ \E t \in Peers : copies[t] = "verified" /\ stored[t] = "exact"
             /\ \A t \in Peers \cap active : copies[t] = "verified" /\ stored[t] = "exact"
  <2>1. Exclusive /\ Primary \in Targets /\ Primary \notin Peers
    BY <1>1, NextAttemptsStep, TargetsAssumption DEF Ground, AttemptsStep, Exclusive, Peers
  <2>2. PICK w \in Workers : DeletePrimary(w)
    BY <1>1, <2>1, StoredSteps DEF Ground
  <2>3. phase[w] = "guarding" /\ unchecked[w] = {}
    BY <2>2 DEF DeletePrimary
  <2>4. PICK G \in SUBSET Peers : Relied(w, G)
    BY <1>1, <2>1, <2>3 DEF GuardInv
  <2> QED
    BY <2>3, <2>4 DEF Relied
<1>2. Ground /\ GuardInv /\ [Next]_vars
        => [Exclusive' /\ stored[Primary] # "absent" /\ stored'[Primary] = "absent"
              => /\ \E t \in Peers : copies[t] = "verified" /\ stored[t] = "exact"
                 /\ \A t \in Peers \cap active : copies[t] = "verified" /\ stored[t] = "exact"]_vars
  BY <1>1
<1> QED
  BY <1>2, GroundHolds, InitGuardInv, NextGuardInv, PTL DEF Spec, PrimaryGoesLast


-----------------------------------------------------------------------------
(* The object survives.                                                      *)

(* A retention gives up a replica only if it is damaged indeed.              *)
DamageIsReal ==
  Exclusive => \A w \in Workers : phase[w] = "invalidating" =>
    \A t \in unchecked[w] : copies[t] = "verified" /\ stored[t] # "exact"

LEMMA InitDamageIsReal == Init => DamageIsReal
  BY DEF Init, DamageIsReal

LEMMA NextDamageIsReal == Ground /\ GuardInv /\ DamageIsReal /\ [Next]_vars => DamageIsReal'
<1> SUFFICES ASSUME Ground, GuardInv, DamageIsReal, [Next]_vars, Exclusive',
                    NEW w \in Workers, phase'[w] = "invalidating", NEW t \in unchecked'[w]
             PROVE  copies'[t] = "verified" /\ stored'[t] # "exact"
  BY DEF DamageIsReal
<1>1. Exclusive /\ TypeOK /\ JobsOK /\ Places
  BY NextAttemptsStep DEF Ground, AttemptsStep, Exclusive
<1>2. CASE Keeps(w)
  <2>1. /\ phase[w] = "invalidating" /\ t \in unchecked[w] /\ t \in Peers
        /\ copies[t] = "verified" /\ stored[t] # "exact"
    BY <1>1, <1>2 DEF Keeps, DamageIsReal, Places
  <2> QED
    BY <1>1, <2>1, GuardsStay DEF Guarding
<1>3. CASE VerifyGuard(w)
  <2>1. phase[w] = "guarding" /\ UNCHANGED <<copies, stored>>
        /\ w \in DOMAIN unchecked /\ w \in DOMAIN phase
    BY <1>1, <1>3 DEF VerifyGuard, databaseVars, TypeOK
  <2>2. PICK u \in unchecked[w] : \E sight \in Seen(u) :
          \/ UNCHANGED phase
          \/ sight \in {"absent", "wrong"} /\ unchecked' = [unchecked EXCEPT ![w] = {u}]
          \/ Move(w, "failing")
    BY <1>3 DEF VerifyGuard, Fail
  <2>3. stored[u] # "exact" /\ unchecked' = [unchecked EXCEPT ![w] = {u}]
    BY <2>1, <2>2 DEF Seen, Move
  <2>4. t = u
    BY <2>1, <2>3
  <2>5. copies[u] = "verified"
    BY <1>1, <2>1, <2>2 DEF GuardInv, Relied
  <2> QED
    BY <2>1, <2>3, <2>4, <2>5
<1>4. ASSUME Work(w) \/ Crash(w), ~VerifyGuard(w) PROVE FALSE
  <2>1. CASE Claim(w) \/ Crash(w)
    BY <1>1, <2>1, ClaimSteps, ContinueRests DEF Begins, Looks, TakesJob, Rests, Crash
  <2>2. CASE \/ VerifyTarget(w) \/ ClearTarget(w) \/ OpenSource(w) \/ PutObject(w)
             \/ HeadObject(w) \/ VerifyRaced(w) \/ Undo(w) \/ VerifyWritten(w)
    BY <1>1, <2>2, RepairPlaces DEF RepairPhases
  <2>3. CASE DeletePrimary(w) \/ RecordingFails(w)
    BY <1>1, <2>3 DEF DeletePrimary, Delete, RecordingFails, Fail, Move, TypeOK
  <2>4. CASE Records(w) \/ FailureIsLost(w)
    <3>1. Continue(w)
      BY <2>4 DEF Records, CompleteRepair, FailRepair, Invalidate, CompleteRetention,
                  FailRetention, FailureIsLost
    <3> QED
      BY <1>1, <3>1, ContinueRests
  <2> QED
    BY <1>4, <2>1, <2>2, <2>3, <2>4 DEF Work, ProcessRepair, ProcessRetention, Records
<1> QED
  BY <1>1, <1>2, <1>3, <1>4, WorkerSteps, SurroundingSteps

(* The primary holds the object, or a replica does that is vouched for.      *)
Held == stored[Primary] = "exact" \/ \E t \in Peers : copies[t] = "verified" /\ stored[t] = "exact"

LEMMA StepHolds ==
  ASSUME Ground, GuardInv, DamageIsReal, [Next]_vars, Exclusive', Held
  PROVE  Held'
<1>1. Exclusive /\ Primary \in Targets /\ Primary \notin Peers
  BY NextAttemptsStep, TargetsAssumption DEF Ground, AttemptsStep, Exclusive, Peers
<1>2. CASE \E t \in Peers : copies[t] = "verified" /\ stored[t] = "exact"
  <2>1. PICK t \in Peers : copies[t] = "verified" /\ stored[t] = "exact"
    BY <1>2
  <2>2. stored'[t] = "exact"
    BY <1>1, <2>1, VerifiedIsKept DEF Ground
  <2>3. ASSUME copies'[t] # "verified" PROVE FALSE
    <3>1. PICK w \in Retainers : Invalidate(w)
      BY <2>1, <2>3, ReplicaSteps DEF Ground
    <3>2. w \in Workers /\ phase[w] = "invalidating" /\ t \in unchecked[w]
      BY <2>1, <2>3, <3>1 DEF Invalidate, Workers, Peers
    <3> QED
      BY <1>1, <2>1, <3>2 DEF DamageIsReal
  <2> QED
    BY <2>2, <2>3 DEF Held
<1>3. CASE stored[Primary] = "exact" /\ stored'[Primary] # "exact"
  <2>1. PICK w \in Workers : DeletePrimary(w)
    BY <1>1, <1>3, StoredSteps DEF Ground
  <2>2. PICK G \in SUBSET Peers : Relied(w, G)
    BY <1>1, <2>1 DEF DeletePrimary, GuardInv
  <2>3. \E t \in Peers : copies[t] = "verified" /\ stored[t] = "exact"
    BY <2>1, <2>2 DEF DeletePrimary, Relied
  <2> QED
    BY <1>2, <2>3
<1> QED
  BY <1>2, <1>3 DEF Held

(* Repair and retention never lose an object they were given: whatever       *)
(* providers, transactions and processes do, some target holds it, be it     *)
(* the primary or a replica whose row says so, as long as workers keep       *)
(* within their leases and no claims race.                                   *)
THEOREM ObjectSurvives == Spec /\ Held => [](Exclusive => Held)
<1>1. GuardInv /\ DamageIsReal /\ Ground /\ (Exclusive => Held) /\ [Next]_vars
        => (Exclusive => Held)'
  <2> SUFFICES ASSUME Ground, GuardInv, DamageIsReal, [Next]_vars, Exclusive',
                      Exclusive => Held
               PROVE  Held'
    OBVIOUS
  <2>1. Exclusive
    BY NextAttemptsStep DEF Ground, AttemptsStep, Exclusive
  <2> QED
    BY <2>1, StepHolds
<1> QED
  BY <1>1, GroundHolds, InitGuardInv, NextGuardInv, InitDamageIsReal, NextDamageIsReal, PTL
     DEF Spec

-----------------------------------------------------------------------------
(* A repair that is required is possible.                                    *)

Calm == seen \cap {"race", "inactive"} = {}

(* All connections are active. While a retention has its attempt, every copy *)
(* is verified; while a repair has one, the primary is.                      *)
RepairInv ==
  Calm => /\ active = Targets
          /\ Live(Primary) # {} => \A t \in Targets : copies[t] = "verified"
          /\ \A t \in Peers : Live(t) # {} => copies[Primary] = "verified"

LEMMA InitRepairInv == Init => RepairInv /\ RepairIsPossible
<1> SUFFICES ASSUME Init PROVE RepairInv /\ RepairIsPossible
  OBVIOUS
<1>1. RepairInv
  BY TargetsAssumption DEF Init, RepairInv, Live, Peers
<1>2. truth = RouteTruth(copies) /\ copies[Primary] = "verified"
  BY ProtectionAssumption DEF Init, DeriveTruth
<1>3. CASE \A t \in Peers : copies[t] = "verified"
  <2>1. truth = Protected
    BY <1>2, <1>3 DEF RouteTruth, Protected
  <2> QED
    BY <1>1, <2>1, TruthsDiffer DEF RepairIsPossible
<1> QED
  BY <1>1, <1>2, <1>3 DEF RepairIsPossible

(* The claims.                                                               *)
LEMMA ClaimKeepsRepair ==
  ASSUME Ground, RepairInv, RepairIsPossible, Peers # {}, Calm, Calm', active' = active,
         NEW w \in Workers, ClaimRepair(w) \/ ClaimRetention(w) \/ RetentionBlocked(w)
  PROVE  RepairInv' /\ RepairIsPossible'
<1>1. /\ TypeOK /\ active = Targets /\ Primary \in Targets /\ copies' = copies
      /\ Live(Primary) # {} => \A t \in Targets : copies[t] = "verified"
      /\ \A t \in Peers : Live(t) # {} => copies[Primary] = "verified"
  BY TargetsAssumption DEF Ground, RepairInv, ClaimRepair, ClaimRetention, RetentionBlocked
<1>2. w \in Retainers => w \notin Repairers
  BY ProtectionAssumption
<1>3. CASE ClaimRepair(w)
  <2>1. PICK t \in Peers : TakeJob(w, t)
    BY <1>3 DEF ClaimRepair
  <2>2. copies[Primary] = "verified" /\ truth' = truth
    BY <1>3 DEF ClaimRepair
  <2>3. Live(Primary)' = Live(Primary)
    BY <1>1, <2>1, ClaimBegins DEF Peers
  <2> QED
    BY <1>1, <2>2, <2>3 DEF RepairInv, RepairIsPossible, Calm
<1>4. CASE ClaimRetention(w)
  <2>1. Claimable(w, Primary) /\ Guarded /\ truth' = truth
    BY <1>4 DEF ClaimRetention
  <2>2. \A t \in Targets : copies[t] = "verified"
    BY <1>1, <1>2, <1>4, <2>1
       DEF ClaimRetention, Claimable, Wanted, Guarded, Guards, Peers
  <2> QED
    BY <1>1, <2>1, <2>2 DEF RepairInv, RepairIsPossible, Calm
<1>5. CASE RetentionBlocked(w)
  <2>1. Claimable(w, Primary) /\ ~Guarded
    BY <1>5 DEF RetentionBlocked
  <2>2. copies[Primary] = "verified"
    BY <1>2, <1>5, <2>1 DEF RetentionBlocked, Claimable, Wanted
  <2>3. \E t \in Peers : copies[t] # "verified"
    BY <1>1, <2>1 DEF Guarded, Guards, Peers
  <2>4. \A t \in Targets : Live(t)' \subseteq Live(t)
    BY <1>1, <1>5, BlockedBeginsNothing
  <2> QED
    BY <1>1, <2>2, <2>3, <2>4 DEF RepairInv, RepairIsPossible, Peers
<1> QED
  BY <1>3, <1>4, <1>5

(* The ends of attempts.                                                     *)
LEMMA RecordKeepsRepair ==
  ASSUME Ground, RepairInv, RepairIsPossible, Calm, NEW w \in Workers, Records(w)
  PROVE  RepairInv' /\ RepairIsPossible'
<1>1. /\ TypeOK /\ JobsOK /\ Places /\ LiveIsLast /\ "race" \notin seen
      /\ active = Targets /\ Primary \in Targets
      /\ Live(Primary) # {} => \A t \in Targets : copies[t] = "verified"
      /\ \A t \in Peers : Live(t) # {} => copies[Primary] = "verified" /\ copies[t] # "verified"
  BY TargetsAssumption DEF Ground, RepairInv, Unverified, Calm
<1>2. /\ phase[w] \in Busy /\ job[w] \in Targets
      /\ \A t \in Targets : Live(t)' \subseteq Live(t)
      /\ \A t \in Targets : t = job[w] => Live(t) # {} /\ Live(t)' = {}
      /\ active' = active
  BY <1>1, RecordingEnds, OwnerLeaves
<1>3. CASE CompleteRepair(w)
  <2>1. /\ job[w] \in Peers /\ copies' = [copies EXCEPT ![job[w]] = "verified"]
        /\ truth' = TruthOf(copies')
    BY <1>1, <1>2, <1>3 DEF CompleteRepair, Places
  <2>2. /\ copies[Primary] = "verified" /\ copies'[Primary] = "verified"
        /\ \A t \in Targets : copies[t] = "verified" => copies'[t] = "verified"
    BY <1>1, <1>2, <2>1 DEF TypeOK, Peers
  <2>3. truth' = RepairRequired => \E t \in Peers : copies'[t] # "verified"
    BY <2>1, <2>2, TruthsDiffer DEF TruthOf, Peers
  <2> QED
    BY <1>1, <1>2, <2>2, <2>3 DEF RepairInv, RepairIsPossible, Peers
<1>4. CASE FailRepair(w)
  <2>1. /\ job[w] \in Peers /\ truth' = RepairRequired
        /\ copies' = [copies EXCEPT ![job[w]] =
                        IF @ \in {"pending", "failed"} THEN "failed" ELSE @]
    BY <1>1, <1>2, <1>4 DEF FailRepair, Places
  <2>2. copies[Primary] = "verified" /\ copies[job[w]] # "verified" /\ Live(Primary) = {}
    BY <1>1, <1>2, <2>1 DEF Peers
  <2>3. copies'[Primary] = "verified" /\ copies'[job[w]] # "verified"
    BY <1>1, <2>1, <2>2 DEF TypeOK, Peers
  <2> QED
    BY <1>1, <1>2, <2>1, <2>2, <2>3 DEF RepairInv, RepairIsPossible, Peers
<1>5. CASE Invalidate(w)
  <2>1. w \in Retainers /\ unchecked[w] \subseteq Peers /\ unchecked[w] # {}
    BY <1>1, <1>5 DEF Invalidate, Places
  <2>2. job[w] = Primary
    BY <1>1, <1>2, <2>1 DEF JobsOK
  <2>3. \A t \in Targets : copies[t] = "verified"
    BY <1>1, <1>2, <2>2
  <2>4. copies' = [t \in Targets |->
                     IF t \in unchecked[w] /\ copies[t] = "verified" THEN "failed" ELSE copies[t]]
    BY <1>5 DEF Invalidate
  <2>5. copies'[Primary] = "verified" /\ \E t \in Peers : copies'[t] # "verified"
    BY <1>1, <2>1, <2>3, <2>4 DEF Peers
  <2>6. Live(Primary)' = {}
    BY <1>1, <1>2, <2>2
  <2> QED
    BY <1>1, <1>2, <2>5, <2>6 DEF RepairInv, RepairIsPossible, Peers
<1>6. CASE CompleteRetention(w)
  <2>1. job[w] = Primary /\ Peers # {}
    BY <1>1, <1>2, <1>6 DEF CompleteRetention, JobsOK
  <2>2. \A t \in Targets : copies[t] = "verified"
    BY <1>1, <1>2, <2>1
  <2>3. truth' = Cleaned
    BY <1>6, <2>1, <2>2 DEF CompleteRetention, Peers
  <2>4. Live(Primary)' = {} /\ \A t \in Peers : Live(t)' = {}
    BY <1>1, <1>2, <2>1, <2>2 DEF Peers
  <2> QED
    BY <1>1, <1>2, <2>3, <2>4, TruthsDiffer DEF RepairInv, RepairIsPossible
<1>7. CASE FailRetention(w)
  <2>1. UNCHANGED <<copies, truth>>
    BY <1>7 DEF FailRetention
  <2> QED
    BY <1>1, <1>2, <2>1 DEF RepairInv, RepairIsPossible, Peers, Calm
<1> QED
  BY <1>3, <1>4, <1>5, <1>6, <1>7 DEF Records

LEMMA NextRepairInv ==
  ASSUME Peers # {}
  PROVE  Ground /\ RepairInv /\ RepairIsPossible /\ [Next]_vars
           => RepairInv' /\ RepairIsPossible'
<1> SUFFICES ASSUME Ground, RepairInv, RepairIsPossible, [Next]_vars
             PROVE  RepairInv' /\ RepairIsPossible'
  OBVIOUS
<1>1. TypeOK /\ JobsOK /\ seen \subseteq seen'
  BY NextAttemptsStep DEF Ground, AttemptsStep
<1>2. CASE ~Calm'
  BY <1>2 DEF Calm, RepairInv, RepairIsPossible
<1>3. CASE Calm'
  <2>1. Calm
    BY <1>1, <1>3 DEF Calm
  <2>2. active' = active
    <3>1. \A t \in Targets : ~Deactivate(t)
      BY <1>3 DEF Calm, Deactivate, Disturb
    <3>2. (\E w \in Workers : Work(w) \/ Crash(w)) => active' = active
      BY <1>1, WorkerSteps
    <3>3. Tick \/ UNCHANGED vars => active' = active
      BY DEF Tick, vars
    <3> QED
      BY <3>1, <3>2, <3>3 DEF Next
  <2>3. CASE UNCHANGED databaseVars
    BY <2>1, <2>2, <2>3 DEF databaseVars, Calm, RepairInv, RepairIsPossible, Live
  <2>4. ASSUME NEW w \in Workers,
               ClaimRepair(w) \/ ClaimRetention(w) \/ RetentionBlocked(w)
        PROVE  RepairInv' /\ RepairIsPossible'
    BY <1>3, <2>1, <2>2, <2>4, ClaimKeepsRepair
  <2>5. ASSUME NEW w \in Workers, Records(w)
        PROVE  RepairInv' /\ RepairIsPossible'
    BY <2>1, <2>5, RecordKeepsRepair
  <2> QED
    BY <1>1, <2>3, <2>4, <2>5, DatabaseSteps
<1> QED
  BY <1>2, <1>3

(* An object whose repair is required has a replica to repair and a primary  *)
(* to repair it from: failRepair, failRetention and the retention's claim    *)
(* require a repair only then. A route has to have a replica for that: one   *)
(* without, whose days are over, is marked by the retention's claim all the  *)
(* same, which the assumption Peers # {} leaves out.                         *)
THEOREM RepairIsPossibleHolds == Peers # {} => (Spec => []RepairIsPossible)
<1> SUFFICES ASSUME Peers # {} PROVE Spec => []RepairIsPossible
  OBVIOUS
<1>1. Ground /\ RepairInv /\ RepairIsPossible /\ [Next]_vars
        => RepairInv' /\ RepairIsPossible'
  BY NextRepairInv
<1> QED
  BY <1>1, InitRepairInv, GroundHolds, PTL DEF Spec


=============================================================================
