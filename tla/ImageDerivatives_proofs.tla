----------------------- MODULE ImageDerivatives_proofs -----------------------
(***************************************************************************)
(* Proofs about ImageDerivatives, for any jobs of any sources, any number of *)
(* workers, any limit of attempts and any disturbances: its types, what      *)
(* backs the lineage, the bounded jobs it implements, and where the bytes of *)
(* a verified output are.                                                    *)
(***************************************************************************)
EXTENDS ImageDerivatives, TLAPS

-----------------------------------------------------------------------------
(* Types, and what a worker may know of its claim.                           *)

Busy(w) == pc[w] # "idle"

(* A busy worker has a job, under a token that the job's row has reached.    *)
ClaimsOK ==
  \A w \in Workers : Busy(w) =>
    job[w] \in Jobs /\ token[w] \in 1 .. MaxAttempts /\ token[w] <= attempts[job[w]]

Basics == TypeOK /\ ClaimsOK

LEMMA ResultsAreTyped ==
  ASSUME NEW content \in Contents
  PROVE  \A result \in AfterPut("exact", content) \cup AfterHead(content)
                         \cup AfterDelete \cup AfterLostDelete(content) :
           /\ result.step \in WriterSteps /\ result.content \in Contents
           /\ result.step = "verified" => result.content = "exact"
<1>1. content = "absent" \/ content = "exact"
  BY DEF Contents
<1>2. \A result \in AfterPut("exact", content) :
        /\ result.step \in WriterSteps /\ result.content \in Contents
        /\ result.step = "verified" => result.content = "exact"
  BY <1>1 DEF AfterPut, Result, WriterSteps, Contents
<1>3. \A result \in AfterHead(content) :
        /\ result.step \in WriterSteps /\ result.content \in Contents
        /\ result.step = "verified" => result.content = "exact"
  BY <1>1 DEF AfterHead, Result, WriterSteps, Contents
<1>4. \A result \in AfterDelete \cup AfterLostDelete(content) :
        /\ result.step \in WriterSteps /\ result.content \in Contents
        /\ result.step = "verified" => result.content = "exact"
  BY <1>1 DEF AfterDelete, AfterLostDelete, Result, WriterSteps, Contents
<1> QED
  BY <1>2, <1>3, <1>4

(* A step of a provider write.                                               *)
WriteStep(w) ==
  /\ pc[w] = "writing"
  /\ \E next \in WriterSteps : \E content \in Contents :
       /\ step' = [step EXCEPT ![w] = next]
       /\ stored' = [stored EXCEPT ![job[w]] = content]
       /\ next = "verified" => content = "exact"
       /\ \/ \E again \in BOOLEAN : CleanUpWrite(w, again)
          \/ UNCHANGED <<pc, retryable, inner>>
  /\ UNCHANGED <<source, jobRows, outputRows, job, token, disturbed>>

LEMMA ProviderStepsWrite ==
  ASSUME Basics, NEW w \in Workers, PutObject(w) \/ HeadObject(w) \/ UndoWrite(w)
  PROVE  WriteStep(w)
<1>1. Content(w) \in Contents
  BY DEF PutObject, HeadObject, UndoWrite, Progress, Basics, ClaimsOK, TypeOK, Content, Busy
<1>2. ASSUME NEW from, NEW results, Progress(w, from, results),
             \A result \in results :
               /\ result.step \in WriterSteps /\ result.content \in Contents
               /\ result.step = "verified" => result.content = "exact"
      PROVE  WriteStep(w)
  BY <1>2 DEF Progress, WriteStep
<1> QED
  BY <1>1, <1>2, ResultsAreTyped DEF PutObject, HeadObject, UndoWrite

LEMMA InitBasics == Init => Basics
<1> SUFFICES ASSUME Init PROVE Basics
  OBVIOUS
<1>1. 0 \in 0 .. MaxAttempts
  BY DerivativeAssumption
<1>2. /\ state \in [Jobs -> JobStates] /\ attempts \in [Jobs -> 0 .. MaxAttempts]
      /\ stored \in [Jobs -> Contents]
  BY <1>1 DEF Init, JobStates, Contents
<1>3. /\ pc \in [Workers -> Phases] /\ token \in [Workers -> 0 .. MaxAttempts]
      /\ step \in [Workers -> WriterSteps]
  BY <1>1 DEF Init, Phases, WriterSteps
<1>4. TypeOK
  BY <1>2, <1>3 DEF Init, TypeOK
<1>5. ClaimsOK
  BY DEF Init, ClaimsOK, Busy
<1> QED
  BY <1>4, <1>5 DEF Basics

(* What a claim does to the rows.                                            *)
Claims(w) ==
  \E final \in SUBSET Jobs :
    /\ \A f \in final : Lost(f) /\ attempts[f] >= MaxAttempts
    /\ \/ EndAll(final) /\ UNCHANGED workVars
       \/ \E j \in Jobs : Eligible(j) /\ Active(j) /\ Take(w, j, final)
    /\ pc[w] = "idle"
    /\ UNCHANGED <<source, outputRows, stored, disturbed>>

LEMMA ClaimNextClaims ==
  ASSUME NEW w \in Workers, ClaimNext(w) PROVE Claims(w)
<1>1. PICK locked \in SUBSET Contended(w) :
        \/ Candidates(locked) = {} /\ EndAll(Final(locked)) /\ UNCHANGED workVars
        \/ \E j \in Candidates(locked) : Active(j) /\ Take(w, j, Final(locked))
  BY DEF ClaimNext
<1>2. /\ Final(locked) \in SUBSET Jobs
      /\ \A f \in Final(locked) : Lost(f) /\ attempts[f] >= MaxAttempts
      /\ \A j \in Candidates(locked) : j \in Jobs /\ Eligible(j)
  BY DEF Final, Candidates
<1> HIDE DEF Final, Candidates
<1> QED
  BY <1>1, <1>2 DEF ClaimNext, Claims

LEMMA ClaimsTyped ==
  ASSUME Basics, NEW w \in Workers, Claims(w) PROVE Basics'
<1> USE DEF jobRows, outputRows, workVars
<1>1. PICK final \in SUBSET Jobs :
        /\ \A f \in final : Lost(f) /\ attempts[f] >= MaxAttempts
        /\ \/ EndAll(final) /\ UNCHANGED workVars
           \/ \E j \in Jobs : Eligible(j) /\ Active(j) /\ Take(w, j, final)
        /\ pc[w] = "idle"
        /\ UNCHANGED <<source, outputRows, stored, disturbed>>
  BY DEF Claims
<1>2. CASE EndAll(final) /\ UNCHANGED workVars
  BY <1>1, <1>2 DEF EndAll, Basics, TypeOK, ClaimsOK, Lost, JobStates, Busy
<1>3. ASSUME NEW j \in Jobs, Eligible(j), Take(w, j, final) PROVE Basics'
  <2>1. /\ attempts[j] \in 0 .. MaxAttempts /\ attempts[j] < MaxAttempts
        /\ attempts[j] + 1 \in 1 .. MaxAttempts /\ MaxAttempts \in Nat
    BY <1>3, DerivativeAssumption DEF Basics, TypeOK, Eligible
  <2>2. attempts' = [attempts EXCEPT ![j] = attempts[j] + 1]
    BY <1>3 DEF Take
  <2>3. /\ state' \in [Jobs -> JobStates] /\ lease' \in [Jobs -> {"none", "live", "over"}]
        /\ retry' \in [Jobs -> {"none", "waiting", "due"}]
        /\ attempts' \in [Jobs -> 0 .. MaxAttempts]
    BY <1>3, <2>1, <2>2 DEF Take, Basics, TypeOK, JobStates
  <2>4. \A i \in Jobs : /\ (lease'[i] # "none") <=> (state'[i] = "processing")
                        /\ retry'[i] # "none" => state'[i] = "failed"
    BY <1>1, <1>3 DEF Take, Basics, TypeOK, Lost
  <2>5. /\ pc' = [pc EXCEPT ![w] = "claimed"] /\ job' = [job EXCEPT ![w] = j]
        /\ token' = [token EXCEPT ![w] = attempts[j] + 1]
    BY <1>3 DEF Take, Move
  <2>6. /\ pc' \in [Workers -> Phases] /\ job' \in [Workers -> Jobs \cup {NoJob}]
        /\ token' \in [Workers -> 0 .. MaxAttempts]
    BY <2>1, <2>5 DEF Basics, TypeOK, Phases
  <2>7. TypeOK'
    BY <1>1, <1>3, <2>3, <2>4, <2>6 DEF Take, Basics, TypeOK
  <2>8. ClaimsOK'
    <3> SUFFICES ASSUME NEW v \in Workers, Busy(v)'
                 PROVE  /\ job'[v] \in Jobs /\ token'[v] \in 1 .. MaxAttempts
                        /\ token'[v] <= attempts'[job'[v]]
      BY DEF ClaimsOK
    <3>1. CASE v = w
      BY <2>1, <2>2, <2>5, <3>1 DEF Basics, TypeOK
    <3>2. CASE v # w
      <4>1. /\ job[v] \in Jobs /\ token[v] \in 1 .. MaxAttempts /\ token[v] <= attempts[job[v]]
            /\ job'[v] = job[v] /\ token'[v] = token[v]
        BY <2>5, <3>2 DEF Basics, TypeOK, ClaimsOK, Busy
      <4>2. attempts[job[v]] \in Nat /\ attempts'[job[v]] >= attempts[job[v]]
        BY <2>1, <2>2, <4>1 DEF Basics, TypeOK
      <4>3. attempts'[job[v]] \in Nat
        BY <2>3, <4>1
      <4> QED
        BY <4>1, <4>2, <4>3
    <3> QED
      BY <3>1, <3>2
  <2> QED
    BY <2>7, <2>8 DEF Basics
<1> QED
  BY <1>1, <1>2, <1>3

(* A worker's progress, as far as its types are concerned: it is idle        *)
(* afterwards or keeps its claim.                                            *)
KeepsClaims(w) ==
  /\ attempts' = attempts
  /\ \A v \in Workers \ {w} : pc'[v] = pc[v] /\ job'[v] = job[v] /\ token'[v] = token[v]
  /\ pc'[w] = "idle" \/ (Busy(w) /\ job'[w] = job[w] /\ token'[w] = token[w])

LEMMA KeptClaimsOK ==
  ASSUME Basics, NEW w \in Workers, KeepsClaims(w) PROVE ClaimsOK'
BY DEF Basics, ClaimsOK, KeepsClaims, Busy

LEMMA ReturnTyped ==
  ASSUME Basics, NEW w \in Workers, Return(w), attempts' = attempts
  PROVE  /\ pc' \in [Workers -> Phases] /\ job' \in [Workers -> Jobs \cup {NoJob}]
         /\ token' \in [Workers -> 0 .. MaxAttempts] /\ step' \in [Workers -> WriterSteps]
         /\ retryable' \in [Workers -> BOOLEAN] /\ inner' \in [Workers -> BOOLEAN]
         /\ KeepsClaims(w)
<1>1. 0 \in 0 .. MaxAttempts
  BY DerivativeAssumption
<1> QED
  BY <1>1 DEF Return, Move, Basics, TypeOK, Phases, WriterSteps, KeepsClaims

(* A worker that goes on, or catches an error.                               *)
Goes(w) ==
  /\ Busy(w)
  /\ \E to \in Phases : Move(w, to)
  /\ \/ UNCHANGED retryable
     \/ \E again \in BOOLEAN : retryable' = [retryable EXCEPT ![w] = again]
  /\ \/ UNCHANGED inner
     \/ \E within \in BOOLEAN : inner' = [inner EXCEPT ![w] = within]
  /\ UNCHANGED <<job, token, attempts>>

LEMMA GoesTyped ==
  ASSUME Basics, NEW w \in Workers, Goes(w)
  PROVE  /\ pc' \in [Workers -> Phases]
         /\ retryable' \in [Workers -> BOOLEAN] /\ inner' \in [Workers -> BOOLEAN]
         /\ KeepsClaims(w)
<1>1. PICK to \in Phases : pc' = [pc EXCEPT ![w] = to]
  BY DEF Goes, Move
<1>2. pc' \in [Workers -> Phases] /\ \A v \in Workers \ {w} : pc'[v] = pc[v]
  BY <1>1 DEF Basics, TypeOK
<1>3. retryable' \in [Workers -> BOOLEAN]
  BY DEF Goes, Basics, TypeOK
<1>4. inner' \in [Workers -> BOOLEAN]
  BY DEF Goes, Basics, TypeOK
<1> QED
  BY <1>2, <1>3, <1>4 DEF Goes, KeepsClaims

(* The steps of a worker at its job.                                         *)
LEMMA WorkTyped ==
  ASSUME Basics, NEW w \in Workers, Work(w) \/ DatabaseFails(w) \/ Crash(w)
  PROVE  Basics'
<1> USE DEF jobRows, outputRows
<1>1. ASSUME SourceAuthority(w) \/ ReadAndProcess(w) \/ NothingToClean(w)
      PROVE  Basics'
  <2>1. Goes(w)
    BY <1>1
       DEF SourceAuthority, ReadAndProcess, Processed, SourceInterrupted, ImageRejected,
           NothingToClean, Throw, Goes, Busy, HasLease, Move, Phases
  <2>2. UNCHANGED <<source, jobRows, outputRows, stored, step, disturbed>>
    BY <1>1 DEF SourceAuthority, ReadAndProcess, NothingToClean
  <2> QED
    BY <2>1, <2>2, GoesTyped, KeptClaimsOK DEF Goes, Basics, TypeOK
<1>2. ASSUME ReserveOutput(w) PROVE Basics'
  <2>1. Goes(w)
    BY <1>2 DEF ReserveOutput, IsVerified, Throw, Goes, Busy, Move, Phases
  <2>2. /\ output' \in [Jobs -> {"none", "reserved", "degraded", "active"}]
        /\ copy' \in [Jobs -> {"none", "pending", "failed", "verified"}]
        /\ step' \in [Workers -> WriterSteps]
    <3>1. output' = output \/ output' = [output EXCEPT ![job[w]] = "reserved"]
      BY <1>2 DEF ReserveOutput
    <3>2. copy' = copy \/ copy' = [copy EXCEPT ![job[w]] = "pending"]
      BY <1>2 DEF ReserveOutput
    <3>3. step' = step \/ step' = [step EXCEPT ![w] = "resolved"]
      BY <1>2 DEF ReserveOutput
    <3> QED
      BY <3>1, <3>2, <3>3 DEF Basics, TypeOK, WriterSteps
  <2>3. disturbed' \in BOOLEAN
    BY <1>2 DEF ReserveOutput, Disturb, Basics, TypeOK
  <2> QED
    BY <1>2, <2>1, <2>2, <2>3, GoesTyped, KeptClaimsOK DEF Goes, ReserveOutput, Basics, TypeOK
<1>3. ASSUME WriteStep(w) PROVE Basics'
  <2> PICK next \in WriterSteps, content \in Contents :
        /\ step' = [step EXCEPT ![w] = next]
        /\ stored' = [stored EXCEPT ![job[w]] = content]
    BY <1>3 DEF WriteStep
  <2>1. /\ step' \in [Workers -> WriterSteps] /\ stored' \in [Jobs -> Contents]
    BY DEF Basics, TypeOK
  <2>2. \/ Goes(w)
        \/ UNCHANGED <<pc, retryable, inner, job, token, attempts>>
    BY <1>3 DEF WriteStep, CleanUpWrite, Move, Goes, Busy, Phases
  <2>3. CASE Goes(w)
    BY <1>3, <2>1, <2>3, GoesTyped, KeptClaimsOK DEF Goes, WriteStep, Basics, TypeOK
  <2>4. CASE UNCHANGED <<pc, retryable, inner, job, token, attempts>>
    BY <1>3, <2>1, <2>4 DEF WriteStep, Basics, TypeOK, ClaimsOK, Busy
  <2> QED
    BY <2>2, <2>3, <2>4
<1>4. ASSUME MarkOutputVerified(w) PROVE Basics'
  <2>1. Goes(w)
    BY <1>4 DEF MarkOutputVerified, CleanUpWrite, Goes, Busy, Move, Phases
  <2>2. /\ output' \in [Jobs -> {"none", "reserved", "degraded", "active"}]
        /\ copy' \in [Jobs -> {"none", "pending", "failed", "verified"}]
    <3>1. output' = output \/ output' = [output EXCEPT ![job[w]] = "active"]
      BY <1>4 DEF MarkOutputVerified
    <3>2. copy' = copy \/ copy' = [copy EXCEPT ![job[w]] = "verified"]
      BY <1>4 DEF MarkOutputVerified
    <3> QED
      BY <3>1, <3>2 DEF Basics, TypeOK
  <2>3. disturbed' \in BOOLEAN
    BY <1>4 DEF MarkOutputVerified, Disturb, Basics, TypeOK
  <2> QED
    BY <1>4, <2>1, <2>2, <2>3, GoesTyped, KeptClaimsOK DEF Goes, MarkOutputVerified, Basics, TypeOK
<1>5. ASSUME Complete(w) PROVE Basics'
  <2>1. /\ disturbed' \in {disturbed, TRUE}
        /\ UNCHANGED <<source, attempts, output, copy, stored>>
        /\ \/ UNCHANGED <<lineage, state, lease, retry>>
           \/ /\ lineage' = lineage \cup {job[w]}
              /\ state' = [state EXCEPT ![job[w]] = "succeeded"]
              /\ lease' = [lease EXCEPT ![job[w]] = "none"]
              /\ retry' = [retry EXCEPT ![job[w]] = "none"]
    BY <1>5 DEF Complete, IsVerified, Disturb
  <2>2. /\ state' \in [Jobs -> JobStates] /\ lease' \in [Jobs -> {"none", "live", "over"}]
        /\ retry' \in [Jobs -> {"none", "waiting", "due"}]
        /\ lineage' \subseteq Jobs /\ disturbed' \in BOOLEAN
        /\ \A j \in Jobs : /\ (lease'[j] # "none") <=> (state'[j] = "processing")
                           /\ retry'[j] # "none" => state'[j] = "failed"
    <3>1. job[w] \in Jobs
      BY <1>5 DEF Complete, Basics, ClaimsOK, Busy
    <3>2. disturbed' \in BOOLEAN
      BY <2>1 DEF Basics, TypeOK
    <3>3. CASE UNCHANGED <<lineage, state, lease, retry>>
      BY <3>2, <3>3 DEF Basics, TypeOK
    <3>4. CASE ~UNCHANGED <<lineage, state, lease, retry>>
      BY <2>1, <3>1, <3>2, <3>4 DEF Basics, TypeOK, JobStates
    <3> QED
      BY <3>3, <3>4
  <2>3. Return(w) \/ (Goes(w) /\ UNCHANGED step)
    BY <1>5 DEF Complete, IsVerified, Throw, Goes, Busy, Move, Phases, HasLease
  <2>4. CASE Return(w)
    BY <2>1, <2>2, <2>4, ReturnTyped, KeptClaimsOK DEF Basics, TypeOK
  <2>5. CASE Goes(w) /\ UNCHANGED step
    BY <2>1, <2>2, <2>5, GoesTyped, KeptClaimsOK DEF Goes, Basics, TypeOK
  <2> QED
    BY <2>3, <2>4, <2>5
<1>6. ASSUME DeleteOutput(w) PROVE Basics'
  <2>1. Goes(w)
    BY <1>6 DEF DeleteOutput, Goes, Busy, Move, Phases
  <2>2. stored' \in [Jobs -> Contents]
    BY <1>6 DEF DeleteOutput, Basics, TypeOK, Contents
  <2> QED
    BY <1>6, <2>1, <2>2, GoesTyped, KeptClaimsOK DEF DeleteOutput, Goes, Basics, TypeOK
<1>7. ASSUME MarkOutputFailed(w) PROVE Basics'
  <2>1. Goes(w)
    BY <1>7 DEF MarkOutputFailed, AfterDegrading, Goes, Busy, Move, Phases
  <2>2. /\ output' \in [Jobs -> {"none", "reserved", "degraded", "active"}]
        /\ copy' \in [Jobs -> {"none", "pending", "failed", "verified"}]
    BY <1>7 DEF MarkOutputFailed, Basics, TypeOK
  <2> QED
    BY <1>7, <2>1, <2>2, GoesTyped, KeptClaimsOK DEF MarkOutputFailed, Goes, Basics, TypeOK
<1>8. ASSUME Fail(w) PROVE Basics'
  <2>1. /\ state' \in [Jobs -> JobStates] /\ lease' \in [Jobs -> {"none", "live", "over"}]
        /\ retry' \in [Jobs -> {"none", "waiting", "due"}]
    BY <1>8 DEF Fail, Basics, TypeOK, JobStates
  <2>2. \A j \in Jobs : /\ (lease'[j] # "none") <=> (state'[j] = "processing")
                        /\ retry'[j] # "none" => state'[j] = "failed"
    BY <1>8 DEF Fail, Basics, TypeOK
  <2>3. Return(w) /\ UNCHANGED <<source, attempts, output, copy, lineage, stored, disturbed>>
    BY <1>8 DEF Fail
  <2> QED
    BY <2>1, <2>2, <2>3, ReturnTyped, KeptClaimsOK DEF Basics, TypeOK
<1>9. ASSUME DatabaseFails(w) PROVE Basics'
  <2>1. \/ Return(w)
        \/ Goes(w) /\ UNCHANGED step
    BY <1>9
       DEF DatabaseFails, Throw, CleanUpWrite, AfterDegrading, Goes, Busy, Move, Phases
  <2>2. disturbed' \in BOOLEAN /\ UNCHANGED <<source, jobRows, outputRows, stored>>
    BY <1>9 DEF DatabaseFails, Disturb
  <2>3. CASE Return(w)
    BY <2>2, <2>3, ReturnTyped, KeptClaimsOK DEF Basics, TypeOK
  <2>4. CASE Goes(w) /\ UNCHANGED step
    BY <2>2, <2>4, GoesTyped, KeptClaimsOK DEF Goes, Basics, TypeOK
  <2> QED
    BY <2>1, <2>3, <2>4
<1>10. ASSUME Crash(w) PROVE Basics'
  <2>1. disturbed' \in BOOLEAN /\ Return(w) /\ UNCHANGED <<source, jobRows, outputRows, stored>>
    BY <1>10 DEF Crash, Disturb
  <2> QED
    BY <2>1, ReturnTyped, KeptClaimsOK DEF Basics, TypeOK
<1> QED
  BY <1>1, <1>2, <1>3, <1>4, <1>5, <1>6, <1>7, <1>8, <1>9, <1>10, ProviderStepsWrite DEF Work

LEMMA NextBasics == Basics /\ [Next]_vars => Basics'
<1> SUFFICES ASSUME Basics, [Next]_vars PROVE Basics'
  OBVIOUS
<1> USE DEF jobRows, outputRows, workVars
<1>1. ASSUME NEW o \in Sources, EnqueueVerifiedSource(o) PROVE Basics'
  BY <1>1 DEF EnqueueVerifiedSource, Basics, TypeOK, ClaimsOK, Busy, JobStates
<1>2. ASSUME NEW o \in Sources, DegradeSource(o) \/ RepairSource(o) PROVE Basics'
  BY <1>2 DEF DegradeSource, RepairSource, Disturb, Basics, TypeOK, ClaimsOK, Busy
<1>3. ASSUME NEW w \in Workers, ClaimNext(w) PROVE Basics'
  BY <1>3, ClaimNextClaims, ClaimsTyped
<1>4. ASSUME NEW w \in Workers, Work(w) \/ DatabaseFails(w) \/ Crash(w) PROVE Basics'
  BY <1>4, WorkTyped
<1>5. ASSUME NEW j \in Jobs, LeaseEnds(j) PROVE Basics'
  BY <1>5 DEF LeaseEnds, Disturb, Basics, TypeOK, ClaimsOK, Busy
<1>6. ASSUME NEW j \in Jobs, RetryDue(j) PROVE Basics'
  BY <1>6 DEF RetryDue, Basics, TypeOK, ClaimsOK, Busy
<1>7. CASE UNCHANGED vars
  BY <1>7 DEF vars, Basics, TypeOK, ClaimsOK, Busy
<1> QED
  BY <1>1, <1>2, <1>3, <1>4, <1>5, <1>6, <1>7 DEF Next

LEMMA BasicsHold == Spec => []Basics
BY InitBasics, NextBasics, PTL DEF Spec

(* Rows, objects and workers keep their types; a job has a lease exactly     *)
(* while it is being processed, and a time of retry only after a failure     *)
(* (image-derivative-postgres-recovery.ts:236).                              *)
THEOREM TypeCorrect == Spec => []TypeOK
<1>1. Basics => TypeOK
  BY DEF Basics
<1> QED
  BY <1>1, BasicsHold, PTL

-----------------------------------------------------------------------------
(* What the steps do to the lineage, the output and its copy.                *)

LEMMA WorkBacked ==
  ASSUME Basics, LineageIsBacked, NEW w \in Workers, Work(w) \/ DatabaseFails(w) \/ Crash(w)
  PROVE  LineageIsBacked'
<1> USE DEF jobRows, outputRows
<1>1. Busy(w) => job[w] \in Jobs
  BY DEF Basics, ClaimsOK
<1>2. CASE UNCHANGED <<state, output, copy, lineage>>
  BY <1>2 DEF LineageIsBacked
<1>3. ASSUME ReserveOutput(w) PROVE LineageIsBacked'
  <2>1. \/ UNCHANGED <<output, copy>>
        \/ /\ output[job[w]] = "none"
           /\ output' = [output EXCEPT ![job[w]] = "reserved"]
           /\ copy' = [copy EXCEPT ![job[w]] = "pending"]
    BY <1>3 DEF ReserveOutput
  <2>2. job[w] \in Jobs /\ UNCHANGED <<state, lineage>>
    BY <1>1, <1>3 DEF ReserveOutput, Busy
  <2> QED
    BY <2>1, <2>2 DEF LineageIsBacked, Basics, TypeOK
<1>4. ASSUME MarkOutputVerified(w) PROVE LineageIsBacked'
  <2>1. \/ UNCHANGED <<output, copy>>
        \/ /\ output' = [output EXCEPT ![job[w]] = "active"]
           /\ copy' = [copy EXCEPT ![job[w]] = "verified"]
    BY <1>4 DEF MarkOutputVerified
  <2>2. job[w] \in Jobs /\ UNCHANGED <<state, lineage>>
    BY <1>1, <1>4 DEF MarkOutputVerified, Busy
  <2> QED
    BY <2>1, <2>2 DEF LineageIsBacked, Basics, TypeOK
<1>5. ASSUME Complete(w) PROVE LineageIsBacked'
  <2>1. /\ UNCHANGED <<output, copy>>
        /\ \/ UNCHANGED <<lineage, state>>
           \/ /\ copy[job[w]] = "verified"
              /\ lineage' = lineage \cup {job[w]}
              /\ state' = [state EXCEPT ![job[w]] = "succeeded"]
    BY <1>5 DEF Complete, IsVerified
  <2>2. job[w] \in Jobs
    BY <1>1, <1>5 DEF Complete, Busy
  <2> QED
    BY <2>1, <2>2 DEF LineageIsBacked, Basics, TypeOK
<1>6. ASSUME MarkOutputFailed(w) PROVE LineageIsBacked'
  BY <1>1, <1>6 DEF MarkOutputFailed, Busy, LineageIsBacked, Basics, TypeOK
<1>7. ASSUME Fail(w) PROVE LineageIsBacked'
  <2>1. /\ UNCHANGED <<output, copy, lineage>>
        /\ \/ UNCHANGED state
           \/ /\ state[job[w]] = "processing"
              /\ state' = [state EXCEPT ![job[w]] = "failed"]
    BY <1>7 DEF Fail, HasLease
  <2>2. job[w] \in Jobs
    BY <1>1, <1>7 DEF Fail, Busy
  <2> QED
    BY <2>1, <2>2 DEF LineageIsBacked, Basics, TypeOK
<1>8. \/ UNCHANGED <<state, output, copy, lineage>>
      \/ ReserveOutput(w) \/ MarkOutputVerified(w) \/ Complete(w)
      \/ MarkOutputFailed(w) \/ Fail(w)
  BY DEF Work, DatabaseFails, Crash, SourceAuthority, ReadAndProcess, NothingToClean,
         DeleteOutput, PutObject, HeadObject, UndoWrite, Progress
<1> QED
  BY <1>2, <1>3, <1>4, <1>5, <1>6, <1>7, <1>8

LEMMA NextBacked ==
  Basics /\ LineageIsBacked /\ [Next]_vars => LineageIsBacked'
<1> SUFFICES ASSUME Basics, LineageIsBacked, [Next]_vars PROVE LineageIsBacked'
  OBVIOUS
<1> USE DEF jobRows, outputRows
<1>1. ASSUME NEW o \in Sources, EnqueueVerifiedSource(o) PROVE LineageIsBacked'
  BY <1>1 DEF EnqueueVerifiedSource, LineageIsBacked, Basics, TypeOK
<1>2. ASSUME NEW w \in Workers, ClaimNext(w) PROVE LineageIsBacked'
  <2>1. UNCHANGED <<output, copy, lineage>>
    BY <1>2 DEF ClaimNext
  <2>2. \A j \in Jobs : (state'[j] = "succeeded") <=> (state[j] = "succeeded")
    BY <1>2, ClaimNextClaims
       DEF Claims, EndAll, Take, Lost, Eligible, Basics, TypeOK
  <2> QED
    BY <2>1, <2>2 DEF LineageIsBacked
<1>3. CASE UNCHANGED <<state, output, copy, lineage>>
  BY <1>3 DEF LineageIsBacked
<1>4. \/ UNCHANGED <<state, output, copy, lineage>>
      \/ \E o \in Sources : EnqueueVerifiedSource(o)
      \/ \E w \in Workers : ClaimNext(w) \/ Work(w) \/ DatabaseFails(w) \/ Crash(w)
  BY DEF Next, vars, DegradeSource, RepairSource, LeaseEnds, RetryDue
<1> QED
  BY <1>1, <1>2, <1>3, <1>4, WorkBacked

(* What is published is an active object with a verified copy, of a job that *)
(* succeeded: completion reads the output's rows under their locks, and      *)
(* neither a cleanup nor a worker without a lease takes a verification back  *)
(* (image-derivative-postgres-recovery.ts:296,                               *)
(* image-derivative-postgres.ts:837).                                        *)
THEOREM LineageIsBackedHolds == Spec => []LineageIsBacked
<1>1. Init => LineageIsBacked
  BY DEF Init, LineageIsBacked
<1> QED
  BY <1>1, NextBacked, BasicsHold, PTL DEF Spec

-----------------------------------------------------------------------------
(* The jobs are the bounded tries of BoundedJobs.                            *)

Tried == [j \in Jobs |-> JobOf(j)]

LEMMA InitBoundedJobs == Init => Abstract!Init
BY DEF Init, Abstract!Init, JobOf

(* A claim is a look for work.                                               *)
LEMMA ClaimLooks ==
  ASSUME Basics, NEW w \in Workers, Claims(w)
  PROVE  \E lost \in SUBSET Jobs : \E taken \in {{}} \cup {{j} : j \in Jobs} :
           Abstract!Look(lost, taken)
<1>1. PICK final \in SUBSET Jobs :
        /\ \A f \in final : Lost(f) /\ attempts[f] >= MaxAttempts
        /\ \/ EndAll(final)
           \/ \E j \in Jobs : Eligible(j) /\ Active(j) /\ Take(w, j, final)
  BY DEF Claims
<1>2. \A f \in final : JobOf(f) = "running" /\ attempts[f] = MaxAttempts
  BY <1>1, DerivativeAssumption DEF Lost, JobOf, Basics, TypeOK
<1>3. CASE EndAll(final)
  <2>1. /\ \A j \in Jobs : JobOf(j)' = IF j \in final THEN "abandoned" ELSE JobOf(j)
        /\ attempts' = [j \in Jobs |-> attempts[j]]
    BY <1>1, <1>3 DEF EndAll, JobOf, Basics, TypeOK, Lost
  <2>2. Abstract!Look(final, {})
    BY <1>2, <2>1 DEF Abstract!Look
  <2> QED
    BY <2>2
<1>4. ASSUME NEW j \in Jobs, Eligible(j), Take(w, j, final)
      PROVE  Abstract!Look(final, {j})
  <2>1. JobOf(j) \in {"open", "running"} /\ attempts[j] < MaxAttempts /\ j \notin final
    BY <1>1, <1>4, DerivativeAssumption DEF Eligible, Lost, JobOf, Basics, TypeOK
  <2>2. \A i \in Jobs : JobOf(i)' = IF i \in final THEN "abandoned"
                                    ELSE IF i = j THEN "running" ELSE JobOf(i)
    BY <1>1, <1>4, <2>1 DEF Take, JobOf, Basics, TypeOK, Lost
  <2>3. attempts' = [i \in Jobs |-> IF i \in {j} THEN attempts[i] + 1 ELSE attempts[i]]
    BY <1>4 DEF Take, Basics, TypeOK
  <2> QED
    BY <1>2, <2>1, <2>2, <2>3 DEF Abstract!Look
<1> QED
  BY <1>1, <1>3, <1>4

(* An attempt that ends well publishes, and one that fails is a miss.        *)
LEMMA CompletePublishes ==
  ASSUME Basics, NEW w \in Workers, Complete(w)
  PROVE  \E j \in Jobs : Abstract!Publish(j) \/ UNCHANGED <<Tried, attempts>>
<1>1. /\ job[w] \in Jobs /\ attempts' = attempts
      /\ \/ UNCHANGED <<state, retry>>
         \/ /\ state[job[w]] = "processing"
            /\ state' = [state EXCEPT ![job[w]] = "succeeded"]
            /\ retry' = [retry EXCEPT ![job[w]] = "none"]
  BY DEF Complete, Basics, ClaimsOK, Busy, HasLease
<1>2. CASE UNCHANGED <<state, retry>>
  BY <1>1, <1>2 DEF Tried, JobOf
<1>3. CASE ~UNCHANGED <<state, retry>>
  <2>1. JobOf(job[w]) = "running"
    BY <1>1, <1>3 DEF JobOf
  <2>2. Tried' = [Tried EXCEPT ![job[w]] = "published"]
    <3>1. \A j \in Jobs : JobOf(j)' = IF j = job[w] THEN "published" ELSE JobOf(j)
      BY <1>1, <1>3 DEF JobOf, Basics, TypeOK
    <3> QED
      BY <1>1, <3>1 DEF Tried
  <2>3. Abstract!Publish(job[w])
    BY <1>1, <2>1, <2>2 DEF Tried, Abstract!Publish
  <2> QED
    BY <1>1, <2>3
<1> QED
  BY <1>2, <1>3

LEMMA FailMisses ==
  ASSUME Basics, NEW w \in Workers, Fail(w)
  PROVE  \E j \in Jobs : Abstract!Miss(j) \/ UNCHANGED <<Tried, attempts>>
<1> DEFINE again == retryable[w] /\ token[w] < MaxAttempts
<1>1. /\ job[w] \in Jobs /\ attempts' = attempts
      /\ \/ UNCHANGED <<state, retry>>
         \/ /\ state[job[w]] = "processing" /\ attempts[job[w]] = token[w]
            /\ state' = [state EXCEPT ![job[w]] = "failed"]
            /\ retry' = [retry EXCEPT ![job[w]] = IF again THEN "waiting" ELSE "none"]
  BY DEF Fail, Basics, ClaimsOK, Busy, HasLease
<1> HIDE DEF again
<1>2. CASE UNCHANGED <<state, retry>>
  BY <1>1, <1>2 DEF Tried, JobOf
<1>3. CASE ~UNCHANGED <<state, retry>>
  <2>1. JobOf(job[w]) = "running"
    BY <1>1, <1>3 DEF JobOf
  <2>2. Tried' = [Tried EXCEPT ![job[w]] = IF again THEN "open" ELSE "abandoned"]
    <3>1. \A j \in Jobs : JobOf(j)' = IF j = job[w]
                                      THEN IF again THEN "open" ELSE "abandoned"
                                      ELSE JobOf(j)
      BY <1>1, <1>3 DEF JobOf, Basics, TypeOK
    <3> QED
      BY <1>1, <3>1 DEF Tried
  <2>3. again => attempts[job[w]] < MaxAttempts
    BY <1>1, <1>3 DEF again
  <2>4. Abstract!Miss(job[w])
    BY <1>1, <2>1, <2>2, <2>3 DEF Tried, Abstract!Miss
  <2> QED
    BY <1>1, <2>4
<1> QED
  BY <1>2, <1>3

LEMMA StepImplementsBoundedJobs ==
  Basics /\ [Next]_vars => [Abstract!Next]_(Abstract!jobVars)
<1> SUFFICES ASSUME Basics, [Next]_vars
             PROVE  Abstract!Next \/ UNCHANGED <<Tried, attempts>>
  BY DEF Abstract!jobVars, Tried
<1> USE DEF jobRows
<1>1. CASE UNCHANGED <<state, retry, attempts>>
  BY <1>1 DEF Tried, JobOf
<1>2. ASSUME NEW o \in Sources, EnqueueVerifiedSource(o) PROVE Abstract!Next
  <2>1. PICK derived \in SUBSET Jobs :
          /\ derived # {} /\ \A j \in derived : state[j] = "none"
          /\ state' = [j \in Jobs |-> IF j \in derived THEN "queued" ELSE state[j]]
          /\ UNCHANGED <<attempts, retry>>
    BY <1>2 DEF EnqueueVerifiedSource
  <2>2. \A j \in Jobs : JobOf(j)' = IF j \in derived THEN "open" ELSE JobOf(j)
    BY <2>1 DEF JobOf
  <2>3. \A j \in derived : JobOf(j) = "none"
    BY <2>1 DEF JobOf
  <2>4. Abstract!Open(derived)
    BY <2>1, <2>2, <2>3 DEF Abstract!Open
  <2> QED
    BY <2>4 DEF Abstract!Next
<1>3. ASSUME NEW w \in Workers, ClaimNext(w) PROVE Abstract!Next
  BY <1>3, ClaimNextClaims, ClaimLooks DEF Abstract!Next
<1>4. ASSUME NEW w \in Workers, Complete(w)
      PROVE  Abstract!Next \/ UNCHANGED <<Tried, attempts>>
  BY <1>4, CompletePublishes DEF Abstract!Next
<1>5. ASSUME NEW w \in Workers, Fail(w)
      PROVE  Abstract!Next \/ UNCHANGED <<Tried, attempts>>
  BY <1>5, FailMisses DEF Abstract!Next
<1>6. ASSUME NEW j \in Jobs, RetryDue(j) PROVE UNCHANGED <<Tried, attempts>>
  BY <1>6 DEF RetryDue, Tried, JobOf, Basics, TypeOK
<1>7. \/ UNCHANGED <<state, retry, attempts>>
      \/ \E o \in Sources : EnqueueVerifiedSource(o)
      \/ \E w \in Workers : ClaimNext(w) \/ Complete(w) \/ Fail(w)
      \/ \E j \in Jobs : RetryDue(j)
  BY DEF Next, vars, Work, DegradeSource, RepairSource, LeaseEnds, DatabaseFails, Crash,
         SourceAuthority, ReadAndProcess, ReserveOutput, PutObject, HeadObject, UndoWrite,
         Progress, MarkOutputVerified, NothingToClean, DeleteOutput, MarkOutputFailed
<1> QED
  BY <1>1, <1>2, <1>3, <1>4, <1>5, <1>6, <1>7

(* Whatever workers, leases, crashes and lost answers do, a job is a bounded *)
(* number of tries, one after the other, that ends once: attempt_count grows *)
(* with a claim only, never past the maximum, and a row that has ended is    *)
(* not eligible again (image-derivative-postgres-recovery.ts:236).           *)
THEOREM JobsImplementBoundedJobs == Spec => ImplementsBoundedJobs
BY InitBoundedJobs, InitBasics, NextBasics, StepImplementsBoundedJobs, PTL
   DEF Spec, ImplementsBoundedJobs, Abstract!Spec

-----------------------------------------------------------------------------
(* A run in which nothing but a provider has failed.                         *)

BusyHaveLeases == \A w \in Workers : Busy(w) => HasLease(w)

AloneAtJob == \A v, w \in Workers : Busy(v) /\ Busy(w) /\ job[v] = job[w] => v = w

EnqueuedAreActive == \A j \in Jobs : state[j] # "none" => Active(j)

CompletingIsVerified == \A w \in Workers : pc[w] = "completing" => copy[job[w]] = "verified"

WrittenIsStored ==
  \A w \in Workers : pc[w] = "writing" /\ step[w] = "verified" => stored[job[w]] = "exact"

(* A verified output is where it was written, and its job has succeeded or   *)
(* is about to.                                                              *)
VerifiedIsHeld ==
  \A j \in Jobs : copy[j] = "verified" =>
    /\ stored[j] = "exact"
    /\ state[j] = "succeeded" \/ \E w \in Workers : pc[w] = "completing" /\ job[w] = j

Calm ==
  /\ BusyHaveLeases /\ AloneAtJob /\ EnqueuedAreActive
  /\ CompletingIsVerified /\ WrittenIsStored /\ VerifiedIsHeld

Quiet == ~disturbed => Calm

LEMMA InitQuiet == Init => Quiet
BY DEF Init, Quiet, Calm, BusyHaveLeases, AloneAtJob, EnqueuedAreActive, CompletingIsVerified,
       WrittenIsStored, VerifiedIsHeld, Busy

LEMMA DisturbedForGood == Basics /\ [Next]_vars /\ ~disturbed' => ~disturbed
BY DEF Basics, TypeOK, Next, vars, Work, EnqueueVerifiedSource, DegradeSource, RepairSource,
       ClaimNext, LeaseEnds, RetryDue, DatabaseFails, Crash, SourceAuthority, ReadAndProcess,
       ReserveOutput, PutObject, HeadObject, UndoWrite, Progress, MarkOutputVerified, Complete,
       NothingToClean, DeleteOutput, MarkOutputFailed, Fail, Disturb

(* Only the worker at a job changes what belongs to it, and nobody is at a   *)
(* job that has succeeded.                                                   *)
LEMMA OwnersOnly ==
  ASSUME Basics, Calm, NEW w \in Workers, Busy(w)
  PROVE  /\ job[w] \in Jobs /\ HasLease(w) /\ Active(job[w])
         /\ state[job[w]] = "processing"
         /\ \A v \in Workers \ {w} : Busy(v) => job[v] # job[w]
         /\ copy[job[w]] = "verified" <=> pc[w] = "completing"
<1>1. job[w] \in Jobs /\ HasLease(w) /\ state[job[w]] = "processing"
  BY DEF Basics, ClaimsOK, Calm, BusyHaveLeases, HasLease
<1>2. Active(job[w])
  BY <1>1 DEF Calm, EnqueuedAreActive
<1>3. \A v \in Workers \ {w} : Busy(v) => job[v] # job[w]
  BY DEF Calm, AloneAtJob
<1>4. copy[job[w]] = "verified" => pc[w] = "completing"
  BY <1>1, <1>3 DEF Calm, VerifiedIsHeld, Busy
<1>5. pc[w] = "completing" => copy[job[w]] = "verified"
  BY DEF Calm, CompletingIsVerified
<1> QED
  BY <1>1, <1>2, <1>3, <1>4, <1>5

(* A worker goes on within its attempt, and the job's rows stay.             *)
LEMMA GoesOnCalm ==
  ASSUME Basics, Calm, NEW w \in Workers, NEW to \in Phases \ {"idle"},
         Busy(w), pc' = [pc EXCEPT ![w] = to],
         UNCHANGED <<source, jobRows, job, token>>,
         \A j \in Jobs \ {job[w]} : copy'[j] = copy[j] /\ stored'[j] = stored[j],
         \A v \in Workers \ {w} : step'[v] = step[v],
         copy'[job[w]] = "verified" => stored'[job[w]] = "exact",
         copy'[job[w]] = "verified" <=> to = "completing",
         to = "writing" /\ step'[w] = "verified" => stored'[job[w]] = "exact"
  PROVE  Calm'
<1> USE DEF jobRows
<1>1. pc'[w] = to /\ \A v \in Workers \ {w} : pc'[v] = pc[v]
  BY DEF Basics, TypeOK
<1>2. \A v \in Workers : Busy(v)' <=> Busy(v)
  BY <1>1 DEF Busy
<1>3. BusyHaveLeases' /\ AloneAtJob' /\ EnqueuedAreActive'
  BY <1>2 DEF Calm, BusyHaveLeases, AloneAtJob, EnqueuedAreActive, HasLease, Active
<1>4. /\ job[w] \in Jobs
      /\ \A v \in Workers \ {w} : Busy(v) => job[v] \in Jobs /\ job[v] # job[w]
  BY OwnersOnly DEF Basics, ClaimsOK
<1>5. CompletingIsVerified'
  BY <1>1, <1>4 DEF Calm, CompletingIsVerified, Busy
<1>6. WrittenIsStored'
  BY <1>1, <1>4 DEF Calm, WrittenIsStored, Busy
<1>7. VerifiedIsHeld'
  <2> SUFFICES ASSUME NEW j \in Jobs, copy'[j] = "verified"
               PROVE  /\ stored'[j] = "exact"
                      /\ \/ state[j] = "succeeded"
                         \/ \E v \in Workers : pc'[v] = "completing" /\ job[v] = j
    BY DEF VerifiedIsHeld
  <2>1. CASE j = job[w]
    BY <1>1, <2>1
  <2>2. CASE j # job[w]
    BY <1>1, <2>2 DEF Calm, VerifiedIsHeld
  <2> QED
    BY <2>1, <2>2
<1> QED
  BY <1>3, <1>5, <1>6, <1>7 DEF Calm

(* A worker returns, and leaves a row that is no longer processed.           *)
LEMMA ReturnsCalm ==
  ASSUME Basics, Calm, NEW w \in Workers, Busy(w), Return(w),
         NEW ended \in JobStates \ {"none", "processing"},
         state' = [state EXCEPT ![job[w]] = ended],
         \A j \in Jobs \ {job[w]} : lease'[j] = lease[j],
         UNCHANGED <<source, attempts, copy, stored>>,
         pc[w] = "completing" => ended = "succeeded"
  PROVE  Calm'
<1>1. /\ pc'[w] = "idle" /\ job[w] \in Jobs
      /\ \A v \in Workers \ {w} :
           pc'[v] = pc[v] /\ job'[v] = job[v] /\ token'[v] = token[v] /\ step'[v] = step[v]
  BY OwnersOnly DEF Return, Move, Basics, TypeOK
<1>2. \A v \in Workers \ {w} : Busy(v) => job[v] \in Jobs /\ job[v] # job[w]
  BY OwnersOnly DEF Basics, ClaimsOK
<1>3. \A v \in Workers : Busy(v)' <=> Busy(v) /\ v # w
  BY <1>1 DEF Busy
<1>4. /\ \A j \in Jobs \ {job[w]} : state'[j] = state[j]
      /\ state'[job[w]] = ended
  BY <1>1 DEF Basics, TypeOK
<1>5. BusyHaveLeases'
  BY <1>1, <1>2, <1>3, <1>4 DEF Calm, BusyHaveLeases, HasLease
<1>6. AloneAtJob'
  BY <1>1, <1>3 DEF Calm, AloneAtJob
<1>7. EnqueuedAreActive'
  BY <1>4, OwnersOnly DEF Calm, EnqueuedAreActive, Active
<1>8. CompletingIsVerified' /\ WrittenIsStored'
  BY <1>1, <1>3 DEF Calm, CompletingIsVerified, WrittenIsStored, Busy
<1>9. VerifiedIsHeld'
  <2> SUFFICES ASSUME NEW j \in Jobs, copy[j] = "verified"
               PROVE  /\ stored[j] = "exact"
                      /\ \/ state'[j] = "succeeded"
                         \/ \E v \in Workers : pc'[v] = "completing" /\ job'[v] = j
    BY DEF VerifiedIsHeld
  <2>1. stored[j] = "exact"
    BY DEF Calm, VerifiedIsHeld
  <2>2. CASE j = job[w]
    BY <1>4, <2>1, <2>2, OwnersOnly
  <2>3. CASE j # job[w]
    BY <1>1, <1>4, <2>1, <2>3 DEF Calm, VerifiedIsHeld
  <2> QED
    BY <2>2, <2>3
<1> QED
  BY <1>5, <1>6, <1>7, <1>8, <1>9 DEF Calm

LEMMA WorkCalm ==
  ASSUME Basics, LineageIsBacked, Calm, ~disturbed', NEW w \in Workers, Work(w)
  PROVE  Calm'
<1> USE DEF jobRows, outputRows
<1>0. Busy(w)
  BY DEF Work, Busy, SourceAuthority, ReadAndProcess, ReserveOutput, PutObject, HeadObject,
         UndoWrite, Progress, MarkOutputVerified, Complete, NothingToClean, DeleteOutput,
         MarkOutputFailed, Fail
<1>1. /\ job[w] \in Jobs /\ HasLease(w) /\ Active(job[w]) /\ state[job[w]] = "processing"
      /\ copy[job[w]] = "verified" <=> pc[w] = "completing"
  BY <1>0, OwnersOnly
<1>2. ASSUME SourceAuthority(w) \/ ReadAndProcess(w) \/ NothingToClean(w)
      PROVE  Calm'
  <2>1. PICK to \in Phases \ {"idle", "completing", "writing"} : Move(w, to)
    BY <1>2 DEF SourceAuthority, ReadAndProcess, Processed, SourceInterrupted, ImageRejected,
                NothingToClean, Throw, Move, Phases
  <2>2. UNCHANGED <<source, jobRows, job, token, copy, stored, step>>
    BY <1>2 DEF SourceAuthority, ReadAndProcess, NothingToClean
  <2>3. copy[job[w]] # "verified"
    BY <1>1, <1>2 DEF SourceAuthority, ReadAndProcess, NothingToClean
  <2> QED
    BY <1>0, <2>1, <2>2, <2>3, GoesOnCalm DEF Move
<1>3. ASSUME ReserveOutput(w) PROVE Calm'
  <2>1. /\ copy[job[w]] # "verified"
        /\ UNCHANGED <<source, jobRows, job, token, stored>>
    BY <1>1, <1>3 DEF ReserveOutput
  <2>2. copy' = copy \/ copy' = [copy EXCEPT ![job[w]] = "pending"]
    BY <1>3 DEF ReserveOutput
  <2>3. step' = step \/ step' = [step EXCEPT ![w] = "resolved"]
    BY <1>3 DEF ReserveOutput
  <2>4. PICK to \in Phases \ {"idle", "completing"} :
          Move(w, to) /\ (to = "writing" => step' = [step EXCEPT ![w] = "resolved"])
    BY <1>3, <2>1 DEF ReserveOutput, IsVerified, Throw, Move, Phases
  <2>5. /\ copy'[job[w]] # "verified"
        /\ \A j \in Jobs \ {job[w]} : copy'[j] = copy[j]
    BY <1>1, <2>1, <2>2 DEF Basics, TypeOK
  <2>6. /\ \A v \in Workers \ {w} : step'[v] = step[v]
        /\ to = "writing" => step'[w] # "verified"
    BY <2>3, <2>4 DEF Basics, TypeOK
  <2> QED
    BY <1>0, <2>1, <2>4, <2>5, <2>6, GoesOnCalm DEF Move
<1>4. ASSUME WriteStep(w) PROVE Calm'
  <2>1. PICK next \in WriterSteps, content \in Contents :
          /\ step' = [step EXCEPT ![w] = next]
          /\ stored' = [stored EXCEPT ![job[w]] = content]
          /\ next = "verified" => content = "exact"
    BY <1>4 DEF WriteStep
  <2>2. /\ copy[job[w]] # "verified"
        /\ UNCHANGED <<source, jobRows, job, token, copy>>
    BY <1>1, <1>4 DEF WriteStep
  <2>3. PICK to \in {"writing", "deleting"} : pc' = [pc EXCEPT ![w] = to]
    BY <1>4 DEF WriteStep, CleanUpWrite, Move, Basics, TypeOK
  <2>4. /\ step'[w] = next /\ stored'[job[w]] = content
        /\ \A v \in Workers \ {w} : step'[v] = step[v]
        /\ \A j \in Jobs \ {job[w]} : stored'[j] = stored[j]
    BY <1>1, <2>1 DEF Basics, TypeOK
  <2>5. to \in Phases \ {"idle", "completing"}
    BY DEF Phases
  <2> QED
    BY <1>0, <2>1, <2>2, <2>3, <2>4, <2>5, GoesOnCalm
<1>5. ASSUME MarkOutputVerified(w) PROVE Calm'
  <2>1. /\ copy' = [copy EXCEPT ![job[w]] = "verified"]
        /\ pc' = [pc EXCEPT ![w] = "completing"]
        /\ UNCHANGED <<source, jobRows, stored, job, token, step>>
    BY <1>1, <1>5 DEF MarkOutputVerified, Disturb, Move
  <2>2. stored[job[w]] = "exact"
    BY <1>5 DEF MarkOutputVerified, Calm, WrittenIsStored
  <2>3. /\ copy'[job[w]] = "verified" /\ \A j \in Jobs \ {job[w]} : copy'[j] = copy[j]
    BY <1>1, <2>1 DEF Basics, TypeOK
  <2>4. "completing" \in Phases \ {"idle"}
    BY DEF Phases
  <2> QED
    BY <1>0, <2>1, <2>2, <2>3, <2>4, GoesOnCalm
<1>6. ASSUME Complete(w) PROVE Calm'
  <2>1. copy[job[w]] = "verified" /\ output[job[w]] = "active"
    BY <1>1, <1>6 DEF Complete, LineageIsBacked
  <2>2. /\ Return(w) /\ UNCHANGED <<source, attempts, copy, stored>>
        /\ state' = [state EXCEPT ![job[w]] = "succeeded"]
        /\ lease' = [lease EXCEPT ![job[w]] = "none"]
    BY <1>1, <1>6, <2>1 DEF Complete, IsVerified, Disturb
  <2>3. \A j \in Jobs \ {job[w]} : lease'[j] = lease[j]
    BY <2>2 DEF Basics, TypeOK
  <2>4. "succeeded" \in JobStates \ {"none", "processing"}
    BY DEF JobStates
  <2> QED
    BY <1>0, <2>2, <2>3, <2>4, ReturnsCalm
<1>7. ASSUME DeleteOutput(w) PROVE Calm'
  <2>1. /\ copy[job[w]] # "verified" /\ Move(w, "degrading")
        /\ UNCHANGED <<source, jobRows, job, token, step, copy>>
    BY <1>1, <1>7 DEF DeleteOutput
  <2>2. \A j \in Jobs \ {job[w]} : stored'[j] = stored[j]
    BY <1>7 DEF DeleteOutput, Basics, TypeOK
  <2>3. "degrading" \in Phases \ {"idle", "completing", "writing"}
    BY DEF Phases
  <2> QED
    BY <1>0, <2>1, <2>2, <2>3, GoesOnCalm DEF Move
<1>8. ASSUME MarkOutputFailed(w) PROVE Calm'
  <2>1. /\ copy[job[w]] # "verified"
        /\ copy' = [copy EXCEPT ![job[w]] = "failed"]
        /\ UNCHANGED <<source, jobRows, job, token, step, stored>>
    BY <1>1, <1>8 DEF MarkOutputFailed
  <2>2. PICK to \in {"cleaning", "failing"} : Move(w, to)
    BY <1>8 DEF MarkOutputFailed, AfterDegrading
  <2>3. /\ copy'[job[w]] # "verified" /\ \A j \in Jobs \ {job[w]} : copy'[j] = copy[j]
    BY <1>1, <2>1 DEF Basics, TypeOK
  <2>4. to \in Phases \ {"idle", "completing", "writing"}
    BY DEF Phases
  <2> QED
    BY <1>0, <2>1, <2>2, <2>3, <2>4, GoesOnCalm DEF Move
<1>9. ASSUME Fail(w) PROVE Calm'
  <2>1. /\ pc[w] = "failing" /\ Return(w)
        /\ UNCHANGED <<source, attempts, copy, stored>>
        /\ state' = [state EXCEPT ![job[w]] = "failed"]
        /\ lease' = [lease EXCEPT ![job[w]] = "none"]
    BY <1>1, <1>9 DEF Fail
  <2>2. \A j \in Jobs \ {job[w]} : lease'[j] = lease[j]
    BY <2>1 DEF Basics, TypeOK
  <2>3. "failed" \in JobStates \ {"none", "processing"}
    BY DEF JobStates
  <2> QED
    BY <1>0, <2>1, <2>2, <2>3, ReturnsCalm
<1> QED
  BY <1>2, <1>3, <1>4, <1>5, <1>6, <1>7, <1>8, <1>9, ProviderStepsWrite DEF Work

(* A claim takes a job that nobody is at.                                    *)
LEMMA ClaimCalm ==
  ASSUME Basics, Calm, NEW w \in Workers, Claims(w)
  PROVE  Calm'
<1> USE DEF jobRows, outputRows, workVars
<1>1. PICK final \in SUBSET Jobs :
        /\ \A f \in final : Lost(f)
        /\ \/ EndAll(final) /\ UNCHANGED workVars
           \/ \E j \in Jobs : Eligible(j) /\ Active(j) /\ Take(w, j, final)
        /\ pc[w] = "idle"
        /\ UNCHANGED <<source, copy, stored>>
  BY DEF Claims
<1>2. \A v \in Workers : Busy(v) => job[v] \in Jobs /\ job[v] \notin final
                                    /\ HasLease(v) /\ ~Eligible(job[v])
  BY <1>1, OwnersOnly DEF Lost, HasLease, Eligible
<1>3. \A j \in Jobs : copy[j] = "verified" => ~Eligible(j) /\ j \notin final
  BY <1>1, <1>2 DEF Calm, VerifiedIsHeld, Busy, Eligible, Lost
<1>4. CASE EndAll(final) /\ UNCHANGED workVars
  <2>1. /\ \A j \in Jobs \ final : state'[j] = state[j] /\ lease'[j] = lease[j]
        /\ \A f \in final : state[f] = "processing"
        /\ attempts' = attempts
    BY <1>1, <1>4 DEF EndAll, Lost
  <2>2. BusyHaveLeases' /\ AloneAtJob'
    BY <1>2, <1>4, <2>1 DEF Calm, BusyHaveLeases, AloneAtJob, HasLease, Busy
  <2>3. EnqueuedAreActive' /\ CompletingIsVerified' /\ WrittenIsStored'
    BY <1>1, <1>4, <2>1
       DEF Calm, EnqueuedAreActive, CompletingIsVerified, WrittenIsStored, Active
  <2>4. VerifiedIsHeld'
    BY <1>1, <1>3, <1>4, <2>1 DEF Calm, VerifiedIsHeld
  <2> QED
    BY <2>2, <2>3, <2>4 DEF Calm
<1>5. ASSUME NEW j \in Jobs, Eligible(j), Active(j), Take(w, j, final) PROVE Calm'
  <2>1. /\ \A i \in Jobs \ (final \cup {j}) : state'[i] = state[i] /\ lease'[i] = lease[i]
        /\ \A f \in final : state[f] = "processing"
        /\ state'[j] = "processing" /\ lease'[j] = "live"
        /\ attempts' = [attempts EXCEPT ![j] = attempts[j] + 1]
    BY <1>1, <1>5 DEF Take, Lost
  <2>2. attempts'[j] = attempts[j] + 1 /\ \A i \in Jobs \ {j} : attempts'[i] = attempts[i]
    BY <2>1 DEF Basics, TypeOK
  <2>3. /\ pc'[w] = "claimed" /\ job'[w] = j /\ token'[w] = attempts[j] + 1
        /\ step' = step
        /\ \A v \in Workers \ {w} :
             pc'[v] = pc[v] /\ job'[v] = job[v] /\ token'[v] = token[v]
    BY <1>5 DEF Take, Move, Basics, TypeOK
  <2>4. \A v \in Workers \ {w} : (Busy(v)' <=> Busy(v)) /\ (Busy(v) => job[v] # j)
    BY <1>2, <1>5, <2>3 DEF Busy
  <2>5. BusyHaveLeases'
    <3> SUFFICES ASSUME NEW v \in Workers, Busy(v)' PROVE HasLease(v)'
      BY DEF BusyHaveLeases
    <3>1. CASE v = w
      BY <2>1, <2>2, <2>3, <3>1 DEF HasLease
    <3>2. CASE v # w
      <4>1. job[v] \in Jobs \ (final \cup {j}) /\ HasLease(v)
        BY <1>2, <2>4, <3>2
      <4> QED
        BY <2>1, <2>2, <2>3, <3>2, <4>1 DEF HasLease
    <3> QED
      BY <3>1, <3>2
  <2>6. AloneAtJob'
    <3> SUFFICES ASSUME NEW u \in Workers, NEW v \in Workers, Busy(u)', Busy(v)',
                        job'[u] = job'[v]
                 PROVE  u = v
      BY DEF AloneAtJob
    <3>1. CASE u = w \/ v = w
      BY <2>3, <2>4, <3>1
    <3>2. CASE u # w /\ v # w
      BY <2>3, <2>4, <3>2 DEF Calm, AloneAtJob
    <3> QED
      BY <3>1, <3>2
  <2>7. EnqueuedAreActive'
    BY <1>1, <1>5, <2>1 DEF Calm, EnqueuedAreActive, Active
  <2>8. CompletingIsVerified' /\ WrittenIsStored'
    BY <1>1, <2>3 DEF Calm, CompletingIsVerified, WrittenIsStored
  <2>9. VerifiedIsHeld'
    <3> SUFFICES ASSUME NEW i \in Jobs, copy[i] = "verified"
                 PROVE  /\ stored[i] = "exact"
                        /\ \/ state'[i] = "succeeded"
                           \/ \E v \in Workers : pc'[v] = "completing" /\ job'[v] = i
      BY <1>1 DEF VerifiedIsHeld
    <3>1. i \notin final \cup {j}
      BY <1>3, <1>5
    <3>2. \/ state[i] = "succeeded"
          \/ \E v \in Workers \ {w} : pc[v] = "completing" /\ job[v] = i
      BY <1>1 DEF Calm, VerifiedIsHeld
    <3>3. stored[i] = "exact"
      BY DEF Calm, VerifiedIsHeld
    <3> QED
      BY <2>1, <2>3, <3>1, <3>2, <3>3
  <2> QED
    BY <2>5, <2>6, <2>7, <2>8, <2>9 DEF Calm
<1> QED
  BY <1>1, <1>4, <1>5

LEMMA NextQuiet ==
  Basics /\ LineageIsBacked /\ Quiet /\ [Next]_vars => Quiet'
<1> SUFFICES ASSUME Basics, LineageIsBacked, Quiet, [Next]_vars, ~disturbed' PROVE Calm'
  BY DEF Quiet
<1> USE DEF jobRows, outputRows, workVars
<1>1. Calm
  BY DisturbedForGood DEF Quiet
<1>2. ASSUME NEW o \in Sources, EnqueueVerifiedSource(o) PROVE Calm'
  <2>1. PICK derived \in SUBSET Jobs :
          /\ \A j \in derived : state[j] = "none" /\ Active(j)
          /\ state' = [j \in Jobs |-> IF j \in derived THEN "queued" ELSE state[j]]
          /\ UNCHANGED <<source, attempts, lease, copy, stored, workVars>>
    BY <1>2 DEF EnqueueVerifiedSource, Active
  <2>2. \A w \in Workers : Busy(w) => job[w] \in Jobs \ derived
    BY <1>1, <2>1, OwnersOnly
  <2>3. BusyHaveLeases' /\ AloneAtJob'
    BY <1>1, <2>1, <2>2 DEF Calm, BusyHaveLeases, AloneAtJob, HasLease, Busy
  <2>4. EnqueuedAreActive' /\ CompletingIsVerified' /\ WrittenIsStored'
    BY <1>1, <2>1
       DEF Calm, EnqueuedAreActive, CompletingIsVerified, WrittenIsStored, Active
  <2>5. VerifiedIsHeld'
    BY <1>1, <2>1 DEF Calm, VerifiedIsHeld
  <2> QED
    BY <2>3, <2>4, <2>5 DEF Calm
<1>3. ASSUME NEW o \in Sources, RepairSource(o) PROVE Calm'
  <2>1. /\ \A j \in Jobs : Active(j) => Active(j)'
        /\ UNCHANGED <<jobRows, copy, stored, workVars>>
    BY <1>3, DerivativeAssumption DEF RepairSource, Active, Basics, TypeOK
  <2> QED
    BY <1>1, <2>1
       DEF Calm, BusyHaveLeases, AloneAtJob, EnqueuedAreActive, CompletingIsVerified,
           WrittenIsStored, VerifiedIsHeld, HasLease, Busy
<1>4. ASSUME NEW w \in Workers, ClaimNext(w) PROVE Calm'
  BY <1>1, <1>4, ClaimNextClaims, ClaimCalm
<1>5. ASSUME NEW w \in Workers, Work(w) PROVE Calm'
  BY <1>1, <1>5, WorkCalm
<1>6. ASSUME NEW j \in Jobs, LeaseEnds(j) PROVE Calm'
  <2>1. /\ \A w \in Workers : Busy(w) /\ job[w] = j => ~HasLease(w)
        /\ lease' = [lease EXCEPT ![j] = "over"]
        /\ UNCHANGED <<source, state, attempts, copy, stored, workVars>>
    BY <1>6 DEF LeaseEnds, Disturb, Busy
  <2>2. BusyHaveLeases'
    BY <1>1, <2>1 DEF Calm, BusyHaveLeases, HasLease, Busy, Basics, TypeOK
  <2> QED
    BY <1>1, <2>1, <2>2
       DEF Calm, AloneAtJob, EnqueuedAreActive, CompletingIsVerified, WrittenIsStored,
           VerifiedIsHeld, Active, Busy
<1>7. CASE UNCHANGED <<source, state, attempts, lease, copy, stored, workVars>>
  BY <1>1, <1>7
     DEF Calm, BusyHaveLeases, AloneAtJob, EnqueuedAreActive, CompletingIsVerified,
         WrittenIsStored, VerifiedIsHeld, HasLease, Active, Busy
<1>8. \/ UNCHANGED <<source, state, attempts, lease, copy, stored, workVars>>
      \/ \E o \in Sources : EnqueueVerifiedSource(o) \/ RepairSource(o)
      \/ \E w \in Workers : ClaimNext(w) \/ Work(w)
      \/ \E j \in Jobs : LeaseEnds(j)
  BY DEF Next, vars, DegradeSource, DatabaseFails, Crash, RetryDue, Disturb
<1> QED
  BY <1>2, <1>3, <1>4, <1>5, <1>6, <1>7, <1>8

(* As long as nothing but a provider has failed, an output recorded as       *)
(* verified is at its provider, although the cleanup after an error deletes  *)
(* without asking whether it is (image-derivative-provider.ts:152): the one  *)
(* worker at a job has its lease, and completes a verified output without an *)
(* error between.                                                            *)
THEOREM VerifiedIsStoredHolds == Spec => []VerifiedIsStored
<1>1. Quiet => VerifiedIsStored
  BY DEF Quiet, Calm, VerifiedIsHeld, VerifiedIsStored
<1>2. Init => LineageIsBacked
  BY DEF Init, LineageIsBacked
<1> QED
  BY <1>1, <1>2, InitQuiet, NextQuiet, NextBacked, BasicsHold, PTL DEF Spec

=============================================================================
