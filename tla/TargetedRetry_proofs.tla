----------------------- MODULE TargetedRetry_proofs -----------------------
(***************************************************************************)
(* Proofs about TargetedRetry, for any copies, any number of retries and any *)
(* disturbances: its types, who works at a copy, what its attempts tell of   *)
(* it, what becomes of a verified copy, and what the truth may claim.        *)
(***************************************************************************)
EXTENDS TargetedRetry, SequenceTheorems, TLAPS

-----------------------------------------------------------------------------
(* The actions of one retry, and what most of them leave alone.              *)

AttemptStates == {"in_progress", "succeeded", "failed"}

(* A step at the provider.                                                   *)
WriterStep(r) ==
  /\ phase[r] = "writing"
  /\ \E next \in WriterSteps : \E content \in Contents :
       /\ step' = [step EXCEPT ![r] = next]
       /\ stored' = [stored EXCEPT ![target[r]] = content]
       /\ next \in {"stored", "verified"} => content = "exact"
  /\ UNCHANGED <<databaseVars, phase, target, expected, reserved, attempt, peers, seen>>

(* A retry that ends without a change of any row: before it has reserved the *)
(* copy, after a disturbance, or because the rows are not as it left them.    *)
Ends(r) ==
  /\ InFlight(r)
  /\ phase[r] = "called" \/ seen' # {} \/ ~Recordable(r)
  /\ phase' = [phase EXCEPT ![r] = "done"]
  /\ UNCHANGED <<databaseVars, stored, target, expected, reserved, attempt, step, peers>>

(* What a writer may come to know and leave, if it sends the exact bytes.     *)
IsResult(result) ==
  /\ result.step \in WriterSteps /\ result.content \in Contents
  /\ result.step \in {"stored", "verified"} => result.content = "exact"

LEMMA ResultsAreTyped ==
  ASSUME NEW content \in Contents
  PROVE  /\ \A result \in AfterPut("exact", content) : IsResult(result)
         /\ \A result \in AfterHead(content) : IsResult(result)
         /\ \A result \in AfterDelete \cup AfterLostDelete(content) : IsResult(result)
<1>1. content = "absent" \/ content = "exact"
  BY DEF Contents
<1>2. \A result \in AfterPut("exact", content) : IsResult(result)
  BY <1>1 DEF AfterPut, Result, IsResult, WriterSteps, Contents
<1>3. \A result \in AfterHead(content) : IsResult(result)
  BY <1>1 DEF AfterHead, Result, IsResult, WriterSteps, Contents
<1>4. \A result \in AfterDelete \cup AfterLostDelete(content) : IsResult(result)
  BY <1>1 DEF AfterDelete, AfterLostDelete, Result, IsResult, WriterSteps, Contents
<1> QED
  BY <1>2, <1>3, <1>4

LEMMA ProviderStepsWrite ==
  ASSUME NEW r \in Retries, TypeOK,
         phase[r] = "writing" => target[r] \in Targets,
         PutObject(r) \/ HeadObject(r) \/ Cleanup(r)
  PROVE  WriterStep(r)
<1>1. ASSUME NEW from, NEW results, Progress(r, from, results),
             \A result \in results : IsResult(result)
      PROVE  WriterStep(r)
  BY <1>1 DEF Progress, IsResult, WriterStep
<1>2. Content(r) \in Contents
  BY DEF TypeOK, Content, PutObject, HeadObject, Cleanup, Progress
<1> QED
  BY <1>1, <1>2, ResultsAreTyped DEF PutObject, HeadObject, Cleanup

LEMMA ConflictsEnd ==
  ASSUME NEW r \in Retries, ReserveConflict(r) \/ ResolveFails(r) \/ CompleteConflict(r)
  PROVE  Ends(r) /\ seen \subseteq seen' /\ seen' \subseteq seen \cup Disturbances
BY DEF ReserveConflict, ResolveFails, CompleteConflict, Ends, InFlight, Move, Disturb

-----------------------------------------------------------------------------
(* Types, and what a retry may know of the copy it works at.                 *)

TargetOK == \A r \in Retries : InFlight(r) => target[r] \in Targets

(* Between its two transactions the copy is pending at the version it gave   *)
(* it, and the last attempt of the copy is its own.                          *)
Holds(r, t) ==
  /\ copies[t] = "pending"
  /\ copyVersion[t] = expected[r]
  /\ attempt[r] \in 1 .. Len(attempts[t]) /\ attempt[r] = Len(attempts[t])
  /\ attempts[t][attempt[r]] = "in_progress"

WorkOK == \A r \in Retries : Working(r) => Holds(r, target[r])

(* A write has not begun before the reservation, and has an outcome when it  *)
(* is recorded.                                                              *)
OutcomeOK ==
  \A r \in Retries :
    /\ phase[r] \in {"idle", "called"} => step[r] = "resolved"
    /\ phase[r] = "recording" => step[r] \in {"verified", "failed"}

Basics == TypeOK /\ TargetOK /\ WorkOK /\ OutcomeOK /\ OneRetryPerCopy

(* A step is one of these.                                                   *)
Steps ==
  \/ \E r \in Retries :
       \/ \E t \in Targets : Retry(r, t)
       \/ Reserve(r)
       \/ Ends(r) /\ seen \subseteq seen' /\ seen' \subseteq seen \cup Disturbances
       \/ WriterStep(r) \/ ReadCopies(r) \/ Complete(r)
  \/ Crash
  \/ UNCHANGED vars

LEMMA NextSplits == TypeOK /\ TargetOK /\ [Next]_vars => Steps
<1> SUFFICES ASSUME TypeOK, TargetOK, [Next]_vars PROVE Steps
  OBVIOUS
<1>1. ASSUME NEW r \in Retries, PutObject(r) \/ HeadObject(r) \/ Cleanup(r) PROVE Steps
  BY <1>1, ProviderStepsWrite DEF TargetOK, InFlight, Steps
<1>2. ASSUME NEW r \in Retries, ReserveConflict(r) \/ ResolveFails(r) \/ CompleteConflict(r)
      PROVE  Steps
  BY <1>2, ConflictsEnd DEF Steps
<1>3. ASSUME NEW r \in Retries,
             (\E t \in Targets : Retry(r, t)) \/ Reserve(r) \/ ReadCopies(r) \/ Complete(r)
      PROVE  Steps
  BY <1>3 DEF Steps
<1>4. Crash \/ UNCHANGED vars => Steps
  BY DEF Steps
<1> QED
  BY <1>1, <1>2, <1>3, <1>4 DEF Next, Finished

LEMMA InitBasics == Init => Basics
<1> SUFFICES ASSUME Init PROVE Basics
  OBVIOUS
<1>1. copies \in [Targets -> CopyStates]
  BY DEF Init, Outcomes
<1>2. \E c \in [Targets -> CopyStates] : truth = DeriveTruth(c)
  BY <1>1 DEF Init
<1>3. \A t \in Targets : FirstAttempts(copies[t]) \in Seq(AttemptStates)
  <2>1. "succeeded" \in AttemptStates /\ "failed" \in AttemptStates
    BY DEF AttemptStates
  <2> HIDE DEF AttemptStates
  <2>2. /\ <<"succeeded">> \in Seq(AttemptStates) /\ <<"failed">> \in Seq(AttemptStates)
        /\ <<>> \in Seq(AttemptStates)
    BY <2>1
  <2> QED
    BY <2>2 DEF FirstAttempts
<1>4. attempts \in [Targets -> Seq(AttemptStates)]
  BY <1>3 DEF Init
<1>5. /\ configured \in BOOLEAN /\ copyVersion \in [Targets -> Nat] /\ objectVersion \in Nat
      /\ stored \in [Targets -> Contents] /\ seen \subseteq Disturbances
  BY DEF Init
<1>6. /\ phase \in [Retries -> Phases] /\ target \in [Retries -> Targets \cup {NoTarget}]
      /\ expected \in [Retries -> Nat] /\ reserved \in [Retries -> Nat]
      /\ attempt \in [Retries -> Nat] /\ step \in [Retries -> WriterSteps]
      /\ peers \in [Retries -> [Targets -> CopyStates]]
  BY <1>1 DEF Init, Phases, WriterSteps
<1>7. TypeOK
  BY <1>1, <1>2, <1>4, <1>5, <1>6 DEF TypeOK, AttemptStates
<1>8. \A r \in Retries : ~InFlight(r) /\ ~Working(r)
  BY DEF Init, InFlight, Working
<1>9. OutcomeOK
  BY DEF Init, OutcomeOK
<1> QED
  BY <1>7, <1>8, <1>9 DEF Basics, TargetOK, WorkOK, OneRetryPerCopy

(* What the steps of the two transactions do to the rows.                    *)
LEMMA ReserveAppends ==
  ASSUME Basics, NEW r \in Retries, Reserve(r)
  PROVE  LET t == target[r]
         IN /\ t \in Targets
            /\ attempts[t] \in Seq(AttemptStates)
            /\ attempts' = [attempts EXCEPT ![t] = Append(attempts[t], "in_progress")]
            /\ attempts' \in [Targets -> Seq(AttemptStates)]
            /\ Len(attempts'[t]) = Len(attempts[t]) + 1
            /\ attempts'[t][Len(attempts[t]) + 1] = "in_progress"
            /\ \A n \in DOMAIN attempts[t] : attempts'[t][n] = attempts[t][n]
            /\ DOMAIN attempts'[t] = DOMAIN attempts[t] \cup {Len(attempts[t]) + 1}
            /\ attempt' = [attempt EXCEPT ![r] = Len(attempts[t]) + 1]
            /\ Len(attempts[t]) + 1 \in Nat \ {0}
<1> DEFINE t == target[r]
<1>1. t \in Targets
  BY DEF Reserve, Basics, TargetOK, InFlight
<1>2. attempts[t] \in Seq(AttemptStates)
  BY <1>1 DEF Basics, TypeOK, AttemptStates
<1> DEFINE list == Append(attempts[t], "in_progress")
<1>3. /\ list \in Seq(AttemptStates)
      /\ Len(list) = Len(attempts[t]) + 1
      /\ list[Len(attempts[t]) + 1] = "in_progress"
      /\ \A n \in 1 .. Len(attempts[t]) : list[n] = attempts[t][n]
  BY <1>2, AppendProperties DEF AttemptStates
<1>4. /\ DOMAIN attempts[t] = 1 .. Len(attempts[t]) /\ DOMAIN list = 1 .. Len(list)
      /\ Len(attempts[t]) \in Nat
  BY <1>2, <1>3, LenProperties
<1>5. attempts' = [attempts EXCEPT ![t] = list]
  BY DEF Reserve
<1>6. attempts' \in [Targets -> Seq(AttemptStates)] /\ attempts'[t] = list
  BY <1>1, <1>3, <1>5 DEF Basics, TypeOK, AttemptStates
<1>7. DOMAIN list = DOMAIN attempts[t] \cup {Len(attempts[t]) + 1}
  BY <1>3, <1>4
<1> QED
  BY <1>1, <1>2, <1>3, <1>4, <1>5, <1>6, <1>7 DEF Reserve

LEMMA CompleteEnds ==
  ASSUME Basics, NEW r \in Retries, Complete(r)
  PROVE  LET t == target[r]
         IN /\ t \in Targets /\ Holds(r, t)
            /\ attempts[t] \in Seq(AttemptStates)
            /\ attempts' = [attempts EXCEPT ![t] =
                              [attempts[t] EXCEPT ![attempt[r]] = AttemptState(step[r])]]
            /\ attempts' \in [Targets -> Seq(AttemptStates)]
            /\ Len(attempts'[t]) = Len(attempts[t])
            /\ DOMAIN attempts'[t] = DOMAIN attempts[t]
            /\ \A n \in DOMAIN attempts[t] :
                 attempts'[t][n] = IF n = attempt[r] THEN AttemptState(step[r])
                                   ELSE attempts[t][n]
<1> DEFINE t == target[r]
           n == attempt[r]
           new == AttemptState(step[r])
<1>1. t \in Targets /\ Holds(r, t)
  BY DEF Complete, Basics, TargetOK, WorkOK, InFlight, Working
<1>2. attempts[t] \in Seq(AttemptStates) /\ n \in 1 .. Len(attempts[t])
  BY <1>1 DEF Basics, TypeOK, AttemptStates, Holds
<1>3. new \in AttemptStates
  BY DEF AttemptState, AttemptStates
<1> DEFINE list == [attempts[t] EXCEPT ![n] = new]
<1> HIDE DEF new
<1>4. /\ list \in Seq(AttemptStates) /\ Len(list) = Len(attempts[t])
      /\ \A m \in 1 .. Len(attempts[t]) : list[m] = IF m = n THEN new ELSE attempts[t][m]
  BY <1>2, <1>3, ExceptSeq
<1>5. DOMAIN attempts[t] = 1 .. Len(attempts[t]) /\ DOMAIN list = 1 .. Len(list)
  BY <1>2, <1>4, LenProperties
<1>6. attempts' = [attempts EXCEPT ![t] = list]
  BY DEF Complete, new
<1>7. attempts' \in [Targets -> Seq(AttemptStates)] /\ attempts'[t] = list
  BY <1>1, <1>4, <1>6 DEF Basics, TypeOK, AttemptStates
<1> QED
  BY <1>1, <1>2, <1>4, <1>5, <1>6, <1>7 DEF new

LEMMA NextTypes == Basics /\ Steps => TypeOK' /\ TargetOK'
<1> SUFFICES ASSUME Basics, Steps PROVE TypeOK' /\ TargetOK'
  OBVIOUS
<1> USE DEF databaseVars, Basics
<1>1. ASSUME NEW r \in Retries, NEW t \in Targets, Retry(r, t) PROVE TypeOK' /\ TargetOK'
  <2>1. seen' \subseteq Disturbances
    BY <1>1 DEF Retry, Disturb, TypeOK
  <2>2. phase' \in [Retries -> Phases] /\ phase' = [phase EXCEPT ![r] = "called"]
    BY <1>1 DEF Retry, Move, TypeOK, Phases
  <2>3. target' = [target EXCEPT ![r] = t] /\ expected' \in [Retries -> Nat]
    BY <1>1 DEF Retry, TypeOK
  <2>4. TypeOK'
    BY <1>1, <2>1, <2>2, <2>3 DEF Retry, TypeOK, DeriveTruth
  <2>5. TargetOK'
    BY <2>2, <2>3 DEF TargetOK, InFlight, TypeOK
  <2> QED
    BY <2>4, <2>5
<1>2. ASSUME NEW r \in Retries, Reserve(r) PROVE TypeOK' /\ TargetOK'
  <2>1. /\ target[r] \in Targets /\ attempts' \in [Targets -> Seq(AttemptStates)]
        /\ attempt' = [attempt EXCEPT ![r] = Len(attempts[target[r]]) + 1]
        /\ Len(attempts[target[r]]) + 1 \in Nat
    BY <1>2, ReserveAppends
  <2>2. /\ copies' \in [Targets -> CopyStates] /\ copyVersion' \in [Targets -> Nat]
        /\ expected' \in [Retries -> Nat] /\ reserved' \in [Retries -> Nat]
    BY <1>2, <2>1 DEF Reserve, TypeOK, CopyStates, Route!CopyStates
  <2>3. attempt' \in [Retries -> Nat] /\ phase' \in [Retries -> Phases]
    BY <1>2, <2>1 DEF Reserve, TypeOK, Move, Phases
  <2>4. TypeOK'
    BY <1>2, <2>1, <2>2, <2>3 DEF Reserve, TypeOK, DeriveTruth, AttemptStates
  <2>5. TargetOK'
    BY <1>2, <2>1 DEF Reserve, TargetOK, InFlight, Move, TypeOK
  <2> QED
    BY <2>4, <2>5
<1>3. ASSUME NEW r \in Retries, Ends(r), seen' \subseteq seen \cup Disturbances
      PROVE  TypeOK' /\ TargetOK'
  <2>1. phase' \in [Retries -> Phases] /\ seen' \subseteq Disturbances
    BY <1>3 DEF Ends, TypeOK, Phases
  <2>2. TypeOK'
    BY <1>3, <2>1 DEF Ends, TypeOK, DeriveTruth
  <2>3. TargetOK'
    BY <1>3 DEF Ends, TargetOK, InFlight, TypeOK
  <2> QED
    BY <2>2, <2>3
<1>4. ASSUME NEW r \in Retries, WriterStep(r) PROVE TypeOK' /\ TargetOK'
  <2>1. target[r] \in Targets
    BY <1>4 DEF WriterStep, TargetOK, InFlight
  <2>2. step' \in [Retries -> WriterSteps] /\ stored' \in [Targets -> Contents]
    BY <1>4, <2>1 DEF WriterStep, TypeOK
  <2>3. TypeOK'
    BY <1>4, <2>2 DEF WriterStep, TypeOK, DeriveTruth
  <2>4. TargetOK'
    BY <1>4 DEF WriterStep, TargetOK, InFlight
  <2> QED
    BY <2>3, <2>4
<1>5. ASSUME NEW r \in Retries, ReadCopies(r) PROVE TypeOK' /\ TargetOK'
  <2>1. step[r] \in CopyStates
    BY <1>5 DEF ReadCopies, CopyStates, Route!CopyStates
  <2>2. [copies EXCEPT ![target[r]] = step[r]] \in [Targets -> CopyStates]
    BY <2>1 DEF TypeOK
  <2>3. peers' \in [Retries -> [Targets -> CopyStates]] /\ phase' \in [Retries -> Phases]
    BY <1>5, <2>2 DEF ReadCopies, TypeOK, Move, Phases
  <2>4. TypeOK'
    BY <1>5, <2>3 DEF ReadCopies, TypeOK, DeriveTruth
  <2>5. TargetOK'
    BY <1>5 DEF ReadCopies, TargetOK, InFlight, Move, TypeOK
  <2> QED
    BY <2>4, <2>5
<1>6. ASSUME NEW r \in Retries, Complete(r) PROVE TypeOK' /\ TargetOK'
  <2>1. target[r] \in Targets /\ attempts' \in [Targets -> Seq(AttemptStates)]
    BY <1>6, CompleteEnds
  <2>2. \E c \in [Targets -> CopyStates] : truth' = DeriveTruth(c)
    BY <1>6 DEF Complete, TruthOf, TypeOK
  <2>3. copies' \in [Targets -> CopyStates]
    BY <1>6, <2>1 DEF Complete, TypeOK, OutcomeOK, CopyStates, Route!CopyStates
  <2>4. /\ copyVersion' \in [Targets -> Nat] /\ objectVersion' \in Nat
        /\ phase' \in [Retries -> Phases]
    BY <1>6, <2>1 DEF Complete, TypeOK, Move, Phases
  <2>5. TypeOK'
    BY <1>6, <2>1, <2>2, <2>3, <2>4 DEF Complete, TypeOK, DeriveTruth, AttemptStates
  <2>6. TargetOK'
    BY <1>6 DEF Complete, TargetOK, InFlight, Move, TypeOK
  <2> QED
    BY <2>5, <2>6
<1>7. CASE Crash
  <2>1. phase' \in [Retries -> Phases] /\ seen' \subseteq Disturbances
    BY <1>7 DEF Crash, Disturb, TypeOK, Phases
  <2>2. TypeOK'
    BY <1>7, <2>1 DEF Crash, TypeOK, DeriveTruth
  <2>3. TargetOK'
    BY <1>7 DEF Crash, TargetOK, InFlight, TypeOK
  <2> QED
    BY <2>2, <2>3
<1>8. CASE UNCHANGED vars
  BY <1>8 DEF vars, callVars, TypeOK, TargetOK, InFlight, DeriveTruth
<1> QED
  BY <1>1, <1>2, <1>3, <1>4, <1>5, <1>6, <1>7, <1>8 DEF Steps

LEMMA NextWork == Basics /\ Steps => WorkOK' /\ OneRetryPerCopy'
<1> SUFFICES ASSUME Basics, Steps PROVE WorkOK' /\ OneRetryPerCopy'
  OBVIOUS
<1> USE DEF databaseVars, Basics
<1>1. ASSUME UNCHANGED <<copies, copyVersion, attempts, target, expected, attempt>>,
             \A r \in Retries : Working(r)' => Working(r)
      PROVE  WorkOK' /\ OneRetryPerCopy'
  BY <1>1 DEF WorkOK, OneRetryPerCopy, Holds
<1>2. ASSUME NEW r \in Retries, NEW t \in Targets, Retry(r, t)
      PROVE  WorkOK' /\ OneRetryPerCopy'
  <2>1. \A q \in Retries : Working(q)' =>
          /\ Working(q) /\ q # r /\ target'[q] = target[q] /\ expected'[q] = expected[q]
    BY <1>2 DEF Retry, Move, Working, TypeOK
  <2>2. UNCHANGED <<copies, copyVersion, attempts, attempt>>
    BY <1>2 DEF Retry
  <2> QED
    BY <2>1, <2>2 DEF WorkOK, OneRetryPerCopy, Holds
<1>3. ASSUME NEW r \in Retries, Reserve(r) PROVE WorkOK' /\ OneRetryPerCopy'
  <2> DEFINE t == target[r]
  <2>1. t \in Targets /\ copies[t] = "failed" /\ copyVersion[t] = expected[r] /\ target' = target
    BY <1>3, ReserveAppends DEF Reserve, Reservable
  <2>2. \A q \in Retries \ {r} : Working(q)' => Working(q) /\ target[q] # t
    BY <1>3, <2>1 DEF Reserve, Move, Working, TypeOK, WorkOK, Holds
  <2>3. Holds(r, t)'
    <3>1. copies'[t] = "pending" /\ copyVersion'[t] = expected'[r]
      BY <1>3, <2>1 DEF Reserve, TypeOK
    <3>2. /\ attempt'[r] = Len(attempts'[t]) /\ attempt'[r] \in 1 .. Len(attempts'[t])
          /\ attempts'[t][attempt'[r]] = "in_progress"
      BY <1>3, ReserveAppends DEF TypeOK
    <3> QED
      BY <2>1, <3>1, <3>2 DEF Holds
  <2>4. \A q \in Retries \ {r} : Working(q)' => Holds(q, target[q])'
    <3> SUFFICES ASSUME NEW q \in Retries \ {r}, Working(q)' PROVE Holds(q, target[q])'
      OBVIOUS
    <3>1. Working(q) /\ target[q] # t /\ target[q] \in Targets /\ Holds(q, target[q])
      BY <2>2 DEF TargetOK, WorkOK, Working, InFlight
    <3>2. /\ copies'[target[q]] = copies[target[q]]
          /\ copyVersion'[target[q]] = copyVersion[target[q]]
          /\ attempts'[target[q]] = attempts[target[q]]
          /\ expected'[q] = expected[q] /\ attempt'[q] = attempt[q]
      BY <1>3, <3>1 DEF Reserve, TypeOK
    <3> QED
      BY <2>1, <3>1, <3>2 DEF Holds
  <2>5. WorkOK'
    BY <2>1, <2>3, <2>4 DEF WorkOK
  <2>6. OneRetryPerCopy'
    BY <2>1, <2>2 DEF OneRetryPerCopy
  <2> QED
    BY <2>5, <2>6
<1>4. ASSUME NEW r \in Retries, Ends(r) PROVE WorkOK' /\ OneRetryPerCopy'
  BY <1>1, <1>4 DEF Ends, Working, TypeOK
<1>5. ASSUME NEW r \in Retries, WriterStep(r) PROVE WorkOK' /\ OneRetryPerCopy'
  BY <1>1, <1>5 DEF WriterStep, Working
<1>6. ASSUME NEW r \in Retries, ReadCopies(r) PROVE WorkOK' /\ OneRetryPerCopy'
  BY <1>1, <1>6 DEF ReadCopies, Move, Working, TypeOK
<1>7. ASSUME NEW r \in Retries, Complete(r) PROVE WorkOK' /\ OneRetryPerCopy'
  <2> DEFINE t == target[r]
  <2>1. t \in Targets /\ Working(r)
    BY <1>7, CompleteEnds DEF Complete, Working
  <2>2. \A q \in Retries : Working(q)' => Working(q) /\ q # r /\ target[q] # t
    BY <1>7, <2>1 DEF Complete, Move, Working, TypeOK, OneRetryPerCopy
  <2>3. \A q \in Retries : Working(q)' => Holds(q, target[q])'
    <3> SUFFICES ASSUME NEW q \in Retries, Working(q)' PROVE Holds(q, target[q])'
      OBVIOUS
    <3>1. Working(q) /\ target[q] # t /\ target[q] \in Targets /\ Holds(q, target[q])
      BY <2>2 DEF TargetOK, WorkOK, Working, InFlight
    <3>2. /\ copies'[target[q]] = copies[target[q]]
          /\ copyVersion'[target[q]] = copyVersion[target[q]]
          /\ attempts'[target[q]] = attempts[target[q]]
          /\ target' = target /\ expected' = expected /\ attempt' = attempt
      BY <1>7, <3>1 DEF Complete, TypeOK
    <3> QED
      BY <3>1, <3>2 DEF Holds
  <2> QED
    BY <1>7, <2>2, <2>3 DEF WorkOK, OneRetryPerCopy, Complete
<1>8. CASE Crash
  BY <1>1, <1>8 DEF Crash, Working, InFlight, TypeOK
<1>9. CASE UNCHANGED vars
  BY <1>1, <1>9 DEF vars, callVars, Working
<1> QED
  BY <1>2, <1>3, <1>4, <1>5, <1>6, <1>7, <1>8, <1>9 DEF Steps

LEMMA NextOutcome == Basics /\ Steps => OutcomeOK'
<1> SUFFICES ASSUME Basics, Steps PROVE OutcomeOK'
  OBVIOUS
<1> USE DEF Basics
<1>1. ASSUME NEW r \in Retries,
             \/ \E t \in Targets : Retry(r, t)
             \/ Reserve(r) \/ Ends(r) \/ ReadCopies(r) \/ Complete(r)
      PROVE  OutcomeOK'
  BY <1>1 DEF Retry, Reserve, Ends, ReadCopies, Complete, Move, OutcomeOK, TypeOK
<1>2. ASSUME NEW r \in Retries, WriterStep(r) PROVE OutcomeOK'
  BY <1>2 DEF WriterStep, OutcomeOK, TypeOK
<1>3. CASE Crash
  BY <1>3 DEF Crash, OutcomeOK, TypeOK
<1>4. CASE UNCHANGED vars
  BY <1>4 DEF vars, callVars, OutcomeOK
<1> QED
  BY <1>1, <1>2, <1>3, <1>4 DEF Steps

LEMMA BasicsHold == Spec => []Basics
<1>1. Basics /\ [Next]_vars => Basics'
  BY NextSplits, NextTypes, NextWork, NextOutcome DEF Basics
<1> QED
  BY <1>1, InitBasics, PTL DEF Spec

(* Every row and everything a call knows keeps its type; the truth is always *)
(* a row of the table of outcomes                                            *)
(* (runtime-storage-registry.ts:1239-1259).                                  *)
THEOREM TypeCorrect == Spec => []TypeOK
<1>1. Basics => TypeOK
  BY DEF Basics
<1> QED
  BY <1>1, BasicsHold, PTL

(* A copy has one retry between its two transactions at a time: only a       *)
(* failed copy is reserved, and whoever reserves it leaves it pending.       *)
THEOREM OneRetryPerCopyHolds == Spec => []OneRetryPerCopy
<1>1. Basics => OneRetryPerCopy
  BY DEF Basics
<1> QED
  BY <1>1, BasicsHold, PTL

-----------------------------------------------------------------------------
(* The bytes of a copy.                                                      *)

(* What is recorded as verified, or about to be, is at the provider.         *)
BytesOK ==
  /\ \A t \in Targets : copies[t] = "verified" => stored[t] = "exact"
  /\ \A r \in Retries :
       Working(r) /\ step[r] = "verified" => stored[target[r]] = "exact"

Untouched ==
  \A t \in Targets :
    copies[t] = "verified" => copies'[t] = "verified" /\ stored'[t] = stored[t]

LEMMA StepsSpareVerified == Basics /\ Steps => Untouched
<1> SUFFICES ASSUME Basics, Steps PROVE Untouched
  OBVIOUS
<1> USE DEF databaseVars, Basics
<1>1. ASSUME UNCHANGED <<copies, stored>> PROVE Untouched
  BY <1>1 DEF Untouched
<1>2. ASSUME NEW r \in Retries, Reserve(r) PROVE Untouched
  <2>1. copies[target[r]] = "failed"
    BY <1>2 DEF Reserve, Reservable
  <2> QED
    BY <1>2, <2>1 DEF Reserve, Untouched, TypeOK
<1>3. ASSUME NEW r \in Retries, WriterStep(r) PROVE Untouched
  <2>1. copies[target[r]] = "pending"
    BY <1>3 DEF WriterStep, WorkOK, Working, Holds
  <2> QED
    BY <1>3, <2>1 DEF WriterStep, Untouched, TypeOK
<1>4. ASSUME NEW r \in Retries, Complete(r) PROVE Untouched
  <2>1. copies[target[r]] = "pending"
    BY <1>4, CompleteEnds DEF Holds
  <2> QED
    BY <1>4, <2>1 DEF Complete, Untouched, TypeOK
<1> QED
  BY <1>1, <1>2, <1>3, <1>4 DEF Steps, Retry, Ends, ReadCopies, Crash, vars

(* A retry never rewrites or deletes a verified copy, its row or its bytes:  *)
(* it works at a pending copy alone, and no other call works at that one     *)
(* (runtime-dual-provider.ts:646).                                           *)
THEOREM VerifiedIsUntouchedHolds == Spec => VerifiedIsUntouched
<1>1. Basics /\ [Next]_vars => [Untouched]_vars
  BY NextSplits, StepsSpareVerified DEF Basics
<1>2. [Untouched]_vars <=>
        [\A t \in Targets :
           copies[t] = "verified" => copies'[t] = "verified" /\ stored'[t] = stored[t]]_vars
  BY DEF Untouched
<1> QED
  BY <1>1, <1>2, BasicsHold, PTL DEF Spec, VerifiedIsUntouched

LEMMA NextBytes == Basics /\ BytesOK /\ Steps => BytesOK'
<1> SUFFICES ASSUME Basics, BytesOK, Steps PROVE BytesOK'
  OBVIOUS
<1> USE DEF databaseVars, Basics
<1>1. ASSUME UNCHANGED <<copies, stored, target, step>>,
             \A r \in Retries : Working(r)' => Working(r)
      PROVE  BytesOK'
  BY <1>1 DEF BytesOK
<1>2. ASSUME NEW r \in Retries, NEW t \in Targets, Retry(r, t) PROVE BytesOK'
  BY <1>2 DEF Retry, Move, BytesOK, Working, TypeOK
<1>3. ASSUME NEW r \in Retries, Reserve(r) PROVE BytesOK'
  BY <1>3 DEF Reserve, Move, BytesOK, Working, OutcomeOK, TypeOK
<1>4. ASSUME NEW r \in Retries, WriterStep(r) PROVE BytesOK'
  <2>1. Working(r) /\ target[r] \in Targets /\ copies[target[r]] = "pending"
    BY <1>4 DEF WriterStep, WorkOK, Working, Holds, TargetOK, InFlight
  <2>2. \A t \in Targets \ {target[r]} : stored'[t] = stored[t]
    BY <1>4 DEF WriterStep, TypeOK
  <2>3. step'[r] = "verified" => stored'[target[r]] = "exact"
    BY <1>4, <2>1 DEF WriterStep, TypeOK
  <2>4. \A q \in Retries \ {r} :
          Working(q)' => Working(q) /\ target[q] \in Targets \ {target[r]} /\ step'[q] = step[q]
    BY <1>4, <2>1 DEF WriterStep, OneRetryPerCopy, Working, TargetOK, InFlight, TypeOK
  <2> QED
    BY <1>4, <2>1, <2>2, <2>3, <2>4 DEF WriterStep, BytesOK
<1>5. ASSUME NEW r \in Retries, ReadCopies(r) PROVE BytesOK'
  BY <1>1, <1>5 DEF ReadCopies, Move, Working, TypeOK
<1>6. ASSUME NEW r \in Retries, Complete(r) PROVE BytesOK'
  <2>1. Working(r) /\ target[r] \in Targets
    BY <1>6, CompleteEnds DEF Complete, Working
  <2> QED
    BY <1>6, <2>1 DEF Complete, Move, BytesOK, Working, TypeOK
<1>7. ASSUME NEW r \in Retries, Ends(r) PROVE BytesOK'
  BY <1>1, <1>7 DEF Ends, Working, TypeOK
<1>8. CASE Crash
  BY <1>1, <1>8 DEF Crash, Working, InFlight, TypeOK
<1>9. CASE UNCHANGED vars
  BY <1>1, <1>9 DEF vars, callVars, Working
<1> QED
  BY <1>2, <1>3, <1>4, <1>5, <1>6, <1>7, <1>8, <1>9 DEF Steps

-----------------------------------------------------------------------------
(* The truth of the object.                                                  *)

(* What a second transaction has read is still so when it writes, for a copy *)
(* that was verified never changes again.                                    *)
PeersOK ==
  \A r \in Retries : phase[r] = "recording" =>
    \A t \in Targets :
      peers[r][t] = "verified" =>
        copies[t] = "verified" \/ (t = target[r] /\ step[r] = "verified")

ClaimsOK == \A t \in Copies : Claims(t) => copies[t] = "verified"

(* What a stage claims; and the table of outcomes claims no copy that is not *)
(* verified.                                                                 *)
Claimed(stage, t) ==
  \/ stage \in {"canonical-and-hot-verified", "configuration-primary-and-replicas-verified"}
  \/ t = Primary /\ stage \in {"canonical-verified-hot-repair-required",
                               "configuration-replica-repair-required"}
  \/ t # Primary /\ stage = "hot-verified-canonical-repair-required"

LEMMA RouteClaimsVerified ==
  ASSUME NEW c, NEW t \in Targets, Claimed(Route!RouteTruth(c).stage, t)
  PROVE  c[t] = "verified"
<1>1. CASE c[Primary] # "verified"
  <2>1. Route!RouteTruth(c).stage = "configuration-primary-write-failed"
    BY <1>1 DEF Route!RouteTruth, Route!Truth
  <2> QED
    BY <2>1 DEF Claimed
<1>2. CASE c[Primary] = "verified" /\ \A u \in Route!Peers : c[u] = "verified"
  BY <1>2 DEF Route!Peers
<1>3. CASE c[Primary] = "verified" /\ ~\A u \in Route!Peers : c[u] = "verified"
  <2>1. Route!RouteTruth(c).stage = "configuration-replica-repair-required"
    BY <1>3 DEF Route!RouteTruth, Route!Truth
  <2> QED
    BY <1>3, <2>1 DEF Claimed
<1> QED
  BY <1>1, <1>2, <1>3

LEMMA DualClaimsVerified ==
  ASSUME NEW c, NEW t \in {Hot, Primary}, Claimed(Dual!DualTruth(c).stage, t)
  PROVE  c[t] = "verified"
<1> DEFINE every(state) == \A u \in Dual!Peers : c[u] = state
<1>1. CASE c[Primary] = "verified" /\ every("verified")
  BY <1>1 DEF Dual!Peers
<1>2. CASE c[Primary] = "verified" /\ ~every("verified") /\ every("failed")
  <2>1. Dual!DualTruth(c).stage = "canonical-verified-hot-repair-required"
    BY <1>2 DEF Dual!DualTruth, Dual!Truth
  <2> QED
    BY <1>2, <2>1 DEF Claimed
<1>3. CASE c[Primary] = "failed" /\ every("verified")
  <2>1. Dual!DualTruth(c).stage = "hot-verified-canonical-repair-required"
    BY <1>3 DEF Dual!DualTruth, Dual!Truth
  <2> QED
    BY <1>3, <2>1 DEF Claimed, Dual!Peers
<1>4. CASE /\ ~(c[Primary] = "verified" /\ (every("verified") \/ every("failed")))
           /\ ~(c[Primary] = "failed" /\ every("verified"))
  <2>1. Dual!DualTruth(c).stage = "provider-write-failed"
    BY <1>4 DEF Dual!DualTruth, Dual!Truth
  <2> QED
    BY <2>1 DEF Claimed
<1> QED
  BY <1>1, <1>2, <1>3, <1>4

LEMMA TableClaimsVerified ==
  ASSUME NEW c, NEW t \in Copies, Copies \subseteq Targets,
         Claimed(DeriveTruth(c).stage, t)
  PROVE  c[t] = "verified"
<1>1. CASE configured
  BY <1>1, RouteClaimsVerified DEF DeriveTruth, Route!DeriveTruth
<1>2. CASE ~configured
  BY <1>2, DualClaimsVerified DEF DeriveTruth, Dual!DeriveTruth, Copies
<1> QED
  BY <1>1, <1>2

LEMMA InitClaims == Init => BytesOK /\ PeersOK /\ ClaimsOK
<1> SUFFICES ASSUME Init PROVE BytesOK /\ PeersOK /\ ClaimsOK
  OBVIOUS
<1>1. BytesOK /\ PeersOK
  BY DEF Init, BytesOK, PeersOK, Working
<1>2. copies \in [Targets -> CopyStates] /\ configured \in BOOLEAN /\ truth = DeriveTruth(copies)
  BY DEF Init, Outcomes
<1>3. Copies \subseteq Targets
  BY RetriesAssumption DEF Copies
<1>4. ClaimsOK
  BY <1>2, <1>3, TableClaimsVerified DEF ClaimsOK, Claims, Claimed
<1> QED
  BY <1>1, <1>4

LEMMA NextPeers == Basics /\ PeersOK /\ Steps => PeersOK'
<1> SUFFICES ASSUME Basics, PeersOK, Steps PROVE PeersOK'
  OBVIOUS
<1> USE DEF databaseVars, Basics
<1>1. Untouched
  BY StepsSpareVerified
<1>2. ASSUME NEW r \in Retries, ReadCopies(r) PROVE PeersOK'
  <2>1. target[r] \in Targets /\ UNCHANGED <<copies, target, step>>
    BY <1>2 DEF ReadCopies, TargetOK, InFlight
  <2>2. /\ peers'[r] = [copies EXCEPT ![target[r]] = step[r]]
        /\ \A q \in Retries \ {r} : peers'[q] = peers[q] /\ phase'[q] = phase[q]
    BY <1>2 DEF ReadCopies, Move, TypeOK
  <2>3. /\ peers'[r][target[r]] = step[r]
        /\ \A t \in Targets : t # target[r] => peers'[r][t] = copies[t]
    BY <2>1, <2>2 DEF TypeOK
  <2>4. \A t \in Targets :
          peers'[r][t] = "verified" => copies[t] = "verified" \/ (t = target[r] /\ step[r] = "verified")
    BY <2>3
  <2>5. \A q \in Retries \ {r} : phase'[q] = "recording" =>
          \A t \in Targets :
            peers'[q][t] = "verified" =>
              copies[t] = "verified" \/ (t = target[q] /\ step[q] = "verified")
    BY <2>2 DEF PeersOK
  <2> HIDE DEF Basics
  <2> QED
    BY <2>1, <2>4, <2>5 DEF PeersOK
<1>3. ASSUME NEW r \in Retries, WriterStep(r) PROVE PeersOK'
  BY <1>3 DEF WriterStep, PeersOK, TypeOK
<1>4. ASSUME NEW r \in Retries,
             (\E t \in Targets : Retry(r, t)) \/ Reserve(r) \/ Ends(r) \/ Complete(r)
      PROVE  PeersOK'
  <2>1. \A q \in Retries : phase'[q] = "recording" =>
          /\ phase[q] = "recording" /\ target'[q] = target[q]
          /\ step'[q] = step[q] /\ peers'[q] = peers[q]
    BY <1>4 DEF Retry, Reserve, Ends, Complete, Move, InFlight, TypeOK
  <2> QED
    BY <1>1, <2>1 DEF PeersOK, Untouched
<1>5. CASE Crash
  BY <1>5 DEF Crash, PeersOK, TypeOK, InFlight
<1>6. CASE UNCHANGED vars
  BY <1>6 DEF vars, callVars, PeersOK
<1> QED
  BY <1>2, <1>3, <1>4, <1>5, <1>6 DEF Steps

LEMMA NextClaims == Basics /\ PeersOK /\ ClaimsOK /\ Steps => ClaimsOK'
<1> SUFFICES ASSUME Basics, PeersOK, ClaimsOK, Steps PROVE ClaimsOK'
  OBVIOUS
<1> USE DEF databaseVars, Basics
<1>1. Untouched
  BY StepsSpareVerified
<1>2. configured' = configured /\ Copies \subseteq Targets
  BY RetriesAssumption
     DEF Steps, Retry, Reserve, Ends, WriterStep, ReadCopies, Complete, Crash, vars, Copies
<1>3. CASE truth' = truth
  BY <1>1, <1>2, <1>3 DEF ClaimsOK, Claims, Copies, Untouched
<1>4. ASSUME NEW r \in Retries, Complete(r) PROVE ClaimsOK'
  <2> SUFFICES ASSUME NEW t \in Copies', Claims(t)' PROVE copies'[t] = "verified"
    BY DEF ClaimsOK
  <2>1. t \in Targets /\ target[r] \in Targets /\ copies[target[r]] = "pending"
    BY <1>2, <1>4, CompleteEnds DEF Copies, Holds
  <2>2. truth' = DeriveTruth(peers[r]) /\ t \in Copies /\ Claimed(truth'.stage, t)
    BY <1>2, <1>4 DEF Complete, TruthOf, Copies, Claims, Claimed
  <2>3. peers[r][t] = "verified"
    BY <1>2, <2>2, TableClaimsVerified
  <2> QED
    BY <1>4, <2>1, <2>3 DEF Complete, PeersOK, TypeOK
<1> QED
  BY <1>3, <1>4 DEF Steps, Retry, Reserve, Ends, WriterStep, ReadCopies, Crash, vars

Backed == BytesOK /\ PeersOK /\ ClaimsOK

(* The truth never claims a copy that is not verified, or whose bytes are    *)
(* not there: what a retry has read of the other copies may be out of date,  *)
(* but never says verified of one that is not                                *)
(* (runtime-storage-registry.ts:1239-1259).                                  *)
THEOREM ClaimsAreBackedHolds == Spec => []ClaimsAreBacked
<1>1. Basics /\ Backed /\ [Next]_vars => Backed'
  BY NextSplits, NextBytes, NextPeers, NextClaims DEF Basics, Backed
<1>2. Basics /\ Backed => ClaimsAreBacked
  BY RetriesAssumption DEF Backed, BytesOK, ClaimsOK, ClaimsAreBacked, Copies
<1> QED
  BY <1>1, <1>2, InitClaims, BasicsHold, PTL DEF Spec, Backed

-----------------------------------------------------------------------------
(* What the attempts tell.                                                   *)

LEMMA NextTells == Basics /\ AttemptsTellCopies /\ Steps => AttemptsTellCopies'
<1> SUFFICES ASSUME Basics, AttemptsTellCopies, Steps PROVE AttemptsTellCopies'
  OBVIOUS
<1> USE DEF databaseVars, Basics
<1>1. ASSUME UNCHANGED <<copies, attempts>> PROVE AttemptsTellCopies'
  BY <1>1 DEF AttemptsTellCopies
<1>2. ASSUME NEW r \in Retries, Reserve(r) PROVE AttemptsTellCopies'
  <2>1. /\ target[r] \in Targets
        /\ attempts'[target[r]][Len(attempts'[target[r]])] = "in_progress"
        /\ \A t \in Targets \ {target[r]} : attempts'[t] = attempts[t]
    BY <1>2, ReserveAppends DEF TypeOK
  <2>2. /\ copies'[target[r]] = "pending"
        /\ \A t \in Targets \ {target[r]} : copies'[t] = copies[t]
    BY <1>2, <2>1 DEF Reserve, TypeOK
  <2> QED
    BY <2>1, <2>2 DEF AttemptsTellCopies
<1>3. ASSUME NEW r \in Retries, Complete(r) PROVE AttemptsTellCopies'
  <2>1. /\ target[r] \in Targets
        /\ attempts'[target[r]][Len(attempts'[target[r]])] = AttemptState(step[r])
        /\ \A t \in Targets \ {target[r]} : attempts'[t] = attempts[t]
    BY <1>3, CompleteEnds DEF Holds, TypeOK
  <2>2. /\ copies'[target[r]] = step[r] /\ step[r] \in {"verified", "failed"}
        /\ \A t \in Targets \ {target[r]} : copies'[t] = copies[t]
    BY <1>3, <2>1 DEF Complete, OutcomeOK, TypeOK
  <2> QED
    BY <2>1, <2>2 DEF AttemptsTellCopies, AttemptState
<1> QED
  BY <1>1, <1>2, <1>3 DEF Steps, Retry, Ends, WriterStep, ReadCopies, Crash, vars

(* The latest attempt of a copy tells its state, wherever calls overlap or   *)
(* the process stops: both rows are written by the same transactions         *)
(* (runtime-dual-provider.ts:646).                                           *)
THEOREM AttemptsTellCopiesHolds == Spec => []AttemptsTellCopies
<1>1. Init => AttemptsTellCopies
  BY DEF Init, AttemptsTellCopies, FirstAttempts, Outcomes, CopyStates, Route!CopyStates
<1>2. Basics /\ AttemptsTellCopies /\ [Next]_vars => AttemptsTellCopies'
  BY NextSplits, NextTells DEF Basics
<1> QED
  BY <1>1, <1>2, BasicsHold, PTL DEF Spec

-----------------------------------------------------------------------------
(* Retries made one after the other.                                         *)

OneAtATime == \A q, r \in Retries : InFlight(q) /\ InFlight(r) => q = r

TruthSettled == (\A r \in Retries : ~Working(r)) => truth = DeriveTruth(copies)

(* An attempt in progress is that of a call at work.                         *)
AttemptsOwned ==
  \A t \in Targets : \A n \in DOMAIN attempts[t] :
    attempts[t][n] = "in_progress" =>
      \E r \in Retries : Working(r) /\ target[r] = t /\ attempt[r] = n

(* What the call at work has read of the object is still so.                 *)
ReadsFresh ==
  \A r \in Retries :
    /\ Working(r) => reserved[r] = objectVersion
    /\ phase[r] = "recording" => peers[r] = [copies EXCEPT ![target[r]] = step[r]]

Undisturbed == OneAtATime /\ TruthSettled /\ AttemptsOwned /\ ReadsFresh

SettleOK == seen = {} => Undisturbed

LEMMA InitSettle == Init => SettleOK
<1> SUFFICES ASSUME Init PROVE Undisturbed
  BY DEF SettleOK
<1>1. OneAtATime /\ TruthSettled /\ ReadsFresh
  BY DEF Init, OneAtATime, TruthSettled, ReadsFresh, InFlight, Working
<1>2. AttemptsOwned
  BY DEF Init, AttemptsOwned, FirstAttempts
<1> QED
  BY <1>1, <1>2 DEF Undisturbed

LEMMA NextSettle == Basics /\ SettleOK /\ Steps => SettleOK'
<1> SUFFICES ASSUME Basics, SettleOK, Steps, seen' = {} PROVE Undisturbed'
  BY DEF SettleOK
<1> USE DEF databaseVars, Basics
<1>1. ASSUME NEW r \in Retries, NEW t \in Targets, Retry(r, t) PROVE Undisturbed'
  <2>1. seen = {} /\ \A q \in Retries : ~InFlight(q)
    BY <1>1 DEF Retry, Disturb
  <2>2. \A q \in Retries : (InFlight(q)' => q = r) /\ ~Working(q)'
    BY <1>1, <2>1 DEF Retry, Move, InFlight, Working, TypeOK
  <2>3. \A q \in Retries : ~Working(q)
    BY <2>1 DEF InFlight, Working
  <2> QED
    BY <1>1, <2>1, <2>2, <2>3
       DEF Retry, SettleOK, Undisturbed, OneAtATime, TruthSettled, AttemptsOwned, ReadsFresh,
           DeriveTruth, Working
<1>2. ASSUME NEW r \in Retries, Reserve(r) PROVE Undisturbed'
  <2>1. seen = {} /\ InFlight(r)
    BY <1>2 DEF Reserve, InFlight
  <2>2. \A q \in Retries : InFlight(q) => q = r
    BY <2>1 DEF SettleOK, Undisturbed, OneAtATime
  <2>3. phase' = [phase EXCEPT ![r] = "writing"] /\ \A q \in Retries : ~Working(q)
    BY <1>2, <2>2 DEF Reserve, Move, InFlight, Working
  <2>4. \A q \in Retries : (InFlight(q)' => q = r) /\ (Working(q)' <=> q = r)
    BY <2>2, <2>3 DEF InFlight, Working, TypeOK
  <2>5. ReadsFresh'
    BY <1>2, <2>3, <2>4 DEF Reserve, ReadsFresh, Working, TypeOK
  <2>6. AttemptsOwned'
    <3> SUFFICES ASSUME NEW t \in Targets, NEW n \in DOMAIN attempts'[t],
                        attempts'[t][n] = "in_progress"
                 PROVE  Working(r)' /\ target'[r] = t /\ attempt'[r] = n
      BY DEF AttemptsOwned
    <3>1. \A m \in DOMAIN attempts[t] : attempts[t][m] # "in_progress"
      BY <2>1, <2>3 DEF SettleOK, Undisturbed, AttemptsOwned
    <3>2. t = target[r] /\ n = Len(attempts[t]) + 1
      BY <1>2, <3>1, ReserveAppends DEF TypeOK
    <3> QED
      BY <1>2, <2>4, <3>2, ReserveAppends DEF Reserve, TypeOK
  <2> QED
    BY <2>4, <2>5, <2>6 DEF Undisturbed, OneAtATime, TruthSettled
<1>3. ASSUME NEW r \in Retries, Ends(r), seen \subseteq seen' PROVE Undisturbed'
  <2>1. seen = {} /\ InFlight(r) /\ Undisturbed
    BY <1>3 DEF Ends, SettleOK
  <2>2. \A q \in Retries : InFlight(q) => q = r
    BY <2>1 DEF Undisturbed, OneAtATime
  <2>3. ~Working(r)
    <3> SUFFICES ASSUME Working(r) PROVE Recordable(r)
      BY <1>3 DEF Ends, Working
    <3> QED
      BY <2>1 DEF WorkOK, Holds, Recordable, Undisturbed, ReadsFresh
  <2>4. \A q \in Retries : ~InFlight(q)' /\ ~Working(q)' /\ ~Working(q)
    BY <1>3, <2>2, <2>3 DEF Ends, InFlight, Working, TypeOK
  <2> QED
    BY <1>3, <2>1, <2>4
       DEF Ends, Undisturbed, OneAtATime, TruthSettled, AttemptsOwned, ReadsFresh,
           DeriveTruth, Working
<1>4. ASSUME NEW r \in Retries, WriterStep(r) PROVE Undisturbed'
  <2>1. Undisturbed /\ Working(r)
    BY <1>4 DEF WriterStep, SettleOK, Working
  <2>2. \A q \in Retries : (InFlight(q)' <=> InFlight(q)) /\ (Working(q)' <=> Working(q))
    BY <1>4 DEF WriterStep, InFlight, Working
  <2>3. \A q \in Retries : phase[q] = "recording" => step'[q] = step[q]
    BY <1>4 DEF WriterStep, TypeOK
  <2>4. ReadsFresh'
    BY <1>4, <2>1, <2>2, <2>3 DEF WriterStep, Undisturbed, ReadsFresh
  <2>5. OneAtATime' /\ TruthSettled'
    BY <1>4, <2>1, <2>2 DEF WriterStep, Undisturbed, OneAtATime, TruthSettled, DeriveTruth
  <2>6. AttemptsOwned'
    BY <1>4, <2>1, <2>2 DEF WriterStep, Undisturbed, AttemptsOwned
  <2> QED
    BY <2>4, <2>5, <2>6 DEF Undisturbed
<1>5. ASSUME NEW r \in Retries, ReadCopies(r) PROVE Undisturbed'
  <2>1. Undisturbed /\ Working(r)
    BY <1>5 DEF ReadCopies, SettleOK, Working
  <2>2. \A q \in Retries : (InFlight(q)' <=> InFlight(q)) /\ (Working(q)' <=> Working(q))
    BY <1>5 DEF ReadCopies, Move, InFlight, Working, TypeOK
  <2>3. /\ peers'[r] = [copies EXCEPT ![target[r]] = step[r]]
        /\ \A q \in Retries \ {r} : peers'[q] = peers[q] /\ phase'[q] = phase[q]
    BY <1>5 DEF ReadCopies, Move, TypeOK
  <2>4. ReadsFresh'
    BY <1>5, <2>1, <2>2, <2>3 DEF ReadCopies, Undisturbed, ReadsFresh
  <2> QED
    BY <1>5, <2>1, <2>2, <2>4
       DEF ReadCopies, Undisturbed, OneAtATime, TruthSettled, AttemptsOwned, DeriveTruth
<1>6. ASSUME NEW r \in Retries, Complete(r) PROVE Undisturbed'
  <2>1. Undisturbed /\ InFlight(r) /\ Working(r)
    BY <1>6 DEF Complete, SettleOK, InFlight, Working
  <2>2. \A q \in Retries : InFlight(q) => q = r
    BY <2>1 DEF Undisturbed, OneAtATime
  <2>3. \A q \in Retries : ~InFlight(q)' /\ ~Working(q)' /\ (Working(q) => q = r)
    BY <1>6, <2>2 DEF Complete, Move, InFlight, Working, TypeOK
  <2>4. peers[r] = copies'
    BY <1>6, <2>1 DEF Complete, Undisturbed, ReadsFresh
  <2>5. TruthSettled'
    BY <1>6, <2>4 DEF Complete, TruthOf, TruthSettled, DeriveTruth
  <2>6. AttemptsOwned'
    <3> SUFFICES ASSUME NEW t \in Targets, NEW n \in DOMAIN attempts'[t]
                 PROVE  attempts'[t][n] # "in_progress"
      BY DEF AttemptsOwned
    <3>1. \A m \in DOMAIN attempts[t] :
            attempts[t][m] = "in_progress" => target[r] = t /\ attempt[r] = m
      BY <2>1, <2>3 DEF Undisturbed, AttemptsOwned
    <3>2. CASE t = target[r]
      <4>1. /\ n \in DOMAIN attempts[t]
            /\ attempts'[t][n] = IF n = attempt[r] THEN AttemptState(step[r]) ELSE attempts[t][n]
        BY <1>6, <3>2, CompleteEnds
      <4> QED
        BY <3>1, <4>1 DEF AttemptState
    <3>3. CASE t # target[r]
      BY <1>6, <3>1, <3>3, CompleteEnds DEF TypeOK
    <3> QED
      BY <3>2, <3>3
  <2> QED
    BY <2>3, <2>5, <2>6 DEF Undisturbed, OneAtATime, ReadsFresh, Working
<1>7. CASE Crash
  BY <1>7 DEF Crash, Disturb
<1>8. CASE UNCHANGED vars
  BY <1>8
     DEF vars, callVars, SettleOK, Undisturbed, OneAtATime, TruthSettled, AttemptsOwned,
         ReadsFresh, InFlight, Working, DeriveTruth
<1> QED
  BY <1>1, <1>2, <1>3, <1>4, <1>5, <1>6, <1>7, <1>8 DEF Steps

(* Retries made one after the other, undisturbed, leave no attempt in        *)
(* progress and the row of the table that the copies are in                  *)
(* (runtime-storage-registry.ts:1239-1259).                                  *)
THEOREM RetriesSettleHolds == Spec => []RetriesSettle
<1>1. Basics /\ SettleOK /\ [Next]_vars => SettleOK'
  BY NextSplits, NextSettle DEF Basics
<1>2. SettleOK => RetriesSettle
  BY DEF SettleOK, Undisturbed, TruthSettled, AttemptsOwned, RetriesSettle, Quiet, InFlight,
         Working
<1> QED
  BY <1>1, <1>2, InitSettle, BasicsHold, PTL DEF Spec

=============================================================================
