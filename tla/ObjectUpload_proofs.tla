------------------------- MODULE ObjectUpload_proofs -------------------------
(***************************************************************************)
(* Proofs about ObjectUpload, for any intents, targets, requests, keys and   *)
(* faults: its types, the locks on the intent's row and on a key, the        *)
(* durability of what was answered, the bytes behind a verified copy, that   *)
(* a failure leaves neither bytes nor an open intent behind, and that an     *)
(* upload implements StorageTruth.                                           *)
(***************************************************************************)
EXTENDS ObjectUpload, TLAPS

-----------------------------------------------------------------------------
(* Types.                                                                    *)

(* Every row of the outcome table is a truth.                                *)
LEMMA TruthIsTyped == ASSUME NEW c PROVE DeriveTruth(c) \in Truths
  BY DEF DeriveTruth, DualTruth, RouteTruth, Truth, Truths, StorageStates, Stages

(* What the provider writer returns.                                         *)
LEMMA ResultsAreTyped ==
  ASSUME NEW content \in Contents
  PROVE  LET results == [step : WriterSteps, content : Contents]
         IN /\ AfterPut("exact", content) \subseteq results
            /\ AfterHead(content) \subseteq results
            /\ AfterDelete \subseteq results
            /\ AfterLostDelete(content) \subseteq results
  BY DEF AfterPut, AfterHead, AfterDelete, AfterLostDelete, Result, WriterSteps, Contents

(* The answers that are not the outcome of an upload.                        *)
LEMMA ProblemIsTyped ==
  ASSUME NEW kind \in {"none", "cancelled", "refused", "expired", "key-reused",
                       "token-expired", "result-missing", "error"}
  PROVE  Problem(kind) \in Answers
  BY DEF Problem, Answer, Answers, NotRecorded, Recorded, NothingWritten, Completions,
         StorageStates, CopyStates

(* An outcome is the recorded stage and completion of an object.             *)
LEMMA RecordedIsTyped ==
  ASSUME NEW t \in Truths, NEW c \in Completions
  PROVE  Answer("recorded", t.stage, c) \in Answers
  BY DEF Answer, Answers, Truths

(* Every variable has its type in the initial states.                        *)
LEMMA InitTypeOK == Init => TypeOK
<1> SUFFICES ASSUME Init PROVE TypeOK
  OBVIOUS
<1>1. Created \in Truths
  BY DEF Created, Truth, Truths, StorageStates, Stages
<1>2. NotRecorded \in Completions /\ NothingWritten \in [Targets -> CopyStates]
  BY DEF NotRecorded, Recorded, NothingWritten, Completions, StorageStates, CopyStates
<1>3. Unanswered \in Answers
  BY <1>2 DEF Unanswered, Answer, Answers
<1> QED
  BY <1>1, <1>2, <1>3 DEF Init, TypeOK, IntentStates, Phases, Steps, WriterSteps, Contents

(* A request that leaves, with or without an answer, keeps the types.        *)
LEMMA FinishIsTyped ==
  ASSUME NEW r \in Requests, NEW a \in Answers, TypeOK, Finish(r, a)
  PROVE  /\ pc' \in [Requests -> Phases]
         /\ uncommitted' \in [Requests -> {"none", "uploading", "expired"}]
         /\ answer' \in [Requests -> Answers]
  BY DEF TypeOK, Finish, Leave, Phases

(* A provider step of an upload keeps the types.                             *)
LEMMA WriteIsTyped ==
  ASSUME NEW r \in Requests, NEW t \in Targets, TypeOK, Write(r, t)
  PROVE  TypeOK'
<1> DEFINE results == [step : WriterSteps, content : Contents]
<1>1. Content(r, t) \in Contents
  BY DEF TypeOK, Content
<1>2. ASSUME NEW from, NEW S, S \subseteq results, Progress(r, t, from, S)
      PROVE  /\ stored' \in [Intents -> [Targets -> Contents]]
             /\ progress' \in [Requests -> [Targets -> Steps]]
             /\ UNCHANGED <<databaseVars, expired, pc, keyOf, intentOf, uncommitted,
                            answer, active>>
  <2>1. PICK result \in S : /\ progress' = [progress EXCEPT ![r][t] = result.step]
                            /\ stored' = [stored EXCEPT ![intentOf[r]][t] = result.content]
    BY <1>2 DEF Progress
  <2>2. result.step \in Steps /\ result.content \in Contents
    BY <1>2 DEF Steps
  <2> QED
    BY <1>2, <2>1, <2>2 DEF TypeOK, Progress
<1>3. seen' \subseteq Faults
  BY DEF TypeOK, Write, PutObject, HeadObject, CleanupTarget, Fault
<1>4. /\ stored' \in [Intents -> [Targets -> Contents]]
      /\ progress' \in [Requests -> [Targets -> Steps]]
      /\ UNCHANGED <<databaseVars, expired, pc, keyOf, intentOf, uncommitted, answer, active>>
  BY <1>1, <1>2, ResultsAreTyped DEF Write, PutObject, HeadObject, CleanupTarget
<1> QED
  BY <1>3, <1>4 DEF TypeOK, databaseVars

(* Every step keeps the types, request by request and action by action.      *)
LEMMA NextTypeOK == TypeOK /\ [Next]_vars => TypeOK'
<1> SUFFICES ASSUME TypeOK, [Next]_vars PROVE TypeOK'
  OBVIOUS
<1> USE RequestsAssumption DEF Requests
<1>0. \A kind \in {"none", "cancelled", "refused", "expired", "key-reused", "token-expired",
                   "result-missing", "error"} : Problem(kind) \in Answers
  BY ProblemIsTyped
<1>1. ASSUME NEW i \in Intents, CreateObjectWriteIntent(i) PROVE TypeOK'
  BY <1>1 DEF TypeOK, CreateObjectWriteIntent, requestVars, IntentStates
<1>2. ASSUME NEW i \in Intents, TimePasses(i) PROVE TypeOK'
  BY <1>2 DEF TypeOK, TimePasses, databaseVars, requestVars
<1>3. ASSUME NEW r \in Requests, Send(r) PROVE TypeOK'
  BY <1>3 DEF TypeOK, Send, databaseVars, Phases
<1>4. ASSUME NEW r \in Requests, Reserve(r) PROVE TypeOK'
  BY <1>4 DEF TypeOK, Reserve, databaseVars, Phases
<1>5. ASSUME NEW r \in Requests, ReadContext(r) PROVE TypeOK'
  BY <1>5 DEF TypeOK, ReadContext, databaseVars, Phases
<1>6. ASSUME NEW r \in Requests, ExpireIfDue(r) PROVE TypeOK'
  BY <1>6 DEF TypeOK, ExpireIfDue, databaseVars, Phases
<1>7. ASSUME NEW r \in Requests, BeginObjectUpload(r) PROVE TypeOK'
  BY <1>7 DEF TypeOK, BeginObjectUpload, databaseVars, Phases
<1>8. ASSUME NEW r \in Requests, Stage(r) PROVE TypeOK'
  BY <1>8 DEF TypeOK, Stage, databaseVars, Phases, Steps, WriterSteps
<1>9. ASSUME NEW r \in Requests, StageFails(r) PROVE TypeOK'
  BY <1>9 DEF TypeOK, StageFails, databaseVars, Phases, Steps, WriterSteps
<1>10. ASSUME NEW r \in Requests, CompleteFails(r) PROVE TypeOK'
  BY <1>10 DEF TypeOK, CompleteFails, databaseVars, Phases
<1>11. ASSUME NEW r \in Requests, PrimaryWriteFailed(r) PROVE TypeOK'
  BY <1>11 DEF TypeOK, PrimaryWriteFailed, databaseVars, Phases, Leave
<1>12. ASSUME NEW r \in Requests, SafeCleanup(r) PROVE TypeOK'
  BY <1>12 DEF TypeOK, SafeCleanup, databaseVars, Phases, Leave, Fault, Contents
<1>13. ASSUME NEW r \in Requests, LoseConnection(r) PROVE TypeOK'
  BY <1>13 DEF TypeOK, LoseConnection, databaseVars, Phases, Fault
<1>14. ASSUME NEW r \in Requests, TokenExpired(r) PROVE TypeOK'
  BY <1>14, <1>0, FinishIsTyped DEF TypeOK, TokenExpired, databaseVars
<1>15. ASSUME NEW r \in Requests, KeyReused(r) PROVE TypeOK'
  BY <1>15, <1>0, FinishIsTyped DEF TypeOK, KeyReused, databaseVars
<1>16. ASSUME NEW r \in Requests, RefuseTerminal(r) PROVE TypeOK'
  BY <1>16, <1>0, FinishIsTyped DEF TypeOK, RefuseTerminal, databaseVars
<1>17. ASSUME NEW r \in Requests, RefuseExpired(r) PROVE TypeOK'
  BY <1>17, <1>0, FinishIsTyped DEF TypeOK, RefuseExpired, databaseVars
<1>18. ASSUME NEW r \in Requests, CancelConflict(r) PROVE TypeOK'
  BY <1>18, <1>0, FinishIsTyped DEF TypeOK, CancelConflict, databaseVars
<1>19. ASSUME NEW r \in Requests, BeginConflict(r) PROVE TypeOK'
  BY <1>19, <1>0, FinishIsTyped DEF TypeOK, BeginConflict, databaseVars
<1>20. ASSUME NEW r \in Requests, StatementFails(r) PROVE TypeOK'
  BY <1>20, <1>0, FinishIsTyped DEF TypeOK, StatementFails, databaseVars, Fault
<1>21. ASSUME NEW r \in Requests, CancelObjectWriteIntent(r) PROVE TypeOK'
  BY <1>21, <1>0, FinishIsTyped DEF TypeOK, CancelObjectWriteIntent, Scopes, Scope, IntentStates
<1>22. ASSUME NEW r \in Requests, CancelCommitFails(r) PROVE TypeOK'
  <2>1. /\ pc' \in [Requests -> Phases]
        /\ uncommitted' \in [Requests -> {"none", "uploading", "expired"}]
        /\ answer' \in [Requests -> Answers]
    BY <1>22, <1>0, FinishIsTyped DEF CancelCommitFails
  <2>2. intent' \in [Intents -> IntentStates \ {"uploading", "expired"}]
    BY <1>22 DEF TypeOK, CancelCommitFails, IntentStates
  <2>3. keys' \in [Scopes -> [Keys -> Intents \cup {NoIntent}]]
    BY <1>22 DEF TypeOK, CancelCommitFails, Scopes, Scope
  <2>4. seen' \subseteq Faults
    BY <1>22 DEF TypeOK, CancelCommitFails, Fault
  <2> QED
    BY <1>22, <2>1, <2>2, <2>3, <2>4 DEF TypeOK, CancelCommitFails
<1>23. ASSUME NEW r \in Requests, FailObjectUpload(r) PROVE TypeOK'
  BY <1>23, <1>0, FinishIsTyped DEF TypeOK, FailObjectUpload, IntentStates, Fault
<1>24. ASSUME NEW r \in Requests, Replay(r) PROVE TypeOK'
  <2>1. Decode(r) \in Answers
    BY <1>0, RecordedIsTyped DEF Decode, TypeOK
  <2> QED
    BY <1>24, <2>1, FinishIsTyped DEF TypeOK, Replay, databaseVars
<1>25. ASSUME NEW r \in Requests, Recording(r), Commit(r)
      PROVE  /\ intent' \in [Intents -> IntentStates \ {"uploading", "expired"}]
             /\ copies' \in [Intents -> [Targets -> CopyStates]]
             /\ truth' \in [Intents -> Truths]
             /\ recorded' \in [Intents -> Completions]
             /\ keys' \in [Scopes -> [Keys -> Intents \cup {NoIntent}]]
             /\ Answer("recorded", truth'[intentOf[r]].stage, recorded'[intentOf[r]]) \in Answers
  <2>1. Outcome(r) \in [Targets -> CopyStates]
    BY <1>25 DEF Outcome, Recording, Settled, CopyStates, TypeOK
  <2>2. DeriveTruth(Outcome(r)) \in Truths
    BY TruthIsTyped
  <2>3. Recorded(DeriveTruth(Outcome(r)).state, CompletionCopies(Outcome(r))) \in Completions
    BY <2>1, <2>2 DEF Recorded, CompletionCopies, Completions, Truths, CopyStates
  <2>4. /\ truth' \in [Intents -> Truths]
        /\ recorded' \in [Intents -> Completions]
    BY <1>25, <2>2, <2>3 DEF Commit, TypeOK
  <2>5. intentOf[r] \in Intents
    BY DEF TypeOK
  <2>6. Answer("recorded", truth'[intentOf[r]].stage, recorded'[intentOf[r]]) \in Answers
    BY <2>4, <2>5, RecordedIsTyped
  <2> QED
    BY <1>25, <2>1, <2>4, <2>6 DEF Commit, TypeOK, Scopes, Scope, IntentStates
<1>26. ASSUME NEW r \in Requests, CompleteProviderWrite(r) PROVE TypeOK'
  BY <1>26, <1>25, FinishIsTyped DEF TypeOK, CompleteProviderWrite
<1>27. ASSUME NEW r \in Requests, CommitFails(r) PROVE TypeOK'
  BY <1>27, <1>25, <1>0, FinishIsTyped DEF TypeOK, CommitFails, databaseVars, Fault
<1>28. ASSUME NEW r \in Requests, NEW t \in Targets, Write(r, t) PROVE TypeOK'
  BY <1>28, WriteIsTyped
<1>29. CASE Crash
  BY <1>29, <1>0 DEF TypeOK, Crash, databaseVars, Fault, Phases
<1>30. CASE UNCHANGED vars
  BY <1>30 DEF TypeOK, vars, databaseVars, requestVars
<1>31. ASSUME NEW r \in Requests, ReservationFails(r) PROVE TypeOK'
  BY <1>31 DEF TypeOK, ReservationFails, databaseVars, Phases, Fault
<1>32. ASSUME NEW r \in Requests, RecordingFails(r) PROVE TypeOK'
  BY <1>32 DEF TypeOK, RecordingFails, databaseVars, Phases, Fault
<1> QED
  BY <1>1, <1>2, <1>3, <1>4, <1>5, <1>6, <1>7, <1>8, <1>9, <1>10, <1>11, <1>12, <1>13, <1>14, <1>15, <1>16, <1>17, <1>18, <1>19, <1>20, <1>21, <1>22, <1>23, <1>24, <1>26, <1>27, <1>28, <1>29, <1>30, <1>31, <1>32
     DEF Next, Arrive, Handle, Break, AllDone

(* The variables keep their types; no committed intent row is "uploading" or *)
(* "expired".                                                                *)
THEOREM TypeCorrect == Spec => []TypeOK
  BY InitTypeOK, NextTypeOK, PTL DEF Spec

-----------------------------------------------------------------------------
(* The lock on the intent's row.                                             *)

(* What a transaction has written to an intent's row goes with its place:    *)
(* "uploading" with the upload, "expired" with the refusal; and no target is *)
(* touched before the row is held.                                           *)
Place ==
  \A r \in Requests :
    /\ Driving(r) \/ pc[r] = "failing" => r \in Uploads
    /\ uncommitted[r] = "uploading" => Driving(r)
    /\ uncommitted[r] = "expired" => pc[r] = "rejecting"
    /\ pc[r] \in {"idle", "sent", "reserved", "checked"} =>
         \A t \in Targets : progress[r][t] = "todo"

(* Only one transaction at a time has written to a row, and what it found    *)
(* there, "accepted", is what everybody else still sees.                     *)
RowLock ==
  /\ \A r \in Requests : uncommitted[r] # "none" => intent[intentOf[r]] = "accepted"
  /\ \A q, r \in Requests :
       q # r /\ intentOf[q] = intentOf[r] => uncommitted[q] = "none" \/ uncommitted[r] = "none"

RowInv == Place /\ RowLock

LEMMA InitRowInv == Init => RowInv
  BY RequestsAssumption DEF Init, RowInv, Place, RowLock, Driving, Requests

(* The row is changed by the holder of its lock, or when there is none.      *)
LEMMA NextRowInv == TypeOK /\ RowInv /\ [Next]_vars => RowInv'
<1> SUFFICES ASSUME TypeOK, RowInv, [Next]_vars PROVE RowInv'
  OBVIOUS
<1> USE RequestsAssumption DEF RowInv, Place, RowLock, TypeOK, Driving, Finish, Leave, Requests
<1>1. ASSUME NEW i \in Intents, CreateObjectWriteIntent(i) PROVE RowInv'
  BY <1>1 DEF CreateObjectWriteIntent, requestVars
<1>2. ASSUME NEW i \in Intents, TimePasses(i) PROVE RowInv'
  BY <1>2 DEF TimePasses, databaseVars, requestVars
<1>3. ASSUME NEW r \in Requests, Send(r) PROVE RowInv'
  BY <1>3 DEF Send, databaseVars
<1>4. ASSUME NEW r \in Requests, TokenExpired(r) PROVE RowInv'
  BY <1>4 DEF TokenExpired, databaseVars
<1>5. ASSUME NEW r \in Requests, Reserve(r) PROVE RowInv'
  BY <1>5 DEF Reserve, databaseVars
<1>6. ASSUME NEW r \in Requests, KeyReused(r) PROVE RowInv'
  BY <1>6 DEF KeyReused, databaseVars
<1>7. ASSUME NEW r \in Requests, Replay(r) PROVE RowInv'
  BY <1>7 DEF Replay, databaseVars
<1>8. ASSUME NEW r \in Requests, ReadContext(r) PROVE RowInv'
  BY <1>8 DEF ReadContext, databaseVars
<1>9. ASSUME NEW r \in Requests, RefuseTerminal(r) PROVE RowInv'
  BY <1>9 DEF RefuseTerminal, databaseVars
<1>10. ASSUME NEW r \in Requests, ExpireIfDue(r) PROVE RowInv'
  BY <1>10 DEF ExpireIfDue, databaseVars, RowFree, HoldsRow
<1>11. ASSUME NEW r \in Requests, RefuseExpired(r) PROVE RowInv'
  BY <1>11 DEF RefuseExpired, databaseVars
<1>12. ASSUME NEW r \in Requests, CancelObjectWriteIntent(r) PROVE RowInv'
  BY <1>12 DEF CancelObjectWriteIntent, databaseVars, RowFree, HoldsRow
<1>13. ASSUME NEW r \in Requests, CancelCommitFails(r) PROVE RowInv'
  BY <1>13 DEF CancelCommitFails, databaseVars, RowFree, HoldsRow
<1>14. ASSUME NEW r \in Requests, CancelConflict(r) PROVE RowInv'
  BY <1>14 DEF CancelConflict, databaseVars
<1>15. ASSUME NEW r \in Requests, BeginObjectUpload(r) PROVE RowInv'
  BY <1>15 DEF BeginObjectUpload, databaseVars, RowFree, HoldsRow
<1>16. ASSUME NEW r \in Requests, BeginConflict(r) PROVE RowInv'
  BY <1>16 DEF BeginConflict, databaseVars
<1>17. ASSUME NEW r \in Requests, Stage(r) PROVE RowInv'
  BY <1>17 DEF Stage, databaseVars
<1>18. ASSUME NEW r \in Requests, StageFails(r) PROVE RowInv'
  BY <1>18 DEF StageFails, databaseVars
<1>19. ASSUME NEW r \in Requests, CompleteProviderWrite(r) PROVE RowInv'
  BY <1>19 DEF CompleteProviderWrite, databaseVars, Recording, Commit, Severed
<1>20. ASSUME NEW r \in Requests, CommitFails(r) PROVE RowInv'
  BY <1>20 DEF CommitFails, databaseVars, Recording, Commit, Severed
<1>21. ASSUME NEW r \in Requests, PrimaryWriteFailed(r) PROVE RowInv'
  BY <1>21 DEF PrimaryWriteFailed, databaseVars, Recording
<1>22. ASSUME NEW r \in Requests, CompleteFails(r) PROVE RowInv'
  BY <1>22 DEF CompleteFails, databaseVars
<1>23. ASSUME NEW r \in Requests, SafeCleanup(r) PROVE RowInv'
  BY <1>23 DEF SafeCleanup, databaseVars
<1>24. ASSUME NEW r \in Requests, FailObjectUpload(r) PROVE RowInv'
  BY <1>24 DEF FailObjectUpload, databaseVars, RowFree, HoldsRow
<1>25. ASSUME NEW r \in Requests, LoseConnection(r) PROVE RowInv'
  BY <1>25 DEF LoseConnection, databaseVars
<1>26. ASSUME NEW r \in Requests, StatementFails(r) PROVE RowInv'
  BY <1>26 DEF StatementFails, databaseVars
<1>27. ASSUME NEW r \in Requests, NEW t \in Targets, Write(r, t) PROVE RowInv'
  <2>1. /\ pc[r] = "writing"
        /\ UNCHANGED <<intent, pc, intentOf, uncommitted>>
        /\ \E step : progress' = [progress EXCEPT ![r][t] = step]
    BY <1>27 DEF Write, PutObject, HeadObject, CleanupTarget, Progress, databaseVars
  <2>2. \A q \in Requests : q # r => progress'[q] = progress[q]
    BY <2>1
  <2> QED
    BY <2>1, <2>2
<1>28. CASE Crash
  BY <1>28 DEF Crash, Running, databaseVars
<1>29. CASE UNCHANGED vars
  BY <1>29 DEF vars, databaseVars, requestVars
<1>30. ASSUME NEW r \in Requests, ReservationFails(r) PROVE RowInv'
  BY <1>30 DEF ReservationFails, databaseVars, RowFree, HoldsRow
<1>31. ASSUME NEW r \in Requests, RecordingFails(r) PROVE RowInv'
  BY <1>31 DEF RecordingFails, databaseVars, Recording
<1> QED
  BY <1>1, <1>2, <1>3, <1>4, <1>5, <1>6, <1>7, <1>8, <1>9, <1>10, <1>11, <1>12, <1>13,
     <1>14, <1>15, <1>16, <1>17, <1>18, <1>19, <1>20, <1>21, <1>22, <1>23, <1>24, <1>25,
     <1>26, <1>27, <1>28, <1>29, <1>30, <1>31
     DEF Next, Arrive, Handle, Break, AllDone

(* Two uploads of one intent are never both at the providers, unless the     *)
(* database has dropped the connection of one of them.                       *)
THEOREM OneWriterHolds == Spec => []OneWriter
<1>1. TypeOK /\ RowInv => OneWriter
  BY RequestsAssumption DEF TypeOK, RowInv, Place, RowLock, OneWriter, Driving, Severed, Requests
<1> QED
  BY <1>1, InitTypeOK, NextTypeOK, InitRowInv, NextRowInv, PTL DEF Spec

-----------------------------------------------------------------------------
(* The lock on a key.                                                        *)

(* A transaction that has inserted a key's row is the only one, and nobody   *)
(* had recorded the key before.                                              *)
KeyLock ==
  \A r \in Requests :
    HoldsKey(r, Scope(r), keyOf[r]) =>
      /\ keys[Scope(r)][keyOf[r]] = NoIntent
      /\ \A q \in Requests : HoldsKey(q, Scope(r), keyOf[r]) => q = r

LEMMA InitKeyLock == Init => KeyLock
  BY DEF Init, KeyLock, HoldsKey

(* A key is inserted when nobody holds it, and recorded by its holder.       *)
LEMMA NextKeyLock == TypeOK /\ Place /\ KeyLock /\ [Next]_vars => KeyLock'
<1> SUFFICES ASSUME TypeOK, Place, KeyLock, [Next]_vars PROVE KeyLock'
  OBVIOUS
<1> USE RequestsAssumption DEF KeyLock, HoldsKey, KeyFree, Severed, Place, Driving, Scope, Scopes, TypeOK, Finish, Leave, Requests
<1>1. ASSUME NEW i \in Intents, CreateObjectWriteIntent(i) PROVE KeyLock'
  BY <1>1 DEF CreateObjectWriteIntent, requestVars
<1>2. ASSUME NEW i \in Intents, TimePasses(i) PROVE KeyLock'
  BY <1>2 DEF TimePasses, databaseVars, requestVars
<1>3. ASSUME NEW r \in Requests, Send(r) PROVE KeyLock'
  BY <1>3 DEF Send, databaseVars
<1>4. ASSUME NEW r \in Requests, TokenExpired(r) PROVE KeyLock'
  BY <1>4 DEF TokenExpired, databaseVars
<1>5. ASSUME NEW r \in Requests, Reserve(r) PROVE KeyLock'
  BY <1>5 DEF Reserve, databaseVars
<1>6. ASSUME NEW r \in Requests, KeyReused(r) PROVE KeyLock'
  BY <1>6 DEF KeyReused, databaseVars
<1>7. ASSUME NEW r \in Requests, Replay(r) PROVE KeyLock'
  BY <1>7 DEF Replay, databaseVars
<1>8. ASSUME NEW r \in Requests, ReadContext(r) PROVE KeyLock'
  BY <1>8 DEF ReadContext, databaseVars
<1>9. ASSUME NEW r \in Requests, RefuseTerminal(r) PROVE KeyLock'
  BY <1>9 DEF RefuseTerminal, databaseVars
<1>10. ASSUME NEW r \in Requests, ExpireIfDue(r) PROVE KeyLock'
  BY <1>10 DEF ExpireIfDue, databaseVars
<1>11. ASSUME NEW r \in Requests, RefuseExpired(r) PROVE KeyLock'
  BY <1>11 DEF RefuseExpired, databaseVars
<1>12. ASSUME NEW r \in Requests, CancelObjectWriteIntent(r) PROVE KeyLock'
  BY <1>12 DEF CancelObjectWriteIntent, databaseVars
<1>13. ASSUME NEW r \in Requests, CancelCommitFails(r) PROVE KeyLock'
  BY <1>13 DEF CancelCommitFails, databaseVars
<1>14. ASSUME NEW r \in Requests, CancelConflict(r) PROVE KeyLock'
  BY <1>14 DEF CancelConflict, databaseVars
<1>15. ASSUME NEW r \in Requests, BeginObjectUpload(r) PROVE KeyLock'
  BY <1>15 DEF BeginObjectUpload, databaseVars
<1>16. ASSUME NEW r \in Requests, BeginConflict(r) PROVE KeyLock'
  BY <1>16 DEF BeginConflict, databaseVars
<1>17. ASSUME NEW r \in Requests, Stage(r) PROVE KeyLock'
  BY <1>17 DEF Stage, databaseVars
<1>18. ASSUME NEW r \in Requests, StageFails(r) PROVE KeyLock'
  BY <1>18 DEF StageFails, databaseVars
<1>19. ASSUME NEW r \in Requests, CompleteProviderWrite(r) PROVE KeyLock'
  BY <1>19 DEF CompleteProviderWrite, databaseVars, Recording, Commit
<1>20. ASSUME NEW r \in Requests, CommitFails(r) PROVE KeyLock'
  BY <1>20 DEF CommitFails, databaseVars, Recording, Commit
<1>21. ASSUME NEW r \in Requests, PrimaryWriteFailed(r) PROVE KeyLock'
  BY <1>21 DEF PrimaryWriteFailed, databaseVars, Recording
<1>22. ASSUME NEW r \in Requests, CompleteFails(r) PROVE KeyLock'
  BY <1>22 DEF CompleteFails, databaseVars
<1>23. ASSUME NEW r \in Requests, SafeCleanup(r) PROVE KeyLock'
  BY <1>23 DEF SafeCleanup, databaseVars
<1>24. ASSUME NEW r \in Requests, FailObjectUpload(r) PROVE KeyLock'
  BY <1>24 DEF FailObjectUpload, databaseVars
<1>25. ASSUME NEW r \in Requests, LoseConnection(r) PROVE KeyLock'
  BY <1>25 DEF LoseConnection, databaseVars
<1>26. ASSUME NEW r \in Requests, StatementFails(r) PROVE KeyLock'
  BY <1>26 DEF StatementFails, databaseVars
<1>27. ASSUME NEW r \in Requests, NEW t \in Targets, Write(r, t) PROVE KeyLock'
  BY <1>27 DEF Write, PutObject, HeadObject, CleanupTarget, Progress, databaseVars
<1>28. CASE Crash
  BY <1>28 DEF Crash, Running, databaseVars
<1>29. CASE UNCHANGED vars
  BY <1>29 DEF vars, databaseVars, requestVars
<1>30. ASSUME NEW r \in Requests, ReservationFails(r) PROVE KeyLock'
  BY <1>30 DEF ReservationFails, databaseVars
<1>31. ASSUME NEW r \in Requests, RecordingFails(r) PROVE KeyLock'
  BY <1>31 DEF RecordingFails, databaseVars, Recording
<1> QED
  BY <1>1, <1>2, <1>3, <1>4, <1>5, <1>6, <1>7, <1>8, <1>9, <1>10, <1>11, <1>12, <1>13,
     <1>14, <1>15, <1>16, <1>17, <1>18, <1>19, <1>20, <1>21, <1>22, <1>23, <1>24, <1>25,
     <1>26, <1>27, <1>28, <1>29, <1>30, <1>31
     DEF Next, Arrive, Handle, Break, AllDone

-----------------------------------------------------------------------------
(* The committed rows.                                                       *)

(* The steps that change a committed row of the database.                    *)
Committing(r) ==
  \/ CancelObjectWriteIntent(r) \/ CancelCommitFails(r)
  \/ CompleteProviderWrite(r) \/ CommitFails(r)
  \/ FailObjectUpload(r)

LEMMA DatabaseSteps ==
  ASSUME [Next]_vars
  PROVE  \/ UNCHANGED databaseVars
         \/ \E i \in Intents : CreateObjectWriteIntent(i)
         \/ \E r \in Requests : Committing(r)
<1>1. ASSUME NEW r \in Requests, Arrive(r) \/ Handle(r) \/ Break(r), ~Committing(r)
      PROVE  UNCHANGED databaseVars
  <2>1. ASSUME NEW t \in Targets, Write(r, t) PROVE UNCHANGED databaseVars
    BY <2>1 DEF Write, PutObject, HeadObject, CleanupTarget, Progress
  <2>2. ASSUME \/ Send(r) \/ TokenExpired(r) \/ Reserve(r) \/ KeyReused(r) \/ Replay(r)
               \/ ReadContext(r) \/ RefuseTerminal(r) \/ ExpireIfDue(r) \/ RefuseExpired(r)
               \/ CancelConflict(r) \/ BeginObjectUpload(r) \/ BeginConflict(r)
        PROVE  UNCHANGED databaseVars
    BY <2>2 DEF Send, TokenExpired, Reserve, KeyReused, Replay, ReadContext, RefuseTerminal,
                ExpireIfDue, RefuseExpired, CancelConflict, BeginObjectUpload, BeginConflict
  <2>3. ASSUME \/ Stage(r) \/ StageFails(r) \/ PrimaryWriteFailed(r) \/ CompleteFails(r)
               \/ SafeCleanup(r) \/ LoseConnection(r) \/ StatementFails(r)
               \/ ReservationFails(r) \/ RecordingFails(r)
        PROVE  UNCHANGED databaseVars
    BY <2>3 DEF Stage, StageFails, PrimaryWriteFailed, CompleteFails, SafeCleanup,
                LoseConnection, StatementFails, ReservationFails, RecordingFails
  <2> QED
    BY <1>1, <2>1, <2>2, <2>3 DEF Committing, Arrive, Handle, Break
<1> QED
  BY <1>1 DEF Next, AllDone, TimePasses, Crash, vars

(* What a recorded upload commits, and the intent it found.                  *)
LEMMA CommitsUnderLock ==
  ASSUME TypeOK, RowInv, NEW r \in Requests, Recording(r)
  PROVE  r \in Uploads /\ uncommitted[r] = "uploading" /\ intent[intentOf[r]] = "accepted"
  BY RequestsAssumption DEF TypeOK, RowInv, Place, RowLock, Recording, Severed, Driving, Requests

(* Only an accepted intent ever changes again, and only a completed one has  *)
(* an outcome.                                                               *)
Rows ==
  \A i \in Intents :
    intent[i] # "completed" => copies[i] = NothingWritten /\ truth[i] = Created

LEMMA NextRows == TypeOK /\ RowInv /\ Rows /\ [Next]_vars => Rows'
<1> SUFFICES ASSUME TypeOK, RowInv, Rows, [Next]_vars PROVE Rows'
  OBVIOUS
<1>1. CASE UNCHANGED databaseVars
  BY <1>1 DEF Rows, databaseVars
<1>2. ASSUME NEW i \in Intents, CreateObjectWriteIntent(i) PROVE Rows'
  BY <1>2 DEF Rows, CreateObjectWriteIntent, TypeOK
<1>3. ASSUME NEW r \in Requests, CancelObjectWriteIntent(r) \/ CancelCommitFails(r) PROVE Rows'
  BY <1>3 DEF Rows, CancelObjectWriteIntent, CancelCommitFails, TypeOK
<1>4. ASSUME NEW r \in Requests, CompleteProviderWrite(r) \/ CommitFails(r) PROVE Rows'
  BY <1>4 DEF Rows, CompleteProviderWrite, CommitFails, Commit, TypeOK, databaseVars
<1>5. ASSUME NEW r \in Requests, FailObjectUpload(r) PROVE Rows'
  BY <1>5 DEF Rows, FailObjectUpload, TypeOK
<1> QED
  BY <1>1, <1>2, <1>3, <1>4, <1>5, DatabaseSteps DEF Committing

(* A key that is recorded answers for the same intent for ever.              *)
THEOREM KeysAreFinalHolds == Spec => KeysAreFinal
<1>1. TypeOK /\ KeyLock /\ [Next]_vars =>
        [\A s \in Scopes, k \in Keys : keys[s][k] # NoIntent => keys'[s][k] = keys[s][k]]_vars
  <2> SUFFICES ASSUME TypeOK, KeyLock, [Next]_vars,
                      NEW s \in Scopes, NEW k \in Keys, keys[s][k] # NoIntent
               PROVE  keys'[s][k] = keys[s][k]
    OBVIOUS
  <2>1. CASE UNCHANGED databaseVars \/ \E i \in Intents : CreateObjectWriteIntent(i)
    BY <2>1 DEF databaseVars, CreateObjectWriteIntent
  <2>2. ASSUME NEW r \in Requests, CancelObjectWriteIntent(r) \/ CancelCommitFails(r)
        PROVE  keys'[s][k] = keys[s][k]
    <3>1. keys[Scope(r)][keyOf[r]] = NoIntent
      BY <2>2 DEF CancelObjectWriteIntent, CancelCommitFails, KeyLock, HoldsKey, Severed
    <3>2. \/ keys' = [keys EXCEPT ![Scope(r)][keyOf[r]] = intentOf[r]]
          \/ keys' = keys
      BY <2>2 DEF CancelObjectWriteIntent, CancelCommitFails
    <3>3. keys \in [Scopes -> [Keys -> Intents \cup {NoIntent}]] /\ keyOf[r] \in Keys
      BY DEF TypeOK
    <3>4. s # Scope(r) \/ k # keyOf[r]
      BY <3>1
    <3> QED
      BY <3>2, <3>3, <3>4
  <2>3. ASSUME NEW r \in Requests, CompleteProviderWrite(r) \/ CommitFails(r)
        PROVE  keys'[s][k] = keys[s][k]
    <3>1. keys[Scope(r)][keyOf[r]] = NoIntent
      BY <2>3 DEF CompleteProviderWrite, CommitFails, Recording, KeyLock, HoldsKey
    <3>2. \/ keys' = [keys EXCEPT ![Scope(r)][keyOf[r]] = intentOf[r]]
          \/ keys' = keys
      BY <2>3 DEF CompleteProviderWrite, CommitFails, Commit, databaseVars
    <3>3. keys \in [Scopes -> [Keys -> Intents \cup {NoIntent}]] /\ keyOf[r] \in Keys
      BY DEF TypeOK
    <3>4. s # Scope(r) \/ k # keyOf[r]
      BY <3>1
    <3> QED
      BY <3>2, <3>3, <3>4
  <2>4. ASSUME NEW r \in Requests, FailObjectUpload(r) PROVE keys'[s][k] = keys[s][k]
    BY <2>4 DEF FailObjectUpload
  <2> QED
    BY <2>1, <2>2, <2>3, <2>4, DatabaseSteps DEF Committing
<1> QED
  BY <1>1, InitTypeOK, NextTypeOK, InitRowInv, NextRowInv, InitKeyLock, NextKeyLock, PTL
     DEF Spec, RowInv, KeysAreFinal

-----------------------------------------------------------------------------
(* What a client was told.                                                   *)

(* No step changes the rows of a closed intent.                              *)
LEMMA ClosedRowsStay ==
  ASSUME TypeOK, RowInv, [Next]_vars, NEW i \in Intents, intent[i] \in Closed
  PROVE  /\ intent'[i] = intent[i]
         /\ truth'[i] = truth[i]
         /\ recorded'[i] = recorded[i]
<1>1. CASE UNCHANGED databaseVars
  BY <1>1 DEF databaseVars
<1>2. ASSUME NEW j \in Intents, CreateObjectWriteIntent(j)
      PROVE  intent'[i] = intent[i] /\ truth'[i] = truth[i] /\ recorded'[i] = recorded[i]
  BY <1>2 DEF CreateObjectWriteIntent, TypeOK, Closed
<1>3. ASSUME NEW r \in Requests, CancelObjectWriteIntent(r) \/ CancelCommitFails(r)
      PROVE  intent'[i] = intent[i] /\ truth'[i] = truth[i] /\ recorded'[i] = recorded[i]
  BY <1>3 DEF CancelObjectWriteIntent, CancelCommitFails, TypeOK, Closed
<1>4. ASSUME NEW r \in Requests, CompleteProviderWrite(r) \/ CommitFails(r)
      PROVE  intent'[i] = intent[i] /\ truth'[i] = truth[i] /\ recorded'[i] = recorded[i]
  <2>1. intent[intentOf[r]] = "accepted"
    BY <1>4, CommitsUnderLock DEF CompleteProviderWrite, CommitFails
  <2> QED
    BY <1>4, <2>1 DEF CompleteProviderWrite, CommitFails, Commit, TypeOK, Closed, databaseVars
<1>5. ASSUME NEW r \in Requests, FailObjectUpload(r)
      PROVE  intent'[i] = intent[i] /\ truth'[i] = truth[i] /\ recorded'[i] = recorded[i]
  BY <1>5 DEF FailObjectUpload, TypeOK, Closed
<1> QED
  BY <1>1, <1>2, <1>3, <1>4, <1>5, DatabaseSteps DEF Committing

(* The steps that tell a client of an outcome.                               *)
Telling(r) == Replay(r) \/ CompleteProviderWrite(r) \/ CancelObjectWriteIntent(r)

Told == {"recorded", "cancelled", "result-missing"}

LEMMA AnswerSteps ==
  ASSUME TypeOK, [Next]_vars, NEW q \in Requests
  PROVE  /\ intentOf' = intentOf
         /\ \/ answer'[q] = answer[q]
            \/ answer'[q].kind \notin Told
            \/ Telling(q)
<1> DEFINE Untold == /\ intentOf' = intentOf
                     /\ answer'[q] = answer[q] \/ answer'[q].kind \notin Told
<1> USE DEF TypeOK, Finish, Problem, Answer, Told
<1>1. ASSUME NEW r \in Requests, Telling(r)
      PROVE  intentOf' = intentOf /\ (q # r => answer'[q] = answer[q])
  BY <1>1 DEF Telling, Replay, CompleteProviderWrite, CancelObjectWriteIntent
<1>2. ASSUME NEW r \in Requests,
             \/ TokenExpired(r) \/ KeyReused(r) \/ RefuseTerminal(r) \/ RefuseExpired(r)
             \/ CancelCommitFails(r) \/ CancelConflict(r) \/ BeginConflict(r)
             \/ CommitFails(r) \/ FailObjectUpload(r) \/ StatementFails(r)
      PROVE  Untold
  BY <1>2 DEF TokenExpired, KeyReused, RefuseTerminal, RefuseExpired, CancelCommitFails,
              CancelConflict, BeginConflict, CommitFails, FailObjectUpload, StatementFails
<1>3. ASSUME NEW r \in Requests,
             \/ Send(r) \/ Reserve(r) \/ ReadContext(r) \/ ExpireIfDue(r)
             \/ BeginObjectUpload(r) \/ Stage(r) \/ StageFails(r) \/ PrimaryWriteFailed(r)
             \/ CompleteFails(r) \/ SafeCleanup(r) \/ LoseConnection(r)
             \/ ReservationFails(r) \/ RecordingFails(r)
      PROVE  Untold
  BY <1>3 DEF Send, Reserve, ReadContext, ExpireIfDue, BeginObjectUpload, Stage, StageFails,
              PrimaryWriteFailed, CompleteFails, SafeCleanup, LoseConnection,
              ReservationFails, RecordingFails
<1>4. ASSUME NEW r \in Requests, NEW t \in Targets, Write(r, t) PROVE Untold
  BY <1>4 DEF Write, PutObject, HeadObject, CleanupTarget, Progress
<1>5. ASSUME Crash PROVE Untold
  BY <1>5 DEF Crash
<1>6. ASSUME NEW i \in Intents, CreateObjectWriteIntent(i) \/ TimePasses(i) PROVE Untold
  BY <1>6 DEF CreateObjectWriteIntent, TimePasses, requestVars
<1>7. ASSUME UNCHANGED vars PROVE Untold
  BY <1>7 DEF vars, requestVars
<1> HIDE DEF Untold
<1>8. ASSUME NEW r \in Requests, Arrive(r) \/ Handle(r) \/ Break(r), ~Telling(r)
      PROVE  Untold
  BY <1>2, <1>3, <1>4, <1>8 DEF Arrive, Handle, Break, Telling
<1>9. Untold \/ \E r \in Requests : Telling(r)
  BY <1>5, <1>6, <1>7, <1>8 DEF Next, AllDone
<1> QED
  BY <1>1, <1>9 DEF Untold

LEMMA NextAnswerIsDurable ==
  TypeOK /\ RowInv /\ AnswerIsDurable /\ [Next]_vars => AnswerIsDurable'
<1> SUFFICES ASSUME TypeOK, RowInv, AnswerIsDurable, [Next]_vars, NEW q \in Requests
             PROVE  LET i == intentOf'[q]
                    IN /\ answer'[q].kind = "recorded" =>
                            /\ intent'[i] = "completed"
                            /\ answer'[q] = Answer("recorded", truth'[i].stage, recorded'[i])
                       /\ answer'[q].kind = "cancelled" => intent'[i] = "cancelled"
  BY DEF AnswerIsDurable
<1> DEFINE i == intentOf[q]
<1>1. i \in Intents /\ intentOf' = intentOf
  BY AnswerSteps DEF TypeOK
<1>2. CASE answer'[q] = answer[q]
  BY <1>1, <1>2, ClosedRowsStay DEF AnswerIsDurable, Closed
<1>3. CASE Replay(q)
  BY <1>1, <1>3 DEF Replay, Finish, Decode, Answer, Problem, databaseVars, TypeOK
<1>4. CASE CompleteProviderWrite(q)
  BY <1>1, <1>4 DEF CompleteProviderWrite, Commit, Finish, Answer, TypeOK
<1>5. CASE CancelObjectWriteIntent(q)
  BY <1>1, <1>5 DEF CancelObjectWriteIntent, Finish, Answer, Problem, TypeOK
<1>6. CASE answer'[q].kind \notin Told
  BY <1>6 DEF Told
<1> QED
  BY <1>2, <1>3, <1>4, <1>5, <1>6, AnswerSteps DEF Telling

(* A recorded upload stays completed with the outcome that was answered, and *)
(* a cancelled intent stays cancelled.                                       *)
THEOREM AnswerIsDurableHolds == Spec => []AnswerIsDurable
<1>1. Init => AnswerIsDurable
  BY DEF Init, AnswerIsDurable, Unanswered, Answer
<1> QED
  BY <1>1, InitTypeOK, NextTypeOK, InitRowInv, NextRowInv, NextAnswerIsDurable, PTL DEF Spec

-----------------------------------------------------------------------------
(* Refinement.                                                               *)

(* StorageTruth reads the same table.                                        *)
LEMMA SameTable ==
  /\ Abstract!NothingWritten = NothingWritten
  /\ Abstract!Created = Created
  /\ Abstract!Written = Written
  /\ Abstract!CopyStates = CopyStates
  /\ \A c : Abstract!DeriveTruth(c) = DeriveTruth(c)
  BY DEF Abstract!NothingWritten, NothingWritten, Abstract!Created, Created,
         Abstract!Written, Written, Abstract!CopyStates, CopyStates,
         Abstract!DeriveTruth, DeriveTruth, Abstract!DualTruth, DualTruth,
         Abstract!RouteTruth, RouteTruth, Abstract!Truth, Truth, Abstract!Peers, Peers

(* Every step of an upload is a step of StorageTruth or none of its business.*)
LEMMA StepImplementsStorageTruth ==
  TypeOK /\ RowInv /\ [Next]_vars => [Abstract!Next]_(Abstract!truthVars)
<1> SUFFICES ASSUME TypeOK, RowInv, [Next]_vars
             PROVE  Abstract!Next \/ UNCHANGED <<intent, copies, truth>>
  BY DEF Abstract!truthVars
<1>1. CASE UNCHANGED databaseVars
  BY <1>1 DEF databaseVars
<1>2. ASSUME NEW i \in Intents, CreateObjectWriteIntent(i) PROVE Abstract!Next
  BY <1>2 DEF CreateObjectWriteIntent, Abstract!Next, Abstract!Accept
<1>3. ASSUME NEW r \in Requests, CancelObjectWriteIntent(r) \/ CancelCommitFails(r)
      PROVE  Abstract!Next \/ UNCHANGED <<intent, copies, truth>>
  BY <1>3 DEF CancelObjectWriteIntent, CancelCommitFails, TypeOK, Abstract!Next, Abstract!Close
<1>4. ASSUME NEW r \in Requests, Recording(r), ~PrimaryLost(r), Commit(r)
      PROVE  Abstract!Next
  <2> DEFINE i == intentOf[r]
  <2>1. i \in Intents /\ intent[i] = "accepted"
    BY <1>4, CommitsUnderLock DEF TypeOK
  <2>2. /\ Outcome(r) \in [Targets -> CopyStates]
        /\ \A t \in Targets : (Outcome(r)[t] = "pending") <=> (t \notin Written)
    BY <1>4 DEF Outcome, Recording, Settled, CopyStates, TypeOK
  <2>3. Configured => Outcome(r)[Primary] = "verified"
    BY <1>4, TargetsAssumption DEF Recording, Settled, PrimaryLost, Outcome, Written
  <2>4. Abstract!Record(i)
    BY <1>4, <2>1, <2>2, <2>3, SameTable DEF Commit, Abstract!Record
  <2> QED
    BY <2>1, <2>4 DEF Abstract!Next
<1>5. ASSUME NEW r \in Requests, CompleteProviderWrite(r) \/ CommitFails(r)
      PROVE  Abstract!Next \/ UNCHANGED <<intent, copies, truth>>
  BY <1>4, <1>5 DEF CompleteProviderWrite, CommitFails, databaseVars
<1>6. ASSUME NEW r \in Requests, FailObjectUpload(r)
      PROVE  Abstract!Next \/ UNCHANGED <<intent, copies, truth>>
  BY <1>6 DEF FailObjectUpload, TypeOK, Abstract!Next, Abstract!Close
<1> QED
  BY <1>1, <1>2, <1>3, <1>5, <1>6, DatabaseSteps DEF Committing

(* Seen from the outside an upload is one step, from open to one row of the  *)
(* outcome table or to closed with nothing recorded.                         *)
THEOREM UploadImplementsStorageTruth == Spec => ImplementsStorageTruth
<1>1. Init => Abstract!Init
  BY SameTable DEF Init, Abstract!Init
<1> QED
  BY <1>1, InitTypeOK, NextTypeOK, InitRowInv, NextRowInv, StepImplementsStorageTruth, PTL
     DEF Spec, ImplementsStorageTruth, Abstract!Spec

-----------------------------------------------------------------------------
(* The bytes behind a verified copy, as long as the database has kept every  *)
(* connection.                                                               *)

(* An upload that drives the providers holds the row.                        *)
DriversHold == \A r \in Requests : Driving(r) => uncommitted[r] = "uploading"

(* The registered execution of an intent is an upload that drives it.        *)
Registered ==
  \A i \in Intents : active[i] # NoRequest => Driving(active[i]) /\ intentOf[active[i]] = i

(* What an upload has verified is there.                                     *)
VerifiedIsThere ==
  \A r \in Requests, t \in Targets :
    Driving(r) /\ progress[r][t] = "verified" => stored[intentOf[r]][t] = "exact"

(* And so is what was recorded as verified, when nobody drives any more.     *)
RecordedIsThere ==
  \A i \in Intents, t \in Targets : copies[i][t] = "verified" => stored[i][t] = "exact"

BytesInv ==
  "connection" \notin seen =>
    DriversHold /\ Registered /\ VerifiedIsThere /\ RecordedIsThere

LEMMA InitBytesInv == Init => BytesInv
  BY DEF Init, BytesInv, DriversHold, Registered, VerifiedIsThere, RecordedIsThere, Driving,
         NothingWritten

(* Only one upload drives an intent, and no copy of it is recorded.          *)
LEMMA OneDriver ==
  ASSUME TypeOK, RowInv, Rows, DriversHold, NEW r \in Requests, Driving(r)
  PROVE  /\ \A q \in Requests : Driving(q) /\ intentOf[q] = intentOf[r] => q = r
         /\ \A t \in Targets : copies[intentOf[r]][t] # "verified"
<1>1. \A q \in Requests : Driving(q) => uncommitted[q] = "uploading"
  BY DEF DriversHold
<1>2. intentOf[r] \in Intents /\ intent[intentOf[r]] = "accepted"
  BY <1>1 DEF TypeOK, RowInv, RowLock
<1>3. copies[intentOf[r]] = NothingWritten
  BY <1>2 DEF Rows
<1> QED
  BY <1>1, <1>3 DEF RowInv, RowLock, NothingWritten

(* A provider step of one upload leaves the bytes of the others alone.       *)
LEMMA WriteKeepsBytes ==
  ASSUME TypeOK, RowInv, Rows, BytesInv, NEW r \in Requests, NEW t \in Targets, Write(r, t)
  PROVE  BytesInv'
<1> SUFFICES ASSUME "connection" \notin seen, "connection" \notin seen'
             PROVE  (DriversHold /\ Registered /\ VerifiedIsThere /\ RecordedIsThere)'
  BY DEF BytesInv, Write, PutObject, HeadObject, CleanupTarget, Fault
<1>1. DriversHold /\ Registered /\ VerifiedIsThere /\ RecordedIsThere
  BY DEF BytesInv
<1>2. /\ Driving(r)
      /\ UNCHANGED <<copies, pc, intentOf, uncommitted, active>>
  BY DEF Write, PutObject, HeadObject, CleanupTarget, Progress, databaseVars, Driving
<1>3. PICK step, content :
        /\ progress' = [progress EXCEPT ![r][t] = step]
        /\ stored' = [stored EXCEPT ![intentOf[r]][t] = content]
        /\ step = "verified" => content = "exact"
  <2>1. PICK result \in AfterPut("exact", Content(r, t)) \cup AfterHead(Content(r, t))
                      \cup AfterDelete \cup AfterLostDelete(Content(r, t)) :
          /\ progress' = [progress EXCEPT ![r][t] = result.step]
          /\ stored' = [stored EXCEPT ![intentOf[r]][t] = result.content]
    BY DEF Write, PutObject, HeadObject, CleanupTarget, Progress
  <2>2. Content(r, t) \in {"absent", "exact"}
    BY DEF Content, TypeOK, Contents
  <2>3. result.step = "verified" => result.content = "exact"
    BY <2>2 DEF AfterPut, AfterHead, AfterDelete, AfterLostDelete, Result
  <2> QED
    BY <2>1, <2>3
<1>4. DriversHold' /\ Registered'
  BY <1>1, <1>2 DEF DriversHold, Registered, Driving
<1>5. VerifiedIsThere'
  BY <1>1, <1>2, <1>3, OneDriver DEF VerifiedIsThere, Driving, TypeOK
<1>6. RecordedIsThere'
  BY <1>1, <1>2, <1>3, OneDriver DEF RecordedIsThere, TypeOK
<1> QED
  BY <1>4, <1>5, <1>6

(* A cleanup spares what its upload has verified, and is nobody else's.      *)
LEMMA CleanupKeepsBytes ==
  ASSUME TypeOK, RowInv, Rows, BytesInv, NEW r \in Requests, SafeCleanup(r)
  PROVE  BytesInv'
<1> SUFFICES ASSUME "connection" \notin seen, "connection" \notin seen'
             PROVE  (DriversHold /\ Registered /\ VerifiedIsThere /\ RecordedIsThere)'
  BY DEF BytesInv, SafeCleanup, Fault
<1> DEFINE i == intentOf[r]
<1>1. DriversHold /\ Registered /\ VerifiedIsThere /\ RecordedIsThere
  BY DEF BytesInv
<1>2. Driving(r) /\ i \in Intents
  BY DEF SafeCleanup, Driving, TypeOK
<1>3. /\ pc' = [pc EXCEPT ![r] = "failing"]
      /\ uncommitted' = [uncommitted EXCEPT ![r] = "none"]
      /\ active' = [active EXCEPT ![i] = NoRequest]
      /\ UNCHANGED <<copies, intentOf, progress>>
  BY DEF SafeCleanup, Leave, databaseVars
<1>4. PICK kept \in SUBSET Cleanable(i) :
        stored' = [stored EXCEPT ![i] = [t \in Targets |->
                     IF t \in Cleanable(i) \ kept THEN "absent" ELSE @[t]]]
  BY DEF SafeCleanup
<1>5. DriversHold'
  BY <1>1, <1>3 DEF DriversHold, Driving, TypeOK
<1>6. Registered'
  BY <1>1, <1>2, <1>3, OneDriver DEF Registered, Driving, TypeOK
<1>7. VerifiedIsThere'
  BY <1>1, <1>2, <1>3, <1>4, OneDriver DEF VerifiedIsThere, Driving, TypeOK
<1>8. RecordedIsThere'
  BY <1>1, <1>2, <1>3, <1>4, OneDriver DEF RecordedIsThere, TypeOK
<1> QED
  BY <1>5, <1>6, <1>7, <1>8

(* What is recorded as verified was verified, by the one who records it.     *)
LEMMA CommitKeepsBytes ==
  ASSUME TypeOK, RowInv, Rows, BytesInv, NEW r \in Requests,
         CompleteProviderWrite(r) \/ CommitFails(r)
  PROVE  BytesInv'
<1> SUFFICES ASSUME "connection" \notin seen
             PROVE  (DriversHold /\ Registered /\ VerifiedIsThere /\ RecordedIsThere)'
  BY DEF BytesInv, CompleteProviderWrite, CommitFails, Fault
<1> DEFINE i == intentOf[r]
<1>1. DriversHold /\ Registered /\ VerifiedIsThere /\ RecordedIsThere
  BY DEF BytesInv
<1>2. Driving(r) /\ i \in Intents
  BY DEF CompleteProviderWrite, CommitFails, Recording, Driving, TypeOK
<1>3. /\ pc' = [pc EXCEPT ![r] = "done"]
      /\ uncommitted' = [uncommitted EXCEPT ![r] = "none"]
      /\ active' = [active EXCEPT ![i] = NoRequest]
      /\ UNCHANGED <<intentOf, progress, stored>>
  BY DEF CompleteProviderWrite, CommitFails, Finish, Leave
<1>4. copies' = [copies EXCEPT ![i] = Outcome(r)] \/ copies' = copies
  BY DEF CompleteProviderWrite, CommitFails, Commit, databaseVars
<1>5. DriversHold'
  BY <1>1, <1>3 DEF DriversHold, Driving, TypeOK
<1>6. Registered'
  BY <1>1, <1>2, <1>3, OneDriver DEF Registered, Driving, TypeOK
<1>7. VerifiedIsThere'
  BY <1>1, <1>3 DEF VerifiedIsThere, Driving, TypeOK
<1>8. RecordedIsThere'
  <2>1. \A t \in Targets : Outcome(r)[t] = "verified" => stored[i][t] = "exact"
    BY <1>1, <1>2 DEF VerifiedIsThere, Outcome, TypeOK
  <2> QED
    BY <1>1, <1>2, <1>3, <1>4, <2>1 DEF RecordedIsThere, TypeOK
<1> QED
  BY <1>5, <1>6, <1>7, <1>8

(* The holder of the row is the only one to store or to delete.              *)
LEMMA NextBytesInv == TypeOK /\ RowInv /\ Rows /\ BytesInv /\ [Next]_vars => BytesInv'
<1> SUFFICES ASSUME TypeOK, RowInv, Rows, BytesInv, [Next]_vars PROVE BytesInv'
  OBVIOUS
<1> USE RequestsAssumption DEF BytesInv, DriversHold, Registered, VerifiedIsThere, RecordedIsThere, RowInv, Place, Driving, TypeOK, Finish, Leave, Requests
<1>1. ASSUME NEW i \in Intents, CreateObjectWriteIntent(i) PROVE BytesInv'
  BY <1>1 DEF CreateObjectWriteIntent, requestVars, databaseVars
<1>2. ASSUME NEW i \in Intents, TimePasses(i) PROVE BytesInv'
  BY <1>2 DEF TimePasses, databaseVars, requestVars
<1>3. ASSUME NEW r \in Requests, Send(r) PROVE BytesInv'
  BY <1>3 DEF Send, databaseVars
<1>4. ASSUME NEW r \in Requests, TokenExpired(r) PROVE BytesInv'
  BY <1>4 DEF TokenExpired, databaseVars
<1>5. ASSUME NEW r \in Requests, Reserve(r) PROVE BytesInv'
  BY <1>5 DEF Reserve, databaseVars
<1>6. ASSUME NEW r \in Requests, KeyReused(r) PROVE BytesInv'
  BY <1>6 DEF KeyReused, databaseVars
<1>7. ASSUME NEW r \in Requests, Replay(r) PROVE BytesInv'
  BY <1>7 DEF Replay, databaseVars
<1>8. ASSUME NEW r \in Requests, ReadContext(r) PROVE BytesInv'
  BY <1>8 DEF ReadContext, databaseVars
<1>9. ASSUME NEW r \in Requests, RefuseTerminal(r) PROVE BytesInv'
  BY <1>9 DEF RefuseTerminal, databaseVars
<1>10. ASSUME NEW r \in Requests, ExpireIfDue(r) PROVE BytesInv'
  BY <1>10 DEF ExpireIfDue, databaseVars
<1>11. ASSUME NEW r \in Requests, RefuseExpired(r) PROVE BytesInv'
  BY <1>11 DEF RefuseExpired, databaseVars
<1>12. ASSUME NEW r \in Requests, CancelObjectWriteIntent(r) PROVE BytesInv'
  BY <1>12 DEF CancelObjectWriteIntent, databaseVars
<1>13. ASSUME NEW r \in Requests, CancelCommitFails(r) PROVE BytesInv'
  BY <1>13 DEF CancelCommitFails, databaseVars, Fault
<1>14. ASSUME NEW r \in Requests, CancelConflict(r) PROVE BytesInv'
  BY <1>14 DEF CancelConflict, databaseVars
<1>15. ASSUME NEW r \in Requests, BeginObjectUpload(r) PROVE BytesInv'
  <2> DEFINE i == intentOf[r]
  <2>1. \A q \in Requests : intentOf[q] = i => uncommitted[q] = "none"
    BY <1>15 DEF BeginObjectUpload, RowFree, HoldsRow
  <2>2. i \in Intents /\ r \in Uploads /\ NoRequest \notin Requests
    BY <1>15 DEF BeginObjectUpload
  <2>3. /\ pc' = [pc EXCEPT ![r] = "staging"]
        /\ uncommitted' = [uncommitted EXCEPT ![r] = "uploading"]
        /\ active' = [active EXCEPT ![i] = r]
        /\ UNCHANGED <<copies, intentOf, progress, stored, seen>>
    BY <1>15 DEF BeginObjectUpload, databaseVars
  <2>4. \A t \in Targets : progress[r][t] = "todo"
    BY <1>15 DEF BeginObjectUpload
  <2>5. ASSUME BytesInv, "connection" \notin seen
        PROVE  (DriversHold /\ Registered /\ VerifiedIsThere /\ RecordedIsThere)'
    BY <2>1, <2>2, <2>3, <2>4, <2>5
  <2> QED
    BY <2>3, <2>5
<1>16. ASSUME NEW r \in Requests, BeginConflict(r) PROVE BytesInv'
  BY <1>16 DEF BeginConflict, databaseVars
<1>17. ASSUME NEW r \in Requests, Stage(r) PROVE BytesInv'
  BY <1>17 DEF Stage, databaseVars
<1>18. ASSUME NEW r \in Requests, StageFails(r) PROVE BytesInv'
  BY <1>18 DEF StageFails, databaseVars
<1>19. ASSUME NEW r \in Requests, CompleteProviderWrite(r) PROVE BytesInv'
  BY <1>19, CommitKeepsBytes
<1>20. ASSUME NEW r \in Requests, CommitFails(r) PROVE BytesInv'
  BY <1>20, CommitKeepsBytes
<1>21. ASSUME NEW r \in Requests, PrimaryWriteFailed(r) PROVE BytesInv'
  <2>1. "connection" \notin seen => Driving(r) /\ DriversHold
    BY <1>21 DEF PrimaryWriteFailed, Recording
  <2> QED
    BY <1>21, <2>1, OneDriver DEF PrimaryWriteFailed, databaseVars
<1>22. ASSUME NEW r \in Requests, CompleteFails(r) PROVE BytesInv'
  BY <1>22 DEF CompleteFails, databaseVars
<1>23. ASSUME NEW r \in Requests, SafeCleanup(r) PROVE BytesInv'
  BY <1>23, CleanupKeepsBytes
<1>24. ASSUME NEW r \in Requests, FailObjectUpload(r) PROVE BytesInv'
  BY <1>24 DEF FailObjectUpload, databaseVars, Fault
<1>25. ASSUME NEW r \in Requests, LoseConnection(r) PROVE BytesInv'
  BY <1>25 DEF LoseConnection, databaseVars, Fault
<1>26. ASSUME NEW r \in Requests, StatementFails(r) PROVE BytesInv'
  BY <1>26 DEF StatementFails, databaseVars, Fault
<1>27. ASSUME NEW r \in Requests, NEW t \in Targets, Write(r, t) PROVE BytesInv'
  BY <1>27, WriteKeepsBytes
<1>28. CASE Crash
  BY <1>28 DEF Crash, Running, databaseVars, Fault
<1>29. CASE UNCHANGED vars
  BY <1>29 DEF vars, databaseVars, requestVars
<1>30. ASSUME NEW r \in Requests, ReservationFails(r) PROVE BytesInv'
  BY <1>30 DEF ReservationFails, databaseVars, RowLock, Fault
<1>31. ASSUME NEW r \in Requests, RecordingFails(r) PROVE BytesInv'
  BY <1>31 DEF RecordingFails, databaseVars, Recording, Fault
<1> QED
  BY <1>1, <1>2, <1>3, <1>4, <1>5, <1>6, <1>7, <1>8, <1>9, <1>10, <1>11, <1>12, <1>13,
     <1>14, <1>15, <1>16, <1>17, <1>18, <1>19, <1>20, <1>21, <1>22, <1>23, <1>24, <1>25,
     <1>26, <1>27, <1>28, <1>29, <1>30, <1>31
     DEF Next, Arrive, Handle, Break, AllDone

(* A copy recorded as verified has its bytes at the provider.                *)
THEOREM VerifiedHasBytesHolds == Spec => []VerifiedHasBytes
<1>1. Init => Rows
  BY DEF Init, Rows
<1>2. BytesInv => VerifiedHasBytes
  BY DEF BytesInv, RecordedIsThere, VerifiedHasBytes
<1> QED
  BY <1>1, <1>2, InitTypeOK, NextTypeOK, InitRowInv, NextRowInv, NextRows,
     InitBytesInv, NextBytesInv, PTL DEF Spec

(* The steps that store or delete are those of an upload that drives.        *)
LEMMA StoredSteps ==
  ASSUME TypeOK, [Next]_vars
  PROVE  \/ UNCHANGED stored
         \/ \E r \in Requests : /\ Driving(r)
                               /\ \A i \in Intents : i # intentOf[r] => stored'[i] = stored[i]
<1> DEFINE Drives == \E r \in Requests :
                       /\ Driving(r)
                       /\ \A i \in Intents : i # intentOf[r] => stored'[i] = stored[i]
<1>1. ASSUME NEW r \in Requests, NEW t \in Targets, Write(r, t) PROVE Drives
  BY <1>1 DEF Write, PutObject, HeadObject, CleanupTarget, Progress, Driving, TypeOK
<1>2. ASSUME NEW r \in Requests, SafeCleanup(r) PROVE Drives
  BY <1>2 DEF SafeCleanup, Driving, TypeOK
<1>3. ASSUME NEW r \in Requests, Committing(r) PROVE UNCHANGED stored
  BY <1>3 DEF Committing, CancelObjectWriteIntent, CancelCommitFails, CompleteProviderWrite,
              CommitFails, FailObjectUpload
<1>4. ASSUME NEW r \in Requests,
             \/ Send(r) \/ TokenExpired(r) \/ Reserve(r) \/ KeyReused(r) \/ Replay(r)
             \/ ReadContext(r) \/ RefuseTerminal(r) \/ ExpireIfDue(r) \/ RefuseExpired(r)
             \/ CancelConflict(r) \/ BeginObjectUpload(r) \/ BeginConflict(r)
      PROVE  UNCHANGED stored
  BY <1>4 DEF Send, TokenExpired, Reserve, KeyReused, Replay, ReadContext, RefuseTerminal,
              ExpireIfDue, RefuseExpired, CancelConflict, BeginObjectUpload, BeginConflict
<1>5. ASSUME NEW r \in Requests,
             \/ Stage(r) \/ StageFails(r) \/ PrimaryWriteFailed(r) \/ CompleteFails(r)
             \/ LoseConnection(r) \/ StatementFails(r)
             \/ ReservationFails(r) \/ RecordingFails(r)
      PROVE  UNCHANGED stored
  BY <1>5 DEF Stage, StageFails, PrimaryWriteFailed, CompleteFails, LoseConnection,
              StatementFails, ReservationFails, RecordingFails
<1> HIDE DEF Drives
<1>6. ASSUME NEW r \in Requests, Arrive(r) \/ Handle(r) \/ Break(r)
      PROVE  Drives \/ UNCHANGED stored
  BY <1>1, <1>2, <1>3, <1>4, <1>5, <1>6 DEF Arrive, Handle, Break, Committing
<1>7. Drives \/ UNCHANGED stored
  BY <1>6 DEF Next, AllDone, CreateObjectWriteIntent, TimePasses, Crash, vars
<1> QED
  BY <1>7 DEF Drives

(* Nothing is stored for or deleted from an intent that is closed.           *)
THEOREM NoWriteAfterCloseHolds == Spec => NoWriteAfterClose
<1>1. Init => Rows
  BY DEF Init, Rows
<1>2. TypeOK /\ RowInv /\ BytesInv /\ [Next]_vars =>
        [\A i \in Intents :
           intent[i] \in Closed /\ "connection" \notin seen => stored'[i] = stored[i]]_vars
  <2> SUFFICES ASSUME TypeOK, RowInv, BytesInv, [Next]_vars, NEW i \in Intents,
                      intent[i] \in Closed, "connection" \notin seen
               PROVE  stored'[i] = stored[i]
    OBVIOUS
  <2>1. ASSUME NEW r \in Requests, Driving(r) PROVE intentOf[r] # i
    BY <2>1 DEF BytesInv, DriversHold, RowInv, RowLock, Closed
  <2> QED
    BY <2>1, StoredSteps
<1> QED
  BY <1>1, <1>2, InitTypeOK, NextTypeOK, InitRowInv, NextRowInv, NextRows,
     InitBytesInv, NextBytesInv, PTL DEF Spec, NoWriteAfterClose

-----------------------------------------------------------------------------
(* Replays.                                                                  *)

(* A recorded key refers to an intent that its request has closed.           *)
KeysHaveResults ==
  \A k \in Keys :
    /\ LET i == keys["object-upload-completion"][k]
       IN i # NoIntent => i \in Intents /\ intent[i] = "completed"
    /\ LET i == keys["object-write-intent-cancel"][k]
       IN i # NoIntent => i \in Intents /\ intent[i] = "cancelled"

LEMMA NextKeysHaveResults ==
  ASSUME TypeOK, RowInv, KeysHaveResults, [Next]_vars
  PROVE  KeysHaveResults'
<1>1. CASE UNCHANGED databaseVars
  BY <1>1 DEF KeysHaveResults, databaseVars
<1>2. ASSUME NEW i \in Intents, CreateObjectWriteIntent(i) PROVE KeysHaveResults'
  BY <1>2 DEF KeysHaveResults, CreateObjectWriteIntent, TypeOK
<1>3. ASSUME NEW r \in Requests, CancelObjectWriteIntent(r) \/ CancelCommitFails(r)
      PROVE  KeysHaveResults'
  <2> DEFINE i == intentOf[r]
  <2>1. /\ Scope(r) = "object-write-intent-cancel"
        /\ i \in Intents /\ intent[i] = "accepted"
    BY <1>3, RequestsAssumption DEF CancelObjectWriteIntent, CancelCommitFails, Scope, TypeOK
  <2>2. \/ UNCHANGED <<intent, keys>>
        \/ /\ intent' = [intent EXCEPT ![i] = "cancelled"]
           /\ keys' = [keys EXCEPT !["object-write-intent-cancel"][keyOf[r]] = i]
    BY <1>3, <2>1 DEF CancelObjectWriteIntent, CancelCommitFails
  <2> QED
    BY <2>1, <2>2 DEF KeysHaveResults, TypeOK, Scopes
<1>4. ASSUME NEW r \in Requests, CompleteProviderWrite(r) \/ CommitFails(r)
      PROVE  KeysHaveResults'
  <2> DEFINE i == intentOf[r]
  <2>1. /\ Scope(r) = "object-upload-completion"
        /\ i \in Intents /\ intent[i] = "accepted"
    BY <1>4, CommitsUnderLock DEF CompleteProviderWrite, CommitFails, Scope, TypeOK
  <2>2. \/ UNCHANGED <<intent, keys>>
        \/ /\ intent' = [intent EXCEPT ![i] = "completed"]
           /\ keys' = [keys EXCEPT !["object-upload-completion"][keyOf[r]] = i]
    BY <1>4, <2>1 DEF CompleteProviderWrite, CommitFails, Commit, databaseVars
  <2> QED
    BY <2>1, <2>2 DEF KeysHaveResults, TypeOK, Scopes
<1>5. ASSUME NEW r \in Requests, FailObjectUpload(r) PROVE KeysHaveResults'
  BY <1>5 DEF KeysHaveResults, FailObjectUpload, TypeOK
<1> QED
  BY <1>1, <1>2, <1>3, <1>4, <1>5, DatabaseSteps DEF Committing

(* A request whose key was recorded finds the result that was recorded.      *)
THEOREM ReplayHasResultHolds == Spec => []ReplayHasResult
<1>1. Init => KeysHaveResults
  BY RequestsAssumption DEF Init, KeysHaveResults, Scopes
<1>2. TypeOK /\ KeysHaveResults /\ ReplayHasResult /\ [Next]_vars => ReplayHasResult'
  <2> SUFFICES ASSUME TypeOK, KeysHaveResults, ReplayHasResult, [Next]_vars, NEW r \in Requests
               PROVE  answer'[r].kind # "result-missing"
    BY DEF ReplayHasResult
  <2>1. CASE Replay(r)
    <3>1. Decode(r).kind # "result-missing"
      BY <2>1, RequestsAssumption
         DEF Replay, KeysHaveResults, Decode, Scope, Requests, Answer, Problem, TypeOK
    <3> QED
      BY <2>1, <3>1 DEF Replay, Finish, TypeOK
  <2>2. CASE answer'[r] = answer[r]
    BY <2>2 DEF ReplayHasResult
  <2>3. CASE CompleteProviderWrite(r) \/ CancelObjectWriteIntent(r)
    BY <2>3 DEF CompleteProviderWrite, CancelObjectWriteIntent, Finish, Problem, Answer, TypeOK
  <2> QED
    BY <2>1, <2>2, <2>3, AnswerSteps DEF Telling, Told
<1>3. Init => ReplayHasResult
  BY DEF Init, ReplayHasResult, Unanswered, Answer
<1> QED
  BY <1>1, <1>2, <1>3, InitTypeOK, NextTypeOK, InitRowInv, NextRowInv, NextKeysHaveResults, PTL
     DEF Spec

-----------------------------------------------------------------------------
(* Without faults: the bytes that no verified copy vouches for, and the      *)
(* intents of uploads that failed.                                           *)

(* The targets whose bytes an upload has yet to answer for.                  *)
Accountable == {"stored", "undo", "verified"}

(* Before the body is staged no target is touched, and an upload never       *)
(* touches a target it does not write.                                       *)
Untouched ==
  \A r \in Requests, t \in Targets :
    pc[r] = "staging" \/ t \notin Written => progress[r][t] = "todo"

(* Whoever drives an intent is its registered execution; whoever cleans up   *)
(* has stored nothing; and bytes without a verified copy are those of a      *)
(* target the registered execution is still to answer for.                   *)
DriverIsRegistered == \A r \in Requests : Driving(r) => active[intentOf[r]] = r

NothingToClean ==
  \A r \in Requests, t \in Targets : pc[r] = "cleaning" => progress[r][t] \in {"todo", "resolved"}

Accounted ==
  \A i \in Intents, t \in Targets :
    stored[i][t] = "exact" /\ copies[i][t] # "verified" =>
      active[i] # NoRequest /\ progress[active[i]][t] \in Accountable

OrphanInv ==
  Untouched /\ (seen = {} => DriverIsRegistered /\ NothingToClean /\ Accounted)

LEMMA InitOrphanInv == Init => OrphanInv
  BY DEF Init, OrphanInv, Untouched, DriverIsRegistered, NothingToClean, Accounted, Driving

(* What a provider step without a fault leaves is still answered for.        *)
LEMMA WriteKeepsOrphanInv ==
  ASSUME TypeOK, RowInv, Rows, BytesInv, OrphanInv,
         NEW r \in Requests, NEW t \in Targets, Write(r, t)
  PROVE  OrphanInv'
<1> DEFINE i == intentOf[r]
<1>1. /\ pc[r] = "writing" /\ Driving(r) /\ i \in Intents
      /\ UNCHANGED <<copies, pc, intentOf, active>>
  BY DEF Write, PutObject, HeadObject, CleanupTarget, Progress, databaseVars, Driving, TypeOK
<1>2. PICK result :
        /\ progress' = [progress EXCEPT ![r][t] = result.step]
        /\ stored' = [stored EXCEPT ![i][t] = result.content]
        /\ \/ progress[r][t] = "resolved" /\ result \in AfterPut("exact", Content(r, t))
           \/ progress[r][t] = "stored" /\ result \in AfterHead(Content(r, t))
           \/ progress[r][t] = "undo" /\ (seen' = {} => result \in AfterDelete)
  BY DEF Write, PutObject, HeadObject, CleanupTarget, Progress, Fault
<1>3. seen' = {} /\ result.content = "exact" =>
        \/ result.step \in Accountable
        \/ Content(r, t) = "exact" /\ progress[r][t] = "resolved"
  BY <1>2 DEF AfterPut, AfterHead, AfterDelete, Result, Accountable
<1>4. progress \in [Requests -> [Targets -> Steps]] /\ stored \in [Intents -> [Targets -> Contents]]
  BY DEF TypeOK
<1>5. Untouched'
  BY <1>1, <1>2, <1>4 DEF OrphanInv, Untouched
<1>6. ASSUME seen' = {} PROVE (DriverIsRegistered /\ NothingToClean /\ Accounted)'
  <2>1. seen = {}
    BY <1>6 DEF Write, PutObject, HeadObject, CleanupTarget, Fault
  <2>2. DriverIsRegistered /\ NothingToClean /\ Accounted /\ Registered /\ DriversHold
    BY <2>1 DEF OrphanInv, BytesInv
  <2>3. DriverIsRegistered' /\ NothingToClean'
    BY <1>1, <1>2, <1>4, <2>2 DEF DriverIsRegistered, NothingToClean, Driving
  <2>4. active[i] = r /\ copies[i][t] # "verified"
    BY <1>1, <2>2, OneDriver DEF DriverIsRegistered
  <2>5. result.content = "exact" => result.step \in Accountable
    BY <1>1, <1>3, <1>6, <2>2, <2>4 DEF Accounted, Accountable, Content
  <2>6. ASSUME NEW j \in Intents, NEW u \in Targets,
               stored'[j][u] = "exact", copies'[j][u] # "verified"
        PROVE  active'[j] # NoRequest /\ progress'[active'[j]][u] \in Accountable
    <3>1. CASE j = i /\ u = t
      BY <1>1, <1>2, <1>4, <2>4, <2>5, <2>6, <3>1, RequestsAssumption
    <3>2. CASE j # i \/ u # t
      <4>1. stored[j][u] = "exact" /\ copies[j][u] # "verified"
        BY <1>1, <1>2, <1>4, <2>6, <3>2
      <4>2. active[j] # NoRequest /\ progress[active[j]][u] \in Accountable
        BY <2>2, <4>1 DEF Accounted
      <4>3. active[j] \in Requests /\ intentOf[active[j]] = j
        BY <2>2, <4>2 DEF Registered, TypeOK, Requests
      <4>4. active[j] # r \/ u # t
        BY <3>2, <4>3
      <4> QED
        BY <1>1, <1>2, <1>4, <4>2, <4>3, <4>4
    <3> QED
      BY <3>1, <3>2
  <2> QED
    BY <2>3, <2>6 DEF Accounted
<1> QED
  BY <1>5, <1>6 DEF OrphanInv

(* Leaving with nothing unaccounted for keeps the rest accounted for.        *)
LEMMA LeaveKeepsOrphanInv ==
  ASSUME TypeOK, RowInv, Rows, BytesInv, OrphanInv, seen = {}, seen' = {},
         NEW r \in Requests, Driving(r),
         NEW to \in {"failing", "done"}, Leave(r, to),
         active' = [active EXCEPT ![intentOf[r]] = NoRequest],
         UNCHANGED <<intentOf, progress>>,
         \A t \in Targets :
           stored'[intentOf[r]][t] = "exact" => copies'[intentOf[r]][t] = "verified",
         \A j \in Intents \ {intentOf[r]} : stored'[j] = stored[j] /\ copies'[j] = copies[j]
  PROVE  OrphanInv'
<1> DEFINE i == intentOf[r]
<1>1. i \in Intents
  BY DEF TypeOK
<1>2. DriverIsRegistered /\ NothingToClean /\ Accounted /\ DriversHold
  BY DEF OrphanInv, BytesInv
<1>3. Untouched'
  BY DEF OrphanInv, Untouched, Leave, TypeOK
<1>4. DriverIsRegistered'
  BY <1>1, <1>2, OneDriver DEF DriverIsRegistered, Driving, Leave, TypeOK
<1>5. NothingToClean'
  BY <1>2 DEF NothingToClean, Leave, TypeOK
<1>6. Accounted'
  BY <1>1, <1>2 DEF Accounted, TypeOK
<1> QED
  BY <1>3, <1>4, <1>5, <1>6 DEF OrphanInv

(* An upload that records its outcome has verified what it stored, and one   *)
(* whose primary failed has stored nothing.                                  *)
LEMMA RecordingIsAccounted ==
  ASSUME TypeOK, RowInv, Rows, BytesInv, OrphanInv, seen = {},
         NEW r \in Requests, Recording(r), NEW t \in Targets, stored[intentOf[r]][t] = "exact"
  PROVE  t \in Written /\ progress[r][t] = "verified"
<1>1. Driving(r) /\ intentOf[r] \in Intents
  BY DEF Recording, Driving, TypeOK
<1>2. Untouched /\ DriverIsRegistered /\ Accounted /\ DriversHold
  BY DEF OrphanInv, BytesInv
<1>3. copies[intentOf[r]][t] # "verified" /\ active[intentOf[r]] = r
  BY <1>1, <1>2, OneDriver DEF DriverIsRegistered
<1>4. progress[r][t] \in Accountable
  BY <1>1, <1>2, <1>3 DEF Accounted
<1>5. t \in Written
  BY <1>2, <1>4 DEF Untouched, Accountable
<1> QED
  BY <1>4, <1>5 DEF Recording, Settled, Accountable

LEMMA RecordKeepsOrphanInv ==
  ASSUME TypeOK, RowInv, Rows, BytesInv, OrphanInv, NEW r \in Requests,
         CompleteProviderWrite(r) \/ PrimaryWriteFailed(r)
  PROVE  OrphanInv'
<1> DEFINE i == intentOf[r]
<1>1. /\ Recording(r) /\ i \in Intents
      /\ Leave(r, "done") \/ Leave(r, "failing")
      /\ active' = [active EXCEPT ![i] = NoRequest]
      /\ UNCHANGED <<intentOf, progress, stored, seen>>
  BY DEF CompleteProviderWrite, PrimaryWriteFailed, Finish, TypeOK
<1>2. CASE seen # {}
  BY <1>1, <1>2 DEF OrphanInv, Untouched, Leave, TypeOK
<1>3. CASE seen = {}
  <2>1. \A t \in Targets : stored'[i][t] = "exact" => copies'[i][t] = "verified"
    <3> SUFFICES ASSUME NEW t \in Targets, stored'[i][t] = "exact"
                 PROVE  copies'[i][t] = "verified"
      OBVIOUS
    <3>1. t \in Written /\ progress[r][t] = "verified"
      BY <1>1, <1>3, RecordingIsAccounted
    <3>2. ~PrimaryWriteFailed(r)
      BY <3>1 DEF PrimaryWriteFailed, PrimaryLost, Written
    <3>3. copies' = [copies EXCEPT ![i] = Outcome(r)]
      BY <3>2 DEF CompleteProviderWrite, Commit
    <3> QED
      BY <1>1, <3>1, <3>3 DEF Outcome, TypeOK
  <2>2. \A j \in Intents \ {i} : stored'[j] = stored[j] /\ copies'[j] = copies[j]
    BY <1>1 DEF CompleteProviderWrite, PrimaryWriteFailed, Commit, databaseVars, TypeOK
  <2>3. Driving(r)
    BY <1>1 DEF Recording, Driving
  <2> QED
    BY <1>1, <1>3, <2>1, <2>2, <2>3, LeaveKeepsOrphanInv
<1> QED
  BY <1>2, <1>3

(* Who cleans up without a fault has not got as far as a provider.           *)
LEMMA CleanupKeepsOrphanInv ==
  ASSUME TypeOK, RowInv, Rows, BytesInv, OrphanInv, NEW r \in Requests, SafeCleanup(r)
  PROVE  OrphanInv'
<1> DEFINE i == intentOf[r]
<1>1. /\ pc[r] = "cleaning" /\ Driving(r) /\ i \in Intents
      /\ Leave(r, "failing")
      /\ active' = [active EXCEPT ![i] = NoRequest]
      /\ UNCHANGED <<intentOf, progress, copies>>
      /\ \A j \in Intents \ {i} : stored'[j] = stored[j]
      /\ \A t \in Targets : stored'[i][t] = "exact" => stored[i][t] = "exact"
      /\ seen' = {} => seen = {}
  BY DEF SafeCleanup, Driving, databaseVars, Fault, TypeOK
<1>2. CASE seen' # {}
  BY <1>1, <1>2 DEF OrphanInv, Untouched, Leave, TypeOK
<1>3. CASE seen' = {}
  <2>1. DriverIsRegistered /\ NothingToClean /\ Accounted
    BY <1>1, <1>3 DEF OrphanInv
  <2>2. \A t \in Targets : stored'[i][t] = "exact" => copies'[i][t] = "verified"
    BY <1>1, <2>1 DEF DriverIsRegistered, NothingToClean, Accounted, Accountable
  <2> QED
    BY <1>1, <1>3, <2>2, LeaveKeepsOrphanInv
<1> QED
  BY <1>2, <1>3

(* Who begins finds no execution registered, and so no bytes to answer for.  *)
LEMMA BeginKeepsOrphanInv ==
  ASSUME TypeOK, RowInv, BytesInv, OrphanInv, NEW r \in Requests, BeginObjectUpload(r)
  PROVE  OrphanInv'
<1> DEFINE i == intentOf[r]
<1>1. /\ pc[r] = "checked" /\ i \in Intents
      /\ pc' = [pc EXCEPT ![r] = "staging"]
      /\ active' = [active EXCEPT ![i] = r]
      /\ UNCHANGED <<copies, intentOf, progress, stored, seen>>
      /\ \A t \in Targets : progress[r][t] = "todo"
      /\ \A q \in Requests : intentOf[q] = i => uncommitted[q] = "none"
  BY DEF BeginObjectUpload, RowFree, HoldsRow, RowInv, Place, databaseVars, TypeOK
<1>2. Untouched'
  BY <1>1 DEF OrphanInv, Untouched, TypeOK
<1>3. ASSUME seen = {} PROVE (DriverIsRegistered /\ NothingToClean /\ Accounted)'
  <2>1. DriverIsRegistered /\ NothingToClean /\ Accounted /\ Registered /\ DriversHold
    BY <1>3 DEF OrphanInv, BytesInv
  <2>2. \A q \in Requests : Driving(q) => intentOf[q] # i
    BY <1>1, <2>1 DEF DriversHold
  <2>3. active[i] = NoRequest
    BY <1>1, <2>1, <2>2 DEF Registered, TypeOK, Requests
  <2>4. DriverIsRegistered'
    BY <1>1, <2>1, <2>2 DEF DriverIsRegistered, Driving, TypeOK
  <2>5. NothingToClean'
    BY <1>1, <2>1 DEF NothingToClean, TypeOK
  <2>6. Accounted'
    BY <1>1, <2>1, <2>3 DEF Accounted, TypeOK
  <2> QED
    BY <2>4, <2>5, <2>6
<1> QED
  BY <1>1, <1>2, <1>3 DEF OrphanInv

(* Without a fault every byte stored is answered for at every step.          *)
LEMMA NextOrphanInv ==
  TypeOK /\ RowInv /\ Rows /\ BytesInv /\ OrphanInv /\ [Next]_vars => OrphanInv'
<1> SUFFICES ASSUME TypeOK, RowInv, Rows, BytesInv, OrphanInv, [Next]_vars PROVE OrphanInv'
  OBVIOUS
<1> USE RequestsAssumption DEF OrphanInv, Untouched, DriverIsRegistered, NothingToClean, Accounted, Driving, TypeOK, Finish, Leave, Requests
<1>1. ASSUME NEW i \in Intents, CreateObjectWriteIntent(i) PROVE OrphanInv'
  BY <1>1 DEF CreateObjectWriteIntent, requestVars
<1>2. ASSUME NEW i \in Intents, TimePasses(i) PROVE OrphanInv'
  BY <1>2 DEF TimePasses, databaseVars, requestVars
<1>3. ASSUME NEW r \in Requests, Send(r) PROVE OrphanInv'
  BY <1>3 DEF Send, databaseVars
<1>4. ASSUME NEW r \in Requests, TokenExpired(r) PROVE OrphanInv'
  BY <1>4 DEF TokenExpired, databaseVars
<1>5. ASSUME NEW r \in Requests, Reserve(r) PROVE OrphanInv'
  BY <1>5 DEF Reserve, databaseVars
<1>6. ASSUME NEW r \in Requests, KeyReused(r) PROVE OrphanInv'
  BY <1>6 DEF KeyReused, databaseVars
<1>7. ASSUME NEW r \in Requests, Replay(r) PROVE OrphanInv'
  BY <1>7 DEF Replay, databaseVars
<1>8. ASSUME NEW r \in Requests, ReadContext(r) PROVE OrphanInv'
  BY <1>8 DEF ReadContext, databaseVars
<1>9. ASSUME NEW r \in Requests, RefuseTerminal(r) PROVE OrphanInv'
  BY <1>9 DEF RefuseTerminal, databaseVars
<1>10. ASSUME NEW r \in Requests, ExpireIfDue(r) PROVE OrphanInv'
  BY <1>10 DEF ExpireIfDue, databaseVars
<1>11. ASSUME NEW r \in Requests, RefuseExpired(r) PROVE OrphanInv'
  BY <1>11 DEF RefuseExpired, databaseVars
<1>12. ASSUME NEW r \in Requests, CancelObjectWriteIntent(r) PROVE OrphanInv'
  BY <1>12 DEF CancelObjectWriteIntent, databaseVars
<1>13. ASSUME NEW r \in Requests, CancelCommitFails(r) PROVE OrphanInv'
  BY <1>13 DEF CancelCommitFails, Fault
<1>14. ASSUME NEW r \in Requests, CancelConflict(r) PROVE OrphanInv'
  BY <1>14 DEF CancelConflict, databaseVars
<1>15. ASSUME NEW r \in Requests, BeginObjectUpload(r) PROVE OrphanInv'
  BY <1>15, BeginKeepsOrphanInv
<1>16. ASSUME NEW r \in Requests, BeginConflict(r) PROVE OrphanInv'
  BY <1>16 DEF BeginConflict, databaseVars
<1>17. ASSUME NEW r \in Requests, Stage(r) PROVE OrphanInv'
  BY <1>17 DEF Stage, databaseVars, Accountable
<1>18. ASSUME NEW r \in Requests, StageFails(r) PROVE OrphanInv'
  BY <1>18 DEF StageFails, databaseVars, Accountable, Written
<1>19. ASSUME NEW r \in Requests, CompleteProviderWrite(r) \/ PrimaryWriteFailed(r)
      PROVE  OrphanInv'
  BY <1>19, RecordKeepsOrphanInv
<1>20. ASSUME NEW r \in Requests, CommitFails(r) PROVE OrphanInv'
  BY <1>20 DEF CommitFails, Fault
<1>21. ASSUME NEW r \in Requests, CompleteFails(r) PROVE OrphanInv'
  BY <1>21 DEF CompleteFails, databaseVars, Severed, BytesInv, DriversHold
<1>22. ASSUME NEW r \in Requests, SafeCleanup(r) PROVE OrphanInv'
  BY <1>22, CleanupKeepsOrphanInv
<1>23. ASSUME NEW r \in Requests, FailObjectUpload(r) PROVE OrphanInv'
  BY <1>23 DEF FailObjectUpload, Fault
<1>24. ASSUME NEW r \in Requests, LoseConnection(r) PROVE OrphanInv'
  BY <1>24 DEF LoseConnection, databaseVars, Fault
<1>25. ASSUME NEW r \in Requests, StatementFails(r) PROVE OrphanInv'
  BY <1>25 DEF StatementFails, databaseVars, Fault
<1>26. ASSUME NEW r \in Requests, NEW t \in Targets, Write(r, t) PROVE OrphanInv'
  BY <1>26, WriteKeepsOrphanInv
<1>27. CASE Crash
  BY <1>27 DEF Crash, Running, databaseVars, Fault
<1>28. CASE UNCHANGED vars
  BY <1>28 DEF vars, databaseVars, requestVars
<1>29. ASSUME NEW r \in Requests, ReservationFails(r) PROVE OrphanInv'
  BY <1>29 DEF ReservationFails, databaseVars, Fault
<1>30. ASSUME NEW r \in Requests, RecordingFails(r) PROVE OrphanInv'
  BY <1>30 DEF RecordingFails, databaseVars, Recording, Fault
<1> QED
  BY <1>1, <1>2, <1>3, <1>4, <1>5, <1>6, <1>7, <1>8, <1>9, <1>10, <1>11, <1>12,
     <1>13, <1>14, <1>15, <1>16, <1>17, <1>18, <1>19, <1>20, <1>21, <1>22, <1>23, <1>24,
     <1>25, <1>26, <1>27, <1>28, <1>29, <1>30
     DEF Next, Arrive, Handle, Break, AllDone

(* Once nobody is at work on an intent, every byte stored of it belongs to a *)
(* verified copy, as long as there was no fault: the cleanups of the writer  *)
(* and of the failed upload (runtime-ingest.ts, safeCleanup) are complete,   *)
(* and take nothing that was recorded.                                       *)
THEOREM NoOrphansHolds == Spec => []NoOrphans
<1>1. Init => Rows
  BY DEF Init, Rows
<1>2. TypeOK /\ RowInv /\ BytesInv /\ OrphanInv => NoOrphans
  <2> SUFFICES ASSUME TypeOK, RowInv, BytesInv, OrphanInv, seen = {},
                      NEW i \in Intents, NEW t \in Targets,
                      Quiet(i), stored[i][t] = "exact", copies[i][t] # "verified"
               PROVE  FALSE
    BY DEF NoOrphans
  <2>1. active[i] \in Uploads /\ Driving(active[i]) /\ intentOf[active[i]] = i
    BY DEF OrphanInv, Accounted, BytesInv, Registered, TypeOK
  <2> QED
    BY <2>1 DEF Quiet, Running, Driving
<1> QED
  BY <1>1, <1>2, InitTypeOK, NextTypeOK, InitRowInv, NextRowInv, NextRows,
     InitBytesInv, NextBytesInv, InitOrphanInv, NextOrphanInv, PTL DEF Spec


(* What has gone wrong is not forgotten.                                     *)
LEMMA NoFaultBefore == ASSUME [Next]_vars, seen' = {} PROVE seen = {}
<1>1. ASSUME NEW r \in Requests,
             \/ Send(r) \/ TokenExpired(r) \/ Reserve(r) \/ KeyReused(r) \/ Replay(r)
             \/ ReadContext(r) \/ RefuseTerminal(r) \/ ExpireIfDue(r) \/ RefuseExpired(r)
             \/ CancelConflict(r) \/ BeginObjectUpload(r) \/ BeginConflict(r)
      PROVE  seen = {}
  BY <1>1 DEF Send, TokenExpired, Reserve, KeyReused, Replay, ReadContext, RefuseTerminal,
              ExpireIfDue, RefuseExpired, CancelConflict, BeginObjectUpload, BeginConflict
<1>2. ASSUME NEW r \in Requests,
             \/ Stage(r) \/ StageFails(r) \/ PrimaryWriteFailed(r) \/ CompleteFails(r)
             \/ SafeCleanup(r) \/ LoseConnection(r) \/ StatementFails(r)
             \/ ReservationFails(r) \/ RecordingFails(r) \/ Committing(r)
      PROVE  seen = {}
  BY <1>2 DEF Stage, StageFails, PrimaryWriteFailed, CompleteFails, SafeCleanup,
              LoseConnection, StatementFails, ReservationFails, RecordingFails, Committing,
              CancelObjectWriteIntent, CancelCommitFails, CompleteProviderWrite, CommitFails,
              FailObjectUpload, Fault
<1>3. ASSUME NEW r \in Requests, NEW t \in Targets, Write(r, t) PROVE seen = {}
  BY <1>3 DEF Write, PutObject, HeadObject, CleanupTarget, Fault
<1>4. ASSUME \/ Crash \/ UNCHANGED vars
             \/ \E i \in Intents : CreateObjectWriteIntent(i) \/ TimePasses(i)
      PROVE  seen = {}
  BY <1>4 DEF Crash, Fault, CreateObjectWriteIntent, TimePasses, vars
<1> QED
  BY <1>1, <1>2, <1>3, <1>4 DEF Next, Arrive, Handle, Break, Committing, AllDone

(* A request is sent for an intent that exists.                              *)
IntentExists == \A r \in Requests : pc[r] # "idle" => intent[intentOf[r]] # "none"

(* The steps by which a request leaves "idle".                               *)
LEMMA ArrivalSteps ==
  ASSUME TypeOK, [Next]_vars, NEW q \in Requests, pc[q] = "idle", pc'[q] # "idle"
  PROVE  intent[intentOf[q]] # "none"
<1> USE DEF TypeOK, Finish, Leave
<1>1. ASSUME NEW r \in Requests, Send(r) \/ TokenExpired(r) PROVE intent[intentOf[q]] # "none"
  BY <1>1 DEF Send, TokenExpired
<1>2. ASSUME NEW r \in Requests,
             \/ Reserve(r) \/ KeyReused(r) \/ Replay(r)
             \/ ReadContext(r) \/ RefuseTerminal(r) \/ ExpireIfDue(r) \/ RefuseExpired(r)
             \/ CancelConflict(r) \/ BeginObjectUpload(r) \/ BeginConflict(r)
      PROVE  pc'[q] = "idle"
  BY <1>2 DEF Reserve, KeyReused, Replay, ReadContext, RefuseTerminal, ExpireIfDue,
              RefuseExpired, CancelConflict, BeginObjectUpload, BeginConflict
<1>3. ASSUME NEW r \in Requests,
             \/ Stage(r) \/ StageFails(r) \/ PrimaryWriteFailed(r) \/ CompleteFails(r)
             \/ SafeCleanup(r) \/ LoseConnection(r) \/ StatementFails(r)
             \/ ReservationFails(r) \/ RecordingFails(r)
      PROVE  pc'[q] = "idle"
  BY <1>3 DEF Stage, StageFails, PrimaryWriteFailed, CompleteFails, SafeCleanup,
              LoseConnection, StatementFails, ReservationFails, RecordingFails, Recording
<1>4. ASSUME NEW r \in Requests, Committing(r) PROVE pc'[q] = "idle"
  BY <1>4 DEF Committing, CancelObjectWriteIntent, CancelCommitFails, CompleteProviderWrite,
              CommitFails, FailObjectUpload, Recording
<1>5. ASSUME NEW r \in Requests, NEW t \in Targets, Write(r, t) PROVE pc'[q] = "idle"
  BY <1>5 DEF Write, PutObject, HeadObject, CleanupTarget, Progress
<1>6. ASSUME \/ Crash \/ UNCHANGED vars
             \/ \E i \in Intents : CreateObjectWriteIntent(i) \/ TimePasses(i)
      PROVE  pc'[q] = "idle"
  BY <1>6 DEF Crash, Running, CreateObjectWriteIntent, TimePasses, vars, requestVars
<1> QED
  BY <1>1, <1>2, <1>3, <1>4, <1>5, <1>6 DEF Next, Arrive, Handle, Break, Committing, AllDone

(* An intent that exists never ceases to.                                    *)
LEMMA NextIntentExists ==
  ASSUME TypeOK, RowInv, IntentExists, [Next]_vars
  PROVE  IntentExists'
<1> SUFFICES ASSUME NEW q \in Requests, pc'[q] # "idle" PROVE intent'[intentOf'[q]] # "none"
  BY DEF IntentExists
<1> DEFINE i == intentOf[q]
<1>1. i \in Intents /\ intentOf' = intentOf
  BY AnswerSteps DEF TypeOK
<1>2. intent[i] # "none"
  BY ArrivalSteps DEF IntentExists
<1>3. CASE UNCHANGED databaseVars
  BY <1>1, <1>2, <1>3 DEF databaseVars
<1>4. ASSUME NEW j \in Intents, CreateObjectWriteIntent(j) PROVE intent'[i] # "none"
  BY <1>1, <1>2, <1>4 DEF CreateObjectWriteIntent, TypeOK
<1>5. ASSUME NEW r \in Requests, Committing(r) PROVE intent'[i] # "none"
  BY <1>1, <1>2, <1>5 DEF Committing, CancelObjectWriteIntent, CancelCommitFails,
       CompleteProviderWrite, CommitFails, FailObjectUpload, Commit, TypeOK, databaseVars
<1> QED
  BY <1>1, <1>3, <1>4, <1>5, DatabaseSteps

(* Without a fault only a failed upload is answered with an error.           *)
LEMMA ErrorSteps ==
  ASSUME TypeOK, [Next]_vars, seen' = {}, NEW q \in Requests, answer'[q].kind = "error"
  PROVE  answer'[q] = answer[q] \/ FailObjectUpload(q)
<1> DEFINE Harmless == answer'[q] = answer[q] \/ answer'[q].kind # "error" \/ seen' # {}
<1> USE DEF TypeOK, Finish, Problem, Answer, Decode
<1>1. ASSUME NEW r \in Requests,
             \/ TokenExpired(r) \/ KeyReused(r) \/ Replay(r) \/ RefuseTerminal(r)
             \/ RefuseExpired(r) \/ CancelObjectWriteIntent(r) \/ CancelConflict(r)
             \/ BeginConflict(r) \/ CompleteProviderWrite(r)
      PROVE  Harmless
  BY <1>1 DEF TokenExpired, KeyReused, Replay, RefuseTerminal, RefuseExpired,
              CancelObjectWriteIntent, CancelConflict, BeginConflict, CompleteProviderWrite
<1>2. ASSUME NEW r \in Requests,
             \/ Send(r) \/ Reserve(r) \/ ReadContext(r) \/ ExpireIfDue(r)
             \/ BeginObjectUpload(r) \/ Stage(r) \/ StageFails(r) \/ PrimaryWriteFailed(r)
             \/ CompleteFails(r) \/ SafeCleanup(r)
      PROVE  Harmless
  BY <1>2 DEF Send, Reserve, ReadContext, ExpireIfDue, BeginObjectUpload, Stage, StageFails,
              PrimaryWriteFailed, CompleteFails, SafeCleanup
<1>3. ASSUME NEW r \in Requests, Break(r) PROVE Harmless
  BY <1>3 DEF Break, CommitFails, CancelCommitFails, LoseConnection, StatementFails,
              ReservationFails, RecordingFails, Fault
<1>4. ASSUME NEW r \in Requests, NEW t \in Targets, Write(r, t) PROVE Harmless
  BY <1>4 DEF Write, PutObject, HeadObject, CleanupTarget, Progress
<1>5. ASSUME \/ Crash \/ UNCHANGED vars
             \/ \E i \in Intents : CreateObjectWriteIntent(i) \/ TimePasses(i)
      PROVE  Harmless
  BY <1>5 DEF Crash, Fault, CreateObjectWriteIntent, TimePasses, vars, requestVars
<1>6. ASSUME NEW r \in Requests, FailObjectUpload(r) PROVE Harmless \/ FailObjectUpload(q)
  BY <1>6 DEF FailObjectUpload
<1> QED
  BY <1>1, <1>2, <1>3, <1>4, <1>5, <1>6 DEF Next, Arrive, Handle, AllDone

(* Without faults an upload that failed has closed its intent                *)
(* (runtime-ingest.ts, handleObjectUploadFailure): it is not left "accepted" *)
(* for a client that will not retry, and stays closed.                       *)
THEOREM FailureIsRecordedHolds == Spec => []FailureIsRecorded
<1>1. Init => FailureIsRecorded /\ IntentExists
  BY DEF Init, FailureIsRecorded, IntentExists, Unanswered, Answer, Requests
<1>2. TypeOK /\ RowInv /\ IntentExists /\ FailureIsRecorded /\ [Next]_vars => FailureIsRecorded'
  <2> SUFFICES ASSUME TypeOK, RowInv, IntentExists, FailureIsRecorded, [Next]_vars, seen' = {},
                      NEW q \in Uploads, answer'[q].kind = "error"
               PROVE  intent'[intentOf'[q]] \in Closed
    BY DEF FailureIsRecorded
  <2> DEFINE i == intentOf[q]
  <2>1. q \in Requests /\ i \in Intents /\ intentOf' = intentOf
    BY AnswerSteps DEF TypeOK, Requests
  <2>2. CASE answer'[q] = answer[q]
    <3>1. seen = {}
      BY NoFaultBefore
    <3>2. intent[i] \in Closed
      BY <2>1, <2>2, <3>1 DEF FailureIsRecorded
    <3> QED
      BY <2>1, <3>2, ClosedRowsStay
  <2>3. CASE FailObjectUpload(q)
    BY <2>1, <2>3 DEF FailObjectUpload, IntentExists, Closed, IntentStates, TypeOK, Fault
  <2> QED
    BY <2>1, <2>2, <2>3, ErrorSteps
<1>3. TypeOK /\ RowInv /\ IntentExists /\ [Next]_vars => IntentExists'
  BY NextIntentExists
<1> QED
  BY <1>1, <1>2, <1>3, InitTypeOK, NextTypeOK, InitRowInv, NextRowInv, PTL DEF Spec

=============================================================================
