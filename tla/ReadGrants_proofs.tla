------------------------- MODULE ReadGrants_proofs -------------------------
(***************************************************************************)
(* Proofs about ReadGrants, for any grants, keys, reads, copies and order   *)
(* of the copies, any lifetime and any combination of disturbances.          *)
(***************************************************************************)
EXTENDS ReadGrants, WellFoundedInduction, TLAPS

(* The order in which the copies are tried is total.                         *)
LEMMA BeforeIsTotal ==
  ASSUME NEW s \in Targets, NEW t \in Targets
  PROVE  /\ s = t \/ Before(s, t) \/ Before(t, s)
         /\ ~(Before(s, t) /\ Before(t, s))
         /\ ~Before(s, s)
<1>1. DOMAIN Order \subseteq Nat
  BY OrderAssumption
<1>2. PICK m \in DOMAIN Order, n \in DOMAIN Order : Order[m] = s /\ Order[n] = t
  BY OrderAssumption
<1>3. /\ \A k \in DOMAIN Order : Order[k] = s => k = m
      /\ \A k \in DOMAIN Order : Order[k] = t => k = n
  BY <1>2, OrderAssumption
<1>4. m < n \/ n < m \/ m = n
  BY <1>1
<1>5. /\ Before(s, t) <=> m < n
      /\ Before(t, s) <=> n < m
      /\ Before(s, s) <=> m < m
  BY <1>2, <1>3 DEF Before
<1> QED
  BY <1>1, <1>2, <1>4, <1>5

LEMMA NextOfIsFirst ==
  ASSUME NEW set \in SUBSET Targets, set # {}
  PROVE  /\ NextOf(set) \in set
         /\ \A s \in set : s = NextOf(set) \/ Before(NextOf(set), s)
<1> DEFINE S == {n \in DOMAIN Order : Order[n] \in set}
<1>1. DOMAIN Order = 1..Len(Order) /\ Len(Order) \in Nat
  BY OrderAssumption
<1>2. S \in SUBSET Nat /\ S # {}
  BY <1>1, OrderAssumption
<1>3. PICK n \in S : \A k \in S : n <= k
  <2>1. IsWellFoundedOn({ss \in Nat \X Nat : ss[1] < ss[2]}, Nat)
    BY NatLessThanWellFounded DEF OpToRel
  <2>2. PICK n \in S : \A k \in S : ~(<<k, n>> \in {ss \in Nat \X Nat : ss[1] < ss[2]})
    BY <1>2, <2>1, WFMin, Zenon
  <2>3. ASSUME NEW k \in S PROVE n <= k
    <3>1. k \in Nat /\ n \in Nat
      BY <1>2
    <3>2. <<k, n>> \in Nat \X Nat /\ <<k, n>>[1] = k /\ <<k, n>>[2] = n
      BY <3>1
    <3>3. ~(<<k, n>>[1] < <<k, n>>[2])
      BY <2>2, <3>2, Zenon
    <3> HIDE DEF S
    <3> QED
      BY <3>1, <3>2, <3>3
  <2> QED
    BY <2>2, <2>3
<1>4. /\ n \in DOMAIN Order /\ Order[n] \in set
      /\ \A m \in 1..n - 1 : Order[m] \notin set
  BY <1>1, <1>3
<1> DEFINE c == CHOOSE k \in DOMAIN Order :
                  Order[k] \in set /\ \A m \in 1..k - 1 : Order[m] \notin set
<1>5. c \in DOMAIN Order /\ Order[c] \in set /\ \A m \in 1..c - 1 : Order[m] \notin set
  BY <1>4
<1>6. NextOf(set) = Order[c]
  BY DEF NextOf
<1> HIDE DEF c
<1>7. ASSUME NEW s \in set PROVE s = Order[c] \/ Before(Order[c], s)
  <2>1. PICK k \in DOMAIN Order : Order[k] = s
    BY OrderAssumption
  <2>2. ~(k < c)
    BY <1>1, <1>5, <2>1
  <2>3. k = c \/ c < k
    BY <1>1, <1>5, <2>1, <2>2
  <2> QED
    BY <1>5, <2>1, <2>3 DEF Before
<1> QED
  BY <1>5, <1>6, <1>7

LEMMA RegistryIsTyped ==
  ASSUME NEW c PROVE RegistryState(c) \in {"active", "degraded", "reserved"}
BY DEF RegistryState, Route!DeriveTruth, Route!RouteTruth, Route!DualTruth, Route!Truth,
       Dual!DeriveTruth, Dual!RouteTruth, Dual!DualTruth, Dual!Truth

-----------------------------------------------------------------------------
(* Types.                                                                    *)

GrantTypes ==
  /\ grant \in [Grants -> GrantStates]
  /\ expiry \in [Grants -> 0..MaxTime + Ttl]
  /\ keys \in [Keys -> Grants \cup {NoGrant}]
  /\ events \subseteq {"issued", "expired", "revoked"} \X Grants
  /\ held \subseteq Grants
  /\ now \in 0..MaxTime

ObjectTypes ==
  /\ routed \in BOOLEAN
  /\ copies \in [Targets -> {"pending", "verified", "failed", "deleted"}]
  /\ registry \in {"active", "degraded", "reserved"}
  /\ stored \in [Targets -> {"exact", "absent"}]
  /\ serving \subseteq Rows
  /\ seen \subseteq {"provider", "unrecorded"}

ReadTypes ==
  /\ pc \in [Reads -> Phases]
  /\ grantOf \in [Reads -> Grants \cup {NoGrant}]
  /\ usable \in [Reads -> SUBSET Targets]
  /\ left \in [Reads -> SUBSET Targets]
  /\ at \in [Reads -> Targets]
  /\ outcome \in [Reads -> Outcomes]
  /\ attempt \in [Reads -> [Targets -> AttemptStates]]
  /\ delivered \subseteq Reads

LEMMA TypesAreTypeOK == TypeOK <=> GrantTypes /\ ObjectTypes /\ ReadTypes
<1>1. Route!CopyStates \cup {"deleted"} = {"pending", "verified", "failed", "deleted"}
  BY DEF Route!CopyStates
<1> QED
  BY <1>1 DEF TypeOK, GrantTypes, ObjectTypes, ReadTypes

LEMMA InitTypes == Init => TypeOK
<1> SUFFICES ASSUME Init PROVE TypeOK
  OBVIOUS
<1>1. GrantTypes
  BY ReadAssumption DEF Init, GrantTypes, GrantStates
<1>2. copies \in [Targets -> {"pending", "verified", "failed", "deleted"}]
  BY DEF Init, Route!CopyStates
<1>3. ObjectTypes
  BY <1>2, RegistryIsTyped DEF Init, ObjectTypes
<1>4. Primary \in Targets
  BY ReadAssumption
<1>5. ReadTypes
  BY <1>4 DEF Init, ReadTypes, Phases, Outcomes, AttemptStates
<1> QED
  BY <1>1, <1>3, <1>5, TypesAreTypeOK

(* What one request at a read may do to the rows of a read.                  *)
LEMMA GrantTypesStay == TypeOK /\ [Next]_vars => GrantTypes'
<1> SUFFICES ASSUME TypeOK, [Next]_vars PROVE GrantTypes'
  OBVIOUS
<1> USE TypesAreTypeOK, ReadAssumption
<1>1. CASE UNCHANGED <<grantVars, events, now>>
  BY <1>1 DEF grantVars, GrantTypes
<1>2. ASSUME NEW g \in Grants, NEW k \in Keys, IssueGrant(k, g) PROVE GrantTypes'
  BY <1>2 DEF IssueGrant, CreateObjectReadGrant, GrantExpiry, GrantTypes, GrantStates
<1>3. ASSUME NEW k \in Keys, ReplayGrant(k) PROVE GrantTypes'
  BY <1>3 DEF ReplayGrant, GrantTypes, recordVars
<1>4. ASSUME NEW g \in Grants, RevokeObjectReadGrant(g) PROVE GrantTypes'
  BY <1>4 DEF RevokeObjectReadGrant, GrantTypes, GrantStates
<1>5. ASSUME NEW r \in Reads, GetObjectReadGrant(r) PROVE GrantTypes'
  BY <1>5 DEF GetObjectReadGrant, GrantTypes, GrantStates, recordVars
<1>6. CASE Tick
  BY <1>6 DEF Tick, GrantTypes, grantVars, recordVars
<1> QED
  BY <1>1, <1>2, <1>3, <1>4, <1>5, <1>6
     DEF Next, vars, Deliver, DeliverContent, ExpiresMeanwhile, TakeSnapshot,
         BeginObjectReadAttempt, BeginFails, Exhausted, ProviderAnswers, ProviderFails, FallBack,
         RecordingFails, UndoHead, StreamEnds, StreamBreaks, FinishBroken, FinishSucceeded,
         AppendSuccessEvent, Abandon, Crash, CompleteRepair, DeletePrimary, CompleteRetention,
         Deactivate, Idle, recordVars

LEMMA DisturbTypes ==
  ASSUME NEW kind, Disturb(kind), seen \subseteq {"provider", "unrecorded"}
  PROVE  seen \subseteq seen' /\ seen' \subseteq {"provider", "unrecorded"}
<1>1. CASE kind = "provider"
  BY <1>1 DEF Disturb
<1>2. CASE kind \in {"crash", "database", "abandon"}
  BY <1>2 DEF Disturb
<1>3. CASE kind \in {"cancel", "inactive"}
  BY <1>3 DEF Disturb
<1> QED
  BY <1>1, <1>2, <1>3, ReadAssumption DEF Disturb, DisturbanceKinds

(* The object's rows and what has gone wrong, as any step may change them.   *)
ObjectStep ==
  /\ seen \subseteq seen' /\ seen' \subseteq {"provider", "unrecorded"}
  /\ \/ UNCHANGED <<objectVars, serving>>
     \/ \E row \in Rows : UNCHANGED objectVars /\ serving' = serving \ {row}
     \/ \E t \in Targets :
          /\ copies[t] = "pending" /\ copies' = [copies EXCEPT ![t] = "verified"]
          /\ stored' = [stored EXCEPT ![t] = "exact"]
          /\ registry' = RegistryState(copies') /\ UNCHANGED <<routed, serving>>
     \/ /\ stored' = [stored EXCEPT ![Primary] = "absent"]
        /\ UNCHANGED <<routed, copies, registry, serving>>
     \/ /\ copies[Primary] = "verified" /\ copies' = [copies EXCEPT ![Primary] = "deleted"]
        /\ UNCHANGED <<routed, registry, stored, serving>>

LEMMA ObjectSteps == TypeOK /\ [Next]_vars => ObjectStep
<1> SUFFICES ASSUME TypeOK, [Next]_vars PROVE ObjectStep
  OBVIOUS
<1>1. seen \subseteq {"provider", "unrecorded"}
  BY TypesAreTypeOK DEF ObjectTypes
<1>2. CASE UNCHANGED <<objectVars, serving, seen>>
  BY <1>1, <1>2 DEF ObjectStep
<1>3. ASSUME NEW kind, Disturb(kind), UNCHANGED <<objectVars, serving>> PROVE ObjectStep
  BY <1>1, <1>3, DisturbTypes DEF ObjectStep
<1>4. ASSUME NEW t \in Targets, CompleteRepair(t) PROVE ObjectStep
  BY <1>1, <1>4 DEF CompleteRepair, ObjectStep
<1>5. CASE DeletePrimary
  BY <1>1, <1>5 DEF DeletePrimary, ObjectStep
<1>6. CASE CompleteRetention
  BY <1>1, <1>6 DEF CompleteRetention, ObjectStep
<1>7. ASSUME NEW row \in Rows, Deactivate(row) PROVE ObjectStep
  BY <1>1, <1>7, DisturbTypes DEF Deactivate, ObjectStep
<1>8. ASSUME NEW r \in Reads, Deliver(r) \/ Abandon(r) PROVE ObjectStep
  <2>1. CASE UNCHANGED <<objectVars, serving, seen>>
    BY <1>2, <2>1
  <2>2. CASE BeginFails(r)
    BY <1>3, <2>2 DEF BeginFails
  <2>3. CASE ProviderFails(r)
    BY <1>2, <1>3, <2>3 DEF ProviderFails
  <2>4. CASE RecordingFails(r)
    BY <1>2, <1>3, <2>4 DEF RecordingFails
  <2>5. CASE StreamBreaks(r)
    BY <1>3, <2>5 DEF StreamBreaks
  <2>6. CASE Abandon(r)
    BY <1>3, <2>6 DEF Abandon
  <2> QED
    BY <1>8, <2>1, <2>2, <2>3, <2>4, <2>5, <2>6
       DEF Deliver, GetObjectReadGrant, ExpiresMeanwhile, TakeSnapshot, BeginObjectReadAttempt,
           Exhausted, ProviderAnswers, FallBack, UndoHead, StreamEnds, FinishBroken,
           FinishSucceeded, AppendSuccessEvent
<1>9. CASE Crash
  BY <1>3, <1>9 DEF Crash
<1> QED
  BY <1>2, <1>4, <1>5, <1>6, <1>7, <1>8, <1>9
     DEF Next, vars, IssueGrant, ReplayGrant, RevokeObjectReadGrant, DeliverContent, Tick, Idle

LEMMA ObjectTypesStay == TypeOK /\ ObjectStep => ObjectTypes'
<1> SUFFICES ASSUME ObjectTypes, ObjectStep PROVE ObjectTypes'
  BY TypesAreTypeOK
<1>1. routed' = routed /\ serving' \subseteq serving
  BY DEF ObjectStep, objectVars
<1>2. Rows' = Rows
  BY <1>1 DEF Rows
<1>3. copies' \in [Targets -> {"pending", "verified", "failed", "deleted"}]
  BY DEF ObjectStep, objectVars, ObjectTypes
<1>4. stored' \in [Targets -> {"exact", "absent"}]
  BY DEF ObjectStep, objectVars, ObjectTypes
<1>5. registry' \in {"active", "degraded", "reserved"}
  BY RegistryIsTyped DEF ObjectStep, objectVars, ObjectTypes
<1>6. seen' \subseteq {"provider", "unrecorded"}
  BY DEF ObjectStep
<1> QED
  BY <1>1, <1>2, <1>3, <1>4, <1>5, <1>6 DEF ObjectTypes

LEMMA ReadTypesStay == TypeOK /\ [Next]_vars => ReadTypes'
<1> SUFFICES ASSUME TypeOK, [Next]_vars PROVE ReadTypes'
  OBVIOUS
<1>1. ReadTypes
  BY TypesAreTypeOK
<1>2. CASE UNCHANGED <<readVars, delivered, attempt>>
  BY <1>1, <1>2 DEF ReadTypes, readVars
<1>3. ASSUME NEW r \in Reads, NEW g \in Grants, DeliverContent(r, g) PROVE ReadTypes'
  BY <1>1, <1>3 DEF DeliverContent, ReadTypes, recordVars, Phases
<1>4. ASSUME NEW r \in Reads, UNCHANGED <<delivered, attempt, grantOf, usable, left, at>>,
             NEW to \in Phases, pc' = [pc EXCEPT ![r] = to],
             NEW how \in Outcomes, outcome' = [outcome EXCEPT ![r] = how] \/ outcome' = outcome
      PROVE  ReadTypes'
  BY <1>1, <1>4 DEF ReadTypes
<1>5. ASSUME NEW r \in Reads, NEW to \in Phases, NEW how \in Outcomes,
             UNCHANGED <<delivered, attempt>>, Move(r, to) \/ End(r, how)
      PROVE  ReadTypes'
  BY <1>4, <1>5 DEF Move, End, Phases, Outcomes
<1>6. ASSUME NEW r \in Reads, NEW state \in AttemptStates, NEW to \in Phases,
             NEW how \in Outcomes, SetAttempt(r, state), UNCHANGED delivered,
             Move(r, to) \/ End(r, how)
      PROVE  ReadTypes'
  BY <1>1, <1>6 DEF ReadTypes, Move, End, SetAttempt, Phases
<1>7. ASSUME NEW r \in Reads, Deliver(r) \/ Abandon(r) PROVE ReadTypes'
  <2> USE <1>5, <1>6 DEF Phases, Outcomes, AttemptStates, recordVars
  <2>1. CASE GetObjectReadGrant(r)
    BY <2>1 DEF GetObjectReadGrant, Move
  <2>2. CASE ExpiresMeanwhile(r) \/ Exhausted(r) \/ BeginFails(r) \/ Abandon(r)
    BY <2>2 DEF ExpiresMeanwhile, Exhausted, BeginFails, Abandon
  <2>3. CASE TakeSnapshot(r)
    <3>1. VerifiedCopies \in SUBSET Targets
      BY DEF VerifiedCopies
    <3> QED
      BY <1>1, <2>3, <3>1 DEF TakeSnapshot, ReadTypes
  <2>4. CASE BeginObjectReadAttempt(r)
    <3>1. left[r] \in SUBSET Targets /\ left[r] # {}
      BY <1>1, <2>4 DEF BeginObjectReadAttempt, ReadTypes
    <3>2. NextOf(left[r]) \in Targets
      BY <3>1, NextOfIsFirst
    <3> QED
      BY <1>1, <2>4, <3>2 DEF BeginObjectReadAttempt, ReadTypes
  <2>5. CASE ProviderAnswers(r) \/ ProviderFails(r) \/ StreamEnds(r) \/ StreamBreaks(r)
    BY <2>5 DEF ProviderAnswers, ProviderFails, StreamEnds, StreamBreaks
  <2>6. CASE RecordingFails(r)
    BY <2>6 DEF RecordingFails
  <2>7. CASE FallBack(r) \/ UndoHead(r) \/ FinishBroken(r) \/ FinishSucceeded(r)
    BY <2>7 DEF FallBack, UndoHead, FinishBroken, FinishSucceeded
  <2>8. CASE AppendSuccessEvent(r)
    BY <1>1, <2>8 DEF AppendSuccessEvent, End, ReadTypes
  <2> QED
    BY <1>7, <2>1, <2>2, <2>3, <2>4, <2>5, <2>6, <2>7, <2>8 DEF Deliver
<1>8. CASE Crash
  BY <1>1, <1>8 DEF Crash, ReadTypes, recordVars, Phases, Outcomes
<1> QED
  BY <1>2, <1>3, <1>7, <1>8
     DEF Next, vars, recordVars, IssueGrant, CreateObjectReadGrant, ReplayGrant,
         RevokeObjectReadGrant, CompleteRepair, DeletePrimary, CompleteRetention, Deactivate,
         Tick, Idle

LEMMA NextTypes == TypeOK /\ [Next]_vars => TypeOK'
<1> SUFFICES ASSUME TypeOK, [Next]_vars PROVE TypeOK'
  OBVIOUS
<1>1. GrantTypes' /\ ObjectTypes' /\ ReadTypes'
  BY GrantTypesStay, ObjectSteps, ObjectTypesStay, ReadTypesStay
<1>2. (Route!CopyStates \cup {"deleted"})' = {"pending", "verified", "failed", "deleted"}
  BY DEF Route!CopyStates
<1> QED
  BY <1>1, <1>2 DEF TypeOK, GrantTypes, ObjectTypes, ReadTypes

(* Every row of ReadGrants and every step of a delivery keeps its type: an   *)
(* expiry is never past the clock by more than the lifetime asked for, and a *)
(* delivery is always at a copy of its object (runtime-read-delivery.ts).    *)
THEOREM TypeCorrect == Spec => []TypeOK
<1>1. Init => TypeOK
  BY InitTypes
<1>2. TypeOK /\ [Next]_vars => TypeOK'
  BY NextTypes
<1> QED
  BY <1>1, <1>2, PTL DEF Spec

-----------------------------------------------------------------------------
(* The grants' events, and the course of a delivery over its snapshot.       *)

EventsOK ==
  \A g \in Grants :
    /\ (grant[g] = "revoked") <=> (<<"revoked", g>> \in events)
    /\ <<"expired", g>> \in events => grant[g] = "expired"

(* The copies a delivery has taken up, the last of which it is at.           *)
Tried(r) == usable[r] \ left[r]

AtCopy == {"calling", "failing", "streaming", "breaking", "finishing", "undoing"}

(* The copies of a snapshot were verified, and are taken up in their order.  *)
SnapshotOK(r) ==
  /\ left[r] \subseteq usable[r]
  /\ \A t \in usable[r] : copies[t] # "pending"
  /\ pc[r] \in {"idle", "asked", "granted"} => usable[r] = {}
  /\ \A s, t \in usable[r] : Before(s, t) /\ s \in left[r] => t \in left[r]

(* Attempts are what a delivery has tried; those before the last have        *)
(* failed, and the last is as the delivery's place says.                     *)
AttemptsOK(r) ==
  /\ \A t \in Targets : attempt[r][t] = "none" <=> t \notin Tried(r)
  /\ \A t \in Tried(r) : t = at[r] \/ (Before(t, at[r]) /\ attempt[r][t] = "failed")
  /\ pc[r] \in AtCopy => attempt[r][at[r]] = "in_progress"
  /\ pc[r] = "choosing" => \A t \in Tried(r) : attempt[r][t] = "failed"
  /\ pc[r] = "reporting" => attempt[r][at[r]] = "succeeded"

(* A copy a delivery went on from has lost its bytes, unless a provider      *)
(* failed.                                                                   *)
PassedOver(r, t) ==
  t # at[r] \/ pc[r] \in {"choosing", "failing"} \/ outcome[r] = "unavailable"

BytesOK(r) ==
  "provider" \notin seen => \A t \in Tried(r) : PassedOver(r, t) => stored[t] = "absent"

OutcomeOK(r) ==
  /\ outcome[r] = "none" <=> pc[r] # "done"
  /\ outcome[r] = "served" <=> r \in delivered
  /\ outcome[r] = "served" => attempt[r][at[r]] = "succeeded"
  /\ outcome[r] = "unavailable" => \A t \in usable[r] : t \in Tried(r) /\ attempt[r][t] = "failed"
  /\ pc[r] = "done" /\ "unrecorded" \notin seen => attempt[r][at[r]] # "in_progress"

ReadOK(r) == SnapshotOK(r) /\ AttemptsOK(r) /\ BytesOK(r) /\ OutcomeOK(r)

ReadsOK == \A r \in Reads : ReadOK(r)

Inv == TypeOK /\ EventsOK /\ ReadsOK

LEMMA InitInv == Init => Inv
<1> SUFFICES ASSUME Init PROVE Inv
  OBVIOUS
<1>1. TypeOK
  BY InitTypes
<1>2. EventsOK
  BY DEF Init, EventsOK
<1>3. ASSUME NEW r \in Reads PROVE ReadOK(r)
  BY <1>3 DEF Init, ReadOK, SnapshotOK, AttemptsOK, BytesOK, OutcomeOK, Tried, AtCopy
<1> QED
  BY <1>1, <1>2, <1>3 DEF Inv, ReadsOK

LEMMA EventsStay == TypeOK /\ EventsOK /\ [Next]_vars => EventsOK'
<1> SUFFICES ASSUME TypeOK, EventsOK, [Next]_vars PROVE EventsOK'
  OBVIOUS
<1>0. grant \in [Grants -> GrantStates]
  BY DEF TypeOK
<1>1. CASE UNCHANGED <<grant, events>>
  BY <1>1 DEF EventsOK
<1>2. ASSUME NEW g \in Grants, NEW k \in Keys, IssueGrant(k, g) PROVE EventsOK'
  BY <1>0, <1>2 DEF IssueGrant, CreateObjectReadGrant, EventsOK
<1>3. ASSUME NEW g \in Grants, RevokeObjectReadGrant(g) PROVE EventsOK'
  BY <1>0, <1>3 DEF RevokeObjectReadGrant, EventsOK
<1>4. ASSUME NEW r \in Reads, GetObjectReadGrant(r) PROVE EventsOK'
  BY <1>0, <1>4 DEF GetObjectReadGrant, EventsOK, recordVars
<1> QED
  BY <1>1, <1>2, <1>3, <1>4
     DEF Next, vars, grantVars, Deliver, DeliverContent, ReplayGrant, ExpiresMeanwhile,
         TakeSnapshot, BeginObjectReadAttempt, BeginFails, Exhausted, ProviderAnswers,
         ProviderFails, FallBack, RecordingFails, UndoHead, StreamEnds, StreamBreaks,
         FinishBroken, FinishSucceeded, AppendSuccessEvent, Abandon, Crash, CompleteRepair,
         DeletePrimary, CompleteRetention, Deactivate, Tick, Idle, recordVars

(* What any step may do to the copies a snapshot was taken of: they do not   *)
(* become pending, and bytes that are gone do not come back.                 *)
WorldMoves ==
  /\ seen \subseteq seen'
  /\ \A t \in Targets : copies[t] # "pending" =>
       /\ copies'[t] # "pending"
       /\ stored[t] = "absent" => stored'[t] = "absent"

LEMMA WorldMovesOn == TypeOK /\ [Next]_vars => WorldMoves
<1> SUFFICES ASSUME TypeOK, ObjectStep PROVE WorldMoves
  BY ObjectSteps
<1>1. ObjectTypes
  BY TypesAreTypeOK
<1> QED
  BY <1>1 DEF ObjectStep, ObjectTypes, WorldMoves, objectVars

ReadRests(r) ==
  /\ pc'[r] = pc[r] /\ usable'[r] = usable[r] /\ left'[r] = left[r] /\ at'[r] = at[r]
  /\ outcome'[r] = outcome[r] /\ attempt'[r] = attempt[r]
  /\ r \in delivered' <=> r \in delivered

LEMMA RestingReads ==
  ASSUME TypeOK, WorldMoves, NEW r \in Reads, ReadOK(r), ReadRests(r) PROVE ReadOK(r)'
<1> USE DEF ReadRests, WorldMoves
<1>0. usable[r] \subseteq Targets
  BY DEF TypeOK
<1>1. Tried(r)' = Tried(r)
  BY DEF Tried
<1>2. SnapshotOK(r)'
  BY <1>0 DEF ReadOK, SnapshotOK, Before
<1>3. AttemptsOK(r)'
  BY <1>1 DEF ReadOK, AttemptsOK, Before
<1>4. BytesOK(r)'
  <2>1. \A t \in Tried(r) : t \in Targets /\ copies[t] # "pending"
    BY <1>0 DEF ReadOK, SnapshotOK, Tried
  <2>2. \A t \in Tried(r) : PassedOver(r, t)' <=> PassedOver(r, t)
    BY DEF PassedOver
  <2> QED
    BY <1>1, <2>1, <2>2 DEF ReadOK, BytesOK
<1>5. OutcomeOK(r)'
  BY <1>1 DEF ReadOK, OutcomeOK
<1> QED
  BY <1>2, <1>3, <1>4, <1>5 DEF ReadOK

(* The steps of one delivery leave the others alone.                         *)
LEMMA OthersRest ==
  ASSUME TypeOK, NEW r \in Reads, NEW g,
         DeliverContent(r, g) \/ Deliver(r) \/ Abandon(r),
         NEW q \in Reads \ {r}
  PROVE  ReadRests(q)
<1>1. ReadTypes
  BY TypesAreTypeOK
<1> USE DEF ReadRests, recordVars, Move, End, SetAttempt
<1>2. CASE DeliverContent(r, g) \/ GetObjectReadGrant(r) \/ ExpiresMeanwhile(r) \/ Exhausted(r)
  BY <1>1, <1>2 DEF ReadTypes, DeliverContent, GetObjectReadGrant, ExpiresMeanwhile, Exhausted
<1>3. CASE TakeSnapshot(r) \/ BeginObjectReadAttempt(r) \/ BeginFails(r)
  BY <1>1, <1>3 DEF ReadTypes, TakeSnapshot, BeginObjectReadAttempt, BeginFails
<1>4. CASE ProviderAnswers(r) \/ ProviderFails(r) \/ StreamEnds(r) \/ StreamBreaks(r)
  BY <1>1, <1>4 DEF ReadTypes, ProviderAnswers, ProviderFails, StreamEnds, StreamBreaks
<1>5. CASE FallBack(r) \/ UndoHead(r) \/ FinishBroken(r) \/ FinishSucceeded(r)
  BY <1>1, <1>5 DEF ReadTypes, FallBack, UndoHead, FinishBroken, FinishSucceeded
<1>6. CASE RecordingFails(r) \/ AppendSuccessEvent(r) \/ Abandon(r)
  BY <1>1, <1>6 DEF ReadTypes, RecordingFails, AppendSuccessEvent, Abandon
<1> QED
  BY <1>2, <1>3, <1>4, <1>5, <1>6 DEF Deliver

(* A delivery that neither takes up a copy nor changes an attempt.           *)
LEMMA MovingReads ==
  ASSUME TypeOK, WorldMoves, NEW r \in Reads, ReadOK(r),
         usable'[r] = usable[r], left'[r] = left[r], at'[r] = at[r], attempt'[r] = attempt[r],
         pc'[r] \in {"idle", "asked", "granted"} => pc[r] \in {"idle", "asked", "granted"},
         pc'[r] \in AtCopy => pc[r] \in AtCopy,
         pc'[r] # "choosing", pc'[r] # "reporting",
         pc'[r] = "failing" =>
           stored[at[r]] = "absent" \/ "provider" \in seen' \/ Tried(r) = {},
         outcome'[r] = "unavailable" => outcome[r] = "unavailable" \/ pc[r] = "choosing",
         OutcomeOK(r)'
  PROVE  ReadOK(r)'
<1> USE DEF WorldMoves
<1>0. usable[r] \subseteq Targets
  BY DEF TypeOK
<1>1. Tried(r)' = Tried(r)
  BY DEF Tried
<1>2. SnapshotOK(r)'
  BY <1>0 DEF ReadOK, SnapshotOK, Before
<1>3. AttemptsOK(r)'
  BY <1>1 DEF ReadOK, AttemptsOK, Before
<1>4. BytesOK(r)'
  <2>1. \A t \in Tried(r) : t \in Targets /\ copies[t] # "pending"
    BY <1>0 DEF ReadOK, SnapshotOK, Tried
  <2>2. ASSUME NEW t \in Tried(r), PassedOver(r, t)', "provider" \notin seen'
        PROVE  stored[t] = "absent"
    BY <2>2 DEF PassedOver, ReadOK, BytesOK
  <2> QED
    BY <1>1, <2>1, <2>2 DEF BytesOK
<1> QED
  BY <1>2, <1>3, <1>4 DEF ReadOK

(* An attempt at the copy a delivery is at ends.                             *)
LEMMA EndingAttempts ==
  ASSUME TypeOK, WorldMoves, NEW r \in Reads, ReadOK(r), pc[r] \in AtCopy,
         NEW state \in {"succeeded", "failed"}, SetAttempt(r, state),
         usable'[r] = usable[r], left'[r] = left[r], at'[r] = at[r],
         pc'[r] \in {"choosing", "reporting", "done"},
         pc'[r] = "choosing" => state = "failed" /\ pc[r] = "failing",
         pc'[r] = "reporting" => state = "succeeded",
         outcome'[r] \notin {"served", "unavailable"}, r \notin delivered',
         outcome'[r] = "none" <=> pc'[r] # "done"
  PROVE  ReadOK(r)'
<1> USE DEF WorldMoves
<1>0. usable[r] \subseteq Targets /\ at[r] \in Targets
  BY DEF TypeOK
<1>1. Tried(r)' = Tried(r) /\ \A t \in Tried(r) : t \in Targets
  BY <1>0 DEF Tried
<1>2. /\ attempt'[r][at[r]] = state
      /\ \A t \in Targets \ {at[r]} : attempt'[r][t] = attempt[r][t]
  BY <1>0 DEF TypeOK, SetAttempt
<1>3. attempt[r][at[r]] = "in_progress" /\ at[r] \in Tried(r)
  BY <1>0 DEF ReadOK, AttemptsOK
<1>4. SnapshotOK(r)'
  BY <1>0 DEF ReadOK, SnapshotOK, Before
<1>5. AttemptsOK(r)'
  BY <1>1, <1>2, <1>3 DEF ReadOK, AttemptsOK, Before, AtCopy
<1>6. BytesOK(r)'
  <2>1. \A t \in Tried(r) : copies[t] # "pending"
    BY DEF ReadOK, SnapshotOK, Tried
  <2>2. ASSUME NEW t \in Tried(r), PassedOver(r, t)', "provider" \notin seen'
        PROVE  stored[t] = "absent"
    BY <2>2 DEF PassedOver, ReadOK, BytesOK
  <2> QED
    BY <1>1, <2>1, <2>2 DEF BytesOK
<1>7. OutcomeOK(r)'
  BY <1>2 DEF OutcomeOK
<1> QED
  BY <1>4, <1>5, <1>6, <1>7 DEF ReadOK

(* The first copy that is left is taken up: all before it have been.         *)
LEMMA TakingUp ==
  ASSUME TypeOK, WorldMoves, NEW r \in Reads, ReadOK(r), BeginObjectReadAttempt(r)
  PROVE  ReadOK(r)'
<1> USE DEF WorldMoves
<1>0. usable[r] \subseteq Targets /\ left[r] \subseteq usable[r]
  BY DEF TypeOK, ReadOK, SnapshotOK
<1>1. PICK t \in Targets :
        /\ t = NextOf(left[r]) /\ t \in left[r]
        /\ \A s \in left[r] : s = t \/ Before(t, s)
  <2>1. left[r] \in SUBSET Targets /\ left[r] # {}
    BY <1>0 DEF BeginObjectReadAttempt
  <2> QED
    BY <2>1, NextOfIsFirst
<1>2. /\ pc[r] = "choosing" /\ pc'[r] = "calling" /\ usable' = usable /\ at'[r] = t
      /\ left'[r] = left[r] \ {t} /\ outcome' = outcome /\ delivered' = delivered
      /\ attempt'[r][t] = "in_progress"
      /\ \A s \in Targets \ {t} : attempt'[r][s] = attempt[r][s]
  BY <1>1 DEF BeginObjectReadAttempt, TypeOK
<1>3. Tried(r)' = Tried(r) \cup {t} /\ t \notin Tried(r)
  BY <1>0, <1>1, <1>2 DEF Tried
<1>4. \A s \in Tried(r) : Before(s, t) /\ attempt[r][s] = "failed"
  <2>1. ASSUME NEW s \in Tried(r) PROVE Before(s, t)
    <3>1. s \in usable[r] /\ s \notin left[r] /\ s # t /\ s \in Targets
      BY <1>0, <1>1 DEF Tried
    <3>2. ~Before(t, s)
      BY <1>0, <1>1, <3>1 DEF ReadOK, SnapshotOK
    <3> QED
      BY <1>1, <3>1, <3>2, BeforeIsTotal
  <2> QED
    BY <1>2, <2>1 DEF ReadOK, AttemptsOK
<1>5. SnapshotOK(r)'
  <2>1. ASSUME NEW s \in usable[r], NEW u \in usable[r], Before(s, u), s \in left[r] \ {t}
        PROVE  u \in left[r] \ {t}
    <3>1. Before(t, s) /\ u \in left[r]
      BY <1>1, <2>1 DEF ReadOK, SnapshotOK
    <3>2. u # t
      BY <1>0, <1>1, <2>1, <3>1, BeforeIsTotal
    <3> QED
      BY <3>1, <3>2
  <2> QED
    BY <1>0, <1>2, <2>1 DEF ReadOK, SnapshotOK, Before
<1>6. AttemptsOK(r)'
  <2>1. \A s \in Targets : attempt'[r][s] = "none" <=> s \notin Tried(r)'
    BY <1>1, <1>2, <1>3 DEF ReadOK, AttemptsOK
  <2>2. \A s \in Tried(r)' : s = t \/ (Before(s, t) /\ attempt'[r][s] = "failed")
    BY <1>0, <1>1, <1>2, <1>3, <1>4 DEF Tried
  <2> QED
    BY <1>2, <2>1, <2>2 DEF AttemptsOK, AtCopy, Before
<1>7. BytesOK(r)'
  <2>1. \A s \in Tried(r) : s \in Targets /\ copies[s] # "pending"
    BY <1>0 DEF ReadOK, SnapshotOK, Tried
  <2>2. ~PassedOver(r, t)'
    BY <1>2 DEF PassedOver, ReadOK, OutcomeOK
  <2>3. \A s \in Tried(r) : PassedOver(r, s)
    BY <1>2 DEF PassedOver
  <2> QED
    BY <1>3, <2>1, <2>2, <2>3 DEF ReadOK, BytesOK
<1>8. OutcomeOK(r)'
  BY <1>2 DEF ReadOK, OutcomeOK
<1> QED
  BY <1>5, <1>6, <1>7, <1>8 DEF ReadOK

(* Every step of a delivery is one of the three.                             *)
LEMMA DeliveriesStay ==
  ASSUME TypeOK, WorldMoves, NEW r \in Reads, ReadOK(r), NEW g,
         DeliverContent(r, g) \/ Deliver(r) \/ Abandon(r)
  PROVE  ReadOK(r)'
<1>1. /\ ReadTypes /\ OutcomeOK(r) /\ AttemptsOK(r) /\ SnapshotOK(r)
      /\ seen \subseteq seen'
  BY TypesAreTypeOK DEF ReadOK, WorldMoves
<1> USE DEF recordVars, Move, End, AtCopy
<1>2. CASE DeliverContent(r, g) \/ GetObjectReadGrant(r) \/ ExpiresMeanwhile(r)
  <2>1. /\ pc[r] \in {"idle", "asked", "granted"}
        /\ \/ pc'[r] \in {"asked", "granted"} /\ outcome'[r] = outcome[r]
           \/ pc'[r] = "done" /\ outcome'[r] = "refused"
        /\ UNCHANGED <<usable, left, at, attempt, delivered>>
    BY <1>1, <1>2
       DEF DeliverContent, GetObjectReadGrant, ExpiresMeanwhile, ReadTypes
  <2>2. attempt[r][at[r]] = "none"
    BY <1>1, <2>1 DEF SnapshotOK, AttemptsOK, Tried, ReadTypes
  <2>3. OutcomeOK(r)'
    BY <1>1, <2>1, <2>2 DEF OutcomeOK
  <2> QED
    BY <2>1, <2>3, MovingReads
<1>3. CASE TakeSnapshot(r)
  <2>1. CASE ~(SnapshotComplete /\ registry # "reserved")
    <3>1. /\ pc[r] = "granted" /\ pc'[r] = "done" /\ outcome'[r] = "error"
          /\ UNCHANGED <<usable, left, at, attempt, delivered>>
      BY <1>1, <1>3, <2>1 DEF TakeSnapshot, ReadTypes
    <3>2. attempt[r][at[r]] = "none"
      BY <1>1, <3>1 DEF SnapshotOK, AttemptsOK, Tried, ReadTypes
    <3>3. OutcomeOK(r)'
      BY <1>1, <3>1, <3>2 DEF OutcomeOK
    <3> QED
      BY <3>1, <3>3, MovingReads
  <2>2. CASE SnapshotComplete /\ registry # "reserved"
    <3>1. /\ pc[r] = "granted" /\ pc'[r] = "choosing"
          /\ usable'[r] = VerifiedCopies /\ left'[r] = VerifiedCopies
          /\ UNCHANGED <<at, attempt, delivered, outcome, copies>>
      BY <1>1, <1>3, <2>2 DEF TakeSnapshot, ReadTypes, objectVars
    <3>2. Tried(r) = {} /\ Tried(r)' = {}
      BY <1>1, <3>1 DEF SnapshotOK, Tried
    <3>3. SnapshotOK(r)'
      BY <3>1 DEF SnapshotOK, VerifiedCopies
    <3>4. AttemptsOK(r)' /\ BytesOK(r)'
      BY <1>1, <3>1, <3>2 DEF AttemptsOK, BytesOK
    <3>5. OutcomeOK(r)'
      BY <1>1, <3>1 DEF OutcomeOK
    <3> QED
      BY <3>3, <3>4, <3>5 DEF ReadOK
  <2> QED
    BY <2>1, <2>2
<1>4. CASE BeginObjectReadAttempt(r)
  BY <1>4, TakingUp
<1>5. CASE BeginFails(r) \/ Exhausted(r)
  <2>1. /\ pc[r] = "choosing" /\ pc'[r] = "done"
        /\ outcome'[r] = "error" \/ (outcome'[r] = "unavailable" /\ left[r] = {})
        /\ UNCHANGED <<usable, left, at, attempt, delivered>>
    BY <1>1, <1>5 DEF BeginFails, Exhausted, ReadTypes
  <2>2. /\ attempt[r][at[r]] # "in_progress"
        /\ \A t \in Tried(r) : attempt[r][t] = "failed"
    BY <1>1, <2>1 DEF AttemptsOK, ReadTypes
  <2>3. OutcomeOK(r)'
    BY <1>1, <2>1, <2>2 DEF OutcomeOK, Tried
  <2> QED
    BY <2>1, <2>3, MovingReads
<1>6. CASE ProviderAnswers(r) \/ ProviderFails(r) \/ StreamEnds(r) \/ StreamBreaks(r)
  <2>1. /\ pc[r] \in {"calling", "streaming"}
        /\ pc'[r] \in {"streaming", "finishing", "failing", "breaking"}
        /\ UNCHANGED <<usable, left, at, attempt, delivered, outcome>>
    BY <1>1, <1>6
       DEF ProviderAnswers, ProviderFails, StreamEnds, StreamBreaks, ReadTypes
  <2>2. pc'[r] = "failing" => stored[at[r]] = "absent" \/ "provider" \in seen'
    BY <1>1, <1>6, TypesAreTypeOK
       DEF ProviderAnswers, ProviderFails, StreamEnds, StreamBreaks, Disturb, ReadTypes,
           ObjectTypes
  <2>3. OutcomeOK(r)'
    BY <1>1, <2>1 DEF OutcomeOK
  <2> QED
    BY <2>1, <2>2, <2>3, MovingReads
<1>7. CASE FallBack(r) \/ UndoHead(r) \/ FinishBroken(r) \/ FinishSucceeded(r)
  <2>1. /\ pc[r] \in AtCopy /\ UNCHANGED <<usable, left, at, delivered>>
        /\ \/ /\ pc[r] = "failing" /\ pc'[r] = "choosing"
              /\ SetAttempt(r, "failed") /\ outcome'[r] = outcome[r]
           \/ pc'[r] = "done" /\ SetAttempt(r, "failed") /\ outcome'[r] \in {"error", "broken"}
           \/ pc'[r] = "reporting" /\ SetAttempt(r, "succeeded") /\ outcome'[r] = outcome[r]
    BY <1>1, <1>7 DEF FallBack, UndoHead, FinishBroken, FinishSucceeded, ReadTypes
  <2>2. outcome[r] = "none" /\ r \notin delivered
    BY <1>1, <2>1 DEF OutcomeOK
  <2> QED
    BY <2>1, <2>2, EndingAttempts
<1>8. CASE RecordingFails(r)
  <2>1. /\ pc[r] \in AtCopy \cup {"reporting"}
        /\ UNCHANGED <<usable, left, at, attempt, delivered>>
        /\ \/ pc'[r] = "undoing" /\ outcome'[r] = outcome[r]
           \/ pc'[r] = "done" /\ outcome'[r] \in {"error", "broken"}
    BY <1>1, <1>8 DEF RecordingFails, ReadTypes
  <2>2. "unrecorded" \in seen' \/ pc[r] = "reporting"
    BY <1>8 DEF RecordingFails, Disturb
  <2>3. pc[r] = "reporting" => attempt[r][at[r]] = "succeeded" /\ pc'[r] = "done"
    BY <1>1, <1>8 DEF AttemptsOK, RecordingFails, ReadTypes
  <2>4. outcome[r] = "none" /\ r \notin delivered
    BY <1>1, <2>1 DEF OutcomeOK
  <2>5. OutcomeOK(r)'
    BY <2>1, <2>2, <2>3, <2>4 DEF OutcomeOK
  <2> QED
    BY <2>1, <2>3, <2>5, MovingReads
<1>9. CASE AppendSuccessEvent(r)
  <2>1. /\ pc[r] = "reporting" /\ pc'[r] = "done" /\ outcome'[r] = "served"
        /\ r \in delivered' /\ UNCHANGED <<usable, left, at, attempt>>
    BY <1>1, <1>9 DEF AppendSuccessEvent, ReadTypes
  <2>2. OutcomeOK(r)'
    BY <1>1, <2>1 DEF OutcomeOK, AttemptsOK
  <2> QED
    BY <2>1, <2>2, MovingReads
<1>10. CASE Abandon(r)
  <2>1. /\ pc[r] = "streaming" /\ pc'[r] = "done" /\ outcome'[r] = "lost"
        /\ UNCHANGED <<usable, left, at, attempt, delivered>> /\ "unrecorded" \in seen'
    BY <1>1, <1>10 DEF Abandon, ReadTypes, Disturb
  <2>2. OutcomeOK(r)'
    BY <1>1, <2>1 DEF OutcomeOK
  <2> QED
    BY <2>1, <2>2, MovingReads
<1> QED
  BY <1>2, <1>3, <1>4, <1>5, <1>6, <1>7, <1>8, <1>9, <1>10 DEF Deliver

LEMMA CrashedReads ==
  ASSUME TypeOK, WorldMoves, NEW r \in Reads, ReadOK(r), Crash PROVE ReadOK(r)'
<1>1. CASE ~InFlight(r)
  <2>1. ReadRests(r)
    BY <1>1 DEF Crash, ReadRests, recordVars
  <2> QED
    BY <2>1, RestingReads
<1>2. CASE InFlight(r)
  <2>1. /\ pc[r] # "done" /\ pc'[r] = "done" /\ outcome'[r] = "lost" /\ "unrecorded" \in seen'
        /\ UNCHANGED <<usable, left, at, attempt, delivered>>
    BY <1>2 DEF Crash, Disturb, InFlight, recordVars
  <2>2. OutcomeOK(r)'
    BY <2>1 DEF ReadOK, OutcomeOK
  <2> QED
    BY <2>1, <2>2, MovingReads DEF AtCopy
<1> QED
  BY <1>1, <1>2

LEMMA NextInv == Inv /\ [Next]_vars => Inv'
<1> SUFFICES ASSUME Inv, [Next]_vars PROVE Inv'
  OBVIOUS
<1>1. TypeOK /\ EventsOK /\ WorldMoves /\ TypeOK' /\ EventsOK'
  BY NextTypes, EventsStay, WorldMovesOn DEF Inv
<1>2. ASSUME NEW q \in Reads PROVE ReadOK(q)'
  <2>1. ReadOK(q)
    BY DEF Inv, ReadsOK
  <2>2. CASE UNCHANGED <<readVars, delivered, attempt>>
    <3>1. ReadRests(q)
      BY <2>2 DEF readVars, ReadRests
    <3> QED
      BY <1>1, <2>1, <3>1, RestingReads
  <2>3. ASSUME NEW r \in Reads, NEW g,
               DeliverContent(r, g) \/ Deliver(r) \/ Abandon(r)
        PROVE  ReadOK(q)'
    <3>1. CASE q = r
      BY <1>1, <2>1, <2>3, <3>1, DeliveriesStay
    <3>2. CASE q # r
      <4>1. ReadRests(q)
        BY <1>1, <2>3, <3>2, OthersRest
      <4> QED
        BY <1>1, <2>1, <4>1, RestingReads
    <3> QED
      BY <3>1, <3>2
  <2>4. ASSUME NEW r \in Reads, Deliver(r) \/ Abandon(r) PROVE ReadOK(q)'
    <3>1. DeliverContent(r, NoGrant) \/ Deliver(r) \/ Abandon(r)
      BY <2>4
    <3> QED
      BY <2>3, <3>1
  <2>5. CASE Crash
    BY <1>1, <2>1, <2>5, CrashedReads
  <2> QED
    BY <2>2, <2>3, <2>4, <2>5
       DEF Next, vars, recordVars, IssueGrant, CreateObjectReadGrant, ReplayGrant,
           RevokeObjectReadGrant, CompleteRepair, DeletePrimary, CompleteRetention, Deactivate,
           Tick, Idle
<1> QED
  BY <1>1, <1>2 DEF Inv, ReadsOK

-----------------------------------------------------------------------------
(* What follows for attempts, events and the order of the copies.            *)

LEMMA InvTellsAudit == Inv => AuditTrail
<1> SUFFICES ASSUME Inv, NEW r \in Reads
    PROVE  /\ r \in delivered \/ outcome[r] = "served" => attempt[r][at[r]] = "succeeded"
           /\ (outcome[r] = "served") <=> (r \in delivered)
           /\ Tries(r, "succeeded") \cup Tries(r, "in_progress") \subseteq {at[r]}
           /\ pc[r] = "done" /\ "unrecorded" \notin seen => Tries(r, "in_progress") = {}
           /\ \A g \in Grants :
                /\ (grant[g] = "revoked") <=> (<<"revoked", g>> \in events)
                /\ <<"expired", g>> \in events => grant[g] = "expired"
  BY DEF AuditTrail
<1>1. AttemptsOK(r) /\ OutcomeOK(r)
  BY DEF Inv, ReadsOK, ReadOK
<1>2. \A t \in Targets : attempt[r][t] \in {"succeeded", "in_progress"} => t = at[r]
  BY <1>1 DEF AttemptsOK
<1> QED
  BY <1>1, <1>2 DEF OutcomeOK, Tries, Inv, EventsOK

LEMMA InvOrdersFallback == Inv => FallbackIsOrderly
<1> SUFFICES ASSUME Inv, NEW r \in Reads
    PROVE  /\ \A s, t \in usable[r] :
                Before(s, t) /\ attempt[r][t] # "none" => attempt[r][s] = "failed"
           /\ outcome[r] = "unavailable" =>
                \A t \in usable[r] :
                  attempt[r][t] = "failed" /\ ("provider" \notin seen => stored[t] = "absent")
  BY DEF FallbackIsOrderly
<1>1. SnapshotOK(r) /\ AttemptsOK(r) /\ BytesOK(r) /\ OutcomeOK(r)
  BY DEF Inv, ReadsOK, ReadOK
<1>2. usable[r] \subseteq Targets
  BY DEF Inv, TypeOK
<1>3. ASSUME NEW s \in usable[r], NEW t \in usable[r], Before(s, t), attempt[r][t] # "none"
      PROVE  attempt[r][s] = "failed"
  <2>1. t \in Tried(r)
    BY <1>1, <1>2, <1>3 DEF AttemptsOK
  <2>2. s \in Tried(r)
    BY <1>1, <1>3, <2>1 DEF SnapshotOK, Tried
  <2>3. s # at[r]
    <3>1. t = at[r] \/ Before(t, at[r])
      BY <1>1, <2>1 DEF AttemptsOK
    <3> QED
      BY <1>2, <1>3, <3>1, BeforeIsTotal
  <2> QED
    BY <1>1, <2>2, <2>3 DEF AttemptsOK
<1>4. ASSUME outcome[r] = "unavailable", NEW t \in usable[r]
      PROVE  attempt[r][t] = "failed" /\ ("provider" \notin seen => stored[t] = "absent")
  BY <1>1, <1>4 DEF OutcomeOK, BytesOK, PassedOver
<1> QED
  BY <1>3, <1>4

(* However deliveries, revocations, expiries, repairs, retention and crashes *)
(* interleave, the attempts and events tell what was delivered: an event     *)
(* 'object-read-delivered' stands for a succeeded attempt, and an attempt    *)
(* is left open only by a crash, a stream nobody ends, or a failure of the   *)
(* database (runtime-read-delivery.ts:449).                                  *)
THEOREM AuditTrailHolds == Spec => []AuditTrail
BY InitInv, NextInv, InvTellsAudit, PTL DEF Spec

(* A delivery passes over no copy of its snapshot and gives up on an object  *)
(* only when every one was tried; without provider failures their bytes are  *)
(* gone, whatever retention and repair did meanwhile                         *)
(* (runtime-read-delivery.ts:620).                                           *)
THEOREM FallbackIsOrderlyHolds == Spec => []FallbackIsOrderly
BY InitInv, NextInv, InvOrdersFallback, PTL DEF Spec

-----------------------------------------------------------------------------
(* What a grant promises.                                                    *)

AuthorityMap == [g \in Grants |-> Authority(g)]

ProgressMap == [r \in Reads |-> Progress(r)]

LEMMA InitReadAuthority == Init => Abstract!Init
BY DEF Init, Abstract!Init, Authority, Progress

(* Reads go on, or end, and grants stay as they are.                         *)
LEMMA ReadsGoOn ==
  ASSUME UNCHANGED <<AuthorityMap, grantOf>>,
         \A q \in Reads : \/ Progress(q)' = Progress(q)
                          \/ Progress(q) \in {"waiting", "admitted"} /\ Progress(q)' = "ended"
  PROVE  [Abstract!Next]_Abstract!authorityVars
<1>0. PICK finished : finished = {q \in Reads : Progress(q)' # Progress(q)}
  OBVIOUS
<1>1. /\ \A q \in finished : ProgressMap[q] \in {"waiting", "admitted"}
      /\ ProgressMap' = [q \in Reads |-> IF q \in finished THEN "ended" ELSE ProgressMap[q]]
  BY <1>0 DEF ProgressMap
<1>2. Abstract!Finish(finished)
  BY <1>1 DEF Abstract!Finish, ProgressMap, AuthorityMap
<1>3. finished \in SUBSET Reads
  BY <1>0
<1> QED
  BY <1>2, <1>3 DEF Abstract!Next

(* Grants end, and reads stay as they are.                                   *)
LEMMA GrantsEnd ==
  ASSUME UNCHANGED <<ProgressMap, grantOf>>,
         \A g \in Grants : \/ Authority(g)' = Authority(g)
                           \/ Authority(g) = "live" /\ Authority(g)' = "over"
  PROVE  [Abstract!Next]_Abstract!authorityVars
<1>0. PICK ended : ended = {g \in Grants : Authority(g)' # Authority(g)}
  OBVIOUS
<1>1. /\ \A g \in ended : AuthorityMap[g] = "live"
      /\ AuthorityMap' = [g \in Grants |-> IF g \in ended THEN "over" ELSE AuthorityMap[g]]
  BY <1>0 DEF AuthorityMap
<1>2. Abstract!End(ended)
  BY <1>1 DEF Abstract!End, ProgressMap, AuthorityMap
<1>3. ended \in SUBSET Grants
  BY <1>0
<1> QED
  BY <1>2, <1>3 DEF Abstract!Next

LEMMA SameRowsSameAuthority ==
  ASSUME UNCHANGED <<grant, expiry, now>> PROVE UNCHANGED AuthorityMap
BY DEF AuthorityMap, Authority, Due

LEMMA SamePlacesSameProgress ==
  ASSUME UNCHANGED pc PROVE UNCHANGED ProgressMap
BY DEF ProgressMap, Progress

(* A read that waits presents a grant of this caller.                        *)
AsksOK == \A r \in Reads : pc[r] = "asked" => grantOf[r] \in Grants

LEMMA AsksStay == TypeOK /\ AsksOK /\ [Next]_vars => AsksOK'
<1> SUFFICES ASSUME TypeOK, AsksOK, [Next]_vars PROVE AsksOK'
  OBVIOUS
<1>0. pc \in [Reads -> Phases] /\ grantOf \in [Reads -> Grants \cup {NoGrant}]
  BY DEF TypeOK
<1> USE DEF AsksOK, Move, End
<1>1. CASE UNCHANGED <<pc, grantOf>>
  BY <1>1
<1>2. ASSUME NEW r \in Reads, NEW g \in Grants, DeliverContent(r, g) PROVE AsksOK'
  BY <1>0, <1>2 DEF DeliverContent
<1>3. ASSUME NEW r \in Reads, Deliver(r) \/ Abandon(r) PROVE AsksOK'
  <2>1. CASE GetObjectReadGrant(r) \/ ExpiresMeanwhile(r) \/ TakeSnapshot(r)
    BY <1>0, <2>1 DEF GetObjectReadGrant, ExpiresMeanwhile, TakeSnapshot
  <2>2. CASE BeginObjectReadAttempt(r) \/ BeginFails(r) \/ Exhausted(r) \/ Abandon(r)
    BY <1>0, <2>2 DEF BeginObjectReadAttempt, BeginFails, Exhausted, Abandon
  <2>3. CASE ProviderAnswers(r) \/ ProviderFails(r) \/ FallBack(r) \/ RecordingFails(r)
    BY <1>0, <2>3 DEF ProviderAnswers, ProviderFails, FallBack, RecordingFails
  <2>4. CASE StreamEnds(r) \/ StreamBreaks(r) \/ UndoHead(r)
    BY <1>0, <2>4 DEF StreamEnds, StreamBreaks, UndoHead
  <2>5. CASE FinishBroken(r) \/ FinishSucceeded(r) \/ AppendSuccessEvent(r)
    BY <1>0, <2>5 DEF FinishBroken, FinishSucceeded, AppendSuccessEvent
  <2> QED
    BY <1>3, <2>1, <2>2, <2>3, <2>4, <2>5 DEF Deliver
<1>4. CASE Crash
  BY <1>0, <1>4 DEF Crash
<1> QED
  BY <1>1, <1>2, <1>3, <1>4
     DEF Next, vars, readVars, IssueGrant, ReplayGrant, RevokeObjectReadGrant, CompleteRepair,
         DeletePrimary, CompleteRetention, Deactivate, Tick, Idle

LEMMA StepImplementsReadAuthority ==
  TypeOK /\ AsksOK /\ [Next]_vars => [Abstract!Next]_Abstract!authorityVars
<1> SUFFICES ASSUME TypeOK, AsksOK, [Next]_vars PROVE [Abstract!Next]_Abstract!authorityVars
  OBVIOUS
<1>0. /\ grant \in [Grants -> GrantStates] /\ expiry \in [Grants -> 0..MaxTime + Ttl]
      /\ now \in 0..MaxTime /\ pc \in [Reads -> Phases]
  BY DEF TypeOK
<1>1. CASE UNCHANGED <<grant, expiry, now, pc, grantOf>>
  <2>1. UNCHANGED <<AuthorityMap, ProgressMap, grantOf>>
    BY <1>1, SameRowsSameAuthority, SamePlacesSameProgress
  <2> QED
    BY <2>1 DEF Abstract!authorityVars, AuthorityMap, ProgressMap
<1>2. ASSUME NEW g \in Grants, NEW k \in Keys, IssueGrant(k, g)
      PROVE  [Abstract!Next]_Abstract!authorityVars
  <2>1. /\ grant[g] = "none" /\ grant'[g] = "active" /\ expiry'[g] = now + Ttl
        /\ \A h \in Grants \ {g} : grant'[h] = grant[h] /\ expiry'[h] = expiry[h]
        /\ UNCHANGED <<now, pc, grantOf>>
    BY <1>0, <1>2 DEF IssueGrant, CreateObjectReadGrant, GrantExpiry, readVars
  <2>2. Authority(g) = "none" /\ Authority(g)' = "live"
    BY <1>0, <2>1, ReadAssumption DEF Authority, Due
  <2>3. \A h \in Grants \ {g} : Authority(h)' = Authority(h)
    BY <2>1 DEF Authority, Due
  <2>4. /\ AuthorityMap[g] = "none" /\ AuthorityMap' = [AuthorityMap EXCEPT ![g] = "live"]
    BY <2>2, <2>3 DEF AuthorityMap
  <2>5. UNCHANGED <<ProgressMap, grantOf>>
    BY <2>1, SamePlacesSameProgress
  <2>6. Abstract!Issue(g)
    BY <2>4, <2>5 DEF Abstract!Issue, AuthorityMap, ProgressMap
  <2> QED
    BY <2>6 DEF Abstract!Next
<1>3. ASSUME NEW g \in Grants, RevokeObjectReadGrant(g)
      PROVE  [Abstract!Next]_Abstract!authorityVars
  <2>1. /\ grant[g] = "active" /\ grant'[g] \in {"expired", "revoked"}
        /\ \A h \in Grants \ {g} : grant'[h] = grant[h]
        /\ UNCHANGED <<expiry, now, pc, grantOf>>
    BY <1>0, <1>3 DEF RevokeObjectReadGrant, readVars
  <2>2. Authority(g) \in {"live", "over"} /\ Authority(g)' = "over"
    BY <2>1 DEF Authority
  <2>3. \A h \in Grants \ {g} : Authority(h)' = Authority(h)
    BY <2>1 DEF Authority, Due
  <2> QED
    BY <2>1, <2>2, <2>3, SamePlacesSameProgress, GrantsEnd
<1>4. CASE Tick
  <2>1. now' = now + 1 /\ UNCHANGED <<grant, expiry, pc, grantOf>>
    BY <1>4 DEF Tick, grantVars, readVars
  <2>2. ASSUME NEW g \in Grants
        PROVE  \/ Authority(g)' = Authority(g)
               \/ Authority(g) = "live" /\ Authority(g)' = "over"
    <3>1. Due(g) => Due(g)'
      BY <1>0, <2>1 DEF Due
    <3> QED
      BY <2>1, <3>1 DEF Authority
  <2> QED
    BY <2>1, <2>2, SamePlacesSameProgress, GrantsEnd
<1>5. ASSUME NEW r \in Reads, NEW g \in Grants, DeliverContent(r, g)
      PROVE  [Abstract!Next]_Abstract!authorityVars
  <2>1. /\ pc[r] = "idle" /\ pc'[r] = "asked" /\ UNCHANGED <<grant, expiry, now>>
        /\ \A q \in Reads \ {r} : pc'[q] = pc[q]
        /\ grantOf' = [grantOf EXCEPT ![r] = g]
    BY <1>0, <1>5 DEF DeliverContent, grantVars
  <2>2. /\ ProgressMap[r] = "idle" /\ ProgressMap' = [ProgressMap EXCEPT ![r] = "waiting"]
    BY <2>1 DEF ProgressMap, Progress
  <2>3. UNCHANGED AuthorityMap
    BY <2>1, SameRowsSameAuthority
  <2>4. Abstract!Ask(r, g)
    BY <2>1, <2>2, <2>3 DEF Abstract!Ask, AuthorityMap, ProgressMap
  <2> QED
    BY <2>4 DEF Abstract!Next
<1>6. ASSUME NEW r \in Reads, GetObjectReadGrant(r)
      PROVE  [Abstract!Next]_Abstract!authorityVars
  <2> DEFINE looked == grantOf[r]
  <2>1. /\ pc[r] = "asked" /\ UNCHANGED <<expiry, now, grantOf>>
        /\ grant' = [grant EXCEPT ![looked] = IF @ = "active" /\ Due(looked) THEN "expired" ELSE @]
        /\ \A q \in Reads \ {r} : pc'[q] = pc[q]
        /\ pc'[r] = IF Admits(looked) THEN "granted" ELSE "done"
    BY <1>0, <1>6 DEF GetObjectReadGrant, Move, End
  <2>2. UNCHANGED AuthorityMap
    BY <1>0, <2>1 DEF AuthorityMap, Authority, Due
  <2>3. /\ Progress(r) = "waiting"
        /\ Progress(r)' = IF Admits(looked) THEN "admitted" ELSE "ended"
        /\ \A q \in Reads \ {r} : Progress(q)' = Progress(q)
    BY <2>1 DEF Progress
  <2>4. CASE Admits(looked)
    <3>0. looked \in Grants
      BY <2>1 DEF AsksOK
    <3>1. AuthorityMap[looked] = "live"
      BY <2>4, <3>0 DEF AuthorityMap, Authority, Admits
    <3>2. /\ ProgressMap[r] = "waiting"
          /\ ProgressMap' = [ProgressMap EXCEPT ![r] = "admitted"]
      BY <2>3, <2>4 DEF ProgressMap
    <3>3. Abstract!Admit(r)
      BY <2>1, <2>2, <3>1, <3>2 DEF Abstract!Admit, AuthorityMap, ProgressMap
    <3> QED
      BY <3>3 DEF Abstract!Next
  <2>5. CASE ~Admits(looked)
    BY <2>1, <2>2, <2>3, <2>5, ReadsGoOn
  <2> QED
    BY <2>4, <2>5
<1>7. ASSUME NEW r \in Reads, Deliver(r) \/ Abandon(r), ~GetObjectReadGrant(r)
      PROVE  [Abstract!Next]_Abstract!authorityVars
  <2>1. /\ pc[r] \in Phases \ {"idle", "asked", "done"} /\ pc'[r] \in Phases \ {"idle", "asked"}
        /\ \A q \in Reads \ {r} : pc'[q] = pc[q]
        /\ UNCHANGED <<grant, expiry, now, grantOf>>
    <3> USE DEF Phases, Move, End, grantVars
    <3>1. CASE ExpiresMeanwhile(r) \/ TakeSnapshot(r) \/ BeginObjectReadAttempt(r)
      BY <1>0, <3>1 DEF ExpiresMeanwhile, TakeSnapshot, BeginObjectReadAttempt
    <3>2. CASE BeginFails(r) \/ Exhausted(r) \/ Abandon(r) \/ StreamEnds(r) \/ StreamBreaks(r)
      BY <1>0, <3>2 DEF BeginFails, Exhausted, Abandon, StreamEnds, StreamBreaks
    <3>3. CASE ProviderAnswers(r) \/ ProviderFails(r) \/ FallBack(r) \/ RecordingFails(r)
      BY <1>0, <3>3 DEF ProviderAnswers, ProviderFails, FallBack, RecordingFails
    <3>4. CASE UndoHead(r) \/ FinishBroken(r) \/ FinishSucceeded(r) \/ AppendSuccessEvent(r)
      BY <1>0, <3>4 DEF UndoHead, FinishBroken, FinishSucceeded, AppendSuccessEvent
    <3> QED
      BY <1>7, <3>1, <3>2, <3>3, <3>4 DEF Deliver
  <2>2. /\ Progress(r) = "admitted" /\ Progress(r)' \in {"admitted", "ended"}
        /\ \A q \in Reads \ {r} : Progress(q)' = Progress(q)
    BY <2>1 DEF Progress
  <2> QED
    BY <2>1, <2>2, SameRowsSameAuthority, ReadsGoOn
<1>8. CASE Crash
  <2>1. /\ UNCHANGED <<grant, expiry, now, grantOf>>
        /\ \A q \in Reads : pc'[q] = IF InFlight(q) THEN "done" ELSE pc[q]
    BY <1>8 DEF Crash, grantVars
  <2>2. \A q \in Reads : \/ Progress(q)' = Progress(q)
                         \/ Progress(q) \in {"waiting", "admitted"} /\ Progress(q)' = "ended"
    BY <2>1 DEF Progress, InFlight
  <2> QED
    BY <2>1, <2>2, SameRowsSameAuthority, ReadsGoOn
<1> QED
  BY <1>1, <1>2, <1>3, <1>4, <1>5, <1>6, <1>7, <1>8
     DEF Next, vars, grantVars, readVars, ReplayGrant, CompleteRepair, DeletePrimary,
         CompleteRetention, Deactivate, Idle

(* However grants are issued, replayed, revoked, found expired and looked at *)
(* late, every read was admitted at an instant at which its grant was        *)
(* neither revoked nor over, for any clock and lifetime: the row that a      *)
(* delivery looks up decides, not the token that was verified before         *)
(* (runtime-read-grant-impl.ts:765).                                         *)
THEOREM GrantsImplementReadAuthority == Spec => ImplementsReadAuthority
<1>1. Init => TypeOK /\ AsksOK
  BY InitTypes DEF Init, AsksOK
<1>2. TypeOK /\ AsksOK /\ [Next]_vars => (TypeOK /\ AsksOK)'
  BY NextTypes, AsksStay
<1> QED
  BY <1>1, <1>2, InitReadAuthority, StepImplementsReadAuthority, PTL
     DEF Spec, ImplementsReadAuthority, Abstract!Spec

=============================================================================
