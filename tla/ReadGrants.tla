----------------------------- MODULE ReadGrants -----------------------------
(***************************************************************************)
(* Read grants of one object of one caller, and the deliveries made under   *)
(* them. A grant is a row with a state and an expiry; it is issued once per  *)
(* idempotency key, revoked by a request, and found expired by whoever looks *)
(* next. A delivery looks the grant up once, takes one snapshot of the       *)
(* object's copies, tries the usable ones in a fixed order, one recorded     *)
(* attempt each, and streams from the first that answers, while grants end,  *)
(* copies are repaired and the primary is retired behind its back.           *)
(***************************************************************************)
EXTENDS Naturals, Sequences

CONSTANTS
  Targets, Primary,   \* the copies of the object, as in OutcomeTable
  Grants,        \* ids of read grants
  NoGrant,
  Keys,          \* idempotency keys of POST /v1/object-read-grants
  Reads,         \* GET and HEAD requests for the content
  Heads,         \* those that are HEAD
  Order,         \* the targets in the order a delivery tries them
  Ttl,           \* requestedTtlSeconds
  MaxTime,       \* bound of the clock
  Disturbances   \* what may go wrong in this run

DisturbanceKinds ==
  {"crash", "database", "provider", "cancel", "abandon", "inactive"}

(* The object may be of either kind.                                         *)
Route == INSTANCE OutcomeTable WITH Configured <- TRUE
Dual == INSTANCE OutcomeTable WITH Configured <- FALSE

Peers == Targets \ {Primary}

ASSUME ReadAssumption ==
  /\ Primary \in Targets
  /\ NoGrant \notin Grants
  /\ Heads \subseteq Reads
  /\ Ttl \in Nat \ {0} /\ MaxTime \in Nat
  /\ Disturbances \subseteq DisturbanceKinds

ASSUME OrderAssumption ==
  /\ Order \in Seq(Targets)
  /\ \A t \in Targets : \E n \in DOMAIN Order : Order[n] = t
  /\ \A m, n \in DOMAIN Order : Order[m] = Order[n] => m = n
  /\ Order[Len(Order)] = Primary

VARIABLES
  routed,     \* the object was stored over a configured route, or hot and canonical
  grant,      \* state of each grant's row
  expiry,     \* expires_at of each grant's row
  keys,       \* the grant each key's idempotency record refers to
  events,     \* grant events in the outbox: <<kind, grant>>
  delivered,  \* reads with an event 'object-read-delivered'
  copies,     \* the copy_state of each copy's row
  registry,   \* the registry_state of the object's row
  stored,     \* what the provider of each copy holds
  attempt,    \* the state of each read's attempt at each copy
  serving,    \* which of the rows a request depends on are active
  now,
  held,       \* grants whose token the client has
  pc,         \* where each read is
  grantOf,    \* the grant it presents
  usable,     \* the verified copies of its snapshot
  left,       \* those it has not tried yet
  at,         \* the copy it is trying
  outcome,    \* how it ended
  seen        \* what has gone wrong

grantVars == <<grant, expiry, keys, held>>
objectVars == <<routed, copies, registry, stored>>
readVars == <<pc, grantOf, usable, left, at, outcome>>
recordVars == <<events, delivered, attempt>>
vars == <<grantVars, objectVars, readVars, recordVars, serving, now, seen>>

GrantStates == {"none", "active", "expired", "revoked"}
AttemptStates == {"none", "in_progress", "succeeded", "failed"}
Phases == {"idle", "asked", "granted", "choosing", "calling", "failing", "streaming",
           "breaking", "finishing", "undoing", "reporting", "done"}
Outcomes == {"none", "refused", "served", "broken", "error", "unavailable", "lost"}

(* A failure of a provider, and whatever may leave an attempt open, are      *)
(* remembered for the properties.                                            *)
Disturb(kind) ==
  /\ kind \in Disturbances
  /\ seen' = CASE kind = "provider" -> seen \cup {"provider"}
               [] kind \in {"crash", "database", "abandon"} -> seen \cup {"unrecorded"}
               [] OTHER -> seen

(* Rows besides those of the object that a statement joins and asks to be    *)
(* active: the caller's app and, for an object that is hot and canonical,    *)
(* its profile and the provider of each copy. The version a route belongs to *)
(* may be superseded: to a read it is active.                                *)
Rows == {"app"} \cup (IF routed THEN {} ELSE {"profile"} \cup Targets)

RegistryState(c) ==
  IF routed THEN Route!DeriveTruth(c).registry ELSE Dual!DeriveTruth(c).registry

Due(g) == expiry[g] <= now

-----------------------------------------------------------------------------

(* The object was uploaded; its copies are as the upload left them.          *)
Init ==
  /\ grant = [g \in Grants |-> "none"]
  /\ expiry = [g \in Grants |-> 0]
  /\ keys = [k \in Keys |-> NoGrant]
  /\ events = {}
  /\ delivered = {}
  /\ routed \in BOOLEAN
  /\ copies \in [Targets -> Route!CopyStates]
  /\ \A t \in Targets :
       (copies[t] = "pending") <=> (t \notin IF routed THEN Route!Written ELSE Dual!Written)
  /\ registry = RegistryState(copies)
  /\ stored = [t \in Targets |-> IF copies[t] = "verified" THEN "exact" ELSE "absent"]
  /\ attempt = [r \in Reads |-> [t \in Targets |-> "none"]]
  /\ serving = Rows
  /\ now = 0
  /\ held = {}
  /\ pc = [r \in Reads |-> "idle"]
  /\ grantOf = [r \in Reads |-> NoGrant]
  /\ usable = [r \in Reads |-> {}]
  /\ left = [r \in Reads |-> {}]
  /\ at = [r \in Reads |-> Primary]
  /\ outcome = [r \in Reads |-> "none"]
  /\ seen = {}

-----------------------------------------------------------------------------
(* Grants. Each is one transaction of the duplicate protection.              *)

Grantable ==
  /\ Rows \ Targets \subseteq serving
  /\ registry \in {"active", "degraded"}
  /\ \E t \in Targets : copies[t] = "verified"

(* Mutant: the lifetime is counted in another unit.                          *)
ExpiryInMilliseconds == now + Ttl * 1000

GrantExpiry == now + Ttl

CreateObjectReadGrant(g) ==
  /\ grant[g] = "none" /\ Grantable
  /\ grant' = [grant EXCEPT ![g] = "active"]
  /\ expiry' = [expiry EXCEPT ![g] = GrantExpiry]
  /\ events' = events \cup {<<"issued", g>>}

(* POST with a new key. The answer may not reach the client.                 *)
IssueGrant(k, g) ==
  /\ keys[k] = NoGrant
  /\ CreateObjectReadGrant(g)
  /\ keys' = [keys EXCEPT ![k] = g]
  /\ held' \in {held, held \cup {g}}
  /\ UNCHANGED <<objectVars, readVars, delivered, attempt, serving, now, seen>>

(* POST with a recorded key: the same token again, while the grant is active.*)
ReplayGrant(k) ==
  LET g == keys[k]
  IN /\ g # NoGrant /\ g \notin held
     /\ grant[g] = "active" /\ ~Due(g)
     /\ held' = held \cup {g}
     /\ UNCHANGED <<grant, expiry, keys, objectVars, readVars, recordVars, serving, now, seen>>

(* DELETE of a grant; any later one returns the row as it is.                *)
RevokeObjectReadGrant(g) ==
  LET next == IF Due(g) THEN "expired" ELSE "revoked"
  IN /\ grant[g] = "active"
     /\ grant' = [grant EXCEPT ![g] = next]
     /\ events' = events \cup {<<next, g>>}
     /\ UNCHANGED <<expiry, keys, held, objectVars, readVars, delivered, attempt, serving, now, seen>>

-----------------------------------------------------------------------------
(* A read, from its token to its snapshot of the copies.                     *)

(* The token's signature and its claims, the expiry among them, are checked  *)
(* before any row is.                                                        *)
TokenVerifies(g) == g \in held /\ ~Due(g)

DeliverContent(r, g) ==
  /\ pc[r] = "idle" /\ TokenVerifies(g)
  /\ pc' = [pc EXCEPT ![r] = "asked"]
  /\ grantOf' = [grantOf EXCEPT ![r] = g]
  /\ UNCHANGED <<grantVars, objectVars, recordVars, usable, left, at, outcome, serving, now, seen>>

End(r, how) ==
  /\ pc' = [pc EXCEPT ![r] = "done"]
  /\ outcome' = [outcome EXCEPT ![r] = how]
  /\ UNCHANGED <<grantOf, usable, left, at>>

(* Mutant: the state of the row is not looked at.                            *)
AdmitsUnrevoked(g) == ~Due(g)

Admits(g) == grant[g] = "active" /\ ~Due(g)

(* The row is moved to expired when it is due, without an event, then read.  *)
GetObjectReadGrant(r) ==
  LET g == grantOf[r]
  IN /\ pc[r] = "asked"
     /\ grant' = [grant EXCEPT ![g] = IF @ = "active" /\ Due(g) THEN "expired" ELSE @]
     /\ IF Admits(g)
        THEN /\ pc' = [pc EXCEPT ![r] = "granted"]
             /\ UNCHANGED <<grantOf, usable, left, at, outcome>>
        ELSE End(r, "refused")
     /\ UNCHANGED <<expiry, keys, held, objectVars, recordVars, serving, now, seen>>

(* The time is compared with the expiry once more.                           *)
ExpiresMeanwhile(r) ==
  /\ pc[r] = "granted" /\ Due(grantOf[r])
  /\ End(r, "refused")
  /\ UNCHANGED <<grantVars, objectVars, recordVars, serving, now, seen>>

(* A legacy object needs the provider rows of both roles, whichever copy is  *)
(* going to be read; a route takes its copies as they are.                   *)
SnapshotComplete == Rows \cap Targets \subseteq serving

VerifiedCopies == {t \in Targets : copies[t] = "verified"}

TakeSnapshot(r) ==
  /\ pc[r] = "granted" /\ ~Due(grantOf[r])
  /\ IF SnapshotComplete /\ registry # "reserved"
     THEN /\ pc' = [pc EXCEPT ![r] = "choosing"]
          /\ usable' = [usable EXCEPT ![r] = VerifiedCopies]
          /\ left' = [left EXCEPT ![r] = VerifiedCopies]
          /\ UNCHANGED <<grantOf, at, outcome>>
     ELSE End(r, "error")
  /\ UNCHANGED <<grantVars, objectVars, recordVars, serving, now, seen>>

-----------------------------------------------------------------------------
(* The copies of the snapshot, one after the other.                          *)

(* Mutant: the primary is tried first.                                       *)
NextFrom(set) == IF Primary \in set THEN Primary ELSE CHOOSE t \in set : TRUE

NextOf(set) ==
  Order[CHOOSE n \in DOMAIN Order :
          Order[n] \in set /\ \A m \in 1..n - 1 : Order[m] \notin set]

Move(r, to) ==
  /\ pc' = [pc EXCEPT ![r] = to]
  /\ UNCHANGED <<grantOf, usable, left, at, outcome>>

SetAttempt(r, state) == attempt' = [attempt EXCEPT ![r][at[r]] = state]

BeginObjectReadAttempt(r) ==
  LET t == NextOf(left[r])
  IN /\ pc[r] = "choosing" /\ left[r] # {}
     /\ attempt' = [attempt EXCEPT ![r][t] = "in_progress"]
     /\ at' = [at EXCEPT ![r] = t]
     /\ left' = [left EXCEPT ![r] = @ \ {t}]
     /\ pc' = [pc EXCEPT ![r] = "calling"]
     /\ UNCHANGED <<grantVars, objectVars, events, delivered, grantOf, usable, outcome,
                    serving, now, seen>>

BeginFails(r) ==
  /\ pc[r] = "choosing" /\ left[r] # {}
  /\ Disturb("database")
  /\ End(r, "error")
  /\ UNCHANGED <<grantVars, objectVars, recordVars, serving, now>>

(* No copy, or none that answered: 503.                                      *)
Exhausted(r) ==
  /\ pc[r] = "choosing" /\ left[r] = {}
  /\ End(r, "unavailable")
  /\ UNCHANGED <<grantVars, objectVars, recordVars, serving, now, seen>>

(* A HEAD compares the length and is done with the provider, a GET has a     *)
(* stream of the right length.                                               *)
ProviderAnswers(r) ==
  /\ pc[r] = "calling" /\ stored[at[r]] = "exact"
  /\ Move(r, IF r \in Heads THEN "finishing" ELSE "streaming")
  /\ UNCHANGED <<grantVars, objectVars, recordVars, serving, now, seen>>

ProviderFails(r) ==
  /\ pc[r] = "calling"
  /\ \/ stored[at[r]] # "exact" /\ UNCHANGED seen
     \/ Disturb("provider")
  /\ Move(r, "failing")
  /\ UNCHANGED <<grantVars, objectVars, recordVars, serving, now>>

(* Mutant: the next copy is tried without ending the attempt.                *)
FallBackSilently(r) ==
  /\ pc[r] = "failing"
  /\ Move(r, "choosing")
  /\ UNCHANGED <<grantVars, objectVars, recordVars, serving, now, seen>>

FallBack(r) ==
  /\ pc[r] = "failing"
  /\ SetAttempt(r, "failed")
  /\ Move(r, "choosing")
  /\ UNCHANGED <<grantVars, objectVars, events, delivered, serving, now, seen>>

(* The attempt cannot be ended, or the app may not append the event: what    *)
(* the recording throws depends on the step it was at.                       *)
RecordingFails(r) ==
  /\ \/ pc[r] \in {"failing", "undoing", "breaking", "finishing", "reporting"}
        /\ Disturb("database")
     \/ pc[r] = "reporting" /\ "app" \notin serving /\ UNCHANGED seen
  /\ IF pc[r] = "finishing" /\ r \in Heads
     THEN Move(r, "undoing")
     ELSE End(r, IF r \in Heads \/ pc[r] = "failing" THEN "error" ELSE "broken")
  /\ UNCHANGED <<grantVars, objectVars, recordVars, serving, now>>

(* A HEAD whose success was not recorded ends its attempt as failed.         *)
UndoHead(r) ==
  /\ pc[r] = "undoing"
  /\ SetAttempt(r, "failed")
  /\ End(r, "error")
  /\ UNCHANGED <<grantVars, objectVars, events, delivered, serving, now, seen>>

-----------------------------------------------------------------------------
(* The stream of a GET. Whatever comes first ends the attempt: its last      *)
(* byte, an error of the provider, or the client that goes away.             *)

StreamEnds(r) ==
  /\ pc[r] = "streaming"
  /\ Move(r, "finishing")
  /\ UNCHANGED <<grantVars, objectVars, recordVars, serving, now, seen>>

StreamBreaks(r) ==
  /\ pc[r] = "streaming"
  /\ Disturb("provider") \/ Disturb("cancel")
  /\ Move(r, "breaking")
  /\ UNCHANGED <<grantVars, objectVars, recordVars, serving, now>>

FinishBroken(r) ==
  /\ pc[r] = "breaking"
  /\ SetAttempt(r, "failed")
  /\ End(r, "broken")
  /\ UNCHANGED <<grantVars, objectVars, events, delivered, serving, now, seen>>

FinishSucceeded(r) ==
  /\ pc[r] = "finishing"
  /\ SetAttempt(r, "succeeded")
  /\ Move(r, "reporting")
  /\ UNCHANGED <<grantVars, objectVars, events, delivered, serving, now, seen>>

AppendSuccessEvent(r) ==
  /\ pc[r] = "reporting" /\ "app" \in serving
  /\ delivered' = delivered \cup {r}
  /\ End(r, "served")
  /\ UNCHANGED <<grantVars, objectVars, events, attempt, serving, now, seen>>

(* Nobody pulls the stream any more and nobody cancels it: it stays open,    *)
(* and so does its attempt.                                                  *)
Abandon(r) ==
  /\ pc[r] = "streaming"
  /\ Disturb("abandon")
  /\ End(r, "lost")
  /\ UNCHANGED <<grantVars, objectVars, recordVars, serving, now>>

InFlight(r) == pc[r] \notin {"idle", "done"}

Crash ==
  /\ \E r \in Reads : InFlight(r)
  /\ Disturb("crash")
  /\ pc' = [r \in Reads |-> IF InFlight(r) THEN "done" ELSE pc[r]]
  /\ outcome' = [r \in Reads |-> IF InFlight(r) THEN "lost" ELSE outcome[r]]
  /\ UNCHANGED <<grantVars, objectVars, recordVars, grantOf, usable, left, at, serving, now>>

-----------------------------------------------------------------------------
(* What the replica protection and the operators do meanwhile.               *)

CompleteRepair(t) ==
  /\ routed /\ t \in Peers /\ copies[t] = "pending" /\ stored[Primary] = "exact"
  /\ copies' = [copies EXCEPT ![t] = "verified"]
  /\ stored' = [stored EXCEPT ![t] = "exact"]
  /\ registry' = RegistryState(copies')
  /\ UNCHANGED <<routed, grantVars, readVars, recordVars, serving, now, seen>>

DeletePrimary ==
  /\ routed /\ Peers # {} /\ \A t \in Peers : copies[t] = "verified"
  /\ stored[Primary] = "exact"
  /\ stored' = [stored EXCEPT ![Primary] = "absent"]
  /\ UNCHANGED <<grantVars, routed, copies, registry, readVars, recordVars, serving, now, seen>>

(* The object's state is left alone.                                         *)
CompleteRetention ==
  /\ routed /\ copies[Primary] = "verified" /\ stored[Primary] = "absent"
  /\ copies' = [copies EXCEPT ![Primary] = "deleted"]
  /\ UNCHANGED <<grantVars, routed, registry, stored, readVars, recordVars, serving, now, seen>>

(* An app, a profile or a provider that is switched off.                     *)
Deactivate(row) ==
  /\ row \in serving
  /\ Disturb("inactive")
  /\ serving' = serving \ {row}
  /\ UNCHANGED <<grantVars, objectVars, readVars, recordVars, now>>

Tick ==
  /\ now < MaxTime
  /\ now' = now + 1
  /\ UNCHANGED <<grantVars, objectVars, readVars, recordVars, serving, seen>>

-----------------------------------------------------------------------------

Deliver(r) ==
  \/ GetObjectReadGrant(r) \/ ExpiresMeanwhile(r) \/ TakeSnapshot(r)
  \/ BeginObjectReadAttempt(r) \/ BeginFails(r) \/ Exhausted(r)
  \/ ProviderAnswers(r) \/ ProviderFails(r) \/ FallBack(r) \/ RecordingFails(r) \/ UndoHead(r)
  \/ StreamEnds(r) \/ StreamBreaks(r) \/ FinishBroken(r)
  \/ FinishSucceeded(r) \/ AppendSuccessEvent(r)

Idle == (\A r \in Reads : ~InFlight(r)) /\ UNCHANGED vars

Next ==
  \/ \E g \in Grants :
       \/ RevokeObjectReadGrant(g)
       \/ \E k \in Keys : IssueGrant(k, g)
       \/ \E r \in Reads : DeliverContent(r, g)
  \/ \E k \in Keys : ReplayGrant(k)
  \/ \E r \in Reads : Deliver(r) \/ Abandon(r)
  \/ \E t \in Targets : CompleteRepair(t)
  \/ DeletePrimary \/ CompleteRetention
  \/ \E row \in Rows : Deactivate(row)
  \/ Tick \/ Crash \/ Idle

Spec == Init /\ [][Next]_vars

-----------------------------------------------------------------------------
(* Properties.                                                               *)

TypeOK ==
  /\ grant \in [Grants -> GrantStates]
  /\ expiry \in [Grants -> 0..MaxTime + Ttl]
  /\ keys \in [Keys -> Grants \cup {NoGrant}]
  /\ events \subseteq {"issued", "expired", "revoked"} \X Grants
  /\ delivered \subseteq Reads
  /\ routed \in BOOLEAN
  /\ copies \in [Targets -> Route!CopyStates \cup {"deleted"}]
  /\ registry \in {"active", "degraded", "reserved"}
  /\ stored \in [Targets -> {"exact", "absent"}]
  /\ attempt \in [Reads -> [Targets -> AttemptStates]]
  /\ serving \subseteq Rows
  /\ now \in 0..MaxTime
  /\ held \subseteq Grants
  /\ pc \in [Reads -> Phases]
  /\ grantOf \in [Reads -> Grants \cup {NoGrant}]
  /\ usable \in [Reads -> SUBSET Targets]
  /\ left \in [Reads -> SUBSET Targets]
  /\ at \in [Reads -> Targets]
  /\ outcome \in [Reads -> Outcomes]
  /\ seen \subseteq {"provider", "unrecorded"}

(* Revocation and expiry are checked again at delivery time: every read is   *)
(* admitted at an instant at which its grant was neither revoked nor over,   *)
(* so that none is that begins after the client was told of the revocation.  *)
Authority(g) ==
  CASE grant[g] = "none" -> "none"
    [] grant[g] = "active" /\ ~Due(g) -> "live"
    [] OTHER -> "over"

Progress(r) ==
  CASE pc[r] = "idle" -> "idle"
    [] pc[r] = "asked" -> "waiting"
    [] pc[r] = "done" -> "ended"
    [] OTHER -> "admitted"

Abstract ==
  INSTANCE ReadAuthority
  WITH authority <- [g \in Grants |-> Authority(g)],
       reads <- [r \in Reads |-> Progress(r)],
       using <- grantOf

ImplementsReadAuthority == Abstract!Spec

(* The attempts and events tell what was delivered. An event stands for a    *)
(* succeeded attempt, which is the read's last one; a client that got its    *)
(* bytes has both; and when every recording went through, whatever the       *)
(* provider and the client did, nothing is left in progress. A grant that    *)
(* was issued or revoked has its event, one found expired may have none.     *)
Tries(r, state) == {t \in Targets : attempt[r][t] = state}

AuditTrail ==
  \A r \in Reads :
    /\ r \in delivered \/ outcome[r] = "served" => attempt[r][at[r]] = "succeeded"
    /\ (outcome[r] = "served") <=> (r \in delivered)
    /\ Tries(r, "succeeded") \cup Tries(r, "in_progress") \subseteq {at[r]}
    /\ pc[r] = "done" /\ "unrecorded" \notin seen =>
         Tries(r, "in_progress") = {}
    /\ \A g \in Grants :
         /\ (grant[g] = "revoked") <=> (<<"revoked", g>> \in events)
         /\ <<"expired", g>> \in events => grant[g] = "expired"

(* Replicas come before the primary and hot before canonical, no copy is     *)
(* passed over, and a read gives up only when each copy of its snapshot was  *)
(* tried and failed; without provider failures, because its bytes are gone.  *)
Before(s, t) ==
  \E m, n \in DOMAIN Order : m < n /\ Order[m] = s /\ Order[n] = t

FallbackIsOrderly ==
  \A r \in Reads :
    /\ \A s, t \in usable[r] :
         Before(s, t) /\ attempt[r][t] # "none" => attempt[r][s] = "failed"
    /\ outcome[r] = "unavailable" =>
         \A t \in usable[r] :
           attempt[r][t] = "failed" /\ ("provider" \notin seen => stored[t] = "absent")

=============================================================================
