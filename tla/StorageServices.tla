-------------------------- MODULE StorageServices --------------------------
(***************************************************************************)
(* The storage services a client brings: a row for each service, encrypted  *)
(* envelopes for its credentials, and requests that create a service, test   *)
(* it, replace its credentials, disable or archive it. A request is a chain  *)
(* of statements without a transaction around them, and two requests for one *)
(* service may take turns between any two of theirs.                         *)
(***************************************************************************)
CONSTANTS
  Services,    \* client-owned services of one client and environment
  NoService,
  Secrets,     \* identifiers of envelopes, random UUIDs in the code
  ServiceOf,   \* the service each identifier is stored for, if it ever is
  NoSecret,
  Requests     \* HTTP requests being handled; one that was answered may serve again

ASSUME ServiceAssumption ==
  /\ ServiceOf \in [Secrets -> Services]
  /\ NoSecret \notin Secrets
  /\ NoService \notin Services

VARIABLES
  status,     \* the status of each service's row, or "none"
  secret,     \* its active_provider_secret_id
  envelope,   \* the state of each envelope's row
  request,    \* where each request is and what it has read
  refused     \* whether a request was broken off after its first step

serviceRows == <<status, secret, envelope>>
serviceVars == <<serviceRows, request, refused>>

Statuses == {"none", "awaiting-secret", "testing", "ready", "failed", "disabled", "archived"}
EnvelopeStates == {"none", "active", "revoked"}
Stages == {"idle", "storing", "binding", "revoking", "looking", "resolving", "testing",
           "noting", "disabling", "archiving", "retiring"}

Idle == [at |-> "idle", service |-> NoService, key |-> NoSecret, previous |-> NoSecret]

Closed(s) == status[s] \in {"disabled", "archived"}

(* What the credential resolver finds for a reference to the service.        *)
Resolvable(s) ==
  /\ status[s] = "ready"
  /\ secret[s] # NoSecret /\ envelope[secret[s]] = "active"

(* The next stage, and nothing of what led to this one is needed for it.     *)
Goto(r, at) ==
  /\ request' = [request EXCEPT ![r] = [Idle EXCEPT !.at = at, !.service = request[r].service]]
  /\ UNCHANGED refused

Answer(r) == request' = [request EXCEPT ![r] = Idle] /\ UNCHANGED refused

(* An error status, or no answer at all.                                     *)
Refuse(r) == request' = [request EXCEPT ![r] = Idle] /\ refused' = TRUE

Start(r, s, at, previous) ==
  /\ request[r] = Idle
  /\ request' = [request EXCEPT ![r] =
       [at |-> at, service |-> s, key |-> NoSecret, previous |-> previous]]
  /\ UNCHANGED <<serviceRows, refused>>

ServiceInit ==
  /\ status = [s \in Services |-> "none"]
  /\ secret = [s \in Services |-> NoSecret]
  /\ envelope = [k \in Secrets |-> "none"]
  /\ request = [r \in Requests |-> Idle]
  /\ refused = FALSE

-----------------------------------------------------------------------------
(* Statements. A CHECK ties disabled_at and archived_at to the status and    *)
(* so rejects the ones that would give a closed service another status; a    *)
(* second one wants a secret for every status but awaiting-secret.           *)

SetTo(s, new) == status' = [status EXCEPT ![s] = new]

BindSecret(s, k) ==
  /\ ~Closed(s)
  /\ SetTo(s, "testing")
  /\ secret' = [secret EXCEPT ![s] = k]

(* Mutant: the row has no CHECK that keeps its status and dates together.    *)
RecordTestAnyway(s, connected) ==
  SetTo(s, IF connected THEN "ready" ELSE "failed")

RecordTest(s, connected) ==
  /\ ~Closed(s)
  /\ SetTo(s, IF connected THEN "ready" ELSE "failed")

SetStatus(s, new) == secret[s] # NoSecret /\ SetTo(s, new)

InsertEnvelope(k) == envelope[k] = "none" /\ envelope' = [envelope EXCEPT ![k] = "active"]

(* An UPDATE of an active envelope; one that finds none is answered by 404.  *)
RevokeEnvelope(k) == envelope[k] = "active" /\ envelope' = [envelope EXCEPT ![k] = "revoked"]

-----------------------------------------------------------------------------
(* The first step of each request. A request that is refused at it changes   *)
(* nothing and is left out.                                                  *)

CreateClientOwned(r, s) ==
  /\ request[r] = Idle /\ status[s] = "none"
  /\ SetTo(s, "awaiting-secret")
  /\ request' = [request EXCEPT ![r] = [Idle EXCEPT !.at = "storing", !.service = s]]
  /\ UNCHANGED <<secret, envelope, refused>>

ReplaceSecret(r, s) ==
  /\ status[s] # "none" /\ ~Closed(s) /\ secret[s] # NoSecret
  /\ Start(r, s, "storing", secret[s])

Test(r, s) == status[s] # "none" /\ Start(r, s, "looking", NoSecret)

(* The dependencies are read once; inUse says whether an active version has  *)
(* a vault on a connection of the service.                                   *)
DisableOrArchive(r, s, inUse) ==
  /\ status[s] # "none" /\ ~inUse
  /\ \E at \in {"disabling", "archiving"} : Start(r, s, at, NoSecret)

-----------------------------------------------------------------------------
(* What follows the first step.                                              *)

StoreSecret(r) ==
  /\ request[r].at = "storing"
  /\ \E k \in Secrets :
       /\ ServiceOf[k] = request[r].service
       /\ InsertEnvelope(k)
       /\ request' = [request EXCEPT ![r].at = "binding", ![r].key = k]
  /\ UNCHANGED <<status, secret, refused>>

(* Mutant: the old envelope goes before the new one is bound.                *)
BindAfterRevoking(r) ==
  LET s == request[r].service
      old == request[r].previous
  IN /\ request[r].at \in {"binding", "revoking"}
     /\ IF request[r].at = "binding" /\ old # NoSecret
        THEN /\ RevokeEnvelope(old)
             /\ request' = [request EXCEPT ![r].at = "revoking"]
             /\ UNCHANGED <<status, secret, refused>>
        ELSE BindSecret(s, request[r].key) /\ Goto(r, "looking") /\ UNCHANGED envelope

(* Mutant: a replacement forgets the envelope it replaces.                   *)
BindAndForget(r) ==
  LET s == request[r].service
  IN /\ request[r].at = "binding"
     /\ BindSecret(s, request[r].key)
     /\ Goto(r, "looking")
     /\ UNCHANGED envelope

BindStored(r) ==
  LET s == request[r].service
  IN /\ request[r].at = "binding"
     /\ BindSecret(s, request[r].key)
     /\ IF request[r].previous = NoSecret THEN Goto(r, "looking")
        ELSE request' = [request EXCEPT ![r].at = "revoking", ![r].key = NoSecret]
             /\ UNCHANGED refused
     /\ UNCHANGED envelope

RevokePrevious(r) ==
  /\ request[r].at = "revoking"
  /\ RevokeEnvelope(request[r].previous)
  /\ Goto(r, "looking")
  /\ UNCHANGED <<status, secret>>

(* The service's row and then its secret are read; a service closed between  *)
(* the two reads is found closed when the result is recorded.                *)
LookAtService(r) ==
  LET s == request[r].service
  IN /\ request[r].at = "looking"
     /\ ~Closed(s) /\ secret[s] # NoSecret
     /\ request' = [request EXCEPT ![r].at = "resolving", ![r].key = secret[s]]
     /\ UNCHANGED <<serviceRows, refused>>

ResolveSecret(r) ==
  /\ request[r].at = "resolving" /\ envelope[request[r].key] = "active"
  /\ Goto(r, "testing")
  /\ UNCHANGED serviceRows

(* The provider answers, and the result is recorded whatever has become of   *)
(* the service's secret since it was read.                                   *)
RecordResult(r) ==
  /\ request[r].at = "testing"
  /\ \E connected \in BOOLEAN : RecordTest(request[r].service, connected)
  /\ Goto(r, "noting")
  /\ UNCHANGED <<secret, envelope>>

NoteTest(r) == request[r].at = "noting" /\ Answer(r) /\ UNCHANGED serviceRows

(* An error of the activity row is taken for one of the provider, and the    *)
(* service is recorded as failed by an answer without an error.              *)
NoteFails(r) ==
  /\ request[r].at = "noting"
  /\ RecordTest(request[r].service, FALSE)
  /\ Answer(r)
  /\ UNCHANGED <<secret, envelope>>

Disable(r) ==
  /\ request[r].at = "disabling"
  /\ SetStatus(request[r].service, "disabled")
  /\ Answer(r)
  /\ UNCHANGED <<secret, envelope>>

Archive(r) ==
  /\ request[r].at = "archiving"
  /\ SetStatus(request[r].service, "archived")
  /\ Goto(r, "retiring")
  /\ UNCHANGED <<secret, envelope>>

RetireSecret(r) ==
  /\ request[r].at = "retiring"
  /\ RevokeEnvelope(secret[request[r].service])
  /\ Answer(r)
  /\ UNCHANGED <<status, secret>>

(* A step that cannot be taken answers with an error; so may any other step, *)
(* and the process may stop between any two. What was done stays.            *)
BreakOff(r) == request[r] # Idle /\ Refuse(r) /\ UNCHANGED serviceRows

Continue(r) ==
  \/ StoreSecret(r) \/ BindStored(r) \/ RevokePrevious(r)
  \/ LookAtService(r) \/ ResolveSecret(r) \/ RecordResult(r) \/ NoteTest(r) \/ NoteFails(r)
  \/ Disable(r) \/ Archive(r) \/ RetireSecret(r)
  \/ BreakOff(r)

-----------------------------------------------------------------------------
(* Invariants.                                                               *)

ServiceTypeOK ==
  /\ status \in [Services -> Statuses]
  /\ secret \in [Services -> Secrets \cup {NoSecret}]
  /\ envelope \in [Secrets -> EnvelopeStates]
  /\ request \in [Requests -> [at : Stages, service : Services \cup {NoService},
                               key : Secrets \cup {NoSecret},
                               previous : Secrets \cup {NoSecret}]]
  /\ refused \in BOOLEAN

(* As long as a service may be used or tested, the envelope bound to it can  *)
(* be opened, whatever requests overlap and wherever they are broken off: a  *)
(* replacement revokes only what it has replaced, an archive only what no    *)
(* one can bind again (storage-service-application.ts:200-202, 298-309).     *)
BoundSecretIsUsable ==
  \A s \in Services :
    /\ status[s] \in {"testing", "ready", "failed"} =>
         secret[s] \in Secrets /\ envelope[secret[s]] = "active"
    /\ status[s] = "ready" => Resolvable(s)

(* If every request got an answer that is not an error, and none is under    *)
(* way, each service has been tested and has no envelope that can be opened  *)
(* but the one bound to it, and an archived service has none. Overlapping    *)
(* replacements would leave a service in testing for good, or an envelope    *)
(* nobody revokes: one of them must be told                                  *)
(* (storage-service-application.ts:182-213, docs/storage-services.md:22).    *)
SuccessMeansSettled ==
  (~refused /\ \A r \in Requests : request[r] = Idle) =>
    \A s \in Services : status[s] # "none" =>
      LET usable == {k \in Secrets : ServiceOf[k] = s /\ envelope[k] = "active"}
      IN /\ status[s] \notin {"awaiting-secret", "testing"}
         /\ usable \subseteq {secret[s]}
         /\ status[s] = "archived" => usable = {}

(* A service that was disabled or archived is not brought back by a request  *)
(* that read it earlier: not by the result of a test that was under way, and *)
(* not by a replacement of its secret                                        *)
(* (storage-service-postgres.ts:260-337, db/migrations/0012 lines 86-87).    *)
ClosedStaysClosed ==
  [][\A s \in Services : Closed(s) => Closed(s)']_serviceVars

=============================================================================
