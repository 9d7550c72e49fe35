------------------------ MODULE ClientConfiguration ------------------------
(***************************************************************************)
(* The storage configuration of a client: versions that are drafted, edited, *)
(* activated and superseded; connections, which versions share; and the      *)
(* tokens of the client's integrations. Every change of the store is one     *)
(* transaction that holds the client's row, so it is one step here. What the *)
(* safe facade and the services do around such a transaction is not part of  *)
(* it: they read first, and write later what follows from what they read.    *)
(***************************************************************************)
EXTENDS StorageServices, Naturals

CONSTANTS
  Versions,       \* identifiers of versions, in the order they are created
  NoVersion,
  Documents,      \* what a version may hold: [vaults, valid]
  NoDocument,
  Connections,    \* connection identifiers
  ConnectionOf,   \* the connection a draft seeded from a service gets
  Managed,        \* a secret reference that is not to a storage service
  NoReference,
  Tokens,         \* identifiers of integration tokens
  NoToken

References == Services \cup {Managed}

(* A document's vaults are abstracted to the connections they are on; the    *)
(* draft with a service's connection alone has none.                         *)
ASSUME ConfigurationAssumption ==
  /\ Versions \subseteq Nat
  /\ NoVersion \notin Versions
  /\ Documents \subseteq [vaults : SUBSET Connections, valid : BOOLEAN]
  /\ [vaults |-> {}, valid |-> TRUE] \in Documents
  /\ NoDocument \notin Documents
  /\ ConnectionOf \in [Services -> Connections]
  /\ NoReference \notin References
  /\ NoToken \notin Tokens

VARIABLES
  version,      \* the state of each version's row
  document,     \* its vaults, presets and routes
  clonedFrom,   \* its cloned_from_configuration_version_id
  reference,    \* the secret_reference_id of each connection's row
  edit,         \* where each request of an editor is and what it has read
  token,        \* the status of each token's row
  line,         \* the token each token descends from by rotations
  expired       \* the lines whose expires_at has passed

configRows == <<version, document, clonedFrom, reference>>
tokenRows == <<token, line, expired>>
configVars == <<configRows, edit, tokenRows>>
vars == <<serviceVars, configVars>>

VersionStates == {"none", "draft", "active", "superseded", "deleted"}
EditStages == {"idle", "seeding", "creating", "sourcing", "cloning", "loading", "linking",
               "replacing", "checking", "activating"}

NoEdit == [at |-> "idle", version |-> NoVersion, document |-> NoDocument,
           connections |-> <<>>, service |-> NoService]

Free(r) == request[r] = Idle /\ edit[r] = NoEdit

Exists(v) == version[v] \notin {"none", "deleted"}

(* Mutant: the connections of the client are loaded, with a vault or not.    *)
LoadedAll(v) == [c \in Connections |-> reference[c]]

(* loadVersion: the connections are found through the vaults, so one that no *)
(* vault is on is not part of what is loaded.                                *)
Loaded(v) == [c \in document[v].vaults |-> reference[c]]

(* validateConfigurationDraft, on what was submitted or loaded.              *)
IsValid(d) == d.valid

ActiveVersions == {v \in Versions : version[v] = "active"}

InUse(s) ==
  \E v \in ActiveVersions : \E c \in document[v].vaults : reference[c] = s

Done(r) == edit' = [edit EXCEPT ![r] = NoEdit]

-----------------------------------------------------------------------------
(* Statements of the store's transactions.                                   *)

(* Connections are rows of the client, not of the version: an insert that    *)
(* finds one overwrites it. A trigger wants the service to exist.            *)
UpsertProviderConnections(submitted) ==
  /\ \A c \in DOMAIN submitted :
       submitted[c] \in Services => status[submitted[c]] # "none"
  /\ reference' = [c \in Connections |->
       IF c \in DOMAIN submitted THEN submitted[c] ELSE reference[c]]

InsertDocument(v, submitted, d) ==
  /\ d.vaults \subseteq DOMAIN submitted
  /\ UpsertProviderConnections(submitted)
  /\ document' = [document EXCEPT ![v] = d]

InsertDraft(v, source, submitted, d) ==
  /\ version[v] = "none" /\ \A u \in Versions : u < v => version[u] # "none"
  /\ version' = [version EXCEPT ![v] = "draft"]
  /\ clonedFrom' = [clonedFrom EXCEPT ![v] = source]
  /\ InsertDocument(v, submitted, d)

(* Mutant: the state is not looked at again under the lock.                  *)
ReplaceUnlocked(v, submitted, d) ==
  /\ Exists(v)
  /\ InsertDocument(v, submitted, d)
  /\ UNCHANGED <<version, clonedFrom>>

ReplaceDraftRows(v, submitted, d) ==
  /\ version[v] = "draft"
  /\ InsertDocument(v, submitted, d)
  /\ UNCHANGED <<version, clonedFrom>>

ActivateRows(v) ==
  /\ version[v] = "draft" /\ IsValid(document[v])
  /\ version' = [u \in Versions |->
       CASE u = v -> "active"
         [] version[u] = "active" -> "superseded"
         [] OTHER -> version[u]]
  /\ UNCHANGED <<document, clonedFrom, reference>>

-----------------------------------------------------------------------------

Init ==
  /\ ServiceInit
  /\ version = [v \in Versions |-> "none"]
  /\ document = [v \in Versions |-> NoDocument]
  /\ clonedFrom = [v \in Versions |-> NoVersion]
  /\ reference = [c \in Connections |-> NoReference]
  /\ edit = [r \in Requests |-> NoEdit]
  /\ token = [t \in Tokens |-> "none"]
  /\ line = [t \in Tokens |-> NoToken]
  /\ expired = {}

(* A step of a request to the services.                                      *)
ServeService(r) ==
  /\ edit[r] = NoEdit
  /\ \/ \E s \in Services :
          \/ CreateClientOwned(r, s) \/ ReplaceSecret(r, s) \/ Test(r, s)
          \/ DisableOrArchive(r, s, InUse(s))
     \/ Continue(r)
  /\ UNCHANGED configVars

-----------------------------------------------------------------------------
(* The editor. What a POST submits names the references of its connections;  *)
(* what a PUT submits names connections alone.                               *)

Submissions == UNION {[named -> References] : named \in SUBSET Connections}

CreateDraft(r) ==
  /\ Free(r)
  /\ \E v \in Versions : \E d \in Documents : \E submitted \in Submissions :
       InsertDraft(v, NoVersion, submitted, d)
  /\ UNCHANGED edit

(* The rows that refer to the draft go with it, but a version that was       *)
(* cloned from it keeps it (ON DELETE RESTRICT).                             *)
DeleteDraftRows(v) ==
  /\ version[v] = "draft"
  /\ \A u \in Versions : clonedFrom[u] # v
  /\ version' = [version EXCEPT ![v] = "deleted"]
  /\ document' = [document EXCEPT ![v] = NoDocument]
  /\ clonedFrom' = [clonedFrom EXCEPT ![v] = NoVersion]

DeleteDraft(r) ==
  /\ Free(r)
  /\ \E v \in Versions : DeleteDraftRows(v)
  /\ UNCHANGED <<reference, edit>>

(* The version is loaded, outside any transaction, and what follows keeps    *)
(* its connections and, to write it elsewhere, its document.                 *)
Load(r, v, at, s) ==
  edit' = [edit EXCEPT ![r] =
    [at |-> at, version |-> v, connections |-> Loaded(v), service |-> s,
     document |-> IF at \in {"cloning", "linking"} THEN document[v] ELSE NoDocument]]

(* Nothing that was loaded is needed any more.                               *)
Proceed(r, at, v) ==
  edit' = [edit EXCEPT ![r] =
    [NoEdit EXCEPT !.at = at, !.version = v, !.service = edit[r].service]]

ReadVersion(r) ==
  /\ Free(r)
  /\ \E v \in Versions : \E at \in {"cloning", "replacing", "checking"} :
       Exists(v) /\ Load(r, v, at, NoService)
  /\ UNCHANGED configRows

CloneVersion(r) ==
  LET e == edit[r]
  IN /\ e.at = "cloning" /\ Exists(e.version)
     /\ \E v \in Versions :
          /\ InsertDraft(v, e.version, e.connections, e.document)
          /\ IF e.service = NoService THEN Done(r)
             ELSE Proceed(r, "loading", v)

(* The connections are written back as they were read.                       *)
ReplaceDraft(r) ==
  LET e == edit[r]
  IN /\ e.at = "replacing"
     /\ \E d \in Documents : ReplaceDraftRows(e.version, e.connections, d)
     /\ Done(r)

AssertActivationAllowed(r) ==
  LET e == edit[r]
  IN /\ e.at = "checking"
     /\ \A c \in DOMAIN e.connections :
          e.connections[c] \in Services => status[e.connections[c]] = "ready"
     /\ Proceed(r, "activating", e.version)
     /\ UNCHANGED configRows

ActivateDraft(r) ==
  /\ edit[r].at = "activating"
  /\ ActivateRows(edit[r].version)
  /\ Done(r)

(* A draft from a service that was ready when it was read: if a version was  *)
(* active when the overview was read after that, it is cloned and the        *)
(* service's connection added to the clone; if none was, a draft with that   *)
(* connection alone is created. Either way no vault is on the connection.    *)
CreateConfigurationDraft(r) ==
  /\ Free(r)
  /\ \E s \in Services :
       /\ status[s] = "ready"
       /\ edit' = [edit EXCEPT ![r] = [NoEdit EXCEPT !.at = "seeding", !.service = s]]
  /\ UNCHANGED configRows

Overview(r) ==
  /\ edit[r].at = "seeding"
  /\ \/ ActiveVersions = {} /\ Proceed(r, "creating", NoVersion)
     \/ \E v \in ActiveVersions : Proceed(r, "sourcing", v)
  /\ UNCHANGED configRows

SeedFirst(r) ==
  LET s == edit[r].service
  IN /\ edit[r].at = "creating"
     /\ \E v \in Versions :
          InsertDraft(v, NoVersion, [c \in {ConnectionOf[s]} |-> s],
                      [vaults |-> {}, valid |-> TRUE])
     /\ Done(r)

SeedFromActive(r) ==
  LET e == edit[r]
  IN /\ e.at = "sourcing" /\ Exists(e.version)
     /\ Load(r, e.version, "cloning", e.service)
     /\ UNCHANGED configRows

LoadClone(r) ==
  LET e == edit[r]
  IN /\ e.at = "loading" /\ Exists(e.version)
     /\ IF ConnectionOf[e.service] \in document[e.version].vaults
        THEN Done(r)
        ELSE Load(r, e.version, "linking", e.service)
     /\ UNCHANGED configRows

LinkService(r) ==
  LET e == edit[r]
      c == ConnectionOf[e.service]
      linked == [x \in DOMAIN e.connections \cup {c} |->
                   IF x = c THEN e.service ELSE e.connections[x]]
  IN /\ e.at = "linking"
     /\ ReplaceDraftRows(e.version, linked, e.document)
     /\ Done(r)

(* A conflict, a refusal by the policy, an error of the database, a crash.   *)
BreakEdit(r) == edit[r] # NoEdit /\ Done(r) /\ UNCHANGED configRows

Edit(r) ==
  /\ request[r] = Idle
  /\ \/ CreateDraft(r) \/ DeleteDraft(r) \/ ReadVersion(r)
     \/ CloneVersion(r) \/ ReplaceDraft(r)
     \/ AssertActivationAllowed(r) \/ ActivateDraft(r)
     \/ CreateConfigurationDraft(r) \/ Overview(r) \/ SeedFirst(r) \/ SeedFromActive(r)
     \/ LoadClone(r) \/ LinkService(r)
     \/ BreakEdit(r)
  /\ UNCHANGED <<serviceVars, tokenRows>>

-----------------------------------------------------------------------------
(* Integration tokens. The answer of any of these may be lost.               *)

Authenticates(t) == token[t] = "active" /\ line[t] \notin expired

CreateIntegrationToken(t) ==
  /\ token[t] = "none"
  /\ token' = [token EXCEPT ![t] = "active"]
  /\ line' = [line EXCEPT ![t] = t]
  /\ UNCHANGED expired

(* Mutant: a token that was rotated or revoked may be rotated again.         *)
RotateKnown(t, next) ==
  /\ token[t] # "none" /\ line[t] \notin expired
  /\ token[next] = "none"
  /\ token' = [token EXCEPT ![t] = "revoked", ![next] = "active"]
  /\ line' = [line EXCEPT ![next] = line[t]]
  /\ UNCHANGED expired

(* The new token takes over the label, the scopes and the expiry.            *)
RotateIntegrationToken(t, next) ==
  /\ Authenticates(t) /\ token[next] = "none"
  /\ token' = [token EXCEPT ![t] = "revoked", ![next] = "active"]
  /\ line' = [line EXCEPT ![next] = line[t]]
  /\ UNCHANGED expired

RevokeIntegrationToken(t) ==
  /\ token[t] # "none"
  /\ token' = [token EXCEPT ![t] = "revoked"]
  /\ UNCHANGED <<line, expired>>

Expire(t) ==
  /\ token[t] # "none"
  /\ expired' = expired \cup {line[t]}
  /\ UNCHANGED <<token, line>>

TokenStep ==
  /\ \E t \in Tokens :
       \/ CreateIntegrationToken(t) \/ RevokeIntegrationToken(t) \/ Expire(t)
       \/ \E next \in Tokens : RotateIntegrationToken(t, next)
  /\ UNCHANGED <<serviceVars, configRows, edit>>

-----------------------------------------------------------------------------

Next == TokenStep \/ \E r \in Requests : ServeService(r) \/ Edit(r)

Spec == Init /\ [][Next]_vars

-----------------------------------------------------------------------------
(* Properties.                                                               *)

TypeOK ==
  /\ ServiceTypeOK
  /\ version \in [Versions -> VersionStates]
  /\ document \in [Versions -> Documents \cup {NoDocument}]
  /\ clonedFrom \in [Versions -> Versions \cup {NoVersion}]
  /\ reference \in [Connections -> References \cup {NoReference}]
  /\ \A r \in Requests :
       /\ edit[r].at \in EditStages
       /\ edit[r].version \in Versions \cup {NoVersion}
       /\ edit[r].document \in Documents \cup {NoDocument}
       /\ edit[r].service \in Services \cup {NoService}
       /\ \A c \in DOMAIN edit[r].connections :
            c \in Connections /\ edit[r].connections[c] \in References
  /\ token \in [Tokens -> {"none", "active", "revoked"}]
  /\ line \in [Tokens -> Tokens \cup {NoToken}]
  /\ expired \subseteq Tokens

(* However editors clone, replace, delete and activate at the same time, one *)
(* version is in force at a time, it was valid, and its document never       *)
(* changes again, nor does that of a superseded one: an edit that was read   *)
(* from a draft is refused once the draft was activated                      *)
(* (client-storage-configuration-postgres.ts:761-769, 866-903).              *)
Releases == INSTANCE ReleaseHistory WITH
  current <- IF ActiveVersions = {} THEN NoVersion
             ELSE CHOOSE v \in Versions : version[v] = "active",
  released <- [v \in Versions |->
                 IF version[v] \in {"active", "superseded"} THEN document[v] ELSE NoDocument]

ImplementsReleaseHistory == Releases!Spec

(* A token and the tokens that came of it by rotation are one authority: at  *)
(* most one of them authenticates, also when two editors rotate or revoke    *)
(* the same one (client-storage-configuration-postgres.ts:1022-1041).        *)
OneTokenPerLine ==
  \A t, u \in Tokens :
    Authenticates(t) /\ Authenticates(u) /\ line[t] = line[u] => t = u

(* The configuration in force, as uploads resolve it.                        *)
InForce == [v \in ActiveVersions |-> Loaded(v)]

(* While a version stays in force, uploads resolve it to the same            *)
(* connections: db/migrations/0005_z_s_client_storage_configuration.sql      *)
(* calls it an immutable active version.                                     *)
ActiveVersionStays ==
  [][ActiveVersions' = ActiveVersions => InForce' = InForce]_vars

=============================================================================
