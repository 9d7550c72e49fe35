--------------------- MODULE ClientConfiguration_proofs ---------------------
(***************************************************************************)
(* Proofs about ClientConfiguration, for any services, envelopes, requests,  *)
(* versions, documents, connections and tokens, in any interleaving: the     *)
(* runs look at services, versions and tokens apart from one another, and    *)
(* what is proved here holds of them together.                               *)
(***************************************************************************)
EXTENDS ClientConfiguration, StorageServices_proofs

(* The statements that editors may have carried out.                         *)
Submitted(submitted) ==
  \A c \in DOMAIN submitted : c \in Connections /\ submitted[c] \in References

RowStep ==
  \/ \E v \in Versions : \E d \in Documents : \E submitted :
       /\ Submitted(submitted)
       /\ \/ \E source \in Versions \cup {NoVersion} : InsertDraft(v, source, submitted, d)
          \/ ReplaceDraftRows(v, submitted, d)
  \/ \E v \in Versions : ActivateRows(v)
  \/ \E v \in Versions : DeleteDraftRows(v) /\ UNCHANGED reference
  \/ UNCHANGED configRows

-----------------------------------------------------------------------------
(* The rows of the configuration, what editors have read, and the tokens.    *)

(* A version has a document exactly while it exists, and its vaults are on   *)
(* connections that exist.                                                   *)
RowsOK ==
  /\ version \in [Versions -> VersionStates]
  /\ document \in [Versions -> Documents \cup {NoDocument}]
  /\ clonedFrom \in [Versions -> Versions \cup {NoVersion}]
  /\ reference \in [Connections -> References \cup {NoReference}]
  /\ \A v \in Versions :
       /\ document[v] \in Documents <=> version[v] \in {"draft", "active", "superseded"}
       /\ document[v] \in Documents =>
            \A c \in document[v].vaults : reference[c] \in References

EditOK(e) ==
  /\ e.at \in EditStages
  /\ e.version \in Versions \cup {NoVersion}
  /\ e.document \in Documents \cup {NoDocument}
  /\ e.service \in Services \cup {NoService}
  /\ Submitted(e.connections)
  /\ e.at \in {"cloning", "linking"} => e.document \in Documents
  /\ e.at \in {"sourcing", "cloning", "loading", "linking", "replacing", "checking",
               "activating"} => e.version \in Versions
  /\ e.at \in {"seeding", "creating", "sourcing", "loading", "linking"} =>
       e.service \in Services

EditsOK ==
  /\ edit = [r \in Requests |-> edit[r]]
  /\ \A r \in Requests : EditOK(edit[r])

OneActive ==
  \A u, v \in Versions : version[u] = "active" /\ version[v] = "active" => u = v

(* A token was issued or rotated to from one of its line, which is named     *)
(* for its first token.                                                      *)
TokensOK ==
  /\ token \in [Tokens -> {"none", "active", "revoked"}]
  /\ line \in [Tokens -> Tokens \cup {NoToken}]
  /\ expired \subseteq Tokens
  /\ \A t \in Tokens : token[t] # "none" => line[t] \in Tokens /\ token[line[t]] # "none"
  /\ \A t, u \in Tokens :
       token[t] = "active" /\ token[u] = "active" /\ line[t] = line[u] => t = u

ConfigOK == RowsOK /\ EditsOK /\ OneActive /\ TokensOK

LEMMA InitConfigOK == Init => ConfigOK
<1> SUFFICES ASSUME Init PROVE ConfigOK
  OBVIOUS
<1>1. RowsOK /\ OneActive
  BY ConfigurationAssumption DEF Init, RowsOK, OneActive, VersionStates
<1>2. EditOK(NoEdit)
  BY DEF NoEdit, EditOK, EditStages, Submitted
<1>3. EditsOK
  BY <1>2 DEF Init, EditsOK
<1>4. TokensOK
  BY DEF Init, TokensOK
<1> QED
  BY <1>1, <1>3, <1>4 DEF ConfigOK

LEMMA RowStepsKeepRows ==
  ASSUME RowsOK, OneActive, RowStep PROVE RowsOK' /\ OneActive'
<1>1. CASE UNCHANGED configRows
  BY <1>1 DEF configRows, RowsOK, OneActive
<1>2. ASSUME NEW v \in Versions, NEW d \in Documents, NEW submitted, Submitted(submitted),
             NEW source \in Versions \cup {NoVersion},
             InsertDraft(v, source, submitted, d) \/ ReplaceDraftRows(v, submitted, d)
      PROVE  RowsOK' /\ OneActive'
  <2>1. /\ \A u \in Versions \ {v} : version'[u] = version[u]
        /\ version'[v] = "draft" /\ version' \in [Versions -> VersionStates]
        /\ clonedFrom' \in [Versions -> Versions \cup {NoVersion}]
    BY <1>2 DEF InsertDraft, ReplaceDraftRows, RowsOK, VersionStates
  <2>2. /\ document' = [document EXCEPT ![v] = d] /\ d.vaults \subseteq DOMAIN submitted
        /\ UpsertProviderConnections(submitted)
    BY <1>2 DEF InsertDraft, ReplaceDraftRows, InsertDocument
  <2>3. /\ document' \in [Versions -> Documents \cup {NoDocument}]
        /\ document'[v] = d /\ \A u \in Versions \ {v} : document'[u] = document[u]
    BY <2>2 DEF RowsOK
  <2>4. /\ reference' \in [Connections -> References \cup {NoReference}]
        /\ \A c \in Connections : reference[c] \in References => reference'[c] \in References
        /\ \A c \in DOMAIN submitted : reference'[c] \in References
    BY <1>2, <2>2 DEF UpsertProviderConnections, Submitted, RowsOK
  <2>5. \A e \in Documents : e.vaults \subseteq Connections
    BY ConfigurationAssumption
  <2>6. \A u \in Versions : document'[u] \in Documents =>
          \A c \in document'[u].vaults : reference'[c] \in References
    BY <2>2, <2>3, <2>4, <2>5 DEF RowsOK
  <2> QED
    BY <2>1, <2>3, <2>4, <2>6 DEF RowsOK, OneActive
<1>3. ASSUME NEW v \in Versions, ActivateRows(v) PROVE RowsOK' /\ OneActive'
  <2>1. /\ version[v] = "draft" /\ UNCHANGED <<document, clonedFrom, reference>>
        /\ version' \in [Versions -> VersionStates]
        /\ version'[v] = "active"
        /\ \A u \in Versions \ {v} :
             version'[u] = IF version[u] = "active" THEN "superseded" ELSE version[u]
    BY <1>3 DEF ActivateRows, RowsOK, VersionStates
  <2> QED
    BY <2>1 DEF RowsOK, OneActive
<1>4. ASSUME NEW v \in Versions, DeleteDraftRows(v), UNCHANGED reference
      PROVE  RowsOK' /\ OneActive'
  BY <1>4, ConfigurationAssumption DEF DeleteDraftRows, RowsOK, OneActive, VersionStates
<1> QED
  BY <1>1, <1>2, <1>3, <1>4 DEF RowStep

(* A request keeps, or reads anew, what its next step needs.                 *)
LEMMA EditBecomes ==
  ASSUME EditsOK, NEW r \in Requests, NEW e, EditOK(e), edit' = [edit EXCEPT ![r] = e]
  PROVE  EditsOK'
BY DEF EditsOK, EditOK, Submitted

LEMMA LoadedIsSubmitted ==
  ASSUME RowsOK, NEW v \in Versions, Exists(v)
  PROVE  Submitted(Loaded(v)) /\ document[v] \in Documents
<1>1. document[v] \in Documents
  BY DEF RowsOK, Exists, VersionStates
<1>2. \A c \in document[v].vaults : c \in Connections /\ reference[c] \in References
  BY <1>1, ConfigurationAssumption DEF RowsOK
<1> QED
  BY <1>1, <1>2 DEF Loaded, Submitted

LEMMA DoneOK ==
  ASSUME EditsOK, NEW r \in Requests, Done(r) PROVE EditsOK'
<1>1. EditOK(NoEdit)
  BY DEF NoEdit, EditOK, EditStages, Submitted
<1> QED
  BY <1>1, EditBecomes DEF Done

LEMMA LoadOK ==
  ASSUME RowsOK, EditsOK, NEW r \in Requests, NEW v \in Versions, Exists(v),
         NEW at \in {"cloning", "linking", "replacing", "checking"},
         NEW s \in Services \cup {NoService}, at = "linking" => s \in Services,
         Load(r, v, at, s)
  PROVE  EditsOK'
<1> DEFINE e == [at |-> at, version |-> v, connections |-> Loaded(v), service |-> s,
                 document |-> IF at \in {"cloning", "linking"} THEN document[v] ELSE NoDocument]
<1>1. /\ e.at = at /\ e.version = v /\ e.connections = Loaded(v) /\ e.service = s
      /\ e.document \in Documents \cup {NoDocument}
      /\ at \in {"cloning", "linking"} => e.document \in Documents
  BY LoadedIsSubmitted
<1>2. edit' = [edit EXCEPT ![r] = e]
  BY DEF Load
<1> HIDE DEF e
<1>3. EditOK(e)
  BY <1>1, LoadedIsSubmitted DEF EditOK, EditStages
<1> QED
  BY <1>2, <1>3, EditBecomes

LEMMA ProceedOK ==
  ASSUME EditsOK, NEW r \in Requests, NEW v \in Versions \cup {NoVersion},
         NEW at \in {"creating", "sourcing", "loading", "activating"},
         at # "activating" => edit[r].service \in Services,
         at # "creating" => v \in Versions, Proceed(r, at, v)
  PROVE  EditsOK'
<1> DEFINE e == [NoEdit EXCEPT !.at = at, !.version = v, !.service = edit[r].service]
<1>1. /\ e.at = at /\ e.version = v /\ e.connections = <<>> /\ e.service = edit[r].service
      /\ e.document = NoDocument
  BY DEF NoEdit
<1>2. edit' = [edit EXCEPT ![r] = e]
  BY DEF Proceed
<1> HIDE DEF e
<1>3. edit[r].service \in Services \cup {NoService}
  BY DEF EditsOK, EditOK
<1>4. EditOK(e)
  BY <1>1, <1>3 DEF EditOK, EditStages, Submitted
<1> QED
  BY <1>2, <1>4, EditBecomes

(* Each step of an editor is a statement on rows that are fit for it.        *)
LEMMA EditSteps ==
  ASSUME RowsOK, EditsOK, NEW r \in Requests, Edit(r)
  PROVE  RowStep /\ EditsOK'
<1> DEFINE e == edit[r]
<1>0. EditOK(e)
  BY DEF EditsOK
<1>1. ASSUME CreateDraft(r) PROVE RowStep /\ EditsOK'
  <2>1. PICK v \in Versions, d \in Documents, submitted \in Submissions :
          InsertDraft(v, NoVersion, submitted, d)
    BY <1>1 DEF CreateDraft
  <2>2. Submitted(submitted)
    BY DEF Submissions, Submitted
  <2>3. UNCHANGED edit
    BY <1>1 DEF CreateDraft
  <2> QED
    BY <2>1, <2>2, <2>3 DEF RowStep, EditsOK, EditOK
<1>2. ASSUME DeleteDraft(r) PROVE RowStep /\ EditsOK'
  BY <1>2 DEF DeleteDraft, RowStep, EditsOK, EditOK
<1>3. ASSUME ReadVersion(r) PROVE RowStep /\ EditsOK'
  <2>1. PICK v \in Versions, at \in {"cloning", "replacing", "checking"} :
          Exists(v) /\ Load(r, v, at, NoService)
    BY <1>3 DEF ReadVersion
  <2> QED
    BY <1>3, <2>1, LoadOK DEF ReadVersion, RowStep
<1>4. ASSUME CloneVersion(r) PROVE RowStep /\ EditsOK'
  <2>1. PICK v \in Versions :
          /\ InsertDraft(v, e.version, e.connections, e.document)
          /\ IF e.service = NoService THEN Done(r) ELSE Proceed(r, "loading", v)
    BY <1>4 DEF CloneVersion
  <2>2. Submitted(e.connections) /\ e.document \in Documents /\ e.version \in Versions
        /\ e.service \in Services \cup {NoService}
    BY <1>0, <1>4 DEF CloneVersion, EditOK
  <2>3. RowStep
    BY <2>1, <2>2 DEF RowStep
  <2>4. EditsOK'
    BY <2>1, <2>2, DoneOK, ProceedOK
  <2> QED
    BY <2>3, <2>4
<1>5. ASSUME ReplaceDraft(r) PROVE RowStep /\ EditsOK'
  <2>1. PICK d \in Documents : ReplaceDraftRows(e.version, e.connections, d)
    BY <1>5 DEF ReplaceDraft
  <2>2. Submitted(e.connections) /\ e.version \in Versions
    BY <1>0, <1>5 DEF ReplaceDraft, EditOK
  <2>3. RowStep
    BY <2>1, <2>2 DEF RowStep
  <2> QED
    BY <1>5, <2>3, DoneOK DEF ReplaceDraft
<1>6. ASSUME AssertActivationAllowed(r) PROVE RowStep /\ EditsOK'
  <2>1. e.version \in Versions
    BY <1>0, <1>6 DEF AssertActivationAllowed, EditOK
  <2> QED
    BY <1>6, <2>1, ProceedOK DEF AssertActivationAllowed, RowStep
<1>7. ASSUME ActivateDraft(r) PROVE RowStep /\ EditsOK'
  <2>1. e.version \in Versions
    BY <1>0, <1>7 DEF ActivateDraft, EditOK
  <2> QED
    BY <1>7, <2>1, DoneOK DEF ActivateDraft, RowStep
<1>8. ASSUME SeedFirst(r) PROVE RowStep /\ EditsOK'
  <2> DEFINE submitted == [c \in {ConnectionOf[e.service]} |-> e.service]
  <2>1. e.service \in Services
    BY <1>0, <1>8 DEF SeedFirst, EditOK
  <2>2. PICK v \in Versions : InsertDraft(v, NoVersion, submitted, [vaults |-> {}, valid |-> TRUE])
    BY <1>8 DEF SeedFirst
  <2>3. Submitted(submitted)
    BY <2>1, ConfigurationAssumption DEF Submitted, References
  <2> HIDE DEF submitted
  <2>4. RowStep
    BY <2>2, <2>3, ConfigurationAssumption DEF RowStep
  <2> QED
    BY <1>8, <2>4, DoneOK DEF SeedFirst
<1>9. ASSUME SeedFromActive(r) PROVE RowStep /\ EditsOK'
  <2>1. e.version \in Versions /\ e.service \in Services /\ Exists(e.version)
    BY <1>0, <1>9 DEF SeedFromActive, EditOK
  <2> QED
    BY <1>9, <2>1, LoadOK DEF SeedFromActive, RowStep
<1>10. ASSUME LoadClone(r) PROVE RowStep /\ EditsOK'
  <2>1. e.version \in Versions /\ e.service \in Services /\ Exists(e.version)
    BY <1>0, <1>10 DEF LoadClone, EditOK
  <2>2. Done(r) \/ Load(r, e.version, "linking", e.service)
    BY <1>10 DEF LoadClone
  <2> QED
    BY <1>10, <2>1, <2>2, DoneOK, LoadOK DEF LoadClone, RowStep
<1>11. ASSUME LinkService(r) PROVE RowStep /\ EditsOK'
  <2> DEFINE c == ConnectionOf[e.service]
             linked == [x \in DOMAIN e.connections \cup {c} |->
                          IF x = c THEN e.service ELSE e.connections[x]]
  <2>1. /\ e.version \in Versions /\ e.service \in Services
        /\ Submitted(e.connections) /\ e.document \in Documents
    BY <1>0, <1>11 DEF LinkService, EditOK
  <2>2. c \in Connections
    BY <2>1, ConfigurationAssumption
  <2>3. Submitted(linked)
    BY <2>1, <2>2 DEF Submitted, References
  <2>4. ReplaceDraftRows(e.version, linked, e.document)
    BY <1>11 DEF LinkService
  <2> HIDE DEF linked
  <2>5. RowStep
    BY <2>1, <2>3, <2>4 DEF RowStep
  <2> QED
    BY <1>11, <2>5, DoneOK DEF LinkService
<1>12. ASSUME BreakEdit(r) PROVE RowStep /\ EditsOK'
  BY <1>12, DoneOK DEF BreakEdit, RowStep
<1>13. ASSUME CreateConfigurationDraft(r) PROVE RowStep /\ EditsOK'
  <2>1. PICK s \in Services :
          edit' = [edit EXCEPT ![r] = [NoEdit EXCEPT !.at = "seeding", !.service = s]]
    BY <1>13 DEF CreateConfigurationDraft
  <2>2. EditOK([NoEdit EXCEPT !.at = "seeding", !.service = s])
    BY DEF NoEdit, EditOK, EditStages, Submitted
  <2> QED
    BY <1>13, <2>1, <2>2, EditBecomes DEF CreateConfigurationDraft, RowStep
<1>14. ASSUME Overview(r) PROVE RowStep /\ EditsOK'
  <2>1. e.service \in Services
    BY <1>0, <1>14 DEF Overview, EditOK
  <2>2. Proceed(r, "creating", NoVersion) \/ \E v \in Versions : Proceed(r, "sourcing", v)
    BY <1>14 DEF Overview, ActiveVersions
  <2> QED
    BY <1>14, <2>1, <2>2, ProceedOK DEF Overview, RowStep
<1> QED
  BY <1>1, <1>2, <1>3, <1>4, <1>5, <1>6, <1>7, <1>8, <1>9, <1>10, <1>11, <1>12,
     <1>13, <1>14 DEF Edit

LEMMA TokenSteps ==
  ASSUME TokensOK, TokenStep PROVE TokensOK'
<1>1. ASSUME NEW t \in Tokens, CreateIntegrationToken(t) PROVE TokensOK'
  BY <1>1 DEF CreateIntegrationToken, TokensOK
<1>2. ASSUME NEW t \in Tokens, RevokeIntegrationToken(t) PROVE TokensOK'
  BY <1>2 DEF RevokeIntegrationToken, TokensOK
<1>3. ASSUME NEW t \in Tokens, Expire(t) PROVE TokensOK'
  BY <1>3 DEF Expire, TokensOK
<1>4. ASSUME NEW t \in Tokens, NEW next \in Tokens, RotateIntegrationToken(t, next)
      PROVE  TokensOK'
  <2>1. /\ token[t] = "active" /\ token[next] = "none" /\ t # next
        /\ token' = [token EXCEPT ![t] = "revoked", ![next] = "active"]
        /\ line' = [line EXCEPT ![next] = line[t]] /\ UNCHANGED expired
    BY <1>4 DEF RotateIntegrationToken, Authenticates
  <2>2. /\ token'[t] = "revoked" /\ token'[next] = "active"
        /\ \A u \in Tokens \ {t, next} : token'[u] = token[u]
        /\ line'[next] = line[t] /\ \A u \in Tokens \ {next} : line'[u] = line[u]
        /\ token' \in [Tokens -> {"none", "active", "revoked"}]
        /\ line' \in [Tokens -> Tokens \cup {NoToken}]
    BY <2>1 DEF TokensOK
  <2>3. line[t] \in Tokens /\ token[line[t]] # "none"
    BY <2>1 DEF TokensOK
  <2> QED
    BY <2>1, <2>2, <2>3 DEF TokensOK
<1> QED
  BY <1>1, <1>2, <1>3, <1>4 DEF TokenStep

-----------------------------------------------------------------------------
(* Everything together.                                                      *)

Inv == ServicesOK /\ SettlesOrTells /\ ConfigOK

LEMMA InitInv == Init => Inv
BY InitConfigOK, ServiceInitOK, InitSettles DEF Init, Inv

LEMMA StepsAre ==
  ASSUME Next
  PROVE  \/ TokenStep
         \/ \E r \in Requests : ServiceStep(r) /\ UNCHANGED configVars
         \/ \E r \in Requests : Edit(r)
<1>1. ASSUME NEW r \in Requests, ServeService(r) PROVE ServiceStep(r) /\ UNCHANGED configVars
  <2>1. \A s \in Services : \A inUse : DisableOrArchive(r, s, inUse) => StartsAt(r, s)
    BY DEF DisableOrArchive, StartsAt
  <2>2. \A s \in Services : Test(r, s) => StartsAt(r, s)
    BY DEF Test, StartsAt
  <2>3. \/ Continue(r)
        \/ \E s \in Services : \/ CreateClientOwned(r, s) \/ ReplaceSecret(r, s) \/ Test(r, s)
                               \/ DisableOrArchive(r, s, InUse(s))
    BY <1>1 DEF ServeService
  <2> QED
    BY <1>1, <2>1, <2>2, <2>3 DEF ServeService, ServiceStep
<1> QED
  BY <1>1 DEF Next

LEMMA ServicesStay ==
  ASSUME ServicesOK, SettlesOrTells, UNCHANGED serviceVars
  PROVE  ServicesOK' /\ SettlesOrTells'
<1> USE DEF serviceVars, serviceRows
<1>1. ServicesOK'
  BY DEF ServicesOK, ServiceTypeOK, Involved, BoundOK, KeysOK, PreviousOK, CreatingOK,
         TestingOK, RetiringOK, Storing, Replacing, Creating, Closed
<1>2. SettlesOrTells'
  BY DEF SettlesOrTells, Doomed, Settling, ReplacesCurrent, AwaitedComes, TestComes, OldGoes,
         ArchivedGoes, Storing, Replacing
<1> QED
  BY <1>1, <1>2

LEMMA ConfigStays ==
  ASSUME ConfigOK, UNCHANGED configVars PROVE ConfigOK'
<1> USE DEF configVars, configRows, tokenRows
<1>1. RowsOK' /\ OneActive' /\ TokensOK'
  BY DEF ConfigOK, RowsOK, OneActive, TokensOK
<1>2. EditsOK'
  BY DEF ConfigOK, EditsOK, EditOK
<1> QED
  BY <1>1, <1>2 DEF ConfigOK

LEMMA NextInv == Inv /\ [Next]_vars => Inv'
<1> SUFFICES ASSUME Inv, [Next]_vars PROVE Inv'
  OBVIOUS
<1>1. CASE UNCHANGED vars
  BY <1>1, ServicesStay, ConfigStays DEF vars, Inv
<1>2. CASE TokenStep
  <2>1. UNCHANGED <<serviceVars, configRows, edit>>
    BY <1>2 DEF TokenStep
  <2>2. TokensOK'
    BY <1>2, TokenSteps DEF Inv, ConfigOK
  <2>3. RowsOK' /\ OneActive'
    BY <2>1 DEF configRows, Inv, ConfigOK, RowsOK, OneActive
  <2>4. EditsOK'
    BY <2>1 DEF Inv, ConfigOK, EditsOK, EditOK
  <2> QED
    BY <2>1, <2>2, <2>3, <2>4, ServicesStay DEF Inv, ConfigOK
<1>3. ASSUME NEW r \in Requests, ServiceStep(r), UNCHANGED configVars PROVE Inv'
  BY <1>3, StepOK, StepSettles, ConfigStays DEF Inv
<1>4. ASSUME NEW r \in Requests, Edit(r) PROVE Inv'
  <2>1. UNCHANGED serviceVars /\ UNCHANGED tokenRows
    BY <1>4 DEF Edit
  <2>2. RowStep /\ EditsOK'
    BY <1>4, EditSteps DEF Inv, ConfigOK
  <2>3. RowsOK' /\ OneActive'
    BY <2>2, RowStepsKeepRows DEF Inv, ConfigOK
  <2>4. TokensOK'
    BY <2>1 DEF tokenRows, Inv, ConfigOK, TokensOK
  <2> QED
    BY <2>1, <2>2, <2>3, <2>4, ServicesStay DEF Inv, ConfigOK
<1> QED
  BY <1>1, <1>2, <1>3, <1>4, StepsAre

LEMMA InvHolds == Spec => []Inv
BY InitInv, NextInv, PTL DEF Spec

(* Every row and every request keeps its type.                               *)
THEOREM TypeCorrect == Spec => []TypeOK
<1>1. Inv => TypeOK
  BY DEF Inv, ServicesOK, ConfigOK, RowsOK, EditsOK, EditOK, Submitted, TokensOK, TypeOK
<1> QED
  BY <1>1, InvHolds, PTL

(* A service that may be used or tested has an envelope that can be opened,  *)
(* whatever requests overlap and wherever they are broken off: what a        *)
(* replacement revokes is bound nowhere any more, because an envelope is     *)
(* bound once (storage-service-application.ts:182-213).                      *)
THEOREM BoundSecretIsUsableHolds == Spec => []BoundSecretIsUsable
<1>1. Inv => BoundSecretIsUsable
  BY BoundIsUsable DEF Inv
<1> QED
  BY <1>1, InvHolds, PTL

(* Requests that were all answered without an error leave every service      *)
(* tested and with one envelope at most: what is left to do always has a     *)
(* request that will do it, and of two replacements of one envelope the      *)
(* second is refused when it revokes (storage-service-application.ts:200).   *)
THEOREM SuccessMeansSettledHolds == Spec => []SuccessMeansSettled
<1>1. Inv => SuccessMeansSettled
  BY SettledMeans DEF Inv
<1> QED
  BY <1>1, InvHolds, PTL

(* No request brings a closed service back: the CHECK that ties the dates to *)
(* the status rejects its statement (storage-service-postgres.ts:260-337).   *)
THEOREM ClosedStaysClosedHolds == Spec => ClosedStaysClosed
<1>1. Inv /\ [Next]_vars => [\A s \in Services : Closed(s) => Closed(s)']_serviceVars
  <2> SUFFICES ASSUME Inv, Next PROVE \/ \A s \in Services : Closed(s) => Closed(s)'
                                      \/ UNCHANGED serviceVars
    BY DEF vars
  <2>1. \/ UNCHANGED serviceVars
        \/ \E r \in Requests : ServiceStep(r)
    BY StepsAre DEF TokenStep, Edit
  <2> QED
    BY <2>1, StepKeepsClosed DEF Inv
<1> QED
  BY <1>1, InvHolds, PTL DEF Spec, ClosedStaysClosed

(* Of a token and those that came of it by rotation one authenticates at     *)
(* most, because a rotation revokes the active one that it replaces          *)
(* (client-storage-configuration-postgres.ts:1022-1041).                     *)
THEOREM OneTokenPerLineHolds == Spec => []OneTokenPerLine
<1>1. Inv => OneTokenPerLine
  BY DEF Inv, ConfigOK, TokensOK, OneTokenPerLine, Authenticates
<1> QED
  BY <1>1, InvHolds, PTL

-----------------------------------------------------------------------------
(* The releases.                                                             *)

ReleasedIn(versions, documents) ==
  [v \in Versions |-> IF versions[v] \in {"active", "superseded"} THEN documents[v]
                                                                  ELSE NoDocument]

CurrentIn(versions) ==
  IF {v \in Versions : versions[v] = "active"} = {} THEN NoVersion
  ELSE CHOOSE v \in Versions : versions[v] = "active"

LEMMA CurrentIsActive ==
  ASSUME NEW versions, NEW v \in Versions, versions[v] = "active",
         \A u \in Versions : versions[u] = "active" => u = v
  PROVE  CurrentIn(versions) = v
BY DEF CurrentIn

LEMMA SameActiveSameCurrent ==
  ASSUME NEW before, NEW after,
         \A v \in Versions : before[v] = "active" <=> after[v] = "active",
         \A u, v \in Versions : before[u] = "active" /\ before[v] = "active" => u = v
  PROVE  CurrentIn(before) = CurrentIn(after)
<1>1. CASE \E v \in Versions : before[v] = "active"
  <2>1. PICK v \in Versions : before[v] = "active"
    BY <1>1
  <2>2. CurrentIn(before) = v /\ CurrentIn(after) = v
    BY <2>1, CurrentIsActive
  <2> QED
    BY <2>2
<1>2. CASE ~\E v \in Versions : before[v] = "active"
  BY <1>2 DEF CurrentIn
<1> QED
  BY <1>1, <1>2

LEMMA StepImplementsReleaseHistory ==
  Inv /\ [Next]_vars => [Releases!Next]_(Releases!releaseVars)
<1> DEFINE released == ReleasedIn(version, document)
           current == CurrentIn(version)
<1> SUFFICES ASSUME Inv, [Next]_vars
             PROVE  Releases!Next \/ UNCHANGED <<current, released>>
  BY DEF Releases!releaseVars, ReleasedIn, CurrentIn, ActiveVersions
<1>0. RowsOK /\ OneActive
  BY DEF Inv, ConfigOK
<1>1. CASE UNCHANGED <<version, document>>
  BY <1>1 DEF ReleasedIn, CurrentIn
<1>2. ASSUME \A v \in Versions : version[v] = "active" <=> version'[v] = "active",
             released' = released
      PROVE  UNCHANGED <<current, released>>
  BY <1>0, <1>2, SameActiveSameCurrent DEF OneActive
<1>3. ASSUME NEW v \in Versions, NEW d \in Documents, NEW submitted,
             \/ \E source \in Versions \cup {NoVersion} : InsertDraft(v, source, submitted, d)
             \/ ReplaceDraftRows(v, submitted, d)
      PROVE  UNCHANGED <<current, released>>
  <2>1. /\ version[v] \in {"none", "draft"} /\ version'[v] = "draft"
        /\ \A u \in Versions \ {v} : version'[u] = version[u] /\ document'[u] = document[u]
    BY <1>0, <1>3 DEF InsertDraft, ReplaceDraftRows, InsertDocument, RowsOK
  <2>2. released' = released
    BY <2>1 DEF ReleasedIn
  <2> QED
    BY <1>2, <2>1, <2>2
<1>4. ASSUME NEW v \in Versions, DeleteDraftRows(v)
      PROVE  UNCHANGED <<current, released>>
  <2>1. /\ version[v] = "draft" /\ version'[v] = "deleted"
        /\ \A u \in Versions \ {v} : version'[u] = version[u] /\ document'[u] = document[u]
    BY <1>0, <1>4 DEF DeleteDraftRows, RowsOK
  <2>2. released' = released
    BY <2>1 DEF ReleasedIn
  <2> QED
    BY <1>2, <2>1, <2>2
<1>5. ASSUME NEW v \in Versions, ActivateRows(v) PROVE Releases!Next
  <2>1. /\ version[v] = "draft" /\ version'[v] = "active" /\ document' = document
        /\ \A u \in Versions \ {v} :
             version'[u] = IF version[u] = "active" THEN "superseded" ELSE version[u]
    BY <1>0, <1>5 DEF ActivateRows, RowsOK
  <2>2. PICK d \in Documents : d = document[v] /\ d.valid
    BY <1>0, <1>5, <2>1 DEF ActivateRows, IsValid, RowsOK
  <2>3. current' = v
    BY <2>1, CurrentIsActive
  <2>4. /\ released[v] = NoDocument
        /\ released' = [released EXCEPT ![v] = d]
    BY <2>1, <2>2 DEF ReleasedIn
  <2>5. Releases!Release(v, d)
    BY <2>2, <2>3, <2>4 DEF Releases!Release, ReleasedIn, CurrentIn, ActiveVersions
  <2> QED
    BY <2>2, <2>5 DEF Releases!Next
<1>6. RowStep
  <2>1. CASE UNCHANGED vars
    BY <2>1 DEF vars, configVars, RowStep
  <2>2. CASE TokenStep \/ UNCHANGED configVars
    BY <2>2 DEF TokenStep, configVars, RowStep
  <2>3. ASSUME NEW r \in Requests, Edit(r) PROVE RowStep
    BY <2>3, EditSteps DEF Inv, ConfigOK
  <2> QED
    BY <2>1, <2>2, <2>3, StepsAre
<1> QED
  BY <1>1, <1>3, <1>4, <1>5, <1>6 DEF RowStep, configRows

(* One version is in force at a time, released once and from a valid         *)
(* document, and what was released stays: each statement looks at the state  *)
(* again under the lock (client-storage-configuration-postgres.ts:761, 866). *)
THEOREM VersionsImplementReleaseHistory == Spec => ImplementsReleaseHistory
<1>1. Init => Releases!Init
  BY DEF Init, Releases!Init, ActiveVersions
<1> QED
  BY <1>1, InvHolds, StepImplementsReleaseHistory, PTL
     DEF Spec, ImplementsReleaseHistory, Releases!Spec

=============================================================================
