----------------------- MODULE StorageServices_proofs -----------------------
(***************************************************************************)
(* Proofs about StorageServices, for any services, envelopes and number of   *)
(* requests: what each request may know, which envelopes are usable, and why *)
(* requests that all succeed leave nothing behind. They are lemmas about one *)
(* step; ClientConfiguration_proofs puts them together.                      *)
(***************************************************************************)
EXTENDS StorageServices, TLAPS

Records == [at : Stages, service : Services \cup {NoService},
            key : Secrets \cup {NoSecret}, previous : Secrets \cup {NoSecret}]

(* The first step of a request that reads and writes nothing.                *)
StartsAt(r, s) ==
  status[s] # "none" /\ \E at \in {"looking", "disabling", "archiving"} : Start(r, s, at, NoSecret)

ServiceStep(r) ==
  \/ \E s \in Services : CreateClientOwned(r, s) \/ ReplaceSecret(r, s) \/ StartsAt(r, s)
  \/ Continue(r)

-----------------------------------------------------------------------------
(* What is true of the rows and of what the requests have read.              *)

Storing(r) == request[r].at \in {"storing", "binding"}

Replacing(r) ==
  request[r].at \in {"storing", "binding", "revoking"} /\ request[r].previous # NoSecret

Creating(r) == Storing(r) /\ request[r].previous = NoSecret

Involved ==
  \A r \in Requests : request[r].at # "idle" =>
    request[r].service \in Services /\ status[request[r].service] # "none"

(* A service has a secret once it has left its first state, one of its own.  *)
BoundOK ==
  \A s \in Services :
    /\ secret[s] = NoSecret <=> status[s] \in {"none", "awaiting-secret"}
    /\ secret[s] # NoSecret => ServiceOf[secret[s]] = s /\ envelope[secret[s]] # "none"
    /\ status[s] \in {"testing", "ready", "failed"} => envelope[secret[s]] = "active"

(* An envelope about to be bound is known to one request alone.              *)
KeysOK ==
  \A r \in Requests : request[r].at = "binding" =>
    /\ request[r].key \in Secrets
    /\ envelope[request[r].key] = "active" /\ ServiceOf[request[r].key] = request[r].service
    /\ \A s \in Services : secret[s] # request[r].key
    /\ \A q \in Requests \ {r} : request[q].at = "binding" => request[q].key # request[r].key

(* An envelope to be replaced is bound no more when it is revoked.           *)
PreviousOK ==
  \A r \in Requests :
    /\ Replacing(r) =>
         /\ ServiceOf[request[r].previous] = request[r].service
         /\ envelope[request[r].previous] # "none"
         /\ secret[request[r].service] # NoSecret
         /\ \A q \in Requests : request[q].at = "binding" => request[q].key # request[r].previous
    /\ request[r].at = "revoking" =>
         /\ request[r].previous # NoSecret
         /\ secret[request[r].service] # request[r].previous

CreatingOK ==
  \A r \in Requests : Creating(r) =>
    /\ status[request[r].service] = "awaiting-secret"
    /\ \A q \in Requests \ {r} : Creating(q) => request[q].service # request[r].service

TestingOK ==
  \A r \in Requests : request[r].at \in {"resolving", "testing", "noting"} =>
    secret[request[r].service] # NoSecret

RetiringOK == \A r \in Requests : request[r].at = "retiring" => Closed(request[r].service)

ServicesOK ==
  /\ ServiceTypeOK /\ Involved /\ BoundOK /\ KeysOK /\ PreviousOK
  /\ CreatingOK /\ TestingOK /\ RetiringOK

LEMMA ServiceInitOK == ServiceInit => ServicesOK
<1> SUFFICES ASSUME ServiceInit PROVE ServicesOK
  OBVIOUS
<1>1. ServiceTypeOK
  BY DEF ServiceInit, ServiceTypeOK, Idle, Stages, Statuses, EnvelopeStates
<1>2. \A r \in Requests : request[r].at = "idle"
  BY DEF ServiceInit, Idle
<1>3. BoundOK
  BY ServiceAssumption DEF ServiceInit, BoundOK
<1> QED
  BY <1>1, <1>2, <1>3
     DEF ServicesOK, Involved, KeysOK, PreviousOK, CreatingOK, TestingOK, RetiringOK, Storing,
         Replacing, Creating

(* A step changes the record of its own request.                             *)
Becomes(r, at, s, key, previous) ==
  /\ request' \in [Requests -> Records]
  /\ request'[r].at = at /\ request'[r].service = s
  /\ request'[r].key = key /\ request'[r].previous = previous
  /\ \A q \in Requests \ {r} : request'[q] = request[q]

LEMMA IdleIsARecord == Idle \in Records
BY DEF Idle, Records, Stages

LEMMA RequestsAre ==
  ASSUME ServiceTypeOK, NEW r \in Requests
  PROVE  /\ request \in [Requests -> Records]
         /\ request[r] \in Records
         /\ request[r].at \in Stages /\ request[r].service \in Services \cup {NoService}
         /\ request[r].key \in Secrets \cup {NoSecret}
         /\ request[r].previous \in Secrets \cup {NoSecret}
BY DEF ServiceTypeOK, Records

LEMMA GotoBecomes ==
  ASSUME ServiceTypeOK, NEW r \in Requests, NEW at \in Stages, Goto(r, at)
  PROVE  Becomes(r, at, request[r].service, NoSecret, NoSecret)
<1> DEFINE record == [Idle EXCEPT !.at = at, !.service = request[r].service]
<1>1. record \in Records
  BY IdleIsARecord, RequestsAre DEF Records
<1>2. /\ record.at = at /\ record.service = request[r].service
      /\ record.key = NoSecret /\ record.previous = NoSecret
  BY DEF Idle
<1>3. request' = [request EXCEPT ![r] = record]
  BY DEF Goto
<1> HIDE DEF record
<1> QED
  BY <1>1, <1>2, <1>3, RequestsAre DEF Becomes

LEMMA IdleBecomes ==
  ASSUME ServiceTypeOK, NEW r \in Requests, request' = [request EXCEPT ![r] = Idle]
  PROVE  Becomes(r, "idle", NoService, NoSecret, NoSecret)
<1>1. Idle.at = "idle" /\ Idle.service = NoService /\ Idle.key = NoSecret /\ Idle.previous = NoSecret
  BY DEF Idle
<1> QED
  BY <1>1, IdleIsARecord, RequestsAre DEF Becomes

(* What each step does to its request.                                       *)
LEMMA StartsBecome ==
  ASSUME ServiceTypeOK, NEW r \in Requests, NEW t \in Services
  PROVE  /\ CreateClientOwned(r, t) => Becomes(r, "storing", t, NoSecret, NoSecret)
         /\ ReplaceSecret(r, t) => Becomes(r, "storing", t, NoSecret, secret[t])
         /\ StartsAt(r, t) =>
              \E at \in {"looking", "disabling", "archiving"} :
                Becomes(r, at, t, NoSecret, NoSecret)
<1>1. ASSUME CreateClientOwned(r, t) PROVE Becomes(r, "storing", t, NoSecret, NoSecret)
  <2> DEFINE record == [Idle EXCEPT !.at = "storing", !.service = t]
  <2>1. record \in Records
    BY IdleIsARecord DEF Records, Stages
  <2>2. /\ record.at = "storing" /\ record.service = t
        /\ record.key = NoSecret /\ record.previous = NoSecret
    BY DEF Idle
  <2>3. request' = [request EXCEPT ![r] = record]
    BY <1>1 DEF CreateClientOwned
  <2> HIDE DEF record
  <2> QED
    BY <2>1, <2>2, <2>3, RequestsAre DEF Becomes
<1>2. ASSUME NEW at \in Stages, NEW previous \in Secrets \cup {NoSecret}, Start(r, t, at, previous)
      PROVE  Becomes(r, at, t, NoSecret, previous)
  <2> DEFINE record == [at |-> at, service |-> t, key |-> NoSecret, previous |-> previous]
  <2>1. record \in Records
    BY DEF Records
  <2>2. request' = [request EXCEPT ![r] = record]
    BY <1>2 DEF Start
  <2> QED
    BY <2>1, <2>2, RequestsAre DEF Becomes
<1>3. secret[t] \in Secrets \cup {NoSecret}
  BY DEF ServiceTypeOK
<1>4. {"storing", "looking", "disabling", "archiving"} \subseteq Stages
  BY DEF Stages
<1> QED
  BY <1>1, <1>2, <1>3, <1>4 DEF ReplaceSecret, StartsAt

LEMMA StoreBecomes ==
  ASSUME ServiceTypeOK, NEW r \in Requests, StoreSecret(r)
  PROVE  \E k \in Secrets :
           /\ ServiceOf[k] = request[r].service /\ InsertEnvelope(k)
           /\ Becomes(r, "binding", request[r].service, k, request[r].previous)
<1>1. PICK k \in Secrets :
        /\ ServiceOf[k] = request[r].service /\ InsertEnvelope(k)
        /\ request' = [request EXCEPT ![r].at = "binding", ![r].key = k]
  BY DEF StoreSecret
<1>2. Becomes(r, "binding", request[r].service, k, request[r].previous)
  BY <1>1, RequestsAre DEF Becomes, Records, Stages
<1> QED
  BY <1>1, <1>2

LEMMA BindBecomes ==
  ASSUME ServiceTypeOK, NEW r \in Requests, BindStored(r)
  PROVE  /\ request[r].previous = NoSecret =>
              Becomes(r, "looking", request[r].service, NoSecret, NoSecret)
         /\ request[r].previous # NoSecret =>
              Becomes(r, "revoking", request[r].service, NoSecret, request[r].previous)
<1>1. CASE request[r].previous = NoSecret
  BY <1>1, GotoBecomes DEF BindStored, Stages
<1>2. CASE request[r].previous # NoSecret
  <2>1. request' = [request EXCEPT ![r].at = "revoking", ![r].key = NoSecret]
    BY <1>2 DEF BindStored
  <2>2. Becomes(r, "revoking", request[r].service, NoSecret, request[r].previous)
    BY <2>1, RequestsAre DEF Becomes, Records, Stages
  <2> QED
    BY <1>2, <2>2
<1> QED
  BY <1>1, <1>2

LEMMA LookBecomes ==
  ASSUME ServiceTypeOK, Involved, NEW r \in Requests, LookAtService(r)
  PROVE  Becomes(r, "resolving", request[r].service, secret[request[r].service],
                 request[r].previous)
<1>1. /\ request[r].service \in Services
      /\ request' = [request EXCEPT ![r].at = "resolving", ![r].key = secret[request[r].service]]
  BY DEF LookAtService, Involved
<1>2. secret[request[r].service] \in Secrets \cup {NoSecret}
  BY <1>1 DEF ServiceTypeOK
<1> QED
  BY <1>1, <1>2, RequestsAre DEF Becomes, Records, Stages

LEMMA GoesOnBecomes ==
  ASSUME ServiceTypeOK, NEW r \in Requests
  PROVE  LET s == request[r].service
         IN /\ RevokePrevious(r) => Becomes(r, "looking", s, NoSecret, NoSecret)
            /\ ResolveSecret(r) => Becomes(r, "testing", s, NoSecret, NoSecret)
            /\ RecordResult(r) => Becomes(r, "noting", s, NoSecret, NoSecret)
            /\ Archive(r) => Becomes(r, "retiring", s, NoSecret, NoSecret)
            /\ NoteTest(r) \/ NoteFails(r) \/ Disable(r) \/ RetireSecret(r) \/ BreakOff(r) =>
                 Becomes(r, "idle", NoService, NoSecret, NoSecret)
<1>1. {"looking", "testing", "noting", "retiring"} \subseteq Stages
  BY DEF Stages
<1>2. ASSUME NEW at \in Stages, Goto(r, at)
      PROVE  Becomes(r, at, request[r].service, NoSecret, NoSecret)
  BY <1>2, GotoBecomes
<1>3. Answer(r) \/ Refuse(r) => Becomes(r, "idle", NoService, NoSecret, NoSecret)
  BY IdleBecomes DEF Answer, Refuse
<1> QED
  BY <1>1, <1>2, <1>3
     DEF RevokePrevious, ResolveSecret, RecordResult, Archive, NoteTest, NoteFails, Disable,
         RetireSecret, BreakOff

-----------------------------------------------------------------------------
(* Steps keep what is true of the rows and requests.                         *)

LEMMA BecomesTyped ==
  ASSUME ServiceTypeOK, NEW r \in Requests, NEW at, NEW s, NEW key, NEW previous,
         Becomes(r, at, s, key, previous),
         status' \in [Services -> Statuses],
         secret' \in [Services -> Secrets \cup {NoSecret}],
         envelope' \in [Secrets -> EnvelopeStates],
         refused' \in BOOLEAN
  PROVE  ServiceTypeOK'
BY DEF Becomes, Records, ServiceTypeOK

LEMMA RefusedTyped ==
  ASSUME ServicesOK, NEW r \in Requests, ServiceStep(r) PROVE refused' \in BOOLEAN
BY DEF ServicesOK, ServiceTypeOK, ServiceStep, Continue, CreateClientOwned, ReplaceSecret,
       StartsAt, Start, StoreSecret, BindStored, RevokePrevious, LookAtService, ResolveSecret,
       RecordResult, NoteTest, NoteFails, Disable, Archive, RetireSecret, BreakOff, Goto,
       Answer, Refuse

(* A request moves on, and no row changes.                                   *)
LEMMA MovesOK ==
  ASSUME ServicesOK, NEW r \in Requests, NEW at, NEW s, NEW key, NEW previous,
         Becomes(r, at, s, key, previous), UNCHANGED serviceRows, refused' \in BOOLEAN,
         at \notin {"binding", "revoking"},
         at # "idle" => s \in Services /\ status[s] # "none",
         at = "storing" => previous = secret[s] /\ secret[s] # NoSecret,
         at \in {"resolving", "testing", "noting"} => secret[s] # NoSecret,
         at = "retiring" => Closed(s)
  PROVE  ServicesOK'
<1> USE DEF serviceRows
<1>1. ServiceTypeOK'
  BY BecomesTyped DEF ServicesOK, ServiceTypeOK
<1>2. Involved'
  BY DEF ServicesOK, Becomes, Involved
<1>3. BoundOK'
  BY DEF ServicesOK, BoundOK
<1>4. KeysOK'
  BY DEF ServicesOK, Becomes, KeysOK
<1>5. PreviousOK'
  <2> SUFFICES ASSUME NEW q \in Requests
               PROVE  /\ Replacing(q)' =>
                           /\ ServiceOf[request'[q].previous] = request'[q].service
                           /\ envelope[request'[q].previous] # "none"
                           /\ secret[request'[q].service] # NoSecret
                           /\ \A p \in Requests : request'[p].at = "binding" =>
                                request'[p].key # request'[q].previous
                      /\ request'[q].at = "revoking" =>
                           /\ request'[q].previous # NoSecret
                           /\ secret[request'[q].service] # request'[q].previous
    BY DEF PreviousOK
  <2>1. \A p \in Requests : request'[p].at = "binding" => p # r /\ request'[p] = request[p]
    BY DEF Becomes
  <2>2. CASE q = r
    BY <2>1, <2>2 DEF ServicesOK, Becomes, Replacing, BoundOK, KeysOK
  <2>3. CASE q # r
    BY <2>1, <2>3 DEF ServicesOK, Becomes, Replacing, PreviousOK
  <2> QED
    BY <2>2, <2>3
<1>6. CreatingOK'
  BY DEF ServicesOK, Becomes, CreatingOK, Creating, Storing
<1>7. TestingOK' /\ RetiringOK'
  BY DEF ServicesOK, Becomes, TestingOK, RetiringOK, Closed
<1> QED
  BY <1>1, <1>2, <1>3, <1>4, <1>5, <1>6, <1>7 DEF ServicesOK

(* A status is recorded for a service that has a secret.                     *)
LEMMA StatusOK ==
  ASSUME ServicesOK, NEW r \in Requests, NEW at, NEW s, NEW key, NEW previous,
         Becomes(r, at, s, key, previous), UNCHANGED <<secret, envelope>>,
         refused' \in BOOLEAN,
         NEW t \in Services, NEW new \in {"ready", "failed", "disabled", "archived"},
         SetTo(t, new), secret[t] # NoSecret,
         new \in {"ready", "failed"} => ~Closed(t),
         at = "idle" \/ (at = "noting" /\ s = t /\ ~Closed(t))
                     \/ (at = "retiring" /\ s = t /\ new = "archived")
  PROVE  ServicesOK'
<1>1. /\ status' \in [Services -> Statuses]
      /\ status'[t] = new /\ \A u \in Services \ {t} : status'[u] = status[u]
  BY DEF ServicesOK, ServiceTypeOK, SetTo, Statuses
<1>2. status[t] \notin {"none", "awaiting-secret"}
  BY DEF ServicesOK, BoundOK
<1>3. ServiceTypeOK'
  BY <1>1, BecomesTyped DEF ServicesOK, ServiceTypeOK
<1>4. Involved'
  BY <1>1 DEF ServicesOK, Becomes, Involved
<1>5. BoundOK'
  <2>1. new \in {"ready", "failed"} => envelope[secret[t]] = "active"
    BY <1>1, <1>2 DEF ServicesOK, BoundOK, Closed, ServiceTypeOK, Statuses
  <2> QED
    BY <1>1, <1>2, <2>1 DEF ServicesOK, BoundOK
<1>6. KeysOK'
  BY DEF ServicesOK, Becomes, KeysOK
<1>7. PreviousOK'
  BY DEF ServicesOK, Becomes, PreviousOK, Replacing
<1>8. CreatingOK'
  BY <1>1, <1>2 DEF ServicesOK, Becomes, CreatingOK, Creating, Storing, Involved
<1>9. TestingOK'
  BY DEF ServicesOK, Becomes, TestingOK
<1>10. RetiringOK'
  <2>1. \A u \in Services : Closed(u) => Closed(u)'
    BY <1>1 DEF Closed
  <2> QED
    BY <1>1, <2>1 DEF ServicesOK, Becomes, RetiringOK, Closed, Involved
<1> QED
  BY <1>3, <1>4, <1>5, <1>6, <1>7, <1>8, <1>9, <1>10 DEF ServicesOK

(* An envelope is revoked that no service in use and no request needs.       *)
LEMMA RevokeOK ==
  ASSUME ServicesOK, NEW r \in Requests, NEW at \in {"idle", "looking"}, NEW s, NEW key,
         NEW previous, Becomes(r, at, s, key, previous),
         at # "idle" => s \in Services /\ status[s] # "none",
         UNCHANGED <<status, secret>>, refused' \in BOOLEAN,
         NEW k \in Secrets, RevokeEnvelope(k),
         \A t \in Services : secret[t] = k => Closed(t),
         \A q \in Requests \ {r} : request[q].at = "binding" => request[q].key # k
  PROVE  ServicesOK'
<1>1. /\ envelope' \in [Secrets -> EnvelopeStates]
      /\ envelope'[k] = "revoked" /\ \A l \in Secrets \ {k} : envelope'[l] = envelope[l]
  BY DEF ServicesOK, ServiceTypeOK, RevokeEnvelope, EnvelopeStates
<1>2. ServiceTypeOK'
  BY <1>1, BecomesTyped DEF ServicesOK, ServiceTypeOK
<1>3. Involved'
  BY DEF ServicesOK, Becomes, Involved
<1>4. BoundOK'
  BY <1>1 DEF ServicesOK, BoundOK, Closed, ServiceTypeOK
<1>5. KeysOK'
  BY <1>1 DEF ServicesOK, Becomes, KeysOK
<1>6. PreviousOK'
  <2>1. \A q \in Requests : request[q].previous \in Secrets \cup {NoSecret}
    BY DEF ServicesOK, ServiceTypeOK
  <2>2. \A l \in Secrets : envelope[l] # "none" => envelope'[l] # "none"
    BY <1>1
  <2> QED
    BY <2>1, <2>2 DEF ServicesOK, Becomes, PreviousOK, Replacing
<1>7. CreatingOK'
  BY DEF ServicesOK, Becomes, CreatingOK, Creating, Storing
<1>8. TestingOK' /\ RetiringOK'
  BY DEF ServicesOK, Becomes, TestingOK, RetiringOK, Closed
<1> QED
  BY <1>2, <1>3, <1>4, <1>5, <1>6, <1>7, <1>8 DEF ServicesOK

LEMMA CreateOK ==
  ASSUME ServicesOK, NEW r \in Requests, NEW t \in Services, CreateClientOwned(r, t)
  PROVE  ServicesOK'
<1>1. /\ Becomes(r, "storing", t, NoSecret, NoSecret)
      /\ status[t] = "none" /\ request[r].at = "idle"
      /\ UNCHANGED <<secret, envelope, refused>>
  <2>1. Becomes(r, "storing", t, NoSecret, NoSecret)
    BY StartsBecome DEF ServicesOK
  <2>2. Idle.at = "idle"
    BY DEF Idle
  <2> QED
    BY <2>1, <2>2 DEF CreateClientOwned
<1>2. /\ status' \in [Services -> Statuses]
      /\ status'[t] = "awaiting-secret" /\ \A u \in Services \ {t} : status'[u] = status[u]
  BY DEF ServicesOK, ServiceTypeOK, CreateClientOwned, SetTo, Statuses
<1>3. \A q \in Requests : request[q].at # "idle" => request[q].service # t
  BY <1>1 DEF ServicesOK, Involved
<1>4. ServiceTypeOK'
  BY <1>1, <1>2, BecomesTyped DEF ServicesOK, ServiceTypeOK
<1>5. Involved'
  BY <1>1, <1>2 DEF ServicesOK, Becomes, Involved
<1>6. BoundOK'
  BY <1>1, <1>2 DEF ServicesOK, BoundOK
<1>7. KeysOK'
  BY <1>1 DEF ServicesOK, Becomes, KeysOK
<1>8. PreviousOK'
  BY <1>1 DEF ServicesOK, Becomes, PreviousOK, Replacing
<1>9. CreatingOK'
  BY <1>1, <1>2, <1>3 DEF ServicesOK, Becomes, CreatingOK, Creating, Storing, Involved
<1>10. TestingOK' /\ RetiringOK'
  BY <1>1, <1>2, <1>3 DEF ServicesOK, Becomes, TestingOK, RetiringOK, Closed, Involved
<1> QED
  BY <1>4, <1>5, <1>6, <1>7, <1>8, <1>9, <1>10 DEF ServicesOK

LEMMA StoreOK ==
  ASSUME ServicesOK, NEW r \in Requests, StoreSecret(r) PROVE ServicesOK'
<1>1. PICK k \in Secrets :
        /\ ServiceOf[k] = request[r].service /\ InsertEnvelope(k)
        /\ Becomes(r, "binding", request[r].service, k, request[r].previous)
  BY StoreBecomes DEF ServicesOK
<1>2. /\ envelope' \in [Secrets -> EnvelopeStates] /\ envelope[k] = "none"
      /\ envelope'[k] = "active" /\ \A l \in Secrets \ {k} : envelope'[l] = envelope[l]
  BY <1>1 DEF ServicesOK, ServiceTypeOK, InsertEnvelope, EnvelopeStates
<1>3. request[r].at = "storing" /\ UNCHANGED <<status, secret, refused>>
  BY DEF StoreSecret
<1>4. ServiceTypeOK'
  BY <1>1, <1>2, <1>3, BecomesTyped DEF ServicesOK, ServiceTypeOK
<1>5. Involved'
  BY <1>1, <1>3 DEF ServicesOK, Becomes, Involved
<1>6. BoundOK'
  BY <1>2, <1>3 DEF ServicesOK, BoundOK, ServiceTypeOK
<1>7. \A s \in Services : secret[s] # k
  BY <1>2, ServiceAssumption DEF ServicesOK, BoundOK, ServiceTypeOK
<1>8. /\ \A q \in Requests : request[q].at = "binding" => request[q].key # k
      /\ \A q \in Requests : Replacing(q) => request[q].previous # k
  BY <1>2 DEF ServicesOK, KeysOK, PreviousOK
<1>9. KeysOK'
  BY <1>1, <1>2, <1>3, <1>7, <1>8 DEF ServicesOK, Becomes, KeysOK
<1>10. PreviousOK'
  <2>1. \A q \in Requests : /\ Replacing(q)' => Replacing(q)
                            /\ request'[q].previous = request[q].previous
                            /\ request'[q].service = request[q].service
                            /\ request'[q].at = "revoking" => request[q].at = "revoking"
    BY <1>1, <1>3 DEF Becomes, Replacing
  <2>2. \A q \in Requests : request'[q].at = "binding" =>
          IF q = r THEN request'[q].key = k
                   ELSE request[q].at = "binding" /\ request'[q].key = request[q].key
    BY <1>1 DEF Becomes
  <2>3. \A q \in Requests : Replacing(q) => request[q].previous \in Secrets \ {k}
    BY <1>8 DEF ServicesOK, ServiceTypeOK, Replacing
  <2> QED
    BY <1>2, <1>3, <2>1, <2>2, <2>3 DEF ServicesOK, PreviousOK
<1>11. CreatingOK'
  BY <1>1, <1>3 DEF ServicesOK, Becomes, CreatingOK, Creating, Storing
<1>12. TestingOK' /\ RetiringOK'
  BY <1>1, <1>3 DEF ServicesOK, Becomes, TestingOK, RetiringOK, Closed
<1> QED
  BY <1>4, <1>5, <1>6, <1>9, <1>10, <1>11, <1>12 DEF ServicesOK

LEMMA BindOK ==
  ASSUME ServicesOK, NEW r \in Requests, BindStored(r), refused' \in BOOLEAN
  PROVE  ServicesOK'
<1> DEFINE s == request[r].service
           k == request[r].key
<1>1. /\ request[r].at = "binding" /\ ~Closed(s) /\ UNCHANGED envelope
      /\ status' = [status EXCEPT ![s] = "testing"]
      /\ secret' = [secret EXCEPT ![s] = k]
  BY DEF BindStored, BindSecret, SetTo
<1>2. /\ s \in Services /\ k \in Secrets /\ envelope[k] = "active" /\ ServiceOf[k] = s
      /\ \A t \in Services : secret[t] # k
      /\ \A q \in Requests \ {r} : request[q].at = "binding" => request[q].key # k
      /\ k # NoSecret /\ status[s] # "none"
  BY <1>1, ServiceAssumption DEF ServicesOK, KeysOK, Involved
<1>3. /\ status' \in [Services -> Statuses] /\ secret' \in [Services -> Secrets \cup {NoSecret}]
      /\ status'[s] = "testing" /\ secret'[s] = k
      /\ \A t \in Services \ {s} : status'[t] = status[t] /\ secret'[t] = secret[t]
  BY <1>1, <1>2 DEF ServicesOK, ServiceTypeOK, Statuses
<1>4. PICK at \in {"looking", "revoking"} :
        /\ \E previous : Becomes(r, at, s, NoSecret, previous)
        /\ at = "revoking" => /\ request[r].previous # NoSecret
                              /\ request'[r].previous = request[r].previous
  BY BindBecomes DEF ServicesOK, Becomes
<1>5. /\ request'[r].at = at /\ request'[r].service = s
      /\ \A q \in Requests \ {r} : request'[q] = request[q]
  BY <1>4 DEF Becomes
<1> HIDE DEF s, k
<1>6. ServiceTypeOK'
  BY <1>1, <1>3, <1>4, BecomesTyped DEF ServicesOK, ServiceTypeOK
<1>7. Involved'
  BY <1>2, <1>3, <1>5 DEF ServicesOK, Involved
<1>8. BoundOK'
  BY <1>1, <1>2, <1>3 DEF ServicesOK, BoundOK
<1>9. KeysOK'
  <2>1. \A q \in Requests : request'[q].at = "binding" => q # r /\ request'[q] = request[q]
    BY <1>5
  <2> QED
    BY <1>1, <1>2, <1>3, <2>1 DEF ServicesOK, KeysOK
<1>10. PreviousOK'
  <2> SUFFICES ASSUME NEW q \in Requests
               PROVE  /\ Replacing(q)' =>
                           /\ ServiceOf[request'[q].previous] = request'[q].service
                           /\ envelope[request'[q].previous] # "none"
                           /\ secret'[request'[q].service] # NoSecret
                           /\ \A p \in Requests : request'[p].at = "binding" =>
                                request'[p].key # request'[q].previous
                      /\ request'[q].at = "revoking" =>
                           /\ request'[q].previous # NoSecret
                           /\ secret'[request'[q].service] # request'[q].previous
    BY <1>1 DEF PreviousOK
  <2>1. \A p \in Requests : request'[p].at = "binding" => p # r /\ request'[p] = request[p]
    BY <1>5
  <2>2. Replacing(q)' =>
          /\ Replacing(q) /\ request'[q].previous = request[q].previous
          /\ request'[q].service = request[q].service
    BY <1>1, <1>4, <1>5 DEF Replacing, s
  <2>3. request'[q].at = "revoking" => Replacing(q)'
    BY <1>4, <1>5 DEF ServicesOK, PreviousOK, Replacing
  <2>4. Replacing(q) => /\ request[q].previous # k
                        /\ request[q].previous # NoSecret
                        /\ secret'[request[q].service] # NoSecret
    BY <1>1, <1>2, <1>3 DEF ServicesOK, PreviousOK, Replacing, Involved, k
  <2>5. request'[q].at = "revoking" => secret'[request[q].service] # request[q].previous
    <3>1. CASE request[q].service = s
      BY <1>3, <2>2, <2>3, <2>4, <3>1
    <3>2. CASE request[q].service # s
      BY <1>3, <1>5, <2>2, <2>3, <3>2 DEF ServicesOK, PreviousOK, Involved
    <3> QED
      BY <3>1, <3>2
  <2> QED
    BY <2>1, <2>2, <2>3, <2>4, <2>5 DEF ServicesOK, PreviousOK
<1>11. CreatingOK'
  <2>1. \A q \in Requests : Creating(q)' => q # r /\ Creating(q) /\ request'[q] = request[q]
    BY <1>4, <1>5 DEF Creating, Storing
  <2>2. \A q \in Requests \ {r} : Creating(q) => request[q].service \in Services \ {s}
    <3> SUFFICES ASSUME NEW q \in Requests \ {r}, Creating(q), request[q].service = s
                 PROVE  FALSE
      BY DEF ServicesOK, Involved, Creating, Storing
    <3>1. status[s] = "awaiting-secret" /\ secret[s] = NoSecret
      BY <1>2 DEF ServicesOK, CreatingOK, BoundOK
    <3>2. ~Creating(r)
      BY DEF ServicesOK, CreatingOK, s
    <3>3. Replacing(r)
      BY <1>1, <3>2 DEF Creating, Storing, Replacing
    <3> QED
      BY <3>1, <3>3 DEF ServicesOK, PreviousOK, s
  <2> QED
    BY <1>3, <2>1, <2>2 DEF ServicesOK, CreatingOK
<1>12. TestingOK'
  BY <1>2, <1>3, <1>4, <1>5 DEF ServicesOK, TestingOK, Involved
<1>13. RetiringOK'
  BY <1>1, <1>3, <1>4, <1>5 DEF ServicesOK, RetiringOK, Closed, Involved
<1> QED
  BY <1>6, <1>7, <1>8, <1>9, <1>10, <1>11, <1>12, <1>13 DEF ServicesOK

LEMMA StepOK ==
  ASSUME ServicesOK, NEW r \in Requests, ServiceStep(r) PROVE ServicesOK'
<1> DEFINE s == request[r].service
<1>0. refused' \in BOOLEAN
  BY RefusedTyped
<1>1. ASSUME NEW t \in Services, ReplaceSecret(r, t) \/ StartsAt(r, t) PROVE ServicesOK'
  <2>1. /\ status[t] # "none" /\ UNCHANGED serviceRows
        /\ ReplaceSecret(r, t) => secret[t] # NoSecret
    BY <1>1 DEF ReplaceSecret, StartsAt, Start
  <2>2. \/ Becomes(r, "storing", t, NoSecret, secret[t]) /\ secret[t] # NoSecret
        \/ \E at \in {"looking", "disabling", "archiving"} :
             Becomes(r, at, t, NoSecret, NoSecret)
    BY <1>1, <2>1, StartsBecome DEF ServicesOK
  <2> QED
    BY <1>0, <2>1, <2>2, MovesOK
<1>2. request[r].at # "idle" => s \in Services /\ status[s] # "none"
  BY DEF ServicesOK, Involved
<1>3. ASSUME LookAtService(r) PROVE ServicesOK'
  <2>1. /\ Becomes(r, "resolving", s, secret[s], request[r].previous)
        /\ UNCHANGED serviceRows /\ secret[s] # NoSecret /\ request[r].at # "idle"
    BY <1>3, LookBecomes DEF ServicesOK, LookAtService
  <2> QED
    BY <1>0, <1>2, <2>1, MovesOK
<1>4. ASSUME ResolveSecret(r) PROVE ServicesOK'
  <2>1. /\ Becomes(r, "testing", s, NoSecret, NoSecret)
        /\ UNCHANGED serviceRows /\ secret[s] # NoSecret /\ request[r].at # "idle"
    BY <1>4, GoesOnBecomes DEF ServicesOK, ResolveSecret, TestingOK
  <2> QED
    BY <1>0, <1>2, <2>1, MovesOK
<1>5. ASSUME NoteTest(r) \/ BreakOff(r) PROVE ServicesOK'
  <2>1. Becomes(r, "idle", NoService, NoSecret, NoSecret) /\ UNCHANGED serviceRows
    BY <1>5, GoesOnBecomes DEF ServicesOK, NoteTest, BreakOff
  <2> QED
    BY <1>0, <2>1, MovesOK
<1>6. ASSUME RecordResult(r) PROVE ServicesOK'
  <2>1. /\ Becomes(r, "noting", s, NoSecret, NoSecret) /\ UNCHANGED <<secret, envelope>>
        /\ secret[s] # NoSecret /\ ~Closed(s) /\ request[r].at # "idle"
        /\ \E new \in {"ready", "failed", "disabled", "archived"} :
             SetTo(s, new) /\ new \in {"ready", "failed"}
    BY <1>6, GoesOnBecomes DEF ServicesOK, RecordResult, RecordTest, TestingOK
  <2> QED
    BY <1>0, <1>2, <2>1, StatusOK
<1>7. ASSUME NoteFails(r) PROVE ServicesOK'
  <2>1. /\ Becomes(r, "idle", NoService, NoSecret, NoSecret) /\ UNCHANGED <<secret, envelope>>
        /\ secret[s] # NoSecret /\ ~Closed(s) /\ request[r].at # "idle"
        /\ SetTo(s, "failed")
    BY <1>7, GoesOnBecomes DEF ServicesOK, NoteFails, RecordTest, TestingOK
  <2> QED
    BY <1>0, <1>2, <2>1, StatusOK
<1>8. ASSUME Disable(r) PROVE ServicesOK'
  <2>1. /\ Becomes(r, "idle", NoService, NoSecret, NoSecret) /\ UNCHANGED <<secret, envelope>>
        /\ secret[s] # NoSecret /\ request[r].at # "idle" /\ SetTo(s, "disabled")
    BY <1>8, GoesOnBecomes DEF ServicesOK, Disable, SetStatus
  <2> QED
    BY <1>0, <1>2, <2>1, StatusOK
<1>9. ASSUME Archive(r) PROVE ServicesOK'
  <2>1. /\ Becomes(r, "retiring", s, NoSecret, NoSecret) /\ UNCHANGED <<secret, envelope>>
        /\ secret[s] # NoSecret /\ request[r].at # "idle" /\ SetTo(s, "archived")
    BY <1>9, GoesOnBecomes DEF ServicesOK, Archive, SetStatus
  <2> QED
    BY <1>0, <1>2, <2>1, StatusOK
<1>10. ASSUME RevokePrevious(r) PROVE ServicesOK'
  <2> DEFINE k == request[r].previous
  <2>1. /\ Becomes(r, "looking", s, NoSecret, NoSecret) /\ UNCHANGED <<status, secret>>
        /\ request[r].at = "revoking" /\ RevokeEnvelope(k)
    BY <1>10, GoesOnBecomes DEF ServicesOK, RevokePrevious
  <2>2. /\ Replacing(r) /\ k # NoSecret /\ secret[s] # k /\ ServiceOf[k] = s
        /\ \A q \in Requests : request[q].at = "binding" => request[q].key # k
    BY <2>1 DEF ServicesOK, PreviousOK, Replacing
  <2>3. k \in Secrets
    BY <2>2, RequestsAre DEF ServicesOK
  <2>4. \A t \in Services : secret[t] # k
    BY <2>2 DEF ServicesOK, BoundOK
  <2> HIDE DEF k, s
  <2> QED
    BY <1>0, <1>2, <2>1, <2>2, <2>3, <2>4, RevokeOK DEF s
<1>11. ASSUME RetireSecret(r) PROVE ServicesOK'
  <2> DEFINE k == secret[s]
  <2>1. /\ Becomes(r, "idle", NoService, NoSecret, NoSecret) /\ UNCHANGED <<status, secret>>
        /\ request[r].at = "retiring" /\ RevokeEnvelope(k)
    BY <1>11, GoesOnBecomes DEF ServicesOK, RetireSecret
  <2>2. s \in Services /\ Closed(s)
    BY <1>2, <2>1 DEF ServicesOK, RetiringOK
  <2>3. k \in Secrets /\ ServiceOf[k] = s
    BY <2>2 DEF ServicesOK, BoundOK, Closed, ServiceTypeOK
  <2>4. \A t \in Services : secret[t] = k => Closed(t)
    BY <2>2, <2>3, ServiceAssumption DEF ServicesOK, BoundOK
  <2>5. \A q \in Requests : request[q].at = "binding" => request[q].key # k
    BY <2>2 DEF ServicesOK, KeysOK
  <2> HIDE DEF k, s
  <2> QED
    BY <1>0, <2>1, <2>3, <2>4, <2>5, RevokeOK
<1>12. \/ \E t \in Services : CreateClientOwned(r, t)
       \/ \E t \in Services : ReplaceSecret(r, t) \/ StartsAt(r, t)
       \/ StoreSecret(r) \/ BindStored(r) \/ RevokePrevious(r) \/ LookAtService(r)
       \/ ResolveSecret(r) \/ RecordResult(r) \/ NoteTest(r) \/ NoteFails(r) \/ Disable(r)
       \/ Archive(r) \/ RetireSecret(r) \/ BreakOff(r)
  BY DEF ServiceStep, Continue
<1> QED
  BY <1>0, <1>1, <1>3, <1>4, <1>5, <1>6, <1>7, <1>8, <1>9, <1>10, <1>11, <1>12,
     CreateOK, StoreOK, BindOK

-----------------------------------------------------------------------------
(* What follows for the services.                                            *)

LEMMA BoundIsUsable == ServicesOK => BoundSecretIsUsable
<1> SUFFICES ASSUME ServicesOK, NEW s \in Services, status[s] \in {"testing", "ready", "failed"}
             PROVE  secret[s] \in Secrets /\ envelope[secret[s]] = "active"
  BY ServiceAssumption DEF BoundSecretIsUsable, Resolvable
<1> QED
  BY DEF ServicesOK, BoundOK, ServiceTypeOK

LEMMA StepKeepsClosed ==
  ASSUME ServicesOK, NEW r \in Requests, ServiceStep(r)
  PROVE  \A s \in Services : Closed(s) => Closed(s)'
<1>1. CASE UNCHANGED status
  BY <1>1 DEF Closed
<1>2. ASSUME NEW t, NEW new, SetTo(t, new), ~Closed(t) \/ new \in {"disabled", "archived"}
      PROVE  \A s \in Services : Closed(s) => Closed(s)'
  BY <1>2 DEF SetTo, Closed, ServicesOK, ServiceTypeOK
<1>3. \/ UNCHANGED status
      \/ \E t, new : SetTo(t, new) /\ (~Closed(t) \/ new \in {"disabled", "archived"})
  BY DEF ServiceStep, Continue, CreateClientOwned, ReplaceSecret, StartsAt, Start, StoreSecret,
         BindStored, BindSecret, RevokePrevious, LookAtService, ResolveSecret, RecordResult,
         RecordTest, NoteTest, NoteFails, Disable, Archive, SetStatus, RetireSecret, BreakOff,
         Closed, serviceRows
<1> QED
  BY <1>1, <1>2, <1>3

-----------------------------------------------------------------------------
(* Why requests that all succeed leave the services settled: each step left  *)
(* to do has a request that will do it, unless two requests overlap in a way *)
(* that one of them cannot survive.                                          *)

(* A replacement whose old envelope somebody else has revoked, or two with   *)
(* the same old envelope: one is going to find it revoked and be refused.    *)
Doomed ==
  \/ \E r \in Requests : Replacing(r) /\ envelope[request[r].previous] = "revoked"
  \/ \E p, q \in Requests :
       p # q /\ Replacing(p) /\ Replacing(q) /\ request[p].previous = request[q].previous

ReplacesCurrent ==
  \A r \in Requests : Storing(r) /\ Replacing(r) =>
    request[r].previous = secret[request[r].service]

AwaitedComes ==
  \A s \in Services : status[s] = "awaiting-secret" =>
    \E r \in Requests : Storing(r) /\ request[r].service = s

TestComes ==
  \A s \in Services : status[s] = "testing" =>
    \E r \in Requests : /\ request[r].at \in {"revoking", "looking", "resolving", "testing"}
                        /\ request[r].service = s

OldGoes ==
  \A k \in Secrets : envelope[k] = "active" =>
    \/ secret[ServiceOf[k]] = k
    \/ \E r \in Requests : \/ request[r].at = "binding" /\ request[r].key = k
                           \/ request[r].at = "revoking" /\ request[r].previous = k

ArchivedGoes ==
  \A s \in Services : status[s] = "archived" =>
    \/ envelope[secret[s]] # "active"
    \/ \E r \in Requests : request[r].at = "retiring" /\ request[r].service = s

Settling == ReplacesCurrent /\ AwaitedComes /\ TestComes /\ OldGoes /\ ArchivedGoes

SettlesOrTells == refused \/ Doomed \/ Settling

LEMMA InitSettles == ServiceInit => SettlesOrTells
<1> SUFFICES ASSUME ServiceInit PROVE Settling
  BY DEF SettlesOrTells
<1>1. \A r \in Requests : request[r].at = "idle"
  BY DEF ServiceInit, Idle
<1> QED
  BY <1>1 DEF ServiceInit, Settling, ReplacesCurrent, AwaitedComes, TestComes, OldGoes,
              ArchivedGoes, Storing

LEMMA SettledMeans == SettlesOrTells => SuccessMeansSettled
<1> SUFFICES ASSUME SettlesOrTells, ~refused, \A r \in Requests : request[r] = Idle,
                    NEW s \in Services, status[s] # "none"
             PROVE  LET usable == {k \in Secrets : ServiceOf[k] = s /\ envelope[k] = "active"}
                    IN /\ status[s] \notin {"awaiting-secret", "testing"}
                       /\ usable \subseteq {secret[s]}
                       /\ status[s] = "archived" => usable = {}
  BY DEF SuccessMeansSettled
<1>1. \A r \in Requests : request[r].at = "idle"
  BY DEF Idle
<1>2. Settling
  BY <1>1 DEF SettlesOrTells, Doomed, Replacing
<1>3. status[s] \notin {"awaiting-secret", "testing"}
  BY <1>1, <1>2 DEF Settling, AwaitedComes, TestComes, Storing
<1>4. \A k \in Secrets : envelope[k] = "active" => secret[ServiceOf[k]] = k
  BY <1>1, <1>2 DEF Settling, OldGoes
<1>5. status[s] = "archived" => envelope[secret[s]] # "active"
  BY <1>1, <1>2 DEF Settling, ArchivedGoes
<1> QED
  BY <1>3, <1>4, <1>5

LEMMA RefusedStays ==
  ASSUME ServicesOK, NEW r \in Requests, ServiceStep(r), ~refused'
  PROVE  ~refused /\ ~BreakOff(r)
BY DEF ServicesOK, ServiceTypeOK, ServiceStep, Continue, CreateClientOwned, ReplaceSecret,
       StartsAt, Start, StoreSecret, BindStored, RevokePrevious, LookAtService, ResolveSecret,
       RecordResult, NoteTest, NoteFails, Disable, Archive, RetireSecret, BreakOff, Goto,
       Answer, Refuse

LEMMA DoomedStays ==
  ASSUME ServicesOK, NEW r \in Requests, ServiceStep(r), ~BreakOff(r), Doomed
  PROVE  Doomed'
<1>1. \A q \in Requests \ {r} : request'[q] = request[q]
  <2>1. \E at, s, key, previous : Becomes(r, at, s, key, previous)
    BY StartsBecome, StoreBecomes, BindBecomes, LookBecomes, GoesOnBecomes
       DEF ServicesOK, ServiceStep, Continue
  <2> QED
    BY <2>1 DEF Becomes
<1>2. Replacing(r) => StoreSecret(r) \/ BindStored(r) \/ RevokePrevious(r)
  <2>1. \A t \in Services : ReplaceSecret(r, t) \/ CreateClientOwned(r, t) \/ StartsAt(r, t) =>
          request[r].at = "idle"
    BY DEF ReplaceSecret, CreateClientOwned, StartsAt, Start, Idle
  <2> QED
    BY <2>1
       DEF ServiceStep, Continue, Replacing, LookAtService, ResolveSecret, RecordResult,
           NoteTest, NoteFails, Disable, Archive, RetireSecret
<1>3. StoreSecret(r) \/ BindStored(r) =>
        (Replacing(r) => Replacing(r)' /\ request'[r].previous = request[r].previous)
  BY StoreBecomes, BindBecomes DEF ServicesOK, Replacing, Becomes
<1>4. \A k \in Secrets : envelope[k] = "revoked" => envelope'[k] = "revoked"
  <2>1. \/ UNCHANGED envelope
        \/ \E k \in Secrets : InsertEnvelope(k)
        \/ \E k : RevokeEnvelope(k)
    BY DEF ServiceStep, Continue, CreateClientOwned, ReplaceSecret, StartsAt, Start,
           StoreSecret, BindStored, RevokePrevious, LookAtService, ResolveSecret, RecordResult,
           NoteTest, NoteFails, Disable, Archive, RetireSecret, BreakOff, serviceRows
  <2> QED
    BY <2>1 DEF InsertEnvelope, RevokeEnvelope, ServicesOK, ServiceTypeOK
<1>5. \A q \in Requests : Replacing(q) => request[q].previous \in Secrets
  BY DEF ServicesOK, ServiceTypeOK, Replacing
<1>6. CASE RevokePrevious(r)
  <2>1. /\ request[r].previous \in Secrets
        /\ envelope[request[r].previous] = "active"
        /\ envelope'[request[r].previous] = "revoked"
    <3>1. Replacing(r)
      BY <1>6 DEF RevokePrevious, Replacing, ServicesOK, PreviousOK
    <3> QED
      BY <1>5, <1>6, <3>1 DEF RevokePrevious, RevokeEnvelope, ServicesOK, ServiceTypeOK
  <2>2. \A q \in Requests \ {r} : Replacing(q) =>
          Replacing(q)' /\ request'[q].previous = request[q].previous
    BY <1>1 DEF Replacing
  <2>3. CASE \E q \in Requests \ {r} :
              Replacing(q) /\ envelope'[request[q].previous] = "revoked"
    BY <2>2, <2>3 DEF Doomed
  <2>4. CASE \E p, q \in Requests \ {r} :
              p # q /\ Replacing(p) /\ Replacing(q) /\ request[p].previous = request[q].previous
    BY <2>2, <2>4 DEF Doomed
  <2> QED
    BY <1>4, <1>5, <2>1, <2>3, <2>4 DEF Doomed
<1>7. CASE ~RevokePrevious(r)
  <2>1. \A q \in Requests : Replacing(q) =>
          Replacing(q)' /\ request'[q].previous = request[q].previous
    BY <1>1, <1>2, <1>3, <1>7 DEF Replacing
  <2> QED
    BY <1>4, <1>5, <2>1 DEF Doomed
<1> QED
  BY <1>6, <1>7

(* Steps that leave the rows alone.                                          *)
LEMMA MovesSettle ==
  ASSUME Settling, NEW r \in Requests, NEW at, NEW s, NEW key, NEW previous,
         Becomes(r, at, s, key, previous), UNCHANGED serviceRows,
         request[r].at \notin {"storing", "binding", "revoking", "testing", "retiring"},
         request[r].at \in {"looking", "resolving"} =>
           at \in {"resolving", "testing"} /\ s = request[r].service,
         at # "binding",
         at = "storing" => previous = secret[s]
  PROVE  Settling'
<1> USE DEF serviceRows
<1>1. \A q \in Requests :
        request[q].at \in {"storing", "binding", "revoking", "testing", "retiring"} =>
          request'[q] = request[q]
  BY DEF Becomes
<1>2. ReplacesCurrent'
  BY DEF Settling, Becomes, ReplacesCurrent, Storing, Replacing
<1>3. AwaitedComes'
  BY <1>1 DEF Settling, AwaitedComes, Storing
<1>4. TestComes'
  <2>1. \A q \in Requests :
          request[q].at \in {"revoking", "looking", "resolving", "testing"} =>
            /\ request'[q].at \in {"revoking", "looking", "resolving", "testing"}
            /\ request'[q].service = request[q].service
    BY DEF Becomes
  <2> QED
    BY <2>1 DEF Settling, TestComes
<1>5. OldGoes' /\ ArchivedGoes'
  BY <1>1 DEF Settling, OldGoes, ArchivedGoes
<1> QED
  BY <1>2, <1>3, <1>4, <1>5 DEF Settling

(* Steps that record a status.                                               *)
LEMMA StatusSettles ==
  ASSUME ServicesOK, Settling, NEW r \in Requests, NEW at, NEW s, NEW key, NEW previous,
         Becomes(r, at, s, key, previous), UNCHANGED <<secret, envelope>>,
         NEW t \in Services, NEW new \in {"ready", "failed", "disabled", "archived"},
         SetTo(t, new), request[r].service = t,
         request[r].at \in {"testing", "noting", "disabling", "archiving"},
         at \in {"idle", "noting"} \/ (at = "retiring" /\ s = t),
         new = "archived" => at = "retiring"
  PROVE  Settling'
<1>1. /\ status'[t] = new /\ \A u \in Services \ {t} : status'[u] = status[u]
  BY DEF ServicesOK, ServiceTypeOK, SetTo
<1>2. \A q \in Requests :
        \/ request[q].service = t /\ request[q].at \notin {"storing", "binding", "revoking", "retiring"}
        \/ request'[q] = request[q]
  BY DEF Becomes
<1>3. ReplacesCurrent'
  BY DEF Settling, Becomes, ReplacesCurrent, Storing, Replacing
<1>4. AwaitedComes' /\ TestComes'
  BY <1>1, <1>2 DEF Settling, AwaitedComes, TestComes, Storing
<1>5. OldGoes'
  BY <1>2 DEF Settling, OldGoes
<1>6. ArchivedGoes'
  <2>1. CASE new = "archived"
    BY <1>1, <1>2, <2>1 DEF Becomes, Settling, ArchivedGoes
  <2>2. CASE new # "archived"
    BY <1>1, <1>2, <2>2 DEF Settling, ArchivedGoes
  <2> QED
    BY <2>1, <2>2
<1> QED
  BY <1>3, <1>4, <1>5, <1>6 DEF Settling

LEMMA CreateSettles ==
  ASSUME ServicesOK, Settling, NEW r \in Requests, NEW t \in Services, CreateClientOwned(r, t)
  PROVE  Settling'
<1>1. Becomes(r, "storing", t, NoSecret, NoSecret)
  BY StartsBecome DEF ServicesOK
<1>2. /\ request[r].at = "idle" /\ UNCHANGED <<secret, envelope>>
      /\ status'[t] = "awaiting-secret" /\ \A u \in Services \ {t} : status'[u] = status[u]
  BY DEF ServicesOK, ServiceTypeOK, CreateClientOwned, SetTo, Idle
<1>3. \A q \in Requests : request[q].at # "idle" => request'[q] = request[q]
  BY <1>1, <1>2 DEF Becomes
<1>4. ReplacesCurrent'
  BY <1>1, <1>2 DEF Settling, Becomes, ReplacesCurrent, Storing, Replacing
<1>5. AwaitedComes' /\ TestComes'
  BY <1>1, <1>2, <1>3 DEF Settling, Becomes, AwaitedComes, TestComes, Storing
<1>6. OldGoes' /\ ArchivedGoes'
  BY <1>2, <1>3 DEF Settling, OldGoes, ArchivedGoes
<1> QED
  BY <1>4, <1>5, <1>6 DEF Settling

LEMMA StoreSettles ==
  ASSUME ServicesOK, Settling, NEW r \in Requests, StoreSecret(r)
  PROVE  Settling'
<1>1. PICK k \in Secrets :
        /\ ServiceOf[k] = request[r].service /\ InsertEnvelope(k)
        /\ Becomes(r, "binding", request[r].service, k, request[r].previous)
  BY StoreBecomes DEF ServicesOK
<1>2. /\ envelope[k] = "none" /\ envelope'[k] = "active"
      /\ \A l \in Secrets \ {k} : envelope'[l] = envelope[l]
      /\ request[r].at = "storing" /\ UNCHANGED <<status, secret>>
  BY <1>1 DEF ServicesOK, ServiceTypeOK, InsertEnvelope, StoreSecret
<1>3. \A q \in Requests :
        /\ request'[q].service = request[q].service
        /\ request'[q].previous = request[q].previous
        /\ Storing(q)' <=> Storing(q)
        /\ request[q].at # "storing" => request'[q] = request[q]
  BY <1>1, <1>2 DEF Becomes, Storing
<1>4. ReplacesCurrent'
  BY <1>2, <1>3 DEF Settling, ReplacesCurrent, Storing, Replacing
<1>5. AwaitedComes' /\ TestComes'
  BY <1>2, <1>3 DEF Settling, AwaitedComes, TestComes
<1>6. OldGoes'
  BY <1>1, <1>2, <1>3 DEF Settling, Becomes, OldGoes
<1>7. ArchivedGoes'
  BY <1>2, <1>3, ServiceAssumption
     DEF Settling, ArchivedGoes, ServicesOK, BoundOK, ServiceTypeOK
<1> QED
  BY <1>4, <1>5, <1>6, <1>7 DEF Settling

LEMMA BindSettles ==
  ASSUME ServicesOK, Settling, ~Doomed, NEW r \in Requests, BindStored(r)
  PROVE  Settling'
<1> DEFINE s == request[r].service
           k == request[r].key
           old == request[r].previous
<1>1. /\ request[r].at = "binding" /\ UNCHANGED envelope
      /\ s \in Services /\ k \in Secrets /\ ServiceOf[k] = s
  BY DEF BindStored, ServicesOK, Involved, KeysOK
<1>2. /\ status'[s] = "testing" /\ secret'[s] = k
      /\ \A t \in Services \ {s} : status'[t] = status[t] /\ secret'[t] = secret[t]
  BY <1>1 DEF BindStored, BindSecret, SetTo, ServicesOK, ServiceTypeOK
<1>3. /\ request'[r].at = IF old = NoSecret THEN "looking" ELSE "revoking"
      /\ request'[r].service = s /\ request'[r].previous = old
      /\ \A q \in Requests \ {r} : request'[q] = request[q]
  BY BindBecomes DEF ServicesOK, Becomes
<1>4. secret[s] = old
  BY <1>1
     DEF ServicesOK, CreatingOK, Creating, BoundOK, Settling, ReplacesCurrent, Replacing, Storing
<1> HIDE DEF s, k, old
<1>5. ReplacesCurrent'
  <2> SUFFICES ASSUME NEW q \in Requests, Storing(q)', Replacing(q)'
               PROVE  request'[q].previous = secret'[request'[q].service]
    BY DEF ReplacesCurrent
  <2>1. q # r /\ request'[q] = request[q] /\ Storing(q) /\ Replacing(q)
    BY <1>3 DEF Storing, Replacing
  <2>2. request[q].previous = secret[request[q].service] /\ request[q].service \in Services
    BY <2>1 DEF Settling, ReplacesCurrent, ServicesOK, Involved, Storing
  <2>3. request[q].service # s
    <3> SUFFICES ASSUME request[q].service = s PROVE FALSE
      OBVIOUS
    <3>1. request[q].previous = old /\ old # NoSecret
      BY <1>4, <2>1, <2>2 DEF Replacing
    <3>2. Replacing(r)
      BY <1>1, <3>1 DEF Replacing, old
    <3> QED
      BY <2>1, <3>1, <3>2 DEF Doomed, old
  <2> QED
    BY <1>2, <2>1, <2>2, <2>3
<1>6. AwaitedComes'
  <2>1. \A q \in Requests : Storing(q) /\ request[q].service # s => Storing(q)' /\ q # r
    BY <1>3 DEF Storing, s
  <2> QED
    BY <1>2, <1>3, <2>1 DEF Settling, AwaitedComes
<1>7. TestComes'
  BY <1>1, <1>2, <1>3 DEF Settling, TestComes, s
<1>8. OldGoes'
  <2> SUFFICES ASSUME NEW l \in Secrets, envelope[l] = "active", l # k
               PROVE  \/ secret'[ServiceOf[l]] = l
                      \/ \E q \in Requests :
                           \/ request'[q].at = "binding" /\ request'[q].key = l
                           \/ request'[q].at = "revoking" /\ request'[q].previous = l
    BY <1>1, <1>2 DEF OldGoes
  <2>1. CASE secret[ServiceOf[l]] = l /\ ServiceOf[l] = s
    <3>1. l = old /\ old # NoSecret
      BY <1>4, <2>1, ServiceAssumption
    <3> QED
      BY <1>3, <3>1
  <2>2. CASE secret[ServiceOf[l]] = l /\ ServiceOf[l] # s
    BY <1>2, <2>2, ServiceAssumption
  <2>3. ASSUME NEW q \in Requests,
               \/ request[q].at = "binding" /\ request[q].key = l
               \/ request[q].at = "revoking" /\ request[q].previous = l
        PROVE  request'[q] = request[q]
    BY <1>1, <1>3, <2>3 DEF k
  <2> QED
    BY <2>1, <2>2, <2>3 DEF Settling, OldGoes
<1>9. ArchivedGoes'
  BY <1>1, <1>2, <1>3 DEF Settling, ArchivedGoes
<1> QED
  BY <1>5, <1>6, <1>7, <1>8, <1>9 DEF Settling

LEMMA RevokeSettles ==
  ASSUME ServicesOK, Settling, NEW r \in Requests, RevokePrevious(r)
  PROVE  Settling'
<1>1. /\ Becomes(r, "looking", request[r].service, NoSecret, NoSecret)
      /\ request[r].at = "revoking" /\ UNCHANGED <<status, secret>>
      /\ RevokeEnvelope(request[r].previous)
  BY GoesOnBecomes DEF ServicesOK, RevokePrevious
<1>2. /\ envelope'[request[r].previous] # "active"
      /\ \A l \in Secrets : envelope'[l] = "active" => envelope[l] = "active"
      /\ \A l \in Secrets \ {request[r].previous} : envelope'[l] = envelope[l]
      /\ request[r].previous \in Secrets
  <2>1. request[r].previous \in Secrets
    BY <1>1, RequestsAre DEF ServicesOK, PreviousOK
  <2> QED
    BY <1>1, <2>1 DEF RevokeEnvelope, ServicesOK, ServiceTypeOK
<1>3. \A q \in Requests \ {r} : request'[q] = request[q]
  BY <1>1 DEF Becomes
<1>4. ReplacesCurrent' /\ AwaitedComes'
  BY <1>1 DEF Settling, Becomes, ReplacesCurrent, AwaitedComes, Storing, Replacing
<1>5. TestComes'
  BY <1>1 DEF Settling, Becomes, TestComes
<1>6. OldGoes'
  BY <1>1, <1>2, <1>3 DEF Settling, OldGoes
<1>7. ArchivedGoes'
  <2>1. \A s \in Services : secret[s] \in Secrets /\ envelope[secret[s]] # "active" =>
          envelope'[secret[s]] # "active"
    BY <1>2
  <2>2. \A s \in Services : status[s] = "archived" => secret[s] \in Secrets
    BY DEF ServicesOK, ServiceTypeOK, BoundOK
  <2> QED
    BY <1>1, <1>3, <2>1, <2>2 DEF Settling, ArchivedGoes
<1> QED
  BY <1>4, <1>5, <1>6, <1>7 DEF Settling

LEMMA RetireSettles ==
  ASSUME ServicesOK, Settling, NEW r \in Requests, RetireSecret(r)
  PROVE  Settling'
<1> DEFINE s == request[r].service
<1>1. /\ Becomes(r, "idle", NoService, NoSecret, NoSecret)
      /\ request[r].at = "retiring" /\ UNCHANGED <<status, secret>>
      /\ RevokeEnvelope(secret[s]) /\ s \in Services
  BY GoesOnBecomes DEF ServicesOK, RetireSecret, Involved
<1>2. secret[s] \in Secrets
  BY <1>1 DEF ServicesOK, ServiceTypeOK, RetiringOK, BoundOK, Closed
<1>3. /\ envelope'[secret[s]] = "revoked"
      /\ \A l \in Secrets \ {secret[s]} : envelope'[l] = envelope[l]
  BY <1>1, <1>2 DEF RevokeEnvelope, ServicesOK, ServiceTypeOK
<1>4. \A q \in Requests \ {r} : request'[q] = request[q]
  BY <1>1 DEF Becomes
<1>5. ReplacesCurrent' /\ AwaitedComes' /\ TestComes'
  BY <1>1 DEF Settling, Becomes, ReplacesCurrent, AwaitedComes, TestComes, Storing, Replacing
<1>6. OldGoes'
  BY <1>1, <1>2, <1>3, <1>4 DEF Settling, OldGoes
<1>7. ArchivedGoes'
  <2>1. \A t \in Services : status[t] = "archived" => secret[t] \in Secrets
    BY DEF ServicesOK, ServiceTypeOK, BoundOK
  <2> QED
    BY <1>1, <1>2, <1>3, <1>4, <2>1 DEF Settling, ArchivedGoes
<1> QED
  BY <1>5, <1>6, <1>7 DEF Settling

LEMMA StepSettles ==
  ASSUME ServicesOK, SettlesOrTells, NEW r \in Requests, ServiceStep(r)
  PROVE  SettlesOrTells'
<1> SUFFICES ASSUME ~refused', ~Doomed' PROVE Settling'
  BY DEF SettlesOrTells
<1>1. ~BreakOff(r) /\ ~Doomed /\ Settling
  BY RefusedStays, DoomedStays DEF SettlesOrTells
<1>2. Idle.at = "idle"
  BY DEF Idle
<1>3. ASSUME NEW t \in Services, ReplaceSecret(r, t) \/ StartsAt(r, t) PROVE Settling'
  <2>1. request[r].at = "idle" /\ UNCHANGED serviceRows
    BY <1>2, <1>3 DEF ReplaceSecret, StartsAt, Start
  <2>2. \/ Becomes(r, "storing", t, NoSecret, secret[t])
        \/ \E at \in {"looking", "disabling", "archiving"} :
             Becomes(r, at, t, NoSecret, NoSecret)
    BY <1>3, StartsBecome DEF ServicesOK
  <2> QED
    BY <1>1, <2>1, <2>2, MovesSettle
<1>4. ASSUME LookAtService(r) PROVE Settling'
  BY <1>1, <1>4, LookBecomes, MovesSettle DEF ServicesOK, LookAtService
<1>5. ASSUME ResolveSecret(r) PROVE Settling'
  BY <1>1, <1>5, GoesOnBecomes, MovesSettle DEF ServicesOK, ResolveSecret
<1>6. ASSUME NoteTest(r) PROVE Settling'
  BY <1>1, <1>6, GoesOnBecomes, MovesSettle DEF ServicesOK, NoteTest
<1>7. ASSUME RecordResult(r) \/ NoteFails(r) \/ Disable(r) \/ Archive(r) PROVE Settling'
  <2> DEFINE s == request[r].service
  <2>1. /\ request[r].at \in {"testing", "noting", "disabling", "archiving"}
        /\ s \in Services /\ UNCHANGED <<secret, envelope>>
    BY <1>7 DEF RecordResult, NoteFails, Disable, Archive, ServicesOK, Involved
  <2>2. CASE Archive(r)
    BY <1>1, <2>1, <2>2, GoesOnBecomes, StatusSettles DEF ServicesOK, Archive, SetStatus
  <2>3. CASE RecordResult(r) \/ NoteFails(r) \/ Disable(r)
    <3>1. \E at \in {"idle", "noting"} : \E t : Becomes(r, at, t, NoSecret, NoSecret)
      BY <2>3, GoesOnBecomes DEF ServicesOK
    <3>2. \E new \in {"ready", "failed", "disabled"} : SetTo(s, new)
      BY <2>3 DEF RecordResult, RecordTest, NoteFails, Disable, SetStatus
    <3> QED
      BY <1>1, <2>1, <3>1, <3>2, StatusSettles
  <2> QED
    BY <1>7, <2>2, <2>3
<1>8. \/ \E t \in Services : CreateClientOwned(r, t)
      \/ \E t \in Services : ReplaceSecret(r, t) \/ StartsAt(r, t)
      \/ StoreSecret(r) \/ BindStored(r) \/ RevokePrevious(r) \/ LookAtService(r)
      \/ ResolveSecret(r) \/ RecordResult(r) \/ NoteTest(r) \/ NoteFails(r) \/ Disable(r)
      \/ Archive(r) \/ RetireSecret(r)
  BY <1>1 DEF ServiceStep, Continue
<1> QED
  BY <1>1, <1>3, <1>4, <1>5, <1>6, <1>7, <1>8, CreateSettles, StoreSettles, BindSettles,
     RevokeSettles, RetireSettles

=============================================================================
