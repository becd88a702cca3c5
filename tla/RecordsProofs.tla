--------------------------- MODULE RecordsProofs ---------------------------
(***************************************************************************)
(* Proofs about what MCRecords puts together: leases of credentials,       *)
(* buttons of notifications and the rate limiter, the others being the     *)
(* subject of RowsProofs, and about the whole.                             *)
(***************************************************************************)
EXTENDS RowsProofs, MCRecords, NaturalsInduction, WellFoundedInduction

----------------------------------------------------------------------------
(***************************************************************************)
(* Leases of credentials, for any number of requests and leases.           *)
(***************************************************************************)
RequestState ==
    [pc : {"idle", "resolve", "envelope", "insert", "answer"}, ttl : Nat, issued : Nat,
     token : Nat, told : Nat, lease : Nat]

\* What is about to be told keeps to the token and to the time to live, and what is about to be
\* answered has its lease.
RequestFits(r) ==
    /\ r.pc \in {"insert", "answer"} =>
          /\ r.token > 0 => r.told <= r.token
          /\ r.told <= instant + r.ttl
    /\ r.pc = "answer" /\ incidentStored =>
          /\ r.lease \in DOMAIN leases
          /\ leases[r.lease].issued = r.issued /\ leases[r.lease].expires = r.issued + r.ttl

LeasesInv == LeasesTypeOK /\ SecretsHaveLeases /\ \A q \in LeaseRequests : RequestFits(leaseReq[q])

\* Time goes on, and a lease keeps its times for as long as the incident is there.
Lasting ==
    /\ instant <= instant'
    /\ incidentStored' =>
          /\ incidentStored
          /\ \A l \in DOMAIN leases :
                /\ l \in DOMAIN leases'
                /\ leases'[l].issued = leases[l].issued /\ leases'[l].expires = leases[l].expires

\* The least element of a set of numbers.
LEMMA MinIsLeast ==
    ASSUME NEW S \in SUBSET Nat, S # {}
    PROVE  Min(S) \in S /\ \A y \in S : Min(S) <= y
<1>1. IsWellFoundedOn({ss \in Nat \X Nat : ss[1] < ss[2]}, Nat)
  BY NatLessThanWellFounded DEF OpToRel
<1>2. PICK x \in S : \A y \in S : ~(<<y, x>> \in {ss \in Nat \X Nat : ss[1] < ss[2]})
  BY <1>1, WFMin
<1>3. \A y \in S : x <= y
  <2> SUFFICES ASSUME NEW y \in S PROVE x <= y
    OBVIOUS
  <2>1. ~(y < x) /\ x \in Nat /\ y \in Nat
    BY <1>2
  <2> QED
    BY <2>1
<1> QED
  BY <1>3 DEF Min

LEMMA CappedIsWithin ==
    ASSUME NEW ttl \in Nat, NEW cap \in Nat
    PROVE  Capped(ttl, cap) \in Nat /\ Capped(ttl, cap) <= ttl /\ (cap > 0 => Capped(ttl, cap) <= cap)
BY DEF Capped

LEMMA FirstSetIsSet ==
    ASSUME NEW a \in Nat, NEW b \in Nat, NEW c \in Nat \ {0}
    PROVE  FirstSet(<<a, b, c>>) \in Nat
<1> DEFINE S == {k \in DOMAIN <<a, b, c>> : <<a, b, c>>[k] > 0}
<1>1. S \in SUBSET Nat /\ 3 \in S
  OBVIOUS
<1>2. Min(S) \in S
  BY <1>1, MinIsLeast
<1>3. \A k \in S : <<a, b, c>>[k] \in Nat
  OBVIOUS
<1> QED
  BY <1>2, <1>3 DEF FirstSet

LEMMA IdleFits == IdleRequest \in RequestState /\ IdleRequest.pc = "idle" /\ RequestFits(IdleRequest)
BY DEF IdleRequest, RequestState, RequestFits

LEMMA LeasesInitInv == LeasesInit => LeasesInv
<1> SUFFICES ASSUME LeasesInit PROVE LeasesInv
  OBVIOUS
<1>1. MaxRowEdits \in Nat /\ MaxInstant \in Nat
  BY CredentialsAssumption
<1>2. leaseReq \in [LeaseRequests -> RequestState] /\ \A q \in LeaseRequests : leaseReq[q] = IdleRequest
  BY IdleFits DEF LeasesInit
<1>3. LeasesTypeOK
  BY <1>1, <1>2 DEF LeasesInit, LeasesTypeOK, RequestState
<1>4. SecretsHaveLeases
  BY DEF LeasesInit, SecretsHaveLeases
<1> QED
  BY <1>2, <1>3, <1>4, IdleFits DEF LeasesInv

\* What fits goes on to fit.
LEMMA FittingLasts ==
    ASSUME LeasesTypeOK, LeasesTypeOK', Lasting, NEW r \in RequestState, RequestFits(r)
    PROVE  RequestFits(r)'
<1>1. /\ instant \in Nat /\ instant' \in Nat /\ instant <= instant' /\ r.ttl \in Nat /\ r.told \in Nat
      /\ r.token \in Nat
  BY CredentialsAssumption DEF LeasesTypeOK, Lasting, RequestState
<1> QED
  BY <1>1 DEF RequestFits, Lasting

\* What has been answered goes on to be accounted for.
LEMMA AnswersLast ==
    ASSUME LeasesTypeOK, SecretsHaveLeases, Lasting, handedOut' = handedOut
    PROVE  SecretsHaveLeases'
BY DEF SecretsHaveLeases, Lasting

\* A step that moves no request.
LEMMA RestKeeps ==
    ASSUME LeasesInv, LeasesTypeOK', Lasting, UNCHANGED <<leaseReq, handedOut>>
    PROVE  LeasesInv'
<1>1. \A q \in LeaseRequests : leaseReq[q] \in RequestState /\ RequestFits(leaseReq[q])
  BY DEF LeasesInv, LeasesTypeOK, RequestState
<1>2. \A q \in LeaseRequests : RequestFits(leaseReq[q])'
  BY <1>1, FittingLasts DEF LeasesInv
<1> QED
  BY <1>2, AnswersLast DEF LeasesInv

\* A step that moves one request.
LEMMA RequestKeeps ==
    ASSUME LeasesInv, NEW q \in LeaseRequests, NEW to \in RequestState, RequestMoves(q, to),
           Lasting, leases' \in Seq(Lease), handedOut' \subseteq Secret, SecretsHaveLeases',
           RequestFits(to)'
    PROVE  LeasesInv'
<1>0. leaseReq \in [LeaseRequests -> RequestState]
  BY DEF LeasesInv, LeasesTypeOK, RequestState
<1>1. /\ leaseReq' \in [LeaseRequests -> RequestState] /\ leaseReq'[q] = to
      /\ \A r \in LeaseRequests : r # q => leaseReq'[r] = leaseReq[r]
  BY <1>0 DEF RequestMoves
<1>2. LeasesTypeOK'
  BY <1>1 DEF LeasesInv, LeasesTypeOK, RequestMoves, RequestState
<1>3. ASSUME NEW r \in LeaseRequests
      PROVE  RequestFits(leaseReq[r])'
  <2>1. CASE r = q
    BY <1>1, <2>1 DEF RequestFits
  <2>2. CASE r # q
    <3>1. PICK v : v = leaseReq[r]
      OBVIOUS
    <3>2. v \in RequestState /\ RequestFits(v)
      BY <1>0, <3>1 DEF LeasesInv
    <3>3. RequestFits(v)'
      BY <1>2, <3>2, FittingLasts DEF LeasesInv
    <3>4. leaseReq'[r] = v
      BY <1>1, <2>2, <3>1
    <3> QED
      BY <3>3, <3>4 DEF RequestFits
  <2> QED
    BY <2>1, <2>2
<1> QED
  BY <1>2, <1>3 DEF LeasesInv

LEMMA LeasesKeep ==
    ASSUME LeasesInv, [LeasesNext]_leaseVars
    PROVE  LeasesInv'
<1>0. /\ leaseReq \in [LeaseRequests -> RequestState] /\ leases \in Seq(Lease) /\ providerType \in ProviderTypes
      /\ credential \in Credential \union {NoRow} /\ TTLs \subseteq Nat /\ MaxRowEdits \in Nat
      /\ rowEdits \in 0 .. MaxRowEdits /\ MaxInstant \in Nat /\ instant \in 0 .. MaxInstant /\ instant \in Nat
      /\ incidentStored \in BOOLEAN /\ handedOut \subseteq Secret
  BY CredentialsAssumption DEF LeasesInv, LeasesTypeOK, RequestState
<1>q. \A q \in LeaseRequests : leaseReq[q] \in RequestState /\ RequestFits(leaseReq[q])
  BY <1>0 DEF LeasesInv
<1>s. ASSUME UNCHANGED <<instant, incidentStored, leases>> PROVE Lasting
  BY <1>0, <1>s DEF Lasting
\* The steps of a request that store and answer nothing.
<1>m. ASSUME NEW q \in LeaseRequests, NEW to \in RequestState, RequestMoves(q, to),
             UNCHANGED <<leases, handedOut>>, RequestFits(to)
      PROVE  LeasesInv'
  <2>1. UNCHANGED <<instant, incidentStored>>
    BY <1>m DEF RequestMoves
  <2>2. Lasting
    BY <1>m, <1>s, <2>1
  <2>3. SecretsHaveLeases'
    BY <1>m, <2>2, AnswersLast DEF LeasesInv
  <2>4. RequestFits(to)'
    BY <1>m, <2>1 DEF RequestFits
  <2> QED
    BY <1>0, <1>m, <2>2, <2>3, <2>4, RequestKeeps
\* The edits of rows.
<1>e. ASSUME EditsRow, providerType' \in ProviderTypes, credential' \in Credential \union {NoRow}
      PROVE  LeasesInv'
  <2>1. rowEdits' \in 0 .. MaxRowEdits /\ UNCHANGED <<instant, incidentStored, leases, leaseReq, handedOut>>
    BY <1>0, <1>e DEF EditsRow
  <2>2. LeasesTypeOK'
    BY <1>e, <2>1 DEF LeasesInv, LeasesTypeOK
  <2> QED
    BY <1>s, <2>1, <2>2, RestKeeps
<1>1. CASE InstantPasses
  <2>1. instant' = instant + 1 /\ instant < MaxInstant
        /\ UNCHANGED <<providerType, credential, incidentStored, leases, leaseReq, handedOut, rowEdits>>
    BY <1>1 DEF InstantPasses
  <2>2. LeasesTypeOK'
    BY <1>0, <2>1 DEF LeasesInv, LeasesTypeOK
  <2>3. Lasting
    BY <1>0, <2>1 DEF Lasting
  <2> QED
    BY <2>1, <2>2, <2>3, RestKeeps
<1>2. ASSUME NEW type \in ProviderTypes, UpdateProvider(type)
      PROVE  LeasesInv'
  BY <1>0, <1>2, <1>e DEF UpdateProvider
<1>3. ASSUME NEW default \in TTLs, NEW cap \in TTLs, UpdateResourceCredential(default, cap)
      PROVE  LeasesInv'
  <2>1. [default |-> default, cap |-> cap] \in Credential
    BY DEF Credential
  <2> QED
    BY <1>0, <1>3, <1>e, <2>1 DEF UpdateResourceCredential
<1>4. CASE DeleteResourceCredential
  BY <1>0, <1>4, <1>e DEF DeleteResourceCredential
<1>5. CASE DeleteIncident
  <2>1. incidentStored' = FALSE /\ leases' = <<>>
        /\ UNCHANGED <<instant, providerType, credential, leaseReq, handedOut, rowEdits>>
    BY <1>5 DEF DeleteIncident
  <2>2. LeasesTypeOK'
    <3>1. leases' \in Seq(Lease)
      BY <2>1
    <3>2. incidentStored' \in BOOLEAN
      BY <2>1, Zenon
    <3> QED
      BY <2>1, <3>1, <3>2 DEF LeasesInv, LeasesTypeOK
  <2>3. Lasting
    BY <1>0, <2>1 DEF Lasting
  <2> QED
    BY <2>1, <2>2, <2>3, RestKeeps
<1>6. ASSUME NEW l \in DOMAIN leases, RevokeLease(l)
      PROVE  LeasesInv'
  <2>1. PICK row : row = [leases[l] EXCEPT !.status = "revoked"]
    OBVIOUS
  <2>2. row \in Lease /\ row.issued = leases[l].issued /\ row.expires = leases[l].expires
    <3>1. leases[l] \in Lease
      BY <1>0
    <3> QED
      BY <2>1, <3>1 DEF Lease
  <2>3. leases' = [leases EXCEPT ![l] = row]
        /\ UNCHANGED <<instant, providerType, credential, incidentStored, leaseReq, handedOut, rowEdits>>
    BY <1>6, <2>1 DEF RevokeLease
  <2>4. /\ leases' \in Seq(Lease) /\ DOMAIN leases' = DOMAIN leases /\ leases'[l] = row
        /\ \A k \in DOMAIN leases : k # l => leases'[k] = leases[k]
    BY <1>0, <2>2, <2>3
  <2>5. LeasesTypeOK'
    BY <2>3, <2>4 DEF LeasesInv, LeasesTypeOK
  <2>6. Lasting
    BY <1>0, <2>2, <2>3, <2>4 DEF Lasting
  <2> QED
    BY <2>3, <2>5, <2>6, RestKeeps
<1>7. ASSUME NEW q \in LeaseRequests, NEW asked \in TTLs, LeaseIsTimed(q, asked)
      PROVE  LeasesInv'
  <2>1. PICK ttl : ttl = Capped(FirstSet(<<asked, credential.default, FallbackTTL>>), credential.cap)
    OBVIOUS
  <2>2. PICK to : to = [IdleRequest EXCEPT !.pc = "resolve", !.issued = instant, !.ttl = ttl]
    OBVIOUS
  <2>3. credential # NoRow /\ RequestMoves(q, to) /\ UNCHANGED <<leases, handedOut>>
    BY <1>7, <2>1, <2>2 DEF LeaseIsTimed
  <2>4. credential.default \in Nat /\ credential.cap \in Nat /\ asked \in Nat /\ FallbackTTL \in Nat \ {0}
    <3>1. credential \in Credential
      BY <1>0, <2>3
    <3> QED
      BY <1>0, <3>1, CredentialsAssumption DEF Credential
  <2>5. ttl \in Nat
    BY <2>1, <2>4, FirstSetIsSet, CappedIsWithin
  <2>6. to \in RequestState /\ to.pc = "resolve"
    BY <1>0, <2>2, <2>5, IdleFits DEF RequestState, IdleRequest
  <2> QED
    BY <1>m, <2>3, <2>6 DEF RequestFits
<1>8. ASSUME NEW q \in LeaseRequests, LeaseResolves(q)
      PROVE  LeasesInv'
  <2>1. PICK token \in Nat : RequestMoves(q, [leaseReq[q] EXCEPT !.pc = "envelope", !.token = token])
    <3>1. CASE RequestMoves(q, [leaseReq[q] EXCEPT !.pc = "envelope"])
      <4>1. leaseReq[q].token \in Nat
        BY <1>q DEF RequestState
      <4>2. [leaseReq[q] EXCEPT !.pc = "envelope"] = [leaseReq[q] EXCEPT !.pc = "envelope", !.token = leaseReq[q].token]
        BY <1>q DEF RequestState
      <4> QED
        BY <3>1, <4>1, <4>2
    <3>2. ASSUME NEW life \in TokenLives,
                 RequestMoves(q, [leaseReq[q] EXCEPT !.pc = "envelope", !.token = instant + life])
          PROVE  \E token \in Nat : RequestMoves(q, [leaseReq[q] EXCEPT !.pc = "envelope", !.token = token])
      <4>1. instant + life \in Nat
        BY <1>0, CredentialsAssumption
      <4> QED
        BY <3>2, <4>1
    <3> QED
      BY <1>8, <3>1, <3>2 DEF LeaseResolves
  <2>2. PICK to : to = [leaseReq[q] EXCEPT !.pc = "envelope", !.token = token]
    OBVIOUS
  <2>3. to \in RequestState /\ to.pc = "envelope"
    BY <1>q, <2>2 DEF RequestState
  <2> QED
    BY <1>8, <1>m, <2>1, <2>2, <2>3 DEF LeaseResolves, RequestFits
<1>9. ASSUME NEW q \in LeaseRequests, LeaseIsTold(q)
      PROVE  LeasesInv'
  <2>1. PICK ttl \in Nat, token \in Nat : ttl = leaseReq[q].ttl /\ token = leaseReq[q].token
    BY <1>q DEF RequestState
  <2>2. PICK told : told = Capped(instant + ttl, token)
    OBVIOUS
  <2>3. told \in Nat /\ told <= instant + ttl /\ (token > 0 => told <= token)
    <3>1. PICK sum \in Nat : sum = instant + ttl
      BY <1>0
    <3> QED
      BY <2>2, <3>1, CappedIsWithin
  <2>4. PICK to : to = [leaseReq[q] EXCEPT !.pc = "insert", !.told = told]
    OBVIOUS
  <2>5. to \in RequestState /\ to.pc = "insert" /\ to.ttl = ttl /\ to.token = token /\ to.told = told
    BY <1>q, <2>1, <2>3, <2>4 DEF RequestState
  <2>6. RequestMoves(q, to) /\ UNCHANGED <<leases, handedOut>>
    BY <1>9, <2>1, <2>2, <2>4 DEF LeaseIsTold
  <2> QED
    BY <1>m, <2>3, <2>5, <2>6 DEF RequestFits
<1>10. ASSUME NEW q \in LeaseRequests, LeaseIsStored(q)
       PROVE  LeasesInv'
  <2>1. PICK r \in RequestState : r = leaseReq[q] /\ RequestFits(r)
    BY <1>q
  <2>2. PICK row : row = [issued |-> r.issued, status |-> "active", expires |-> r.issued + r.ttl]
    OBVIOUS
  <2>3. PICK n \in Nat : n = Len(leases)
    BY <1>0
  <2>4. PICK to : to = [r EXCEPT !.pc = "answer", !.lease = n + 1]
    OBVIOUS
  <2>5. /\ r.pc = "insert" /\ incidentStored /\ leases' = Append(leases, row)
        /\ RequestMoves(q, to) /\ UNCHANGED <<instant, incidentStored, handedOut>>
    BY <1>10, <2>1, <2>2, <2>3, <2>4 DEF LeaseIsStored, RequestMoves
  <2>6. row \in Lease /\ row.issued = r.issued /\ row.expires = r.issued + r.ttl
    BY <2>2 DEF Lease, RequestState
  <2>7. /\ to \in RequestState /\ to.pc = "answer" /\ to.lease = n + 1 /\ to.issued = r.issued
        /\ to.ttl = r.ttl /\ to.token = r.token /\ to.told = r.told
    <3>1. n + 1 \in Nat
      OBVIOUS
    <3>2. PICK k \in Nat : k = n + 1
      BY <3>1
    <3>3. to = [r EXCEPT !.pc = "answer", !.lease = k]
      BY <2>4, <3>2
    <3>4. /\ to \in RequestState /\ to.pc = "answer" /\ to.lease = k /\ to.issued = r.issued
          /\ to.ttl = r.ttl /\ to.token = r.token /\ to.told = r.told
      BY <3>3 DEF RequestState
    <3> QED
      BY <3>2, <3>4
  <2>8. /\ leases' \in Seq(Lease) /\ n + 1 \in DOMAIN leases' /\ leases'[n + 1] = row
        /\ \A l \in DOMAIN leases : l \in DOMAIN leases' /\ leases'[l] = leases[l]
    BY <1>0, <2>3, <2>5, <2>6
  <2>9. Lasting
    BY <1>0, <2>5, <2>8 DEF Lasting
  <2>10. SecretsHaveLeases'
    BY <2>5, <2>9, AnswersLast DEF LeasesInv
  <2>11. RequestFits(to)'
    BY <2>1, <2>5, <2>6, <2>7, <2>8 DEF RequestFits
  <2> QED
    BY <1>0, <2>5, <2>7, <2>8, <2>9, <2>10, <2>11, RequestKeeps
<1>11. ASSUME NEW q \in LeaseRequests, LeaseIsAnswered(q)
       PROVE  LeasesInv'
  <2>1. PICK r \in RequestState : r = leaseReq[q] /\ RequestFits(r)
    BY <1>q
  <2>2. PICK secret : secret = [lease |-> r.lease, told |-> r.told, token |-> r.token, at |-> instant]
    OBVIOUS
  <2>3. /\ r.pc = "answer" /\ RequestMoves(q, IdleRequest) /\ handedOut' = handedOut \union {secret}
        /\ UNCHANGED <<instant, incidentStored, leases>>
    BY <1>11, <2>1, <2>2 DEF LeaseIsAnswered, RequestMoves
  <2>4. secret \in Secret
    BY <1>0, <2>2 DEF Secret, RequestState
  <2>5. /\ r.token > 0 => r.told <= r.token
        /\ r.told <= instant + r.ttl
        /\ incidentStored => /\ r.lease \in DOMAIN leases
                             /\ leases[r.lease].issued = r.issued /\ leases[r.lease].expires = r.issued + r.ttl
    BY <2>1, <2>3 DEF RequestFits
  <2>6. /\ secret.token = r.token /\ secret.told = r.told /\ secret.lease = r.lease /\ secret.at = instant
    BY <2>2
  <2>7. r.ttl \in Nat /\ r.told \in Nat /\ r.issued \in Nat
    BY DEF RequestState
  <2>8. SecretsHaveLeases'
    <3> SUFFICES ASSUME NEW s \in handedOut \union {secret}
                 PROVE  /\ s.token > 0 => s.told <= s.token
                        /\ incidentStored => /\ s.lease \in DOMAIN leases
                                             /\ s.told + leases[s.lease].issued <= s.at + leases[s.lease].expires
      BY <2>3 DEF SecretsHaveLeases
    <3>1. CASE s \in handedOut
      BY <3>1 DEF LeasesInv, SecretsHaveLeases
    <3>2. CASE s = secret
      <4>1. r.told + r.issued <= instant + (r.issued + r.ttl)
        BY <1>0, <2>5, <2>7
      <4> QED
        BY <2>5, <2>6, <3>2, <4>1
    <3> QED
      BY <3>1, <3>2
  <2>9. RequestFits(IdleRequest)'
    BY IdleFits DEF RequestFits, IdleRequest
  <2> QED
    BY <1>0, <1>s, <2>3, <2>4, <2>8, <2>9, IdleFits, RequestKeeps
<1>12. ASSUME NEW q \in LeaseRequests, LeaseRequestEnds(q)
       PROVE  LeasesInv'
  BY <1>12, <1>m, IdleFits DEF LeaseRequestEnds
<1>13. CASE UNCHANGED leaseVars
  <2>1. UNCHANGED <<instant, providerType, credential, incidentStored, leases, leaseReq, handedOut, rowEdits>>
    BY <1>13 DEF leaseVars
  <2>2. LeasesTypeOK'
    BY <2>1 DEF LeasesInv, LeasesTypeOK
  <2> QED
    BY <1>s, <2>1, <2>2, RestKeeps
<1> QED
  BY <1>1, <1>2, <1>3, <1>4, <1>5, <1>6, <1>7, <1>8, <1>9, <1>10, <1>11, <1>12, <1>13 DEF LeasesNext

\* The invariant holds of every behaviour.
LEMMA LeasesInductive == LeasesSpec => []LeasesInv
  BY LeasesInitInv, LeasesKeep, PTL DEF LeasesSpec

(***************************************************************************)
(* No holder of a secret is told that it is good for longer than its token *)
(* is, nor for longer from the answer on than the lease was granted for,   *)
(* and the lease is there until the incident is deleted, whatever is       *)
(* edited, revoked or deleted meanwhile and however long the provider      *)
(* takes (RequestLease, skills_service.go 572-668; credentialEnvelope,     *)
(* 548-569), for any number of requests and leases and any times.          *)
(***************************************************************************)
THEOREM SecretsAreAccountedFor == LeasesSpec => []SecretsHaveLeases
<1>1. LeasesInv => SecretsHaveLeases
  BY DEF LeasesInv
<1> QED
  BY <1>1, LeasesInductive, PTL

----------------------------------------------------------------------------
(***************************************************************************)
(* Interactive notifications, for any buttons and any number of            *)
(* deliveries.                                                             *)
(***************************************************************************)
DeliveryState ==
    [pc : {"idle", "dispatch", "scope", "record"}, press : Pressed \union {0}, status : {"none", "ok", "error"},
     scoped : BOOLEAN]

\* Deliveries of a press that are under way, those that have not acted yet, and those that have, with success.
Pending(c) == {d \in Deliveries : delivery[d].press = c}
Waiting(c) == {d \in Pending(c) : delivery[d].pc = "dispatch"}
Effective(c) == {d \in Pending(c) : delivery[d].status = "ok"}

\* Counting the elements of a finite set.
LEMMA OneMore ==
    ASSUME NEW S, NEW x, IsFiniteSet(S), x \notin S
    PROVE  Cardinality(S) \in Nat /\ IsFiniteSet(S \union {x}) /\ Cardinality(S \union {x}) = Cardinality(S) + 1
BY FS_AddElement, FS_CardinalityType

LEMMA OneLess ==
    ASSUME NEW S, NEW x, IsFiniteSet(S), x \in S
    PROVE  Cardinality(S \ {x}) \in Nat /\ IsFiniteSet(S \ {x}) /\ Cardinality(S) = Cardinality(S \ {x}) + 1
<1>1. /\ IsFiniteSet(S \ {x}) /\ Cardinality(S \ {x}) = Cardinality(S) - 1
      /\ Cardinality(S) \in Nat /\ Cardinality(S \ {x}) \in Nat
  BY FS_RemoveElement, FS_CardinalityType
<1> QED
  BY <1>1

LEMMA PendingIsFinite ==
    \A c \in Pressed :
        /\ IsFiniteSet(Pending(c)) /\ IsFiniteSet(Waiting(c)) /\ IsFiniteSet(Effective(c))
        /\ Cardinality(Pending(c)) \in Nat /\ Cardinality(Waiting(c)) \in Nat /\ Cardinality(Effective(c)) \in Nat
<1>1. IsFiniteSet(Deliveries)
  BY InteractionAssumption
<1> SUFFICES ASSUME NEW c \in Pressed
             PROVE  /\ IsFiniteSet(Pending(c)) /\ IsFiniteSet(Waiting(c)) /\ IsFiniteSet(Effective(c))
                    /\ Cardinality(Pending(c)) \in Nat /\ Cardinality(Waiting(c)) \in Nat
                    /\ Cardinality(Effective(c)) \in Nat
  OBVIOUS
<1>2. /\ Pending(c) \in SUBSET Deliveries /\ Waiting(c) \in SUBSET Deliveries /\ Effective(c) \in SUBSET Deliveries
  BY DEF Pending, Waiting, Effective
<1>3. IsFiniteSet(Pending(c)) /\ IsFiniteSet(Waiting(c)) /\ IsFiniteSet(Effective(c))
  BY <1>1, <1>2, FS_Subset
<1> QED
  BY <1>3, FS_CardinalityType

\* What a delivery has done so far shows in its status.
DeliveriesInv ==
    \A d \in Deliveries :
        /\ delivery[d].pc = "idle" => delivery[d].press = 0
        /\ delivery[d].pc # "idle" => delivery[d].press \in Pressed
        /\ delivery[d].pc \in {"idle", "dispatch"} => delivery[d].status = "none"
        /\ delivery[d].pc \in {"scope", "record"} => delivery[d].status \in {"ok", "error"}

\* The counts of a press: those who got past the checks have acted or will, those who acted with
\* success have left their row or will; all are accounted for unless a row was lost.
CountsInv(c) ==
    /\ IsFiniteSet(Rows(c, "ok"))
    /\ done[c] + Cardinality(Waiting(c)) <= dispatched[c]
    /\ Cardinality(Rows(c, "ok")) + Cardinality(Effective(c)) <= done[c]
    /\ c \notin unrecorded /\ ~Presses[c].token =>
          /\ Len(audit[c]) + Cardinality(Pending(c)) = dispatched[c]
          /\ Cardinality(Rows(c, "ok")) + Cardinality(Effective(c)) = done[c]

\* A press with a token: a single row, and what can be said of a single delivery.
TokenInv(c) ==
    /\ Presses[c].token => Len(audit[c]) <= 1
    /\ Presses[c].token /\ c \notin unrecorded /\ dispatched[c] > 0 /\ audit[c] = <<>> => Pending(c) # {}
    /\ dispatched[c] = 0 => Pending(c) = {} /\ audit[c] = <<>> /\ done[c] = 0
    /\ dispatched[c] = 1 =>
          /\ \A d, e \in Pending(c) : d = e
          /\ \A d \in Pending(c) : audit[c] = <<>> /\ (done[c] > 0 => delivery[d].status = "ok")
          /\ audit[c] = <<"error">> => done[c] = 0

InteractionInv ==
    /\ InteractionTypeOK /\ DeliveriesInv
    /\ \A c \in Pressed : CountsInv(c) /\ TokenInv(c)

LEMMA InteractionInitInv == InteractionInit => InteractionInv
<1> SUFFICES ASSUME InteractionInit PROVE InteractionInv
  OBVIOUS
<1>0. MaxDeliveries \in Nat /\ 0 \notin Pressed
  BY InteractionAssumption DEF Pressed
<1>1. IdleDelivery \in DeliveryState /\ IdleDelivery.pc = "idle" /\ IdleDelivery.press = 0 /\ IdleDelivery.status = "none"
  BY DEF IdleDelivery, DeliveryState
<1>2. delivery \in [Deliveries -> DeliveryState] /\ \A d \in Deliveries : delivery[d] = IdleDelivery
  BY <1>1 DEF InteractionInit
<1>3. /\ \A c \in Pressed : audit[c] = <<>> /\ done[c] = 0 /\ dispatched[c] = 0
      /\ audit \in [Pressed -> Seq({"ok", "error"})]
      /\ done \in [Pressed -> 0 .. MaxDeliveries] /\ dispatched \in [Pressed -> 0 .. MaxDeliveries]
  BY <1>0 DEF InteractionInit
<1>4. InteractionTypeOK /\ DeliveriesInv
  <2>1. unrecorded = {} /\ chatIncident = "open" /\ channel \in {"slack", "teams"}
    BY DEF InteractionInit
  <2> QED
    BY <1>1, <1>2, <1>3, <2>1 DEF InteractionTypeOK, DeliveriesInv, DeliveryState
<1>5. \A c \in Pressed : CountsInv(c) /\ TokenInv(c)
  <2> SUFFICES ASSUME NEW c \in Pressed PROVE CountsInv(c) /\ TokenInv(c)
    OBVIOUS
  <2>1. Pending(c) = {} /\ Waiting(c) = {} /\ Effective(c) = {}
    BY <1>0, <1>1, <1>2 DEF Pending, Waiting, Effective
  <2>2. Rows(c, "ok") = {} /\ Len(audit[c]) = 0
    BY <1>3 DEF Rows
  <2>3. IsFiniteSet({}) /\ Cardinality({}) = 0
    BY FS_EmptySet
  <2>4. CountsInv(c)
    <3>1. /\ Cardinality(Waiting(c)) = 0 /\ Cardinality(Effective(c)) = 0 /\ Cardinality(Pending(c)) = 0
          /\ Cardinality(Rows(c, "ok")) = 0 /\ IsFiniteSet(Rows(c, "ok"))
      BY <2>1, <2>2, <2>3
    <3>2. done[c] = 0 /\ dispatched[c] = 0
      BY <1>3
    <3> QED
      BY <2>2, <3>1, <3>2 DEF CountsInv
  <2>5. TokenInv(c)
    BY <1>3, <2>1, <2>2 DEF TokenInv
  <2> QED
    BY <2>4, <2>5
<1> QED
  BY <1>4, <1>5 DEF InteractionInv

\* A delivery that moves leaves the presses it has nothing to do with as they are.
LEMMA OthersKeep ==
    ASSUME InteractionInv, NEW d \in Deliveries, NEW to \in DeliveryState, delivery' = [delivery EXCEPT ![d] = to],
           NEW c \in Pressed, delivery[d].press # c, to.press # c,
           audit'[c] = audit[c], done'[c] = done[c], dispatched'[c] = dispatched[c],
           c \in unrecorded <=> c \in unrecorded'
    PROVE  CountsInv(c)' /\ TokenInv(c)'
<1>0. delivery \in [Deliveries -> DeliveryState]
  BY DEF InteractionInv, InteractionTypeOK, DeliveryState
<1>1. delivery'[d] = to /\ \A e \in Deliveries : e # d => delivery'[e] = delivery[e]
  BY <1>0
<1>2. Pending(c)' = Pending(c)
  BY <1>1 DEF Pending
<1>3. Waiting(c)' = Waiting(c) /\ Effective(c)' = Effective(c)
  BY <1>1, <1>2 DEF Waiting, Effective, Pending
<1>4. Rows(c, "ok")' = Rows(c, "ok")
  BY DEF Rows
<1>5. \A e \in Pending(c) : delivery'[e] = delivery[e]
  BY <1>1 DEF Pending
<1> QED
  BY <1>2, <1>3, <1>4, <1>5 DEF InteractionInv, CountsInv, TokenInv

\* A delivery that moves without changing what it counts for.
LEMMA OwnMoves ==
    ASSUME InteractionInv, NEW d \in Deliveries, NEW to \in DeliveryState, delivery' = [delivery EXCEPT ![d] = to],
           NEW c \in Pressed, delivery[d].press = c, to.press = c
    PROVE  /\ Pending(c)' = Pending(c) /\ d \in Pending(c)
           /\ Waiting(c)' = IF to.pc = "dispatch" THEN Waiting(c) \union {d} ELSE Waiting(c) \ {d}
           /\ Effective(c)' = IF to.status = "ok" THEN Effective(c) \union {d} ELSE Effective(c) \ {d}
           /\ d \in Waiting(c) <=> delivery[d].pc = "dispatch"
           /\ d \in Effective(c) <=> delivery[d].status = "ok"
           /\ delivery'[d] = to /\ \A e \in Deliveries : e # d => delivery'[e] = delivery[e]
<1>0. delivery \in [Deliveries -> DeliveryState]
  BY DEF InteractionInv, InteractionTypeOK, DeliveryState
<1>1. delivery'[d] = to /\ \A e \in Deliveries : e # d => delivery'[e] = delivery[e]
  BY <1>0
<1>2. Pending(c)' = Pending(c) /\ d \in Pending(c)
  BY <1>1 DEF Pending
<1>3. \A e : e \in Waiting(c)' <=> e \in Pending(c) /\ delivery'[e].pc = "dispatch"
  BY <1>2 DEF Waiting
<1>4. \A e : e \in Effective(c)' <=> e \in Pending(c) /\ delivery'[e].status = "ok"
  BY <1>2 DEF Effective
<1>5. \A e \in Pending(c) : e # d => delivery'[e] = delivery[e]
  BY <1>1 DEF Pending
<1>6. Waiting(c)' = IF to.pc = "dispatch" THEN Waiting(c) \union {d} ELSE Waiting(c) \ {d}
  <2>1. \A e : e \in Waiting(c) <=> e \in Pending(c) /\ delivery[e].pc = "dispatch"
    BY DEF Waiting
  <2> QED
    BY <1>1, <1>2, <1>3, <1>5, <2>1
<1>7. Effective(c)' = IF to.status = "ok" THEN Effective(c) \union {d} ELSE Effective(c) \ {d}
  <2>1. \A e : e \in Effective(c) <=> e \in Pending(c) /\ delivery[e].status = "ok"
    BY DEF Effective
  <2> QED
    BY <1>1, <1>2, <1>4, <1>5, <2>1
<1>8. (d \in Waiting(c) <=> delivery[d].pc = "dispatch") /\ (d \in Effective(c) <=> delivery[d].status = "ok")
  BY <1>2 DEF Waiting, Effective
<1> QED
  BY <1>1, <1>2, <1>6, <1>7, <1>8

\* The delivery that ends with a row, or without.
LEMMA OwnEnds ==
    ASSUME InteractionInv, NEW d \in Deliveries, delivery' = [delivery EXCEPT ![d] = IdleDelivery],
           NEW c \in Pressed, delivery[d].press = c, delivery[d].pc \in {"scope", "record"}
    PROVE  /\ Pending(c)' = Pending(c) \ {d} /\ d \in Pending(c)
           /\ Waiting(c)' = Waiting(c)
           /\ Effective(c)' = Effective(c) \ {d}
           /\ d \in Effective(c) <=> delivery[d].status = "ok"
           /\ \A e \in Deliveries : e # d => delivery'[e] = delivery[e]
<1>0. delivery \in [Deliveries -> DeliveryState] /\ 0 \notin Pressed
  BY InteractionAssumption DEF InteractionInv, InteractionTypeOK, DeliveryState, Pressed
<1>1. delivery'[d].press = 0 /\ \A e \in Deliveries : e # d => delivery'[e] = delivery[e]
  BY <1>0 DEF IdleDelivery
<1>2. Pending(c)' = Pending(c) \ {d} /\ d \in Pending(c)
  BY <1>0, <1>1 DEF Pending
<1>3. Waiting(c)' = Waiting(c)
  BY <1>0, <1>1 DEF Pending, Waiting
<1>4. Effective(c)' = Effective(c) \ {d} /\ (d \in Effective(c) <=> delivery[d].status = "ok")
  BY <1>0, <1>1, <1>2 DEF Pending, Effective
<1> QED
  BY <1>1, <1>2, <1>3, <1>4

LEMMA InteractionKeeps ==
    ASSUME InteractionInv, [InteractionNext]_interactionVars
    PROVE  InteractionInv'
<1>0. /\ delivery \in [Deliveries -> DeliveryState] /\ MaxDeliveries \in Nat /\ 0 \notin Pressed
      /\ audit \in [Pressed -> Seq({"ok", "error"})] /\ unrecorded \subseteq Pressed
      /\ done \in [Pressed -> 0 .. MaxDeliveries] /\ dispatched \in [Pressed -> 0 .. MaxDeliveries]
      /\ channel \in {"slack", "teams", "none"} /\ chatIncident \in {"open", "investigating", "resolved", "none"}
  BY InteractionAssumption DEF InteractionInv, InteractionTypeOK, DeliveryState, Pressed
<1>c. \A c \in Pressed : /\ audit[c] \in Seq({"ok", "error"}) /\ done[c] \in Nat /\ dispatched[c] \in Nat
                         /\ dispatched[c] <= MaxDeliveries /\ Len(audit[c]) \in Nat
  BY <1>0
<1>d. \A d \in Deliveries : delivery[d] \in DeliveryState
  BY <1>0
<1>i. /\ IdleDelivery \in DeliveryState /\ IdleDelivery.pc = "idle" /\ IdleDelivery.press = 0
      /\ IdleDelivery.status = "none"
  BY DEF IdleDelivery, DeliveryState
<1>n. \A c \in Pressed : CountsInv(c) /\ TokenInv(c)
  BY DEF InteractionInv
<1>1. ASSUME NEW d \in Deliveries, NEW c \in Pressed, Verified(d, c), UNCHANGED unrecorded
      PROVE  InteractionInv'
  <2> DEFINE to == [IdleDelivery EXCEPT !.pc = "dispatch", !.press = c]
  <2>1. /\ delivery[d].pc = "idle" /\ dispatched[c] < MaxDeliveries
        /\ dispatched' = [dispatched EXCEPT ![c] = @ + 1] /\ delivery' = [delivery EXCEPT ![d] = to]
        /\ UNCHANGED <<channel, chatIncident, audit, done, unrecorded>>
    BY <1>1 DEF Verified, DeliveryMoves
  <2>2. to \in DeliveryState /\ to.pc = "dispatch" /\ to.press = c /\ to.status = "none"
    BY DEF IdleDelivery, DeliveryState
  <2> HIDE DEF to
  <2>3. /\ delivery' \in [Deliveries -> DeliveryState] /\ delivery'[d] = to
        /\ \A e \in Deliveries : e # d => delivery'[e] = delivery[e]
    BY <1>0, <2>1, <2>2
  <2>4. /\ dispatched' \in [Pressed -> 0 .. MaxDeliveries] /\ dispatched'[c] = dispatched[c] + 1
        /\ \A b \in Pressed : b # c => dispatched'[b] = dispatched[b]
    <3>1. dispatched[c] + 1 \in 0 .. MaxDeliveries
      BY <1>0, <1>c, <2>1
    <3> QED
      BY <1>0, <2>1, <3>1
  <2>5. InteractionTypeOK' /\ DeliveriesInv'
    BY <1>0, <2>1, <2>2, <2>3, <2>4 DEF InteractionInv, InteractionTypeOK, DeliveriesInv, DeliveryState
  <2>6. delivery[d].press = 0 /\ delivery[d].press # c
    BY <1>0, <2>1 DEF InteractionInv, DeliveriesInv
  <2>7. \A b \in Pressed : b # c => CountsInv(b)' /\ TokenInv(b)'
    <3> SUFFICES ASSUME NEW b \in Pressed, b # c PROVE CountsInv(b)' /\ TokenInv(b)'
      OBVIOUS
    <3>1. delivery[d].press # b /\ to.press # b
      BY <1>0, <2>2, <2>6
    <3>2. audit'[b] = audit[b] /\ done'[b] = done[b] /\ dispatched'[b] = dispatched[b]
          /\ (b \in unrecorded <=> b \in unrecorded')
      BY <2>1, <2>4
    <3> QED
      BY <2>1, <2>2, <3>1, <3>2, OthersKeep
  <2>8. Pending(c)' = Pending(c) \union {d} /\ d \notin Pending(c)
    BY <2>2, <2>3, <2>6 DEF Pending
  <2>9. Waiting(c)' = Waiting(c) \union {d} /\ d \notin Waiting(c) /\ Effective(c)' = Effective(c)
    BY <2>2, <2>3, <2>8 DEF Pending, Waiting, Effective
  <2>10. /\ Cardinality(Pending(c)') = Cardinality(Pending(c)) + 1
         /\ Cardinality(Waiting(c)') = Cardinality(Waiting(c)) + 1
    BY <2>8, <2>9, PendingIsFinite, OneMore
  <2>11. Rows(c, "ok")' = Rows(c, "ok")
    BY <2>1 DEF Rows
  <2>12. CountsInv(c)'
    <3>1. /\ Cardinality(Pending(c)) \in Nat /\ Cardinality(Waiting(c)) \in Nat
      BY PendingIsFinite
    <3>2. done'[c] = done[c] /\ audit'[c] = audit[c] /\ unrecorded' = unrecorded
      BY <2>1
    <3>3. CountsInv(c) /\ done[c] \in Nat /\ dispatched[c] \in Nat /\ Len(audit[c]) \in Nat
      BY <1>c, <1>n
    <3>4. /\ done'[c] + Cardinality(Waiting(c)') <= dispatched'[c]
          /\ c \notin unrecorded' /\ ~Presses[c].token => Len(audit'[c]) + Cardinality(Pending(c)') = dispatched'[c]
      <4>1. PICK l, w, p, m, k \in Nat : l = Len(audit[c]) /\ w = Cardinality(Waiting(c)) /\ p = Cardinality(Pending(c))
                                         /\ m = done[c] /\ k = dispatched[c]
        BY <3>1, <3>3
      <4>2. m + w <= k /\ (c \notin unrecorded /\ ~Presses[c].token => l + p = k)
        BY <3>3, <4>1 DEF CountsInv
      <4>3. m + (w + 1) <= k + 1 /\ (c \notin unrecorded /\ ~Presses[c].token => l + (p + 1) = k + 1)
        BY <4>2
      <4> QED
        BY <2>4, <2>10, <3>2, <4>1, <4>3
    <3> QED
      BY <2>9, <2>11, <3>2, <3>3, <3>4 DEF CountsInv
  <2>13. TokenInv(c)'
    <3>1. dispatched'[c] # 0 /\ (dispatched'[c] = 1 => dispatched[c] = 0) /\ Pending(c)' # {}
      BY <1>c, <2>4, <2>8
    <3>2. done'[c] = done[c] /\ audit'[c] = audit[c]
      BY <2>1
    <3>3. dispatched[c] = 0 => Pending(c)' = {d} /\ audit'[c] = <<>> /\ ~(done'[c] > 0) /\ done'[c] = 0
      BY <1>n, <2>8, <3>2 DEF TokenInv
    <3>4. Presses[c].token => Len(audit'[c]) <= 1
      BY <1>n, <3>2 DEF TokenInv
    <3> QED
      BY <3>1, <3>3, <3>4 DEF TokenInv
  <2> QED
    BY <2>5, <2>7, <2>12, <2>13 DEF InteractionInv
\* The action had its effect.
<1>2. ASSUME NEW d \in Deliveries, NEW c \in Pressed, c = delivery[d].press, delivery[d].pc = "dispatch",
             done' = [done EXCEPT ![c] = @ + 1], Acted(d, "ok"),
             chatIncident' \in {"open", "investigating", "resolved", "none"},
             UNCHANGED <<channel, audit, dispatched, unrecorded>>
      PROVE  InteractionInv'
  <2> DEFINE to == [delivery[d] EXCEPT !.pc = "scope", !.status = "ok"]
  <2>1. delivery' = [delivery EXCEPT ![d] = to]
    BY <1>2 DEF Acted, DeliveryMoves
  <2>2. to \in DeliveryState /\ to.pc = "scope" /\ to.press = c /\ to.status = "ok"
    BY <1>d, <1>2 DEF DeliveryState
  <2> HIDE DEF to
  <2>3. /\ delivery' \in [Deliveries -> DeliveryState] /\ delivery'[d] = to
        /\ \A e \in Deliveries : e # d => delivery'[e] = delivery[e]
    BY <1>0, <2>1, <2>2
  <2>4. /\ Pending(c)' = Pending(c) /\ d \in Pending(c)
        /\ Waiting(c)' = Waiting(c) \ {d} /\ d \in Waiting(c)
        /\ Effective(c)' = Effective(c) \union {d} /\ d \notin Effective(c)
    <3>1. delivery[d].status # "ok"
      BY <1>2 DEF InteractionInv, DeliveriesInv
    <3> QED
      BY ZenonT(60), <1>2, <2>1, <2>2, <3>1, OwnMoves
  <2>5. /\ Cardinality(Waiting(c)) = Cardinality(Waiting(c)') + 1 /\ Cardinality(Waiting(c)') \in Nat
        /\ Cardinality(Effective(c)') = Cardinality(Effective(c)) + 1 /\ Cardinality(Effective(c)) \in Nat
        /\ Cardinality(Pending(c)) \in Nat
    BY <2>4, PendingIsFinite, OneMore, OneLess
  <2>6. done[c] + 1 \in 0 .. MaxDeliveries
    BY <1>0, <1>c, <1>n, <2>5 DEF CountsInv
  <2>7. /\ done' \in [Pressed -> 0 .. MaxDeliveries] /\ done'[c] = done[c] + 1
        /\ \A b \in Pressed : b # c => done'[b] = done[b]
    BY <1>0, <1>2, <2>6
  <2>8. InteractionTypeOK' /\ DeliveriesInv'
    <3>1. InteractionTypeOK'
      BY <1>0, <1>2, <2>3, <2>7 DEF InteractionTypeOK, DeliveryState
    <3>2. DeliveriesInv'
      BY <1>2, <2>2, <2>3 DEF InteractionInv, DeliveriesInv
    <3> QED
      BY <3>1, <3>2
  <2>9. \A b \in Pressed : b # c => CountsInv(b)' /\ TokenInv(b)'
    <3> SUFFICES ASSUME NEW b \in Pressed, b # c PROVE CountsInv(b)' /\ TokenInv(b)'
      OBVIOUS
    <3>1. delivery[d].press # b /\ to.press # b
      BY <1>2, <2>2
    <3>2. audit'[b] = audit[b] /\ done'[b] = done[b] /\ dispatched'[b] = dispatched[b]
          /\ (b \in unrecorded <=> b \in unrecorded')
      BY <1>2, <2>7
    <3> QED
      BY <2>1, <2>2, <3>1, <3>2, OthersKeep
  <2>10. Rows(c, "ok")' = Rows(c, "ok")
    BY <1>2 DEF Rows
  <2>u. dispatched'[c] = dispatched[c] /\ audit'[c] = audit[c] /\ unrecorded' = unrecorded
    BY <1>2
  <2>11. CountsInv(c)'
    <3>1. Cardinality(Rows(c, "ok")) \in Nat
      BY <1>n, FS_CardinalityType DEF CountsInv
    <3>2. CountsInv(c) /\ done[c] \in Nat /\ dispatched[c] \in Nat /\ Len(audit[c]) \in Nat
      BY <1>c, <1>n
    <3>3. PICK w, e, r, m, k \in Nat : w = Cardinality(Waiting(c)') /\ e = Cardinality(Effective(c))
                                       /\ r = Cardinality(Rows(c, "ok")) /\ m = done[c] /\ k = dispatched[c]
      BY <2>5, <3>1, <3>2
    <3>4. /\ m + (w + 1) <= k /\ r + e <= m
          /\ c \notin unrecorded /\ ~Presses[c].token => r + e = m
      BY <2>5, <3>2, <3>3 DEF CountsInv
    <3>5. /\ (m + 1) + w <= k /\ r + (e + 1) <= m + 1
          /\ c \notin unrecorded /\ ~Presses[c].token => r + (e + 1) = m + 1
      BY <3>4
    <3>6. /\ Cardinality(Waiting(c)') = w /\ Cardinality(Effective(c)') = e + 1 /\ done'[c] = m + 1
          /\ Cardinality(Rows(c, "ok")') = r /\ dispatched'[c] = k
      BY <2>5, <2>7, <2>10, <2>u, <3>3
    <3> QED
      BY <2>4, <2>10, <2>u, <3>2, <3>5, <3>6 DEF CountsInv
  <2>12. TokenInv(c)'
    <3>1. dispatched[c] # 0
      BY <1>n, <2>4 DEF TokenInv
    <3>2. \A e \in Pending(c) : dispatched[c] = 1 => e = d
      BY <1>n, <2>4 DEF TokenInv
    <3>3. dispatched[c] = 1 => audit[c] = <<>> /\ audit[c] # <<"error">>
      BY <1>n, <2>4 DEF TokenInv
    <3> QED
      BY <1>n, <2>2, <2>3, <2>4, <2>u, <3>1, <3>2, <3>3 DEF TokenInv
  <2> QED
    BY <2>8, <2>9, <2>11, <2>12 DEF InteractionInv
<1>3. ASSUME NEW d \in Deliveries, ActionFails(d)
      PROVE  InteractionInv'
  <2>c. PICK c : c = delivery[d].press
    OBVIOUS
  <2> DEFINE to == [delivery[d] EXCEPT !.pc = "scope", !.status = "error"]
  <2>1. /\ delivery[d].pc = "dispatch" /\ delivery' = [delivery EXCEPT ![d] = to] /\ c \in Pressed
        /\ UNCHANGED <<channel, chatIncident, audit, done, dispatched, unrecorded>>
    BY <1>3, <2>c DEF ActionFails, Acted, DeliveryMoves, InteractionInv, DeliveriesInv
  <2>2. to \in DeliveryState /\ to.pc = "scope" /\ to.press = c /\ to.status = "error"
    BY <1>d, <2>c DEF DeliveryState
  <2> HIDE DEF to
  <2>3. /\ delivery' \in [Deliveries -> DeliveryState] /\ delivery'[d] = to
        /\ \A e \in Deliveries : e # d => delivery'[e] = delivery[e]
    BY <1>0, <2>1, <2>2
  <2>4. /\ Pending(c)' = Pending(c) /\ d \in Pending(c)
        /\ Waiting(c)' = Waiting(c) \ {d} /\ d \in Waiting(c)
        /\ Effective(c)' = Effective(c)
    <3>1. delivery[d].status # "ok"
      BY <2>1 DEF InteractionInv, DeliveriesInv
    <3>2. /\ Pending(c)' = Pending(c) /\ d \in Pending(c)
          /\ Waiting(c)' = Waiting(c) \ {d} /\ d \in Waiting(c)
          /\ Effective(c)' = Effective(c) \ {d} /\ d \notin Effective(c)
      BY ZenonT(60), <2>c, <2>1, <2>2, <3>1, OwnMoves
    <3> QED
      BY <3>2
  <2>5. /\ Cardinality(Waiting(c)) = Cardinality(Waiting(c)') + 1 /\ Cardinality(Waiting(c)') \in Nat
    BY <2>1, <2>4, PendingIsFinite, OneLess
  <2>8. InteractionTypeOK' /\ DeliveriesInv'
    BY <1>0, <2>1, <2>2, <2>3 DEF InteractionInv, InteractionTypeOK, DeliveriesInv, DeliveryState
  <2>9. \A b \in Pressed : b # c => CountsInv(b)' /\ TokenInv(b)'
    <3> SUFFICES ASSUME NEW b \in Pressed, b # c PROVE CountsInv(b)' /\ TokenInv(b)'
      OBVIOUS
    <3>1. delivery[d].press # b /\ to.press # b
      BY <2>c, <2>2
    <3> QED
      BY <2>1, <2>2, <3>1, OthersKeep
  <2>10. Rows(c, "ok")' = Rows(c, "ok")
    BY <2>1 DEF Rows
  <2>11. CountsInv(c)'
    BY <1>c, <1>n, <2>1, <2>4, <2>5, <2>10 DEF CountsInv
  <2>12. TokenInv(c)'
    <3>1. dispatched[c] = 1 => \A e \in Pending(c) : e = d
      BY <1>n, <2>1, <2>4 DEF TokenInv
    <3>2. dispatched[c] = 1 => ~(done[c] > 0)
      <4>1. delivery[d].status # "ok"
        BY <2>1 DEF InteractionInv, DeliveriesInv
      <4> QED
        BY <1>n, <2>1, <2>4, <4>1 DEF TokenInv
    <3> QED
      BY <1>n, <2>1, <2>2, <2>3, <2>4, <3>1, <3>2 DEF TokenInv
  <2> QED
    BY <2>1, <2>8, <2>9, <2>11, <2>12 DEF InteractionInv
<1>4. ASSUME NEW d \in Deliveries, FindsOrganization(d)
      PROVE  InteractionInv'
  <2>c. PICK c : c = delivery[d].press
    OBVIOUS
  <2>s. PICK to \in DeliveryState :
            /\ to.pc = "record" /\ to.press = c /\ to.status = delivery[d].status
            /\ DeliveryMoves(d, to)
    <3>1. PICK scoped \in BOOLEAN : DeliveryMoves(d, [delivery[d] EXCEPT !.pc = "record", !.scoped = scoped])
      <4>1. {FALSE, channel # "none" \/ chatIncident # "none"} \subseteq BOOLEAN
        OBVIOUS
      <4> QED
        BY <1>4, <4>1, Zenon DEF FindsOrganization
    <3> DEFINE to == [delivery[d] EXCEPT !.pc = "record", !.scoped = scoped]
    <3>2. to \in DeliveryState /\ to.pc = "record" /\ to.press = c /\ to.status = delivery[d].status
      BY <1>d, <2>c DEF DeliveryState
    <3> HIDE DEF to
    <3>3. DeliveryMoves(d, to)
      BY <3>1 DEF to
    <3> QED
      BY <3>2, <3>3
  <2>1. /\ delivery[d].pc = "scope" /\ delivery' = [delivery EXCEPT ![d] = to] /\ c \in Pressed
        /\ UNCHANGED <<channel, chatIncident, audit, done, dispatched, unrecorded>>
    BY <1>4, <2>c, <2>s DEF FindsOrganization, DeliveryMoves, InteractionInv, DeliveriesInv
  <2>2. to.pc = "record" /\ to.press = c /\ to.status = delivery[d].status
    BY <2>s
  <2>3. /\ delivery' \in [Deliveries -> DeliveryState] /\ delivery'[d] = to
        /\ \A e \in Deliveries : e # d => delivery'[e] = delivery[e]
    BY <1>0, <2>1, <2>2
  <2>4. /\ Pending(c)' = Pending(c) /\ Waiting(c)' = Waiting(c) /\ Effective(c)' = Effective(c)
    <3>1. /\ Pending(c)' = Pending(c)
          /\ Waiting(c)' = Waiting(c) \ {d} /\ d \notin Waiting(c)
          /\ Effective(c)' = (IF delivery[d].status = "ok" THEN Effective(c) \union {d} ELSE Effective(c) \ {d})
          /\ d \in Effective(c) <=> delivery[d].status = "ok"
      BY ZenonT(60), <2>c, <2>1, <2>2, OwnMoves
    <3> QED
      BY <3>1
  <2>8. InteractionTypeOK' /\ DeliveriesInv'
    BY <1>0, <2>1, <2>2, <2>3 DEF InteractionInv, InteractionTypeOK, DeliveriesInv, DeliveryState
  <2>9. \A b \in Pressed : b # c => CountsInv(b)' /\ TokenInv(b)'
    <3> SUFFICES ASSUME NEW b \in Pressed, b # c PROVE CountsInv(b)' /\ TokenInv(b)'
      OBVIOUS
    <3>1. delivery[d].press # b /\ to.press # b
      BY <2>c, <2>2
    <3> QED
      BY <2>1, <2>2, <3>1, OthersKeep
  <2>10. Rows(c, "ok")' = Rows(c, "ok")
    BY <2>1 DEF Rows
  <2>11. CountsInv(c)'
    BY <1>n, <2>1, <2>4, <2>10 DEF CountsInv
  <2>12. TokenInv(c)'
    <3>1. \A e \in Pending(c) : delivery'[e].status = delivery[e].status
      BY <2>2, <2>3 DEF Pending
    <3> QED
      BY <1>n, <2>1, <2>4, <3>1 DEF TokenInv
  <2> QED
    BY <2>1, <2>8, <2>9, <2>11, <2>12 DEF InteractionInv
\* The delivery ends: its row is appended, or refused because there is one already.
<1>5. ASSUME NEW d \in Deliveries, RecordInteraction(d) \/ RecordIsLost(d)
      PROVE  InteractionInv'
  <2>c. PICK c, s : c = delivery[d].press /\ s = delivery[d].status
    OBVIOUS
  <2>1. /\ delivery[d].pc \in {"scope", "record"} /\ delivery' = [delivery EXCEPT ![d] = IdleDelivery]
        /\ c \in Pressed /\ s \in {"ok", "error"}
        /\ UNCHANGED <<channel, chatIncident, done, dispatched>>
    BY <1>5, <2>c DEF RecordInteraction, RecordIsLost, DeliveryMoves, InteractionInv, DeliveriesInv
  <2>2. \/ /\ audit' = [audit EXCEPT ![c] = Append(@, s)] /\ UNCHANGED unrecorded
           /\ Presses[c].token => audit[c] = <<>>
        \/ audit' = audit /\ unrecorded' = unrecorded \union {c}
        \/ audit' = audit /\ UNCHANGED unrecorded /\ Presses[c].token /\ audit[c] # <<>>
    <3>1. CASE RecordInteraction(d)
      <4>1. CASE RowIsAccepted(d, c)
        BY <2>c, <3>1, <4>1 DEF RecordInteraction, RowIsAccepted
      <4>2. CASE ~RowIsAccepted(d, c)
        <5>1. /\ audit' = audit
              /\ unrecorded' = IF ~Presses[c].token \/ audit[c] = <<>> THEN unrecorded \union {c} ELSE unrecorded
          BY <2>c, <3>1, <4>2 DEF RecordInteraction
        <5>2. Presses[c].token \in BOOLEAN
          BY <2>1, InteractionAssumption DEF Pressed
        <5> QED
          BY <5>1, <5>2
      <4> QED
        BY <4>1, <4>2
    <3>2. CASE RecordIsLost(d)
      BY <2>c, <3>2 DEF RecordIsLost
    <3> QED
      BY <1>5, <3>1, <3>2
  <2>3. /\ delivery' \in [Deliveries -> DeliveryState] /\ delivery'[d] = IdleDelivery
        /\ \A e \in Deliveries : e # d => delivery'[e] = delivery[e]
    BY <1>0, <1>i, <2>1
  <2>4. /\ Pending(c)' = Pending(c) \ {d} /\ d \in Pending(c)
        /\ Waiting(c)' = Waiting(c)
        /\ Effective(c)' = Effective(c) \ {d}
        /\ d \in Effective(c) <=> s = "ok"
    BY <2>c, <2>1, OwnEnds
  <2>5. /\ Cardinality(Pending(c)) = Cardinality(Pending(c)') + 1 /\ Cardinality(Pending(c)') \in Nat
        /\ Cardinality(Effective(c)) \in Nat /\ Cardinality(Effective(c)') \in Nat
        /\ s = "ok" => Cardinality(Effective(c)) = Cardinality(Effective(c)') + 1
        /\ s # "ok" => Cardinality(Effective(c)') = Cardinality(Effective(c))
    <3>1. CASE s = "ok"
      BY <2>1, <2>4, <3>1, PendingIsFinite, OneLess
    <3>2. CASE s # "ok"
      <4>1. Effective(c)' = Effective(c)
        BY <2>4, <3>2
      <4> QED
        BY <2>1, <2>4, <3>2, <4>1, PendingIsFinite, OneLess
    <3> QED
      BY <3>1, <3>2
  <2>6. /\ audit' \in [Pressed -> Seq({"ok", "error"})] /\ unrecorded' \subseteq Pressed
        /\ \A b \in Pressed : b # c => audit'[b] = audit[b] /\ (b \in unrecorded <=> b \in unrecorded')
        /\ c \notin unrecorded' => c \notin unrecorded
    <3>1. Append(audit[c], s) \in Seq({"ok", "error"})
      BY <1>c, <2>1
    <3> QED
      BY <1>0, <2>1, <2>2, <3>1
  <2>7. InteractionTypeOK' /\ DeliveriesInv'
    BY <1>0, <1>i, <2>1, <2>3, <2>6 DEF InteractionInv, InteractionTypeOK, DeliveriesInv, DeliveryState
  <2>8. \A b \in Pressed : b # c => CountsInv(b)' /\ TokenInv(b)'
    <3> SUFFICES ASSUME NEW b \in Pressed, b # c PROVE CountsInv(b)' /\ TokenInv(b)'
      OBVIOUS
    <3>1. delivery[d].press # b /\ IdleDelivery.press # b
      BY <1>0, <1>i, <2>c
    <3>2. audit'[b] = audit[b] /\ done'[b] = done[b] /\ dispatched'[b] = dispatched[b]
          /\ (b \in unrecorded <=> b \in unrecorded')
      BY <2>1, <2>6
    <3> QED
      BY <1>i, <2>1, <3>1, <3>2, OthersKeep
  <2>k. /\ Cardinality(Waiting(c)) \in Nat /\ Cardinality(Rows(c, "ok")) \in Nat /\ IsFiniteSet(Rows(c, "ok"))
    BY <1>n, <2>1, PendingIsFinite, FS_CardinalityType DEF CountsInv
  <2>o. dispatched[c] = 1 => /\ audit[c] = <<>> /\ Pending(c)' = {}
                             /\ done[c] > 0 => s = "ok"
    BY <1>n, <2>c, <2>1, <2>4 DEF TokenInv
  <2>z. dispatched[c] # 0 /\ dispatched'[c] = dispatched[c] /\ done'[c] = done[c]
    BY <1>n, <2>1, <2>4 DEF TokenInv
  <2>9. CASE audit' = [audit EXCEPT ![c] = Append(@, s)] /\ UNCHANGED unrecorded /\ (Presses[c].token => audit[c] = <<>>)
    <3>n. PICK n : n = Len(audit[c]) + 1
      OBVIOUS
    <3>1. /\ audit'[c] = Append(audit[c], s) /\ Len(audit'[c]) = n /\ DOMAIN audit'[c] = DOMAIN audit[c] \union {n}
          /\ audit'[c][n] = s /\ n \notin DOMAIN audit[c] /\ \A k \in DOMAIN audit[c] : audit'[c][k] = audit[c][k]
      <4>1. audit'[c] = Append(audit[c], s)
        BY <1>0, <2>1, <2>9
      <4>2. audit[c] \in Seq({"ok", "error"})
        BY <1>c, <2>1
      <4> QED
        BY <2>1, <3>n, <4>1, <4>2
    <3>2. Rows(c, "ok")' = IF s = "ok" THEN Rows(c, "ok") \union {n} ELSE Rows(c, "ok")
      BY <3>1 DEF Rows
    <3>3. n \notin Rows(c, "ok")
      BY <3>1 DEF Rows
    <3>4. /\ IsFiniteSet(Rows(c, "ok")')
          /\ Cardinality(Rows(c, "ok")') = IF s = "ok" THEN Cardinality(Rows(c, "ok")) + 1 ELSE Cardinality(Rows(c, "ok"))
      <4>1. CASE s = "ok"
        BY <2>k, <3>2, <3>3, <4>1, OneMore
      <4>2. CASE s # "ok"
        BY <2>k, <3>2, <4>2
      <4> QED
        BY <4>1, <4>2
    <3>5. CountsInv(c)'
      <4>1. CountsInv(c) /\ done[c] \in Nat /\ dispatched[c] \in Nat /\ Len(audit[c]) \in Nat
        BY <1>c, <1>n, <2>1
      <4>2. Cardinality(Rows(c, "ok")') + Cardinality(Effective(c)') = Cardinality(Rows(c, "ok")) + Cardinality(Effective(c))
        BY <2>5, <2>k, <3>4
      <4>3. Len(audit'[c]) + Cardinality(Pending(c)') = Len(audit[c]) + Cardinality(Pending(c))
        <5>1. PICK l, p \in Nat : l = Len(audit[c]) /\ p = Cardinality(Pending(c)')
          BY <2>5, <4>1
        <5>2. Len(audit'[c]) = l + 1 /\ Cardinality(Pending(c)) = p + 1
          BY <2>5, <3>n, <3>1, <5>1
        <5>3. (l + 1) + p = l + (p + 1)
          OBVIOUS
        <5> QED
          BY <5>1, <5>2, <5>3
      <4>4. unrecorded' = unrecorded
        BY <2>9
      <4> QED
        BY <2>4, <2>z, <3>4, <4>1, <4>2, <4>3, <4>4 DEF CountsInv
    <3>6. TokenInv(c)'
      <4>1. Presses[c].token => Len(audit'[c]) <= 1
        BY <2>9, <3>n, <3>1
      <4>2. audit'[c] # <<>>
        BY <1>c, <2>1, <3>n, <3>1
      <4>3. dispatched[c] = 1 /\ audit'[c] = <<"error">> => done[c] = 0
        <5> SUFFICES ASSUME dispatched[c] = 1, audit'[c] = <<"error">> PROVE done[c] = 0
          OBVIOUS
        <5>1. audit[c] = <<>> /\ n = 1
          BY <2>o, <3>n
        <5>2. s = "error"
          BY <3>1, <5>1
        <5> QED
          BY <1>c, <2>1, <2>o, <5>2
      <4> QED
        BY <2>o, <2>z, <4>1, <4>2, <4>3 DEF TokenInv
    <3> QED
      BY <2>7, <2>8, <3>5, <3>6 DEF InteractionInv
  <2>10. CASE /\ audit' = audit
              /\ \/ unrecorded' = unrecorded \union {c}
                 \/ UNCHANGED unrecorded /\ Presses[c].token /\ audit[c] # <<>>
    <3>1. Rows(c, "ok")' = Rows(c, "ok") /\ audit'[c] = audit[c]
      BY <2>10 DEF Rows
    <3>2. CountsInv(c)'
      BY <1>c, <1>n, <2>1, <2>4, <2>5, <2>10, <2>k, <2>z, <3>1, SMTT(30) DEF CountsInv
    <3>3. TokenInv(c)'
      <4>1. Presses[c].token => Len(audit'[c]) <= 1
        BY <1>n, <2>1, <3>1 DEF TokenInv
      <4>2. c \notin unrecorded' => audit'[c] # <<>>
        BY <2>10, <3>1
      <4>3. audit'[c] = <<"error">> => audit'[c] # <<>>
        OBVIOUS
      <4> QED
        BY <2>o, <2>z, <3>1, <4>1, <4>2, <4>3 DEF TokenInv
    <3> QED
      BY <2>7, <2>8, <3>2, <3>3 DEF InteractionInv
  <2> QED
    BY <2>2, <2>9, <2>10
<1>6. ASSUME ChannelIsDeleted
      PROVE  InteractionInv'
  <2>1. channel' = "none" /\ UNCHANGED <<chatIncident, delivery, audit, done, dispatched, unrecorded>>
    BY <1>6 DEF ChannelIsDeleted
  <2>2. \A c : Pending(c)' = Pending(c) /\ Waiting(c)' = Waiting(c) /\ Effective(c)' = Effective(c)
    BY <2>1 DEF Pending, Waiting, Effective
  <2>3. \A c \in Pressed : CountsInv(c)' /\ TokenInv(c)'
    BY <1>n, <2>1, <2>2 DEF CountsInv, TokenInv, Rows
  <2>4. InteractionTypeOK' /\ DeliveriesInv'
    BY <2>1 DEF InteractionInv, InteractionTypeOK, DeliveriesInv
  <2> QED
    BY <2>3, <2>4 DEF InteractionInv
<1>7. ASSUME IncidentIsDeleted
      PROVE  InteractionInv'
  <2>1. /\ chatIncident' = "none" /\ audit' = [c \in Pressed |-> <<>>] /\ unrecorded' = Pressed
        /\ UNCHANGED <<channel, delivery, done, dispatched>>
    BY <1>7 DEF IncidentIsDeleted
  <2>2. \A c : Pending(c)' = Pending(c) /\ Waiting(c)' = Waiting(c) /\ Effective(c)' = Effective(c)
    BY <2>1 DEF Pending, Waiting, Effective
  <2>3. \A c \in Pressed : CountsInv(c)' /\ TokenInv(c)'
    <3> SUFFICES ASSUME NEW c \in Pressed PROVE CountsInv(c)' /\ TokenInv(c)'
      OBVIOUS
    <3>1. audit'[c] = <<>> /\ c \in unrecorded' /\ done'[c] = done[c] /\ dispatched'[c] = dispatched[c]
      BY <2>1
    <3>2. Rows(c, "ok")' = {} /\ IsFiniteSet({}) /\ Cardinality({}) = 0
      BY <3>1, FS_EmptySet DEF Rows
    <3>3. Cardinality(Effective(c)) \in Nat /\ Cardinality(Rows(c, "ok")) \in Nat
      BY <1>n, PendingIsFinite, FS_CardinalityType DEF CountsInv
    <3>4. CountsInv(c)'
      <4>1. CountsInv(c) /\ done[c] \in Nat
        BY <1>c, <1>n
      <4>2. Cardinality(Rows(c, "ok")') + Cardinality(Effective(c)) <= done[c]
        <5>1. PICK r, e, m \in Nat : r = Cardinality(Rows(c, "ok")) /\ e = Cardinality(Effective(c)) /\ m = done[c]
          BY <3>3, <4>1
        <5>2. r + e <= m
          BY <4>1, <5>1 DEF CountsInv
        <5>3. 0 + e <= m
          BY <5>2
        <5> QED
          BY <3>2, <5>1, <5>3
      <4> QED
        BY <2>2, <3>1, <3>2, <4>1, <4>2 DEF CountsInv
    <3>5. TokenInv(c)'
      <4>1. Len(<<>>) = 0 /\ <<>> # <<"error">>
        OBVIOUS
      <4>2. \A d \in Pending(c) : delivery'[d] = delivery[d]
        BY <2>1
      <4> QED
        BY <1>n, <2>2, <3>1, <4>1, <4>2 DEF TokenInv
    <3> QED
      BY <3>4, <3>5
  <2>4. InteractionTypeOK' /\ DeliveriesInv'
    <3>1. audit' \in [Pressed -> Seq({"ok", "error"})] /\ unrecorded' \subseteq Pressed
      BY <2>1
    <3> QED
      BY <2>1, <3>1 DEF InteractionInv, InteractionTypeOK, DeliveriesInv
  <2> QED
    BY <2>3, <2>4 DEF InteractionInv
<1>8. CASE UNCHANGED interactionVars
  <2>1. UNCHANGED <<channel, chatIncident, delivery, audit, done, dispatched, unrecorded>>
    BY <1>8 DEF interactionVars
  <2>2. \A c : Pending(c)' = Pending(c) /\ Waiting(c)' = Waiting(c) /\ Effective(c)' = Effective(c)
    BY <2>1 DEF Pending, Waiting, Effective
  <2>3. \A c \in Pressed : CountsInv(c)' /\ TokenInv(c)'
    BY <1>n, <2>1, <2>2 DEF CountsInv, TokenInv, Rows
  <2>4. InteractionTypeOK' /\ DeliveriesInv'
    BY <2>1 DEF InteractionInv, InteractionTypeOK, DeliveriesInv
  <2> QED
    BY <2>3, <2>4 DEF InteractionInv
<1>9. ASSUME NEW d \in Deliveries, ChangesStatus(d) \/ ViewRca(d)
      PROVE  InteractionInv'
  <2>1. PICK c : c = delivery[d].press
    OBVIOUS
  <2>2. /\ delivery[d].pc = "dispatch" /\ done' = [done EXCEPT ![c] = @ + 1] /\ Acted(d, "ok") /\ c \in Pressed
        /\ UNCHANGED <<channel, audit, dispatched, unrecorded>>
    BY <1>9, <2>1 DEF ChangesStatus, ViewRca, InteractionInv, DeliveriesInv
  <2>3. chatIncident' \in {"open", "investigating", "resolved", "none"}
    BY <1>0, <1>9 DEF ChangesStatus, ViewRca, StatusOf
  <2> QED
    BY <1>2, <2>1, <2>2, <2>3
<1>10. ASSUME NEW d \in Deliveries, NEW c \in Pressed, SlackInteractive(d, c) \/ TeamsInteractive(d, c)
       PROVE  InteractionInv'
  BY <1>1, <1>10 DEF SlackInteractive, TeamsInteractive, Verified
<1> QED
  BY <1>3, <1>4, <1>5, <1>6, <1>7, <1>8, <1>9, <1>10 DEF InteractionNext

\* The invariant holds of every behaviour.
LEMMA InteractionInductive == InteractionSpec => []InteractionInv
  BY InteractionInitInv, InteractionKeeps, PTL DEF InteractionSpec

(***************************************************************************)
(* Once the deliveries of a press are over, the audit log has its rows:    *)
(* one for a press with a token, however often it is delivered, and one    *)
(* for each action otherwise (HandleSlackInteractive,                      *)
(* HandleTeamsInteractive).                                                *)
(***************************************************************************)
THEOREM AuditAccountsForPresses == InteractionSpec => []AuditFollowsPresses
<1>1. InteractionInv => AuditFollowsPresses
  <2> SUFFICES ASSUME InteractionInv, NEW c \in Pressed
               PROVE  /\ Presses[c].token => Len(audit[c]) <= 1
                      /\ Cardinality(Rows(c, "ok")) <= done[c]
                      /\ Settled(c) /\ c \notin unrecorded /\ dispatched[c] > 0 =>
                            IF Presses[c].token
                            THEN Len(audit[c]) = 1 /\ (audit[c] = <<"error">> /\ done[c] > 0 => dispatched[c] > 1)
                            ELSE Len(audit[c]) = dispatched[c] /\ Cardinality(Rows(c, "ok")) = done[c]
    BY DEF AuditFollowsPresses
  <2>1. CountsInv(c) /\ TokenInv(c)
    BY DEF InteractionInv
  <2>2. /\ audit[c] \in Seq({"ok", "error"}) /\ Len(audit[c]) \in Nat
        /\ done[c] \in 0 .. MaxDeliveries /\ dispatched[c] \in 0 .. MaxDeliveries /\ MaxDeliveries \in Nat
    BY InteractionAssumption DEF InteractionInv, InteractionTypeOK
  <2>3. Cardinality(Rows(c, "ok")) \in Nat /\ Cardinality(Effective(c)) \in Nat
    BY <2>1, PendingIsFinite, FS_CardinalityType DEF CountsInv
  <2>4. Presses[c].token => Len(audit[c]) <= 1
    BY <2>1 DEF TokenInv
  <2>5. Cardinality(Rows(c, "ok")) <= done[c]
    BY <2>1, <2>2, <2>3 DEF CountsInv
  <2>6. ASSUME Settled(c), c \notin unrecorded, dispatched[c] > 0
        PROVE  IF Presses[c].token
               THEN Len(audit[c]) = 1 /\ (audit[c] = <<"error">> /\ done[c] > 0 => dispatched[c] > 1)
               ELSE Len(audit[c]) = dispatched[c] /\ Cardinality(Rows(c, "ok")) = done[c]
    <3>1. Pending(c) = {} /\ Effective(c) = {}
      BY <2>6 DEF Settled, Pending, Effective
    <3>2. Cardinality(Pending(c)) = 0 /\ Cardinality(Effective(c)) = 0
      BY <3>1, FS_EmptySet
    <3>3. CASE Presses[c].token
      <4>1. audit[c] # <<>> /\ Len(audit[c]) <= 1
        BY <2>1, <2>2, <2>6, <3>1, <3>3 DEF TokenInv
      <4>2. Len(audit[c]) # 0
        BY <2>2, <4>1
      <4>l. PICK n \in Nat : n = Len(audit[c])
        BY <2>2
      <4>3. Len(audit[c]) = 1
        <5>1. n <= 1 /\ n # 0
          BY <4>l, <4>1, <4>2
        <5>2. n = 1
          BY <5>1
        <5> QED
          BY <4>l, <5>2
      <4>4. audit[c] = <<"error">> /\ done[c] > 0 => dispatched[c] > 1
        BY <2>1, <2>2, <2>6 DEF TokenInv
      <4> QED
        BY <3>3, <4>3, <4>4
    <3>4. CASE ~Presses[c].token
      BY <2>1, <2>2, <2>3, <2>6, <3>2, <3>4 DEF CountsInv
    <3> QED
      BY <3>3, <3>4
  <2> QED
    BY <2>4, <2>5, <2>6
<1> QED
  BY <1>1, InteractionInitInv, InteractionKeeps, PTL DEF InteractionSpec

----------------------------------------------------------------------------
(***************************************************************************)
(* The rate limiter, for any number of requests, burst, refill and time.   *)
(***************************************************************************)
RateRequestState(n) ==
    [pc : {"idle", "read", "refill", "take", "taken"}, bucket : 0 .. n, tokens : Nat, at : 0 .. MaxTime]

\* What flows back in a time.
Flow(t) == t * Refill

LEMMA FlowGrows ==
    ASSUME NEW t \in Nat
    PROVE  Flow(t) \in Nat /\ Flow(0) = 0 /\ Flow(t + 1) = Flow(t) + Refill
<1>1. Refill \in Nat
  BY RateLimiterAssumption
<1> QED
  BY <1>1 DEF Flow

LEMMA FlowFills ==
    ASSUME NEW t \in Nat, t > StaleAfter
    PROVE  Flow(t) >= Burst
<1>1. Refill \in Nat /\ StaleAfter \in Nat /\ Burst \in Nat /\ Burst <= StaleAfter * Refill
  BY RateLimiterAssumption
<1>2. PICK k \in Nat : t = StaleAfter + k
  <2>1. t - StaleAfter \in Nat /\ t = StaleAfter + (t - StaleAfter)
    BY <1>1
  <2> QED
    BY <2>1
<1>3. t * Refill = StaleAfter * Refill + k * Refill /\ k * Refill \in Nat /\ StaleAfter * Refill \in Nat
  BY <1>1, <1>2
<1> QED
  BY <1>1, <1>3 DEF Flow

LEMMA MissingFlowsBack ==
    \A s, t, r, m, f, g, b \in Nat :
        (t = 0 \/ t + r = s) /\ g = f + r /\ (s = 0 \/ s + m + f <= b) => t = 0 \/ t + m + g <= b
OBVIOUS

\* What holds of buckets and requests at all times.
BucketsInv ==
    /\ \A b \in DOMAIN buckets : buckets[b].last <= now
    /\ \A q \in RateRequests : Inside(q) =>
          /\ rateReq[q].bucket \in DOMAIN buckets
          /\ rateReq[q].at <= now
          /\ rateReq[q].pc = "taken" => rateReq[q].tokens >= 1

\* As long as nothing has raced, requests come one at a time, nobody comes while the cleanup is at
\* the bucket, and what is missing from it is at most what a full one lacks after all that flowed back.
CalmInv ==
    /\ spent <= Burst
    /\ current = 0 \/ cleanup # 0 => spent = 0
    /\ cleanup # 0 => \A q \in RateRequests : ~Inside(q)
    /\ \A p, q \in RateRequests : Inside(p) /\ Inside(q) => p = q
    /\ current # 0 =>
          /\ buckets[current].tokens <= Burst
          /\ spent = 0 \/ spent + buckets[current].tokens + Flow(now - buckets[current].last) <= Burst
    /\ \A q \in RateRequests : Inside(q) =>
          /\ rateReq[q].bucket = current /\ current # 0
          /\ rateReq[q].pc = "refill" =>
                spent = 0 \/ spent + rateReq[q].tokens + Flow(now - rateReq[q].at) <= Burst
          /\ rateReq[q].pc \in {"take", "taken"} => buckets[current].last = rateReq[q].at
          /\ rateReq[q].pc = "taken" => buckets[current].tokens = rateReq[q].tokens

RateInv == RateTypeOK /\ BucketsInv /\ (~raced => CalmInv)

LEMMA RateInitInv == RateInit => RateInv
<1> SUFFICES ASSUME RateInit PROVE RateInv
  OBVIOUS
<1>0. Burst \in Nat /\ MaxTime \in Nat
  BY RateLimiterAssumption
<1>1. buckets \in Seq(Bucket) /\ Len(buckets) = 0 /\ DOMAIN buckets = {}
  BY DEF RateInit
<1>2. \A q \in RateRequests : rateReq[q].pc = "idle"
  BY DEF RateInit, IdleRateRequest
<1>3. \A q \in RateRequests : ~Inside(q)
  BY <1>2 DEF Inside
<1>4. RateTypeOK
  <2>1. IdleRateRequest \in RateRequestState(0)
    BY <1>0 DEF IdleRateRequest, RateRequestState
  <2>2. rateReq \in [RateRequests -> RateRequestState(Len(buckets))]
    BY <1>1, <2>1 DEF RateInit
  <2>3. now = 0 /\ current = 0 /\ cleanup = 0 /\ spent = 0 /\ raced \in BOOLEAN
    BY DEF RateInit
  <2>4. now \in 0 .. MaxTime /\ current \in 0 .. Len(buckets) /\ cleanup \in 0 .. Len(buckets) /\ spent \in Nat
    BY <1>0, <1>1, <2>3
  <2> QED
    BY <1>1, <2>2, <2>3, <2>4 DEF RateTypeOK, RateRequestState
<1>5. BucketsInv /\ CalmInv
  BY <1>0, <1>1, <1>3 DEF RateInit, BucketsInv, CalmInv
<1> QED
  BY <1>4, <1>5 DEF RateInv

LEMMA RateKeeps ==
    ASSUME RateInv, [RateNext]_rateVars
    PROVE  RateInv'
<1>0. /\ Burst \in Nat /\ Refill \in Nat /\ StaleAfter \in Nat /\ MaxTime \in Nat
      /\ now \in Nat /\ now <= MaxTime /\ spent \in Nat /\ raced \in BOOLEAN
      /\ buckets \in Seq(Bucket) /\ Len(buckets) \in Nat /\ DOMAIN buckets = 1 .. Len(buckets)
      /\ current \in 0 .. Len(buckets) /\ cleanup \in 0 .. Len(buckets)
      /\ rateReq \in [RateRequests -> RateRequestState(Len(buckets))]
  BY RateLimiterAssumption DEF RateInv, RateTypeOK, RateRequestState
<1>b. \A b \in DOMAIN buckets : buckets[b] \in Bucket /\ buckets[b].tokens \in Nat /\ buckets[b].last \in Nat
  <2>1. \A b \in DOMAIN buckets : buckets[b] \in Bucket
    BY <1>0
  <2> QED
    BY <2>1 DEF Bucket
<1>q. \A q \in RateRequests : rateReq[q] \in RateRequestState(Len(buckets))
  BY <1>0
<1>i. IdleRateRequest.pc = "idle" /\ \A n \in Nat : IdleRateRequest \in RateRequestState(n)
  BY <1>0 DEF IdleRateRequest, RateRequestState
<1>f. Flow(0) = 0 /\ \A t \in Nat : Flow(t) \in Nat /\ Flow(t + 1) = Flow(t) + Refill
  BY FlowGrows
<1>1. ASSUME TimePasses
      PROVE  RateInv'
  <2>1. /\ now < MaxTime /\ now' = now + 1 /\ spent' = spent - AtMost(Refill, spent)
        /\ UNCHANGED <<buckets, current, rateReq, cleanup, raced>>
    BY <1>1 DEF TimePasses
  <2>2. spent' \in Nat /\ (spent' = 0 \/ spent' + Refill = spent) /\ spent' <= spent
    BY <1>0, <2>1 DEF AtMost
  <2>3. RateTypeOK'
    BY <1>0, <2>1, <2>2 DEF RateInv, RateTypeOK
  <2>4. BucketsInv'
    <3>1. now' \in Nat /\ \A n \in Nat : n <= now => n <= now'
      BY <1>0, <2>1
    <3>2. \A q \in RateRequests : rateReq[q].at \in Nat /\ (Inside(q)' <=> Inside(q))
      BY <1>q, <2>1 DEF RateRequestState, Inside
    <3> QED
      BY <1>b, <2>1, <3>1, <3>2 DEF RateInv, BucketsInv
  <2>5. ASSUME ~raced PROVE CalmInv'
    <3>1. \A n \in Nat : n <= now => Flow(now' - n) = Flow(now - n) + Refill /\ Flow(now - n) \in Nat
      <4> SUFFICES ASSUME NEW n \in Nat, n <= now
                   PROVE  Flow(now' - n) = Flow(now - n) + Refill /\ Flow(now - n) \in Nat
        OBVIOUS
      <4>1. now - n \in Nat /\ now' - n = (now - n) + 1
        BY <1>0, <2>1
      <4> QED
        BY <1>f, <4>1
    <3>2. \A q \in RateRequests : Inside(q)' <=> Inside(q)
      BY <2>1 DEF Inside
    <3>3. \A m, n \in Nat : n <= now /\ (spent = 0 \/ spent + m + Flow(now - n) <= Burst) =>
             (spent' = 0 \/ spent' + m + Flow(now' - n) <= Burst)
      <4> SUFFICES ASSUME NEW m \in Nat, NEW n \in Nat, n <= now, spent = 0 \/ spent + m + Flow(now - n) <= Burst
                   PROVE  spent' = 0 \/ spent' + m + Flow(now' - n) <= Burst
        OBVIOUS
      <4>1. PICK f \in Nat : f = Flow(now - n)
        BY <3>1
      <4>2. PICK g \in Nat : g = Flow(now' - n) /\ g = f + Refill
        BY <1>0, <3>1, <4>1
      <4>3. spent = 0 \/ spent + m + f <= Burst
        BY <4>1
      <4>4. spent' = 0 \/ spent' + m + g <= Burst
        BY <1>0, <2>2, <4>2, <4>3, MissingFlowsBack
      <4> QED
        BY <4>2, <4>4
    <3>4. spent' <= Burst /\ (current = 0 \/ cleanup # 0 => spent' = 0)
      BY <1>0, <2>2, <2>5 DEF RateInv, CalmInv
    <3>5. current # 0 =>
            spent' = 0 \/ spent' + buckets[current].tokens + Flow(now' - buckets[current].last) <= Burst
      <4>1. current # 0 => current \in DOMAIN buckets
        BY <1>0
      <4> QED
        BY <1>b, <2>5, <3>3, <4>1 DEF RateInv, CalmInv, BucketsInv
    <3>6. \A q \in RateRequests : Inside(q) /\ rateReq[q].pc = "refill" =>
             spent' = 0 \/ spent' + rateReq[q].tokens + Flow(now' - rateReq[q].at) <= Burst
      <4>1. \A q \in RateRequests : rateReq[q].tokens \in Nat /\ rateReq[q].at \in Nat
        BY <1>q DEF RateRequestState
      <4> QED
        BY <2>5, <3>3, <4>1 DEF RateInv, CalmInv, BucketsInv
    <3> QED
      BY <2>1, <2>5, <3>2, <3>4, <3>5, <3>6 DEF RateInv, CalmInv
  <2> QED
    BY <2>1, <2>3, <2>4, <2>5 DEF RateInv
<1>2. ASSUME NEW q \in RateRequests, LoadBucket(q)
      PROVE  RateInv'
  <2>c. PICK c : c = current'
    OBVIOUS
  <2> DEFINE to == [IdleRateRequest EXCEPT !.pc = "read", !.bucket = c]
  <2>1. /\ rateReq[q].pc = "idle" /\ rateReq' = [rateReq EXCEPT ![q] = to]
        /\ raced' = (raced \/ cleanup # 0 \/ \E other \in RateRequests : Inside(other))
        /\ UNCHANGED <<now, cleanup, spent>>
    BY <1>2, <2>c DEF LoadBucket, RequestStep
  <2>2. /\ Len(buckets') \in Nat /\ Len(buckets') >= Len(buckets) /\ buckets' \in Seq(Bucket)
        /\ DOMAIN buckets' = 1 .. Len(buckets') /\ current' \in DOMAIN buckets'
        /\ \A b \in DOMAIN buckets : buckets'[b] = buckets[b]
        /\ \A b \in DOMAIN buckets' : b \in DOMAIN buckets \/ buckets'[b].last = now
        /\ \/ current = 0 /\ buckets'[current'].tokens = Burst /\ buckets'[current'].last = now
           \/ current # 0 /\ current' = current /\ current \in DOMAIN buckets
    <3>1. CASE current = 0
      <4> DEFINE new == [tokens |-> Burst, last |-> now]
      <4>1. buckets' = Append(buckets, new) /\ current' = Len(buckets) + 1
        BY <1>2, <3>1 DEF LoadBucket
      <4>2. new \in Bucket /\ new.tokens = Burst /\ new.last = now
        BY <1>0 DEF Bucket
      <4> HIDE DEF new
      <4>3. /\ buckets' \in Seq(Bucket) /\ Len(buckets') = Len(buckets) + 1
            /\ DOMAIN buckets' = DOMAIN buckets \union {Len(buckets) + 1}
            /\ buckets'[Len(buckets) + 1] = new /\ \A b \in DOMAIN buckets : buckets'[b] = buckets[b]
        BY <1>0, <4>1, <4>2
      <4> QED
        BY <1>0, <3>1, <4>1, <4>2, <4>3
    <3>2. CASE current # 0
      <4>1. buckets' = buckets /\ current' = current
        BY <1>2, <3>2 DEF LoadBucket
      <4> QED
        BY <1>0, <3>2, <4>1
    <3> QED
      BY <3>1, <3>2
  <2>3. /\ to \in RateRequestState(Len(buckets')) /\ to.pc = "read" /\ to.bucket = current' /\ to.at = 0
    <3>1. c \in 0 .. Len(buckets')
      BY <2>c, <2>2
    <3>2. IdleRateRequest \in RateRequestState(Len(buckets')) /\ IdleRateRequest.at = 0
      BY <1>i, <2>2 DEF IdleRateRequest
    <3> QED
      BY <2>c, <3>1, <3>2 DEF RateRequestState
  <2> HIDE DEF to
  <2>4. /\ rateReq' \in [RateRequests -> RateRequestState(Len(buckets'))] /\ rateReq'[q] = to
        /\ \A p \in RateRequests : p # q => rateReq'[p] = rateReq[p]
    <3>1. rateReq \in [RateRequests -> RateRequestState(Len(buckets'))]
      <4>1. \A s \in RateRequestState(Len(buckets)) : s \in RateRequestState(Len(buckets'))
        BY <1>0, <2>2 DEF RateRequestState
      <4> QED
        BY <1>0, <4>1
    <3> QED
      BY <2>1, <2>3, <3>1
  <2>5. Inside(q)' /\ \A p \in RateRequests : p # q => (Inside(p)' <=> Inside(p))
    BY <2>3, <2>4 DEF Inside
  <2>6. RateTypeOK'
    <3>1. raced' \in BOOLEAN
      BY <2>1
    <3>2. current' \in 0 .. Len(buckets') /\ cleanup' \in 0 .. Len(buckets')
      BY <1>0, <2>1, <2>2
    <3> QED
      BY <1>0, <2>1, <2>2, <2>4, <3>1, <3>2 DEF RateTypeOK, RateRequestState
  <2>7. BucketsInv'
    BY <1>0, <2>1, <2>2, <2>3, <2>4, <2>5 DEF RateInv, BucketsInv
  <2>8. ASSUME ~raced' PROVE CalmInv'
    <3>1. ~raced /\ cleanup = 0 /\ \A p \in RateRequests : ~Inside(p)
      BY <2>1, <2>8
    <3>2. buckets'[current'].tokens <= Burst
      BY <1>0, <2>2, <3>1 DEF RateInv, CalmInv
    <3>3. spent = 0 \/ spent + buckets'[current'].tokens + Flow(now - buckets'[current'].last) <= Burst
      BY <1>0, <2>2, <3>1 DEF RateInv, CalmInv
    <3>4. current' # 0
      BY <2>2
    <3>5. \A p \in RateRequests : Inside(p)' => p = q
      BY <2>5, <3>1
    <3> QED
      BY <2>1, <2>3, <2>4, <3>1, <3>2, <3>3, <3>4, <3>5 DEF RateInv, CalmInv
  <2> QED
    BY <2>6, <2>7, <2>8 DEF RateInv
<1>3. ASSUME NEW q \in RateRequests, ReadBucket(q)
      PROVE  RateInv'
  <2>p. PICK b, d : b = buckets[rateReq[q].bucket] /\ d = now - b.last
    OBVIOUS
  <2>f. PICK f : f = Flow(d)
    OBVIOUS
  <2> DEFINE to == [rateReq[q] EXCEPT !.pc = "refill", !.at = now, !.tokens = b.tokens + f]
  <2>1. /\ rateReq[q].pc = "read" /\ rateReq' = [rateReq EXCEPT ![q] = to]
        /\ UNCHANGED <<now, buckets, current, cleanup, spent, raced>>
    BY <1>3, <2>p, <2>f DEF ReadBucket, RequestStep, Flow
  <2>2. Inside(q) /\ rateReq[q].bucket \in DOMAIN buckets
    BY <2>1 DEF RateInv, BucketsInv, Inside
  <2>3. b.tokens \in Nat /\ d \in Nat
    <3>1. b.last \in Nat /\ b.last <= now /\ b.tokens \in Nat
      BY <1>b, <2>p, <2>2 DEF RateInv, BucketsInv
    <3> QED
      BY <1>0, <2>p, <3>1
  <2>4. f \in Nat
    BY <1>f, <2>f, <2>3
  <2>5. /\ to \in RateRequestState(Len(buckets)) /\ to.pc = "refill" /\ to.bucket = rateReq[q].bucket /\ to.at = now
        /\ to.tokens = b.tokens + f
    <3>1. now \in 0 .. MaxTime /\ b.tokens + f \in Nat
      BY <1>0, <2>3, <2>4
    <3> QED
      BY <1>q, <3>1 DEF RateRequestState
  <2> HIDE DEF to
  <2>6. /\ rateReq' \in [RateRequests -> RateRequestState(Len(buckets))] /\ rateReq'[q] = to
        /\ \A p \in RateRequests : p # q => rateReq'[p] = rateReq[p]
    BY <1>0, <2>1, <2>5
  <2>7. \A p \in RateRequests : Inside(p)' <=> Inside(p)
    BY <2>2, <2>5, <2>6 DEF Inside
  <2>8. RateTypeOK'
    BY <1>0, <2>1, <2>6 DEF RateTypeOK, RateRequestState
  <2>9. BucketsInv'
    BY <1>0, <2>1, <2>2, <2>5, <2>6, <2>7 DEF RateInv, BucketsInv
  <2>10. ASSUME ~raced PROVE CalmInv'
    <3>1. spent = 0 \/ spent + to.tokens + Flow(now - now) <= Burst
      <4>1. rateReq[q].bucket = current
        BY <2>2, <2>10 DEF RateInv, CalmInv
      <4>2. spent = 0 \/ spent + b.tokens + f <= Burst
        BY <2>p, <2>f, <2>2, <2>10, <4>1 DEF RateInv, CalmInv
      <4>3. now - now = 0 /\ Flow(now - now) = 0
        BY <1>0, <1>f
      <4>4. spent = 0 \/ spent + to.tokens <= Burst
        BY <1>0, <2>3, <2>4, <2>5, <4>2
      <4> QED
        BY <1>0, <2>3, <2>4, <2>5, <4>3, <4>4
    <3> QED
      BY <2>1, <2>2, <2>5, <2>6, <2>7, <2>10, <3>1 DEF RateInv, CalmInv
  <2> QED
    BY <2>1, <2>8, <2>9, <2>10 DEF RateInv
<1>4. ASSUME NEW q \in RateRequests, RefillBucket(q)
      PROVE  RateInv'
  <2>p. PICK k : k = rateReq[q].bucket
    OBVIOUS
  <2> DEFINE row == [tokens |-> AtMost(rateReq[q].tokens, Burst), last |-> rateReq[q].at]
             to == [rateReq[q] EXCEPT !.pc = "take", !.tokens = 0]
  <2>1. /\ rateReq[q].pc = "refill" /\ rateReq' = [rateReq EXCEPT ![q] = to]
        /\ buckets' = [buckets EXCEPT ![k] = row]
        /\ UNCHANGED <<now, current, cleanup, spent, raced>>
    BY <1>4, <2>p DEF RefillBucket, RequestStep
  <2>2. Inside(q) /\ k \in DOMAIN buckets /\ rateReq[q].at <= now
    BY <2>p, <2>1 DEF RateInv, BucketsInv, Inside
  <2>3. rateReq[q].tokens \in Nat /\ rateReq[q].at \in Nat
    BY <1>q DEF RateRequestState
  <2>4. /\ row \in Bucket /\ row.last = rateReq[q].at /\ row.tokens <= Burst /\ row.tokens <= rateReq[q].tokens
        /\ row.tokens \in Nat
    BY <1>0, <2>3 DEF Bucket, AtMost
  <2>5. /\ to \in RateRequestState(Len(buckets)) /\ to.pc = "take" /\ to.bucket = k /\ to.at = rateReq[q].at
    BY <1>q, <2>p DEF RateRequestState
  <2> HIDE DEF to, row
  <2>6. /\ rateReq' \in [RateRequests -> RateRequestState(Len(buckets))] /\ rateReq'[q] = to
        /\ \A p \in RateRequests : p # q => rateReq'[p] = rateReq[p]
    BY <1>0, <2>1, <2>5
  <2>7. /\ buckets' \in Seq(Bucket) /\ Len(buckets') = Len(buckets) /\ DOMAIN buckets' = DOMAIN buckets
        /\ buckets'[k] = row /\ \A b \in DOMAIN buckets : b # k => buckets'[b] = buckets[b]
    BY <1>0, <2>1, <2>2, <2>4
  <2>8. \A p \in RateRequests : Inside(p)' <=> Inside(p)
    BY <2>2, <2>5, <2>6 DEF Inside
  <2>9. RateTypeOK'
    BY <1>0, <2>1, <2>6, <2>7 DEF RateTypeOK, RateRequestState
  <2>10. BucketsInv'
    BY <1>0, <2>1, <2>2, <2>4, <2>5, <2>6, <2>7, <2>8 DEF RateInv, BucketsInv
  <2>11. ASSUME ~raced PROVE CalmInv'
    <3>1. current = k /\ current # 0 /\ \A p \in RateRequests : Inside(p) => p = q
      BY <2>p, <2>2, <2>11 DEF RateInv, CalmInv
    <3>2. spent = 0 \/ spent + row.tokens + Flow(now - row.last) <= Burst
      <4>1. spent = 0 \/ spent + rateReq[q].tokens + Flow(now - rateReq[q].at) <= Burst
        BY <2>1, <2>2, <2>11 DEF RateInv, CalmInv
      <4>2. now - rateReq[q].at \in Nat
        BY <1>0, <2>2, <2>3
      <4>3. Flow(now - rateReq[q].at) \in Nat
        BY <1>f, <4>2
      <4> QED
        BY SMTT(30), <1>0, <2>3, <2>4, <4>1, <4>3
    <3> QED
      BY <2>1, <2>4, <2>5, <2>6, <2>7, <2>8, <2>11, <3>1, <3>2 DEF RateInv, CalmInv
  <2> QED
    BY <2>1, <2>9, <2>10, <2>11 DEF RateInv
<1>5. ASSUME NEW q \in RateRequests, FindsToken(q)
      PROVE  RateInv'
  <2>p. PICK k : k = rateReq[q].bucket
    OBVIOUS
  <2> DEFINE to == [rateReq[q] EXCEPT !.pc = "taken", !.tokens = buckets[k].tokens]
  <2>1. /\ rateReq[q].pc = "take" /\ rateReq' = [rateReq EXCEPT ![q] = to] /\ buckets[k].tokens >= 1
        /\ UNCHANGED <<now, buckets, current, cleanup, spent, raced>>
    BY <1>5, <2>p DEF FindsToken, RequestStep
  <2>2. Inside(q) /\ k \in DOMAIN buckets /\ rateReq[q].at <= now
    BY <2>p, <2>1 DEF RateInv, BucketsInv, Inside
  <2>3. buckets[k].tokens \in Nat
    BY <1>b, <2>2
  <2>5. /\ to \in RateRequestState(Len(buckets)) /\ to.pc = "taken" /\ to.bucket = k /\ to.at = rateReq[q].at
        /\ to.tokens = buckets[k].tokens
    BY <1>q, <2>p, <2>3 DEF RateRequestState
  <2> HIDE DEF to
  <2>6. /\ rateReq' \in [RateRequests -> RateRequestState(Len(buckets))] /\ rateReq'[q] = to
        /\ \A p \in RateRequests : p # q => rateReq'[p] = rateReq[p]
    BY <1>0, <2>1, <2>5
  <2>8. \A p \in RateRequests : Inside(p)' <=> Inside(p)
    BY <2>2, <2>5, <2>6 DEF Inside
  <2>9. RateTypeOK'
    BY <1>0, <2>1, <2>6 DEF RateTypeOK, RateRequestState
  <2>10. BucketsInv'
    BY <1>0, <2>1, <2>2, <2>5, <2>6, <2>8 DEF RateInv, BucketsInv
  <2>11. ASSUME ~raced PROVE CalmInv'
    <3>1. current = k
      BY <2>p, <2>2, <2>11 DEF RateInv, CalmInv
    <3> QED
      BY <2>1, <2>2, <2>5, <2>6, <2>8, <2>11, <3>1 DEF RateInv, CalmInv
  <2> QED
    BY <2>1, <2>9, <2>10, <2>11 DEF RateInv
<1>6. ASSUME NEW q \in RateRequests, TakesToken(q)
      PROVE  RateInv'
  <2>p. PICK k : k = rateReq[q].bucket
    OBVIOUS
  <2> DEFINE row == [buckets[k] EXCEPT !.tokens = rateReq[q].tokens - 1]
  <2>1. /\ rateReq[q].pc = "taken" /\ rateReq' = [rateReq EXCEPT ![q] = IdleRateRequest]
        /\ buckets' = [buckets EXCEPT ![k] = row]
        /\ raced' = (raced \/ rateReq[q].at # now)
        /\ spent' = IF raced' THEN 0 ELSE spent + 1
        /\ UNCHANGED <<now, current, cleanup>>
    BY <1>6, <2>p DEF TakesToken, RequestStep
  <2>2. Inside(q) /\ k \in DOMAIN buckets /\ rateReq[q].at <= now /\ rateReq[q].tokens >= 1
    BY <2>p, <2>1 DEF RateInv, BucketsInv, Inside
  <2>3. rateReq[q].tokens \in Nat /\ rateReq[q].at \in Nat
    BY <1>q DEF RateRequestState
  <2>4. row \in Bucket /\ row.last = buckets[k].last /\ row.tokens + 1 = rateReq[q].tokens /\ row.tokens \in Nat
    <3>1. buckets[k] \in Bucket /\ rateReq[q].tokens - 1 \in Nat /\ (rateReq[q].tokens - 1) + 1 = rateReq[q].tokens
      BY <1>b, <2>2, <2>3
    <3> QED
      BY <3>1 DEF Bucket
  <2> HIDE DEF row
  <2>6. /\ rateReq' \in [RateRequests -> RateRequestState(Len(buckets))] /\ rateReq'[q].pc = "idle"
        /\ \A p \in RateRequests : p # q => rateReq'[p] = rateReq[p]
    BY <1>0, <1>i, <2>1
  <2>7. /\ buckets' \in Seq(Bucket) /\ Len(buckets') = Len(buckets) /\ DOMAIN buckets' = DOMAIN buckets
        /\ buckets'[k] = row /\ \A b \in DOMAIN buckets : b # k => buckets'[b] = buckets[b]
    BY <1>0, <2>1, <2>2, <2>4
  <2>8. ~Inside(q)' /\ \A p \in RateRequests : p # q => (Inside(p)' <=> Inside(p))
    BY <2>6 DEF Inside
  <2>9. RateTypeOK'
    <3>1. spent' \in Nat /\ raced' \in BOOLEAN
      BY <1>0, <2>1
    <3> QED
      BY <1>0, <2>1, <2>6, <2>7, <3>1 DEF RateTypeOK, RateRequestState
  <2>10. BucketsInv'
    BY <1>0, <2>1, <2>2, <2>4, <2>6, <2>7, <2>8 DEF RateInv, BucketsInv
  <2>11. ASSUME ~raced' PROVE CalmInv'
    <3>1. ~raced /\ rateReq[q].at = now /\ spent' = spent + 1
      BY <2>1, <2>11
    <3>2. /\ current = k /\ current # 0 /\ cleanup = 0
          /\ buckets[k].last = now /\ buckets[k].tokens = rateReq[q].tokens /\ buckets[k].tokens <= Burst
          /\ spent = 0 \/ spent + buckets[k].tokens + Flow(now - buckets[k].last) <= Burst
      BY <2>p, <2>1, <2>2, <3>1 DEF RateInv, CalmInv
    <3>3. now - now = 0 /\ Flow(now - now) = 0
      BY <1>0, <1>f
    <3>4. spent' <= Burst /\ row.tokens <= Burst /\ spent' + row.tokens + Flow(now - row.last) <= Burst
      <4>1. spent \in Nat /\ Burst \in Nat
        BY <1>0
      <4>2. Flow(now - row.last) = 0
        BY <2>4, <3>2, <3>3
      <4>3. PICK t \in Nat : t = rateReq[q].tokens
        BY <2>3
      <4>4. t <= Burst /\ (spent = 0 \/ spent + t <= Burst)
        BY <3>2, <3>3, <4>1, <4>3
      <4> QED
        BY <2>4, <3>1, <4>1, <4>2, <4>3, <4>4
    <3>5. \A p \in RateRequests : ~Inside(p)'
      BY <2>2, <2>8, <3>1 DEF RateInv, CalmInv
    <3> QED
      BY <2>1, <2>7, <3>2, <3>4, <3>5 DEF CalmInv
  <2> QED
    BY <2>9, <2>10, <2>11 DEF RateInv
<1>7. ASSUME NEW q \in RateRequests, IsLimited(q)
      PROVE  RateInv'
  <2>1. /\ rateReq[q].pc = "take" /\ rateReq' = [rateReq EXCEPT ![q] = IdleRateRequest]
        /\ UNCHANGED <<now, buckets, current, cleanup, spent, raced>>
    BY <1>7 DEF IsLimited, RequestStep
  <2>6. /\ rateReq' \in [RateRequests -> RateRequestState(Len(buckets))] /\ rateReq'[q].pc = "idle"
        /\ \A p \in RateRequests : p # q => rateReq'[p] = rateReq[p]
    BY <1>0, <1>i, <2>1
  <2>8. ~Inside(q)' /\ \A p \in RateRequests : p # q => (Inside(p)' <=> Inside(p))
    BY <2>6 DEF Inside
  <2>9. RateTypeOK'
    BY <1>0, <2>1, <2>6 DEF RateTypeOK, RateRequestState
  <2>10. BucketsInv'
    BY <2>1, <2>6, <2>8 DEF RateInv, BucketsInv
  <2>11. ASSUME ~raced PROVE CalmInv'
    BY <2>1, <2>6, <2>8, <2>11 DEF RateInv, CalmInv
  <2> QED
    BY <2>1, <2>9, <2>10, <2>11 DEF RateInv
<1>8. ASSUME CleanupLooks
      PROVE  RateInv'
  <2>1. /\ cleanup = 0 /\ current # 0 /\ now - buckets[current].last > StaleAfter /\ cleanup' = current
        /\ raced' = (raced \/ \E q \in RateRequests : Inside(q))
        /\ UNCHANGED <<now, buckets, current, rateReq, spent>>
    BY <1>8 DEF CleanupLooks
  <2>2. \A q \in RateRequests : Inside(q)' <=> Inside(q)
    BY <2>1 DEF Inside
  <2>3. RateTypeOK' /\ BucketsInv'
    <3>1. raced' \in BOOLEAN
      BY <2>1
    <3> QED
      BY <1>0, <2>1, <2>2, <3>1 DEF RateInv, RateTypeOK, BucketsInv
  <2>4. ASSUME ~raced' PROVE CalmInv'
    <3>1. ~raced /\ \A q \in RateRequests : ~Inside(q)
      BY <2>1, <2>4
    <3>2. current \in DOMAIN buckets
      BY <1>0, <2>1
    <3>3. buckets[current].last \in Nat /\ buckets[current].last <= now /\ buckets[current].tokens \in Nat
      BY <1>b, <3>2 DEF RateInv, BucketsInv
    <3>4. now - buckets[current].last \in Nat
      BY <1>0, <3>3
    <3>5. Flow(now - buckets[current].last) >= Burst /\ Flow(now - buckets[current].last) \in Nat
      BY <1>f, <2>1, <3>4, FlowFills
    <3>6. spent = 0
      <4>1. spent = 0 \/ spent + buckets[current].tokens + Flow(now - buckets[current].last) <= Burst
        BY <2>1, <3>1 DEF RateInv, CalmInv
      <4> QED
        BY <1>0, <3>3, <3>5, <4>1
    <3> QED
      BY <1>0, <2>1, <2>2, <3>1, <3>6 DEF RateInv, CalmInv
  <2> QED
    BY <2>3, <2>4 DEF RateInv
<1>9. ASSUME CleanupDeletes
      PROVE  RateInv'
  <2>1. /\ cleanup # 0 /\ cleanup' = 0 /\ current' = 0
        /\ UNCHANGED <<now, buckets, rateReq, spent, raced>>
    BY <1>9 DEF CleanupDeletes
  <2>2. \A q \in RateRequests : Inside(q)' <=> Inside(q)
    BY <2>1 DEF Inside
  <2>3. RateTypeOK' /\ BucketsInv'
    BY <1>0, <2>1, <2>2 DEF RateInv, RateTypeOK, BucketsInv
  <2>4. ASSUME ~raced PROVE CalmInv'
    BY <2>1, <2>2, <2>4 DEF RateInv, CalmInv
  <2> QED
    BY <2>1, <2>3, <2>4 DEF RateInv
<1>10. CASE UNCHANGED rateVars
  BY <1>10 DEF rateVars, RateInv, RateTypeOK, BucketsInv, CalmInv, Inside
<1> QED
  BY <1>1, <1>2, <1>3, <1>4, <1>5, <1>6, <1>7, <1>8, <1>9, <1>10 DEF RateNext

\* The invariant holds of every behaviour.
LEMMA RateInductive == RateSpec => []RateInv
  BY RateInitInv, RateKeeps, PTL DEF RateSpec

(***************************************************************************)
(* A client is let through no more often than its bucket's burst and       *)
(* refill allow, also when the cleanup has given it a new one, unless two  *)
(* were inside allow() at a time, or one while the cleanup looked or time  *)
(* passed (rate_limiter.go, allow and cleanup).                            *)
(***************************************************************************)
THEOREM ClientsKeepToTheirBudget == RateSpec => []BudgetHolds
<1>1. RateInv => BudgetHolds
  BY DEF RateInv, CalmInv, BudgetHolds
<1> QED
  BY <1>1, RateInitInv, RateKeeps, PTL DEF RateSpec

----------------------------------------------------------------------------
(***************************************************************************)
(* The whole.                                                              *)
(***************************************************************************)
\* A step of the whole is one of a part, and leaves the others alone.
LEMMA RecordsStep ==
    ASSUME [RecordsNext]_vars
    PROVE  /\ [RetentionNext]_retentionVars /\ [KbNext]_kbVars /\ [LeasesNext]_leaseVars
           /\ [TeamsNext]_teamsVars /\ [InteractionNext]_interactionVars /\ [RateNext]_rateVars
           /\ [SloNext]_sloVars /\ [CatalogueNext]_catalogueVars
<1>1. CASE RecordsNext
  BY <1>1 DEF RecordsNext
<1>2. CASE UNCHANGED vars
  BY <1>2 DEF vars
<1> QED
  BY <1>1, <1>2

(***************************************************************************)
(* Whatever the whole does, each part does what its own specification      *)
(* says: what is proved of a part holds of the whole.                      *)
(***************************************************************************)
THEOREM RecordsAreTheirParts ==
    RecordsSpec =>
        /\ RetentionSpec /\ KbSpec /\ LeasesSpec /\ TeamsSpec /\ InteractionSpec
        /\ RateSpec /\ SloSpec /\ CatalogueSpec
<1>1. RecordsInit => /\ RetentionInit /\ KbInit /\ LeasesInit /\ TeamsInit
                     /\ InteractionInit /\ RateInit /\ SloInit /\ CatalogueInit
  BY DEF RecordsInit
<1> QED
  BY <1>1, RecordsStep, PTL
     DEF RecordsSpec, RetentionSpec, KbSpec, LeasesSpec, TeamsSpec, InteractionSpec,
         RateSpec, SloSpec, CatalogueSpec

(***************************************************************************)
(* The types of all these rows, side by side, whichever of the components  *)
(* moves.                                                                  *)
(***************************************************************************)
THEOREM RecordsTypeCorrect == RecordsSpec => []RecordsTypeOK
<1>1. /\ KbInv => KbTypeOK
      /\ LeasesInv => LeasesTypeOK
      /\ InteractionInv => InteractionTypeOK
      /\ RateInv => RateTypeOK
      /\ SloInv => SloTypeOK
      /\ CatalogueInv => CatalogueTypeOK
  BY DEF KbInv, LeasesInv, InteractionInv, RateInv, SloInv, CatalogueInv
<1> QED
  BY <1>1, RecordsAreTheirParts, RetentionTypeCorrect, KbInductive, LeasesInductive, TeamsInductive, TeamsInvGivesTypes,
     InteractionInductive, RateInductive, SloInductive, CatalogueInductive, PTL DEF RecordsTypeOK
============================================================================
