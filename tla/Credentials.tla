---------------------------- MODULE Credentials ----------------------------
(***************************************************************************)
(* Credential leases of one incident: a resource credential of a provider, *)
(* the requests that lease it, and what the holders of leases are told of  *)
(* how long their secrets are good for.                                    *)
(*                                                                         *)
(* A request fixes the times of the lease, then has the provider make the  *)
(* secret, which may take its time, then stores the lease and answers.     *)
(* Time is a number; so is a time to live, of which 0 means "not set".     *)
(***************************************************************************)
EXTENDS Naturals, Sequences, FiniteSetsExt

CONSTANTS
    LeaseRequests,      \* concurrent POST /credentials/leases/request
    ProviderTypes,      \* what provider_type may say
    TTLs,               \* what rows and requests may say
    FallbackTTL,        \* 3600
    TokenLives,         \* for how long Azure may make a token good
    NoRow,
    MaxRowEdits,        \* bound: edits of the provider and the credential
    MaxLeases,          \* bound: leases
    MaxInstant          \* bound: time

Credential == [default : TTLs, cap : TTLs]

ASSUME CredentialsAssumption ==
    /\ TTLs \subseteq Nat /\ FallbackTTL \in Nat \ {0} /\ TokenLives \subseteq Nat \ {0}
    /\ {MaxRowEdits, MaxLeases, MaxInstant} \subseteq Nat
    /\ NoRow \notin Credential

VARIABLES
    instant,            \* the clock
    providerType,       \* provider_type of the provider; its other columns do not matter here
    credential,         \* the resource credential
    incidentStored,     \* the incident the leases are for is there
    leases,             \* its rows of credential_leases, oldest first
    leaseReq,           \* the requests
    handedOut,          \* history: the secrets answered, with what their holders were told
    rowEdits            \* edits of the provider and the credential so far

leaseVars == <<instant, providerType, credential, incidentStored, leases, leaseReq, handedOut, rowEdits>>

Lease == [issued : Nat, expires : Nat, status : {"active", "revoked"}]

\* A secret, with the lease it was made for: how long its holder is told it is good for, how long
\* it is (0: until somebody changes it), and when it was answered.
Secret == [lease : Nat, told : Nat, token : Nat, at : Nat]

\* One request: the time to live and the time of issue it has fixed, the secret made for it (0:
\* it has no end of its own), what its holder will be told, and its lease once that is stored.
IdleRequest == [pc |-> "idle", ttl |-> 0, issued |-> 0, token |-> 0, told |-> 0, lease |-> 0]

LeasesInit ==
    /\ instant = 0
    /\ providerType \in ProviderTypes
    /\ credential \in Credential
    /\ incidentStored = TRUE
    /\ leases = <<>>
    /\ leaseReq = [q \in LeaseRequests |-> IdleRequest]
    /\ handedOut = {}
    /\ rowEdits = 0

----------------------------------------------------------------------------
(***************************************************************************)
(* What goes on in the meantime                                            *)
(***************************************************************************)
InstantPasses ==
    /\ instant < MaxInstant
    /\ instant' = instant + 1
    /\ UNCHANGED <<providerType, credential, incidentStored, leases, leaseReq, handedOut, rowEdits>>

EditsRow ==
    /\ rowEdits < MaxRowEdits
    /\ rowEdits' = rowEdits + 1
    /\ UNCHANGED <<instant, incidentStored, leases, leaseReq, handedOut>>

UpdateProvider(type) ==
    /\ EditsRow
    /\ providerType' = type
    /\ UNCHANGED credential

\* Both times to live are overwritten, also by a request that does not carry them.
UpdateResourceCredential(default, cap) ==
    /\ credential # NoRow
    /\ EditsRow
    /\ credential' = [default |-> default, cap |-> cap]
    /\ UNCHANGED providerType

\* Refused once a lease refers to it.
DeleteResourceCredential ==
    /\ credential # NoRow
    /\ leases = <<>>
    /\ EditsRow
    /\ credential' = NoRow
    /\ UNCHANGED providerType

\* DELETE /incidents/:id clears the leases first, in one transaction (Retention has its steps).
DeleteIncident ==
    /\ incidentStored
    /\ incidentStored' = FALSE
    /\ leases' = <<>>
    /\ UNCHANGED <<instant, providerType, credential, leaseReq, handedOut, rowEdits>>

\* RevokeLease reads the lease and writes it back revoked, whatever it was.  The secret lives on.
RevokeLease(l) ==
    /\ leases' = [leases EXCEPT ![l].status = "revoked"]
    /\ UNCHANGED <<instant, providerType, credential, incidentStored, leaseReq, handedOut, rowEdits>>

----------------------------------------------------------------------------
(***************************************************************************)
(* RequestLease                                                            *)
(***************************************************************************)
RequestMoves(q, to) ==
    /\ leaseReq' = [leaseReq EXCEPT ![q] = to]
    /\ UNCHANGED <<instant, providerType, credential, incidentStored, rowEdits>>

FirstSet(ttls) == ttls[Min({k \in DOMAIN ttls : ttls[k] > 0})]
Capped(ttl, cap) == IF cap > 0 /\ ttl > cap THEN cap ELSE ttl

\* A request for a resource credential that is not there is refused.  The lookups of access
\* policies that follow always fail, as they name a column the table does not have, and their
\* errors are dropped: no policy caps or refuses anything.
LeaseIsTimed(q, asked) ==
    /\ leaseReq[q].pc = "idle"
    /\ credential # NoRow
    /\ RequestMoves(q, [IdleRequest EXCEPT !.pc = "resolve", !.issued = instant,
           !.ttl = Capped(FirstSet(<<asked, credential.default, FallbackTTL>>), credential.cap)])
    /\ UNCHANGED <<leases, handedOut>>

\* ResolveCredentialData up to the secret: one that is configured or kept in a vault, or a token
\* that Azure makes good for as long as it likes.  Other types are an error.
LeaseResolves(q) ==
    /\ leaseReq[q].pc = "resolve"
    /\ \/ /\ providerType \in {"static", "azure_key_vault"}
          /\ RequestMoves(q, [leaseReq[q] EXCEPT !.pc = "envelope"])
       \/ /\ providerType = "azure_aks_jit"
          /\ \E life \in TokenLives :
                RequestMoves(q, [leaseReq[q] EXCEPT !.pc = "envelope", !.token = instant + life])
    /\ UNCHANGED <<leases, handedOut>>

\* Mutant: a token's own end is not looked at.
LeaseIsToldUncapped(q) ==
    /\ leaseReq[q].pc = "envelope"
    /\ RequestMoves(q, [leaseReq[q] EXCEPT !.pc = "insert", !.told = instant + leaseReq[q].ttl])
    /\ UNCHANGED <<leases, handedOut>>

\* credentialEnvelope counts from now, and a token that ends sooner shortens what is told.  (A
\* configured static secret that has fields of these names overrides them: not modelled.)
LeaseIsTold(q) ==
    /\ leaseReq[q].pc = "envelope"
    /\ RequestMoves(q, [leaseReq[q] EXCEPT !.pc = "insert",
           !.told = Capped(instant + leaseReq[q].ttl, leaseReq[q].token)])
    /\ UNCHANGED <<leases, handedOut>>

\* The times stored are those fixed before the secret was made.  The row refers to the incident
\* and to the credential, which may be gone by now: then it is refused.
LeaseIsStored(q) ==
    /\ leaseReq[q].pc = "insert"
    /\ incidentStored /\ credential # NoRow
    /\ Len(leases) < MaxLeases
    /\ leases' = Append(leases, [issued |-> leaseReq[q].issued, status |-> "active",
                                 expires |-> leaseReq[q].issued + leaseReq[q].ttl])
    /\ RequestMoves(q, [leaseReq[q] EXCEPT !.pc = "answer", !.lease = Len(leases) + 1])
    /\ UNCHANGED handedOut

LeaseIsAnswered(q) ==
    /\ leaseReq[q].pc = "answer"
    /\ RequestMoves(q, IdleRequest)
    /\ handedOut' = handedOut \union
          {[lease |-> leaseReq[q].lease, told |-> leaseReq[q].told, token |-> leaseReq[q].token,
            at |-> instant]}
    /\ UNCHANGED leases

\* The provider or the database refuses, the client is gone, or the backend dies: no secret is
\* answered.
LeaseRequestEnds(q) ==
    /\ leaseReq[q].pc # "idle"
    /\ RequestMoves(q, IdleRequest)
    /\ UNCHANGED <<leases, handedOut>>

----------------------------------------------------------------------------
LeasesNext ==
    \/ InstantPasses
    \/ \E type \in ProviderTypes : UpdateProvider(type)
    \/ \E default, cap \in TTLs : UpdateResourceCredential(default, cap)
    \/ DeleteResourceCredential
    \/ DeleteIncident
    \/ \E l \in DOMAIN leases : RevokeLease(l)
    \/ \E q \in LeaseRequests :
         \/ \E asked \in TTLs : LeaseIsTimed(q, asked)
         \/ LeaseResolves(q)
         \/ LeaseIsTold(q)
         \/ LeaseIsStored(q)
         \/ LeaseIsAnswered(q)
         \/ LeaseRequestEnds(q)

LeasesSpec == LeasesInit /\ [][LeasesNext]_leaseVars

----------------------------------------------------------------------------
LeasesTypeOK ==
    /\ instant \in 0 .. MaxInstant
    /\ providerType \in ProviderTypes
    /\ credential \in Credential \union {NoRow}
    /\ incidentStored \in BOOLEAN
    /\ leases \in Seq(Lease)
    /\ leaseReq \in [LeaseRequests ->
          [pc : {"idle", "resolve", "envelope", "insert", "answer"}, ttl : Nat, issued : Nat,
           token : Nat, told : Nat, lease : Nat]]
    /\ handedOut \subseteq Secret
    /\ rowEdits \in 0 .. MaxRowEdits

(***************************************************************************)
(* No secret is out that the audit trail does not account for: its lease   *)
(* is stored, active or revoked, unless its incident was deleted, however  *)
(* slow the provider and whatever became of the rows meanwhile.  Its       *)
(* holder is never told that it is good for longer than the token is       *)
(* ("the lease must never outlive the actual Azure AD token it wraps",     *)
(* skills_service.go 556), nor for longer, from the answer on, than the    *)
(* lease was granted for.  Of the stored expiry this cannot be said: it is *)
(* neither capped by the token nor moved by the time the provider took.    *)
(***************************************************************************)
SecretsHaveLeases ==
    \A secret \in handedOut :
        /\ secret.token > 0 => secret.told <= secret.token
        /\ incidentStored =>
              /\ secret.lease \in DOMAIN leases
              /\ LET lease == leases[secret.lease]
                 IN  secret.told + lease.issued <= secret.at + lease.expires
============================================================================
