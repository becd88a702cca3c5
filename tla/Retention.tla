----------------------------- MODULE Retention -----------------------------
(***************************************************************************)
(* Retention: the policies of one organization, the sweep that archives    *)
(* and deletes what they say has expired, and DELETE /incidents/:id, with  *)
(* the incidents, evidence and agent runs they meet changing all the time. *)
(*                                                                         *)
(* A sweep is one request: it reads the enabled policies, then for each of *)
(* them the expired rows, and archives and deletes these one at a time,    *)
(* each call a transaction of its own.                                     *)
(***************************************************************************)
EXTENDS Naturals, FiniteSets

CONSTANTS
    Cases, Evidence, Runs,  \* rows of incidents, incident_evidence and agent_runs
    Owner,                  \* of evidence and runs: their incident
    DependentTables,        \* tables in which rows turn up that point at an incident or a run
    Sweeps,                 \* concurrent sweeps
    RetentionDays,          \* the periods policies are given
    NoPolicy,
    MaxDay,                 \* bound: days
    MaxPolicyEdits,         \* bound: requests that change a policy
    MaxSnapshots            \* bound: times a row is archived

ASSUME RetentionAssumption ==
    /\ Cases \intersect (Evidence \union Runs) = {}
    /\ Evidence \intersect Runs = {}
    /\ Owner \in [Evidence \union Runs -> Cases]
    /\ {MaxDay, MaxPolicyEdits, MaxSnapshots} \subseteq Nat
    /\ RetentionDays \subseteq Nat \ {0}

VARIABLES
    day,
    policies,       \* retention_policies: at most one for each resource type
    policyEdits,
    stored,         \* the rows that are there
    terminal,       \* incidents that are resolved or closed
    resolvedOn,     \* resolved_at
    dependents,     \* the tables that hold a row pointing at an incident or a run
    snapshots,      \* archived_records: how many for each row
    sweep,          \* the sweeps
    remover,        \* a DELETE /incidents/:id
    blocked,        \* history: a sweep's delete was refused by a foreign key
    removed,        \* history: rows that DELETE /incidents/:id took away
    discarding      \* history: resources that had a policy to delete without archiving

retentionVars == <<day, policies, policyEdits, stored, terminal, resolvedOn, dependents, snapshots,
                   sweep, remover, blocked, removed, discarding>>

Resources == {"agent_runs", "evidence", "incidents"}
RetentionPolicy == [days : RetentionDays, action : {"archive", "delete"}, enabled : BOOLEAN]
Records == Cases \union Evidence \union Runs
NotResolved == MaxDay + 1
RecordsOf(resource) ==
    CASE resource = "incidents" -> Cases [] resource = "evidence" -> Evidence [] OTHER -> Runs

\* Rows without ON DELETE CASCADE that can point at an incident, and at a run.
PointAtIncident == {"credential_leases", "knowledge_base", "notification_log", "runbook_executions",
                    "similar_incidents"}
PointAtRun == {"agent_runs", "incident_rci", "incident_rca", "incident_postmortem", "a2a_tasks"}
PointAt(r) == DependentTables \intersect
    (IF r \in Cases THEN PointAtIncident ELSE IF r \in Runs THEN PointAtRun ELSE {})

IdleSweep == [pc |-> "idle", todo |-> {}, resource |-> "incidents", policy |-> NoPolicy,
              expired |-> {}, record |-> NoPolicy, reopened |-> {}]
IdleRemover == [pc |-> "idle", case |-> NoPolicy, late |-> {}]

RetentionInit ==
    /\ day = 0
    /\ policies = [resource \in Resources |-> NoPolicy]
    /\ policyEdits = 0
    /\ stored = Records
    /\ terminal = {}
    /\ resolvedOn = [i \in Cases |-> NotResolved]
    /\ dependents = [r \in Records |-> {}]
    /\ snapshots = [r \in Records |-> 0]
    /\ sweep = [s \in Sweeps |-> IdleSweep]
    /\ remover = IdleRemover
    /\ blocked = FALSE
    /\ removed = {}
    /\ discarding = {}

----------------------------------------------------------------------------
(***************************************************************************)
(* /retention-policies                                                     *)
(***************************************************************************)
Discards(policy) == policy # NoPolicy /\ policy.enabled /\ policy.action = "delete"

EditsPolicy(resource, policy) ==
    /\ policyEdits < MaxPolicyEdits
    /\ policyEdits' = policyEdits + 1
    /\ policies' = [policies EXCEPT ![resource] = policy]
    /\ discarding' = IF Discards(policy) THEN discarding \union {resource} ELSE discarding
    /\ UNCHANGED <<day, stored, terminal, resolvedOn, dependents, snapshots, sweep, remover, blocked,
                   removed>>

\* A second policy for the same resource violates the unique key: 500.  A
\* policy is enabled unless the request says otherwise.
CreateRetentionPolicy(resource, policy) ==
    policies[resource] = NoPolicy /\ EditsPolicy(resource, policy)

\* Only what the request carries changes; the resource type never does.
UpdateRetentionPolicy(resource, policy) ==
    policies[resource] # NoPolicy /\ EditsPolicy(resource, policy)

DeleteRetentionPolicy(resource) ==
    policies[resource] # NoPolicy /\ EditsPolicy(resource, NoPolicy)

----------------------------------------------------------------------------
(***************************************************************************)
(* What goes on in the meantime.                                           *)
(***************************************************************************)
DayPasses ==
    /\ day < MaxDay
    /\ day' = day + 1
    /\ UNCHANGED <<policies, policyEdits, stored, terminal, resolvedOn, dependents, snapshots,
                   sweep, remover, blocked, removed, discarding>>

\* IncidentService.Update: resolved_at is set the first time and stays, also
\* when the incident is reopened.
SetTerminal(i, status) ==
    /\ i \in stored
    /\ terminal' = IF status THEN terminal \union {i} ELSE terminal \ {i}
    /\ resolvedOn' = [resolvedOn EXCEPT ![i] = IF status /\ @ = NotResolved THEN day ELSE @]
    /\ sweep' = [s \in Sweeps |-> [sweep[s] EXCEPT !.reopened = IF status THEN @ ELSE @ \union {i}]]
    /\ UNCHANGED <<day, policies, policyEdits, stored, dependents, snapshots, remover, blocked,
                   removed, discarding>>

ResolveIncident(i) == i \notin terminal /\ SetTerminal(i, TRUE)
ReopenIncident(i) == i \in terminal /\ SetTerminal(i, FALSE)

\* A knowledge base entry, a notification, a lease, an RCI ... is written.
WriteDependent(r, table) ==
    /\ r \in stored
    /\ table \in PointAt(r) \ dependents[r]
    /\ dependents' = [dependents EXCEPT ![r] = @ \union {table}]
    /\ remover' = IF remover.pc = "cleared" /\ remover.case = r
                  THEN [remover EXCEPT !.late = @ \union {table}] ELSE remover
    /\ UNCHANGED <<day, policies, policyEdits, stored, terminal, resolvedOn, snapshots, sweep, blocked,
                   removed, discarding>>

----------------------------------------------------------------------------
(***************************************************************************)
(* DELETE /incidents/:id                                                   *)
(***************************************************************************)
\* What an incident takes along: evidence and runs cascade, and so does what points at a run.
WithDependents(i) == {i} \union {r \in Evidence \union Runs : Owner[r] = i}

\* The rows PgIncidentRepository.Delete clears before it deletes the incident.
ClearedTables == {"credential_leases", "knowledge_base", "notification_log", "runbook_executions",
                  "similar_incidents"}

\* Clearing and deleting are one transaction: nobody sees the tables cleared
\* before it commits, and what is written meanwhile makes the delete fail.
RemoverClears(i) ==
    /\ remover.pc = "idle"
    /\ i \in stored
    /\ remover' = [pc |-> "cleared", case |-> i, late |-> {}]
    /\ UNCHANGED <<day, policies, policyEdits, stored, terminal, resolvedOn, dependents, snapshots,
                   sweep, blocked, removed, discarding>>

RemoverDeletes ==
    LET i == remover.case
        free == dependents[i] \subseteq ClearedTables /\ remover.late = {}
    IN  /\ remover.pc = "cleared"
        /\ remover' = IdleRemover
        /\ stored' = IF free THEN stored \ WithDependents(i) ELSE stored
        /\ removed' = IF free THEN removed \union (stored \intersect WithDependents(i)) ELSE removed
        /\ UNCHANGED <<day, policies, policyEdits, terminal, resolvedOn, dependents, snapshots,
                       sweep, blocked, discarding>>

----------------------------------------------------------------------------
(***************************************************************************)
(* POST /retention-policies/sweep                                          *)
(***************************************************************************)
SweepMoves(s, to) ==
    /\ sweep' = [sweep EXCEPT ![s] = to]
    /\ UNCHANGED <<day, policies, policyEdits, terminal, resolvedOn, dependents, remover, removed,
                   discarding>>

SweepReadsPolicies(s) ==
    /\ sweep[s].pc = "idle"
    /\ SweepMoves(s, [IdleSweep EXCEPT !.pc = "find",
          !.todo = {<<resource, policies[resource]>> :
                       resource \in {x \in Resources : policies[x] # NoPolicy /\ policies[x].enabled}}])
    /\ UNCHANGED <<stored, snapshots, blocked>>

\* Mutant: long enough ago, whatever has become of the incident.
FindExpiredIncidentsAny(days) ==
    {i \in stored \intersect Cases : resolvedOn[i] + days <= day}

\* FindExpiredIncidents: terminal, and resolved long enough ago.
FindExpiredIncidents(days) ==
    {i \in stored \intersect Cases : i \in terminal /\ resolvedOn[i] + days <= day}

\* FindExpiredEvidence and FindExpiredAgentRuns: by age alone.  Rows are from day 0.
FindExpiredEvidence(days) == {e \in stored \intersect Evidence : days <= day}
FindExpiredAgentRuns(days) == {r \in stored \intersect Runs : days <= day}

FindExpired(resource, days) ==
    CASE resource = "incidents" -> FindExpiredIncidents(days)
      [] resource = "evidence"  -> FindExpiredEvidence(days)
      [] OTHER                  -> FindExpiredAgentRuns(days)

SweepFindsExpired(s) ==
    /\ sweep[s].pc = "find"
    /\ \E task \in sweep[s].todo :
          SweepMoves(s, [sweep[s] EXCEPT !.pc = "record", !.resource = task[1], !.policy = task[2],
                                         !.todo = @ \ {task}, !.reopened = {},
                                         !.expired = FindExpired(task[1], task[2].days)])
    /\ UNCHANGED <<stored, snapshots, blocked>>

\* A lookup that fails ends this policy, not the sweep.
SweepLookupFails(s) ==
    /\ sweep[s].pc = "find"
    /\ \E task \in sweep[s].todo : SweepMoves(s, [sweep[s] EXCEPT !.todo = @ \ {task}])
    /\ UNCHANGED <<stored, snapshots, blocked>>

SweepTakesRecord(s) ==
    /\ sweep[s].pc = "record"
    /\ \E r \in sweep[s].expired :
          SweepMoves(s, [sweep[s] EXCEPT !.pc = sweep[s].policy.action, !.record = r,
                                         !.expired = @ \ {r}])
    /\ UNCHANGED <<stored, snapshots, blocked>>

\* Mutant: a row whose snapshot could not be written is deleted like the others.
SweepArchivesOrNot(s) ==
    /\ sweep[s].pc = "archive"
    /\ \/ /\ snapshots[sweep[s].record] < MaxSnapshots
          /\ snapshots' = [snapshots EXCEPT ![sweep[s].record] = @ + 1]
       \/ UNCHANGED snapshots
    /\ SweepMoves(s, [sweep[s] EXCEPT !.pc = "delete"])
    /\ UNCHANGED <<stored, blocked>>

\* The row is deleted only after its snapshot has been written.
SweepArchives(s) ==
    /\ sweep[s].pc = "archive"
    /\ \/ /\ snapshots[sweep[s].record] < MaxSnapshots
          /\ snapshots' = [snapshots EXCEPT ![sweep[s].record] = @ + 1]
          /\ SweepMoves(s, [sweep[s] EXCEPT !.pc = "delete"])
       \/ /\ SweepMoves(s, [sweep[s] EXCEPT !.pc = "record"])
          /\ UNCHANGED snapshots
    /\ UNCHANGED <<stored, blocked>>

\* DeleteIncidentCascade, DeleteEvidence and DeleteAgentRun: a bare DELETE by id,
\* which a row that points at this one refuses.
SweepDeletes(s) ==
    LET r == sweep[s].record
        gone == IF r \in Cases THEN WithDependents(r) ELSE {r}
    IN  /\ sweep[s].pc = "delete"
        /\ SweepMoves(s, [sweep[s] EXCEPT !.pc = "record"])
        /\ stored' = IF dependents[r] = {} THEN stored \ gone ELSE stored
        /\ blocked' = (blocked \/ (r \in stored /\ dependents[r] # {}))
        /\ UNCHANGED <<snapshots>>

SweepDeleteFails(s) ==
    /\ sweep[s].pc = "delete"
    /\ SweepMoves(s, [sweep[s] EXCEPT !.pc = "record"])
    /\ UNCHANGED <<stored, snapshots, blocked>>

\* All rows of a policy are done, and all policies; or the process dies, or the client is gone.
SweepGoesOn(s) ==
    /\ sweep[s].pc = "record" /\ sweep[s].expired = {}
    /\ sweep[s].todo # {}
    /\ SweepMoves(s, [sweep[s] EXCEPT !.pc = "find"])
    /\ UNCHANGED <<stored, snapshots, blocked>>

SweepEnds(s) ==
    /\ sweep[s].pc # "idle"
    /\ SweepMoves(s, IdleSweep)
    /\ UNCHANGED <<stored, snapshots, blocked>>

----------------------------------------------------------------------------
RetentionNext ==
    \/ \E resource \in Resources :
         \/ \E policy \in RetentionPolicy : CreateRetentionPolicy(resource, policy)
         \/ \E policy \in RetentionPolicy : UpdateRetentionPolicy(resource, policy)
         \/ DeleteRetentionPolicy(resource)
    \/ DayPasses
    \/ \E i \in Cases : ResolveIncident(i) \/ ReopenIncident(i) \/ RemoverClears(i)
    \/ \E r \in Records, table \in DependentTables : WriteDependent(r, table)
    \/ RemoverDeletes
    \/ \E s \in Sweeps :
         \/ SweepReadsPolicies(s)
         \/ SweepFindsExpired(s)
         \/ SweepLookupFails(s)
         \/ SweepTakesRecord(s)
         \/ SweepArchives(s)
         \/ SweepDeletes(s)
         \/ SweepDeleteFails(s)
         \/ SweepGoesOn(s)
         \/ SweepEnds(s)

RetentionSpec == RetentionInit /\ [][RetentionNext]_retentionVars

----------------------------------------------------------------------------
RetentionTypeOK ==
    /\ day \in 0 .. MaxDay
    /\ policies \in [Resources -> RetentionPolicy \union {NoPolicy}]
    /\ policyEdits \in 0 .. MaxPolicyEdits
    /\ stored \subseteq Records
    /\ terminal \subseteq Cases
    /\ resolvedOn \in [Cases -> 0 .. NotResolved]
    /\ \A r \in Records : dependents[r] \subseteq PointAt(r)
    /\ snapshots \in [Records -> 0 .. MaxSnapshots]
    /\ sweep \in [Sweeps ->
          [pc : {"idle", "find", "record", "archive", "delete"},
           todo : SUBSET (Resources \X (RetentionPolicy \union {NoPolicy})), resource : Resources,
           policy : RetentionPolicy \union {NoPolicy}, expired : SUBSET Records,
           record : Records \union {NoPolicy}, reopened : SUBSET Cases]]
    /\ remover \in [pc : {"idle", "cleared"}, case : Cases \union {NoPolicy},
                    late : SUBSET DependentTables]
    /\ blocked \in BOOLEAN
    /\ removed \subseteq Records
    /\ discarding \subseteq Resources

Swept(s, r) == sweep[s].pc = "delete" /\ sweep[s].record = r /\ sweep'[s] # sweep[s]

(***************************************************************************)
(* A sweep takes an incident only if it was resolved or closed when the    *)
(* sweep looked: "an incident stuck open for a long time is never swept"   *)
(* (retention_repository.go 169).  One that is reopened after the look is  *)
(* deleted all the same: nothing looks again before the delete.            *)
(***************************************************************************)
OpenIncidentsAreKept ==
    [][\A s \in Sweeps, i \in Cases :
          i \in stored \ stored' /\ Swept(s, i) /\ i \notin terminal
              => i \in sweep[s].reopened]_retentionVars

ResourceOf(r) ==
    IF r \in Cases THEN "incidents" ELSE IF r \in Evidence THEN "evidence" ELSE "agent_runs"

(***************************************************************************)
(* A row that is gone without a snapshot was taken by somebody's DELETE    *)
(* /incidents/:id, or there has been a policy to delete its kind without   *)
(* archiving, or it went with the incident it belongs to: the cascade of   *)
(* DeleteIncidentCascade (retention_repository.go 309-317) archives        *)
(* neither evidence nor runs, whatever the policies for these say.  So a   *)
(* sweep that archives loses no incident, and no row whose incident is     *)
(* still there, however its steps, failures and edits of the policies fall *)
(* (retention_service.go 161-168).                                         *)
(***************************************************************************)
SweptAreArchived ==
    \A r \in Records \ stored :
        \/ snapshots[r] > 0
        \/ r \in removed
        \/ ResourceOf(r) \in discarding
        \/ r \notin Cases /\ Owner[r] \notin stored

(***************************************************************************)
(* retention_repository.go 308-313: an incident's foreign keys all cascade *)
(* "so a single DELETE here is sufficient".  Four tables and a column are  *)
(* not among those it names, and refuse the delete at every sweep.         *)
(***************************************************************************)
SweepIsNotBlocked == ~blocked
============================================================================
