---------------------------- MODULE RowsProofs -----------------------------
(***************************************************************************)
(* Proofs about rows of the backend's tables that several requests read    *)
(* and write back: retention, the Teams connection, the knowledge base,    *)
(* the tables of the API and what is computed of incidents' rows, the      *)
(* status of objectives.                                                   *)
(***************************************************************************)
EXTENDS Retention, TeamsConnection, KnowledgeBase, Catalogue, Slo, FiniteSetTheorems, TLAPS

----------------------------------------------------------------------------
(***************************************************************************)
(* Retention, for any number of rows, policies, days and concurrent        *)
(* sweeps: an open incident is not swept, and every row that is gone had a *)
(* reason to go.                                                           *)
(***************************************************************************)
(***************************************************************************)
(* The invariant: types, stronger than RetentionTypeOK where a step needs  *)
(* it, and what a sweep may rely on that holds a policy and rows it looked *)
(* up earlier.                                                             *)
(***************************************************************************)
SweepStates ==
    [pc : {"idle", "find", "record", "archive", "delete"}, todo : SUBSET (Resources \X RetentionPolicy),
     resource : Resources, policy : RetentionPolicy \union {NoPolicy}, expired : SUBSET Records,
     record : Records \union {NoPolicy}, reopened : SUBSET Cases]

CountInv == day \in 0 .. MaxDay /\ policyEdits \in 0 .. MaxPolicyEdits

RowInv ==
    /\ policies \in [Resources -> RetentionPolicy \union {NoPolicy}]
    /\ stored \subseteq Records
    /\ terminal \subseteq Cases
    /\ resolvedOn \in [Cases -> 0 .. NotResolved]
    /\ dependents \in [Records -> SUBSET DependentTables]
    /\ \A r \in Records : dependents[r] \subseteq PointAt(r)
    /\ snapshots \in [Records -> 0 .. MaxSnapshots]
    /\ remover \in [pc : {"idle", "cleared"}, case : Cases \union {NoPolicy},
                    late : SUBSET DependentTables]

\* An incident in a sweep's hands is terminal, or was reopened after the look.
StillExpired(w, i, closed) == i \in Cases => i \in closed \union w.reopened

\* w is the sweep, closed are the terminal incidents, archived the counts of snapshots.
SweepHolds(w, closed, archived) ==
    /\ w.pc \in {"record", "archive", "delete"} =>
          /\ w.policy \in RetentionPolicy
          /\ \A i \in w.expired : StillExpired(w, i, closed)
    /\ w.pc \in {"archive", "delete"} => w.record \in Records /\ StillExpired(w, w.record, closed)
    /\ w.pc = "delete" /\ w.policy.action = "archive" => archived[w.record] > 0

SweepInv == sweep \in [Sweeps -> SweepStates] /\ \A s \in Sweeps : SweepHolds(sweep[s], terminal, snapshots)

\* A sweep that deletes without archiving goes by a policy that said so (given: the resources that
\* have had one), and the rows it looked up are of that policy's kind.
MayDelete(w, given) ==
    /\ \A task \in w.todo : task[2].action = "delete" => task[1] \in given
    /\ w.pc \in {"record", "archive", "delete"} =>
          /\ w.policy.action = "delete" => w.resource \in given
          /\ \A r \in w.expired : ResourceOf(r) = w.resource
    /\ w.pc \in {"archive", "delete"} => ResourceOf(w.record) = w.resource

ReasonInv ==
    /\ discarding \subseteq Resources
    /\ removed \subseteq Records
    /\ \A x \in Resources : Discards(policies[x]) => x \in discarding
    /\ \A s \in Sweeps : MayDelete(sweep[s], discarding)

RetentionInv ==
    CountInv /\ RowInv /\ SweepInv /\ blocked \in BOOLEAN /\ ReasonInv /\ SweptAreArchived

\* The invariant contains the type invariant.
LEMMA InvGivesTypes == RetentionInv => RetentionTypeOK
<1> SUFFICES ASSUME RetentionInv PROVE RetentionTypeOK
  OBVIOUS
<1>1. SweepStates \subseteq
          [pc : {"idle", "find", "record", "archive", "delete"},
           todo : SUBSET (Resources \X (RetentionPolicy \union {NoPolicy})), resource : Resources,
           policy : RetentionPolicy \union {NoPolicy}, expired : SUBSET Records,
           record : Records \union {NoPolicy}, reopened : SUBSET Cases]
  BY DEF SweepStates
<1>2. blocked \in BOOLEAN
  BY DEF RetentionInv
<1>3. discarding \subseteq Resources /\ removed \subseteq Records
  BY DEF RetentionInv, ReasonInv
<1> HIDE DEF SweepStates
<1> QED
  BY <1>1, <1>2, <1>3 DEF RetentionInv, CountInv, RowInv, SweepInv, RetentionTypeOK

----------------------------------------------------------------------------
\* The sweep that moves takes up a state of which the invariant holds; the others
\* keep theirs, since snapshots only become more.
LEMMA SweepMovesOn ==
    ASSUME NEW s \in Sweeps, NEW to \in SweepStates, SweepInv, RowInv, UNCHANGED terminal,
           SweepHolds(to, terminal, snapshots'), \A r \in Records : snapshots'[r] >= snapshots[r],
           snapshots' \in [Records -> 0 .. MaxSnapshots],
           sweep' = [sweep EXCEPT ![s] = to]
    PROVE  SweepInv'
<1>1. sweep' \in [Sweeps -> SweepStates]
  BY DEF SweepInv
<1>2. ASSUME NEW q \in Sweeps
      PROVE  SweepHolds(sweep'[q], terminal', snapshots')
  <2>1. CASE q = s
    <3>1. sweep'[q] = to
      BY <2>1 DEF SweepInv
    <3> QED
      BY <3>1 DEF SweepHolds, StillExpired
  <2>2. CASE q # s
    <3>1. sweep'[q] = sweep[q] /\ SweepHolds(sweep[q], terminal, snapshots)
      BY <2>2 DEF SweepInv
    <3>2. ASSUME sweep[q].pc = "delete", sweep[q].policy.action = "archive"
          PROVE  snapshots'[sweep[q].record] > 0
      <4>1. sweep[q].record \in Records /\ snapshots[sweep[q].record] > 0
        BY <3>1, <3>2 DEF SweepHolds
      <4> QED
        BY <4>1, RetentionAssumption DEF RowInv
    <3> QED
      BY <3>1, <3>2 DEF SweepHolds, StillExpired
  <2> QED
    BY <2>1, <2>2
<1> QED
  BY <1>1, <1>2 DEF SweepInv

\* Nobody moves a sweep, and no incident stops being terminal.
LEMMA SweepsStay ==
    ASSUME SweepInv, UNCHANGED <<sweep, terminal, snapshots>>
    PROVE  SweepInv'
  BY DEF SweepInv, SweepHolds, StillExpired

\* A state with nothing in hand keeps what the invariant asks of it.
LEMMA EmptyHanded ==
    ASSUME NEW w, NEW closed, NEW archived, w.pc \in {"idle", "find"}
    PROVE  SweepHolds(w, closed, archived)
  BY DEF SweepHolds

\* A sweep without anything in hand: when it begins and when it ends.
LEMMA IdleSweepIsState == IdleSweep \in SweepStates /\ IdleSweep.pc = "idle"
  BY DEF IdleSweep, SweepStates, Resources

\* The parts of the row types a sweep's own steps leave alone, but for rows and snapshots.
LEMMA SweepRows ==
    ASSUME RowInv, NEW s, NEW to, SweepMoves(s, to), stored' \subseteq Records,
           snapshots' \in [Records -> 0 .. MaxSnapshots]
    PROVE  RowInv'
  BY DEF RowInv, SweepMoves, PointAt

\* What FindExpired finds are rows, and the incidents among them are terminal.
LEMMA ExpiredAreRows ==
    ASSUME NEW resource \in Resources, NEW days
    PROVE  /\ FindExpired(resource, days) \subseteq Records
           /\ FindExpired(resource, days) \intersect Cases \subseteq terminal
<1>1. FindExpiredIncidents(days) \subseteq Records /\ FindExpiredIncidents(days) \subseteq terminal
  BY DEF FindExpiredIncidents, Records
<1>2. /\ FindExpiredEvidence(days) \subseteq Records
      /\ FindExpiredEvidence(days) \intersect Cases = {}
  BY RetentionAssumption DEF FindExpiredEvidence, Records
<1>3. /\ FindExpiredAgentRuns(days) \subseteq Records
      /\ FindExpiredAgentRuns(days) \intersect Cases = {}
  BY RetentionAssumption DEF FindExpiredAgentRuns, Records
<1> QED
  BY <1>1, <1>2, <1>3 DEF FindExpired

\* A sweep's step from one state to another keeps rows and sweeps.
LEMMA SweepStepKeeps ==
    ASSUME SweepInv, RowInv, NEW s \in Sweeps, NEW to \in SweepStates, SweepMoves(s, to),
           SweepHolds(to, terminal, snapshots'), stored' \subseteq Records,
           snapshots' \in [Records -> 0 .. MaxSnapshots],
           \A r \in Records : snapshots'[r] >= snapshots[r]
    PROVE  SweepInv' /\ RowInv'
<1>1. RowInv'
  BY SweepRows
<1>2. UNCHANGED terminal /\ sweep' = [sweep EXCEPT ![s] = to]
  BY DEF SweepMoves
<1>3. SweepInv'
  BY <1>2, SweepMovesOn
<1> QED
  BY <1>1, <1>3

\* Steps that write no snapshot.
LEMMA SnapshotsStay ==
    ASSUME RowInv, UNCHANGED snapshots
    PROVE  /\ snapshots' \in [Records -> 0 .. MaxSnapshots]
           /\ \A r \in Records : snapshots'[r] >= snapshots[r]
  BY RetentionAssumption DEF RowInv

\* Each step of a sweep.
LEMMA SweepStep ==
    ASSUME SweepInv, RowInv, NEW s \in Sweeps,
           \/ SweepReadsPolicies(s) \/ SweepFindsExpired(s) \/ SweepLookupFails(s)
           \/ SweepTakesRecord(s) \/ SweepArchives(s) \/ SweepDeletes(s) \/ SweepDeleteFails(s)
           \/ SweepGoesOn(s) \/ SweepEnds(s)
    PROVE  SweepInv' /\ RowInv'
<1> DEFINE w == sweep[s]
<1>0. w \in SweepStates /\ SweepHolds(w, terminal, snapshots) /\ stored \subseteq Records
  BY DEF SweepInv, RowInv
<1>1. CASE SweepReadsPolicies(s)
  <2> DEFINE to == [IdleSweep EXCEPT !.pc = "find",
          !.todo = {<<resource, policies[resource]>> :
                       resource \in {x \in Resources : policies[x] # NoPolicy /\ policies[x].enabled}}]
  <2>1. {<<resource, policies[resource]>> :
            resource \in {x \in Resources : policies[x] # NoPolicy /\ policies[x].enabled}}
          \subseteq Resources \X RetentionPolicy
    BY DEF RowInv
  <2>2. to \in SweepStates /\ to.pc = "find"
    BY <2>1 DEF IdleSweep, SweepStates, Resources
  <2>3. SweepMoves(s, to) /\ UNCHANGED <<stored, snapshots>>
    BY <1>1 DEF SweepReadsPolicies
  <2> HIDE DEF to
  <2>4. SweepHolds(to, terminal, snapshots')
    BY <2>2 DEF SweepHolds
  <2> QED
    BY <1>0, <2>2, <2>3, <2>4, SnapshotsStay, SweepStepKeeps
<1>2. CASE SweepFindsExpired(s)
  <2>1. PICK task \in w.todo :
           SweepMoves(s, [w EXCEPT !.pc = "record", !.resource = task[1], !.policy = task[2],
                                   !.todo = @ \ {task}, !.reopened = {},
                                   !.expired = FindExpired(task[1], task[2].days)])
    BY <1>2 DEF SweepFindsExpired
  <2>2. task[1] \in Resources /\ task[2] \in RetentionPolicy /\ w.todo \subseteq Resources \X RetentionPolicy
    BY <1>0 DEF SweepStates
  <2> DEFINE found == FindExpired(task[1], task[2].days)
             to == [w EXCEPT !.pc = "record", !.resource = task[1], !.policy = task[2],
                             !.todo = w.todo \ {task}, !.reopened = {}, !.expired = found]
  <2>3. found \subseteq Records /\ found \intersect Cases \subseteq terminal
    BY <2>2, ExpiredAreRows
  <2>4. SweepMoves(s, to) /\ UNCHANGED <<stored, snapshots>>
    BY <1>2, <2>1 DEF SweepFindsExpired
  <2> HIDE DEF found
  <2>5. to \in SweepStates /\ to.pc = "record" /\ to.policy \in RetentionPolicy /\ to.expired = found
    BY <1>0, <2>2, <2>3 DEF SweepStates
  <2> HIDE DEF to
  <2>6. SweepHolds(to, terminal, snapshots')
    BY <2>3, <2>4, <2>5 DEF SweepHolds, StillExpired, SweepMoves
  <2> QED
    BY <1>0, <2>4, <2>5, <2>6, SnapshotsStay, SweepStepKeeps
<1>3. CASE SweepLookupFails(s)
  <2>1. PICK task \in w.todo : SweepMoves(s, [w EXCEPT !.todo = @ \ {task}])
    BY <1>3 DEF SweepLookupFails
  <2> DEFINE to == [w EXCEPT !.todo = w.todo \ {task}]
  <2>2. SweepMoves(s, to) /\ UNCHANGED <<stored, snapshots>> /\ w.pc = "find"
    BY <1>3, <2>1 DEF SweepLookupFails
  <2>3. to \in SweepStates /\ to.pc = "find"
    BY <1>0, <2>2 DEF SweepStates
  <2> HIDE DEF to
  <2>4. SweepHolds(to, terminal, snapshots')
    BY <2>3 DEF SweepHolds
  <2> QED
    BY <1>0, <2>2, <2>3, <2>4, SnapshotsStay, SweepStepKeeps
<1>4. CASE SweepTakesRecord(s)
  <2>1. PICK r \in w.expired :
           SweepMoves(s, [w EXCEPT !.pc = w.policy.action, !.record = r, !.expired = @ \ {r}])
    BY <1>4 DEF SweepTakesRecord
  <2> DEFINE to == [w EXCEPT !.pc = w.policy.action, !.record = r, !.expired = w.expired \ {r}]
  <2>2. SweepMoves(s, to) /\ UNCHANGED <<stored, snapshots>> /\ w.pc = "record"
    BY <1>4, <2>1 DEF SweepTakesRecord
  <2>3. /\ w.policy \in RetentionPolicy /\ w.policy.action \in {"archive", "delete"}
        /\ r \in Records /\ \A i \in w.expired : StillExpired(w, i, terminal)
    BY <1>0, <2>2 DEF SweepHolds, SweepStates, RetentionPolicy
  <2>4. /\ to \in SweepStates /\ to.pc = w.policy.action /\ to.policy = w.policy /\ to.record = r
        /\ to.expired \subseteq w.expired /\ to.reopened = w.reopened
    BY <1>0, <2>3 DEF SweepStates
  <2> HIDE DEF to
  <2>5. SweepHolds(to, terminal, snapshots')
    BY <2>2, <2>3, <2>4 DEF SweepHolds, StillExpired, SweepMoves
  <2> QED
    BY <1>0, <2>2, <2>4, <2>5, SnapshotsStay, SweepStepKeeps
<1>5. CASE SweepArchives(s)
  <2>1. w.pc = "archive" /\ UNCHANGED stored
    BY <1>5 DEF SweepArchives
  <2>2. CASE SweepMoves(s, [w EXCEPT !.pc = "record"]) /\ UNCHANGED snapshots
    <3> DEFINE to == [w EXCEPT !.pc = "record"]
    <3>1. /\ to \in SweepStates /\ to.pc = "record" /\ to.policy = w.policy
          /\ to.expired = w.expired /\ to.reopened = w.reopened
      BY <1>0 DEF SweepStates
    <3>2. SweepMoves(s, to)
      BY <2>2
    <3> HIDE DEF to
    <3>3. SweepHolds(to, terminal, snapshots')
      BY <1>0, <2>1, <3>1, <3>2 DEF SweepHolds, StillExpired, SweepMoves
    <3> QED
      BY <1>0, <2>1, <2>2, <3>1, <3>2, <3>3, SnapshotsStay, SweepStepKeeps
  <2>3. CASE /\ snapshots[w.record] < MaxSnapshots
             /\ snapshots' = [snapshots EXCEPT ![w.record] = @ + 1]
             /\ SweepMoves(s, [w EXCEPT !.pc = "delete"])
    <3> DEFINE to == [w EXCEPT !.pc = "delete"]
    <3>1. /\ to \in SweepStates /\ to.pc = "delete" /\ to.policy = w.policy
          /\ to.expired = w.expired /\ to.reopened = w.reopened /\ to.record = w.record
      BY <1>0 DEF SweepStates
    <3>2. SweepMoves(s, to)
      BY <2>3
    <3> HIDE DEF to
    <3>3. w.record \in Records
      BY <1>0, <2>1 DEF SweepHolds
    <3>4. /\ snapshots' \in [Records -> 0 .. MaxSnapshots]
          /\ \A r \in Records : snapshots'[r] >= snapshots[r]
          /\ snapshots'[w.record] > 0
      BY <2>3, <3>3, RetentionAssumption DEF RowInv
    <3>5. SweepHolds(to, terminal, snapshots')
      BY <1>0, <2>1, <3>1, <3>2, <3>4 DEF SweepHolds, StillExpired, SweepMoves
    <3> QED
      BY <1>0, <2>1, <3>1, <3>2, <3>4, <3>5, SweepStepKeeps
  <2> QED
    BY <1>5, <2>2, <2>3 DEF SweepArchives
<1>6. CASE SweepDeletes(s) \/ SweepDeleteFails(s)
  <2> DEFINE to == [w EXCEPT !.pc = "record"]
  <2>1. SweepMoves(s, to) /\ UNCHANGED snapshots /\ w.pc = "delete" /\ stored' \subseteq Records
    BY <1>0, <1>6 DEF SweepDeletes, SweepDeleteFails
  <2>2. /\ to \in SweepStates /\ to.pc = "record" /\ to.policy = w.policy
        /\ to.expired = w.expired /\ to.reopened = w.reopened
    BY <1>0 DEF SweepStates
  <2> HIDE DEF to
  <2>3. SweepHolds(to, terminal, snapshots')
    BY <1>0, <2>1, <2>2 DEF SweepHolds, StillExpired, SweepMoves
  <2> QED
    BY <2>1, <2>2, <2>3, SnapshotsStay, SweepStepKeeps
<1>7. CASE SweepGoesOn(s)
  <2> DEFINE to == [w EXCEPT !.pc = "find"]
  <2>1. SweepMoves(s, to) /\ UNCHANGED <<stored, snapshots>>
    BY <1>7 DEF SweepGoesOn
  <2>2. to \in SweepStates /\ to.pc = "find"
    BY <1>0 DEF SweepStates
  <2> HIDE DEF to
  <2>3. SweepHolds(to, terminal, snapshots')
    BY <2>2 DEF SweepHolds
  <2> QED
    BY <1>0, <2>1, <2>2, <2>3, SnapshotsStay, SweepStepKeeps
<1>8. CASE SweepEnds(s)
  <2>1. SweepMoves(s, IdleSweep) /\ UNCHANGED <<stored, snapshots>>
    BY <1>8 DEF SweepEnds
  <2>2. SweepHolds(IdleSweep, terminal, snapshots')
    BY IdleSweepIsState DEF SweepHolds, IdleSweep
  <2> QED
    BY <1>0, <2>1, <2>2, IdleSweepIsState, SnapshotsStay, SweepStepKeeps
<1> QED
  BY <1>1, <1>2, <1>3, <1>4, <1>5, <1>6, <1>7, <1>8

----------------------------------------------------------------------------
\* Resolving and reopening an incident: the sweeps are told of a reopening.
LEMMA SetTerminalKeeps ==
    ASSUME SweepInv, RowInv, CountInv, NEW i \in Cases, NEW status \in BOOLEAN, SetTerminal(i, status)
    PROVE  SweepInv' /\ RowInv'
<1>0. /\ terminal' = IF status THEN terminal \union {i} ELSE terminal \ {i}
      /\ resolvedOn' = [resolvedOn EXCEPT ![i] = IF status /\ @ = NotResolved THEN day ELSE @]
      /\ sweep' = [s \in Sweeps |-> [sweep[s] EXCEPT !.reopened = IF status THEN @ ELSE @ \union {i}]]
      /\ UNCHANGED <<policies, stored, dependents, snapshots, remover>>
  BY DEF SetTerminal
<1>1. RowInv'
  <2>1. resolvedOn' \in [Cases -> 0 .. NotResolved]
    BY <1>0, RetentionAssumption DEF RowInv, CountInv, NotResolved
  <2>2. terminal' \subseteq Cases
    BY <1>0 DEF RowInv
  <2> QED
    BY <1>0, <2>1, <2>2 DEF RowInv, PointAt
<1>2. ASSUME NEW s \in Sweeps
      PROVE  sweep'[s] \in SweepStates /\ SweepHolds(sweep'[s], terminal', snapshots')
  <2> DEFINE w == sweep[s]
             back == IF status THEN w.reopened ELSE w.reopened \union {i}
             to == [w EXCEPT !.reopened = back]
  <2>1. w \in SweepStates /\ SweepHolds(w, terminal, snapshots)
    BY DEF SweepInv
  <2>2. back \subseteq Cases /\ w.reopened \subseteq back
    BY <2>1 DEF SweepStates
  <2>3. terminal \union w.reopened \subseteq terminal' \union back
    BY <1>0
  <2>4. sweep'[s] = to
    BY <1>0
  <2> HIDE DEF back
  <2>5. /\ to \in SweepStates /\ to.reopened = back /\ to.pc = w.pc /\ to.policy = w.policy
        /\ to.record = w.record /\ to.expired = w.expired
    BY <2>1, <2>2 DEF SweepStates
  <2> HIDE DEF to, w
  <2>6. SweepHolds(to, terminal', snapshots')
    BY <1>0, <2>1, <2>3, <2>5 DEF SweepHolds, StillExpired
  <2> QED
    BY <2>4, <2>5, <2>6
<1>3. SweepInv'
  <2>1. sweep' \in [Sweeps -> SweepStates]
    BY <1>0, <1>2
  <2> QED
    BY <1>2, <2>1 DEF SweepInv
<1> QED
  BY <1>1, <1>3

\* Every step keeps rows and sweeps.
LEMMA RowsAndSweepsStep ==
    ASSUME RetentionInv, [RetentionNext]_retentionVars
    PROVE  RowInv' /\ SweepInv'
<1> USE DEF RetentionInv
<1>1. ASSUME NEW resource \in Resources, NEW policy \in RetentionPolicy \union {NoPolicy},
             EditsPolicy(resource, policy)
      PROVE  RowInv' /\ SweepInv'
  BY <1>1, SweepsStay DEF EditsPolicy, RowInv, PointAt
<1>2. ASSUME DayPasses \/ UNCHANGED retentionVars
      PROVE  RowInv' /\ SweepInv'
  BY <1>2, SweepsStay DEF DayPasses, RowInv, PointAt, retentionVars
<1>3. ASSUME NEW i \in Cases, ResolveIncident(i) \/ ReopenIncident(i)
      PROVE  RowInv' /\ SweepInv'
  BY <1>3, SetTerminalKeeps DEF ResolveIncident, ReopenIncident
<1>4. ASSUME NEW i \in Cases, RemoverClears(i)
      PROVE  RowInv' /\ SweepInv'
  BY <1>4, SweepsStay DEF RemoverClears, RowInv, PointAt
<1>5. ASSUME RemoverDeletes
      PROVE  RowInv' /\ SweepInv'
  <2>1. IdleRemover \in [pc : {"idle", "cleared"}, case : Cases \union {NoPolicy},
                    late : SUBSET DependentTables]
    BY DEF IdleRemover
  <2>2. stored' \subseteq Records
    BY <1>5 DEF RemoverDeletes, RowInv
  <2> QED
    BY <1>5, <2>1, <2>2, SweepsStay DEF RemoverDeletes, RowInv, PointAt
<1>6. ASSUME NEW r \in Records, NEW table \in DependentTables, WriteDependent(r, table)
      PROVE  RowInv' /\ SweepInv'
  <2>1. table \in PointAt(r) /\ PointAt(r) \subseteq DependentTables
    BY <1>6 DEF WriteDependent, PointAt
  <2>2. /\ dependents' = [dependents EXCEPT ![r] = @ \union {table}]
        /\ UNCHANGED <<policies, stored, terminal, resolvedOn, snapshots, sweep>>
    BY <1>6 DEF WriteDependent
  <2>3. /\ dependents' \in [Records -> SUBSET DependentTables]
        /\ \A x \in Records : dependents'[x] \subseteq PointAt(x)
    BY <2>1, <2>2 DEF RowInv
  <2>4. remover' \in [pc : {"idle", "cleared"}, case : Cases \union {NoPolicy},
                      late : SUBSET DependentTables]
    BY <1>6 DEF WriteDependent, RowInv
  <2>5. SweepInv'
    BY <2>2, SweepsStay
  <2>6. \A x \in Records : dependents'[x] \subseteq PointAt(x)'
    BY <2>3 DEF PointAt
  <2> QED
    BY <2>2, <2>3, <2>4, <2>5, <2>6 DEF RowInv
<1>7. ASSUME NEW s \in Sweeps,
             \/ SweepReadsPolicies(s) \/ SweepFindsExpired(s) \/ SweepLookupFails(s)
             \/ SweepTakesRecord(s) \/ SweepArchives(s) \/ SweepDeletes(s) \/ SweepDeleteFails(s)
             \/ SweepGoesOn(s) \/ SweepEnds(s)
      PROVE  RowInv' /\ SweepInv'
  BY <1>7, SweepStep
<1>8. ASSUME NEW resource \in Resources,
             \/ \E policy \in RetentionPolicy : \/ CreateRetentionPolicy(resource, policy)
                                                \/ UpdateRetentionPolicy(resource, policy)
             \/ DeleteRetentionPolicy(resource)
      PROVE  RowInv' /\ SweepInv'
  BY <1>1, <1>8 DEF CreateRetentionPolicy, UpdateRetentionPolicy, DeleteRetentionPolicy
<1> QED
  BY <1>2, <1>3, <1>4, <1>5, <1>6, <1>7, <1>8 DEF RetentionNext

\* The counters stay in their bounds.
LEMMA CountStep ==
    ASSUME CountInv, [RetentionNext]_retentionVars
    PROVE  CountInv'
<1>1. \/ UNCHANGED <<day, policyEdits>>
      \/ day < MaxDay /\ day' = day + 1 /\ UNCHANGED policyEdits
      \/ policyEdits < MaxPolicyEdits /\ policyEdits' = policyEdits + 1 /\ UNCHANGED day
  <2>1. ASSUME NEW resource \in Resources, NEW policy, EditsPolicy(resource, policy)
        PROVE  policyEdits < MaxPolicyEdits /\ policyEdits' = policyEdits + 1 /\ UNCHANGED day
    BY <2>1 DEF EditsPolicy
  <2>2. ASSUME NEW s \in Sweeps,
             \/ SweepReadsPolicies(s) \/ SweepFindsExpired(s) \/ SweepLookupFails(s)
             \/ SweepTakesRecord(s) \/ SweepArchives(s) \/ SweepDeletes(s) \/ SweepDeleteFails(s)
             \/ SweepGoesOn(s) \/ SweepEnds(s)
        PROVE  UNCHANGED <<day, policyEdits>>
    BY <2>2, Zenon DEF SweepReadsPolicies, SweepFindsExpired, SweepLookupFails, SweepTakesRecord,
       SweepArchives, SweepDeletes, SweepDeleteFails, SweepGoesOn, SweepEnds, SweepMoves
  <2>3. ASSUME NEW i \in Cases, ResolveIncident(i) \/ ReopenIncident(i) \/ RemoverClears(i)
        PROVE  UNCHANGED <<day, policyEdits>>
    BY <2>3 DEF ResolveIncident, ReopenIncident, SetTerminal, RemoverClears
  <2>4. ASSUME \/ RemoverDeletes \/ UNCHANGED retentionVars
               \/ \E r \in Records, table \in DependentTables : WriteDependent(r, table)
        PROVE  UNCHANGED <<day, policyEdits>>
    BY <2>4 DEF RemoverDeletes, WriteDependent, retentionVars
  <2>5. ASSUME DayPasses
        PROVE  day < MaxDay /\ day' = day + 1 /\ UNCHANGED policyEdits
    BY <2>5 DEF DayPasses
  <2> QED
    BY <2>1, <2>2, <2>3, <2>4, <2>5
       DEF RetentionNext, CreateRetentionPolicy, UpdateRetentionPolicy, DeleteRetentionPolicy
<1> QED
  BY <1>1, RetentionAssumption DEF CountInv

\* The history flag stays a flag.
LEMMA BlockedStep ==
    ASSUME blocked \in BOOLEAN, [RetentionNext]_retentionVars
    PROVE  blocked' \in BOOLEAN
<1>1. ASSUME NEW s \in Sweeps, SweepDeletes(s)
      PROVE  blocked' \in BOOLEAN
  BY <1>1, Zenon DEF SweepDeletes
<1>2. ASSUME NEW s \in Sweeps,
             \/ SweepReadsPolicies(s) \/ SweepFindsExpired(s) \/ SweepLookupFails(s)
             \/ SweepTakesRecord(s) \/ SweepArchives(s) \/ SweepDeleteFails(s)
             \/ SweepGoesOn(s) \/ SweepEnds(s)
      PROVE  blocked' \in BOOLEAN
  BY <1>2, Zenon DEF SweepReadsPolicies, SweepFindsExpired, SweepLookupFails, SweepTakesRecord,
     SweepArchives, SweepDeleteFails, SweepGoesOn, SweepEnds
<1>3. ASSUME NEW resource \in Resources,
             \/ \E policy \in RetentionPolicy : \/ CreateRetentionPolicy(resource, policy)
                                                \/ UpdateRetentionPolicy(resource, policy)
             \/ DeleteRetentionPolicy(resource)
      PROVE  blocked' \in BOOLEAN
  BY <1>3, Zenon DEF CreateRetentionPolicy, UpdateRetentionPolicy, DeleteRetentionPolicy, EditsPolicy
<1>4. ASSUME NEW i \in Cases, ResolveIncident(i) \/ ReopenIncident(i) \/ RemoverClears(i)
      PROVE  blocked' \in BOOLEAN
  BY <1>4, Zenon DEF ResolveIncident, ReopenIncident, SetTerminal, RemoverClears
<1>5. ASSUME \/ RemoverDeletes \/ DayPasses \/ UNCHANGED retentionVars
             \/ \E r \in Records, table \in DependentTables : WriteDependent(r, table)
      PROVE  blocked' \in BOOLEAN
  BY <1>5, Zenon DEF RemoverDeletes, DayPasses, WriteDependent, retentionVars
<1> QED
  BY <1>1, <1>2, <1>3, <1>4, <1>5, Zenon DEF RetentionNext

----------------------------------------------------------------------------
\* Nothing moves but what makes reasons to delete.
LEMMA ReasonsGrow ==
    ASSUME ReasonInv, discarding \subseteq discarding', discarding' \subseteq Resources,
           removed' \subseteq Records, UNCHANGED sweep,
           \A x \in Resources : Discards(policies'[x]) => x \in discarding'
    PROVE  ReasonInv'
  BY DEF ReasonInv, MayDelete, Discards

\* The sweep that moves may delete, as may the others.
LEMMA SweepKeepsReasons ==
    ASSUME ReasonInv, SweepInv, NEW s \in Sweeps, NEW to, SweepMoves(s, to), MayDelete(to, discarding)
    PROVE  ReasonInv'
<1>1. /\ sweep' = [sweep EXCEPT ![s] = to] /\ UNCHANGED <<policies, removed, discarding>>
      /\ DOMAIN sweep = Sweeps
  BY DEF SweepMoves, SweepInv
<1>2. \A q \in Sweeps : sweep'[q] = IF q = s THEN to ELSE sweep[q]
  BY <1>1
<1>3. \A q \in Sweeps : MayDelete(sweep'[q], discarding)
  BY <1>2 DEF ReasonInv
<1>4. \A x \in Resources : Discards(policies'[x]) => x \in discarding
  BY <1>1 DEF ReasonInv
<1>5. discarding \subseteq Resources /\ removed \subseteq Records
  BY DEF ReasonInv
<1>6. \A q \in Sweeps : MayDelete(sweep'[q], discarding')
  BY <1>1, <1>3
<1>7. \A x \in Resources : Discards(policies'[x]) => x \in discarding'
  BY <1>1, <1>4
<1> QED
  BY <1>1, <1>5, <1>6, <1>7 DEF ReasonInv, MayDelete, Discards

\* What is found for a resource is of its kind.
LEMMA ExpiredAreOfTheirKind ==
    ASSUME NEW resource \in Resources, NEW days, NEW r \in FindExpired(resource, days)
    PROVE  ResourceOf(r) = resource
  BY RetentionAssumption DEF FindExpired, FindExpiredIncidents, FindExpiredEvidence,
     FindExpiredAgentRuns, ResourceOf, Resources

\* Each step of a sweep.
LEMMA SweepStepReasons ==
    ASSUME RetentionInv, NEW s \in Sweeps,
           \/ SweepReadsPolicies(s) \/ SweepFindsExpired(s) \/ SweepLookupFails(s)
           \/ SweepTakesRecord(s) \/ SweepArchives(s) \/ SweepDeletes(s) \/ SweepDeleteFails(s)
           \/ SweepGoesOn(s) \/ SweepEnds(s)
    PROVE  ReasonInv'
<1> DEFINE w == sweep[s]
<1>0. w \in SweepStates /\ MayDelete(w, discarding) /\ ReasonInv /\ SweepInv
  BY DEF RetentionInv, SweepInv, ReasonInv
<1> SUFFICES \E to : SweepMoves(s, to) /\ MayDelete(to, discarding)
  BY <1>0, SweepKeepsReasons
<1>1. CASE SweepReadsPolicies(s)
  <2> DEFINE tasks == {<<resource, policies[resource]>> :
                resource \in {x \in Resources : policies[x] # NoPolicy /\ policies[x].enabled}}
  <2>1. \A task \in tasks : task[2].action = "delete" => task[1] \in discarding
    BY <1>0 DEF ReasonInv, Discards
  <2> HIDE DEF tasks
  <2> DEFINE to == [IdleSweep EXCEPT !.pc = "find", !.todo = tasks]
  <2>2. SweepMoves(s, to)
    BY <1>1 DEF SweepReadsPolicies, tasks
  <2>3. to.pc = "find" /\ to.todo = tasks
    BY DEF IdleSweep
  <2> HIDE DEF to
  <2> QED
    BY <2>1, <2>2, <2>3 DEF MayDelete
<1>2. CASE SweepFindsExpired(s)
  <2>1. PICK task \in w.todo :
           SweepMoves(s, [w EXCEPT !.pc = "record", !.resource = task[1], !.policy = task[2],
                                   !.todo = @ \ {task}, !.reopened = {},
                                   !.expired = FindExpired(task[1], task[2].days)])
    BY <1>2 DEF SweepFindsExpired
  <2> DEFINE found == FindExpired(task[1], task[2].days)
  <2>2. /\ task[1] \in Resources
        /\ task[2].action = "delete" => task[1] \in discarding
    BY <1>0 DEF SweepStates, MayDelete
  <2>3. \A r \in found : ResourceOf(r) = task[1]
    BY <2>2, ExpiredAreOfTheirKind
  <2> HIDE DEF found
  <2> DEFINE to == [w EXCEPT !.pc = "record", !.resource = task[1], !.policy = task[2],
                             !.todo = w.todo \ {task}, !.reopened = {}, !.expired = found]
  <2>4. SweepMoves(s, to)
    BY <2>1 DEF found
  <2>5. /\ to.pc = "record" /\ to.resource = task[1] /\ to.policy = task[2]
        /\ to.todo \subseteq w.todo /\ to.expired = found
    BY <1>0 DEF SweepStates
  <2> HIDE DEF to
  <2>6. MayDelete(to, discarding)
    BY <1>0, <2>2, <2>3, <2>5 DEF MayDelete
  <2> QED
    BY <2>4, <2>6
<1>3. CASE SweepLookupFails(s)
  <2>1. PICK task \in w.todo : SweepMoves(s, [w EXCEPT !.todo = @ \ {task}])
    BY <1>3 DEF SweepLookupFails
  <2> DEFINE to == [w EXCEPT !.todo = w.todo \ {task}]
  <2>2. SweepMoves(s, to) /\ w.pc = "find"
    BY <1>3, <2>1 DEF SweepLookupFails
  <2>3. to.pc = "find" /\ to.todo \subseteq w.todo
    BY <1>0, <2>2 DEF SweepStates
  <2> HIDE DEF to
  <2> QED
    BY <1>0, <2>2, <2>3 DEF MayDelete
<1>4. CASE SweepTakesRecord(s)
  <2>1. PICK r \in w.expired :
           SweepMoves(s, [w EXCEPT !.pc = w.policy.action, !.record = r, !.expired = @ \ {r}])
    BY <1>4 DEF SweepTakesRecord
  <2> DEFINE to == [w EXCEPT !.pc = w.policy.action, !.record = r, !.expired = w.expired \ {r}]
  <2>2. SweepMoves(s, to) /\ w.pc = "record"
    BY <1>4, <2>1 DEF SweepTakesRecord
  <2>3. /\ to.todo = w.todo /\ to.policy = w.policy /\ to.record = r /\ to.resource = w.resource
        /\ to.expired \subseteq w.expired
    BY <1>0 DEF SweepStates
  <2> HIDE DEF to
  <2>4. MayDelete(to, discarding)
    BY <1>0, <2>2, <2>3 DEF MayDelete
  <2> QED
    BY <2>2, <2>4
<1>5. CASE SweepArchives(s) \/ SweepDeletes(s) \/ SweepDeleteFails(s)
  <2>1. /\ w.pc \in {"archive", "delete"}
        /\ \E pc \in {"record", "delete"} : SweepMoves(s, [w EXCEPT !.pc = pc])
    BY <1>5 DEF SweepArchives, SweepDeletes, SweepDeleteFails
  <2>2. PICK pc \in {"record", "delete"} : SweepMoves(s, [w EXCEPT !.pc = pc])
    BY <2>1
  <2> DEFINE to == [w EXCEPT !.pc = pc]
  <2>3. /\ to.todo = w.todo /\ to.policy = w.policy /\ to.record = w.record
        /\ to.resource = w.resource /\ to.expired = w.expired
    BY <1>0 DEF SweepStates
  <2>4. SweepMoves(s, to)
    BY <2>2
  <2> HIDE DEF to
  <2>5. MayDelete(to, discarding)
    BY <1>0, <2>1, <2>3 DEF MayDelete
  <2> QED
    BY <2>4, <2>5
<1>6. CASE SweepGoesOn(s)
  <2> DEFINE to == [w EXCEPT !.pc = "find"]
  <2>1. SweepMoves(s, to)
    BY <1>6 DEF SweepGoesOn
  <2>2. to.pc = "find" /\ to.todo = w.todo
    BY <1>0 DEF SweepStates
  <2> HIDE DEF to
  <2> QED
    BY <1>0, <2>1, <2>2 DEF MayDelete
<1>7. CASE SweepEnds(s)
  <2>1. IdleSweep.pc = "idle" /\ IdleSweep.todo = {}
    BY DEF IdleSweep
  <2>2. SweepMoves(s, IdleSweep)
    BY <1>7 DEF SweepEnds
  <2> QED
    BY <2>1, <2>2 DEF MayDelete
<1> QED
  BY <1>1, <1>2, <1>3, <1>4, <1>5, <1>6, <1>7

\* Being told of a reopening changes nothing of what a sweep may delete.
LEMMA SetTerminalReasons ==
    ASSUME RetentionInv, NEW i \in Cases, NEW status \in BOOLEAN, SetTerminal(i, status)
    PROVE  ReasonInv'
<1>1. /\ sweep' = [s \in Sweeps |-> [sweep[s] EXCEPT !.reopened = IF status THEN @ ELSE @ \union {i}]]
      /\ UNCHANGED <<policies, removed, discarding>> /\ ReasonInv
  BY DEF SetTerminal, RetentionInv
<1>2. ASSUME NEW s \in Sweeps PROVE MayDelete(sweep'[s], discarding)
  <2> DEFINE w == sweep[s]
             back == IF status THEN w.reopened ELSE w.reopened \union {i}
             to == [w EXCEPT !.reopened = back]
  <2>1. w \in SweepStates /\ MayDelete(w, discarding) /\ sweep'[s] = to
    BY <1>1 DEF RetentionInv, SweepInv, ReasonInv
  <2> HIDE DEF back
  <2>2. /\ to.pc = w.pc /\ to.todo = w.todo /\ to.policy = w.policy /\ to.record = w.record
        /\ to.resource = w.resource /\ to.expired = w.expired
    BY <2>1 DEF SweepStates
  <2> HIDE DEF to
  <2>3. MayDelete(to, discarding)
    BY <2>1, <2>2 DEF MayDelete
  <2> QED
    BY <2>1, <2>3
<1>3. \A s \in Sweeps : MayDelete(sweep'[s], discarding')
  BY <1>1, <1>2
<1>4. \A x \in Resources : Discards(policies'[x]) => x \in discarding'
  BY <1>1 DEF ReasonInv
<1> QED
  BY <1>1, <1>3, <1>4 DEF ReasonInv, MayDelete, Discards

\* Every step.
LEMMA ReasonStep ==
    ASSUME RetentionInv, [RetentionNext]_retentionVars
    PROVE  ReasonInv'
<1>0. ReasonInv /\ RowInv
  BY DEF RetentionInv
<1>1. ASSUME NEW resource \in Resources, NEW policy, EditsPolicy(resource, policy)
      PROVE  ReasonInv'
  <2>1. /\ policies' = [policies EXCEPT ![resource] = policy] /\ UNCHANGED <<sweep, removed>>
        /\ discarding' = IF Discards(policy) THEN discarding \union {resource} ELSE discarding
    BY <1>1 DEF EditsPolicy
  <2>2. \A x \in Resources : policies'[x] = IF x = resource THEN policy ELSE policies[x]
    BY <1>0, <2>1 DEF RowInv
  <2>3. \A x \in Resources : Discards(policies'[x]) => x \in discarding'
    BY <1>0, <2>1, <2>2 DEF ReasonInv
  <2>4. discarding \subseteq discarding' /\ discarding' \subseteq Resources /\ removed' \subseteq Records
    BY <1>0, <2>1 DEF ReasonInv
  <2> QED
    BY <1>0, <2>1, <2>3, <2>4, ReasonsGrow
<1>2. ASSUME \/ DayPasses \/ RemoverDeletes \/ UNCHANGED retentionVars
             \/ \E i \in Cases : RemoverClears(i)
             \/ \E r \in Records, table \in DependentTables : WriteDependent(r, table)
      PROVE  ReasonInv'
  <2>1. UNCHANGED <<policies, sweep, discarding>>
    BY <1>2 DEF DayPasses, RemoverClears, RemoverDeletes, WriteDependent, retentionVars
  <2>2. removed' \subseteq Records
    <3>1. removed' = removed \/ removed' = removed \union (stored \intersect WithDependents(remover.case))
      BY <1>2 DEF DayPasses, RemoverClears, RemoverDeletes, WriteDependent, retentionVars
    <3>2. removed \subseteq Records /\ stored \subseteq Records
      BY <1>0 DEF ReasonInv, RowInv
    <3> QED
      BY <3>1, <3>2
  <2>3. \A x \in Resources : Discards(policies'[x]) => x \in discarding'
    BY <1>0, <2>1 DEF ReasonInv
  <2>4. discarding \subseteq discarding' /\ discarding' \subseteq Resources
    BY <1>0, <2>1 DEF ReasonInv
  <2> QED
    BY <1>0, <2>1, <2>2, <2>3, <2>4, ReasonsGrow
<1>3. ASSUME NEW i \in Cases, ResolveIncident(i) \/ ReopenIncident(i)
      PROVE  ReasonInv'
  BY <1>3, SetTerminalReasons DEF ResolveIncident, ReopenIncident
<1>4. ASSUME NEW s \in Sweeps,
             \/ SweepReadsPolicies(s) \/ SweepFindsExpired(s) \/ SweepLookupFails(s)
             \/ SweepTakesRecord(s) \/ SweepArchives(s) \/ SweepDeletes(s) \/ SweepDeleteFails(s)
             \/ SweepGoesOn(s) \/ SweepEnds(s)
      PROVE  ReasonInv'
  BY <1>4, SweepStepReasons
<1> QED
  BY <1>1, <1>2, <1>3, <1>4
     DEF RetentionNext, CreateRetentionPolicy, UpdateRetentionPolicy, DeleteRetentionPolicy

\* Reasons only become more, so that only rows that go in this step need one.
LEMMA ReasonsLast ==
    ASSUME SweptAreArchived, stored' \subseteq stored, removed \subseteq removed',
           discarding \subseteq discarding',
           \A r \in Records : snapshots[r] > 0 => snapshots'[r] > 0,
           \A r \in (Records \intersect stored) \ stored' :
              \/ snapshots'[r] > 0
              \/ r \in removed'
              \/ ResourceOf(r) \in discarding'
              \/ r \notin Cases /\ Owner[r] \notin stored'
    PROVE  SweptAreArchived'
<1> SUFFICES ASSUME NEW r \in Records \ stored'
             PROVE  \/ snapshots'[r] > 0
                    \/ r \in removed'
                    \/ ResourceOf(r) \in discarding'
                    \/ r \notin Cases /\ Owner[r] \notin stored'
  BY DEF SweptAreArchived, ResourceOf
<1>1. CASE r \in stored
  BY <1>1
<1>2. CASE r \notin stored
  <2>1. \/ snapshots[r] > 0
        \/ r \in removed
        \/ ResourceOf(r) \in discarding
        \/ r \notin Cases /\ Owner[r] \notin stored
    BY <1>2 DEF SweptAreArchived
  <2> QED
    BY <2>1
<1> QED
  BY <1>1, <1>2

\* Every step.
LEMMA ArchivedStep ==
    ASSUME RetentionInv, [RetentionNext]_retentionVars
    PROVE  SweptAreArchived'
<1>0. SweptAreArchived /\ RowInv /\ SweepInv /\ ReasonInv
  BY DEF RetentionInv
<1>1. ASSUME UNCHANGED <<stored, snapshots, removed>>, discarding \subseteq discarding'
      PROVE  SweptAreArchived'
  BY <1>0, <1>1, ReasonsLast
<1>2. CASE RemoverDeletes
  <2>1. /\ UNCHANGED <<snapshots, discarding>>
        /\ \/ UNCHANGED <<stored, removed>>
           \/ /\ stored' = stored \ WithDependents(remover.case)
              /\ removed' = removed \union (stored \intersect WithDependents(remover.case))
    BY <1>2 DEF RemoverDeletes
  <2> QED
    BY <1>0, <2>1, ReasonsLast
<1>3. ASSUME NEW s \in Sweeps, SweepArchives(s)
      PROVE  SweptAreArchived'
  <2>1. UNCHANGED <<stored, removed, discarding>>
    BY <1>3 DEF SweepArchives, SweepMoves
  <2>2. \A r \in Records : snapshots[r] > 0 => snapshots'[r] > 0
    <3>1. \/ UNCHANGED snapshots
          \/ snapshots' = [snapshots EXCEPT ![sweep[s].record] = @ + 1]
      BY <1>3 DEF SweepArchives
    <3> QED
      BY <1>0, <3>1, RetentionAssumption DEF RowInv
  <2> QED
    BY <1>0, <2>1, <2>2, ReasonsLast
<1>4. ASSUME NEW s \in Sweeps, SweepDeletes(s)
      PROVE  SweptAreArchived'
  <2> DEFINE w == sweep[s]
             gone == IF w.record \in Cases THEN WithDependents(w.record) ELSE {w.record}
  <2>1. /\ UNCHANGED <<snapshots, removed, discarding>> /\ w.pc = "delete"
        /\ stored' = stored \ gone \/ stored' = stored
    BY <1>4 DEF SweepDeletes, SweepMoves
  <2>2. SweepHolds(w, terminal, snapshots) /\ MayDelete(w, discarding)
    BY <1>0 DEF SweepInv, ReasonInv
  <2>3. w.policy.action = "archive" \/ w.policy.action = "delete"
    BY <2>1, <2>2 DEF SweepHolds, RetentionPolicy
  <2>4. snapshots[w.record] > 0 \/ ResourceOf(w.record) \in discarding
    BY <2>1, <2>2, <2>3 DEF SweepHolds, MayDelete
  <2>5. ASSUME NEW r \in (Records \intersect stored) \ stored'
        PROVE  \/ snapshots'[r] > 0
               \/ ResourceOf(r) \in discarding'
               \/ r \notin Cases /\ Owner[r] \notin stored'
    <3>1. r \in gone /\ stored' = stored \ gone
      BY <2>1, <2>5
    <3>2. CASE r = w.record
      BY <2>1, <2>4, <3>2
    <3>3. CASE r # w.record
      <4>1. w.record \in Cases /\ r \in Evidence \union Runs /\ Owner[r] = w.record
        BY <3>1, <3>3 DEF WithDependents
      <4>2. w.record \in gone /\ r \notin Cases
        BY <4>1, RetentionAssumption DEF WithDependents
      <4> QED
        BY <3>1, <4>1, <4>2
    <3> QED
      BY <3>2, <3>3
  <2>6. stored' \subseteq stored
    BY <2>1
  <2> HIDE DEF w, gone
  <2> QED
    BY <1>0, <2>1, <2>5, <2>6, ReasonsLast
<1>5. ASSUME NEW s \in Sweeps,
             \/ SweepReadsPolicies(s) \/ SweepFindsExpired(s) \/ SweepLookupFails(s)
             \/ SweepTakesRecord(s) \/ SweepDeleteFails(s) \/ SweepGoesOn(s) \/ SweepEnds(s)
      PROVE  SweptAreArchived'
  <2>1. UNCHANGED <<stored, snapshots>>
    BY <1>5, Zenon DEF SweepReadsPolicies, SweepFindsExpired, SweepLookupFails, SweepTakesRecord,
       SweepDeleteFails, SweepGoesOn, SweepEnds
  <2>2. UNCHANGED <<removed, discarding>>
    BY <1>5, Zenon DEF SweepReadsPolicies, SweepFindsExpired, SweepLookupFails, SweepTakesRecord,
       SweepDeleteFails, SweepGoesOn, SweepEnds, SweepMoves
  <2> QED
    BY <1>1, <2>1, <2>2
<1>6. ASSUME \/ DayPasses \/ UNCHANGED retentionVars
             \/ \E i \in Cases : ResolveIncident(i) \/ ReopenIncident(i) \/ RemoverClears(i)
             \/ \E r \in Records, table \in DependentTables : WriteDependent(r, table)
             \/ \E resource \in Resources, policy \in RetentionPolicy \union {NoPolicy} :
                   EditsPolicy(resource, policy)
      PROVE  SweptAreArchived'
  <2>1. UNCHANGED <<stored, snapshots, removed>> /\ discarding \subseteq discarding'
    BY <1>6 DEF DayPasses, ResolveIncident, ReopenIncident, SetTerminal, RemoverClears, WriteDependent,
       EditsPolicy, retentionVars
  <2> QED
    BY <1>1, <2>1
<1> QED
  BY <1>2, <1>3, <1>4, <1>5, <1>6
     DEF RetentionNext, CreateRetentionPolicy, UpdateRetentionPolicy, DeleteRetentionPolicy

\* The invariant holds in every state.
LEMMA InvHolds == RetentionSpec => []RetentionInv
<1>1. RetentionInit => RetentionInv
  <2> SUFFICES ASSUME RetentionInit PROVE RetentionInv
    OBVIOUS
  <2>1. CountInv
    BY RetentionAssumption DEF RetentionInit, CountInv
  <2>2. RowInv
    BY RetentionAssumption DEF RetentionInit, RowInv, IdleRemover, NotResolved, PointAt
  <2>3. SweepInv
    <3>1. sweep = [s \in Sweeps |-> IdleSweep]
      BY DEF RetentionInit
    <3>2. SweepHolds(IdleSweep, terminal, snapshots)
      BY IdleSweepIsState, EmptyHanded
    <3> QED
      BY <3>1, <3>2, IdleSweepIsState DEF SweepInv
  <2>4. blocked \in BOOLEAN
    BY Zenon DEF RetentionInit
  <2>5. ReasonInv
    <3>1. IdleSweep.pc = "idle" /\ IdleSweep.todo = {}
      BY DEF IdleSweep
    <3>2. MayDelete(IdleSweep, discarding)
      BY <3>1 DEF MayDelete
    <3> QED
      BY <3>2 DEF RetentionInit, ReasonInv, Discards
  <2>6. SweptAreArchived
    BY DEF RetentionInit, SweptAreArchived
  <2> QED
    BY <2>1, <2>2, <2>3, <2>4, <2>5, <2>6 DEF RetentionInv
<1>2. RetentionInv /\ [RetentionNext]_retentionVars => RetentionInv'
  <2> SUFFICES ASSUME RetentionInv, [RetentionNext]_retentionVars PROVE RetentionInv'
    OBVIOUS
  <2>1. CountInv /\ blocked \in BOOLEAN
    BY DEF RetentionInv
  <2>2. CountInv'
    BY <2>1, CountStep
  <2>3. blocked' \in BOOLEAN
    BY <2>1, BlockedStep
  <2>4. RowInv' /\ SweepInv'
    BY RowsAndSweepsStep
  <2>5. ReasonInv' /\ SweptAreArchived'
    BY ReasonStep, ArchivedStep
  <2> QED
    BY <2>2, <2>3, <2>4, <2>5 DEF RetentionInv
<1> QED
  BY <1>1, <1>2, PTL DEF RetentionSpec

(***************************************************************************)
(* The types of retention's variables, in every state.                     *)
(***************************************************************************)
THEOREM RetentionTypeCorrect == RetentionSpec => []RetentionTypeOK
  BY InvHolds, InvGivesTypes, PTL

(***************************************************************************)
(* An incident that a sweep deletes was resolved or closed when the sweep  *)
(* looked for expired ones (FindExpiredIncidents).                         *)
(***************************************************************************)
THEOREM OpenIncidentsAreNotSwept == RetentionSpec => OpenIncidentsAreKept
<1> DEFINE Kept == \A s \in Sweeps, i \in Cases :
                      i \in stored \ stored' /\ Swept(s, i) /\ i \notin terminal
                          => i \in sweep[s].reopened
<1>1. RetentionInv => Kept
  BY DEF RetentionInv, SweepInv, SweepHolds, StillExpired, Swept
<1>2. []RetentionInv => [][Kept]_retentionVars
  BY <1>1, PTL
<1> QED
  BY <1>2, InvHolds, PTL DEF OpenIncidentsAreKept

(***************************************************************************)
(* A row without a snapshot is gone because somebody deleted its incident, *)
(* a policy said to delete without archiving, or the incident it belonged  *)
(* to has gone (executePolicy archives first and spares the row if that    *)
(* fails; what goes by cascade it does not archive).                       *)
(***************************************************************************)
THEOREM SweptHaveSnapshots == RetentionSpec => []SweptAreArchived
<1>1. RetentionInv => SweptAreArchived
  BY DEF RetentionInv
<1> QED
  BY <1>1, InvHolds, PTL

----------------------------------------------------------------------------
(***************************************************************************)
(* The Teams connection, for any number of PATCHes, connect flows, Graph   *)
(* clients and tokens: the narrow writes clobber nothing.                  *)
(***************************************************************************)
\* Writing some columns and leaving the others keeps the row as it was meant.
LEMMA ColumnsKeepMeaning ==
    ASSUME NEW changes, NarrowWritesLoseNothing, WritesColumns(changes)
    PROVE  NarrowWritesLoseNothing'
  BY DEF NarrowWritesLoseNothing, WritesColumns

\* A group that is written back whole loses a later write only if overlapped says so.
LEMMA GroupsKeepMeaning ==
    ASSUME NEW group, group \subseteq Columns, NEW seen, NEW changes,
           NarrowWritesLoseNothing, WritesGroup(group, seen, changes)
    PROVE  NarrowWritesLoseNothing'
<1>1. CASE overlapped'
  BY <1>1 DEF NarrowWritesLoseNothing
<1>2. CASE ~overlapped'
  <2>1. ~overlapped /\ \A c \in group \ DOMAIN changes : seen[c] = org[c]
    BY <1>2 DEF WritesGroup
  <2>2. org = meant
    BY <2>1 DEF NarrowWritesLoseNothing
  <2>3. \A c \in Columns : (IF c \in DOMAIN changes THEN changes[c]
                            ELSE IF c \in group THEN seen[c] ELSE org[c])
                         = (IF c \in DOMAIN changes THEN changes[c] ELSE meant[c])
    BY <2>1, <2>2
  <2>4. org' = meant'
    BY <2>3 DEF WritesGroup
  <2> QED
    BY <2>4 DEF NarrowWritesLoseNothing
<1> QED
  BY <1>1, <1>2

(***************************************************************************)
(* The row is what the requests meant, in every column, unless a whole     *)
(* group was written back over a later write (UpdateTeamsRefreshToken and  *)
(* DisconnectTeams never are such a write).                                *)
(***************************************************************************)
THEOREM NarrowWritesAreSafe == TeamsSpec => []NarrowWritesLoseNothing
<1>1. TeamsInit => NarrowWritesLoseNothing
  BY DEF TeamsInit, NarrowWritesLoseNothing
<1>2. NarrowWritesLoseNothing /\ [TeamsNext]_teamsVars => NarrowWritesLoseNothing'
  <2> SUFFICES ASSUME NarrowWritesLoseNothing, [TeamsNext]_teamsVars
               PROVE  NarrowWritesLoseNothing'
    OBVIOUS
  <2> DEFINE Same == UNCHANGED <<org, meant, overlapped>>
  <2>0. ASSUME Same
        PROVE  NarrowWritesLoseNothing'
    BY <2>0 DEF NarrowWritesLoseNothing
  <2>1. ASSUME NEW p \in Patchers, \E body \in Bodies : PatchStarts(p, body)
        PROVE  NarrowWritesLoseNothing'
    <3>1. Same BY <2>1 DEF PatchStarts
    <3> QED BY <3>1, <2>0
  <2>2. ASSUME NEW p \in Patchers, PatchReadsGroup(p) \/ SettingsPatchFails(p)
        PROVE  NarrowWritesLoseNothing'
    <3>1. Same BY <2>2 DEF PatchReadsGroup, SettingsPatchFails
    <3> QED BY <3>1, <2>0
  <2>3. ASSUME NEW p \in Patchers, PatchWritesLlm(p)
        PROVE  NarrowWritesLoseNothing'
    <3>1. WritesGroup(LlmColumns, patch[p].seen, Part(patch[p].body, LlmColumns))
      BY <2>3 DEF PatchWritesLlm
    <3>2. LlmColumns \subseteq Columns
      BY DEF Columns
    <3> QED
      BY <3>1, <3>2, GroupsKeepMeaning
  <2>4. ASSUME NEW p \in Patchers, PatchWritesTeams(p)
        PROVE  NarrowWritesLoseNothing'
    <3>1. WritesGroup(TeamsColumns, patch[p].seen, Part(patch[p].body, TeamsColumns))
      BY <2>4 DEF PatchWritesTeams
    <3>2. TeamsColumns \subseteq Columns
      BY DEF Columns
    <3> QED
      BY <3>1, <3>2, GroupsKeepMeaning
  <2>5. ASSUME InitiateConnect \/ HandleCallback \/ ExchangeCode \/ CallbackFails
        PROVE  NarrowWritesLoseNothing'
    <3>1. Same BY <2>5 DEF InitiateConnect, HandleCallback, ExchangeCode, CallbackFails
    <3> QED BY <3>1, <2>0
  <2>6. ASSUME CallbackSaves
        PROVE  NarrowWritesLoseNothing'
    <3>1. PICK email \in {0, callback.token} :
             WritesGroup(TeamsColumns, callback.seen,
                         [c \in {"token", "email"} |-> IF c = "token" THEN callback.token ELSE email])
      BY <2>6 DEF CallbackSaves
    <3>2. TeamsColumns \subseteq Columns
      BY DEF Columns
    <3> QED
      BY <3>1, <3>2, GroupsKeepMeaning
  <2>7. ASSUME Disconnect
        PROVE  NarrowWritesLoseNothing'
    <3>1. WritesColumns([c \in {"token", "email"} |-> 0])
      BY <2>7 DEF Disconnect, DisconnectTeams
    <3> QED
      BY <3>1, ColumnsKeepMeaning
  <2>8. ASSUME NEW c \in GraphClients, ResolveTeamsClient(c) \/ GetToken(c) \/ PersistFails(c)
        PROVE  NarrowWritesLoseNothing'
    <3>1. Same BY <2>8 DEF ResolveTeamsClient, GetToken, PersistFails
    <3> QED BY <3>1, <2>0
  <2>9. ASSUME NEW c \in GraphClients, PersistRefreshToken(c)
        PROVE  NarrowWritesLoseNothing'
    <3>1. WritesColumns([x \in {"token"} |-> client[c].made["token"]])
      BY <2>9 DEF PersistRefreshToken, UpdateTeamsRefreshToken
    <3> QED
      BY <3>1, ColumnsKeepMeaning
  <2>10. ASSUME UNCHANGED teamsVars
         PROVE  NarrowWritesLoseNothing'
    <3>1. Same BY <2>10 DEF teamsVars
    <3> QED BY <3>1, <2>0
  <2> QED
    BY <2>1, <2>2, <2>3, <2>4, <2>5, <2>6, <2>7, <2>8, <2>9, <2>10 DEF TeamsNext
<1> QED
  BY <1>1, <1>2, PTL DEF TeamsSpec

SettingsRow == [Columns -> Nat]
PatchState ==
    [pc : {"idle", "llm", "set llm", "teams", "set teams"}, body : Bodies \union {NoBody},
     seen : SettingsRow \union {NoBody}]
CallbackState ==
    [pc : {"idle", "exchange", "save"}, seen : SettingsRow \union {NoBody}, token : 0 .. MaxTokens]
ClientState == [pc : {"idle", "refresh", "persist"}, made : SettingsRow \union {NoBody}]
Operations == {"patches", "connects", "disconnects"}

\* Whoever is under way has a body, and a row once it has read it.
PatchesInv ==
    /\ patch \in [Patchers -> PatchState]
    /\ \A p \in Patchers :
          /\ patch[p].pc # "idle" => patch[p].body \in Bodies
          /\ patch[p].pc \in {"set llm", "set teams"} => patch[p].seen \in SettingsRow

ConnectInv ==
    /\ callback \in CallbackState
    /\ callback.pc # "idle" => callback.seen \in SettingsRow
    /\ teamsOps \in [Operations -> Nat]
    /\ oauthStates \in Nat /\ oauthStates <= teamsOps["connects"] /\ teamsOps["connects"] <= MaxConnects

ClientsInv ==
    /\ client \in [GraphClients -> ClientState]
    /\ \A c \in GraphClients :
          client[c].pc # "idle" => client[c].made \in SettingsRow /\ Registered(client[c].made)

RowsInv ==
    /\ org \in SettingsRow /\ meant \in SettingsRow /\ overlapped \in BOOLEAN /\ issued \in 0 .. MaxTokens

TeamsInv == PatchesInv /\ ConnectInv /\ ClientsInv /\ RowsInv

LEMMA TeamsInvGivesTypes == TeamsInv => TeamsTypeOK
<1> SUFFICES ASSUME TeamsInv PROVE TeamsTypeOK
  OBVIOUS
<1>1. org \in [Columns -> Nat] /\ meant \in [Columns -> Nat] /\ overlapped \in BOOLEAN /\ issued \in 0 .. MaxTokens
  BY DEF TeamsInv, RowsInv, SettingsRow
<1>2. \A p \in Patchers :
         /\ patch[p].pc \in {"idle", "llm", "set llm", "teams", "set teams"}
         /\ patch[p].body \in Bodies \union {NoBody}
         /\ patch[p].pc \in {"set llm", "set teams"} => patch[p].seen \in [Columns -> Nat]
  BY DEF TeamsInv, PatchesInv, PatchState, SettingsRow
<1>3. oauthStates \in 0 .. MaxConnects
  BY TeamsAssumption DEF TeamsInv, ConnectInv, Operations
<1>4. callback.pc \in {"idle", "exchange", "save"} /\ callback.token \in 0 .. MaxTokens
  BY DEF TeamsInv, ConnectInv, CallbackState
<1>5. \A c \in GraphClients :
         client[c].pc \in {"idle", "refresh", "persist"} /\ (client[c].pc # "idle" => Registered(client[c].made))
  BY DEF TeamsInv, ClientsInv, ClientState
<1> QED
  BY <1>1, <1>2, <1>3, <1>4, <1>5 DEF TeamsTypeOK

LEMMA TeamsInitInv == TeamsInit => TeamsInv
<1> SUFFICES ASSUME TeamsInit PROVE TeamsInv
  OBVIOUS
<1>0. MaxConnects \in Nat /\ MaxTokens \in Nat \ {0}
  BY TeamsAssumption
<1>1. org \in SettingsRow /\ org["token"] \in {0, 1}
  BY DEF TeamsInit, SettingsRow, Columns, TeamsColumns
<1>2. RowsInv
  <2>1. issued \in 0 .. MaxTokens
    BY <1>0, <1>1 DEF TeamsInit
  <2>2. meant \in SettingsRow /\ overlapped \in BOOLEAN
    BY <1>1 DEF TeamsInit
  <2> QED
    BY <1>1, <2>1, <2>2 DEF RowsInv
<1>3. IdlePatch \in PatchState /\ IdlePatch.pc = "idle"
  BY DEF IdlePatch, PatchState
<1>4. PatchesInv
  BY <1>3 DEF TeamsInit, PatchesInv
<1>5. IdleClient \in ClientState /\ IdleClient.pc = "idle"
  BY DEF IdleClient, ClientState
<1>6. ClientsInv
  BY <1>5 DEF TeamsInit, ClientsInv
<1>7. IdleCallback \in CallbackState /\ IdleCallback.pc = "idle"
  BY <1>0 DEF IdleCallback, CallbackState
<1>8. teamsOps \in [Operations -> Nat] /\ teamsOps["connects"] = 0
  BY DEF TeamsInit, Operations
<1>9. ConnectInv
  BY <1>0, <1>7, <1>8 DEF TeamsInit, ConnectInv
<1> QED
  BY <1>2, <1>4, <1>6, <1>9 DEF TeamsInv

\* The two ways of writing the row keep its type.
LEMMA WritesKeepRows ==
    ASSUME RowsInv, NEW changes, \A c \in DOMAIN changes : c \in Columns => changes[c] \in Nat,
           UNCHANGED issued,
           \/ WritesColumns(changes)
           \/ \E group \in SUBSET Columns, seen \in SettingsRow : WritesGroup(group, seen, changes)
    PROVE  RowsInv'
<1>1. CASE WritesColumns(changes)
  BY <1>1 DEF WritesColumns, RowsInv, SettingsRow
<1>2. CASE \E group \in SUBSET Columns, seen \in SettingsRow : WritesGroup(group, seen, changes)
  <2>1. PICK group \in SUBSET Columns, seen \in SettingsRow : WritesGroup(group, seen, changes)
    BY <1>2
  <2>2. org' \in SettingsRow /\ meant' \in SettingsRow
    BY <2>1 DEF WritesGroup, RowsInv, SettingsRow
  <2>3. overlapped' \in BOOLEAN
    BY <2>1 DEF WritesGroup
  <2> QED
    BY <2>2, <2>3 DEF RowsInv
<1> QED
  BY <1>1, <1>2

\* A PATCH that moves on.
LEMMA PatchStep ==
    ASSUME TeamsInv, NEW p \in Patchers, NEW to \in PatchState, PatchMoves(p, to),
           to.pc # "idle" => to.body \in Bodies, to.pc \in {"set llm", "set teams"} => to.seen \in SettingsRow,
           RowsInv', teamsOps' \in [Operations -> Nat], teamsOps'["connects"] = teamsOps["connects"]
    PROVE  TeamsInv'
<1>1. patch' = [patch EXCEPT ![p] = to] /\ UNCHANGED <<oauthStates, callback, client>>
  BY DEF PatchMoves
<1>2. patch \in [Patchers -> PatchState]
  BY DEF TeamsInv, PatchesInv
<1>3. /\ patch' \in [Patchers -> PatchState] /\ patch'[p] = to
      /\ \A q \in Patchers : q # p => patch'[q] = patch[q]
  BY <1>1, <1>2
<1>4. PatchesInv'
  BY <1>3 DEF TeamsInv, PatchesInv
<1>5. ConnectInv'
  BY <1>1 DEF TeamsInv, ConnectInv
<1>6. ClientsInv'
  BY <1>1 DEF TeamsInv, ClientsInv
<1> QED
  BY <1>4, <1>5, <1>6 DEF TeamsInv

\* A client that moves on.
LEMMA ClientStep ==
    ASSUME TeamsInv, NEW c \in GraphClients, NEW to \in ClientState, ClientMoves(c, to),
           to.pc # "idle" => to.made \in SettingsRow /\ Registered(to.made), RowsInv'
    PROVE  TeamsInv'
<1>1. client' = [client EXCEPT ![c] = to] /\ UNCHANGED <<patch, oauthStates, callback, teamsOps>>
  BY DEF ClientMoves
<1>2. client \in [GraphClients -> ClientState]
  BY DEF TeamsInv, ClientsInv
<1>3. /\ client' \in [GraphClients -> ClientState] /\ client'[c] = to
      /\ \A d \in GraphClients : d # c => client'[d] = client[d]
  BY <1>1, <1>2
<1>4. ClientsInv'
  BY <1>3 DEF TeamsInv, ClientsInv
<1>5. ConnectInv' /\ PatchesInv'
  BY <1>1 DEF TeamsInv, ConnectInv, PatchesInv
<1> QED
  BY <1>4, <1>5 DEF TeamsInv

LEMMA TeamsKeeps ==
    ASSUME TeamsInv, [TeamsNext]_teamsVars
    PROVE  TeamsInv'
<1>0. /\ patch \in [Patchers -> PatchState] /\ callback \in CallbackState /\ client \in [GraphClients -> ClientState]
      /\ org \in SettingsRow /\ issued \in 0 .. MaxTokens /\ MaxTokens \in Nat /\ MaxConnects \in Nat
      /\ teamsOps \in [Operations -> Nat] /\ oauthStates \in Nat
  BY TeamsAssumption DEF TeamsInv, PatchesInv, ConnectInv, ClientsInv, RowsInv
<1>i. PatchesInv /\ ConnectInv /\ ClientsInv /\ RowsInv
  BY DEF TeamsInv
<1>p. IdlePatch \in PatchState /\ IdlePatch.pc = "idle"
  BY DEF IdlePatch, PatchState
<1>c. IdleClient \in ClientState /\ IdleClient.pc = "idle"
  BY DEF IdleClient, ClientState
<1>k. IdleCallback \in CallbackState /\ IdleCallback.pc = "idle"
  BY <1>0 DEF IdleCallback, CallbackState
<1>b. \A body \in Bodies, group \in SUBSET Columns, c \in Columns :
         c \in DOMAIN Part(body, group) => Part(body, group)[c] \in Nat
  BY TeamsAssumption DEF Part
<1>o. ASSUME NEW what \in Operations, NEW max, Counts(what, max)
      PROVE  /\ teamsOps' \in [Operations -> Nat] /\ teamsOps'[what] = teamsOps[what] + 1 /\ teamsOps[what] < max
             /\ \A other \in Operations : other # what => teamsOps'[other] = teamsOps[other]
  BY <1>0, <1>o DEF Counts
<1>1. ASSUME NEW p \in Patchers, NEW body \in Bodies, PatchStarts(p, body) PROVE TeamsInv'
  <2> DEFINE to == [IdlePatch EXCEPT !.body = body, !.pc = IF Names(body, LlmColumns) THEN "llm" ELSE "teams"]
  <2>1. to \in PatchState /\ to.body = body /\ to.pc \notin {"set llm", "set teams"}
    BY <1>p DEF PatchState, IdlePatch
  <2>2. PatchMoves(p, to)
    BY <1>1 DEF PatchStarts
  <2> HIDE DEF to
  <2>3. RowsInv'
    <3>1. UNCHANGED <<org, meant, overlapped, issued>>
      BY <1>1 DEF PatchStarts, PatchMoves
    <3> QED
      BY <1>i, <3>1 DEF RowsInv
  <2>4. teamsOps' \in [Operations -> Nat] /\ teamsOps'["connects"] = teamsOps["connects"]
    BY <1>1, <1>o DEF PatchStarts, Operations
  <2> QED
    BY <2>1, <2>2, <2>3, <2>4, PatchStep
<1>2. ASSUME NEW p \in Patchers, PatchReadsGroup(p) PROVE TeamsInv'
  <2>m. PICK pc \in {"set llm", "set teams"} : PatchMoves(p, [patch[p] EXCEPT !.seen = org, !.pc = pc])
    <3>1. patch[p].pc = "llm" \/ patch[p].pc = "teams"
      BY <1>2 DEF PatchReadsGroup
    <3>2. PatchMoves(p, [patch[p] EXCEPT !.seen = org, !.pc = IF patch[p].pc = "llm" THEN "set llm" ELSE "set teams"])
      BY <1>2 DEF PatchReadsGroup
    <3> QED
      BY <3>1, <3>2
  <2> DEFINE to == [patch[p] EXCEPT !.seen = org, !.pc = pc]
  <2>1. to \in PatchState /\ to.body = patch[p].body /\ to.seen = org
    BY <1>0 DEF PatchState
  <2>2. patch[p].body \in Bodies
    BY <1>2, <1>i DEF PatchReadsGroup, PatchesInv
  <2> HIDE DEF to
  <2>3. UNCHANGED <<org, teamsOps, meant, overlapped, issued>>
    BY <1>2 DEF PatchReadsGroup, PatchMoves
  <2>4. RowsInv'
    BY <1>i, <2>3 DEF RowsInv
  <2> QED
    BY <1>0, <2>m, <2>1, <2>2, <2>3, <2>4, PatchStep DEF to
<1>3. ASSUME NEW p \in Patchers, PatchWritesLlm(p) PROVE TeamsInv'
  <2>1. patch[p].body \in Bodies /\ patch[p].seen \in SettingsRow /\ LlmColumns \in SUBSET Columns
    BY <1>3, <1>i DEF PatchWritesLlm, PatchesInv, Columns
  <2>2. WritesGroup(LlmColumns, patch[p].seen, Part(patch[p].body, LlmColumns)) /\ UNCHANGED <<teamsOps, issued>>
    BY <1>3 DEF PatchWritesLlm, PatchMoves
  <2>3. RowsInv'
    BY <1>b, <1>i, <2>1, <2>2, WritesKeepRows
  <2>4. CASE PatchMoves(p, [patch[p] EXCEPT !.pc = "teams", !.seen = NoBody])
    <3> DEFINE to == [patch[p] EXCEPT !.pc = "teams", !.seen = NoBody]
    <3>1. to \in PatchState /\ to.body = patch[p].body /\ to.pc = "teams"
      BY <1>0 DEF PatchState
    <3> HIDE DEF to
    <3> QED
      BY <1>0, <2>1, <2>2, <2>3, <2>4, <3>1, PatchStep DEF to
  <2>5. CASE PatchMoves(p, IdlePatch)
    BY <1>0, <1>p, <2>2, <2>3, <2>5, PatchStep
  <2> QED
    BY <1>3, <2>4, <2>5 DEF PatchWritesLlm
<1>4. ASSUME NEW p \in Patchers, PatchWritesTeams(p) PROVE TeamsInv'
  <2>1. patch[p].body \in Bodies /\ patch[p].seen \in SettingsRow /\ TeamsColumns \in SUBSET Columns
    BY <1>4, <1>i DEF PatchWritesTeams, PatchesInv, Columns
  <2>2. WritesGroup(TeamsColumns, patch[p].seen, Part(patch[p].body, TeamsColumns)) /\ UNCHANGED <<teamsOps, issued>>
    BY <1>4 DEF PatchWritesTeams, PatchMoves
  <2>3. RowsInv'
    BY <1>b, <1>i, <2>1, <2>2, WritesKeepRows
  <2> QED
    BY <1>0, <1>4, <1>p, <2>2, <2>3, PatchStep DEF PatchWritesTeams
<1>5. ASSUME NEW p \in Patchers, SettingsPatchFails(p) PROVE TeamsInv'
  <2>1. UNCHANGED <<org, teamsOps, meant, overlapped, issued>>
    BY <1>5 DEF SettingsPatchFails, PatchMoves
  <2>2. RowsInv'
    BY <1>i, <2>1 DEF RowsInv
  <2> QED
    BY <1>0, <1>5, <1>p, <2>1, <2>2, PatchStep DEF SettingsPatchFails
<1>6. CASE InitiateConnect
  <2>1. oauthStates' = oauthStates + 1 /\ UNCHANGED <<org, patch, callback, client, issued, meant, overlapped>>
    BY <1>6 DEF InitiateConnect
  <2>2. /\ teamsOps' \in [Operations -> Nat] /\ teamsOps'["connects"] = teamsOps["connects"] + 1
        /\ teamsOps["connects"] < MaxConnects
    BY <1>6, <1>o DEF InitiateConnect, Operations
  <2>3. teamsOps["connects"] \in Nat
    BY <1>0 DEF Operations
  <2>4. ConnectInv'
    BY <1>0, <1>i, <2>1, <2>2, <2>3 DEF ConnectInv
  <2>5. RowsInv' /\ PatchesInv' /\ ClientsInv'
    BY <1>i, <2>1 DEF RowsInv, PatchesInv, ClientsInv
  <2> QED
    BY <2>4, <2>5 DEF TeamsInv
<1>7. ASSUME HandleCallback \/ ExchangeCode \/ CallbackSaves \/ CallbackFails PROVE TeamsInv'
  <2>1. UNCHANGED <<patch, client, teamsOps>>
    BY <1>7 DEF HandleCallback, ExchangeCode, CallbackSaves, CallbackFails, CallbackMoves
  <2>2. PatchesInv' /\ ClientsInv'
    BY <1>i, <2>1 DEF PatchesInv, ClientsInv
  <2>3. teamsOps["connects"] \in Nat
    BY <1>0 DEF Operations
  <2>4. oauthStates' \in Nat /\ oauthStates' <= teamsOps["connects"]
    BY <1>0, <1>7, <1>i, <2>3 DEF HandleCallback, ExchangeCode, CallbackSaves, CallbackFails, ConnectInv
  <2>5. callback' \in CallbackState /\ (callback'.pc # "idle" => callback'.seen \in SettingsRow) /\ issued' \in 0 .. MaxTokens
    <3>1. CASE callback' = IdleCallback /\ UNCHANGED issued
      BY <1>0, <1>k, <3>1
    <3>2. CASE HandleCallback /\ callback' = [pc |-> "exchange", seen |-> org, token |-> 0]
      BY <1>0, <3>2 DEF HandleCallback, CallbackState
    <3>3. CASE ExchangeCode /\ issued < MaxTokens /\ issued' = issued + 1
               /\ callback' = [callback EXCEPT !.pc = "save", !.token = issued + 1]
      <4>1. callback.seen \in SettingsRow
        BY <1>i, <3>3 DEF ExchangeCode, ConnectInv
      <4>2. PICK n \in 0 .. MaxTokens : n = issued + 1
        BY <1>0, <3>3
      <4>3. callback' = [callback EXCEPT !.pc = "save", !.token = n]
        BY <3>3, <4>2
      <4>4. callback' \in CallbackState /\ callback'.seen = callback.seen
        BY <1>0, <4>3 DEF CallbackState
      <4> QED
        BY <3>3, <4>1, <4>2, <4>4
    <3> QED
      BY <1>7, <3>1, <3>2, <3>3 DEF HandleCallback, ExchangeCode, CallbackSaves, CallbackFails, CallbackMoves
  <2>6. RowsInv'
    <3>1. CASE HandleCallback \/ ExchangeCode \/ CallbackFails
      <4>1. UNCHANGED <<org, meant, overlapped>>
        BY <3>1 DEF HandleCallback, ExchangeCode, CallbackFails
      <4> QED
        BY <1>i, <2>5, <4>1 DEF RowsInv
    <3>2. CASE CallbackSaves
      <4>1. PICK email \in {0, callback.token} :
               WritesGroup(TeamsColumns, callback.seen,
                           [c \in {"token", "email"} |-> IF c = "token" THEN callback.token ELSE email])
        BY <3>2 DEF CallbackSaves
      <4>2. callback.token \in Nat /\ email \in Nat /\ callback.seen \in SettingsRow /\ TeamsColumns \in SUBSET Columns
        BY <1>0, <1>i, <3>2 DEF CallbackSaves, CallbackState, ConnectInv, Columns
      <4> DEFINE changes == [c \in {"token", "email"} |-> IF c = "token" THEN callback.token ELSE email]
      <4>3. \A c \in DOMAIN changes : c \in Columns => changes[c] \in Nat
        BY <4>2
      <4>4. WritesGroup(TeamsColumns, callback.seen, changes) /\ UNCHANGED issued
        BY <3>2, <4>1 DEF CallbackSaves
      <4> HIDE DEF changes
      <4> QED
        BY <1>i, <4>2, <4>3, <4>4, WritesKeepRows
    <3> QED
      BY <1>7, <3>1, <3>2
  <2>7. ConnectInv'
    BY <1>i, <2>1, <2>4, <2>5 DEF ConnectInv
  <2> QED
    BY <2>2, <2>6, <2>7 DEF TeamsInv
<1>8. CASE Disconnect
  <2>1. WritesColumns([c \in {"token", "email"} |-> 0]) /\ UNCHANGED <<patch, oauthStates, callback, client, issued>>
    BY <1>8 DEF Disconnect, DisconnectTeams
  <2>2. RowsInv'
    <3> DEFINE changes == [c \in {"token", "email"} |-> 0]
    <3>1. \A c \in DOMAIN changes : c \in Columns => changes[c] \in Nat
      OBVIOUS
    <3> QED
      BY <1>i, <2>1, <3>1, WritesKeepRows
  <2>3. teamsOps' \in [Operations -> Nat] /\ teamsOps'["connects"] = teamsOps["connects"]
    BY <1>8, <1>o DEF Disconnect, Operations
  <2>4. ConnectInv' /\ PatchesInv' /\ ClientsInv'
    BY <1>i, <2>1, <2>3 DEF ConnectInv, PatchesInv, ClientsInv
  <2> QED
    BY <2>2, <2>4 DEF TeamsInv
<1>9. ASSUME NEW c \in GraphClients, ResolveTeamsClient(c) PROVE TeamsInv'
  <2> DEFINE to == [IdleClient EXCEPT !.pc = "refresh", !.made = org]
  <2>1. to \in ClientState /\ to.made = org
    BY <1>0 DEF ClientState, IdleClient
  <2>2. ClientMoves(c, to) /\ Registered(org) /\ UNCHANGED <<org, issued, meant, overlapped>>
    BY <1>9 DEF ResolveTeamsClient, Configured
  <2> HIDE DEF to
  <2>3. RowsInv'
    BY <1>i, <2>2 DEF RowsInv
  <2> QED
    BY <1>0, <2>1, <2>2, <2>3, ClientStep
<1>10. ASSUME NEW c \in GraphClients, GetToken(c) PROVE TeamsInv'
  <2>1. UNCHANGED <<org, meant, overlapped>> /\ client[c].pc = "refresh"
    BY <1>10 DEF GetToken
  <2>2. CASE ClientMoves(c, IdleClient) /\ UNCHANGED issued
    <3>1. RowsInv'
      BY <1>i, <2>1, <2>2 DEF RowsInv
    <3> QED
      BY <1>c, <2>2, <3>1, ClientStep
  <2>3. CASE issued < MaxTokens /\ issued' = issued + 1
             /\ ClientMoves(c, [client[c] EXCEPT !.pc = "persist", !.made["token"] = issued + 1])
    <3>1. client[c] \in ClientState /\ client[c].made \in SettingsRow /\ Registered(client[c].made)
      BY <1>0, <1>i, <2>1 DEF ClientsInv
    <3>2. PICK made : made = [client[c].made EXCEPT !["token"] = issued + 1]
      OBVIOUS
    <3>3. made \in SettingsRow /\ Registered(made)
      BY <1>0, <3>1, <3>2 DEF SettingsRow, Registered, Columns, TeamsColumns
    <3> DEFINE to == [client[c] EXCEPT !.pc = "persist", !.made = made]
    <3>4. to \in ClientState /\ to.made = made
      BY <3>1, <3>3 DEF ClientState
    <3>5. ClientMoves(c, to)
      BY <2>3, <3>2
    <3> HIDE DEF to
    <3>6. RowsInv'
      BY <1>0, <1>i, <2>1, <2>3 DEF RowsInv
    <3> QED
      BY <3>3, <3>4, <3>5, <3>6, ClientStep
  <2> QED
    BY <1>10, <2>2, <2>3 DEF GetToken
<1>11. ASSUME NEW c \in GraphClients, PersistRefreshToken(c) PROVE TeamsInv'
  <2>1. ClientMoves(c, IdleClient) /\ UNCHANGED issued /\ client[c].pc = "persist"
        /\ WritesColumns([x \in {"token"} |-> client[c].made["token"]])
    BY <1>11 DEF PersistRefreshToken, UpdateTeamsRefreshToken
  <2>2. client[c].made["token"] \in Nat
    BY <1>i, <2>1 DEF ClientsInv, SettingsRow, Columns, TeamsColumns
  <2>3. RowsInv'
    <3> DEFINE changes == [x \in {"token"} |-> client[c].made["token"]]
    <3>1. \A x \in DOMAIN changes : x \in Columns => changes[x] \in Nat
      BY <2>2
    <3> QED
      BY <1>i, <2>1, <3>1, WritesKeepRows
  <2> QED
    BY <1>c, <2>1, <2>3, ClientStep
<1>12. ASSUME NEW c \in GraphClients, PersistFails(c) PROVE TeamsInv'
  <2>1. ClientMoves(c, IdleClient) /\ UNCHANGED <<org, issued, meant, overlapped>>
    BY <1>12 DEF PersistFails
  <2>2. RowsInv'
    BY <1>i, <2>1 DEF RowsInv
  <2> QED
    BY <1>c, <2>1, <2>2, ClientStep
<1>13. CASE UNCHANGED teamsVars
  BY <1>13 DEF teamsVars, TeamsInv, PatchesInv, ConnectInv, ClientsInv, RowsInv
<1> QED
  BY <1>1, <1>2, <1>3, <1>4, <1>5, <1>6, <1>7, <1>8, <1>9, <1>10, <1>11, <1>12, <1>13 DEF TeamsNext

\* The invariant holds of every behaviour.
LEMMA TeamsInductive == TeamsSpec => []TeamsInv
<1>1. TeamsInit => TeamsInv
  BY TeamsInitInv
<1>2. TeamsInv /\ [TeamsNext]_teamsVars => TeamsInv'
  BY TeamsKeeps
<1> QED
  BY <1>1, <1>2, PTL DEF TeamsSpec

----------------------------------------------------------------------------
(***************************************************************************)
(* The knowledge base, for any number of texts, writers and entries.       *)
(***************************************************************************)
WriterState == [pc : {"idle", "promote", "update", "embed"}, entry : 0 .. MaxEntries,
                content : Content \union {NoContent}, human : BOOLEAN]

\* Whoever is under way has something to say, and an entry once it has been written or read.
WritersInv ==
    \A w \in Writers :
        /\ writer[w].pc # "idle" => writer[w].content \in Content
        /\ writer[w].pc \in {"update", "embed"} => writer[w].entry \in DOMAIN entries

\* w is about to embed what the row of its entry says.
Refreshes(w, e) == Embedding(w, e) /\ writer[w].content = entries[e].content

\* As long as no embedding failed, and none that is not of what the row says was stored last, an
\* entry's embedding is of what it says, or a request is about to make it so.
EmbeddingInv ==
    semantic /\ ~embedFault /\ ~outdated =>
        \A e \in DOMAIN entries :
            entries[e].embedding = entries[e].content \/ \E w \in Writers : Refreshes(w, e)

KbInv == KbTypeOK /\ WritersInv /\ EmbeddingInv

\* What an insert and an update make is an entry.
LEMMA EntryTypes ==
    ASSUME NEW content \in Content, NEW flag \in BOOLEAN, NEW human \in BOOLEAN
    PROVE  /\ NewEntry(content, flag, human) \in Entry
           /\ \A row \in Entry : UpdatedColumns(row, content, human) \in Entry
  BY DEF NewEntry, Entry, UpdatedColumns

LEMMA KbIdle == IdleWriter \in WriterState
  BY KnowledgeBaseAssumption DEF IdleWriter, WriterState

LEMMA KbInitInv == KbInit => KbInv
<1> SUFFICES ASSUME KbInit PROVE KbInv
  OBVIOUS
<1>1. entries \in Seq(Entry) /\ Len(entries) = 0 /\ DOMAIN entries = {}
  BY DEF KbInit
<1>2. writer \in [Writers -> WriterState] /\ \A w \in Writers : writer[w].pc = "idle"
  BY KbIdle DEF KbInit, IdleWriter
<1>b. MaxEntries \in Nat /\ MaxEdits \in Nat
  BY KnowledgeBaseAssumption
<1>c. semantic \in BOOLEAN /\ embedFault \in BOOLEAN /\ outdated \in BOOLEAN
  BY Zenon DEF KbInit
<1>3. KbTypeOK
  <2>1. edits \in 0 .. MaxEdits /\ Len(entries) <= MaxEntries
    BY <1>b, <1>1 DEF KbInit
  <2> QED
    BY <1>1, <1>2, <1>c, <2>1 DEF KbTypeOK, WriterState
<1> QED
  BY <1>1, <1>2, <1>3 DEF KbInv, WritersInv, EmbeddingInv

\* An insert, by a new request or by one that promotes a correction.
LEMMA InsertKeeps ==
    ASSUME KbInv, NEW w \in Writers, NEW content \in Content, NEW software \in BOOLEAN,
           NEW human \in BOOLEAN, writer[w].pc \in {"idle", "promote"},
           InsertEntry(w, content, software, human)
    PROVE  KbInv'
<1> DEFINE new == NewEntry(content, software, human)
           n == Len(entries) + 1
           to == IF semantic THEN [IdleWriter EXCEPT !.pc = "embed", !.entry = n, !.content = content]
                 ELSE IdleWriter
<1>0. /\ entries \in Seq(Entry) /\ Len(entries) \in Nat /\ DOMAIN entries = 1 .. Len(entries)
      /\ MaxEntries \in Nat /\ Len(entries) < MaxEntries /\ writer \in [Writers -> WriterState]
  BY KnowledgeBaseAssumption DEF KbInv, KbTypeOK, WriterState, InsertEntry
<1>1. /\ entries' = Append(entries, new) /\ writer' = [writer EXCEPT ![w] = to]
      /\ UNCHANGED <<semantic, edits, embedFault, outdated>>
  BY DEF InsertEntry, WriterEmbeds
<1>2. new \in Entry /\ new.content = content
  BY EntryTypes DEF NewEntry
<1>3. /\ to \in WriterState /\ to.pc \in {"idle", "embed"} /\ (to.pc = "embed" => semantic)
      /\ semantic => to.pc = "embed" /\ to.entry = n /\ to.content = content
  <2>1. n \in 0 .. MaxEntries
    BY <1>0
  <2>2. CASE semantic
    BY <2>1, <2>2, KbIdle DEF WriterState, IdleWriter
  <2>3. CASE ~semantic
    BY <2>3, KbIdle DEF IdleWriter
  <2> QED
    BY <2>2, <2>3
<1> HIDE DEF new, to
<1>4. /\ entries' \in Seq(Entry) /\ Len(entries') = n /\ DOMAIN entries' = 1 .. n /\ n <= MaxEntries
      /\ entries'[n] = new /\ \A e \in DOMAIN entries : entries'[e] = entries[e]
  BY <1>0, <1>1, <1>2
<1>5. /\ writer' \in [Writers -> WriterState] /\ writer'[w] = to
      /\ \A v \in Writers : v # w => writer'[v] = writer[v]
  BY <1>0, <1>1, <1>3
<1>6. KbTypeOK'
  BY <1>1, <1>4, <1>5 DEF KbInv, KbTypeOK, WriterState
<1>7. WritersInv'
  BY <1>0, <1>3, <1>4, <1>5 DEF KbInv, WritersInv
<1>8. EmbeddingInv'
  <2> SUFFICES ASSUME semantic, ~embedFault, ~outdated, NEW e \in 1 .. n
               PROVE  \/ entries'[e].embedding = entries'[e].content
                      \/ \E v \in Writers : Refreshes(v, e)'
    BY <1>1, <1>4 DEF EmbeddingInv
  <2>1. CASE e = n
    <3>1. Refreshes(w, e)'
      BY <1>2, <1>3, <1>4, <1>5, <2>1 DEF Refreshes, Embedding
    <3> QED
      BY <3>1
  <2>2. CASE e \in DOMAIN entries
    <3>1. entries[e].embedding = entries[e].content \/ \E v \in Writers : Refreshes(v, e)
      BY <2>2 DEF KbInv, EmbeddingInv
    <3>2. ASSUME NEW v \in Writers, Refreshes(v, e) PROVE Refreshes(v, e)'
      BY <1>4, <1>5, <2>2, <3>2 DEF Refreshes, Embedding
    <3> QED
      BY <1>4, <2>2, <3>1, <3>2
  <2> QED
    BY <1>0, <2>1, <2>2
<1> QED
  BY <1>6, <1>7, <1>8 DEF KbInv

\* A step that moves one request, none of those about to embed, and writes no row.
LEMMA OneWriterMoves ==
    ASSUME KbInv, NEW w \in Writers, NEW to \in WriterState, writer' = [writer EXCEPT ![w] = to],
           writer[w].pc # "embed", to.pc \in {"idle", "promote", "update"},
           to.pc # "idle" => to.content \in Content,
           to.pc = "update" => to.entry \in DOMAIN entries,
           UNCHANGED <<semantic, entries, embedFault, outdated>>, edits' \in 0 .. MaxEdits
    PROVE  KbInv'
<1>0. writer \in [Writers -> WriterState]
  BY DEF KbInv, KbTypeOK, WriterState
<1>1. /\ writer' \in [Writers -> WriterState] /\ writer'[w] = to
      /\ \A v \in Writers : v # w => writer'[v] = writer[v]
  BY <1>0
<1>2. KbTypeOK'
  BY <1>1 DEF KbInv, KbTypeOK, WriterState
<1>3. WritersInv'
  BY <1>1 DEF KbInv, WritersInv
<1>4. \A e, v : v \in Writers /\ Refreshes(v, e) => Refreshes(v, e)'
  BY <1>1 DEF Refreshes, Embedding
<1>5. EmbeddingInv'
  BY <1>4 DEF KbInv, EmbeddingInv
<1> QED
  BY <1>2, <1>3, <1>5 DEF KbInv

\* An update writes its row, and is then the one about to embed it.
LEMMA UpdateKeeps ==
    ASSUME KbInv, NEW w \in Writers, UpdateWrites(w)
    PROVE  KbInv'
<1> DEFINE e == writer[w].entry
           content == writer[w].content
           row == UpdatedColumns(entries[e], content, writer[w].human)
           to == IF semantic THEN [IdleWriter EXCEPT !.pc = "embed", !.entry = e, !.content = content]
                 ELSE IdleWriter
<1>0. /\ entries \in Seq(Entry) /\ Len(entries) \in Nat /\ DOMAIN entries = 1 .. Len(entries)
      /\ writer \in [Writers -> WriterState]
  BY DEF KbInv, KbTypeOK, WriterState
<1>1. writer[w].pc = "update" /\ e \in DOMAIN entries /\ content \in Content /\ e \in 0 .. MaxEntries
  BY <1>0 DEF UpdateWrites, KbInv, WritersInv, WriterState
<1>2. /\ to \in WriterState /\ to.pc \in {"idle", "embed"} /\ (to.pc = "embed" => semantic)
      /\ semantic => to.pc = "embed" /\ to.entry = e /\ to.content = content
  <2>1. CASE semantic
    BY <1>1, <2>1, KbIdle DEF WriterState, IdleWriter
  <2>2. CASE ~semantic
    BY <2>2, KbIdle DEF IdleWriter
  <2> QED
    BY <2>1, <2>2
<1>3. row \in Entry /\ row.content = content
  <2>1. entries[e] \in Entry /\ writer[w].human \in BOOLEAN
    BY <1>0, <1>1 DEF WriterState
  <2>2. row.content = content
    BY <2>1 DEF UpdatedColumns, Entry
  <2> QED
    BY <1>1, <2>1, <2>2, EntryTypes
<1>4. /\ entries' = [entries EXCEPT ![e] = row] /\ writer' = [writer EXCEPT ![w] = to]
      /\ UNCHANGED <<semantic, edits, embedFault, outdated>>
  BY DEF UpdateWrites, WriterEmbeds
<1> HIDE DEF e, content, row, to
<1>5. /\ entries' \in Seq(Entry) /\ Len(entries') = Len(entries) /\ DOMAIN entries' = DOMAIN entries
      /\ entries'[e] = row /\ \A f \in DOMAIN entries : f # e => entries'[f] = entries[f]
  BY <1>0, <1>1, <1>3, <1>4
<1>6. /\ writer' \in [Writers -> WriterState] /\ writer'[w] = to
      /\ \A v \in Writers : v # w => writer'[v] = writer[v]
  BY <1>0, <1>2, <1>4
<1>7. KbTypeOK'
  BY <1>4, <1>5, <1>6 DEF KbInv, KbTypeOK, WriterState
<1>8. WritersInv'
  BY <1>1, <1>2, <1>5, <1>6 DEF KbInv, WritersInv
<1>9. EmbeddingInv'
  <2> SUFFICES ASSUME semantic, ~embedFault, ~outdated, NEW f \in DOMAIN entries
               PROVE  \/ entries'[f].embedding = entries'[f].content
                      \/ \E v \in Writers : Refreshes(v, f)'
    BY <1>4, <1>5 DEF EmbeddingInv
  <2>1. CASE f = e
    <3>1. Refreshes(w, f)'
      BY <1>2, <1>3, <1>5, <1>6, <2>1 DEF Refreshes, Embedding
    <3> QED
      BY <3>1
  <2>2. CASE f # e
    <3>1. entries[f].embedding = entries[f].content \/ \E v \in Writers : Refreshes(v, f)
      BY DEF KbInv, EmbeddingInv
    <3>2. ASSUME NEW v \in Writers, Refreshes(v, f) PROVE Refreshes(v, f)'
      <4>1. v # w
        BY <1>1, <3>2 DEF Refreshes, Embedding
      <4> QED
        BY <1>5, <1>6, <2>2, <3>2, <4>1 DEF Refreshes, Embedding
    <3> QED
      BY <1>5, <2>2, <3>1, <3>2
  <2> QED
    BY <2>1, <2>2
<1> QED
  BY <1>7, <1>8, <1>9 DEF KbInv

\* Storing an embedding: it is of what the row says, or another is about to be, or it is outdated.
LEMMA StoreKeeps ==
    ASSUME KbInv, NEW w \in Writers, StoreEmbedding(w)
    PROVE  KbInv'
<1> DEFINE e == writer[w].entry
           row == [entries[e] EXCEPT !.embedding = writer[w].content]
<1>0. /\ entries \in Seq(Entry) /\ Len(entries) \in Nat /\ DOMAIN entries = 1 .. Len(entries)
      /\ writer \in [Writers -> WriterState]
  BY DEF KbInv, KbTypeOK, WriterState
<1>1. writer[w].pc = "embed" /\ e \in DOMAIN entries /\ writer[w].content \in Content
  BY DEF StoreEmbedding, KbInv, WritersInv
<1>2. row \in Entry /\ row.content = entries[e].content /\ row.embedding = writer[w].content
  <2>1. entries[e] \in Entry
    BY <1>0, <1>1
  <2> QED
    BY <1>1, <2>1 DEF Entry
<1>3. /\ entries' = [entries EXCEPT ![e] = row] /\ writer' = [writer EXCEPT ![w] = IdleWriter]
      /\ UNCHANGED <<semantic, edits, embedFault>>
  BY DEF StoreEmbedding
<1>a. outdated' = (outdated \/ StoresOutdated(w))
  BY DEF StoreEmbedding
<1>b. outdated' \in BOOLEAN /\ (~outdated' => ~outdated /\ ~StoresOutdated(w))
  BY <1>a, Zenon
<1>c. ~StoresOutdated(w) => \E v \in Writers : Refreshes(v, e)
  BY DEF StoresOutdated, Refreshes
<1> HIDE DEF e, row
<1>4. /\ entries' \in Seq(Entry) /\ Len(entries') = Len(entries) /\ DOMAIN entries' = DOMAIN entries
      /\ entries'[e] = row /\ \A f \in DOMAIN entries : f # e => entries'[f] = entries[f]
  BY <1>0, <1>1, <1>2, <1>3
<1>5. /\ writer' \in [Writers -> WriterState] /\ writer'[w].pc = "idle"
      /\ \A v \in Writers : v # w => writer'[v] = writer[v]
  BY <1>0, <1>3, KbIdle DEF IdleWriter
<1>6. KbTypeOK'
  BY <1>3, <1>4, <1>5, <1>b DEF KbInv, KbTypeOK, WriterState
<1>7. WritersInv'
  BY <1>4, <1>5 DEF KbInv, WritersInv
<1>8. EmbeddingInv'
  <2> SUFFICES ASSUME semantic, ~embedFault, ~outdated', NEW f \in DOMAIN entries
               PROVE  \/ entries'[f].embedding = entries'[f].content
                      \/ \E v \in Writers : Refreshes(v, f)'
    BY <1>3, <1>4 DEF EmbeddingInv
  <2>0. ~outdated /\ ~StoresOutdated(w)
    BY <1>b
  <2>1. ASSUME NEW v \in Writers, v # w, Refreshes(v, f) PROVE Refreshes(v, f)'
    <3>1. entries'[f].content = entries[f].content
      BY <1>2, <1>4
    <3> QED
      BY <1>5, <2>1, <3>1 DEF Refreshes, Embedding
  <2>2. CASE f = e
    <3>1. PICK v \in Writers : Refreshes(v, e)
      BY <1>c, <2>0
    <3>2. CASE v = w
      BY <1>2, <1>4, <2>2, <3>1, <3>2 DEF Refreshes
    <3>3. CASE v # w
      BY <2>1, <2>2, <3>1, <3>3
    <3> QED
      BY <3>2, <3>3
  <2>3. CASE f # e
    <3>1. entries[f].embedding = entries[f].content \/ \E v \in Writers : Refreshes(v, f)
      BY <2>0 DEF KbInv, EmbeddingInv
    <3>2. ~Refreshes(w, f)
      BY <2>3 DEF Refreshes, Embedding, e
    <3> QED
      BY <1>4, <2>1, <2>3, <3>1, <3>2
  <2> QED
    BY <2>2, <2>3
<1> QED
  BY <1>6, <1>7, <1>8 DEF KbInv

\* Every step keeps the invariant.
LEMMA KbKeeps ==
    ASSUME KbInv, [KbNext]_kbVars
    PROVE  KbInv'
<1>0. /\ entries \in Seq(Entry) /\ Len(entries) \in Nat /\ DOMAIN entries = 1 .. Len(entries)
      /\ MaxEntries \in Nat /\ MaxEdits \in Nat /\ writer \in [Writers -> WriterState]
      /\ edits \in 0 .. MaxEdits
  BY KnowledgeBaseAssumption DEF KbInv, KbTypeOK, WriterState
<1>1. ASSUME NEW w \in Writers, NEW content \in Content, NEW software \in BOOLEAN,
             CreateKnowledgeBase(w, content, software)
      PROVE  KbInv'
  BY <1>1, InsertKeeps DEF CreateKnowledgeBase
<1>2. ASSUME NEW w \in Writers, PromoteCorrection(w)
      PROVE  KbInv'
  <2>1. writer[w].content \in Content /\ writer[w].pc = "promote"
    BY <1>2 DEF PromoteCorrection, KbInv, WritersInv
  <2>2. PICK software \in BOOLEAN : InsertEntry(w, writer[w].content, software, TRUE)
    BY <1>2, Zenon DEF PromoteCorrection
  <2> QED
    BY <2>1, <2>2, InsertKeeps
<1>3. ASSUME NEW w \in Writers, NEW correction \in Texts, CreateFeedback(w, correction)
      PROVE  KbInv'
  <2> DEFINE to == [IdleWriter EXCEPT !.pc = "promote",
                       !.content = [pattern |-> correction, summary |-> correction]]
  <2>1. to \in WriterState /\ to.pc = "promote" /\ to.content \in Content
    BY KbIdle DEF WriterState, IdleWriter, Content
  <2>2. /\ writer[w].pc = "idle" /\ writer' = [writer EXCEPT ![w] = to]
        /\ UNCHANGED <<semantic, entries, edits, embedFault, outdated>>
    BY <1>3 DEF CreateFeedback
  <2> HIDE DEF to
  <2> QED
    BY <1>0, <2>1, <2>2, OneWriterMoves
<1>4. ASSUME NEW w \in Writers, PromotionFails(w)
      PROVE  KbInv'
  BY <1>0, <1>4, OneWriterMoves, KbIdle DEF PromotionFails, IdleWriter
<1>5. ASSUME NEW w \in Writers, NEW e \in DOMAIN entries, NEW content \in Content,
             UpdateReads(w, e, content)
      PROVE  KbInv'
  <2> DEFINE to == [pc |-> "update", entry |-> e, content |-> content, human |-> entries[e].human]
  <2>1. to \in WriterState /\ to.pc = "update" /\ to.content = content /\ to.entry = e
    <3>1. entries[e] \in Entry /\ e \in 0 .. MaxEntries
      BY <1>0 DEF KbInv, KbTypeOK
    <3> QED
      BY <3>1 DEF WriterState, Entry
  <2>2. /\ writer[w].pc = "idle" /\ writer' = [writer EXCEPT ![w] = to] /\ edits < MaxEdits
        /\ edits' = edits + 1 /\ UNCHANGED <<semantic, entries, embedFault, outdated>>
    BY <1>5 DEF UpdateReads
  <2> HIDE DEF to
  <2>3. edits' \in 0 .. MaxEdits
    BY <1>0, <2>2
  <2> QED
    BY <2>1, <2>2, <2>3, OneWriterMoves
<1>6. ASSUME NEW w \in Writers, UpdateWrites(w) PROVE KbInv'
  BY <1>6, UpdateKeeps
<1>7. ASSUME NEW w \in Writers, StoreEmbedding(w) PROVE KbInv'
  BY <1>7, StoreKeeps
<1>8. ASSUME NEW w \in Writers, EmbeddingFails(w)
      PROVE  KbInv'
  <2>1. /\ writer' = [writer EXCEPT ![w] = IdleWriter]
        /\ UNCHANGED <<semantic, entries, edits, outdated>> /\ writer[w].pc \in {"update", "embed"}
    BY <1>8 DEF EmbeddingFails
  <2>2. embedFault' = (embedFault \/ writer[w].pc = "embed")
    BY <1>8 DEF EmbeddingFails
  <2>3. CASE writer[w].pc = "update"
    <3>1. embedFault' = embedFault
      BY <2>2, <2>3 DEF KbInv, KbTypeOK
    <3> QED
      BY <1>0, <2>1, <2>3, <3>1, OneWriterMoves, KbIdle DEF IdleWriter
  <2>4. CASE writer[w].pc = "embed"
    <3>1. embedFault' = TRUE
      BY <2>2, <2>4
    <3>2. /\ writer' \in [Writers -> WriterState] /\ writer'[w].pc = "idle"
          /\ \A v \in Writers : v # w => writer'[v] = writer[v]
      BY <1>0, <2>1, KbIdle DEF IdleWriter
    <3> QED
      BY <2>1, <3>1, <3>2 DEF KbInv, KbTypeOK, WriterState, WritersInv, EmbeddingInv
  <2> QED
    BY <2>1, <2>3, <2>4
<1>9. ASSUME NEW e \in DOMAIN entries, IncrementReferences(e)
      PROVE  KbInv'
  <2> DEFINE row == [entries[e] EXCEPT !.references = @ + 1]
  <2>1. row \in Entry /\ row.content = entries[e].content /\ row.embedding = entries[e].embedding
    <3>1. entries[e] \in Entry
      BY <1>0
    <3> QED
      BY <3>1 DEF Entry
  <2>2. /\ entries' = [entries EXCEPT ![e] = row]
        /\ UNCHANGED <<semantic, writer, edits, embedFault, outdated>>
    BY <1>9 DEF IncrementReferences
  <2> HIDE DEF row
  <2>3. /\ entries' \in Seq(Entry) /\ Len(entries') = Len(entries) /\ DOMAIN entries' = DOMAIN entries
        /\ \A f \in DOMAIN entries : /\ entries'[f].content = entries[f].content
                                     /\ entries'[f].embedding = entries[f].embedding
    BY <1>0, <2>1, <2>2
  <2>4. KbTypeOK' /\ WritersInv'
    BY <2>2, <2>3 DEF KbInv, KbTypeOK, WritersInv
  <2>5. EmbeddingInv'
    BY <2>2, <2>3 DEF KbInv, EmbeddingInv, Refreshes, Embedding
  <2> QED
    BY <2>4, <2>5 DEF KbInv
<1>10. CASE UNCHANGED kbVars
  BY <1>10 DEF kbVars, KbInv, KbTypeOK, WritersInv, EmbeddingInv, Refreshes, Embedding
<1> QED
  BY <1>1, <1>2, <1>3, <1>4, <1>5, <1>6, <1>7, <1>8, <1>9, <1>10 DEF KbNext

\* The invariant holds of every behaviour.
LEMMA KbInductive == KbSpec => []KbInv
  BY KbInitInv, KbKeeps, PTL DEF KbSpec

(***************************************************************************)
(* A search finds an entry only by what it says, always by its error       *)
(* pattern, and by all it says when embeddings are configured, unless the  *)
(* entry is being embedded, an embedding call failed, or one stored an     *)
(* outdated embedding (KnowledgeBaseService and its repository), for any   *)
(* texts and any number of entries and writers.                            *)
(***************************************************************************)
THEOREM WrittenIsFound == KbSpec => []SearchFollowsText
<1>1. KbInv => SearchFollowsText
  <2> SUFFICES ASSUME KbInv, NEW e \in DOMAIN entries, ~embedFault, ~outdated,
                      \A w \in Writers : ~Embedding(w, e),
                      NEW query \in Texts, NEW bySoftware \in BOOLEAN
               PROVE  LET content == entries[e].content
                          asked == bySoftware => entries[e].software
                      IN  /\ \A answer \in KbSearch(query, bySoftware) :
                                /\ e \in answer => query \in Says(content) /\ asked
                                /\ query = content.pattern /\ asked => e \in answer
                          /\ semantic /\ query \in Says(content) /\ asked =>
                                e \in SearchByEmbedding(query, bySoftware)
    BY DEF SearchFollowsText
  <2>1. semantic => entries[e].embedding = entries[e].content
    BY DEF KbInv, EmbeddingInv, Refreshes
  <2>2. query = entries[e].content.pattern => query \in Says(entries[e].content)
    BY KnowledgeBaseAssumption DEF Says
  <2>3. e \in SearchBySubstring(query, bySoftware) <=>
           query = entries[e].content.pattern /\ (bySoftware => entries[e].software)
    BY DEF SearchBySubstring, Eligible
  <2>4. semantic => (e \in SearchByEmbedding(query, bySoftware) <=>
           query \in Says(entries[e].content) /\ (bySoftware => entries[e].software))
    BY <2>1 DEF SearchByEmbedding, Eligible
  <2>5. ASSUME NEW answer \in KbSearch(query, bySoftware)
        PROVE  \/ answer = SearchBySubstring(query, bySoftware)
               \/ semantic /\ answer = SearchByEmbedding(query, bySoftware)
    BY DEF KbSearch
  <2> QED
    BY <2>2, <2>3, <2>4, <2>5
<1> QED
  BY <1>1, KbInductive, PTL

----------------------------------------------------------------------------
(***************************************************************************)
(* The tables of the API, for any number of editors and requests.          *)
(***************************************************************************)
\* What edits of a table disregard, in the sense of Disregarded.
Lost(f) == IF f \in DOMAIN Disregarded THEN Disregarded[f] ELSE {}

\* An edit carries what it must to the columns of the table, empties only what may be empty, and
\* writes back what it assigns, except for the columns in lost.
Carries(t, lost) ==
    /\ ColumnsOf(t.body) \subseteq t.table.updated \union lost
    /\ ColumnsOf(t.body) \subseteq t.service.sets \union t.service.merges \union lost
    /\ t.body.scalars \subseteq t.service.sets \union lost
    /\ t.service.sets \subseteq t.body.required \union t.body.scalars \union lost

\* A table nobody edits loses nothing to edits.
LEMMA UneditedCarries ==
    ASSUME NEW routes, NEW columns, NEW table, NEW lost
    PROVE  Carries(AFamily(routes, NeverEdited, Unedited(columns), table), lost)
BY DEF Carries, AFamily, NeverEdited, Unedited, ColumnsOf

\* Every table's edits carry what they must.
LEMMA EditsCarry == \A f \in DOMAIN Families : Carries(Families[f], Lost(f))
<1>1. Carries(Families["software"], Lost("software"))
  <2>1. Families["software"] = AFamily(SoftwareRoutes, SoftwareBody, SoftwareService, SoftwareTable)
    BY DEF Families
  <2>2. Lost("software") = {"tags"}
    BY DEF Lost, Disregarded
  <2> QED
    BY <2>1, <2>2 DEF AFamily, Carries, ColumnsOf, SoftwareBody, SoftwareMerges, SoftwareOverwrites,
                      SoftwareService, SoftwareTable
<1>2. Carries(Families["sources"], Lost("sources"))
  <2>1. Families["sources"] = AFamily(SourceRoutes, SourceBody, SourceService, SourceTable)
    BY DEF Families
  <2>2. Lost("sources") = {}
    BY DEF Lost, Disregarded
  <2> QED
    BY <2>1, <2>2 DEF AFamily, Carries, ColumnsOf, SourceBody, SourceService, SourceTable
<1>3. Carries(Families["snapshot_configs"], Lost("snapshot_configs"))
  <2>1. Families["snapshot_configs"] =
           AFamily(SnapshotConfigRoutes, SnapshotConfigBody, SnapshotConfigService, SnapshotConfigTable)
    BY DEF Families
  <2>2. Lost("snapshot_configs") = {"software_id"}
    BY DEF Lost, Disregarded
  <2> QED
    BY <2>1, <2>2 DEF AFamily, Carries, ColumnsOf, SnapshotConfigBody, SnapshotConfigService,
                      SnapshotConfigTable
<1>4. Carries(Families["slos"], Lost("slos"))
  <2>1. Families["slos"] = AFamily(SloRoutes, SloBody, SloService, SloTable)
    BY DEF Families
  <2>2. Lost("slos") = {}
    BY DEF Lost, Disregarded
  <2> QED
    BY <2>1, <2>2 DEF AFamily, Carries, ColumnsOf, SloBody, SloService, SloTable
<1>5. Carries(Families["webhooks"], Lost("webhooks"))
  BY UneditedCarries DEF Families, WebhookService
<1>6. Carries(Families["change_events"], Lost("change_events"))
  BY UneditedCarries DEF Families, ChangeEventService
<1>7. Carries(Families["agents"], Lost("agents"))
  <2>1. Families["agents"] = AFamily(AgentRoutes, AgentBody, AgentService, AgentTable)
    BY DEF Families
  <2>2. Lost("agents") = {}
    BY DEF Lost, Disregarded
  <2> QED
    BY <2>1, <2>2 DEF AFamily, Carries, ColumnsOf, AgentBody, AgentService, AgentTable
<1>8. Carries(Families["skills"], Lost("skills"))
  <2>1. Families["skills"] = AFamily(SkillRoutes, SkillBody, SkillService, SkillTable)
    BY DEF Families
  <2>2. Lost("skills") = {}
    BY DEF Lost, Disregarded
  <2> QED
    BY <2>1, <2>2 DEF AFamily, Carries, ColumnsOf, SkillBody, SkillService, SkillTable
<1>9. Carries(Families["agent_skills"], Lost("agent_skills"))
  BY UneditedCarries DEF Families, AgentSkillService
<1>10. Carries(Families["a2a_agents"], Lost("a2a_agents"))
  <2>1. Families["a2a_agents"] =
           AFamily(A2AAgentRoutes, A2AAgentBody, A2AAgentService, A2AAgentTable)
    BY DEF Families
  <2>2. Lost("a2a_agents") = {"hosting_type", "llm_provider", "llm_api_key_ref", "auto_scale",
                             "min_replicas", "max_replicas"}
    BY DEF Lost, Disregarded
  <2> QED
    BY <2>1, <2>2 DEF AFamily, Carries, ColumnsOf, A2AAgentBody, A2AAgentService, A2AAgentTable
<1>11. Carries(Families["a2a_tasks"], Lost("a2a_tasks"))
  <2>1. Families["a2a_tasks"] = AFamily(A2ATaskRoutes, A2ATaskBody, A2ATaskService, A2ATaskTable)
    BY DEF Families
  <2>2. Lost("a2a_tasks") = {}
    BY DEF Lost, Disregarded
  <2> QED
    BY <2>1, <2>2 DEF AFamily, Carries, ColumnsOf, A2ATaskBody, A2ATaskService, A2ATaskTable
<1>12. Carries(Families["decisions"], Lost("decisions"))
  BY UneditedCarries DEF Families, DecisionService
<1>13. Carries(Families["providers"], Lost("providers"))
  <2>1. Families["providers"] =
           AFamily(ProviderRoutes, ProviderBody, ProviderService, ProviderTable)
    BY DEF Families
  <2>2. Lost("providers") = {}
    BY DEF Lost, Disregarded
  <2> QED
    BY <2>1, <2>2 DEF AFamily, Carries, ColumnsOf, ProviderBody, ProviderService, ProviderTable
<1>14. Carries(Families["resource_credentials"], Lost("resource_credentials"))
  <2>1. Families["resource_credentials"] =
           AFamily(ResourceCredentialRoutes, ResourceCredentialBody, ResourceCredentialService, ResourceCredentialTable)
    BY DEF Families
  <2>2. Lost("resource_credentials") = {"software_id"}
    BY DEF Lost, Disregarded
  <2> QED
    BY <2>1, <2>2 DEF AFamily, Carries, ColumnsOf, ResourceCredentialBody,
                      ResourceCredentialService, ResourceCredentialTable
<1>15. Carries(Families["correlation_rules"], Lost("correlation_rules"))
  <2>1. Families["correlation_rules"] =
           AFamily(CorrelationRuleRoutes, CorrelationRuleBody, CorrelationRuleService, CorrelationRuleTable)
    BY DEF Families
  <2>2. Lost("correlation_rules") = {}
    BY DEF Lost, Disregarded
  <2> QED
    BY <2>1, <2>2 DEF AFamily, Carries, ColumnsOf, CorrelationRuleBody, CorrelationRuleService,
                      CorrelationRuleTable
<1>16. Carries(Families["alert_groups"], Lost("alert_groups"))
  BY UneditedCarries DEF Families, AlertGroupService
<1>17. Carries(Families["channels"], Lost("channels"))
  <2>1. Families["channels"] = AFamily(ChannelRoutes, ChannelBody, ChannelService, ChannelTable)
    BY DEF Families
  <2>2. Lost("channels") = {}
    BY DEF Lost, Disregarded
  <2> QED
    BY <2>1, <2>2 DEF AFamily, Carries, ColumnsOf, ChannelBody, ChannelService, ChannelTable
<1>18. Carries(Families["escalations"], Lost("escalations"))
  <2>1. Families["escalations"] =
           AFamily(EscalationRoutes, EscalationBody, EscalationService, EscalationTable)
    BY DEF Families
  <2>2. Lost("escalations") = {"software_id", "repeat_after_seconds"}
    BY DEF Lost, Disregarded
  <2> QED
    BY <2>1, <2>2 DEF AFamily, Carries, ColumnsOf, EscalationBody, EscalationService,
                      EscalationTable
<1>19. Carries(Families["notification_log"], Lost("notification_log"))
  BY UneditedCarries DEF Families, NotificationLogService
<1>20. Carries(Families["runbooks"], Lost("runbooks"))
  <2>1. Families["runbooks"] = AFamily(RunbookRoutes, RunbookBody, RunbookService, RunbookTable)
    BY DEF Families
  <2>2. Lost("runbooks") = {"software_id"}
    BY DEF Lost, Disregarded
  <2> QED
    BY <2>1, <2>2 DEF AFamily, Carries, ColumnsOf, RunbookBody, RunbookService, RunbookTable
<1>21. Carries(Families["runbook_steps"], Lost("runbook_steps"))
  <2>1. Families["runbook_steps"] =
           AFamily(RunbookStepRoutes, RunbookStepBody, RunbookStepService, RunbookStepTable)
    BY DEF Families
  <2>2. Lost("runbook_steps") = {"config", "skill_id", "timeout_seconds"}
    BY DEF Lost, Disregarded
  <2> QED
    BY <2>1, <2>2 DEF AFamily, Carries, ColumnsOf, RunbookStepBody, RunbookStepService,
                      RunbookStepTable
<1>22. Carries(Families["incidents"], Lost("incidents"))
  <2>1. Families["incidents"] =
           AFamily(IncidentRoutes, IncidentBody, IncidentService, IncidentTable)
    BY DEF Families
  <2>2. Lost("incidents") = {}
    BY DEF Lost, Disregarded
  <2> QED
    BY <2>1, <2>2 DEF AFamily, Carries, ColumnsOf, IncidentBody, IncidentService, IncidentTable
<1>23. Carries(Families["incident_events"], Lost("incident_events"))
  BY UneditedCarries DEF Families, IncidentEventService
<1>24. Carries(Families["evidence"], Lost("evidence"))
  BY UneditedCarries DEF Families, IncidentEvidenceService
<1>25. Carries(Families["feedback"], Lost("feedback"))
  BY UneditedCarries DEF Families, FeedbackService
<1>26. Carries(Families["similar_incidents"], Lost("similar_incidents"))
  BY UneditedCarries DEF Families, SimilarIncidentService
<1>27. Carries(Families["agent_runs"], Lost("agent_runs"))
  <2>1. Families["agent_runs"] =
           AFamily(AgentRunRoutes, AgentRunBody, AgentRunService, AgentRunTable)
    BY DEF Families
  <2>2. Lost("agent_runs") = {}
    BY DEF Lost, Disregarded
  <2> QED
    BY <2>1, <2>2 DEF AFamily, Carries, ColumnsOf, AgentRunBody, AgentRunService, AgentRunTable
<1>28. Carries(Families["rcis"], Lost("rcis"))
  <2>1. Families["rcis"] = AFamily(RciRoutes, RciBody, RciService, RciTable)
    BY DEF Families
  <2>2. Lost("rcis") = {"agent_run_id", "affected_users_estimate", "detection_time",
                       "acknowledgment_time", "time_to_detect_seconds"}
    BY DEF Lost, Disregarded
  <2> QED
    BY <2>1, <2>2 DEF AFamily, Carries, ColumnsOf, RciBody, RciService, RciTable
<1>29. Carries(Families["rcas"], Lost("rcas"))
  <2>1. Families["rcas"] = AFamily(RcaRoutes, RcaBody, RcaService, RcaTable)
    BY DEF Families
  <2>2. Lost("rcas") = {"rci_id", "agent_run_id"}
    BY DEF Lost, Disregarded
  <2> QED
    BY <2>1, <2>2 DEF AFamily, Carries, ColumnsOf, RcaBody, RcaService, RcaTable
<1>30. Carries(Families["postmortems"], Lost("postmortems"))
  <2>1. Families["postmortems"] =
           AFamily(PostmortemRoutes, PostmortemBody, PostmortemService, PostmortemTable)
    BY DEF Families
  <2>2. Lost("postmortems") = {"rca_id", "agent_run_id"}
    BY DEF Lost, Disregarded
  <2> QED
    BY <2>1, <2>2 DEF AFamily, Carries, ColumnsOf, PostmortemBody, PostmortemService,
                      PostmortemTable
<1>31. Carries(Families["users"], Lost("users"))
  <2>1. Families["users"] = AFamily(UserRoutes, UserBody, UserService, UserTable)
    BY DEF Families
  <2>2. Lost("users") = {}
    BY DEF Lost, Disregarded
  <2> QED
    BY <2>1, <2>2 DEF AFamily, Carries, ColumnsOf, UserBody, UserService, UserTable
<1>32. Carries(Families["roles"], Lost("roles"))
  <2>1. Families["roles"] = AFamily(RoleRoutes, RoleBody, RoleService, RoleTable)
    BY DEF Families
  <2>2. Lost("roles") = {"permission_ids"}
    BY DEF Lost, Disregarded
  <2> QED
    BY <2>1, <2>2 DEF AFamily, Carries, ColumnsOf, RoleBody, RoleService, RoleTable
<1>33. Carries(Families["sign_on"], Lost("sign_on"))
  <2>1. Families["sign_on"] = AFamily(SignOnRoutes, SignOnBody, SignOnService, SignOnTable)
    BY DEF Families
  <2>2. Lost("sign_on") = {"default_role_id"}
    BY DEF Lost, Disregarded
  <2> QED
    BY <2>1, <2>2 DEF AFamily, Carries, ColumnsOf, SignOnBody, SignOnService, SignOnTable
<1>34. Carries(Families["api_keys"], Lost("api_keys"))
  BY UneditedCarries DEF Families, KeyService
<1>f. DOMAIN Families =
         {"software", "sources", "snapshot_configs", "slos", "webhooks", "change_events",
          "agents", "skills", "agent_skills", "a2a_agents", "a2a_tasks", "decisions",
          "providers", "resource_credentials", "correlation_rules",
          "alert_groups", "channels", "escalations", "notification_log", "runbooks",
          "runbook_steps", "incidents", "incident_events", "evidence", "feedback",
          "similar_incidents", "agent_runs", "rcis", "rcas", "postmortems", "users",
          "roles", "sign_on", "api_keys"}
  BY DEF Families
<1> QED
  BY <1>f, <1>1, <1>2, <1>3, <1>4, <1>5, <1>6, <1>7, <1>8, <1>9, <1>10, <1>11, <1>12, <1>13,
     <1>14, <1>15, <1>16, <1>17, <1>18, <1>19, <1>20, <1>21, <1>22, <1>23, <1>24, <1>25,
     <1>26, <1>27, <1>28, <1>29, <1>30, <1>31, <1>32, <1>33, <1>34

\* TableRows and requests in terms of the columns of the table at hand.
TableRows == [RecordColumns -> Values]
EditorState ==
    [pc : {"idle", "write"}, n : Values, body : SUBSET ColumnsOf(Of.body), read : TableRows \union {Absent},
     version : Values]

\* Except for what Lost and crossed name, each column holds what was last asked for.
FollowInv ==
    record # Absent =>
        /\ record \in TableRows /\ intended \in TableRows
        /\ \A c \in RecordColumns : record[c] = intended[c] \/ c \in crossed \/ c \in Lost(family)

\* An edit under way has read a row, and its body carries what it must.
EditorsInv ==
    \A e \in Editors :
       editor[e].pc = "write" => Of.body.required \subseteq editor[e].body /\ editor[e].read \in TableRows

CatalogueInv ==
    /\ CatalogueTypeOK
    /\ editor \in [Editors -> EditorState]
    /\ version <= requested
    /\ EditorsInv
    /\ FollowInv

LEMMA CatalogueInitInv == CatalogueInit => CatalogueInv
<1> SUFFICES ASSUME CatalogueInit PROVE CatalogueInv
  OBVIOUS
<1>0. 0 \in Values
  BY MaxRequestsAssumption DEF Values
<1>1. IdleEditor \in EditorState /\ IdleEditor.pc = "idle"
  BY <1>0 DEF IdleEditor, EditorState
<1>2. /\ record = Absent /\ intended = Absent /\ version = 0 /\ requested = 0 /\ crossed = {}
      /\ family \in DOMAIN Families
  BY DEF CatalogueInit
<1>3. editor \in [Editors -> EditorState] /\ \A e \in Editors : editor[e] = IdleEditor
  BY <1>1 DEF CatalogueInit
<1>4. CatalogueTypeOK
  BY <1>0, <1>1, <1>2, <1>3 DEF CatalogueTypeOK, EditorState, TableRows
<1>5. EditorsInv /\ FollowInv
  BY <1>1, <1>2, <1>3 DEF EditorsInv, FollowInv
<1> QED
  BY <1>2, <1>3, <1>4, <1>5 DEF CatalogueInv

\* The type invariant follows from that of the editors.
LEMMA CatalogueTypes ==
    ASSUME family \in DOMAIN Families, record \in TableRows \union {Absent}, version \in Values,
           editor \in [Editors -> EditorState], requested \in Values, intended \in TableRows \union {Absent},
           crossed \subseteq RecordColumns
    PROVE  CatalogueTypeOK
BY DEF CatalogueTypeOK, EditorState, TableRows

\* A step that is no edit leaves the editors as they are.
LEMMA OtherKeeps ==
    ASSUME CatalogueInv, UNCHANGED <<family, editor>>, record' \in TableRows \union {Absent},
           intended' \in TableRows \union {Absent}, crossed' \subseteq RecordColumns, requested' \in Values,
           version' \in Values, version' <= requested',
           record' # Absent =>
               /\ record' \in TableRows /\ intended' \in TableRows
               /\ \A c \in RecordColumns : record'[c] = intended'[c] \/ c \in crossed' \/ c \in Lost(family)
    PROVE  CatalogueInv'
<1>1. RecordColumns' = RecordColumns /\ TableRows' = TableRows /\ EditorState' = EditorState /\ Of' = Of
  BY DEF RecordColumns, TableRows, EditorState, Of
<1>2. family' = family /\ editor' = editor /\ family \in DOMAIN Families /\ editor \in [Editors -> EditorState]
  BY DEF CatalogueInv, CatalogueTypeOK
<1>3. CatalogueTypeOK'
  BY <1>1, <1>2, CatalogueTypes DEF CatalogueTypeOK, EditorState, TableRows
<1>4. EditorsInv'
  BY <1>1, <1>2 DEF CatalogueInv, EditorsInv
<1>5. FollowInv'
  BY <1>1, <1>2 DEF FollowInv
<1> QED
  BY <1>1, <1>2, <1>3, <1>4, <1>5 DEF CatalogueInv

\* What an edit writes back follows its body, where it does not follow what was read.
LEMMA EditFollows ==
    ASSUME NEW t, NEW lost, Carries(t, lost), NEW body, t.body.required \subseteq body,
           body \subseteq ColumnsOf(t.body), NEW c, c \notin lost
    PROVE  LET assigned == t.service.sets \union (t.service.merges \intersect body)
               replaced == body \union t.body.scalars
           IN  /\ c \in replaced => c \in t.table.updated /\ c \in assigned
               /\ c \in assigned => c \in replaced
BY DEF Carries, ColumnsOf

LEMMA WriteKeeps ==
    ASSUME CatalogueInv, NEW e \in Editors, UpdateWritesRecord(e)
    PROVE  CatalogueInv'
<1> DEFINE edit == editor[e]
           assigned == Assigned(edit.body)
           FromBody(c) == IF c \in edit.body THEN edit.n ELSE 0
           InMemory(c) == IF c \in assigned THEN FromBody(c) ELSE edit.read[c]
           replaced == edit.body \union Of.body.scalars
           setBack == {c \in Of.table.updated \ assigned : edit.read[c] # record[c]}
<1>0. /\ family \in DOMAIN Families /\ record \in TableRows \union {Absent} /\ version \in Values
      /\ editor \in [Editors -> EditorState] /\ requested \in Values /\ intended \in TableRows \union {Absent}
      /\ crossed \subseteq RecordColumns /\ version <= requested /\ EditorsInv /\ FollowInv
  BY DEF CatalogueInv, CatalogueTypeOK, TableRows
<1>1. edit.pc = "write" /\ editor' = [editor EXCEPT ![e] = IdleEditor] /\ UNCHANGED <<family, version, requested>>
  BY DEF UpdateWritesRecord
<1>2. RecordColumns' = RecordColumns /\ TableRows' = TableRows /\ EditorState' = EditorState /\ Of' = Of /\ family' = family
  BY <1>1 DEF RecordColumns, TableRows, EditorState, Of
<1>3. IdleEditor \in EditorState /\ IdleEditor.pc = "idle"
  BY MaxRequestsAssumption DEF IdleEditor, EditorState, Values
<1>4. editor' \in [Editors -> EditorState] /\ \A d \in Editors : d # e => editor'[d] = editor[d]
  BY <1>0, <1>1, <1>3
<1>5. EditorsInv'
  BY <1>0, <1>1, <1>2, <1>3, <1>4 DEF EditorsInv
<1>6. edit \in EditorState /\ Of.body.required \subseteq edit.body /\ edit.read \in TableRows
  BY <1>0, <1>1 DEF EditorsInv
<1>7. CASE record # Absent /\ edit.version = version
  <2>1. /\ record' = [c \in RecordColumns |-> IF c \in Of.table.updated THEN InMemory(c) ELSE record[c]]
        /\ intended' = [c \in RecordColumns |-> IF c \in replaced THEN FromBody(c) ELSE intended[c]]
        /\ crossed' = (crossed \ replaced) \union setBack
    BY <1>7 DEF UpdateWritesRecord
  <2>2. record \in TableRows /\ intended \in TableRows
        /\ \A c \in RecordColumns : record[c] = intended[c] \/ c \in crossed \/ c \in Lost(family)
    BY <1>0, <1>7 DEF FollowInv
  <2>3. \A c \in RecordColumns : FromBody(c) \in Values /\ InMemory(c) \in Values
    BY <1>6, MaxRequestsAssumption DEF EditorState, TableRows, Values
  <2>4. record' \in TableRows /\ intended' \in TableRows
    BY <2>1, <2>2, <2>3 DEF TableRows
  <2>5. crossed' \subseteq RecordColumns
    BY <1>0, <2>1 DEF RecordColumns
  <2>6. ASSUME NEW c \in RecordColumns, c \notin Lost(family)
        PROVE  record'[c] = intended'[c] \/ c \in crossed'
    <3>1. Carries(Of, Lost(family))
      BY <1>0, EditsCarry DEF Of
    <3>2. edit.body \subseteq ColumnsOf(Of.body)
      BY <1>6 DEF EditorState
    <3>3. /\ c \in replaced => c \in Of.table.updated /\ c \in assigned
          /\ c \in assigned => c \in replaced
      BY <1>6, <2>6, <3>1, <3>2, EditFollows DEF Assigned
    <3>4. record'[c] = (IF c \in Of.table.updated THEN InMemory(c) ELSE record[c])
          /\ intended'[c] = (IF c \in replaced THEN FromBody(c) ELSE intended[c])
      BY <2>1
    <3>5. CASE c \in replaced
      BY <3>3, <3>4, <3>5
    <3>6. CASE c \notin replaced
      <4>1. c \notin assigned /\ (record[c] = intended[c] \/ c \in crossed)
        BY <2>2, <2>6, <3>3, <3>6
      <4>2. CASE c \in Of.table.updated /\ edit.read[c] # record[c]
        BY <2>1, <4>1, <4>2
      <4>3. CASE c \in Of.table.updated /\ edit.read[c] = record[c]
        BY <2>1, <3>4, <3>6, <4>1, <4>3
      <4>4. CASE c \notin Of.table.updated
        BY <2>1, <3>4, <3>6, <4>1, <4>4
      <4> QED
        BY <4>2, <4>3, <4>4
    <3> QED
      BY <3>5, <3>6
  <2>7. FollowInv'
    BY <1>2, <2>4, <2>6 DEF FollowInv
  <2>8. CatalogueTypeOK'
    BY <1>0, <1>1, <1>2, <1>4, <2>4, <2>5, CatalogueTypes DEF CatalogueTypeOK, EditorState, TableRows
  <2> QED
    BY <1>0, <1>1, <1>2, <1>4, <1>5, <2>7, <2>8 DEF CatalogueInv
<1>8. CASE ~(record # Absent /\ edit.version = version)
  <2>1. UNCHANGED <<record, intended, crossed>>
    BY <1>8 DEF UpdateWritesRecord
  <2>2. FollowInv'
    BY <1>0, <1>2, <2>1 DEF FollowInv
  <2>3. CatalogueTypeOK'
    BY <1>0, <1>1, <1>2, <1>4, <2>1 DEF CatalogueTypeOK, EditorState, TableRows
  <2> QED
    BY <1>0, <1>1, <1>2, <1>4, <1>5, <2>2, <2>3 DEF CatalogueInv
<1> QED
  BY <1>7, <1>8

LEMMA CatalogueKeeps ==
    ASSUME CatalogueInv, [CatalogueNext]_catalogueVars
    PROVE  CatalogueInv'
<1>0. /\ family \in DOMAIN Families /\ record \in TableRows \union {Absent} /\ version \in Values
      /\ editor \in [Editors -> EditorState] /\ requested \in Values /\ intended \in TableRows \union {Absent}
      /\ crossed \subseteq RecordColumns /\ version <= requested /\ EditorsInv /\ FollowInv
  BY DEF CatalogueInv, CatalogueTypeOK, TableRows
<1>v. 0 \in Values /\ Values \subseteq Nat /\ \A n \in Values : n < MaxRequests => n + 1 \in Values
  BY MaxRequestsAssumption DEF Values
<1>r. ASSUME NEW route, Request(route) PROVE requested' = requested + 1 /\ requested' \in Values
  BY <1>0, <1>r, <1>v DEF Request
<1>1. CASE CreateRecord
  <2>1. PICK body \in PostBodies :
           /\ record' = [c \in RecordColumns |-> IF c \in body THEN requested' ELSE 0]
           /\ intended' = [c \in RecordColumns |-> IF c \in body THEN requested' ELSE 0]
    BY <1>1 DEF CreateRecord
  <2>2. requested' = requested + 1 /\ requested' \in Values
    BY <1>1, <1>r DEF CreateRecord
  <2>3. version' = version + 1 /\ crossed' = {} /\ UNCHANGED <<family, editor>>
    BY <1>1 DEF CreateRecord
  <2>4. record' \in TableRows /\ intended' = record'
    BY <1>v, <2>1, <2>2 DEF TableRows
  <2>5. version' \in Values /\ version' <= requested'
    BY <1>0, <2>2, <2>3, MaxRequestsAssumption DEF Values
  <2> QED
    BY <2>2, <2>3, <2>4, <2>5, OtherKeeps
<1>2. CASE TouchRecord
  <2>1. PICK c \in Of.table.touched :
           /\ record' = [record EXCEPT ![c] = requested'] /\ intended' = [intended EXCEPT ![c] = requested']
           /\ crossed' = crossed \ {c}
    BY <1>2 DEF TouchRecord
  <2>2. requested' = requested + 1 /\ requested' \in Values /\ record # Absent /\ UNCHANGED <<family, version, editor>>
    BY <1>2, <1>r DEF TouchRecord
  <2>3. record \in TableRows /\ intended \in TableRows
        /\ \A d \in RecordColumns : record[d] = intended[d] \/ d \in crossed \/ d \in Lost(family)
    BY <1>0, <2>2 DEF FollowInv
  <2>4. c \in RecordColumns
    BY DEF RecordColumns
  <2>5. record' \in TableRows /\ intended' \in TableRows
        /\ \A d \in RecordColumns : record'[d] = intended'[d] \/ d \in crossed' \/ d \in Lost(family)
    BY <2>1, <2>2, <2>3, <2>4 DEF TableRows
  <2>6. version' \in Values /\ version' <= requested' /\ crossed' \subseteq RecordColumns
    BY <1>0, <1>v, <2>1, <2>2
  <2> QED
    BY <2>2, <2>5, <2>6, OtherKeeps
<1>3. CASE DeleteRecord
  <2>1. record' = Absent /\ intended' = Absent /\ crossed' = {} /\ UNCHANGED <<family, version, editor>>
    BY <1>3 DEF DeleteRecord
  <2>2. requested' = requested + 1 /\ requested' \in Values
    BY <1>3, <1>r DEF DeleteRecord
  <2>3. version' \in Values /\ version' <= requested'
    BY <1>0, <1>v, <2>1, <2>2
  <2> QED
    BY <2>1, <2>2, <2>3, OtherKeeps
<1>4. ASSUME NEW e \in Editors, UpdateReadsRecord(e) PROVE CatalogueInv'
  <2>1. PICK body \in EditBodies :
           editor' = [editor EXCEPT ![e] = [pc |-> "write", n |-> requested', body |-> body,
                                            read |-> record, version |-> version]]
    BY <1>4 DEF UpdateReadsRecord
  <2>2. requested' = requested + 1 /\ requested' \in Values /\ record # Absent
        /\ UNCHANGED <<family, record, version, intended, crossed>>
    BY <1>4, <1>r DEF UpdateReadsRecord
  <2>3. RecordColumns' = RecordColumns /\ TableRows' = TableRows /\ EditorState' = EditorState /\ Of' = Of /\ family' = family
    BY <2>2 DEF RecordColumns, TableRows, EditorState, Of
  <2>4. record \in TableRows
    BY <1>0, <2>2 DEF FollowInv
  <2>5. body \subseteq ColumnsOf(Of.body) /\ Of.body.required \subseteq body
    BY DEF EditBodies, ColumnsOf
  <2> DEFINE edit == [pc |-> "write", n |-> requested', body |-> body, read |-> record, version |-> version]
  <2>6. edit \in EditorState /\ edit.body = body /\ edit.read = record
    BY <1>0, <2>2, <2>4, <2>5 DEF EditorState
  <2>7. editor' = [editor EXCEPT ![e] = edit]
    BY <2>1
  <2> HIDE DEF edit
  <2>8. editor' \in [Editors -> EditorState] /\ editor'[e] = edit /\ \A d \in Editors : d # e => editor'[d] = editor[d]
    BY <1>0, <2>6, <2>7
  <2>9. EditorsInv'
    BY <1>0, <2>3, <2>4, <2>5, <2>6, <2>8 DEF EditorsInv
  <2>10. FollowInv'
    BY <1>0, <2>2, <2>3 DEF FollowInv
  <2>11. CatalogueTypeOK'
    BY <1>0, <2>2, <2>3, <2>8 DEF CatalogueTypeOK, EditorState, TableRows
  <2>12. version' <= requested'
    BY <1>0, <1>v, <2>2
  <2> QED
    BY <2>3, <2>8, <2>9, <2>10, <2>11, <2>12 DEF CatalogueInv
<1>5. CASE UNCHANGED catalogueVars
  <2>1. UNCHANGED <<family, record, version, editor, requested, intended, crossed>>
    BY <1>5 DEF catalogueVars
  <2> QED
    BY <1>0, <2>1, OtherKeeps DEF FollowInv
<1> QED
  BY <1>1, <1>2, <1>3, <1>4, <1>5, WriteKeeps DEF CatalogueNext

\* The invariant holds of every behaviour.
LEMMA CatalogueInductive == CatalogueSpec => []CatalogueInv
<1>1. CatalogueInit => CatalogueInv
  BY CatalogueInitInv
<1>2. CatalogueInv /\ [CatalogueNext]_catalogueVars => CatalogueInv'
  BY CatalogueKeeps
<1> QED
  BY <1>1, <1>2, PTL DEF CatalogueSpec

(***************************************************************************)
(* Whatever requests were made of a table's row, and in whatever order     *)
(* reads and writes came, each column holds what the last request about it *)
(* asked for, except for columns set back by an overlapping edit and those *)
(* of Disregarded: for each of the tables, and any number of editors and   *)
(* requests.                                                               *)
(***************************************************************************)
THEOREM RequestsReachTheirRows == CatalogueSpec => []ColumnsFollowBodies
<1>1. CatalogueInv => ColumnsFollowBodies
  BY DEF CatalogueInv, FollowInv, ColumnsFollowBodies, Lost
<1> QED
  BY <1>1, CatalogueInductive, PTL

----------------------------------------------------------------------------
(***************************************************************************)
(* Objectives, for any number of outages, and any window and time.         *)
(***************************************************************************)
\* The time of an outage as it is recorded.
Covers(i, m) == created[i] <= m /\ m < resolvedAt[i]

\* Times lie in the past, and a time of resolution is that of an outage.
TimesInv ==
    /\ \A i \in Outages :
          /\ created[i] # Never => created[i] <= minute
          /\ resolvedAt[i] # Never => resolvedAt[i] <= minute
          /\ created[i] = Never => resolvedAt[i] = Never
          /\ i \in ongoing => created[i] # Never
    /\ \A m \in downMinutes : m < minute

\* Without reopenings what is recorded is what happened.
RecordedInv ==
    /\ \A i \in Outages : i \in ongoing <=> created[i] # Never /\ resolvedAt[i] = Never
    /\ \A m \in 0 .. MaxMinute : m < minute => (m \in downMinutes <=> \E i \in Outages : Covers(i, m))

\* Without overlaps a minute is one outage's.
ApartInv ==
    \A i, j \in Outages, m \in 0 .. MaxMinute : m < minute /\ Covers(i, m) /\ Covers(j, m) => i = j

SloInv ==
    /\ SloTypeOK
    /\ TimesInv
    /\ reopenedOnce = {} => RecordedInv
    /\ reopenedOnce = {} /\ twice = {} => ApartInv

LEMMA SloConstants ==
    /\ MaxMinute \in Nat \ {0} /\ Window \in Nat \ {0} /\ Never \in Nat /\ Never = MaxMinute + 1
    /\ Targets \subseteq 1 .. 100 /\ IsFiniteSet(Outages)
BY SloAssumption DEF Never

LEMMA SloTypes ==
    ASSUME SloTypeOK
    PROVE  /\ minute \in Nat /\ minute <= MaxMinute
           /\ \A i \in Outages : created[i] \in Nat /\ resolvedAt[i] \in Nat /\ created[i] <= Never /\ resolvedAt[i] <= Never
           /\ created \in [Outages -> 0 .. Never] /\ resolvedAt \in [Outages -> 0 .. Never]
           /\ ongoing \subseteq Outages
BY SloConstants DEF SloTypeOK

LEMMA SloInitInv == SloInit => SloInv
<1> SUFFICES ASSUME SloInit PROVE SloInv
  OBVIOUS
<1>1. SloTypeOK
  BY SloConstants DEF SloInit, SloTypeOK
<1>2. minute = 0 /\ (\A i \in Outages : created[i] = Never /\ resolvedAt[i] = Never) /\ ongoing = {} /\ downMinutes = {}
  BY DEF SloInit
<1>3. TimesInv
  BY <1>2 DEF TimesInv
<1>4. RecordedInv
  BY <1>2, SloConstants DEF RecordedInv
<1>5. ApartInv
  BY <1>2, SloConstants DEF ApartInv
<1> QED
  BY <1>1, <1>3, <1>4, <1>5 DEF SloInv

\* Two outages that go on at once are two.
LEMMA TwoAtOnce ==
    ASSUME NEW S \in SUBSET Outages, NEW i \in S, NEW j \in S, i # j
    PROVE  Cardinality(S) > 1
<1>1. IsFiniteSet(S)
  BY SloConstants, FS_Subset
<1>2. IsFiniteSet({i}) /\ Cardinality({i}) = 1
  BY FS_Singleton
<1>3. {i} \in SUBSET S /\ {i} # S
  OBVIOUS
<1>4. Cardinality({i}) <= Cardinality(S) /\ Cardinality(S) # Cardinality({i}) /\ Cardinality(S) \in Nat
  BY <1>1, <1>3, FS_Subset, FS_CardinalityType
<1> QED
  BY <1>2, <1>4

LEMMA MinuteKeeps ==
    ASSUME SloInv, MinutePasses
    PROVE  SloInv'
<1>0. /\ minute \in Nat /\ minute <= MaxMinute
      /\ \A i \in Outages : created[i] \in Nat /\ resolvedAt[i] \in Nat /\ created[i] <= Never /\ resolvedAt[i] <= Never
      /\ created \in [Outages -> 0 .. Never] /\ resolvedAt \in [Outages -> 0 .. Never] /\ ongoing \subseteq Outages
      /\ MaxMinute \in Nat /\ Never = MaxMinute + 1
  BY SloTypes, SloConstants DEF SloInv
<1>1. minute < MaxMinute /\ minute' = minute + 1 /\ UNCHANGED <<target, created, resolvedAt, ongoing, reopenedOnce>>
  BY DEF MinutePasses
<1>2. /\ downMinutes' = IF ongoing # {} THEN downMinutes \union {minute} ELSE downMinutes
      /\ twice' = IF Cardinality(ongoing) > 1 THEN twice \union {minute} ELSE twice
  BY DEF MinutePasses
<1>3. Cardinality(ongoing) > 1 => ongoing # {}
  BY FS_EmptySet
<1>4. SloTypeOK'
  <2>1. minute' \in 0 .. MaxMinute /\ minute \in 0 .. MaxMinute
    BY <1>0, <1>1
  <2> QED
    BY <1>1, <1>2, <1>3, <2>1 DEF SloInv, SloTypeOK, Never
<1>5. TimesInv'
  <2>1. TimesInv
    BY DEF SloInv
  <2>2. \A m \in downMinutes' : m < minute'
    <3>1. downMinutes \subseteq 0 .. MaxMinute
      BY DEF SloInv, SloTypeOK
    <3> QED
      BY <1>0, <1>1, <1>2, <2>1, <3>1 DEF TimesInv
  <2> QED
    BY <1>0, <1>1, <2>1, <2>2 DEF TimesInv, Never
<1>6. ASSUME reopenedOnce = {} PROVE RecordedInv'
  <2>1. RecordedInv /\ TimesInv
    BY <1>6 DEF SloInv
  <2>2. \A i \in Outages : Covers(i, minute) <=> i \in ongoing
    BY <1>0, <2>1 DEF Covers, RecordedInv, TimesInv
  <2>3. \A i \in Outages : i \in ongoing' <=> created'[i] # Never /\ resolvedAt'[i] = Never
    BY <1>1, <2>1 DEF RecordedInv
  <2>4. ASSUME NEW m \in 0 .. MaxMinute, m < minute'
        PROVE  m \in downMinutes' <=> \E i \in Outages : created[i] <= m /\ m < resolvedAt[i]
    <3>1. CASE m = minute
      <4>1. m \notin downMinutes
        BY <1>0, <2>1, <3>1 DEF TimesInv
      <4>2. m \in downMinutes' <=> ongoing # {}
        BY <1>2, <3>1, <4>1
      <4> QED
        BY <1>0, <2>2, <3>1, <4>2 DEF Covers
    <3>2. CASE m # minute
      <4>1. m < minute
        BY <1>0, <1>1, <2>4, <3>2
      <4>2. m \in downMinutes' <=> m \in downMinutes
        BY <1>2, <3>2
      <4> QED
        BY <2>1, <4>1, <4>2 DEF RecordedInv, Covers
    <3> QED
      BY <3>1, <3>2
  <2> QED
    BY <1>1, <2>3, <2>4 DEF RecordedInv, Covers, Never
<1>7. ASSUME reopenedOnce = {}, twice' = {} PROVE ApartInv'
  <2>1. twice = {} /\ ~(Cardinality(ongoing) > 1)
    BY <1>2, <1>7
  <2>2. RecordedInv /\ TimesInv /\ ApartInv
    BY <1>7, <2>1 DEF SloInv
  <2>3. \A i \in Outages : Covers(i, minute) <=> i \in ongoing
    BY <1>0, <2>2 DEF Covers, RecordedInv, TimesInv
  <2>4. \A i, j \in ongoing : i = j
    BY <1>0, <2>1, TwoAtOnce
  <2>5. ASSUME NEW i \in Outages, NEW j \in Outages, NEW m \in 0 .. MaxMinute, m < minute', Covers(i, m), Covers(j, m)
        PROVE  i = j
    <3>1. CASE m = minute
      BY <2>3, <2>4, <2>5, <3>1
    <3>2. CASE m # minute
      <4>1. m < minute
        BY <1>0, <1>1, <2>5, <3>2
      <4> QED
        BY <2>2, <2>5, <4>1 DEF ApartInv
    <3> QED
      BY <3>1, <3>2
  <2> QED
    BY <1>1, <2>5 DEF ApartInv, Covers
<1> QED
  BY <1>1, <1>4, <1>5, <1>6, <1>7 DEF SloInv

LEMMA OutagesKeep ==
    ASSUME SloInv, NEW i \in Outages, OutageBegins(i) \/ OutageIsResolved(i) \/ OutageIsReopened(i)
    PROVE  SloInv'
<1>0. /\ minute \in Nat /\ minute <= MaxMinute
      /\ \A j \in Outages : created[j] \in Nat /\ resolvedAt[j] \in Nat /\ created[j] <= Never /\ resolvedAt[j] <= Never
      /\ created \in [Outages -> 0 .. Never] /\ resolvedAt \in [Outages -> 0 .. Never] /\ ongoing \subseteq Outages
      /\ MaxMinute \in Nat /\ Never = MaxMinute + 1 /\ minute # Never
  BY SloTypes, SloConstants DEF SloInv
<1>t. SloTypeOK /\ TimesInv
  BY DEF SloInv
<1>1. CASE OutageBegins(i)
  <2>1. /\ created[i] = Never /\ created' = [created EXCEPT ![i] = minute] /\ ongoing' = ongoing \union {i}
        /\ UNCHANGED <<minute, target, resolvedAt, downMinutes, twice, reopenedOnce>>
    BY <1>1 DEF OutageBegins
  <2>2. /\ created' \in [Outages -> 0 .. Never] /\ created'[i] = minute
        /\ \A j \in Outages : j # i => created'[j] = created[j]
    <3>1. minute \in 0 .. Never
      BY <1>0
    <3> QED
      BY <1>0, <2>1, <3>1
  <2>3. resolvedAt[i] = Never
    BY <1>t, <2>1 DEF TimesInv
  <2>4. SloTypeOK'
    BY <1>t, <2>1, <2>2 DEF SloTypeOK, Never
  <2>5. TimesInv'
    BY <1>0, <1>t, <2>1, <2>2, <2>3 DEF TimesInv, Never
  <2>6. \A j \in Outages, m \in 0 .. MaxMinute : m < minute => (Covers(j, m)' <=> Covers(j, m))
    BY <1>0, <2>1, <2>2 DEF Covers
  <2>7. ASSUME reopenedOnce = {} PROVE RecordedInv'
    <3>1. RecordedInv
      BY <2>7 DEF SloInv
    <3>2. \A j \in Outages : j \in ongoing' <=> created'[j] # Never /\ resolvedAt'[j] = Never
      BY <1>0, <2>1, <2>2, <2>3, <3>1 DEF RecordedInv
    <3>3. \A m \in 0 .. MaxMinute : m < minute => (m \in downMinutes <=> \E j \in Outages : Covers(j, m)')
      BY <2>6, <3>1 DEF RecordedInv
    <3> QED
      BY <2>1, <3>2, <3>3 DEF RecordedInv, Never
  <2>8. ApartInv => ApartInv'
    BY <2>1, <2>6 DEF ApartInv
  <2> QED
    BY <2>1, <2>4, <2>5, <2>7, <2>8 DEF SloInv
<1>2. CASE OutageIsResolved(i)
  <2>1. /\ i \in ongoing /\ ongoing' = ongoing \ {i}
        /\ resolvedAt' = [resolvedAt EXCEPT ![i] = IF resolvedAt[i] = Never THEN minute ELSE resolvedAt[i]]
        /\ UNCHANGED <<minute, target, created, downMinutes, twice, reopenedOnce>>
    BY <1>2 DEF OutageIsResolved
  <2>2. /\ resolvedAt' \in [Outages -> 0 .. Never]
        /\ resolvedAt'[i] = IF resolvedAt[i] = Never THEN minute ELSE resolvedAt[i]
        /\ \A j \in Outages : j # i => resolvedAt'[j] = resolvedAt[j]
    <3>1. minute \in 0 .. Never
      BY <1>0
    <3> QED
      BY <1>0, <2>1, <3>1
  <2>3. created[i] # Never
    BY <1>t, <2>1 DEF TimesInv
  <2>4. SloTypeOK'
    BY <1>t, <2>1, <2>2 DEF SloTypeOK, Never
  <2>5. TimesInv'
    BY <1>0, <1>t, <2>1, <2>2, <2>3 DEF TimesInv, Never
  <2>6. \A j \in Outages, m \in 0 .. MaxMinute : m < minute => (Covers(j, m)' <=> Covers(j, m))
    BY <1>0, <2>1, <2>2 DEF Covers
  <2>7. ASSUME reopenedOnce = {} PROVE RecordedInv'
    <3>1. RecordedInv
      BY <2>7 DEF SloInv
    <3>2. \A j \in Outages : j \in ongoing' <=> created'[j] # Never /\ resolvedAt'[j] = Never
      BY <1>0, <2>1, <2>2, <2>3, <3>1 DEF RecordedInv
    <3>3. \A m \in 0 .. MaxMinute : m < minute => (m \in downMinutes <=> \E j \in Outages : Covers(j, m)')
      BY <2>6, <3>1 DEF RecordedInv
    <3> QED
      BY <2>1, <3>2, <3>3 DEF RecordedInv, Never
  <2>8. ApartInv => ApartInv'
    BY <2>1, <2>6 DEF ApartInv
  <2> QED
    BY <2>1, <2>4, <2>5, <2>7, <2>8 DEF SloInv
<1>3. CASE OutageIsReopened(i)
  <2>1. /\ created[i] # Never /\ ongoing' = ongoing \union {i} /\ reopenedOnce' = reopenedOnce \union {i}
        /\ UNCHANGED <<minute, target, created, resolvedAt, downMinutes, twice>>
    BY <1>3 DEF OutageIsReopened
  <2>2. SloTypeOK' /\ TimesInv' /\ reopenedOnce' # {}
    BY <1>t, <2>1 DEF SloTypeOK, TimesInv, Never
  <2> QED
    BY <2>2 DEF SloInv
<1> QED
  BY <1>1, <1>2, <1>3

LEMMA SloKeeps ==
    ASSUME SloInv, [SloNext]_sloVars
    PROVE  SloInv'
<1>1. ASSUME NEW percentage \in Targets, UpdateTarget(percentage) PROVE SloInv'
  <2>1. target' \in Targets /\ UNCHANGED <<minute, created, resolvedAt, ongoing, downMinutes, twice, reopenedOnce>>
    BY <1>1 DEF UpdateTarget
  <2> QED
    BY <2>1 DEF SloInv, SloTypeOK, TimesInv, RecordedInv, ApartInv, Covers, Never
<1>2. CASE UNCHANGED sloVars
  BY <1>2 DEF sloVars, SloInv, SloTypeOK, TimesInv, RecordedInv, ApartInv, Covers, Never
<1> QED
  BY <1>1, <1>2, MinuteKeeps, OutagesKeep DEF SloNext

\* The downtime is what it is claimed to be: lost minutes correspond to outages one to one.
LEMMA DowntimeIsTrue ==
    ASSUME SloInv, reopenedOnce = {}, twice = {}
    PROVE  Downtime = TrueDowntime /\ TrueDowntime \in Nat
<1>0. /\ minute \in Nat /\ minute <= MaxMinute
      /\ \A j \in Outages : created[j] \in Nat /\ resolvedAt[j] \in Nat /\ created[j] <= Never /\ resolvedAt[j] <= Never
      /\ MaxMinute \in Nat /\ Window \in Nat /\ downMinutes \subseteq 0 .. MaxMinute
  BY SloTypes, SloConstants DEF SloInv, SloTypeOK
<1>i. TimesInv /\ RecordedInv /\ ApartInv
  BY DEF SloInv
<1>w. PICK start \in Nat : start = WindowStart
  BY <1>0 DEF WindowStart, Later
<1> DEFINE pairs == {lost \in Outages \X (0 .. MaxMinute) :
                        created[lost[1]] < minute /\ lost[2] \in Overlap(lost[1])}
           minutes == {m \in downMinutes : m >= WindowStart}
           second == [lost \in pairs |-> lost[2]]
<1>1. \A i \in Outages, m \in 0 .. MaxMinute :
         created[i] < minute /\ m \in Overlap(i) <=> Covers(i, m) /\ m < minute /\ start <= m
  BY <1>0, <1>w DEF Overlap, Later, Earlier, Covers
<1>2. \A i \in Outages, m \in 0 .. MaxMinute : <<i, m>> \in pairs <=> Covers(i, m) /\ m < minute /\ start <= m
  BY <1>1
<1>3. \A m \in 0 .. MaxMinute : m \in minutes <=> m < minute /\ start <= m /\ \E i \in Outages : Covers(i, m)
  BY <1>0, <1>i, <1>w DEF TimesInv, RecordedInv
<1>4. \A lost \in pairs : lost[1] \in Outages /\ lost[2] \in 0 .. MaxMinute /\ lost = <<lost[1], lost[2]>>
  OBVIOUS
<1>5. IsFiniteSet(pairs)
  <2>1. IsFiniteSet(Outages \X (0 .. MaxMinute))
    <3>1. IsFiniteSet(0 .. MaxMinute)
      BY <1>0, FS_Interval
    <3> QED
      BY <3>1, SloConstants, FS_Product
  <2>2. pairs \in SUBSET (Outages \X (0 .. MaxMinute))
    OBVIOUS
  <2> QED
    BY <2>1, <2>2, FS_Subset
<1> HIDE DEF pairs
<1>6. \A lost \in pairs : lost[2] \in minutes
  <2> SUFFICES ASSUME NEW lost \in pairs PROVE lost[2] \in minutes
    OBVIOUS
  <2>1. PICK i \in Outages, m \in 0 .. MaxMinute : i = lost[1] /\ m = lost[2] /\ <<i, m>> \in pairs
    BY <1>4
  <2> QED
    BY <1>2, <1>3, <2>1
<1>7. \A m \in minutes : \E lost \in pairs : lost[2] = m
  <2> SUFFICES ASSUME NEW m \in minutes PROVE \E lost \in pairs : lost[2] = m
    OBVIOUS
  <2>1. m \in 0 .. MaxMinute
    BY <1>0
  <2>2. PICK i \in Outages : Covers(i, m) /\ m < minute /\ start <= m
    BY <1>3, <2>1
  <2> QED
    BY <1>2, <2>1, <2>2
<1>8. \A one, two \in pairs : one[2] = two[2] => one = two
  <2> SUFFICES ASSUME NEW one \in pairs, NEW two \in pairs, one[2] = two[2] PROVE one = two
    OBVIOUS
  <2>1. PICK i \in Outages, m \in 0 .. MaxMinute : i = one[1] /\ m = one[2] /\ one = <<i, m>>
    BY <1>4
  <2>2. PICK j \in Outages : j = two[1] /\ two = <<j, m>>
    BY <1>4, <2>1
  <2>3. i = j
    BY <1>2, <1>i, <2>1, <2>2 DEF ApartInv
  <2> QED
    BY <2>1, <2>2, <2>3
<1> HIDE DEF minutes
<1>9. second \in Bijection(pairs, minutes)
  <2>1. second \in [pairs -> minutes]
    BY <1>6
  <2>2. \A one, two \in pairs : second[one] = second[two] => one = two
    BY <1>8
  <2>3. \A m \in minutes : \E lost \in pairs : second[lost] = m
    BY <1>7
  <2> HIDE DEF second
  <2> QED
    BY <2>1, <2>2, <2>3 DEF Bijection, Injection, Surjection, IsInjective
<1>10. Cardinality(minutes) = Cardinality(pairs) /\ IsFiniteSet(minutes)
  BY <1>5, <1>9, FS_Bijection DEF ExistsBijection
<1>11. Cardinality(minutes) \in Nat
  BY <1>10, FS_CardinalityType
<1> QED
  BY <1>10, <1>11 DEF pairs, minutes, Downtime, TrueDowntime

\* The arithmetic of the budget: what is left of it, and of the target.
LEMMA BudgetArithmetic ==
    ASSUME NEW W \in Nat, NEW t \in Nat, NEW d \in Nat
    PROVE  W * (100 - t) <= 100 * d <=> 100 * (W - d) <= t * W
<1>1. W * (100 - t) = 100 * W - t * W
  OBVIOUS
<1>2. 100 * (W - d) = 100 * W - 100 * d
  OBVIOUS
<1>3. t * W \in Nat
  OBVIOUS
<1> QED
  BY <1>1, <1>2, <1>3

LEMMA StatusIsRight == SloInv => StatusFollowsAvailability
<1> SUFFICES ASSUME SloInv, twice = {}, reopenedOnce = {}
             PROVE  /\ SloStatus = "exhausted" <=>
                          IF target = 100 THEN Window - TrueDowntime < Window
                          ELSE 100 * (Window - TrueDowntime) <= target * Window
                    /\ SloStatus = "healthy" /\ target < 100 =>
                          5 * (Window * (100 - target) - 100 * TrueDowntime) >= Window * (100 - target)
  BY DEF StatusFollowsAvailability
<1>1. PICK d \in Nat : d = TrueDowntime /\ d = Downtime
  BY DowntimeIsTrue
<1>2. Window \in Nat \ {0} /\ target \in Nat /\ 1 <= target /\ target <= 100
  BY SloConstants DEF SloInv, SloTypeOK
<1>3. PICK b : b = Window * (100 - target)
  OBVIOUS
<1>4. b \in Nat
  BY <1>2, <1>3
<1>5. b = 0 <=> target = 100
  BY <1>2, <1>3
<1>6. b <= 100 * d <=> 100 * (Window - d) <= target * Window
  BY <1>2, <1>3, BudgetArithmetic
<1>7. SloStatus =
         (IF b = 0 THEN IF 100 * d > 0 THEN "exhausted" ELSE "healthy"
          ELSE IF Later(b, 100 * d) - 100 * d = 0 THEN "exhausted"
          ELSE IF 100 * (Later(b, 100 * d) - 100 * d) < 20 * b THEN "at_risk"
          ELSE "healthy")
  BY <1>1, <1>3 DEF SloStatus, Budget
<1>8. CASE target = 100
  <2>1. SloStatus = "exhausted" <=> d > 0
    BY <1>5, <1>7, <1>8
  <2> QED
    BY <1>1, <1>2, <1>8, <2>1
<1>9. CASE target # 100
  <2>1. SloStatus = "exhausted" <=> b <= 100 * d
    BY <1>4, <1>5, <1>7, <1>9 DEF Later
  <2>2. SloStatus = "healthy" => 5 * (b - 100 * d) >= b
    BY <1>4, <1>5, <1>7, <1>9 DEF Later
  <2> QED
    BY <1>1, <1>3, <1>6, <1>9, <2>1, <2>2
<1> QED
  BY <1>8, <1>9

\* The invariant holds of every behaviour.
LEMMA SloInductive == SloSpec => []SloInv
<1>1. SloInit => SloInv
  BY SloInitInv
<1>2. SloInv /\ [SloNext]_sloVars => SloInv'
  BY SloKeeps
<1> QED
  BY <1>1, <1>2, PTL DEF SloSpec

(***************************************************************************)
(* The status says of the objective what the service's availability says   *)
(* of it, unless outages overlapped or one was reopened                    *)
(* (GetIncidentDowntimeMinutes, calculateForDefinition), for any window,   *)
(* target, time and number of outages.                                     *)
(***************************************************************************)
THEOREM ObjectivesAreJudgedRight == SloSpec => []StatusFollowsAvailability
BY SloInductive, StatusIsRight, PTL
============================================================================
