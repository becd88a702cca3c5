----------------------------- MODULE Ingestion -----------------------------
(***************************************************************************)
(* From an alert to an incident that is triaged: the ingestion endpoint    *)
(* and the quarantine of the backend, and the correlation the AlertWorker  *)
(* makes before it starts the pipeline.                                    *)
(*                                                                         *)
(* A request stores the incident, stores the alert's snapshot and then     *)
(* publishes alert.received, in three steps without a common transaction.  *)
(* The worker takes the events one by one, and asks the backend which open *)
(* incident an alert belongs to.  incident.created, published for the      *)
(* browsers only, is left out, and so are notifications.                   *)
(***************************************************************************)
EXTENDS Naturals, Sequences, FiniteSetsExt

CONSTANTS
    Services,           \* the software catalogue: its entries
    Slug, Tags, DependsOn,  \* of each entry: its slug, its tags, the slugs it depends on
    Unset,              \* an empty string, or a webhook without software
    Payloads,           \* alerts: [source, service, label]
    Senders,            \* concurrent POSTs to /ingest/:token
    CorrelationWindow,  \* bound of the age of an incident that attracts alerts, in ticks
    MaxIncidents,       \* bound: incidents created
    MaxQuarantined,     \* bound: alerts quarantined
    MaxClock            \* bound: ticks of the clock

ASSUME IngestionAssumption ==
    {CorrelationWindow, MaxIncidents, MaxQuarantined, MaxClock} \subseteq Nat

VARIABLES
    clock,
    sender,             \* each POST: what it does next, and the incident it made
    incidents,          \* the rows of incidents with their snapshots, oldest first
    quarantine,         \* the rows of alert_quarantine
    alertEvents,        \* alert.received events not yet taken: incidents
    correlator,         \* the worker: what it does next, for which incident
    ingestFault,        \* history: a call failed or a process died
    overlapped          \* history: an incident was created before another's event was settled

ingestionVars ==
    <<clock, sender, incidents, quarantine, alertEvents, correlator, ingestFault, overlapped>>

Sources == {"datadog", "prometheus_alertmanager", "grafana", "otel", "otel_spans"}
IncidentIds == 1 .. MaxIncidents
Settled == {"correlated", "investigated", "failed"}
IngestedRow == [software : Services, payload : Payloads, created : 0 .. MaxClock, open : BOOLEAN,
                snapshot : BOOLEAN, fate : {"new", "queued"} \union Settled, onto : Nat]
QuarantineRow == [payload : Payloads, resolved : BOOLEAN, reingested : BOOLEAN]

NewIncident(s, p) == [software |-> s, payload |-> p, created |-> clock, open |-> TRUE,
                      snapshot |-> FALSE, fate |-> "new", onto |-> 0]

IngestionInit ==
    /\ clock = 0
    /\ sender = [p \in Senders |-> [pc |-> "idle", incident |-> 0]]
    /\ incidents = <<>>
    /\ quarantine = <<>>
    /\ alertEvents = <<>>
    /\ correlator = [pc |-> "idle", incident |-> 0]
    /\ ingestFault = FALSE
    /\ overlapped = FALSE

----------------------------------------------------------------------------
(***************************************************************************)
(* Normalisation, per source: the service an alert names, the label        *)
(* rootcauseway.io/software, and the fingerprint, which none of them sets. *)
(***************************************************************************)
Normalized(service, label) == [service |-> service, label |-> label, fingerprint |-> Unset]

\* The labels hold the host and the type of the alert, not its tags.
NormalizeDatadog(p) == Normalized(p.service, Unset)

\* Of a group only the first alert counts, firing or not.
NormalizePrometheus(p) == Normalized(p.service, p.label)

NormalizeGrafana(p) == Normalized(p.service, p.label)

\* Spans have neither a service nor labels.
NormalizeOTel(p) ==
    IF p.source = "otel" THEN Normalized(p.service, p.label) ELSE Normalized(Unset, Unset)

Normalize(p) ==
    CASE p.source = "datadog"                 -> NormalizeDatadog(p)
      [] p.source = "prometheus_alertmanager" -> NormalizePrometheus(p)
      [] p.source = "grafana"                 -> NormalizeGrafana(p)
      [] OTHER                                -> NormalizeOTel(p)

(***************************************************************************)
(* The software catalogue.                                                 *)
(***************************************************************************)
\* Any entry that has the label for its slug or among its tags (LIMIT 1 without an order).
FindBySlugOrTag(label) == {s \in Services : label = Slug[s] \/ label \in Tags[s]}

ListDependents(slug) == {s \in Services : slug \in DependsOn[s]}

\* Dependencies nobody answers to are skipped; an entry is not downstream of itself,
\* but it may be upstream of itself.
GetDependencyGraph(s) ==
    LET known == {slug \in DependsOn[s] : FindBySlugOrTag(slug) # {}}
        picks == {pick \in [known -> Services] : \A slug \in known : pick[slug] \in FindBySlugOrTag(slug)}
    IN  {{pick[slug] : slug \in known} \union (ListDependents(Slug[s]) \ {s}) : pick \in picks}

\* What an alert is about: the label, else the service, else the webhook's software.
MatchSoftware(p, webhookSoftware) ==
    LET n == Normalize(p)
        found == FindBySlugOrTag(IF n.label # Unset THEN n.label ELSE n.service)
    IN  IF found # {} THEN found
        ELSE IF webhookSoftware # Unset THEN {webhookSoftware}
        ELSE {}

----------------------------------------------------------------------------
(***************************************************************************)
(* POST /ingest/:token                                                     *)
(***************************************************************************)
WorkerUnchanged == UNCHANGED <<clock, correlator>>

\* Bound: one failure, since the properties say nothing of what comes after one.
Fails == ~ingestFault /\ ingestFault' = TRUE

\* Create numbers the incident and inserts it, in one transaction.
CreatesIncident(w, p, s) ==
    /\ Len(incidents) < MaxIncidents
    /\ incidents' = Append(incidents, NewIncident(s, p))
    /\ sender' = [sender EXCEPT ![w] = [pc |-> "snapshot", incident |-> Len(incidents) + 1]]
    /\ overlapped' = (overlapped \/ \E i \in DOMAIN incidents : incidents[i].fate \notin Settled)
    /\ UNCHANGED <<quarantine, ingestFault>>

\* The sender is told that the alert is quarantined even if it could not be stored.
Quarantines(p) ==
    /\ \/ /\ Len(quarantine) < MaxQuarantined
          /\ quarantine' = Append(quarantine, [payload |-> p, resolved |-> FALSE, reingested |-> FALSE])
          /\ UNCHANGED ingestFault
       \/ /\ Fails
          /\ UNCHANGED quarantine
    /\ UNCHANGED <<sender, incidents, overlapped>>

IngestAlert(w, p, webhookSoftware) ==
    /\ sender[w].pc = "idle"
    /\ \/ /\ MatchSoftware(p, webhookSoftware) = {}
          /\ Quarantines(p)
       \/ \E s \in MatchSoftware(p, webhookSoftware) : CreatesIncident(w, p, s)
    /\ UNCHANGED alertEvents
    /\ WorkerUnchanged

StoresSnapshot(w) ==
    /\ sender[w].pc = "snapshot"
    /\ incidents' = [incidents EXCEPT ![sender[w].incident].snapshot = TRUE]
    /\ sender' = [sender EXCEPT ![w].pc = "publish"]
    /\ UNCHANGED <<quarantine, alertEvents, ingestFault, overlapped>>
    /\ WorkerUnchanged

PublishesAlert(w) ==
    /\ sender[w].pc = "publish"
    /\ alertEvents' = Append(alertEvents, sender[w].incident)
    /\ incidents' = [incidents EXCEPT ![sender[w].incident].fate = "queued"]
    /\ sender' = [sender EXCEPT ![w] = [pc |-> "idle", incident |-> 0]]
    /\ UNCHANGED <<quarantine, ingestFault, overlapped>>
    /\ WorkerUnchanged

\* A snapshot that is not stored is an error and the incident stays; an event that is
\* not published is only logged.  Or the process dies.
IngestionFails(w) ==
    /\ sender[w].pc # "idle"
    /\ sender' = [sender EXCEPT ![w] = [pc |-> "idle", incident |-> 0]]
    /\ Fails
    /\ UNCHANGED <<incidents, quarantine, alertEvents, overlapped>>
    /\ WorkerUnchanged

\* validateWebhookToken: what the handler below passes is refused.
ValidToken(token) == token # Unset

\* POST /quarantine/:id/resolve marks the alert and ingests it again, with an empty token.
ResolveQuarantine(q) ==
    /\ quarantine' = [quarantine EXCEPT ![q].resolved = TRUE, ![q].reingested = ValidToken(Unset)]
    /\ UNCHANGED <<sender, incidents, alertEvents, ingestFault, overlapped>>
    /\ WorkerUnchanged

----------------------------------------------------------------------------
(***************************************************************************)
(* AlertWorker._handle_message and CorrelationEngine.check_correlation     *)
(***************************************************************************)
BackendUnchanged == UNCHANGED <<clock, sender, quarantine, overlapped>>

WithinWindow(i, window) == incidents[i].created + window >= clock

ListOpenBySoftware(software, window) ==
    {i \in DOMAIN incidents : /\ incidents[i].open
                              /\ incidents[i].software \in software
                              /\ WithinWindow(i, window)}

\* ORDER BY created_at DESC: the one that comes first.
MostRecent(ids) == {i \in ids : \A j \in ids : incidents[j].created <= incidents[i].created}

\* The most recent snapshot with the fingerprint, if its incident is open or young
\* enough: and null if that is the alert's own incident.
FindIncidentByFingerprint(fingerprint, excluded) ==
    MostRecent({i \in DOMAIN incidents :
                   /\ incidents[i].snapshot
                   /\ Normalize(incidents[i].payload).fingerprint = fingerprint
                   /\ incidents[i].open \/ WithinWindow(i, CorrelationWindow)}) \ {excluded}

\* Without a fingerprint nothing is looked up.
FingerprintMatch(i) ==
    LET fingerprint == Normalize(incidents[i].payload).fingerprint IN
    IF fingerprint = Unset THEN {} ELSE FindIncidentByFingerprint(fingerprint, i)

\* Mutant: the check as it was before the alert's own incident was passed over.
ServiceMatchOwn(i) == MostRecent(ListOpenBySoftware({incidents[i].software}, CorrelationWindow))

\* CorrelationCheck passes over the alert's own incident.
ServiceMatch(i) ==
    MostRecent(ListOpenBySoftware({incidents[i].software}, CorrelationWindow) \ {i})

\* The cascade does not pass over it.
CascadeMatch(i, related) == MostRecent(ListOpenBySoftware(related, CorrelationWindow))

\* The alert becomes a timeline event of the other incident, and nothing else happens.
SettlesOnto(i, j) ==
    /\ incidents' = [incidents EXCEPT ![i].fate = "correlated", ![i].onto = j]
    /\ correlator' = [pc |-> "idle", incident |-> 0]
    /\ UNCHANGED <<alertEvents, ingestFault>>
    /\ BackendUnchanged

Proceeds(pc) ==
    /\ correlator' = [correlator EXCEPT !.pc = pc]
    /\ UNCHANGED <<incidents, alertEvents, ingestFault>>
    /\ BackendUnchanged

\* Mutant: events of incidents that are no longer open are dropped.
TakeAlertIfOpen ==
    /\ correlator.pc = "idle"
    /\ alertEvents # <<>>
    /\ correlator' = IF incidents[Head(alertEvents)].open
                     THEN [pc |-> "service", incident |-> Head(alertEvents)]
                     ELSE correlator
    /\ alertEvents' = Tail(alertEvents)
    /\ UNCHANGED <<incidents, ingestFault>>
    /\ BackendUnchanged

TakeAlert ==
    /\ correlator.pc = "idle"
    /\ alertEvents # <<>>
    /\ correlator' = [pc |-> "service", incident |-> Head(alertEvents)]
    /\ alertEvents' = Tail(alertEvents)
    /\ UNCHANGED <<incidents, ingestFault>>
    /\ BackendUnchanged

CheckSameService ==
    LET matches == FingerprintMatch(correlator.incident) \union ServiceMatch(correlator.incident) IN
    /\ correlator.pc = "service"
    /\ \/ \E j \in matches : SettlesOnto(correlator.incident, j)
       \/ matches = {} /\ Proceeds("cascade")

CheckCascade ==
    LET i == correlator.incident IN
    /\ correlator.pc = "cascade"
    /\ \E related \in GetDependencyGraph(incidents[i].software) :
          \/ \E j \in CascadeMatch(i, related) : SettlesOnto(i, j)
          \/ CascadeMatch(i, related) = {} /\ Proceeds("pipeline")

\* A failed lookup is logged and counts as no match.
LookupFails ==
    /\ correlator.pc \in {"service", "cascade"}
    /\ Fails
    /\ correlator' = [correlator EXCEPT !.pc = IF @ = "service" THEN "cascade" ELSE "pipeline"]
    /\ UNCHANGED <<incidents, alertEvents>>
    /\ BackendUnchanged

\* The orchestrator runs; an exception of its own is swallowed.
PipelineEnds ==
    LET i == correlator.incident IN
    /\ correlator.pc = "pipeline"
    /\ correlator' = [pc |-> "idle", incident |-> 0]
    /\ \/ /\ incidents' = [incidents EXCEPT ![i].fate = "investigated"]
          /\ UNCHANGED ingestFault
       \/ /\ incidents' = [incidents EXCEPT ![i].fate = "failed"]
          /\ Fails
    /\ UNCHANGED alertEvents
    /\ BackendUnchanged

----------------------------------------------------------------------------
\* An incident is resolved or closed, by a person or by an agent.
CloseIncident(i) ==
    /\ incidents[i].open
    /\ incidents' = [incidents EXCEPT ![i].open = FALSE]
    /\ UNCHANGED <<clock, sender, quarantine, alertEvents, correlator, ingestFault, overlapped>>

Tick ==
    /\ clock < MaxClock
    /\ clock' = clock + 1
    /\ UNCHANGED <<sender, incidents, quarantine, alertEvents, correlator, ingestFault, overlapped>>

Ingest(w) == StoresSnapshot(w) \/ PublishesAlert(w)
Correlate == TakeAlert \/ CheckSameService \/ CheckCascade \/ PipelineEnds

IngestionNext ==
    \/ \E w \in Senders :
         \/ \E p \in Payloads, s \in Services \union {Unset} : IngestAlert(w, p, s)
         \/ Ingest(w)
         \/ IngestionFails(w)
    \/ \E q \in DOMAIN quarantine : ResolveQuarantine(q)
    \/ Correlate
    \/ LookupFails
    \/ \E i \in DOMAIN incidents : CloseIncident(i)
    \/ Tick

\* A request that began goes on, and the worker takes its events.
IngestionFairness ==
    /\ \A w \in Senders : WF_ingestionVars(Ingest(w))
    /\ WF_ingestionVars(Correlate)

IngestionSpec == IngestionInit /\ [][IngestionNext]_ingestionVars /\ IngestionFairness

----------------------------------------------------------------------------
IngestionTypeOK ==
    /\ clock \in 0 .. MaxClock
    /\ sender \in [Senders -> [pc : {"idle", "snapshot", "publish"}, incident : 0 .. MaxIncidents]]
    /\ incidents \in Seq(IngestedRow) /\ Len(incidents) <= MaxIncidents
    /\ quarantine \in Seq(QuarantineRow)
    /\ alertEvents \in Seq(IncidentIds)
    /\ correlator \in [pc : {"idle", "service", "cascade", "pipeline"}, incident : 0 .. MaxIncidents]
    /\ ingestFault \in BOOLEAN
    /\ overlapped \in BOOLEAN

\* Where one ends up who follows the correlations from an incident: in every set that holds
\* the incident, and with an incident also the one it was correlated to.
Chain(i) ==
    LET Follows(ids) == \A k \in ids : incidents[k].onto \in ids \union {0}
    IN  {j \in DOMAIN incidents :
            \A ids \in SUBSET DOMAIN incidents : i \in ids /\ Follows(ids) => j \in ids}

SelfDependent(s) == \E related \in GetDependencyGraph(s) : s \in related

(***************************************************************************)
(* An alert that is correlated away ends, by however many hops, with an    *)
(* incident the pipeline has looked into: engine.py 20-24 wants a cascade  *)
(* to land on one incident.  The exceptions are a failure, a service that  *)
(* depends on itself, and two alerts whose handling overlaps, which may    *)
(* each be correlated to the other, so that nobody looks into either.      *)
(***************************************************************************)
CorrelatedIsInvestigated ==
    \A i \in DOMAIN incidents :
        incidents[i].fate = "correlated" =>
            \/ \E j \in Chain(i) : incidents[j].fate = "investigated"
            \/ ingestFault
            \/ overlapped
            \/ \E j \in Chain(i) : SelfDependent(incidents[j].software)

(***************************************************************************)
(* Every incident is in the end investigated or correlated, unless a call  *)
(* fails (ingestion_service.go 171: between the incident, its snapshot and *)
(* its event nothing but an error return links the steps).                 *)
(***************************************************************************)
IncidentsAreTriaged ==
    \A i \in IncidentIds :
        i <= Len(incidents) ~>
            \/ ingestFault
            \/ i <= Len(incidents) /\ incidents[i].fate \in Settled
============================================================================
