----------------------------- MODULE Catalogue -----------------------------
(***************************************************************************)
(* What becomes of one row of a table somebody edits, whatever the table:  *)
(* an INSERT from a request; edits that read the row, change it in memory  *)
(* and write all its columns back with an UPDATE, nothing being locked in  *)
(* between; statements that set one column; a DELETE.  CatalogueTables     *)
(* says what differs between tables.  A column's value is the number of    *)
(* the request it came from, 0 if it is empty or its default.              *)
(***************************************************************************)
EXTENDS CatalogueTables, Naturals

CONSTANTS
    Editors,       \* clients of the API, each with one request at a time
    MaxRequests,   \* bound: requests of a behaviour
    Absent         \* stands for a row that does not exist

ASSUME MaxRequestsAssumption == MaxRequests \in Nat

NeverEdited == [required |-> {}, scalars |-> {}, documents |-> {}]
AFamily(routes, body, service, table) ==
    [routes |-> routes, body |-> body, service |-> service, table |-> table]

Families ==
    [software |-> AFamily(SoftwareRoutes, SoftwareBody, SoftwareService, SoftwareTable),
     sources |-> AFamily(SourceRoutes, SourceBody, SourceService, SourceTable),
     snapshot_configs |->
         AFamily(SnapshotConfigRoutes, SnapshotConfigBody, SnapshotConfigService, SnapshotConfigTable),
     slos |-> AFamily(SloRoutes, SloBody, SloService, SloTable),
     webhooks |-> AFamily(WebhookRoutes, NeverEdited, WebhookService, WebhookTable),
     change_events |-> AFamily(ChangeEventRoutes, NeverEdited, ChangeEventService, ChangeEventTable),
     agents |-> AFamily(AgentRoutes, AgentBody, AgentService, AgentTable),
     skills |-> AFamily(SkillRoutes, SkillBody, SkillService, SkillTable),
     agent_skills |-> AFamily(AgentSkillRoutes, NeverEdited, AgentSkillService, AgentSkillTable),
     a2a_agents |-> AFamily(A2AAgentRoutes, A2AAgentBody, A2AAgentService, A2AAgentTable),
     a2a_tasks |-> AFamily(A2ATaskRoutes, A2ATaskBody, A2ATaskService, A2ATaskTable),
     decisions |-> AFamily(DecisionRoutes, NeverEdited, DecisionService, DecisionTable),
     providers |-> AFamily(ProviderRoutes, ProviderBody, ProviderService, ProviderTable),
     resource_credentials |->
         AFamily(ResourceCredentialRoutes, ResourceCredentialBody, ResourceCredentialService,
                 ResourceCredentialTable),
     correlation_rules |->
         AFamily(CorrelationRuleRoutes, CorrelationRuleBody, CorrelationRuleService,
                 CorrelationRuleTable),
     alert_groups |-> AFamily(AlertGroupRoutes, NeverEdited, AlertGroupService, AlertGroupTable),
     channels |-> AFamily(ChannelRoutes, ChannelBody, ChannelService, ChannelTable),
     escalations |-> AFamily(EscalationRoutes, EscalationBody, EscalationService, EscalationTable),
     notification_log |->
         AFamily(NotificationLogRoutes, NeverEdited, NotificationLogService, NotificationLogTable),
     runbooks |-> AFamily(RunbookRoutes, RunbookBody, RunbookService, RunbookTable),
     runbook_steps |-> AFamily(RunbookStepRoutes, RunbookStepBody, RunbookStepService, RunbookStepTable),
     incidents |-> AFamily(IncidentRoutes, IncidentBody, IncidentService, IncidentTable),
     incident_events |-> AFamily(AppendedRoutes, NeverEdited, IncidentEventService, AppendedTable),
     evidence |-> AFamily(AppendedRoutes, NeverEdited, IncidentEvidenceService, AppendedTable),
     feedback |-> AFamily(AppendedRoutes, NeverEdited, FeedbackService, AppendedTable),
     similar_incidents |-> AFamily(AppendedRoutes, NeverEdited, SimilarIncidentService, AppendedTable),
     agent_runs |-> AFamily(AgentRunRoutes, AgentRunBody, AgentRunService, AgentRunTable),
     rcis |-> AFamily(RciRoutes, RciBody, RciService, RciTable),
     rcas |-> AFamily(RcaRoutes, RcaBody, RcaService, RcaTable),
     postmortems |-> AFamily(PostmortemRoutes, PostmortemBody, PostmortemService, PostmortemTable),
     users |-> AFamily(UserRoutes, UserBody, UserService, UserTable),
     roles |-> AFamily(RoleRoutes, RoleBody, RoleService, RoleTable),
     sign_on |-> AFamily(SignOnRoutes, SignOnBody, SignOnService, SignOnTable),
     api_keys |-> AFamily(KeyRoutes, NeverEdited, KeyService, KeyTable)]

VARIABLES
    family,      \* the table
    record,      \* the row that reads find, Absent if there is none
    version,     \* which row that is: an edit of an earlier one does not reach it
    editor,      \* the requests that are between their read and their write
    requested,   \* the number of requests so far
    intended,    \* history: what the requests answered so far ask the row to be
    crossed      \* history: columns an edit has set back to what it had read earlier

catalogueVars == <<family, record, version, editor, requested, intended, crossed>>

----------------------------------------------------------------------------
Of == Families[family]
RecordColumns == ColumnsOf(Of.body) \union Of.service.posted \union Of.table.updated \union Of.table.touched
IdleEditor == [pc |-> "idle", n |-> 0, body |-> {}, read |-> Absent, version |-> 0]

\* What a valid request may carry: what it must, and besides that nothing, one column, or all.
EditBodies ==
    {Of.body.required \union extra :
        extra \in {{}, ColumnsOf(Of.body)} \union {{c} : c \in ColumnsOf(Of.body)}}

\* The type that edits is mostly the one that creates, with the same requirements; where it is
\* another, the row is created from all that one carries.
PostBodies ==
    {Of.service.posted} \union
    (IF Of.service.posted = ColumnsOf(Of.body) THEN {Of.body.required} ELSE {})

\* The fields an edit assigns: some always, with the empty value if the request has none.
Assigned(body) == Of.service.sets \union (Of.service.merges \intersect body)

CatalogueInit ==
    /\ family \in DOMAIN Families
    /\ record = Absent
    /\ version = 0
    /\ editor = [e \in Editors |-> IdleEditor]
    /\ requested = 0
    /\ intended = Absent
    /\ crossed = {}

Request(route) ==
    /\ route \in Of.routes
    /\ requested < MaxRequests
    /\ requested' = requested + 1

\* INSERT.  Of the rows there may be several of for an incident, the latest is the one found.
CreateRecord ==
    /\ Request("create")
    /\ record = Absent \/ "supersede" \in Of.routes
    /\ \E body \in PostBodies :
          LET posted == [c \in RecordColumns |-> IF c \in body THEN requested' ELSE 0]
          IN record' = posted /\ intended' = posted
    /\ version' = version + 1
    /\ crossed' = {}
    /\ UNCHANGED <<family, editor>>

UpdateReadsRecord(e) ==
    /\ editor[e].pc = "idle"
    /\ record # Absent
    /\ Request("update")
    /\ \E body \in EditBodies :
          editor' = [editor EXCEPT ![e] = [pc |-> "write", n |-> requested', body |-> body,
                                           read |-> record, version |-> version]]
    /\ UNCHANGED <<family, record, version, intended, crossed>>

UpdateWritesRecord(e) ==
    LET edit == editor[e]
        assigned == Assigned(edit.body)
        FromBody(c) == IF c \in edit.body THEN edit.n ELSE 0
        InMemory(c) == IF c \in assigned THEN FromBody(c) ELSE edit.read[c]
        replaced == edit.body \union Of.body.scalars
        setBack == {c \in Of.table.updated \ assigned : edit.read[c] # record[c]}
    IN  /\ edit.pc = "write"
        /\ editor' = [editor EXCEPT ![e] = IdleEditor]
        /\ IF record # Absent /\ edit.version = version
              THEN /\ record' = [c \in RecordColumns |->
                                    IF c \in Of.table.updated THEN InMemory(c) ELSE record[c]]
                   /\ intended' = [c \in RecordColumns |->
                                      IF c \in replaced THEN FromBody(c) ELSE intended[c]]
                   /\ crossed' = (crossed \ replaced) \union setBack
              ELSE UNCHANGED <<record, intended, crossed>>   \* the UPDATE affects no row
        /\ UNCHANGED <<family, version, requested>>

\* A statement of its own for one column: a health check, a login, a position, a revocation.
TouchRecord ==
    /\ record # Absent
    /\ Request("touch")
    /\ \E c \in Of.table.touched :
          /\ record' = [record EXCEPT ![c] = requested']
          /\ intended' = [intended EXCEPT ![c] = requested']
          /\ crossed' = crossed \ {c}
    /\ UNCHANGED <<family, version, editor>>

DeleteRecord ==
    /\ record # Absent
    /\ Request("delete")
    /\ record' = Absent
    /\ intended' = Absent
    /\ crossed' = {}
    /\ UNCHANGED <<family, version, editor>>

CatalogueNext ==
    \/ CreateRecord \/ TouchRecord \/ DeleteRecord
    \/ \E e \in Editors : UpdateReadsRecord(e) \/ UpdateWritesRecord(e)

CatalogueSpec == CatalogueInit /\ [][CatalogueNext]_catalogueVars

----------------------------------------------------------------------------
Values == 0 .. MaxRequests
CatalogueTypeOK ==
    /\ family \in DOMAIN Families
    /\ record \in [RecordColumns -> Values] \union {Absent}
    /\ version \in Values
    /\ \A e \in Editors :
          /\ editor[e].pc \in {"idle", "write"}
          /\ editor[e].n \in Values
          /\ editor[e].body \subseteq ColumnsOf(Of.body)
          /\ editor[e].read \in [RecordColumns -> Values] \union {Absent}
          /\ editor[e].version \in Values
    /\ requested \in Values
    /\ intended \in [RecordColumns -> Values] \union {Absent}
    /\ crossed \subseteq RecordColumns

\* What an edit is known not to do: fields of the request it does not look at, columns its UPDATE
\* leaves out, and documents it empties when the request does not carry them.
Disregarded ==
    [software |-> {"tags"},
     snapshot_configs |-> {"software_id"},
     a2a_agents |-> {"hosting_type", "llm_provider", "llm_api_key_ref", "auto_scale", "min_replicas",
                     "max_replicas"},
     resource_credentials |-> {"software_id"},
     escalations |-> {"software_id", "repeat_after_seconds"},
     runbooks |-> {"software_id"},
     runbook_steps |-> {"config", "skill_id", "timeout_seconds"},
     rcis |-> {"agent_run_id", "affected_users_estimate", "detection_time", "acknowledgment_time",
               "time_to_detect_seconds"},
     rcas |-> {"rci_id", "agent_run_id"},
     postmortems |-> {"rca_id", "agent_run_id"},
     roles |-> {"permission_ids"},
     sign_on |-> {"default_role_id"}]

(***************************************************************************)
(* Whatever requests were made, and in whatever order their reads and      *)
(* writes came, every column of a row holds what the last request about it *)
(* asked for, and documents that edits did not carry are kept (a software's *)
(* owner, once lost by every such edit: software_service.go:236).  The     *)
(* exceptions are named: columns set back by an edit that overlapped with  *)
(* another, and those of Disregarded.                                      *)
(***************************************************************************)
ColumnsFollowBodies ==
    record # Absent =>
        \A c \in RecordColumns :
            \/ record[c] = intended[c]
            \/ c \in crossed
            \/ family \in DOMAIN Disregarded /\ c \in Disregarded[family]
============================================================================
