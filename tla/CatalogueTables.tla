-------------------------- MODULE CatalogueTables --------------------------
(***************************************************************************)
(* The resources of the API that are rows somebody edits.  For each:       *)
(*   ...Routes   what its handlers offer;                                  *)
(*   ...Body     the type of the request that edits it: what it must       *)
(*               carry, by its binding or because a CHECK of the table     *)
(*               refuses the empty value; the scalars it may leave empty;  *)
(*               and the documents (pointers, raw JSON, numbers of which 0 *)
(*               makes no sense) of which one can tell they are not there; *)
(*   ...Service  what the service takes from the request that creates the  *)
(*               row (posted), and, when it edits the row it has read,     *)
(*               what it overwrites (sets), and what only if it is there   *)
(*               (merges);                                                 *)
(*   ...Table    the columns of the UPDATE statement, and those that have  *)
(*               statements of their own (touched).                        *)
(* Identifiers, the organization and time stamps are left out.             *)
(***************************************************************************)

Editable == {"create", "update", "delete"}
ColumnsOf(body) == body.required \union body.scalars \union body.documents
Unedited(columns) == [posted |-> columns, sets |-> {}, merges |-> {}]
Fixed == [updated |-> {}, touched |-> {}]

----------------------------------------------------------------------------
(***************************************************************************)
(* Software and its sources of evidence                                    *)
(***************************************************************************)
SoftwareRoutes == Editable
SoftwareBody ==
    [required |-> {"name", "slug", "cloud_provider"},
     scalars |-> {"description", "repository_url", "pipeline_url", "runbook_url", "dashboard_url"},
     documents |-> {"owner_id", "tags", "cloud_resources", "database_info", "infra_details",
                    "stakeholders", "sre_team", "architects", "dependencies", "criticality", "type"}]

SoftwareOverwrites == {"name", "slug", "description", "repository_url", "tags", "pipeline_url",
                       "cloud_provider", "runbook_url", "dashboard_url"}
SoftwareMerges == {"cloud_resources", "database_info", "infra_details", "stakeholders", "sre_team",
                   "architects", "dependencies", "criticality", "type"}

\* Mutant: the owner is overwritten by edits that do not carry one, as it once was.
SoftwareServiceUnowned ==
    [posted |-> ColumnsOf(SoftwareBody),
     sets |-> SoftwareOverwrites \union {"owner_id"},
     merges |-> SoftwareMerges]

SoftwareService ==
    [posted |-> ColumnsOf(SoftwareBody),
     sets |-> SoftwareOverwrites,
     merges |-> SoftwareMerges \union {"owner_id"}]
SoftwareTable == [updated |-> ColumnsOf(SoftwareBody), touched |-> {}]

SourceRoutes == Editable \union {"touch"}
SourceBody ==
    [required |-> {"name", "source_type", "base_url", "auth_type"},
     scalars |-> {"description", "environment", "region"},
     documents |-> {"auth_config", "capabilities", "monitored_software_ids", "timeout_seconds",
                    "verify_ssl", "custom_headers"}]
SourceService ==
    [posted |-> ColumnsOf(SourceBody),
     sets |-> {"name", "source_type", "base_url", "auth_type", "description", "environment", "region"},
     merges |-> {"auth_config", "capabilities", "monitored_software_ids", "custom_headers",
                 "timeout_seconds", "verify_ssl"}]
SourceTable == [updated |-> ColumnsOf(SourceBody), touched |-> {"health_status"}]

SnapshotConfigRoutes == Editable
SnapshotConfigBody ==
    [required |-> {"source_id", "name", "snapshot_type"},
     scalars |-> {"query_template"},
     documents |-> {"software_id", "time_range_seconds", "parameters"}]
SnapshotConfigService ==
    [posted |-> ColumnsOf(SnapshotConfigBody),
     sets |-> {"source_id", "software_id", "name", "snapshot_type", "query_template"},
     merges |-> {"time_range_seconds", "parameters"}]
SnapshotConfigTable == [updated |-> ColumnsOf(SnapshotConfigBody), touched |-> {}]

SloRoutes == Editable
SloBody ==
    [required |-> {}, scalars |-> {},
     documents |-> {"name", "slo_type", "target_percentage", "measurement_window_days"}]
SloService ==
    [posted |-> {"software_id"} \union ColumnsOf(SloBody),
     sets |-> {},
     merges |-> {"name", "slo_type", "target_percentage", "measurement_window_days"}]
SloTable == [updated |-> ColumnsOf(SloBody), touched |-> {}]

WebhookRoutes == {"create", "delete"}
WebhookService == Unedited({"name", "source", "software_id"})
WebhookTable == Fixed

ChangeEventRoutes == {"create"}
ChangeEventService == Unedited({"software_id", "change_type", "title", "description", "source",
                                "source_url", "commit_sha", "author", "environment", "metadata"})
ChangeEventTable == Fixed

----------------------------------------------------------------------------
(***************************************************************************)
(* Agents, skills and tasks                                                *)
(***************************************************************************)
AgentRoutes == Editable
AgentBody == [required |-> {"name", "type"}, scalars |-> {"description", "config"}, documents |-> {}]
AgentService ==
    [posted |-> ColumnsOf(AgentBody), sets |-> {"name", "type", "description", "config"}, merges |-> {}]
AgentTable == [updated |-> ColumnsOf(AgentBody), touched |-> {}]

SkillRoutes == Editable
SkillBody ==
    [required |-> {"name", "slug", "category"},
     scalars |-> {"description", "prompt_template"},
     documents |-> {"input_schema", "output_schema", "required_tools", "required_resource_types",
                    "required_permissions", "enabled"}]
SkillService ==
    [posted |-> ColumnsOf(SkillBody) \ {"enabled"},
     sets |-> {"name", "slug", "description", "category", "prompt_template"},
     merges |-> {"input_schema", "output_schema", "required_tools", "required_resource_types",
                 "required_permissions", "enabled"}]
SkillTable == [updated |-> ColumnsOf(SkillBody), touched |-> {}]

AgentSkillRoutes == {"create", "delete"}
AgentSkillService == Unedited({"skill_id", "priority", "config_overrides"})
AgentSkillTable == Fixed

\* Agents of the system are not deleted, others are.
A2AAgentRoutes == Editable \union {"touch"}
A2AAgentBody ==
    [required |-> {"name", "agent_type", "auth_type"},
     scalars |-> {"description", "endpoint_url", "auth_credentials", "hosting_type", "llm_provider",
                  "llm_api_key_ref", "auto_scale", "min_replicas", "max_replicas"},
     documents |-> {"agent_card", "skills", "allowed_software_ids", "managed_config"}]
A2AAgentService ==
    [posted |-> {"name", "agent_type", "description", "endpoint_url", "auth_type", "auth_credentials",
                 "agent_card", "skills", "allowed_software_ids"},
     sets |-> {"name", "description", "agent_type", "endpoint_url", "auth_type", "auth_credentials"},
     merges |-> {"agent_card", "skills", "allowed_software_ids", "managed_config"}]

\* The health found by the last check is among what an edit writes back.
A2AAgentTable ==
    [updated |-> ColumnsOf(A2AAgentBody) \union {"health_status"}, touched |-> {"health_status"}]

A2ATaskRoutes == {"create", "update"}
A2ATaskBody ==
    [required |-> {}, scalars |-> {}, documents |-> {"status", "output_artifacts", "error_message"}]
A2ATaskService ==
    [posted |-> {"agent_id", "task_type", "input_message", "priority", "depends_on"},
     sets |-> {},
     merges |-> {"status", "output_artifacts", "error_message"}]
A2ATaskTable == [updated |-> ColumnsOf(A2ATaskBody), touched |-> {}]

DecisionRoutes == {"create"}
DecisionService == Unedited({"decision_type", "reasoning", "selected_agents", "context_used",
                             "confidence"})
DecisionTable == Fixed

----------------------------------------------------------------------------
(***************************************************************************)
(* Credentials                                                             *)
(***************************************************************************)
ProviderRoutes == Editable
ProviderBody == [required |-> {"name", "provider_type"}, scalars |-> {}, documents |-> {"config"}]
ProviderService ==
    [posted |-> ColumnsOf(ProviderBody), sets |-> {"name", "provider_type"}, merges |-> {"config"}]
ProviderTable == [updated |-> ColumnsOf(ProviderBody), touched |-> {}]

ResourceCredentialRoutes == Editable
ResourceCredentialBody ==
    [required |-> {"software_id", "resource_name", "resource_type", "provider_id"},
     scalars |-> {"credential_path", "default_ttl", "max_ttl"},
     documents |-> {"default_scope", "metadata"}]
ResourceCredentialService ==
    [posted |-> ColumnsOf(ResourceCredentialBody),
     sets |-> {"resource_name", "resource_type", "provider_id", "credential_path", "default_ttl",
               "max_ttl"},
     merges |-> {"default_scope", "metadata"}]
ResourceCredentialTable ==
    [updated |-> ColumnsOf(ResourceCredentialBody) \ {"software_id"}, touched |-> {}]

\* access_policies is not here: the statements that insert, update and find its rows name a column
\* max_ttl, which the table does not have, so it never holds any.

----------------------------------------------------------------------------
(***************************************************************************)
(* Correlation, notification and escalation                                *)
(***************************************************************************)
CorrelationRuleRoutes == Editable
CorrelationRuleBody ==
    [required |-> {"name", "rule_type"}, scalars |-> {"description"},
     documents |-> {"config", "time_window_seconds"}]
CorrelationRuleService ==
    [posted |-> ColumnsOf(CorrelationRuleBody),
     sets |-> {"name", "description", "rule_type"},
     merges |-> {"config", "time_window_seconds"}]
CorrelationRuleTable == [updated |-> ColumnsOf(CorrelationRuleBody), touched |-> {}]

AlertGroupRoutes == {"create"}
AlertGroupService == Unedited({"alert_snapshot_id", "correlation_rule_id"})
AlertGroupTable == Fixed

ChannelRoutes == Editable
ChannelBody == [required |-> {"name", "channel_type"}, scalars |-> {}, documents |-> {"config"}]
ChannelService ==
    [posted |-> ColumnsOf(ChannelBody), sets |-> {"name", "channel_type"}, merges |-> {"config"}]
ChannelTable == [updated |-> ColumnsOf(ChannelBody), touched |-> {}]

EscalationRoutes == Editable
EscalationBody ==
    [required |-> {"name"}, scalars |-> {"description"},
     documents |-> {"software_id", "severity_filter", "steps", "repeat_after_seconds"}]
EscalationService ==
    [posted |-> ColumnsOf(EscalationBody),
     sets |-> {"name", "description", "software_id", "repeat_after_seconds"},
     merges |-> {"severity_filter", "steps"}]
EscalationTable == [updated |-> ColumnsOf(EscalationBody), touched |-> {}]

\* The API only lists what was sent; the statements that write it have no caller here.
NotificationLogRoutes == {"create", "touch"}
NotificationLogService == Unedited({"incident_id", "channel_id", "policy_id", "event_type",
                                    "recipient", "payload"})
NotificationLogTable == [updated |-> {}, touched |-> {"status", "error_message"}]

----------------------------------------------------------------------------
(***************************************************************************)
(* Runbooks.  A step is edited without being read: what the request does   *)
(* not carry is emptied, documents too.                                    *)
(***************************************************************************)
RunbookRoutes == Editable
RunbookBody ==
    [required |-> {"name", "slug"}, scalars |-> {"description", "auto_trigger"},
     documents |-> {"software_id", "trigger_conditions"}]
RunbookService ==
    [posted |-> ColumnsOf(RunbookBody),
     sets |-> {"software_id", "name", "slug", "description", "auto_trigger"},
     merges |-> {"trigger_conditions"}]
RunbookTable == [updated |-> ColumnsOf(RunbookBody), touched |-> {}]

\* Reordering touches the position alone.
RunbookStepRoutes == Editable \union {"touch"}
RunbookStepBody ==
    [required |-> {"step_order", "name", "step_type", "on_failure"},
     scalars |-> {"description", "max_retries"},
     documents |-> {"config", "skill_id", "timeout_seconds"}]
RunbookStepService ==
    [posted |-> ColumnsOf(RunbookStepBody), sets |-> ColumnsOf(RunbookStepBody), merges |-> {}]
RunbookStepTable == [updated |-> ColumnsOf(RunbookStepBody), touched |-> {"step_order"}]

----------------------------------------------------------------------------
(***************************************************************************)
(* Incidents and what the agents write about them.  Investigations, root   *)
(* causes and postmortems may be created more than once for an incident,   *)
(* and the latest counts.                                                  *)
(***************************************************************************)
IncidentRoutes == Editable
IncidentBody ==
    [required |-> {}, scalars |-> {},
     documents |-> {"status", "severity", "assignee_id", "root_cause", "mitigation"}]

\* A root cause analysis edits its incident, too: it sets the root cause.
IncidentService ==
    [posted |-> {"title", "description", "severity"},
     sets |-> {},
     merges |-> {"status", "severity", "assignee_id", "root_cause", "mitigation"}]
IncidentTable ==
    [updated |-> {"title", "description"} \union ColumnsOf(IncidentBody), touched |-> {}]

IncidentEventService == Unedited({"type", "actor", "data"})
IncidentEvidenceService == Unedited({"type", "title", "content", "source"})
FeedbackService == Unedited({"target_type", "rating", "correction", "original_data", "corrected_data"})
SimilarIncidentService == Unedited({"similar_incident_id", "similarity_score", "matched_on"})
AppendedRoutes == {"create"}
AppendedTable == Fixed

AgentRunRoutes == {"create", "update"}
AgentRunBody ==
    [required |-> {}, scalars |-> {},
     documents |-> {"status", "output_data", "error_message", "model_used", "tokens_used",
                    "duration_ms"}]
AgentRunService ==
    [posted |-> {"agent_id", "agent_name", "agent_type", "parent_run_id", "input_data", "model_used"},
     sets |-> {},
     merges |-> {"status", "output_data", "error_message", "model_used", "tokens_used",
                 "duration_ms"}]
AgentRunTable == [updated |-> ColumnsOf(AgentRunBody), touched |-> {}]

RciRoutes == {"create", "update", "supersede"}
RciBody ==
    [required |-> {"status"},
     scalars |-> {"investigation_summary", "detection_method"},
     documents |-> {"agent_run_id", "impact_assessment", "affected_services", "evidence_ids",
                    "affected_users_estimate", "detection_time", "acknowledgment_time",
                    "time_to_detect_seconds"}]
RciService ==
    [posted |-> ColumnsOf(RciBody),
     sets |-> {"status", "investigation_summary", "affected_users_estimate", "detection_method",
               "detection_time", "acknowledgment_time", "time_to_detect_seconds"},
     merges |-> {"impact_assessment", "affected_services", "evidence_ids"}]
RciTable == [updated |-> ColumnsOf(RciBody) \ {"agent_run_id"}, touched |-> {}]

RcaRoutes == {"create", "update", "supersede"}
RcaBody ==
    [required |-> {"root_cause_summary", "status"},
     scalars |-> {"root_cause_category", "confidence"},
     documents |-> {"rci_id", "agent_run_id", "contributing_factors", "five_whys", "evidence_ids"}]
RcaService ==
    [posted |-> ColumnsOf(RcaBody),
     sets |-> {"status", "root_cause_summary", "root_cause_category", "confidence"},
     merges |-> {"contributing_factors", "five_whys", "evidence_ids"}]
RcaTable == [updated |-> ColumnsOf(RcaBody) \ {"rci_id", "agent_run_id"}, touched |-> {}]

PostmortemRoutes == {"create", "update", "supersede"}
PostmortemBody ==
    [required |-> {"status"},
     scalars |-> {"title", "executive_summary", "incident_timeline_narrative", "root_cause_detail",
                  "impact_detail"},
     documents |-> {"rca_id", "agent_run_id", "lessons_learned", "action_items", "what_went_well",
                    "what_went_wrong", "prevention_measures"}]
PostmortemService ==
    [posted |-> ColumnsOf(PostmortemBody),
     sets |-> {"status", "title", "executive_summary", "incident_timeline_narrative",
               "root_cause_detail", "impact_detail"},
     merges |-> {"lessons_learned", "action_items", "what_went_well", "what_went_wrong",
                 "prevention_measures"}]
PostmortemTable ==
    [updated |-> ColumnsOf(PostmortemBody) \ {"rca_id", "agent_run_id"}, touched |-> {}]

----------------------------------------------------------------------------
(***************************************************************************)
(* Users, roles, sign-on providers, keys.  Deleting a user is an edit that *)
(* says the account is not active.                                         *)
(***************************************************************************)
UserRoutes == {"create", "update", "touch"}
UserBody == [required |-> {}, scalars |-> {"is_active"}, documents |-> {"name", "email"}]
UserService ==
    [posted |-> {"name", "email", "password_hash"}, sets |-> {"is_active"}, merges |-> {"name", "email"}]
UserTable == [updated |-> ColumnsOf(UserBody), touched |-> {"last_login_at"}]

\* Roles of the system are not edited, others are.
RoleRoutes == Editable
RoleBody == [required |-> {"name", "slug"}, scalars |-> {"description"}, documents |-> {"permission_ids"}]
RoleService ==
    [posted |-> ColumnsOf(RoleBody), sets |-> {"name", "slug", "description"}, merges |-> {}]
RoleTable == [updated |-> {"name", "slug", "description"}, touched |-> {}]

SignOnRoutes == Editable
SignOnBody ==
    [required |-> {"name", "provider_type", "client_id", "client_secret", "authorization_url", "token_url"},
     scalars |-> {"issuer_url", "userinfo_url", "scopes", "auto_provision_users"},
     documents |-> {"default_role_id"}]
SignOnService ==
    [posted |-> ColumnsOf(SignOnBody),
     sets |-> {"name", "provider_type", "client_id", "issuer_url", "authorization_url", "token_url",
               "userinfo_url", "scopes", "auto_provision_users", "default_role_id"},
     merges |-> {"client_secret"}]
SignOnTable == [updated |-> ColumnsOf(SignOnBody), touched |-> {}]

\* A key is revoked, not deleted.
KeyRoutes == {"create", "touch"}
KeyService == Unedited({"name", "role_id", "scopes", "expires_at"})
KeyTable == [updated |-> {}, touched |-> {"last_used_at", "is_active"}]
============================================================================
