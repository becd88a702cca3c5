----------------------------- MODULE MCWorkers -----------------------------
(***************************************************************************)
(* The instance TLC checks of the components that stand between backend    *)
(* and agent-service: war rooms, runbook executions and ingestion.  They   *)
(* share no state, so a behaviour of all of them is one of each, and the   *)
(* run takes them one at a time: part is the one that moves, the others    *)
(* stay in an initial state, in which no fairness asks anything of them.   *)
(***************************************************************************)
EXTENDS WarRoom, RunbookExecution, Ingestion, TLC

CONSTANTS web, db, none

VARIABLE part

vars == <<part, warRoomVars, runbookVars, ingestionVars>>

MCRunbooks == {<<>>, <<"manual">>, <<"automated", "condition">>, <<"automated", "approval", "automated">>}

\* web depends on db: an alert about web may be correlated to an incident of db.
MCServices == {web, db}
MCSlug == web :> "web" @@ db :> "db"
MCTags == web :> {"shop"} @@ db :> {"sql"}
MCDependsOn == web :> {"db"} @@ db :> {}
MCPayloads == {[source |-> "prometheus_alertmanager", service |-> none, label |-> "sql"],
               [source |-> "datadog", service |-> "unknown", label |-> none]}

WorkersInit ==
    /\ part \in {"warroom", "runbook", "ingestion"}
    /\ WarRoomInit
    /\ RunbookInit /\ (part # "runbook" => steps = <<>>)
    /\ IngestionInit

WorkersNext ==
    /\ UNCHANGED part
    /\ \/ part = "warroom" /\ WarRoomNext /\ UNCHANGED <<runbookVars, ingestionVars>>
       \/ part = "runbook" /\ RunbookNext /\ UNCHANGED <<warRoomVars, ingestionVars>>
       \/ part = "ingestion" /\ IngestionNext /\ UNCHANGED <<warRoomVars, runbookVars>>

WorkersSpec ==
    /\ WorkersInit /\ [][WorkersNext]_vars
    /\ WarRoomFairness /\ RunbookFairness /\ IngestionFairness

WorkersTypeOK == WarRoomTypeOK /\ RunbookTypeOK /\ IngestionTypeOK
============================================================================
