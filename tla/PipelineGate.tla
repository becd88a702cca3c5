---------------------------- MODULE PipelineGate ----------------------------
(***************************************************************************)
(* From "an operator resolves the incident" to "there is a postmortem":    *)
(* concurrent PATCHes of one incident on the Go backend, the               *)
(* incident.resolved event, the AlertWorker's handler with the org's       *)
(* human-in-the-loop gate, the operators' approvals, and the pub/sub       *)
(* ResumeListener that picks an approved run up again.                     *)
(*                                                                         *)
(* Source: backend/internal/services/incident_service.go and               *)
(* handlers/{incident,pipeline_gate}_handlers.go, agent-service/app/       *)
(* workers/alert_worker.py, orchestrator/orchestrator.py and               *)
(* orchestrator/resume_listener.py.  The stream is as in AlertWorker.tla,  *)
(* seen through its promise: an event is handled, perhaps more than once.  *)
(***************************************************************************)
EXTENDS Integers

CONSTANTS
    Patches,         \* PATCH /incidents/:id requests
    MaxRedeliveries  \* bound: times the stream hands an event out again

ASSUME RedeliveriesAssumption == MaxRedeliveries \in Nat

VARIABLES
    \* --- PostgreSQL ---
    row,         \* the columns of the incident that a PATCH reads and rewrites
    awaiting,    \* awaiting_approval_stage is set
    gate,        \* the organization's pipeline_hitl_gate_enabled
    ungated,     \* postmortems stored by the incident.resolved handler
    resumed,     \* postmortems stored by the resume listener
    run,         \* the postmortem agent run the handler opened last
    \* --- backend requests ---
    patch,       \* where each PATCH stands
    draft,       \* the row it is going to write
    fires,       \* justTerminalized
    publishing,  \* approvals committed whose event is not out yet
    \* --- agent-service process ---
    handler,     \* AlertWorker, at _handle_incident_resolved
    listener,    \* ResumeListener task
    queued,      \* incident.resolved events the stream has for the worker
    inbox,       \* pipeline.stage_approved messages on the listener's socket
    \* --- history ---
    fired,       \* incident.resolved events published
    redelivered, \* events handed out again
    marks,       \* times the incident was marked as awaiting approval
    granted,     \* approvals given
    overlap,     \* two PATCHes have been between their read and their write
    faulty       \* something failed: a call, a process, an event gone stale

dbVars      == <<row, awaiting, gate, ungated, resumed, run>>
patchVars   == <<patch, draft, fires, overlap>>
agentVars   == <<handler, listener, queued, inbox>>
countVars   == <<fired, redelivered, marks, granted>>
vars == <<dbVars, patchVars, publishing, agentVars, countVars, faulty>>

\* status: terminal ("resolved" or "closed") or not; resolved: resolved_at is set.
Rows == [terminal : BOOLEAN, resolved : BOOLEAN]

\* What a PATCH asks of status: a terminal one, any other one, or nothing.
Requests == {"terminal", "reopen", "other"}

Handling  == {"begin", "gate", "mark", "skip", "context", "dispatch", "persist", "finish", "ack"}
Resuming  == {"context", "dispatch", "persist"}

TypeOK ==
    /\ row \in Rows
    /\ awaiting \in BOOLEAN /\ gate \in BOOLEAN
    /\ ungated \in Nat /\ resumed \in Nat
    /\ run \in {"none", "open", "skipped", "completed"}
    /\ patch \in [Patches -> {"new", "read", "publish", "done"}]
    /\ draft \in [Patches -> Rows]
    /\ fires \in [Patches -> BOOLEAN]
    /\ publishing \in Nat
    /\ handler \in Handling \union {"down", "idle"}
    /\ listener \in Resuming \union {"down", "starting", "listening", "dead"}
    /\ queued \in Nat /\ inbox \in Nat
    /\ fired \in Nat /\ marks \in Nat /\ granted \in Nat
    /\ redelivered \in 0..MaxRedeliveries
    /\ overlap \in BOOLEAN /\ faulty \in BOOLEAN

Init ==
    /\ row = [terminal |-> FALSE, resolved |-> FALSE]
    /\ awaiting = FALSE
    /\ gate \in BOOLEAN
    /\ ungated = 0 /\ resumed = 0
    /\ run = "none"
    /\ patch = [p \in Patches |-> "new"]
    /\ draft = [p \in Patches |-> row]
    /\ fires = [p \in Patches |-> FALSE]
    /\ publishing = 0
    /\ handler = "down" /\ listener = "down"
    /\ queued = 0 /\ inbox = 0
    /\ fired = 0 /\ redelivered = 0 /\ marks = 0 /\ granted = 0
    /\ overlap = FALSE /\ faulty = FALSE

----------------------------------------------------------------------------
(* PATCH /incidents/:id: IncidentService.Update reads the whole row, edits *)
(* it in memory and writes every column back; nothing locks it between.    *)

\* Mutant: wasAlreadyTerminal is not looked at.
JustTerminalizedAlways(k) == k = "terminal"

\* justTerminalized: this request asks for a terminal status of an incident
\* whose resolved_at it saw unset.
JustTerminalized(k) == k = "terminal" /\ ~row.resolved

Edited(k) ==
    [terminal |-> IF k = "other" THEN row.terminal ELSE k = "terminal",
     resolved |-> row.resolved \/ JustTerminalized(k)]

PatchReads(p) ==
    /\ patch[p] = "new"
    /\ \E k \in Requests :
         /\ draft' = [draft EXCEPT ![p] = Edited(k)]
         /\ fires' = [fires EXCEPT ![p] = JustTerminalized(k)]
    /\ patch' = [patch EXCEPT ![p] = "read"]
    /\ overlap' = (overlap \/ \E q \in Patches : patch[q] = "read")
    /\ UNCHANGED <<dbVars, publishing, agentVars, countVars, faulty>>

\* The UPDATE; awaiting_approval_stage is not among its columns.
PatchWrites(p) ==
    /\ patch[p] = "read"
    /\ row' = draft[p]
    /\ patch' = [patch EXCEPT ![p] = IF fires[p] THEN "publish" ELSE "done"]
    /\ UNCHANGED <<awaiting, gate, ungated, resumed, run, draft, fires, overlap,
                   publishing, agentVars, countVars, faulty>>

\* The UPDATE fails, perhaps after it was executed: no event is published.
PatchFails(p) ==
    /\ patch[p] = "read"
    /\ row' \in {row, draft[p]}
    /\ patch' = [patch EXCEPT ![p] = "done"]
    /\ faulty' = TRUE
    /\ UNCHANGED <<awaiting, gate, ungated, resumed, run, draft, fires, overlap,
                   publishing, agentVars, countVars>>

\* incident.resolved goes to the stream.
PatchPublishes(p) ==
    /\ patch[p] = "publish"
    /\ patch' = [patch EXCEPT ![p] = "done"]
    /\ fired' = fired + 1
    /\ queued' = queued + 1
    /\ UNCHANGED <<dbVars, draft, fires, overlap, publishing, handler, listener, inbox,
                   redelivered, marks, granted, faulty>>

\* The XADD fails (the error is discarded), or the backend dies before it.
PatchPublishFails(p) ==
    /\ patch[p] = "publish"
    /\ patch' = [patch EXCEPT ![p] = "done"]
    /\ faulty' = TRUE
    /\ UNCHANGED <<dbVars, draft, fires, overlap, publishing, agentVars, countVars>>

----------------------------------------------------------------------------
(* The organization's setting, and the operators who approve.              *)

SetGate(b) ==
    /\ gate' = b
    /\ UNCHANGED <<row, awaiting, ungated, resumed, run, patchVars, publishing,
                   agentVars, countVars, faulty>>

\* Mutant: approves whatever state the incident is in.
ApproveUnconditionally ==
    /\ marks > 0
    /\ granted < 3
    /\ awaiting' = FALSE
    /\ granted' = granted + 1
    /\ publishing' = publishing + 1
    /\ UNCHANGED <<row, gate, ungated, resumed, run, patchVars, agentVars, fired,
                   redelivered, marks, faulty>>

\* POST /incidents/:id/approve-stage: one statement under FOR UPDATE clears
\* the stage.  An incident that awaits nothing is a 409, which changes nothing.
Approve ==
    /\ awaiting
    /\ awaiting' = FALSE
    /\ granted' = granted + 1
    /\ publishing' = publishing + 1
    /\ UNCHANGED <<row, gate, ungated, resumed, run, patchVars, agentVars, fired,
                   redelivered, marks, faulty>>

Subscribed == listener \in Resuming \union {"listening"}

\* PUBLISH reaches whoever is subscribed at that moment.
ApprovalPublishes ==
    /\ publishing > 0 /\ Subscribed
    /\ publishing' = publishing - 1
    /\ inbox' = inbox + 1
    /\ UNCHANGED <<dbVars, patchVars, handler, listener, queued, countVars, faulty>>

\* Nobody is subscribed, PUBLISH fails (logged), or the backend dies before it.
ApprovalGoesUnheard ==
    /\ publishing > 0
    /\ publishing' = publishing - 1
    /\ faulty' = TRUE
    /\ UNCHANGED <<dbVars, patchVars, agentVars, countVars>>

----------------------------------------------------------------------------
(* The agent-service process.                                              *)

ProcessStarts ==
    /\ handler = "down"
    /\ handler' = "idle"
    /\ listener' = "starting"
    /\ UNCHANGED <<dbVars, patchVars, publishing, queued, inbox, countVars, faulty>>

\* The event in hand was pending: the next process claims it back, or it stays
\* an orphan (AlertWorker.tla says when).  What pub/sub had delivered is gone.
HandOutAgain ==
    \/ /\ redelivered < MaxRedeliveries
       /\ redelivered' = redelivered + 1
       /\ queued' = queued + 1
    \/ UNCHANGED <<redelivered, queued>>

ProcessDies ==
    /\ handler # "down"
    /\ IF handler = "idle" THEN UNCHANGED <<redelivered, queued>> ELSE HandOutAgain
    /\ handler' = "down"
    /\ listener' = "down"
    /\ inbox' = 0
    /\ faulty' = TRUE
    /\ UNCHANGED <<dbVars, patchVars, publishing, fired, marks, granted>>

----------------------------------------------------------------------------
(* AlertWorker._handle_incident_resolved.                                  *)

\* What the steps of the handler leave alone.
HandlerOnly == UNCHANGED <<row, gate, resumed, patchVars, publishing, listener, inbox,
                           fired, granted>>

\* Mutant: takes an event although the stream has none.
EventTakenTwice ==
    /\ handler = "idle" /\ fired > 0
    /\ queued' = queued - 1
    /\ handler' = "begin"
    /\ HandlerOnly
    /\ UNCHANGED <<awaiting, ungated, run, redelivered, marks, faulty>>

\* Mutant: the event stays on the stream.
EventTakenKeeps ==
    /\ handler = "idle" /\ queued > 0
    /\ handler' = "begin"
    /\ HandlerOnly
    /\ UNCHANGED <<awaiting, ungated, run, queued, redelivered, marks, faulty>>

EventTaken ==
    /\ handler = "idle" /\ queued > 0
    /\ queued' = queued - 1
    /\ handler' = "begin"
    /\ HandlerOnly
    /\ UNCHANGED <<awaiting, ungated, run, redelivered, marks, faulty>>

\* The event waited longer than stale_event_threshold_seconds: skipped, acked.
StaleEventSkipped ==
    /\ handler = "begin"
    /\ handler' = "ack"
    /\ faulty' = TRUE
    /\ HandlerOnly
    /\ UNCHANGED <<awaiting, ungated, run, queued, redelivered, marks>>

\* get_incident, then create_agent_run.
RunCreated ==
    /\ handler = "begin"
    /\ run' = "open"
    /\ handler' = "gate"
    /\ HandlerOnly
    /\ UNCHANGED <<awaiting, ungated, queued, redelivered, marks, faulty>>

\* Any call that raises ends the handler: the exception is counted and logged,
\* the event acked.  A create_agent_run that raises may have been executed, and
\* so may the closing update of the run.
HandlerRaises ==
    /\ handler \in {"begin", "skip", "context", "dispatch", "finish"}
    /\ run' \in CASE handler = "begin"  -> {run, "open"}
                  [] handler = "skip"   -> {run, "skipped"}
                  [] handler = "finish" -> {run, "completed"}
                  [] OTHER              -> {run}
    /\ handler' = "ack"
    /\ faulty' = TRUE
    /\ HandlerOnly
    /\ UNCHANGED <<awaiting, ungated, queued, redelivered, marks>>

\* _maybe_gate_postmortem reads the org's setting, once.
GateChecked ==
    /\ handler = "gate"
    /\ handler' = IF gate THEN "mark" ELSE "context"
    /\ HandlerOnly
    /\ UNCHANGED <<awaiting, ungated, run, queued, redelivered, marks, faulty>>

\* It cannot be read: the gate fails open.
GateFailsOpen ==
    /\ handler = "gate"
    /\ handler' = "context"
    /\ faulty' = TRUE
    /\ HandlerOnly
    /\ UNCHANGED <<awaiting, ungated, run, queued, redelivered, marks>>

\* Mutant: the run is paused without telling the backend.
MarkedNot ==
    /\ handler = "mark"
    /\ handler' = "skip"
    /\ HandlerOnly
    /\ UNCHANGED <<awaiting, ungated, run, queued, redelivered, marks, faulty>>

Marked ==
    /\ handler = "mark"
    /\ awaiting' = TRUE
    /\ marks' = marks + 1
    /\ handler' = "skip"
    /\ HandlerOnly
    /\ UNCHANGED <<ungated, run, queued, redelivered, faulty>>

\* mark_awaiting_approval raises, executed or not; the run is "paused" anyway.
MarkRaises ==
    /\ handler = "mark"
    /\ \/ awaiting' = TRUE /\ marks' = marks + 1
       \/ UNCHANGED <<awaiting, marks>>
    /\ handler' = "skip"
    /\ faulty' = TRUE
    /\ HandlerOnly
    /\ UNCHANGED <<ungated, run, queued, redelivered>>

\* Mutant: a paused run returns before its agent run is closed.
RunSkippedNot ==
    /\ handler = "skip"
    /\ handler' = "ack"
    /\ HandlerOnly
    /\ UNCHANGED <<awaiting, ungated, run, queued, redelivered, marks, faulty>>

RunSkipped ==
    /\ handler = "skip"
    /\ run' = "skipped"
    /\ handler' = "ack"
    /\ HandlerOnly
    /\ UNCHANGED <<awaiting, ungated, queued, redelivered, marks, faulty>>

ContextBuilt ==
    /\ handler = "context"
    /\ handler' = "dispatch"
    /\ HandlerOnly
    /\ UNCHANGED <<awaiting, ungated, run, queued, redelivered, marks, faulty>>

AgentAnswers ==
    /\ handler = "dispatch"
    /\ handler' = "persist"
    /\ HandlerOnly
    /\ UNCHANGED <<awaiting, ungated, run, queued, redelivered, marks, faulty>>

\* create_postmortem is an INSERT: there is no key that one incident could hit
\* twice.  Its failure, executed or not, is swallowed by _persist_results, which
\* also has nothing to store when the agent answered with an error.
Persisted ==
    /\ handler = "persist"
    /\ ungated' = ungated + 1
    /\ faulty' = TRUE \/ UNCHANGED faulty
    /\ handler' = "finish"
    /\ HandlerOnly
    /\ UNCHANGED <<awaiting, run, queued, redelivered, marks>>

PersistFails ==
    /\ handler = "persist"
    /\ faulty' = TRUE
    /\ handler' = "finish"
    /\ HandlerOnly
    /\ UNCHANGED <<awaiting, ungated, run, queued, redelivered, marks>>

RunCompleted ==
    /\ handler = "finish"
    /\ run' = "completed"
    /\ handler' = "ack"
    /\ HandlerOnly
    /\ UNCHANGED <<awaiting, ungated, queued, redelivered, marks, faulty>>

EventAcked ==
    /\ handler = "ack"
    /\ handler' = "idle"
    /\ HandlerOnly
    /\ UNCHANGED <<awaiting, ungated, run, queued, redelivered, marks, faulty>>

\* The XACK raises: the retry loop runs the handler again.
AckRaises ==
    /\ handler = "ack"
    /\ HandOutAgain
    /\ handler' = "idle"
    /\ faulty' = TRUE
    /\ HandlerOnly
    /\ UNCHANGED <<awaiting, ungated, run, marks>>

----------------------------------------------------------------------------
(* ResumeListener: run_postmortem_only does not look at the gate again.    *)

ListenerOnly == UNCHANGED <<row, awaiting, gate, ungated, run, patchVars, publishing,
                            handler, queued, countVars>>

ListenerSubscribes ==
    /\ listener = "starting"
    /\ listener' = "listening"
    /\ ListenerOnly /\ UNCHANGED <<resumed, inbox, faulty>>

\* PSUBSCRIBE raises outside the loop's try: the task ends, the process goes on.
SubscribeRaises ==
    /\ listener = "starting"
    /\ listener' = "dead"
    /\ faulty' = TRUE
    /\ ListenerOnly /\ UNCHANGED <<resumed, inbox>>

ApprovalTaken ==
    /\ listener = "listening" /\ inbox > 0
    /\ inbox' = inbox - 1
    /\ listener' = "context"
    /\ ListenerOnly /\ UNCHANGED <<resumed, faulty>>

\* The connection drops: get_message raises and is retried on a new one, and
\* what was published in between or had not been read is gone.
InboxLost ==
    /\ listener = "listening" /\ inbox > 0
    /\ inbox' = inbox - 1
    /\ faulty' = TRUE
    /\ ListenerOnly /\ UNCHANGED <<resumed, listener>>

\* Mutant: the agent's answer is dropped.
ResumeDropsAnswer ==
    /\ listener \in {"context", "dispatch"}
    /\ listener' = IF listener = "context" THEN "dispatch" ELSE "listening"
    /\ ListenerOnly /\ UNCHANGED <<resumed, inbox, faulty>>

ResumeProceeds ==
    /\ listener \in {"context", "dispatch"}
    /\ listener' = IF listener = "context" THEN "dispatch" ELSE "persist"
    /\ ListenerOnly /\ UNCHANGED <<resumed, inbox, faulty>>

\* get_incident or the agent call raises: logged, and the approval is spent.
ResumeRaises ==
    /\ listener \in {"context", "dispatch"}
    /\ listener' = "listening"
    /\ faulty' = TRUE
    /\ ListenerOnly /\ UNCHANGED <<resumed, inbox>>

ResumePersists ==
    /\ listener = "persist"
    /\ resumed' = resumed + 1
    /\ faulty' = TRUE \/ UNCHANGED faulty
    /\ listener' = "listening"
    /\ ListenerOnly /\ UNCHANGED inbox

ResumePersistFails ==
    /\ listener = "persist"
    /\ faulty' = TRUE
    /\ listener' = "listening"
    /\ ListenerOnly /\ UNCHANGED <<resumed, inbox>>

----------------------------------------------------------------------------
Patch(p) ==
    PatchReads(p) \/ PatchWrites(p) \/ PatchFails(p) \/ PatchPublishes(p) \/ PatchPublishFails(p)

Approval == ApprovalPublishes \/ ApprovalGoesUnheard

Handle ==
    \/ EventTaken \/ StaleEventSkipped \/ RunCreated \/ HandlerRaises
    \/ GateChecked \/ GateFailsOpen \/ Marked \/ MarkRaises \/ RunSkipped
    \/ ContextBuilt \/ AgentAnswers \/ Persisted \/ PersistFails \/ RunCompleted
    \/ EventAcked \/ AckRaises

Listen ==
    \/ ListenerSubscribes \/ SubscribeRaises \/ ApprovalTaken \/ InboxLost
    \/ ResumeProceeds \/ ResumeRaises \/ ResumePersists \/ ResumePersistFails

Next ==
    \/ \E p \in Patches : Patch(p)
    \/ \E b \in BOOLEAN : SetGate(b)
    \/ Approve
    \/ Approval
    \/ ProcessStarts \/ ProcessDies
    \/ Handle
    \/ Listen

Spec == Init /\ [][Next]_vars

\* A backend handler that began runs to its end or dies trying; the container
\* runtime restarts a process that is down; asyncio runs both tasks, each await
\* of which is bounded by an HTTP or Redis timeout.  Nobody has to send a
\* PATCH, to approve, or to leave the gate alone.
Fairness ==
    /\ \A p \in Patches : WF_vars(patch[p] # "new" /\ Patch(p))
    /\ WF_vars(Approval)
    /\ WF_vars(ProcessStarts)
    /\ WF_vars(Handle)
    /\ WF_vars(Listen)

FairSpec == Spec /\ Fairness

----------------------------------------------------------------------------
(* Properties.                                                             *)

One(b) == IF b THEN 1 ELSE 0

\* Work in progress that may still become a pause or a postmortem.
InHand    == One(handler \in {"begin", "gate", "mark", "context", "dispatch", "persist"})
Resumable == publishing + inbox + One(listener \in Resuming)

\* Each postmortem is owed to one incident.resolved that was fired or handed
\* out again - be it stored directly or after a pause, and however many
\* operators click "approve" at once: an approval uses a pause up, and a pause
\* that is still standing has not produced anything yet.
PostmortemsHaveCauses ==
    ungated + resumed + One(awaiting) <= fired + redelivered

\* ... and the approvals add up: no pause is approved twice, and no approval is
\* resumed twice, whoever is down or comes late.
ApprovalsUsePausesUp ==
    /\ granted + One(awaiting) <= marks
    /\ resumed + Resumable <= granted

\* incident_service.go: an incident that goes resolved -> closed, or is reopened
\* and resolved again, fires incident.resolved once - unless two PATCHes
\* overlapped between their read and their write.
OnlyOverlapFiresTwice == ~overlap => fired <= 1

\* The handler leaves no agent run open, on any of its paths, unless a call
\* failed: in particular not on the early return of a paused run.
RunsAreClosed == handler = "idle" /\ run = "open" => faulty

\* When nothing fails, every incident.resolved ends in a postmortem or a pause ...
EveryResolveIsAnswered ==
    fired > ungated + marks ~> faulty \/ fired = ungated + marks

\* ... and every approval in a postmortem: the listener is never stuck, and no
\* approval is overtaken or merged with another.
EveryApprovalIsResumed ==
    granted > resumed ~> faulty \/ granted = resumed

\* What incident_handlers.go:107 says of incident.resolved: "only once per
\* incident".  Two overlapping PATCHes break it.
FiresOnlyOnce == fired <= 1

\* What resume_listener.py:16-19 says: if the listener is down when an operator
\* clicks "approve", the incident stays in awaiting_approval_stage=postmortem
\* until the operator retries.  ApproveStage clears the stage before it
\* publishes, so there is nothing left to retry.
UnheardApprovalKeepsWaiting ==
    [][ApprovalGoesUnheard /\ listener = "down" => awaiting']_vars

============================================================================
