# RootCauseWay in TLA+

This directory holds TLA+ models of the parts of RootCauseWay in which several
processes, goroutines or coroutines meet, the TLC configurations that check
small instances of them, and TLAPS proofs for every instance. All paths below
are relative to the repository; `PROJECT.json` maps each definition to the lines
it models.

RootCauseWay turns alerts into incidents, lets a pipeline of LLM agents
investigate them, and produces root-cause analyses and postmortems. A Go backend
(two replicas in the helm chart) owns PostgreSQL and serves browsers; a Python
agent-service (one replica) runs the pipeline; small A2A agents do the LLM work;
Redis carries events, both as a durable stream and as pub/sub.

## 1. Inventory

| component | state it keeps | operations | hard behaviours | what makes it correct |
|---|---|---|---|---|
| **Event stream and AlertWorker** (`agent-service/app/workers/alert_worker.py`, `backend/internal/database/stream_publisher.go`) | Redis stream, consumer group (cursor, pending list), dead-letter stream; batch and retry count in the worker | publish, read, handle, retry, ack, dead-letter, claim on startup | crashes between any two steps, replies lost after execution, acks that raise, claims from live workers, trimming | an event is settled only with a reason; nothing but a fault lets go of one; a settled event stays settled; no event blocks the group |
| **Postmortem gate** (`incident_service.go`, `pipeline_gate_handlers.go`, `orchestrator.py`, `resume_listener.py`) | incident row, `awaiting_approval_stage`, the org's gate flag, postmortems, agent runs; pub/sub messages in flight | PATCH, fire `incident.resolved`, check gate, pause, approve, resume, persist | lost updates between PATCHes, approvals racing redelivery, publish after commit, a listener that is down | every postmortem has its own event, every approval its own pause and at most one postmortem, runs are closed |
| **WebSocket hub** (`backend/internal/ws`, `handlers/ws_handler.go`) | client registry, three hub channels, one send channel per client | register, unregister, broadcast, fan out, drop a slow client, both pumps | goroutines blocked on each other, channels closed under a sender | nobody sends on a closed channel, dead connections are forgotten, one client cannot stop the others |
| **A2A client** (`services/resilience.py`, `a2a/client.py`) | breaker per endpoint: state, consecutive failures, opening time | check, attempt, back off, record | calls that outlive the breaker state they began in | state and count agree, an open breaker sheds load, recovery is noticed |
| **War rooms** (`warroom_service.go`, `agent-service/app/warroom`) | a row per meeting: scheduled/active/ended/summarized, transcript, attendance, summary | create, poll attendance, end, summarize, attach | reads that turn into whole-row writes after slow Teams calls; the consumer acks on exceptions | what a meeting has come to is not undone; an ended meeting is summarized |
| **Runbook executions** (`features_handlers.go`, `runbooks/executor.py`) | one row: status and the results of all steps | start, automated pass, Mark Complete, cancel, close | executor, redelivered event and people on one row, each from its own read | a step is dispatched once; an execution nobody has to attend ends |
| **Ingestion and correlation** (`ingestion_service.go`, `correlation/engine.py`, `webhooks/normalizer.go`) | incidents, snapshots, quarantine, `alert.received` events | normalise, match, quarantine, store, publish, correlate by fingerprint, service and cascade | three steps without a transaction; lookups that see half of what others did | every incident is investigated or correlated, and correlations end at an investigated incident |
| **Credentials and JIT leases** (`skills_service.go`, `credentials/`) | provider, resource credential, leases (access policies have no effect, see section 5) | edit, lease, revoke | times are fixed before a provider that may be slow makes the secret; rows edited or deleted meanwhile | every secret answered has its lease, and its holder is told no end that is too late |
| **Teams connection** (`teams_oauth_service.go`, `pipeline_gate_repository.go`) | six columns of the organization row | PATCH of settings, connect, rotate, disconnect | Microsoft rotates the refresh token under edits of the same row | rotation and disconnect lose nothing |
| **Interactive notifications** (`notification_interaction_service.go`) | incident status, audit rows | press of a chat button, delivered and redelivered | the action runs before the row that makes redeliveries visible | audit rows follow what presses did |
| **Rate limiter** (`middleware/rate_limiter.go`) | a token bucket per client | allow, clean up | unsynchronised use of one bucket | no client exceeds its budget |
| **Retention** (`retention_service.go`, `retention_repository.go`) | policies, snapshots, the rows themselves | policy edits, sweep, DELETE of an incident | rows listed first and deleted one by one; policies edited and incidents reopened in between; foreign keys | open incidents stay, no row goes without its snapshot or another reason |
| **SLOs** (`slo_service.go`, `slo_repository.go`) | definitions; the status is computed | status | incidents that overlap, last, or are reopened | the status says how much of the window the service was down |
| **Knowledge base** (`features_service.go`, `features_repositories.go`) | entries and their embeddings | create, update, promote, cite, search | text and embedding written apart, an HTTP call between them | a search finds what entries say |
| **Tables of the API** (`repositories.go`, `features_repositories.go`, `*_service.go`, `models`) | 34 tables: software, sources, skills, agents, incidents, users, roles, ... | create, update, delete, statements of one column | read, edit in memory, write every column back | a column holds what the last request about it asked for |
| **Incident pipeline** (`orchestrator/orchestrator.py`), **reflection loops** (`loop/`), **notifications and evidence**, **sign-on, audit, encryption**, **export**, **A2A agents**, **Teams Graph client**, **marketplace** (`marketplace_service.go`), **CLI and frontend** | none that two actors share | LLM and HTTP calls, formatting, checks of one request | none of interest here, see section 7 | |

How they interact. The backend XADDs every event to the stream and PUBLISHes it
as well (`publishDual`). The AlertWorker reads the stream as the consumer group
`agent-service`, the war-room consumer as a group of its own; the RedisBridge of
every backend replica and the ResumeListener hear the pub/sub copies. The worker
calls the orchestrator, which calls agents through the A2A client and stores
results through the backend's internal REST API. All long-lived parts of the
agent-service are asyncio tasks of one process (`main.py`, lifespan), which
dies and restarts as a whole.

## 2. Modules

| module | models | extends |
|---|---|---|
| `EventDelivery` | the abstract promise of the durable stream: events are accepted, attempted, closed | |
| `AlertWorker` | stream, group and workers; instantiates `EventDelivery` with a refinement mapping | |
| `AlertWorkerProofs` | types, what becomes of each entry, and that AlertWorker implements EventDelivery | `AlertWorker` |
| `PipelineGate` | from PATCH to postmortem, with gate, approval and resume; the stream is seen through EventDelivery's promise | |
| `PipelineGateProofs` | the gate's invariants | `PipelineGate` |
| `WsHub`, `WsHubProofs` | the WebSocket hub, its invariants | |
| `CircuitBreaker`, `CircuitBreakerProofs` | the breaker and its callers, its invariants | |
| `WarRoom`, `WarRoomProofs` | the meetings of one incident; what undoes a meeting, and that no end is forgotten | |
| `RunbookExecution` | one execution of a runbook | |
| `Ingestion` | from an alert to a triaged incident | |
| `Retention` | policies, sweeps and the delete of an incident | |
| `TeamsConnection` | the organization row's settings and refresh token | |
| `KnowledgeBase` | entries, embeddings, search | |
| `Credentials` | leases of a credential and the secrets handed out under them | |
| `NotificationInteraction` | presses of chat buttons and their audit rows | |
| `RateLimiter` | one client's bucket | |
| `Slo` | an objective's status against the true downtime | |
| `CatalogueTables`, `Catalogue` | the columns of 34 tables; what overlapping edits make of a row | `Catalogue` extends the other |
| `MCWorkers` | instance: `WarRoom`, `RunbookExecution`, `Ingestion` | these |
| `MCRecords` | instance: `Retention`, `KnowledgeBase`, `Credentials`, `TeamsConnection`, `NotificationInteraction`, `RateLimiter`, `Slo`, `Catalogue` | these |
| `WorkersProofs` | executions, ingestion, and `MCWorkers` as the sum of its parts | `WarRoomProofs`, `MCWorkers` |
| `RowsProofs` | retention, the Teams connection, the knowledge base, the tables, objectives | the modules of these |
| `RecordsProofs` | leases, buttons, the rate limiter, and `MCRecords` as the sum of its parts | `RowsProofs`, `MCRecords` |
| the other `MC*` | the instances TLC checks | the module named |

`MCWorkers` and `MCRecords` put components side by side that share no state. Their variable
`part` says which of them moves in a behaviour, while the others stay in an initial state: the state
space is the sum of the parts', not the product. The next-state relation of such an instance is one action to
TLC's statistics; that every action of every part is taken was checked with each part's own
specification (`WarRoomSpec`, `RetentionSpec`, ...) on the same bounds.

The components that read a row, think, and write it back share one way of being modelled. A
request is a program counter and the row it has seen, `...Reads` takes the row, `...Writes`
writes what the code writes (all columns, a group, one column), and a history variable
(`trampled`, `reworked`, `overlapped`, `interleaved`, `outdated`, `crossed`, `raced`) records that a row was written
back over a later write. Properties then say "this goes wrong only if", naming the one overlap they blame:
what fails beside it would be a violation.

Operators named in a comment beginning with "Mutant:" are deliberate mistakes.
No specification uses them: each shows that one property notices the mistake.

### AlertWorker

State and code: `owner` and `idle` are Redis' pending entries list, `cursor`
its last-delivered id, `first` the trimming; `mode`, `scan`, `batch`, `step`, `cur`,
`attempt` are the program counter and locals of `start`, `_claim_stale_messages`,
`_consume_once` and `_process_entry`. One action is the code between two awaits
that can fail or at which the process can die. Every Redis command that raises
either was executed (the reply got lost) or was not: `AutoClaimRaises`,
`ReadReplyLost`, `AckRaises`, `FinalAckRaises`. `AckRaises` and `FinalAckRaises` differ
because the first XACK is inside the retry loop's `try` and the second is
not. A handler returns or raises; stale events and swallowed pipeline
failures count as returned, as they do for the transport. `fate` is a history
variable: how attempts at each event ended.

`BecomeIdle` can strike any pending entry, so XAUTOCLAIM also takes entries from
live workers. Sweeps page through the list (`COUNT`, continuation id) and stop at
an empty reply, as the code does. Redis 7 deletes trimmed entries from the
pending list while claiming; the branch in the code for older servers is thereby
dead and left out. A group recreated by an operator, or a Redis that loses
data, is not modelled.

### PipelineGate

One incident. `row` is what `IncidentService.Update` reads, edits in memory and
writes back whole, with any other request in between; the gate's column is not
among those it writes. `handler` and `listener` stand for the two
asyncio tasks, between awaits. The stream hands an event out again at most
`MaxRedeliveries` times, when the process dies or an ack raises; pub/sub delivers to
whoever is subscribed at that moment. `faulty` records that some call failed, so
that properties can say "unless something failed". `overlap` records that two
PATCHes were between read and write. Knowledge extraction and the chat
notification after a postmortem (both swallowed on failure) are left out.

### WsHub

One backend replica: `Hub.Run`, the bridge, per client its HTTP handler, ReadPump and
WritePump. Channels are counters. An unbuffered send and its receive are
one step (`Register`, `Unregister`), the sender waits in a state of its own until
then. `Drop` is the one send that has no receiver: Run() sends to
`unregister` from inside its own loop (`hub.go:110`). After it `hub = "drop"` for ever
(`Stuck`), which is a finding; the properties that must hold say "unless stuck", and
the run `broadcast_returns` shows the state is reached.

### CircuitBreaker

One endpoint. Time is a flag: the cooldown has elapsed or not. `check` happens once per
call and the retries after it do not look again; `call` and `attempt` follow each
caller through `retry_async`. The failure count is capped at `MaxFailures`, at or above
the threshold, where it no longer makes a difference. `late` counts the attempts a caller
has started since the breaker last opened.

### WarRoom

`meetings` is the table, oldest first; `GET /incidents/:id/warroom` polls Teams for the latest and turns
`scheduled` into `active` (`PollReads`, `PollMarksActive`), `POST .../end` fetches transcript and
attendance and writes `ended` (`EndReads`, `EndWrites`). Both write the whole row they have read, however
long Teams took. What Teams answers to `end` replaces the transcript and the attendance that were
stored, also with an empty list. `warEvents` is what the stream has still to hand to the consumer, which summarizes with a
transcript or an attendance list and attaches the result by a read and a write of its own. An exception in the
consumer drops the event (`ConsumerRaises`); a restart gives it back (`ConsumerRestarts`), as its group
claims what it had pending.

### RunbookExecution

`execution` is the row: its status and a result for each step. `ExecuteRunbook` inserts, fills and publishes in
three calls. A pass of the executor looks for the next step, dispatches it, reads the row again and writes it, up to a bound on its
rounds that the code states; `PassRedelivered` is the event's second delivery. People
mark steps complete or close the execution from reads of their own. `reworked` says that a finished step was
reopened or a changed row overwritten.

### Ingestion

A sender is one POST: `IngestAlert` normalises, matches the software (label or service, by slug or tag, else the webhook's) and stores the incident or
quarantines the alert; `StoresSnapshot` and `PublishesAlert` follow. `correlator` is the worker: it
looks for an open incident of the same fingerprint, then of the same service, then of a service this one
depends on or that depends on it (`CheckSameService`, `CheckCascade`), each with a query of its own,
and otherwise runs the pipeline, one step here. `Chain` is the set of incidents met by following correlations: the least
one that is closed under following, which is how the proofs can use it without recursion.

### Retention

`sweep` follows `RunSweep`: enabled policies, expired rows of each, then record by record the snapshot and
the DELETE. Days pass, incidents are resolved and reopened, policies are edited, rows that point at an
incident turn up (`dependents`) between any two of its steps. `ClearedTables` are those
`PgIncidentRepository.Delete` clears before it deletes; the sweep clears none. `WithDependents` are the evidence and the runs that go with
their incident. `removed` and `discarding` are the reasons other than a snapshot for which a row may be gone: a
DELETE by somebody, and a policy that deletes without archiving.

### TeamsConnection

A column is a number, refresh tokens are numbered as Microsoft issues them. A PATCH rewrites the LLM group
and the Teams group separately and each as a whole (`WritesGroup`); the OAuth callback the Teams group; a
rotation one column and a disconnect two (`WritesColumns`). `meant` is the row as the requests meant it.

### KnowledgeBase, Credentials, NotificationInteraction, RateLimiter, Slo

* `KnowledgeBase`: an entry's `content` is an error pattern, which it need not have, and a summary; its `embedding`
  is the content it was made of. The semantic search looks at all of that, `SearchBySubstring` at the error
  pattern of the row alone. `KbSearch` is the set of the answers a search may give, since one whose query cannot be
  embedded falls back to substrings. `outdated` records that an embedding was stored last that is not of what
  the row says.
* `Credentials`: one lease goes through `LeaseIsTimed` (time to live and time of issue are fixed), `LeaseResolves` (the provider
  makes the secret, in its own time), `LeaseIsTold` (`credentialEnvelope` and the cap by the token), `LeaseIsStored`, which the
  incident's or the credential's absence refuses, and `LeaseIsAnswered`, with edits, revocations and the deletion of
  the incident in between. `handedOut` keeps every secret that was answered, with what its holder was told.
* `NotificationInteraction`: a press is delivered up to `MaxDeliveries` times, concurrently too; `audit` holds the
  statuses of its rows, of which the unique key admits one for a press with a token of its own.
* `RateLimiter`: `LoadBucket`, `ReadBucket`, `RefillBucket`, `FindsToken`, `TakesToken` are the accesses of
  `allow()` to a bucket nothing guards. Tokens are whole, and Go's behaviour under the race is that of some
  interleaving of these accesses.
* `Slo`: `Downtime` and `SloStatus` are the code's arithmetic, the sum over incidents being the number of pairs of an
  incident and a minute it covers (`Overlap`); `downMinutes` records, minute by minute, whether
  anything was open, and is the reference.

### Catalogue and CatalogueTables

`CatalogueTables` says for each table which columns a request must or may carry, which of them the service takes
over (always, or only if they are there), and which the UPDATE names. `Catalogue` is one row of any of
them under overlapping requests: `intended` is the row the requests answered so far ask for. What the code
disregards regardless of any overlap is listed, table by table, in `Disregarded`.

## 3. Runs

| run | instance | shows |
|---|---|---|
| `alert_worker_safety` | 2 workers, 2 events of any kind, stream bound 1, 1 retry, 1 crash, reads of 2, claims of 1 | types; `SettledIsAccountedFor`; `OnlyFaultsOrphan`; `DuplicatesComeFromReclaims`; `ImplementsDelivery` |
| `alert_worker_liveness` | 1 worker, 2 events, 2 retries, 2 crashes | `EventuallySettledOrOrphaned` |
| `at_least_once` | 1 worker, 3 events | a violation: a lost reply strands its entries (finding) |
| `pipeline_gate` | 2 PATCHes, 2 redeliveries | types; `PostmortemsHaveCauses`; `ApprovalsUsePausesUp`; `OnlyOverlapFiresTwice`; `RunsAreClosed`; `EveryResolveIsAnswered`; `EveryApprovalIsResumed` |
| `fires_only_once` | 2 PATCHes | a violation: two PATCHes fire `incident.resolved` (finding) |
| `unheard_approval` | 2 PATCHes | a violation: an approval nobody hears is gone (finding) |
| `ws_hub` | 2 clients, queue of 2, send buffers of 2 | types; `NoSendOnClosed`; `RegistryFollowsReaders`; `ClosedConnectionsAreForgotten`; `BridgeIsNotHeldUp` |
| `broadcast_returns` | 2 clients, queue of 1, buffers of 2 | a violation: one slow client stops the hub (finding) |
| `circuit_breaker` | 3 callers, threshold 3, 3 attempts | types; `ClosedBelowThreshold`; `OpenEndpointIsLeftAlone`; `RecoveryIsFoundOut` |
| `workers` | 2 requests on 1 meeting that may be ended twice; runbooks of up to 3 steps, 2 passes, 1 request of a person; 2 services, one depending on the other, 2 senders, 2 kinds of alert, 2 incidents | types; `OnlyStaleWritesUndo`, `EndedIsSummarized` (WarRoom); `StepsRunOnce`, `UnattendedCompletes` (RunbookExecution); `CorrelatedIsInvestigated`, `IncidentsAreTriaged` (Ingestion) |
| `records` | one row of each kind, its requests and jobs | types; `OpenIncidentsAreKept`, `SweptAreArchived` (Retention); `SearchFollowsText` (KnowledgeBase); `SecretsHaveLeases` (Credentials); `NarrowWritesLoseNothing` (TeamsConnection); `AuditFollowsPresses` (NotificationInteraction); `BudgetHolds` (RateLimiter); `StatusFollowsAvailability` (Slo); `ColumnsFollowBodies` (Catalogue) |
| `sweep_is_blocked` | the same with fewer policy edits | a violation: foreign keys refuse the sweep's delete (finding) |

Bounds and why they are enough. Two workers give every claim from a live or dead
peer. Two events with reads of two make a batch of more than one, claims of one make a
sweep of more than one page, a stream bound of one makes trimming bite. One retry gives
both the retry and the exhaustion. One crash in the safety run suffices to hand
entries over, and the proof covers any number. A second overlapping PATCH is what a
lost update needs, and a second redelivery what a duplicate of a duplicate needs. Two clients show
that one disturbs the other; buffers of two distinguish full, partly full and
empty, so does a threshold of three. In `workers`, two requests on one meeting are the reader and the writer a stale write
takes; the four runbooks are the empty one, one for a person, one without, and one of each with
something on both sides; two incidents are what a correlation is between, and two that cross. In `records` each
row has the two parties whose overlap its property is about: a sweep and the requests around it, two
writers of an entry, two requests for leases and an edit, a deletion or a clock that moves between their steps, a PATCH, a callback and a
Graph client, two deliveries, two requests and the cleanup, two outages, two editors, and a third
request to come after them. A token's life of 1, times to live of 1 (asked, default or cap) and 2 (the fallback)
and a clock that moves once put the end of the token before, at and after that of the lease. Where the properties are proved (section 4) the bound does not matter anyway.

Deadlock. The alert worker stops when every task is dead or every event is settled and the
bounds on events and crashes are reached; the hub and everything around it can be blocked for ever
by its own send (`Stuck`). In `workers`, `records` and `sweep_is_blocked` a behaviour ends when all requests are
answered and the bounds on new ones reached. These runs switch the deadlock check off. The gate's and the breaker's
runs leave it on: somebody can always go on.

Symmetry is used in `alert_worker_safety` (the workers) and in `records` and `sweep_is_blocked` (the requests for
leases, which nothing tells apart): these check invariants and action properties, and no liveness.

### Fairness

* AlertWorker: a started worker goes on, since every await of the loop has a timeout
  (BLOCK 1000, HTTP timeouts, bounded back-off); the container runtime restarts a
  process that is down (`restart: unless-stopped`). Nothing makes a failing call
  succeed at last: faults may repeat for ever and the property must survive them.
* PipelineGate: a request that began goes on, the process restarts, the
  handler and the listener task are scheduled. No fairness of PATCH, approval or the
  gate's setting, which are up to people.
* WsHub: weak fairness for each goroutine that is ready; strong fairness for the two
  unbuffered hub channels, because `select` in Go picks among ready channels at
  random and cannot pass one by for ever. A write ends within `writeWait`; a
  read on a closed connection fails. Nobody has to connect, send, publish or hang up.
* CircuitBreaker: calls in flight end (every request has a timeout), time
  passes. `RecoveryIsFoundOut` states its own premise: that somebody keeps calling, and
  that the endpoint stays up from some moment on.
* WarRoom, RunbookExecution, Ingestion: a request that began goes on (each of its calls has a timeout, and an
  error is a step too), and the consumer, the passes of the executor and the correlator, which run in loops of
  one task each, take their next step. Nobody has to poll, end a meeting, mark a step or send an alert.
* The components of `records` promise nothing that must happen at last; they state no fairness.

## 4. Proofs

TLAPS proves, for every value of the constants that satisfies the named assumptions
(`BoundsAssumption`, `NoWorkerAssumption`, `RedeliveriesAssumption`, `CapAssumption`,
`NoClientAssumption`, `BreakerAssumption`, `WarRoomAssumption`, `RunbookAssumption`,
`IngestionAssumption`, `RetentionAssumption`, `TeamsAssumption`, `KnowledgeBaseAssumption`,
`MaxRequestsAssumption`, `SloAssumption`, `CredentialsAssumption`, `InteractionAssumption`,
`RateLimiterAssumption`: counts are naturals, capacities, thresholds and
periods positive, "nobody" is not somebody, runbooks are sequences of step types, evidence and runs
belong to an incident and are not incidents, targets lie between 1 and 100, what marks a deleted row
is no row, the deliveries under way and the outages of a service are finitely many, and a bucket is
full again by the time the cleanup calls it stale: in the code a bucket fills in a minute and is
stale after ten):

* **AlertWorker** `TypeCorrect`. TypeOK is not inductive: an ack acts on `cur`, which must be an
  entry while the worker is in the middle of one, and a back-off only comes with a retry left.
  `HoldInv` says so.
* `EverySettledEntryIsAccountedFor`. `EvidenceInv` adds that whatever a worker holds or the group
  has pending was delivered (is not past `cursor`), and that a worker about to send an XACK has its
  reason already, whoever else has claimed or acked the entry. The conjunction `IInv` with TypeOK,
  HoldInv and the property itself is inductive.
* `OnlyFaultsLoseHold` (the action property `OnlyFaultsOrphan`). Each other step changes the batch
  of one worker only, drops from it at most what is no longer pending at that worker, and puts into
  it all that Redis hands over: `HandOver` says that this makes no orphan, one step per action says
  that it is so.
* `NewMessagesAreFresh` (`DuplicatesComeFromReclaims`). `FreshInv`: what a polling worker has in its
  batch and still owns is in nobody else's batch and has had no attempt end but the one under way,
  and no attempt at an entry past the cursor has ended. It holds because a worker claims only before
  it polls, and loses the entry to whoever claims it.
* `WorkersImplementDelivery`. Through the mapping (an entry is closed when it is past the cursor and
  no longer pending), Redis commands that take entries off the list map to `Close`, the ends of
  attempts to `Attempt`, XADD to `Accept`, the rest stutters. It rests on `IInv`: `Close` demands
  the reason.
* **PipelineGate** `GateTypeCorrect`, `NoPostmortemWithoutCause`, `NoApprovalWithoutPause`,
  `SecondFireNeedsOverlap`, `NoRunLeftOpen`, `NoWorkIsLost`. A postmortem is bounded by events only through the
  whole chain event, handler, pause, approval, message, listener, so `EventsInv` and
  `ApprovalsUsePausesUp` count at each link what is on its way; the theorem is their sum.
  `OverlapInv` says that without an overlap at most one PATCH is between read and write, so what it
  saw is still so; `RunInv` names the steps at which a run may be open. For `NoWorkIsLost` the
  inequalities of the counts become equations as long as nothing fails (`NothingIsLost`), given that
  the agent-service's workers stop together (`DownTogether`).
* **WsHub** `HubTypeCorrect`, `RegistryIsExact`, `NoSendPanics`. The fan-out owes an event only to
  registered clients (`FanOutInv`), the registered are exactly those whose reader has not left, and
  only their channels are open: so nobody sends on a closed one.
* **CircuitBreaker** `BreakerTypeCorrect`, `StateFollowsCount`, `OpenBreakerShedsLoad`. No call
  begins while the breaker is open, so a caller's attempts since then are fewer than all its
  attempts (`LateInv`), which a call that sleeps has not used up (`CallInv`).
* **WarRoom** `WarRoomTypeCorrect`, `UndoingNeedsStaleWrite`, `EndsAreInHand`. `WarRoomInv` adds to the types that
  requests, events and the consumer name rows of the table, which only grows, and that a poll holds
  a row that was scheduled when it was read. So a poll that meets the row as it read it activates a
  scheduled meeting, `AttachWrites` only adds to the row it read, and `EndWrites` keeps its summary and does not make it
  active: undoing takes a row that has changed since. Transcript and attendance are another matter,
  as `EndWrites` replaces them; the theorem says that nothing else loses them. `NoEndIsForgotten`: while nothing failed or trampled,
  an ended meeting without a summary is with the request that ended it, in an event or with the
  consumer, and each hands it on before it lets go (`HeldStep`).
* **RunbookExecution** `RunbookTypeCorrect`, `NoStepRunsTwice`, `NoExecutionIsLeft`. `RunInv` speaks of behaviours in
  which nothing has gone wrong yet: the one delivery is taken by one pass (`OneDelivery`), and a
  step that was dispatched is finished in the row or is the one that pass is about to write
  (`RunIsRecorded`). A pass that looks for the next step holds a row older than the table's, but no
  older than its own last write, so it takes no finished step for a running one. `AdvanceInv`: in an
  execution nobody disturbs, after n rounds the first n steps have ended, the next is running and
  the others are pending. Hence the executor's bound of one round more than there are steps is never
  what stops it, and it leaves the execution when it is completed and not before.
* **Retention** `RetentionTypeCorrect`, `OpenIncidentsAreNotSwept`, `SweptHaveSnapshots`.
  `SweepHolds`, for each sweep: the incidents in its hands are terminal or were reopened after it
  looked, and at its delete under an archiving policy the record has a snapshot. `ReasonInv`: a sweep that is to
  delete without archiving has read a policy that said so, for rows of its kind. The sweep keeps what
  it has read, so `discarding` has to remember policies that have been edited since. Every row that is gone
  then has one of the reasons the property names, of which the cascade of an incident is one.
* **TeamsConnection** `NarrowWritesAreSafe`. The property is inductive by itself:
  `ColumnsKeepMeaning` is the argument for writes of single columns, `GroupsKeepMeaning` for those
  of a whole group, and each action is one of the two or leaves the row alone. `TeamsInv` adds, for
  the types, that whoever is under way has a body and, once it has read, a row.
* **Ingestion** `AlertsAreLookedInto`, `IncidentsAreInHand`. While nothing failed and nothing overlapped (`CalmInv`), one
  incident at most is between the POST and its fate, and one sender, event or worker holds it
  (`OneAtATime`). So whatever the worker's lookups find has its fate already, and the incident it
  correlates is on nobody's chain: `ChainFollows` and `EndsStay` say that an added link leads where
  the link's target leads, and that ends reached before are still reached (`EndsWell`). Fingerprint,
  service and cascade are one lemma (`CorrelateKeeps`), the cascade through a service that depends
  on itself is the exception the property names. `NoIncidentIsForgotten` needs no such calm: however
  many alerts overlap, an incident without a fate is with its request, in an event or with the
  worker, unless a call failed.
* **KnowledgeBase** `WrittenIsFound`. `EmbeddingInv`: as long as no embedding failed and none was stored last that is not of
  what the row says, an entry's embedding is of its content or a request is about to make it so
  (`Refreshes`). With no request about to embed anything, both searches look at what the row says, one at
  all of it and one at its pattern. A promotion has no entry until its insert.
* **Credentials** `SecretsAreAccountedFor`. `RequestFits`: what a request is about to tell keeps to the token and, counted from
  now, to the time to live; what it is about to answer has its row, unless the incident is gone. `Lasting`
  says that time goes on and that the rows keep their times while the incident is there, whatever is
  edited or revoked, which is all the secrets already answered need.
* **NotificationInteraction** `AuditAccountsForPresses`. For each press, deliveries are counted
  three times over: those under way, those that have yet to act and those that acted with success,
  against the rows there are (`CountsInv`, by cardinalities). The unique key makes of a press with a
  token something else: one row, and, if it has been delivered once, a row that tells whether it
  acted (`TokenInv`). `OwnMoves`, `OwnEnds` and `OthersKeep` say what a step of a delivery does to
  these counts.
* **RateLimiter** `ClientsKeepToTheirBudget`. `CalmInv`: what has been spent, what is left and what
  has flowed back since the last refill never exceed the burst. It survives the cleanup since a
  stale bucket is full (`Burst <= StaleAfter * Refill`), and it fails, visibly, once a request is
  inside `allow()` beside another.
* **Slo** `ObjectivesAreJudgedRight`. Recorded times are those of the outages unless one was
  reopened (`RecordedInv`), and one minute is one outage's unless two overlapped (`ApartInv`).
  `DowntimeIsTrue` then maps pairs of an outage and a minute one to one to the minutes of the
  reference; `BudgetArithmetic` does the code's percentages in integers.
* **Catalogue** `RequestsReachTheirRows`. `EditsCarry`, a lemma with a case for each of the 34
  tables, compares what requests carry, services take over and UPDATEs name; it excepts
  the columns of `Disregarded` only. `FollowInv` lifts it to any number of overlapping requests.
  Leaving another column out of what a service takes over or an UPDATE names makes its case fail.
* **The instances.** `WorkersAreTheirParts`, `RecordsAreTheirParts`: `MCWorkers` and `MCRecords`
  imply the specification of each component in them, as each of their steps is a step of one and
  leaves the others' variables alone. So each of the theorems above holds of what TLC runs, and
  `WorkersTypeCorrect` and `RecordsTypeCorrect` are the conjunctions of the components' types.

Every invariant and every action property a passing run checks has its theorem. Only model-checked
are the liveness properties, as TLAPS does not prove liveness under fairness, nor reason about
ENABLED: `EventuallySettledOrOrphaned`, `EveryResolveIsAnswered`, `EveryApprovalIsResumed`,
`ClosedConnectionsAreForgotten`, `BridgeIsNotHeldUp`, `RecoveryIsFoundOut`, `EndedIsSummarized`,
`UnattendedCompletes` and `IncidentsAreTriaged`. Of the gate's two and the last three, the safety
half is proved (`NoWorkIsLost`, `EndsAreInHand`, `NoExecutionIsLeft`, `IncidentsAreInHand`): as long
as something is outstanding, somebody has it in hand. What is left to TLC is that, under the fairness
stated, whoever has it goes on. Where a theorem excludes cases ("unless two
overlapped"), the cases are states the component does reach, and history variables of its model
record them; the proofs say nothing about what happens in these.

## 5. Disagreements found

Shown by a run:

1. `contracts/events/redis-events.yaml:5` promises at-least-once. An XREADGROUP reply lost on
   the way leaves entries pending at a consumer that only reads new ones and claims on startup only.
2. `incident_handlers.go:107` ("only once per incident"): two overlapping PATCHes both fire.
3. `resume_listener.py:16-19`: the incident does not stay in `awaiting_approval_stage` when the
   listener is down; the stage is cleared before the event is published.
4. `hub.go:117`: Broadcast does not reach all matching clients once one of them has a
   full buffer; Run() blocks on its own channel.
5. `retention_repository.go:308-313` ("a single DELETE here is sufficient"): the foreign keys of knowledge base
   entries, notifications, leases and runbook executions do not cascade, and refuse the sweep's delete every time.

Met while modelling, visible as an exception a property names or as a branch a model does not have:

* Executions of runbooks: the executor's loop stops only at `completed` (`executor.py:92`), so it goes on after
  an execution was cancelled or failed, against its docstring (49-51).
* Ingestion: no normaliser sets a fingerprint (`models.go:152` has a field for it), so the lookup of repeated alerts by
  fingerprint never finds any and correlation is by service and cascade; resolving a quarantined alert ingests it again with an empty token, which is
  always refused; an Alertmanager group is read by its first alert only; two alerts handled at once may each be
  correlated to the other; the cascade does not pass over the alert's own incident.
* War rooms: a second `POST .../end` replaces transcript and attendance by what Teams answers then, which may be an empty list
  without an error (`client.go:764`, `warroom_service.go:304, 309-310`), and takes a summarized meeting back to ended.
* Retention: evidence and runs that go by cascade with a swept incident have no snapshot, whatever the policies for these
  say; the comment at `retention_repository.go:308-313` takes the cascade for sufficient. A reopened incident keeps its first `resolved_at`; each sweep that is refused a delete archives the row again.
* Knowledge base: nothing calls `increment_kb_references`; entries promoted from corrections have no software and stay invisible
  to searches by software; two writers may leave the embedding of one text beside another. The fallback by substring looks at
  `error_pattern` only (`features_repositories.go:116-118`), an optional column, while embeddings are made of three.
* Access policies: `PgAccessPolicyRepository` names `max_ttl` in every statement but the DELETE (`skills_repositories.go:476, 485, 500,
  522, 544`), migration `004_skills_credentials.up.sql:77` created `max_ttl_seconds`, and no later one adds the other. Policies
  cannot be created, listed or changed, `POST /policies/evaluate` fails, and `RequestLease`, which drops the errors of its lookups
  (`skills_service.go:599, 610`), grants every lease as if there were no policy, against `FEATURES.md:456-461` ("Platform
  validates against access policy").
* Credentials: `skills_service.go:555-557` and `azure_aks_jit_provider.go:171-173` say that a lease never outlives its token; what the
  holder is told is capped, the `expires_at` of the stored lease is not. Nothing calls `ExpireStale`, so leases do not
  become `expired`; `jit_provider.py:115` asks a list for a key, so the agent-service denies every lease.
* Teams: a client that saves a rotated token after a disconnect connects the account again.
* Chat buttons: a late redelivery of "acknowledge" takes a resolved incident back to investigating; a retry that works
  leaves the row of the failure; unknown actions are never recorded.
* Marketplace: an install leaves the new agent's `auth_type` empty (`marketplace_service.go:97-117`) and is refused by the CHECK of
  migration `003_enriched_catalog_a2a.up.sql:29`: none ever succeeds.
* SLOs: minutes in which two incidents were open count twice; a reopened incident counts no longer, though it is open.
* Tables: what overlapping edits and forgetful UPDATE statements lose is listed in `Disregarded` (`Catalogue.tla`),
  with the lines.

## 6. State of the plan

Done: every component in which two actors share state is modelled, run, and the subject of theorems. What could follow: the gate check
inside `handle_incident` (see below) as a second source of pauses in PipelineGate; a composition of AlertWorker with the
war-room consumer, which today sees the stream as a sequence; the safety halves of the hub's and the
breaker's liveness properties, as it is done for the gate and the workers.

## 7. Not modelled, and why

* The orchestrator's stages before the postmortem: one coroutine per event, each stage an LLM call whose failure
  is logged and followed by the next. Their rows are in `Catalogue`, their calls in `CircuitBreaker`, their
  outcome in `AlertWorker` and `Ingestion`. The gate check in `handle_incident` (`orchestrator.py:343-348`)
  is reached only if the LLM selects a postmortem skill against its prompt; the comment there says it does not.
* Reflection loops: sequential, bounded by a constant, no state outlives them.
* Notifications, evidence collection, the Graph client, calls of cloud providers: I/O. Success, failure and delay,
  all that can be seen of them, are choices in the models of those who call them.
* The marketplace: every install ends at its first statement (section 5), so there are no installations whose relation to agents
  could go wrong. Access policies: nothing can write one and nothing reads one with success.
* Sign-on, tokens, the audit log, encryption: checks and conversions of one request.
* Postmortem export, the A2A agents, the CLI and the web frontend: formatting, stateless handlers, clients.
* In modelled components: lists, filters, paging and summaries (reads); `engine.py`'s correlation by time, which the worker does
  not use; `agent.rerun` and other events without a consumer.
