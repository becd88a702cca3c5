-------------------------- MODULE RunbookExecution --------------------------
(***************************************************************************)
(* One execution of a runbook.  Its row holds a status and the results of  *)
(* all steps; the RunbookExecutor of the agent-service runs the automated  *)
(* steps, people mark the others complete, cancel or close the execution,  *)
(* and all of them read the row and write it back whole.                   *)
(*                                                                         *)
(* current_step only counts completions and is read by nobody: left out.   *)
(***************************************************************************)
EXTENDS Naturals, Sequences

CONSTANTS
    Runbooks,       \* the runbooks considered: sequences of step types
    Passes,         \* automation passes: one for each delivery of the event
    People,         \* concurrent requests of people
    MaxMarks        \* bound: requests people make

StepTypes == {"manual", "automated", "approval", "notification", "condition"}

ASSUME RunbookAssumption == Runbooks \subseteq Seq(StepTypes) /\ MaxMarks \in Nat

VARIABLES
    steps,          \* the types of the runbook's steps
    starter,        \* where ExecuteRunbook is
    execution,      \* the row of runbook_executions
    started,        \* runbook.execution.started: deliveries the worker may still take
    pass,           \* the passes: what each does next and the execution it holds
    person,         \* the requests of people, likewise
    marks,          \* requests of people so far
    runs,           \* history: how often each automated step was dispatched
    runFault,       \* history: a call failed or the event was delivered again
    reworked        \* history: a finished step was reopened, or a changed row overwritten

runbookVars == <<steps, starter, execution, started, pass, person, marks, runs, runFault, reworked>>

StepStatuses == {"pending", "pending_action", "pending_approval", "running", "completed", "failed"}
EndStatuses == {"completed", "failed", "canceled"}
Finished == {"completed", "failed"}
NeedsPerson(type) == type \in {"manual", "approval"}

ExecutionRow == [status : {"pending", "running"} \union EndStatuses,
                 results : Seq(StepStatuses), closed : BOOLEAN]
NewExecution == [status |-> "pending", results |-> <<>>, closed |-> FALSE]
IdlePass == [pc |-> "idle", held |-> NewExecution, step |-> 0, outcome |-> "completed", round |-> 0]
IdlePerson == [pc |-> "idle", held |-> NewExecution, step |-> 0, status |-> "running"]

RunbookInit ==
    /\ steps \in Runbooks
    /\ starter = "idle"
    /\ execution = NewExecution
    /\ started = 0
    /\ pass = [p \in Passes |-> IdlePass]
    /\ person = [h \in People |-> IdlePerson]
    /\ marks = 0
    /\ runs = [i \in DOMAIN steps |-> 0]
    /\ runFault = FALSE
    /\ reworked = FALSE

----------------------------------------------------------------------------
\* The status a step gets when it is its turn.
TurnStatus(type) ==
    CASE type = "manual"   -> "pending_action"
      [] type = "approval" -> "pending_approval"
      [] OTHER             -> "running"

\* Every step that needs a person waits for one from the start, not only the first.
InitialResults ==
    [i \in DOMAIN steps |->
        IF NeedsPerson(steps[i]) \/ i = 1 THEN TurnStatus(steps[i]) ELSE "pending"]

\* Mutant: the next step keeps the status it has.
AdvancedNot(results, i, outcome) == [results EXCEPT ![i] = outcome]

\* Mutant: the step's own outcome is not stored.
AdvancedNextOnly(results, i, outcome) ==
    [j \in DOMAIN results |-> IF j = i + 1 THEN TurnStatus(steps[j]) ELSE results[j]]

\* CompleteExecutionStep: the step ends, and the next one has its turn, whatever it was.
Advanced(results, i, outcome) ==
    [j \in DOMAIN results |->
        IF j = i THEN outcome
        ELSE IF j = i + 1 THEN TurnStatus(steps[j])
        ELSE results[j]]

AllDone(results) == \A i \in DOMAIN results : results[i] \in Finished

\* The row CompleteExecutionStep writes.  completed_at is taken from a second
\* read (RunbookExecutionService.Update), the rest from the first.
CompletedStep(held, i, outcome) ==
    LET results == Advanced(held.results, i, outcome) IN
    [status |-> IF AllDone(results) THEN "completed" ELSE "running",
     results |-> results,
     closed |-> execution.closed \/ AllDone(results)]

Stores(held, row) ==
    /\ execution' = row
    /\ reworked' = \/ reworked
                   \/ held # execution
                   \/ \E i \in DOMAIN execution.results :
                         execution.results[i] \in Finished /\ row.results[i] \notin Finished

----------------------------------------------------------------------------
(***************************************************************************)
(* POST /runbooks/:id/execute: insert, fill in the steps, publish.         *)
(***************************************************************************)
ExecuteInserts ==
    /\ starter = "idle"
    /\ starter' = "inserted"
    /\ UNCHANGED <<steps, execution, started, pass, person, marks, runs, runFault, reworked>>

ExecuteFills ==
    /\ starter = "inserted"
    /\ starter' = "filled"
    /\ execution' = [execution EXCEPT !.status = "running", !.results = InitialResults]
    /\ UNCHANGED <<steps, started, pass, person, marks, runs, runFault, reworked>>

ExecutePublishes ==
    /\ starter = "filled"
    /\ starter' = "done"
    /\ started' = started + 1
    /\ UNCHANGED <<steps, execution, pass, person, marks, runs, runFault, reworked>>

\* A failed insert leaves nothing, a failed update a pending execution; a failed
\* publish is ignored and leaves an execution nobody runs.
ExecuteFails ==
    /\ starter \in {"inserted", "filled"}
    /\ starter' = "done"
    /\ runFault' = TRUE
    /\ UNCHANGED <<steps, execution, started, pass, person, marks, runs, reworked>>

----------------------------------------------------------------------------
(***************************************************************************)
(* RunbookExecutor.run_automated_steps                                     *)
(***************************************************************************)
\* Mutant: an event is taken that is not there.
PassTakesAnyEvent(p) ==
    /\ pass[p].pc = "idle"
    /\ starter = "done"
    /\ started' = started - 1
    /\ pass' = [pass EXCEPT ![p] = [IdlePass EXCEPT !.pc = "look", !.held = execution]]
    /\ UNCHANGED <<steps, starter, execution, person, marks, runs, runFault, reworked>>

PassTakesEvent(p) ==
    /\ pass[p].pc = "idle"
    /\ started > 0
    /\ started' = started - 1
    /\ pass' = [pass EXCEPT ![p] = [IdlePass EXCEPT !.pc = "look", !.held = execution]]
    /\ UNCHANGED <<steps, starter, execution, person, marks, runs, runFault, reworked>>

\* _find_ready_step: the first step that is running, 0 if there is none.
ReadyStep(results) ==
    LET ready == {i \in DOMAIN results : results[i] = "running"} IN
    IF ready = {} THEN 0 ELSE CHOOSE i \in ready : \A j \in ready : i <= j

\* The loop's conditions: not completed, a step that is ready and needs no
\* person, and at most one round more than there are steps.
GoesOn(p) ==
    LET i == ReadyStep(pass[p].held.results) IN
    /\ pass[p].held.status # "completed"
    /\ pass[p].round <= Len(steps)
    /\ i # 0 /\ ~NeedsPerson(steps[i])

PassDispatches(p) ==
    LET i == ReadyStep(pass[p].held.results) IN
    /\ pass[p].pc = "look"
    /\ GoesOn(p)
    /\ \E outcome \in IF steps[i] = "automated" THEN Finished ELSE {"completed"} :
          pass' = [pass EXCEPT ![p].pc = "read", ![p].step = i, ![p].outcome = outcome]
    /\ runs' = [runs EXCEPT ![i] = @ + 1]
    /\ UNCHANGED <<steps, starter, execution, started, person, marks, runFault, reworked>>

PassStops(p) ==
    /\ pass[p].pc = "look"
    /\ ~GoesOn(p)
    /\ pass' = [pass EXCEPT ![p] = IdlePass]
    /\ UNCHANGED <<steps, starter, execution, started, person, marks, runs, runFault, reworked>>

PassReads(p) ==
    /\ pass[p].pc = "read"
    /\ pass' = [pass EXCEPT ![p].pc = "write", ![p].held = execution]
    /\ UNCHANGED <<steps, starter, execution, started, person, marks, runs, runFault, reworked>>

PassWrites(p) ==
    LET row == CompletedStep(pass[p].held, pass[p].step, pass[p].outcome) IN
    /\ pass[p].pc = "write"
    /\ Stores(pass[p].held, row)
    /\ pass' = [pass EXCEPT ![p].pc = "look", ![p].held = row, ![p].round = @ + 1]
    /\ UNCHANGED <<steps, starter, started, person, marks, runs, runFault>>

\* A call fails; the handler logs it and returns, so the event is acked.
PassFails(p) ==
    /\ pass[p].pc # "idle"
    /\ pass' = [pass EXCEPT ![p] = IdlePass]
    /\ runFault' = TRUE
    /\ UNCHANGED <<steps, starter, execution, started, person, marks, runs, reworked>>

\* The process dies with the event unacked, or another worker claims it from a slow pass.
PassRedelivered(p) ==
    /\ pass[p].pc # "idle"
    /\ ~runFault
    /\ started' = started + 1
    /\ runFault' = TRUE
    /\ \/ pass' = [pass EXCEPT ![p] = IdlePass]
       \/ UNCHANGED pass
    /\ UNCHANGED <<steps, starter, execution, person, marks, runs, reworked>>

----------------------------------------------------------------------------
(***************************************************************************)
(* People: Mark Complete, and PUT /runbook-executions/:execId.             *)
(***************************************************************************)
\* The page offers Mark Complete on any step that waits for a person.
MarkReads(h, i) ==
    /\ person[h].pc = "idle"
    /\ marks < MaxMarks
    /\ marks' = marks + 1
    /\ i \in DOMAIN execution.results
    /\ NeedsPerson(steps[i])
    /\ person' = [person EXCEPT ![h] = [pc |-> "mark", held |-> execution, step |-> i,
                                        status |-> "running"]]
    /\ UNCHANGED <<steps, starter, execution, started, pass, runs, runFault, reworked>>

MarkWrites(h) ==
    /\ person[h].pc = "mark"
    /\ Stores(person[h].held, CompletedStep(person[h].held, person[h].step, "completed"))
    /\ person' = [person EXCEPT ![h] = IdlePerson]
    /\ UNCHANGED <<steps, starter, started, pass, marks, runs, runFault>>

\* UpdateRunbookExecution with a status that ends the execution.
CloseReads(h, status) ==
    /\ person[h].pc = "idle"
    /\ marks < MaxMarks
    /\ marks' = marks + 1
    /\ execution.status # "pending"
    /\ person' = [person EXCEPT ![h] = [pc |-> "close", held |-> execution, step |-> 0,
                                        status |-> status]]
    /\ UNCHANGED <<steps, starter, execution, started, pass, runs, runFault, reworked>>

CloseWrites(h) ==
    LET held == person[h].held IN
    /\ person[h].pc = "close"
    /\ Stores(held, [held EXCEPT !.status = person[h].status, !.closed = TRUE])
    /\ person' = [person EXCEPT ![h] = IdlePerson]
    /\ UNCHANGED <<steps, starter, started, pass, marks, runs, runFault>>

----------------------------------------------------------------------------
ExecuteGoesOn == ExecuteFills \/ ExecutePublishes \/ ExecuteFails

PassStep(p) == PassTakesEvent(p) \/ PassDispatches(p) \/ PassStops(p) \/ PassReads(p) \/ PassWrites(p)

RunbookNext ==
    \/ ExecuteInserts
    \/ ExecuteGoesOn
    \/ \E p \in Passes : PassStep(p) \/ PassFails(p) \/ PassRedelivered(p)
    \/ \E h \in People :
         \/ \E i \in DOMAIN steps : MarkReads(h, i)
         \/ MarkWrites(h)
         \/ \E status \in EndStatuses : CloseReads(h, status)
         \/ CloseWrites(h)

\* A request that began goes on, and the worker takes its events.
RunbookFairness == WF_runbookVars(ExecuteGoesOn) /\ \A p \in Passes : WF_runbookVars(PassStep(p))

RunbookSpec == RunbookInit /\ [][RunbookNext]_runbookVars /\ RunbookFairness

----------------------------------------------------------------------------
RunbookTypeOK ==
    /\ steps \in Seq(StepTypes)
    /\ starter \in {"idle", "inserted", "filled", "done"}
    /\ execution \in ExecutionRow
    /\ started \in Nat
    /\ pass \in [Passes -> [pc : {"idle", "look", "read", "write"}, held : ExecutionRow,
                            step : Nat, outcome : Finished, round : Nat]]
    /\ person \in [People -> [pc : {"idle", "mark", "close"}, held : ExecutionRow,
                              step : Nat, status : {"running"} \union EndStatuses]]
    /\ marks \in 0 .. MaxMarks
    /\ runs \in [DOMAIN steps -> Nat]
    /\ runFault \in BOOLEAN
    /\ reworked \in BOOLEAN

(***************************************************************************)
(* An agent is dispatched a second time for the same step only if the      *)
(* event was delivered again, or somebody reopened the step: by completing *)
(* the one before it again, or by writing a row that had changed meanwhile *)
(* (executor.py 91-119 against CompleteExecutionStep).                     *)
(***************************************************************************)
StepsRunOnce == \A i \in DOMAIN steps : runs[i] > 1 => runFault \/ reworked

(***************************************************************************)
(* An execution without steps for people is completed by the executor      *)
(* alone, however its steps end, unless a call fails or people meddle: the *)
(* bound on the loop's rounds (executor.py 91) is never what stops it.     *)
(***************************************************************************)
Unattended == steps # <<>> /\ \A i \in DOMAIN steps : ~NeedsPerson(steps[i])

UnattendedCompletes ==
    (Unattended /\ starter # "idle") ~>
        (execution.status = "completed" \/ runFault \/ reworked \/ marks > 0)
============================================================================
