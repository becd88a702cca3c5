--------------------------- MODULE WorkersProofs ---------------------------
(***************************************************************************)
(* Proofs about what MCWorkers puts together: runbook executions and       *)
(* ingestion, the war rooms being the subject of WarRoomProofs, and about  *)
(* the whole.                                                              *)
(***************************************************************************)
EXTENDS WarRoomProofs, MCWorkers, WellFoundedInduction

----------------------------------------------------------------------------
(***************************************************************************)
(* Runbook executions, for runbooks of any length, and any number of       *)
(* passes, people and requests of people: the types, that no step is       *)
(* dispatched twice unless something went wrong on the way, and that no    *)
(* execution is left before its end.                                       *)
(***************************************************************************)
PassState == [pc : {"idle", "look", "read", "write"}, held : ExecutionRow,
              step : Nat, outcome : Finished, round : Nat]
PersonState == [pc : {"idle", "mark", "close"}, held : ExecutionRow,
                step : Nat, status : {"running"} \union EndStatuses]

----------------------------------------------------------------------------
(***************************************************************************)
(* Types                                                                   *)
(***************************************************************************)
\* A sequence of results is a function on 1 .. n.
LEMMA ResultsDomain ==
    ASSUME NEW results \in Seq(StepStatuses)
    PROVE  Len(results) \in Nat /\ DOMAIN results = 1 .. Len(results)
  OBVIOUS

\* The turn of a step gives it one of the statuses.
LEMMA TurnStatusType == ASSUME NEW type PROVE TurnStatus(type) \in StepStatuses \ Finished
  BY DEF TurnStatus, StepStatuses, Finished

\* Completing a step keeps the results' length and type.
LEMMA AdvancedType ==
    ASSUME NEW results \in Seq(StepStatuses), NEW i, NEW outcome \in Finished
    PROVE  /\ Advanced(results, i, outcome) \in Seq(StepStatuses)
           /\ DOMAIN Advanced(results, i, outcome) = DOMAIN results
<1>1. \A j \in DOMAIN results : Advanced(results, i, outcome)[j] \in StepStatuses
  BY TurnStatusType DEF Advanced, Finished, StepStatuses
<1>2. DOMAIN Advanced(results, i, outcome) = DOMAIN results
  BY DEF Advanced
<1>3. Advanced(results, i, outcome) \in [1 .. Len(results) -> StepStatuses]
  BY <1>1, <1>2, ResultsDomain DEF Advanced
<1> QED
  BY <1>2, <1>3, ResultsDomain

\* So do the results a new execution is filled with.
LEMMA InitialType ==
    ASSUME steps \in Seq(StepTypes)
    PROVE  InitialResults \in Seq(StepStatuses) /\ DOMAIN InitialResults = DOMAIN steps
<1>1. Len(steps) \in Nat /\ DOMAIN steps = 1 .. Len(steps)
  OBVIOUS
<1>2. InitialResults \in [1 .. Len(steps) -> StepStatuses]
  BY <1>1, TurnStatusType DEF InitialResults, StepStatuses
<1> QED
  BY <1>1, <1>2 DEF InitialResults

\* CompleteExecutionStep writes a row of the table.
LEMMA CompletedStepType ==
    ASSUME execution \in ExecutionRow, NEW held \in ExecutionRow, NEW i, NEW outcome \in Finished
    PROVE  /\ CompletedStep(held, i, outcome) \in ExecutionRow
           /\ CompletedStep(held, i, outcome).results = Advanced(held.results, i, outcome)
           /\ DOMAIN CompletedStep(held, i, outcome).results = DOMAIN held.results
<1>1. held.results \in Seq(StepStatuses) /\ execution.closed \in BOOLEAN
  BY DEF ExecutionRow
<1>2. (execution.closed \/ AllDone(Advanced(held.results, i, outcome))) \in BOOLEAN
  BY DEF AllDone
<1> QED
  BY <1>1, <1>2, AdvancedType, Zenon DEF CompletedStep, ExecutionRow, EndStatuses

\* Nothing has happened to a new execution, and nobody holds one.
LEMMA IdleTypes == NewExecution \in ExecutionRow /\ IdlePass \in PassState /\ IdlePerson \in PersonState
<1>1. NewExecution \in ExecutionRow
  BY DEF NewExecution, ExecutionRow
<1> QED
  BY <1>1 DEF IdlePass, IdlePerson, PassState, PersonState, Finished

\* The step found ready is one of those held, and running.
LEMMA ReadyStepRuns ==
    ASSUME NEW results \in Seq(StepStatuses), ReadyStep(results) # 0
    PROVE  ReadyStep(results) \in DOMAIN results /\ results[ReadyStep(results)] = "running"
<1> DEFINE ready == {i \in DOMAIN results : results[i] = "running"}
<1>1. ready \subseteq Nat
  BY ResultsDomain
<1>2. ready # {}
  BY DEF ReadyStep
<1>3. IsWellFoundedOn({ss \in Nat \X Nat : ss[1] < ss[2]}, Nat)
  BY NatLessThanWellFounded DEF OpToRel
<1>4. PICK i \in ready : \A j \in ready : ~(<<j, i>> \in {ss \in Nat \X Nat : ss[1] < ss[2]})
  BY <1>1, <1>2, <1>3, WFMin
<1>5. \A j \in ready : i <= j
  <2> SUFFICES ASSUME NEW j \in ready PROVE i <= j
    OBVIOUS
  <2>1. i \in Nat /\ j \in Nat
    BY <1>1, <1>4
  <2>2. ~(j < i)
    BY <1>4, <2>1
  <2> QED
    BY <2>1, <2>2
<1>6. ReadyStep(results) \in ready
  BY <1>2, <1>5 DEF ReadyStep
<1> QED
  BY <1>6

(***************************************************************************)
(* Whatever the executor, its deliveries and people do, the row stays one  *)
(* of runbook_executions, with a result of a known status for each step    *)
(* (ExecuteRunbook, CompleteExecutionStep, UpdateRunbookExecution).        *)
(***************************************************************************)
THEOREM RunbookTypeCorrect == RunbookSpec => []RunbookTypeOK
<1>1. RunbookInit => RunbookTypeOK
  <2> SUFFICES ASSUME RunbookInit PROVE RunbookTypeOK
    OBVIOUS
  <2>1. pass \in [Passes -> PassState] /\ person \in [People -> PersonState]
    BY IdleTypes DEF RunbookInit
  <2>2. execution \in ExecutionRow
    BY IdleTypes DEF RunbookInit
  <2>3. runs \in [DOMAIN steps -> Nat]
    BY DEF RunbookInit
  <2>4. marks \in 0 .. MaxMarks /\ started \in Nat /\ steps \in Seq(StepTypes)
    BY RunbookAssumption DEF RunbookInit
  <2> QED
    BY <2>1, <2>2, <2>3, <2>4 DEF RunbookInit, RunbookTypeOK, PassState, PersonState
<1>2. RunbookTypeOK /\ [RunbookNext]_runbookVars => RunbookTypeOK'
  <2> SUFFICES ASSUME RunbookTypeOK, [RunbookNext]_runbookVars
               PROVE  RunbookTypeOK'
    OBVIOUS
  <2>0. /\ pass \in [Passes -> PassState] /\ person \in [People -> PersonState]
        /\ execution \in ExecutionRow /\ steps \in Seq(StepTypes) /\ started \in Nat
        /\ runs \in [DOMAIN steps -> Nat] /\ reworked \in BOOLEAN
    BY DEF RunbookTypeOK, PassState, PersonState
  <2>1. CASE ExecuteInserts
    BY <2>1 DEF ExecuteInserts, RunbookTypeOK
  <2>2. CASE ExecuteFills
    <3>1. execution' \in ExecutionRow
      BY <2>0, <2>2, InitialType DEF ExecuteFills, ExecutionRow
    <3> QED
      BY <2>2, <3>1 DEF ExecuteFills, RunbookTypeOK
  <2>3. CASE ExecutePublishes
    BY <2>3 DEF ExecutePublishes, RunbookTypeOK
  <2>4. CASE ExecuteFails
    BY <2>4 DEF ExecuteFails, RunbookTypeOK
  <2>5. ASSUME NEW p \in Passes, PassTakesEvent(p) PROVE RunbookTypeOK'
    <3>1. started' \in Nat
      BY <2>0, <2>5 DEF PassTakesEvent
    <3>2. pass' \in [Passes -> PassState]
      BY <2>0, <2>5, IdleTypes DEF PassTakesEvent, PassState
    <3> QED
      BY <2>5, <3>1, <3>2 DEF PassTakesEvent, RunbookTypeOK, PassState
  <2>6. ASSUME NEW p \in Passes, PassDispatches(p) PROVE RunbookTypeOK'
    <3> DEFINE i == ReadyStep(pass[p].held.results)
    <3>1. pass[p].held.results \in Seq(StepStatuses)
      BY <2>0 DEF PassState, ExecutionRow
    <3>2. i \in Nat
      BY <2>6, <3>1, ReadyStepRuns, ResultsDomain DEF PassDispatches, GoesOn
    <3>3. pass' \in [Passes -> PassState]
      <4> HIDE DEF i
      <4>1. PICK outcome \in Finished :
              pass' = [pass EXCEPT ![p].pc = "read", ![p].step = i, ![p].outcome = outcome]
        <5>1. PICK outcome \in IF steps[i] = "automated" THEN Finished ELSE {"completed"} :
                pass' = [pass EXCEPT ![p].pc = "read", ![p].step = i, ![p].outcome = outcome]
          BY <2>6, Zenon DEF PassDispatches, i
        <5>2. outcome \in Finished
          BY <5>1 DEF Finished
        <5> QED
          BY <5>1, <5>2
      <4> QED
        BY <2>0, <3>2, <4>1, ZenonT(60) DEF PassState
    <3>4. runs' \in [DOMAIN steps -> Nat]
      <4>1. runs' = [runs EXCEPT ![i] = @ + 1]
        BY <2>6 DEF PassDispatches
      <4>2. runs \in [DOMAIN steps -> Nat] /\ i \in Nat
        BY <2>0, <3>2
      <4> HIDE DEF i
      <4>3. \A j \in DOMAIN steps : j = i => runs[j] + 1 \in Nat
        BY <4>2
      <4> QED
        BY <4>1, <4>2, <4>3
    <3> QED
      BY <2>6, <3>3, <3>4 DEF PassDispatches, RunbookTypeOK, PassState
  <2>7. ASSUME NEW p \in Passes, PassStops(p) PROVE RunbookTypeOK'
    BY <2>0, <2>7, IdleTypes DEF PassStops, RunbookTypeOK, PassState
  <2>8. ASSUME NEW p \in Passes, PassReads(p) PROVE RunbookTypeOK'
    <3>1. pass' \in [Passes -> PassState]
      BY <2>0, <2>8 DEF PassReads, PassState
    <3> QED
      BY <2>8, <3>1 DEF PassReads, RunbookTypeOK, PassState
  <2>9. ASSUME NEW p \in Passes, PassWrites(p) PROVE RunbookTypeOK'
    <3> DEFINE row == CompletedStep(pass[p].held, pass[p].step, pass[p].outcome)
    <3>1. row \in ExecutionRow
      BY <2>0, CompletedStepType DEF PassState
    <3>2. pass' \in [Passes -> PassState]
      <4> HIDE DEF row
      <4>1. pass' = [pass EXCEPT ![p].pc = "look", ![p].held = row, ![p].round = @ + 1]
        BY <2>9 DEF PassWrites, row
      <4> QED
        BY <2>0, <3>1, <4>1 DEF PassState
    <3>3. execution' \in ExecutionRow
      BY <2>9, <3>1 DEF PassWrites, Stores
    <3>4. reworked' \in BOOLEAN
      BY <2>0, <2>9, Zenon DEF PassWrites, Stores
    <3> QED
      BY <2>9, <3>2, <3>3, <3>4 DEF PassWrites, RunbookTypeOK, PassState
  <2>10. ASSUME NEW p \in Passes, PassFails(p) PROVE RunbookTypeOK'
    BY <2>0, <2>10, IdleTypes DEF PassFails, RunbookTypeOK, PassState
  <2>11. ASSUME NEW p \in Passes, PassRedelivered(p) PROVE RunbookTypeOK'
    BY <2>0, <2>11, IdleTypes DEF PassRedelivered, RunbookTypeOK, PassState
  <2>12. ASSUME NEW h \in People, NEW i \in DOMAIN steps, MarkReads(h, i) PROVE RunbookTypeOK'
    <3>1. i \in Nat /\ marks' \in 0 .. MaxMarks
      BY <2>0, <2>12, RunbookAssumption DEF MarkReads, RunbookTypeOK
    <3>2. person' \in [People -> PersonState]
      BY <2>0, <2>12, <3>1 DEF MarkReads, PersonState
    <3> QED
      BY <2>12, <3>1, <3>2 DEF MarkReads, RunbookTypeOK, PersonState
  <2>13. ASSUME NEW h \in People, MarkWrites(h) PROVE RunbookTypeOK'
    <3>1. execution' \in ExecutionRow
      BY <2>0, <2>13, CompletedStepType DEF MarkWrites, Stores, PersonState, Finished
    <3>2. reworked' \in BOOLEAN
      BY <2>0, <2>13, Zenon DEF MarkWrites, Stores
    <3>3. person' \in [People -> PersonState]
      BY <2>0, <2>13, IdleTypes DEF MarkWrites
    <3> QED
      BY <2>13, <3>1, <3>2, <3>3 DEF MarkWrites, RunbookTypeOK, PersonState
  <2>14. ASSUME NEW h \in People, NEW status \in EndStatuses, CloseReads(h, status)
         PROVE  RunbookTypeOK'
    <3>1. marks' \in 0 .. MaxMarks
      BY <2>14, RunbookAssumption DEF CloseReads, RunbookTypeOK
    <3>2. person' \in [People -> PersonState]
      BY <2>0, <2>14 DEF CloseReads, PersonState
    <3> QED
      BY <2>14, <3>1, <3>2 DEF CloseReads, RunbookTypeOK, PersonState
  <2>15. ASSUME NEW h \in People, CloseWrites(h) PROVE RunbookTypeOK'
    <3>1. person[h].held \in ExecutionRow /\ person[h].status \in {"running"} \union EndStatuses
      BY <2>0 DEF PersonState
    <3>2. execution' \in ExecutionRow
      BY <2>15, <3>1 DEF CloseWrites, Stores, ExecutionRow
    <3>3. reworked' \in BOOLEAN
      BY <2>0, <2>15, Zenon DEF CloseWrites, Stores
    <3>4. person' \in [People -> PersonState]
      BY <2>0, <2>15, IdleTypes DEF CloseWrites
    <3> QED
      BY <2>15, <3>2, <3>3, <3>4 DEF CloseWrites, RunbookTypeOK, PersonState
  <2>16. CASE UNCHANGED runbookVars
    BY <2>16 DEF runbookVars, RunbookTypeOK
  <2> QED
    BY <2>1, <2>2, <2>3, <2>4, <2>5, <2>6, <2>7, <2>8, <2>9, <2>10, <2>11, <2>12, <2>13, <2>14,
       <2>15, <2>16 DEF RunbookNext, ExecuteGoesOn, PassStep
<1> QED
  BY <1>1, <1>2, PTL DEF RunbookSpec

----------------------------------------------------------------------------
(***************************************************************************)
(* A step runs once                                                        *)
(***************************************************************************)
\* Nothing went wrong: each event was delivered once, no call failed, and nobody
\* reopened a finished step or overwrote a row that had changed.
Quiet == ~runFault /\ ~reworked

Idle(p) == pass[p].pc = "idle"
Runs(p, i) == pass[p].pc \in {"read", "write"} /\ pass[p].step = i

\* The event is delivered once, and taken by one pass.
OneDelivery ==
    /\ started \in {0, 1}
    /\ starter # "done" => started = 0
    /\ starter # "done" \/ started = 1 => \A p \in Passes : Idle(p)
    /\ \A p, q \in Passes : ~Idle(p) /\ ~Idle(q) => p = q

NothingRunYet == starter # "done" => \A i \in DOMAIN steps : runs[i] = 0

ResultsOfAllSteps ==
    /\ starter \in {"filled", "done"} => DOMAIN execution.results = DOMAIN steps
    /\ \A p \in Passes : ~Idle(p) => DOMAIN pass[p].held.results = DOMAIN steps

\* A step that was dispatched is finished in the row, or its result is on the way
\* there; and no pass that looks for the next step holds it as anything but finished.
RunIsRecorded ==
    \A i \in DOMAIN steps : runs[i] # 0 =>
        /\ runs[i] = 1
        /\ execution.results[i] \in Finished \/ \E p \in Passes : Runs(p, i)
        /\ \A p \in Passes : pass[p].pc = "look" => pass[p].held.results[i] \in Finished

RunInv == Quiet => OneDelivery /\ NothingRunYet /\ ResultsOfAllSteps /\ RunIsRecorded

\* A quiet write is of the row as it is, and leaves finished steps finished.
LEMMA QuietStore ==
    ASSUME NEW held, NEW row, Stores(held, row), Quiet'
    PROVE  /\ ~reworked /\ held = execution /\ execution' = row
           /\ \A i \in DOMAIN execution.results :
                 execution.results[i] \in Finished => row.results[i] \in Finished
  BY Zenon DEF Stores, Quiet

\* So a quiet write of a person keeps the invariant.
LEMMA PersonStores ==
    ASSUME RunInv, NEW held, NEW row, Stores(held, row),
           DOMAIN row.results = DOMAIN held.results,
           UNCHANGED <<steps, starter, started, pass, runs, runFault>>
    PROVE  RunInv'
<1> SUFFICES ASSUME Quiet' PROVE (OneDelivery /\ NothingRunYet /\ ResultsOfAllSteps /\ RunIsRecorded)'
  BY DEF RunInv
<1>1. /\ held = execution /\ execution' = row
      /\ \A i \in DOMAIN execution.results :
            execution.results[i] \in Finished => row.results[i] \in Finished
  BY QuietStore
<1>2. OneDelivery /\ NothingRunYet /\ ResultsOfAllSteps /\ RunIsRecorded
  BY QuietStore DEF RunInv, Quiet
<1>3. OneDelivery' /\ NothingRunYet'
  BY <1>2 DEF OneDelivery, NothingRunYet, Idle
<1>4. ResultsOfAllSteps'
  BY <1>1, <1>2 DEF ResultsOfAllSteps, Idle
<1>5. RunIsRecorded'
  <2> SUFFICES ASSUME NEW i \in DOMAIN steps, runs[i] # 0
               PROVE  /\ runs[i] = 1
                      /\ row.results[i] \in Finished \/ \E p \in Passes : Runs(p, i)
                      /\ \A p \in Passes : pass[p].pc = "look" => pass[p].held.results[i] \in Finished
    BY <1>1 DEF RunIsRecorded, Runs
  <2>1. starter = "done" \/ runs[i] = 0
    BY <1>2 DEF NothingRunYet
  <2>2. i \in DOMAIN execution.results
    BY <1>2, <2>1 DEF ResultsOfAllSteps
  <2> QED
    BY <1>1, <1>2, <2>2 DEF RunIsRecorded
<1> QED
  BY <1>3, <1>4, <1>5

\* The steps of ExecuteRunbook: nothing has been dispatched before its event.
LEMMA ExecuteKeeps ==
    ASSUME RunbookTypeOK, RunInv, ExecuteInserts \/ ExecuteGoesOn
    PROVE  RunInv'
<1> SUFFICES ASSUME Quiet' PROVE (OneDelivery /\ NothingRunYet /\ ResultsOfAllSteps /\ RunIsRecorded)'
  BY DEF RunInv
<1>0. Quiet /\ starter # "done" /\ ~ExecuteFails
  BY DEF ExecuteInserts, ExecuteGoesOn, ExecuteFills, ExecutePublishes, ExecuteFails, Quiet
<1>1. OneDelivery /\ NothingRunYet /\ ResultsOfAllSteps /\ RunIsRecorded
  BY <1>0 DEF RunInv
<1>2. UNCHANGED <<steps, pass, runs>> /\ started = 0 /\ \A p \in Passes : Idle(p)
  BY <1>0, <1>1 DEF OneDelivery, ExecuteInserts, ExecuteGoesOn, ExecuteFills, ExecutePublishes
<1>3. \A i \in DOMAIN steps : runs[i] = 0
  BY <1>0, <1>1 DEF NothingRunYet
<1>4. started' \in {0, 1} /\ (starter' # "done" => started' = 0)
  BY <1>0, <1>2 DEF ExecuteInserts, ExecuteGoesOn, ExecuteFills, ExecutePublishes
<1>5. OneDelivery'
  BY <1>2, <1>4 DEF OneDelivery, Idle
<1>6. NothingRunYet' /\ RunIsRecorded'
  BY <1>2, <1>3 DEF NothingRunYet, RunIsRecorded
<1>7. ResultsOfAllSteps'
  <2>1. starter' \in {"filled", "done"} => DOMAIN execution'.results = DOMAIN steps
    <3>1. CASE ExecuteInserts
      BY <3>1 DEF ExecuteInserts
    <3>2. CASE ExecuteFills
      BY <3>2, InitialType DEF ExecuteFills, RunbookTypeOK, ExecutionRow
    <3>3. CASE ExecutePublishes
      BY <1>1, <3>3 DEF ExecutePublishes, ResultsOfAllSteps
    <3> QED
      BY <1>0, <3>1, <3>2, <3>3 DEF ExecuteGoesOn
  <2> QED
    BY <1>2, <2>1 DEF ResultsOfAllSteps, Idle
<1> QED
  BY <1>5, <1>6, <1>7

\* The steps of a pass.
LEMMA PassKeeps ==
    ASSUME RunbookTypeOK, RunInv, NEW p \in Passes, PassStep(p)
    PROVE  RunInv'
<1> SUFFICES ASSUME Quiet' PROVE (OneDelivery /\ NothingRunYet /\ ResultsOfAllSteps /\ RunIsRecorded)'
  BY DEF RunInv
<1>0. Quiet /\ UNCHANGED <<steps, starter>>
  BY QuietStore DEF PassStep, PassTakesEvent, PassDispatches, PassStops, PassReads, PassWrites, Quiet
<1>1. OneDelivery /\ NothingRunYet /\ ResultsOfAllSteps /\ RunIsRecorded
  BY <1>0 DEF RunInv
<1>t. /\ pass \in [Passes -> PassState] /\ runs \in [DOMAIN steps -> Nat] /\ started \in Nat
      /\ execution \in ExecutionRow
  BY DEF RunbookTypeOK, PassState
<1>2. CASE PassTakesEvent(p)
  <2> DEFINE taken == [IdlePass EXCEPT !.pc = "look", !.held = execution]
  <2>1. /\ started = 1 /\ started' = 0 /\ starter = "done" /\ UNCHANGED <<execution, runs>>
        /\ pass' = [pass EXCEPT ![p] = taken]
    BY <1>1, <1>2 DEF PassTakesEvent, OneDelivery
  <2>2. taken.pc = "look" /\ taken.held = execution
    BY DEF IdlePass
  <2>3. \A q \in Passes : Idle(q) /\ pass'[q] = IF q = p THEN taken ELSE pass[q]
    BY <1>1, <1>t, <2>1 DEF OneDelivery
  <2> HIDE DEF taken
  <2>4. OneDelivery'
    BY <2>1, <2>2, <2>3, <1>0 DEF OneDelivery, Idle
  <2>5. NothingRunYet'
    BY <1>0, <2>1 DEF NothingRunYet
  <2>6. ResultsOfAllSteps'
    BY <1>0, <1>1, <2>1, <2>2, <2>3 DEF ResultsOfAllSteps, Idle
  <2>7. \A i \in DOMAIN steps : runs[i] # 0 => runs[i] = 1 /\ execution.results[i] \in Finished
    BY <1>1, <2>3 DEF RunIsRecorded, Runs, Idle
  <2>8. RunIsRecorded'
    BY <1>0, <2>1, <2>2, <2>3, <2>7 DEF RunIsRecorded, Idle
  <2> QED
    BY <2>4, <2>5, <2>6, <2>8
<1>3. CASE PassDispatches(p)
  <2> DEFINE i == ReadyStep(pass[p].held.results)
  <2>1. pass[p].pc = "look" /\ i # 0
    BY <1>3 DEF PassDispatches, GoesOn
  <2>2. pass[p].held.results \in Seq(StepStatuses)
    BY <1>t DEF PassState, ExecutionRow
  <2>3. i \in DOMAIN steps /\ pass[p].held.results[i] = "running"
    BY <1>1, <2>1, <2>2, ReadyStepRuns DEF ResultsOfAllSteps, Idle
  <2>4. runs[i] = 0
    BY <1>1, <2>1, <2>3 DEF RunIsRecorded, Finished
  <2>5. PICK outcome : pass' = [pass EXCEPT ![p].pc = "read", ![p].step = i, ![p].outcome = outcome]
    BY <1>3, Zenon DEF PassDispatches
  <2>6. runs' = [runs EXCEPT ![i] = @ + 1] /\ UNCHANGED <<execution, started>>
    BY <1>3 DEF PassDispatches
  <2> HIDE DEF i
  <2>7. /\ pass'[p].pc = "read" /\ pass'[p].step = i /\ pass'[p].held = pass[p].held
        /\ \A q \in Passes : q # p => pass'[q] = pass[q] /\ Idle(q)
    BY <1>1, <1>t, <2>1, <2>5 DEF OneDelivery, Idle, PassState
  <2>8. starter = "done" /\ started = 0
    BY <1>1, <2>1 DEF OneDelivery, Idle
  <2>9. OneDelivery' /\ NothingRunYet'
    BY <1>0, <2>6, <2>7, <2>8 DEF OneDelivery, NothingRunYet, Idle
  <2>10. ResultsOfAllSteps'
    BY <1>0, <1>1, <2>1, <2>6, <2>7 DEF ResultsOfAllSteps, Idle
  <2>11. \A j \in DOMAIN steps : runs'[j] = IF j = i THEN 1 ELSE runs[j]
    BY <1>t, <2>4, <2>6
  <2>12. RunIsRecorded'
    BY <1>0, <1>1, <2>1, <2>6, <2>7, <2>11 DEF RunIsRecorded, Runs, Idle
  <2> QED
    BY <2>9, <2>10, <2>12
<1>4. CASE PassStops(p)
  <2>1. /\ pass[p].pc = "look" /\ pass' = [pass EXCEPT ![p] = IdlePass]
        /\ UNCHANGED <<execution, runs, started>>
    BY <1>4 DEF PassStops
  <2>2. \A q \in Passes : pass'[q].pc = "idle"
    BY <1>1, <1>t, <2>1 DEF OneDelivery, Idle, IdlePass
  <2>3. starter = "done" /\ started = 0
    BY <1>1, <2>1 DEF OneDelivery, Idle
  <2>4. OneDelivery' /\ NothingRunYet' /\ ResultsOfAllSteps'
    BY <1>0, <1>1, <2>1, <2>2, <2>3 DEF OneDelivery, NothingRunYet, ResultsOfAllSteps, Idle
  <2>5. \A i \in DOMAIN steps : runs[i] # 0 => runs[i] = 1 /\ execution.results[i] \in Finished
    BY <1>1, <2>1 DEF RunIsRecorded, Runs, OneDelivery, Idle
  <2>6. RunIsRecorded'
    BY <1>0, <2>1, <2>2, <2>5 DEF RunIsRecorded
  <2> QED
    BY <2>4, <2>6
<1>5. CASE PassReads(p)
  <2>1. /\ pass[p].pc = "read" /\ pass' = [pass EXCEPT ![p].pc = "write", ![p].held = execution]
        /\ UNCHANGED <<execution, runs, started>>
    BY <1>5 DEF PassReads
  <2>2. /\ pass'[p].pc = "write" /\ pass'[p].step = pass[p].step /\ pass'[p].held = execution
        /\ \A q \in Passes : q # p => pass'[q] = pass[q] /\ Idle(q)
    BY <1>1, <1>t, <2>1 DEF OneDelivery, Idle, PassState
  <2>3. starter = "done" /\ started = 0
    BY <1>1, <2>1 DEF OneDelivery, Idle
  <2>u. pass[p].pc = "read" /\ UNCHANGED <<execution, runs, started>>
    BY <2>1
  <2>4. OneDelivery' /\ NothingRunYet'
    BY <1>0, <2>u, <2>2, <2>3 DEF OneDelivery, NothingRunYet, Idle
  <2>5. ResultsOfAllSteps'
    BY <1>0, <1>1, <2>u, <2>2, <2>3 DEF ResultsOfAllSteps, Idle
  <2>6. RunIsRecorded'
    <3>1. \A i \in DOMAIN steps : runs[i] # 0 =>
             runs[i] = 1 /\ (execution.results[i] \in Finished \/ pass[p].step = i)
      BY <1>1, <2>2 DEF RunIsRecorded, Runs, Idle
    <3>2. \A q \in Passes : pass'[q].pc # "look"
      BY <2>2 DEF Idle
    <3> QED
      BY <1>0, <2>u, <2>2, <3>1, <3>2 DEF RunIsRecorded, Runs
  <2> QED
    BY <2>4, <2>5, <2>6
<1>6. CASE PassWrites(p)
  <2> DEFINE row == CompletedStep(pass[p].held, pass[p].step, pass[p].outcome)
  <2>1. /\ pass[p].pc = "write" /\ Stores(pass[p].held, row) /\ UNCHANGED <<started, runs>>
        /\ pass' = [pass EXCEPT ![p].pc = "look", ![p].held = row, ![p].round = @ + 1]
    BY <1>6 DEF PassWrites
  <2>2. pass[p].held \in ExecutionRow /\ pass[p].outcome \in Finished
    BY <1>t DEF PassState
  <2>3. /\ row.results = Advanced(pass[p].held.results, pass[p].step, pass[p].outcome)
        /\ DOMAIN row.results = DOMAIN pass[p].held.results
    BY <1>t, <2>2, CompletedStepType
  <2>4. starter = "done" /\ started = 0
    BY <1>1, <2>1 DEF OneDelivery, Idle
  <2>5. pass[p].step \in DOMAIN steps => row.results[pass[p].step] \in Finished
    BY <1>1, <2>1, <2>2, <2>3 DEF Advanced, ResultsOfAllSteps, Idle
  <2> HIDE DEF row
  <2>6. /\ execution' = row /\ pass[p].held = execution
        /\ \A i \in DOMAIN execution.results :
              execution.results[i] \in Finished => row.results[i] \in Finished
    BY <2>1, QuietStore
  <2>7. DOMAIN row.results = DOMAIN steps /\ DOMAIN execution.results = DOMAIN steps
    BY <1>1, <2>3, <2>4, <2>6 DEF ResultsOfAllSteps
  <2>8. /\ pass'[p].pc = "look" /\ pass'[p].held = row
        /\ \A q \in Passes : q # p => pass'[q] = pass[q] /\ Idle(q)
    BY <1>1, <1>t, <2>1 DEF OneDelivery, Idle, PassState
  <2>9. OneDelivery' /\ NothingRunYet'
    <3>1. UNCHANGED <<started, runs>>
      BY <2>1
    <3> QED
      BY <1>0, <2>4, <2>8, <3>1 DEF OneDelivery, NothingRunYet, Idle
  <2>10. ResultsOfAllSteps'
    BY <1>0, <2>6, <2>7, <2>8 DEF ResultsOfAllSteps, Idle
  <2>11. \A i \in DOMAIN steps : runs[i] # 0 => runs[i] = 1 /\ row.results[i] \in Finished
    <3> SUFFICES ASSUME NEW i \in DOMAIN steps, runs[i] # 0
                 PROVE  runs[i] = 1 /\ row.results[i] \in Finished
      OBVIOUS
    <3>1. runs[i] = 1 /\ (execution.results[i] \in Finished \/ pass[p].step = i)
      BY <1>1, <2>8 DEF RunIsRecorded, Runs, Idle
    <3> QED
      BY <2>5, <2>6, <2>7, <3>1
  <2>12. RunIsRecorded'
    BY <1>0, <2>1, <2>6, <2>8, <2>11 DEF RunIsRecorded, Idle
  <2> QED
    BY <2>9, <2>10, <2>12
<1> QED
  BY <1>2, <1>3, <1>4, <1>5, <1>6 DEF PassStep

\* The invariant holds of every behaviour.
LEMMA RunInductive == RunbookSpec => []RunInv
<1>1. RunbookInit => RunInv
  BY DEF RunbookInit, RunInv, OneDelivery, NothingRunYet, ResultsOfAllSteps, RunIsRecorded, Idle,
         IdlePass
<1>2. RunbookTypeOK /\ RunInv /\ [RunbookNext]_runbookVars => RunInv'
  <2> SUFFICES ASSUME RunbookTypeOK, RunInv, [RunbookNext]_runbookVars
               PROVE  RunInv'
    OBVIOUS
  <2>1. CASE ExecuteInserts \/ ExecuteGoesOn
    BY <2>1, ExecuteKeeps
  <2>2. ASSUME NEW p \in Passes, PassStep(p) PROVE RunInv'
    BY <2>2, PassKeeps
  <2>3. ASSUME NEW p \in Passes, PassFails(p) \/ PassRedelivered(p) PROVE RunInv'
    BY <2>3 DEF PassFails, PassRedelivered, RunInv, Quiet
  <2>4. ASSUME NEW h \in People, NEW i, MarkReads(h, i) PROVE RunInv'
    BY <2>4 DEF MarkReads, RunInv, Quiet, OneDelivery, NothingRunYet, ResultsOfAllSteps,
                RunIsRecorded, Idle, Runs
  <2>5. ASSUME NEW h \in People, MarkWrites(h) PROVE RunInv'
    <3>1. person[h].held \in ExecutionRow /\ execution \in ExecutionRow
      BY DEF RunbookTypeOK
    <3>2. DOMAIN CompletedStep(person[h].held, person[h].step, "completed").results =
             DOMAIN person[h].held.results
      BY <3>1, CompletedStepType DEF Finished
    <3> QED
      BY <2>5, <3>2, PersonStores DEF MarkWrites
  <2>6. ASSUME NEW h \in People, NEW status, CloseReads(h, status) PROVE RunInv'
    BY <2>6 DEF CloseReads, RunInv, Quiet, OneDelivery, NothingRunYet, ResultsOfAllSteps,
                RunIsRecorded, Idle, Runs
  <2>7. ASSUME NEW h \in People, CloseWrites(h) PROVE RunInv'
    <3> DEFINE held == person[h].held
               row == [held EXCEPT !.status = person[h].status, !.closed = TRUE]
    <3>1. held \in ExecutionRow
      BY DEF RunbookTypeOK
    <3>2. row.results = held.results
      BY <3>1 DEF ExecutionRow
    <3>3. Stores(held, row) /\ UNCHANGED <<steps, starter, started, pass, runs, runFault>>
      BY <2>7 DEF CloseWrites
    <3> HIDE DEF held, row
    <3> QED
      BY <3>2, <3>3, PersonStores
  <2>8. CASE UNCHANGED runbookVars
    BY <2>8 DEF runbookVars, RunInv, Quiet, OneDelivery, NothingRunYet, ResultsOfAllSteps,
                RunIsRecorded, Idle, Runs
  <2> QED
    BY <2>1, <2>2, <2>3, <2>4, <2>5, <2>6, <2>7, <2>8 DEF RunbookNext
<1> QED
  BY <1>1, <1>2, RunbookTypeCorrect, PTL DEF RunbookSpec

(***************************************************************************)
(* No automated step is dispatched twice unless the event was delivered    *)
(* again, a call failed, a finished step was reopened or a row that had    *)
(* changed was overwritten (executor.py 91-119 against                     *)
(* CompleteExecutionStep).                                                 *)
(***************************************************************************)
THEOREM NoStepRunsTwice == RunbookSpec => []StepsRunOnce
<1>1. RunbookTypeOK /\ RunInv => StepsRunOnce
  BY SMTT(30) DEF RunbookTypeOK, RunInv, Quiet, RunIsRecorded, StepsRunOnce
<1> QED
  BY <1>1, RunInductive, RunbookTypeCorrect, PTL

----------------------------------------------------------------------------
(***************************************************************************)
(* An execution that nobody attends to                                     *)
(***************************************************************************)
\* No step is for a person, nothing went wrong and nobody made a request.
Undisturbed == Unattended /\ Quiet /\ marks = 0

Underway == starter # "done" \/ started > 0 \/ \E p \in Passes : ~Idle(p)

\* The executor never leaves such an execution before it is completed.
NoExecutionIsAbandoned == Undisturbed => Underway \/ execution.status = "completed"

\* The first n steps have ended, the next one is running, the others have their turn to come.
InOrder(row, n) ==
    /\ Len(row.results) = Len(steps)
    /\ \A j \in DOMAIN steps :
          row.results[j] \in IF j <= n THEN Finished ELSE IF j = n + 1 THEN {"running"} ELSE {"pending"}
    /\ row.status = IF n = Len(steps) THEN "completed" ELSE "running"

\* What a pass holds is the row, and its rounds are the steps that have ended: that is why
\* the bound on the rounds is not what stops it.
PassInOrder(p) ==
    /\ pass[p].round \in 0 .. Len(steps)
    /\ InOrder(execution, pass[p].round)
    /\ pass[p].held = execution
    /\ pass[p].pc # "look" => pass[p].round < Len(steps) /\ pass[p].step = pass[p].round + 1

NobodyAsked == marks = 0 => \A h \in People : person[h].pc = "idle"

AdvanceInv ==
    Undisturbed =>
        /\ starter = "filled" \/ started > 0 => InOrder(execution, 0)
        /\ \A p \in Passes : ~Idle(p) => PassInOrder(p)
        /\ Underway \/ InOrder(execution, Len(steps))

\* The steps of an execution are numbered from 1.
LEMMA StepsDomain ==
    ASSUME steps \in Seq(StepTypes)
    PROVE  Len(steps) \in Nat /\ DOMAIN steps = 1 .. Len(steps)
  OBVIOUS

\* Where the next step is, and the one after it.
LEMMA NextInRange ==
    ASSUME NEW len \in Nat, NEW n \in Nat, n <= len
    PROVE  /\ n # len => n + 1 \in 1 .. len
           /\ n < len /\ n + 1 # len => n + 2 \in 1 .. len
           /\ n + 2 # n + 1
  OBVIOUS

\* In an execution that advances in order, the step found ready is the next one.
LEMMA NextStepIsReady ==
    ASSUME steps \in Seq(StepTypes), NEW row \in ExecutionRow, NEW n \in 0 .. Len(steps), InOrder(row, n)
    PROVE  ReadyStep(row.results) = IF n = Len(steps) THEN 0 ELSE n + 1
<1>1. row.results \in Seq(StepStatuses) /\ DOMAIN row.results = DOMAIN steps
  BY StepsDomain, ResultsDomain DEF ExecutionRow, InOrder
<1>0. /\ Len(steps) \in Nat /\ n \in Nat /\ n <= Len(steps)
      /\ DOMAIN steps = 1 .. Len(steps)
  BY StepsDomain
<1>2. \A j \in DOMAIN steps : row.results[j] = "running" <=> j = n + 1
  <2> SUFFICES ASSUME NEW j \in DOMAIN steps
               PROVE  row.results[j] = "running" <=> j = n + 1
    OBVIOUS
  <2>1. row.results[j] \in IF j <= n THEN Finished ELSE IF j = n + 1 THEN {"running"} ELSE {"pending"}
    BY DEF InOrder
  <2>2. j <= n => j # n + 1
    BY <1>0
  <2> QED
    BY <2>1, <2>2 DEF Finished
<1>3. CASE n = Len(steps)
  <2>1. {i \in DOMAIN row.results : row.results[i] = "running"} = {}
    BY <1>1, <1>2, <1>3, StepsDomain
  <2> QED
    BY <1>3, <2>1 DEF ReadyStep
<1>4. CASE n # Len(steps)
  <2>1. n + 1 \in DOMAIN steps
    BY <1>0, <1>4, NextInRange
  <2>2. {i \in DOMAIN row.results : row.results[i] = "running"} = {n + 1}
    BY <1>1, <1>2, <2>1
  <2>3. (CHOOSE i \in {n + 1} : \A j \in {n + 1} : i <= j) = n + 1
    BY StepsDomain
  <2> QED
    BY <1>4, <2>2, <2>3 DEF ReadyStep
<1> QED
  BY <1>3, <1>4

\* Completing the running step makes the next one run, or completes the execution.
LEMMA CompletingAdvances ==
    ASSUME steps \in Seq(StepTypes), Unattended, execution \in ExecutionRow, NEW held \in ExecutionRow,
           NEW n \in 0 .. Len(steps), n < Len(steps), InOrder(held, n), NEW outcome \in Finished
    PROVE  InOrder(CompletedStep(held, n + 1, outcome), n + 1)
<1> DEFINE row == CompletedStep(held, n + 1, outcome)
<1>0. /\ Len(steps) \in Nat /\ n \in Nat /\ n <= Len(steps)
      /\ DOMAIN steps = 1 .. Len(steps)
  BY StepsDomain
<1>1. held.results \in Seq(StepStatuses) /\ DOMAIN held.results = DOMAIN steps
  BY StepsDomain, ResultsDomain DEF ExecutionRow, InOrder
<1>2. row.results = Advanced(held.results, n + 1, outcome) /\ row \in ExecutionRow
  BY CompletedStepType
<1>3. Len(row.results) = Len(steps) /\ DOMAIN row.results = DOMAIN steps
  <2>1. DOMAIN row.results = DOMAIN steps /\ row.results \in Seq(StepStatuses)
    BY <1>1, <1>2, AdvancedType
  <2> QED
    BY <2>1, StepsDomain, ResultsDomain
<1>4. \A j \in DOMAIN steps : row.results[j] =
         IF j = n + 1 THEN outcome ELSE IF j = n + 2 THEN "running" ELSE held.results[j]
  <2>1. \A j \in DOMAIN steps : TurnStatus(steps[j]) = "running"
    BY DEF Unattended, NeedsPerson, TurnStatus
  <2> QED
    BY <1>1, <1>2, <2>1 DEF Advanced
<1>5. row.status = IF AllDone(row.results) THEN "completed" ELSE "running"
  BY <1>2 DEF CompletedStep
<1> HIDE DEF row
<1>6. \A j \in DOMAIN steps : row.results[j] \in
         IF j <= n + 1 THEN Finished ELSE IF j = n + 1 + 1 THEN {"running"} ELSE {"pending"}
  <2> SUFFICES ASSUME NEW j \in DOMAIN steps
               PROVE  row.results[j] \in IF j <= n + 1 THEN Finished
                                         ELSE IF j = n + 1 + 1 THEN {"running"} ELSE {"pending"}
    OBVIOUS
  <2>1. held.results[j] \in IF j <= n THEN Finished ELSE IF j = n + 1 THEN {"running"} ELSE {"pending"}
    BY DEF InOrder
  <2>2. /\ (j <= n + 1 <=> j <= n \/ j = n + 1) /\ (j = n + 1 + 1 <=> j = n + 2)
        /\ j = n + 2 => ~(j <= n + 1)
        /\ j = n + 1 => ~(j <= n)
    BY <1>0
  <2> QED
    BY <1>4, <2>1, <2>2
<1>7. AllDone(row.results) <=> n + 1 = Len(steps)
  <2>1. CASE n + 1 = Len(steps)
    BY <1>3, <1>6, <2>1, StepsDomain DEF AllDone
  <2>2. CASE n + 1 # Len(steps)
    <3>1. n + 2 \in DOMAIN steps /\ n + 2 # n + 1
      <4> HIDE DEF row
      <4> QED
        BY <1>0, <2>2, NextInRange
    <3>2. row.results[n + 2] = "running"
      BY <1>4, <3>1
    <3> QED
      BY <1>3, <2>2, <3>1, <3>2 DEF AllDone, Finished
  <2> QED
    BY <2>1, <2>2
<1> QED
  BY <1>3, <1>5, <1>6, <1>7 DEF InOrder, row

\* ExecuteRunbook fills in the first step as running and all others as pending.
LEMMA FilledInOrder ==
    ASSUME steps \in Seq(StepTypes), Unattended, execution \in ExecutionRow
    PROVE  InOrder([execution EXCEPT !.status = "running", !.results = InitialResults], 0)
<1>1. Len(InitialResults) = Len(steps)
  BY InitialType, StepsDomain, ResultsDomain
<1>2. Len(steps) # 0
  BY DEF Unattended
<1>3. \A j \in DOMAIN steps : InitialResults[j] = IF j = 1 THEN "running" ELSE "pending"
  BY DEF InitialResults, Unattended, NeedsPerson, TurnStatus
<1> QED
  BY <1>1, <1>2, <1>3, StepsDomain DEF InOrder, ExecutionRow

\* The runbook stays, faults are not forgotten, and requests are counted.
LEMMA HistoryStep ==
    ASSUME [RunbookNext]_runbookVars
    PROVE  /\ UNCHANGED steps /\ (runFault => runFault') /\ (reworked => reworked')
           /\ UNCHANGED marks \/ marks' = marks + 1
<1> DEFINE Changes ==
              /\ UNCHANGED steps /\ (UNCHANGED marks \/ marks' = marks + 1)
              /\ UNCHANGED runFault \/ runFault' = TRUE
              /\ UNCHANGED reworked \/ \E held, row : Stores(held, row)
<1>1. ASSUME ExecuteInserts \/ ExecuteGoesOn \/ UNCHANGED runbookVars PROVE Changes
  BY <1>1 DEF ExecuteGoesOn, ExecuteInserts, ExecuteFills, ExecutePublishes, ExecuteFails, runbookVars
<1>2. ASSUME NEW p \in Passes, PassTakesEvent(p) \/ PassDispatches(p) \/ PassStops(p) \/ PassReads(p) PROVE Changes
  BY <1>2 DEF PassTakesEvent, PassDispatches, PassStops, PassReads
<1>3. ASSUME NEW p \in Passes, PassWrites(p) \/ PassFails(p) \/ PassRedelivered(p) PROVE Changes
  BY <1>3 DEF PassWrites, PassFails, PassRedelivered
<1>4. ASSUME NEW h \in People, NEW i, NEW status, MarkReads(h, i) \/ CloseReads(h, status) PROVE Changes
  BY <1>4 DEF MarkReads, CloseReads
<1>5. ASSUME NEW h \in People, MarkWrites(h) \/ CloseWrites(h) PROVE Changes
  BY <1>5 DEF MarkWrites, CloseWrites
<1>6. Changes
  BY <1>1, <1>2, <1>3, <1>4, <1>5 DEF RunbookNext, PassStep
<1>7. runFault => runFault'
  BY <1>6, Zenon
<1>8. reworked => reworked'
  BY <1>6, Zenon DEF Stores
<1> QED
  BY <1>6, <1>7, <1>8

\* Whatever happens, it was undisturbed before if it is now, and nobody holds a row.
LEMMA UndisturbedBefore ==
    ASSUME RunbookTypeOK, [RunbookNext]_runbookVars, Undisturbed', NobodyAsked
    PROVE  /\ Undisturbed /\ UNCHANGED <<steps, marks>>
           /\ \/ ExecuteInserts \/ ExecuteFills \/ ExecutePublishes
              \/ \E p \in Passes : PassStep(p)
              \/ UNCHANGED runbookVars
<1>1. UNCHANGED steps /\ (runFault => runFault') /\ (reworked => reworked')
  BY HistoryStep
<1>2. UNCHANGED marks \/ marks' = marks + 1
  BY HistoryStep
<1>3. marks = 0 /\ UNCHANGED marks
  BY <1>2, RunbookAssumption DEF RunbookTypeOK, Undisturbed
<1>4. Undisturbed
  BY <1>1, <1>3, Zenon DEF Undisturbed, Unattended, Quiet
<1>5. ASSUME ExecuteFails PROVE FALSE
  BY <1>5 DEF ExecuteFails, Undisturbed, Quiet
<1>6. ASSUME NEW p \in Passes, PassFails(p) \/ PassRedelivered(p) PROVE FALSE
  BY <1>6 DEF PassFails, PassRedelivered, Undisturbed, Quiet
<1>7. ASSUME NEW h \in People, NEW i, NEW status,
             MarkReads(h, i) \/ MarkWrites(h) \/ CloseReads(h, status) \/ CloseWrites(h)
      PROVE  FALSE
  <2>1. person[h].pc = "idle"
    BY <1>3 DEF NobodyAsked
  <2>2. ~(marks' = marks + 1)
    BY <1>3
  <2> QED
    BY <1>7, <2>1, <2>2 DEF MarkReads, MarkWrites, CloseReads, CloseWrites
<1> QED
  BY <1>1, <1>3, <1>4, <1>5, <1>6, <1>7 DEF RunbookNext, ExecuteGoesOn

\* Only a request makes a person hold anything.
LEMMA AskingStep ==
    ASSUME RunbookTypeOK, NobodyAsked, [RunbookNext]_runbookVars
    PROVE  NobodyAsked'
<1> SUFFICES ASSUME marks' = 0, NEW h \in People PROVE person'[h].pc = "idle"
  BY DEF NobodyAsked
<1>1. marks \in Nat
  BY RunbookAssumption DEF RunbookTypeOK
<1>2. UNCHANGED marks
  BY <1>1, HistoryStep
<1>3. \A g \in People : person[g].pc = "idle"
  BY <1>2 DEF NobodyAsked
<1>4. ~(marks' = marks + 1)
  BY <1>1, <1>2
<1>5. UNCHANGED person
  BY <1>3, <1>4 DEF RunbookNext, runbookVars, ExecuteGoesOn, ExecuteInserts, ExecuteFills, ExecutePublishes, ExecuteFails,
     PassStep, PassTakesEvent, PassDispatches, PassStops, PassReads, PassWrites, PassFails, PassRedelivered,
     MarkReads, MarkWrites, CloseReads, CloseWrites
<1> QED
  BY <1>3, <1>5

\* The executor advances in order.
LEMMA PassAdvances ==
    ASSUME RunbookTypeOK, RunInv, AdvanceInv, Undisturbed, Undisturbed', NEW p \in Passes, PassStep(p)
    PROVE  AdvanceInv'
<1>t. /\ pass \in [Passes -> PassState] /\ execution \in ExecutionRow
      /\ steps \in Seq(StepTypes)
  BY DEF RunbookTypeOK, PassState
<1>0. UNCHANGED <<steps, starter>>
  BY DEF PassStep, PassTakesEvent, PassDispatches, PassStops, PassReads, PassWrites
<1>1. OneDelivery /\ Quiet
  BY DEF RunInv, Undisturbed
<1>2. Len(steps) \in Nat
  BY <1>t
<1>3. \A q \in Passes : ~Idle(q) => PassInOrder(q)
  BY DEF AdvanceInv
<1>s. SUFFICES /\ starter' = "filled" \/ started' > 0 => InOrder(execution, 0)'
               /\ \A q \in Passes : ~Idle(q)' => PassInOrder(q)'
               /\ Underway' \/ InOrder(execution, Len(steps))'
  BY DEF AdvanceInv
<1>4. CASE PassTakesEvent(p)
  <2> DEFINE taken == [IdlePass EXCEPT !.pc = "look", !.held = execution]
  <2>1. /\ started = 1 /\ started' = 0 /\ starter = "done" /\ UNCHANGED execution
        /\ pass' = [pass EXCEPT ![p] = taken]
    BY <1>1, <1>4 DEF PassTakesEvent, OneDelivery
  <2>2. taken.pc = "look" /\ taken.held = execution /\ taken.round = 0
    BY DEF IdlePass
  <2>3. \A q \in Passes : Idle(q) /\ pass'[q] = IF q = p THEN taken ELSE pass[q]
    BY <1>1, <1>t, <2>1 DEF OneDelivery
  <2> HIDE DEF taken
  <2>4. InOrder(execution, 0)
    BY <2>1 DEF AdvanceInv
  <2>5. InOrder(execution, 0)'
    BY <1>0, <2>1, <2>4 DEF InOrder
  <2>6. PassInOrder(p)'
    BY <1>0, <1>2, <2>1, <2>2, <2>3, <2>5 DEF PassInOrder
  <2>7. \A q \in Passes : ~Idle(q)' => q = p
    BY <2>3 DEF Idle
  <2>8. ~Idle(p)'
    BY <2>2, <2>3 DEF Idle
  <2> QED
    BY <2>5, <2>6, <2>7, <2>8 DEF Underway
<1>5. CASE PassDispatches(p)
  <2> DEFINE i == ReadyStep(pass[p].held.results)
  <2>1. pass[p].pc = "look" /\ i # 0 /\ UNCHANGED <<execution, started>>
    BY <1>5 DEF PassDispatches, GoesOn
  <2>2. PassInOrder(p) /\ starter = "done" /\ started = 0
    BY <1>1, <1>3, <2>1 DEF OneDelivery, Idle
  <2>3. pass[p].round # Len(steps) /\ i = pass[p].round + 1
    BY <1>t, <2>1, <2>2, NextStepIsReady DEF PassInOrder
  <2>5. PICK outcome : pass' = [pass EXCEPT ![p].pc = "read", ![p].step = i, ![p].outcome = outcome]
    BY <1>5, Zenon DEF PassDispatches
  <2> HIDE DEF i
  <2>7. /\ pass'[p].pc = "read" /\ pass'[p].step = i /\ pass'[p].held = pass[p].held
        /\ pass'[p].round = pass[p].round
        /\ \A q \in Passes : q # p => pass'[q] = pass[q] /\ Idle(q)
    BY <1>1, <1>t, <2>1, <2>5 DEF OneDelivery, Idle, PassState
  <2>8. InOrder(execution, pass[p].round)'
    BY <1>0, <2>1, <2>2, <2>7 DEF InOrder, PassInOrder
  <2>9. pass[p].round < Len(steps) /\ pass[p].round \in 0 .. Len(steps)
    BY <1>2, <2>2, <2>3 DEF PassInOrder
  <2>10. PassInOrder(p)'
    BY <1>0, <2>1, <2>2, <2>3, <2>7, <2>8, <2>9 DEF PassInOrder
  <2>11. \A q \in Passes : ~Idle(q)' => q = p
    BY <2>7 DEF Idle
  <2>12. ~Idle(p)'
    BY <2>7 DEF Idle
  <2> QED
    BY <1>0, <2>1, <2>2, <2>10, <2>11, <2>12 DEF Underway
<1>6. CASE PassStops(p)
  <2>1. /\ pass[p].pc = "look" /\ ~GoesOn(p) /\ pass' = [pass EXCEPT ![p] = IdlePass]
        /\ UNCHANGED <<execution, started>>
    BY <1>6 DEF PassStops
  <2>2. PassInOrder(p) /\ starter = "done" /\ started = 0
    BY <1>1, <1>3, <2>1 DEF OneDelivery, Idle
  <2>3. \A q \in Passes : pass'[q].pc = "idle"
    BY <1>1, <1>t, <2>1 DEF OneDelivery, Idle, IdlePass
  <2>4. pass[p].round = Len(steps)
    <3> SUFFICES ASSUME pass[p].round # Len(steps) PROVE GoesOn(p)
      BY <2>1
    <3>1. PICK n \in 0 .. Len(steps) : n = pass[p].round
      BY <2>2 DEF PassInOrder
    <3>2. n \in Nat /\ n < Len(steps) /\ n + 1 \in DOMAIN steps /\ n + 1 # 0 /\ n <= Len(steps)
      BY <1>2, <1>t, <3>1
    <3>3. ReadyStep(pass[p].held.results) = n + 1
      BY <1>t, <2>2, <3>1, NextStepIsReady DEF PassInOrder
    <3>4. pass[p].held.status = "running"
      BY <2>2, <3>1 DEF PassInOrder, InOrder
    <3>5. ~NeedsPerson(steps[n + 1])
      BY <3>2 DEF Undisturbed, Unattended
    <3> QED
      BY <3>1, <3>2, <3>3, <3>4, <3>5 DEF GoesOn
  <2>5. InOrder(execution, Len(steps))'
    BY <1>0, <2>1, <2>2, <2>4 DEF InOrder, PassInOrder
  <2> QED
    BY <1>0, <2>1, <2>2, <2>3, <2>5 DEF Idle
<1>7. CASE PassReads(p)
  <2>1. /\ pass[p].pc = "read" /\ pass' = [pass EXCEPT ![p].pc = "write", ![p].held = execution]
        /\ UNCHANGED <<execution, started>>
    BY <1>7 DEF PassReads
  <2>2. PassInOrder(p) /\ starter = "done" /\ started = 0
    BY <1>1, <1>3, <2>1 DEF OneDelivery, Idle
  <2>3. /\ pass'[p].pc = "write" /\ pass'[p].step = pass[p].step /\ pass'[p].held = execution
        /\ pass'[p].round = pass[p].round
        /\ \A q \in Passes : q # p => pass'[q] = pass[q] /\ Idle(q)
    BY <1>1, <1>t, <2>1 DEF OneDelivery, Idle, PassState
  <2>u. pass[p].pc = "read" /\ UNCHANGED <<execution, started>>
    BY <2>1
  <2>4. InOrder(execution, pass[p].round)'
    BY <1>0, <2>u, <2>2, <2>3 DEF InOrder, PassInOrder
  <2>5. PassInOrder(p)'
    BY <1>0, <2>u, <2>2, <2>3, <2>4 DEF PassInOrder
  <2>6. \A q \in Passes : ~Idle(q)' => q = p
    BY <2>3 DEF Idle
  <2>7. ~Idle(p)'
    BY <2>3 DEF Idle
  <2> QED
    BY <1>0, <2>u, <2>2, <2>5, <2>6, <2>7 DEF Underway
<1>8. CASE PassWrites(p)
  <2> DEFINE row == CompletedStep(pass[p].held, pass[p].step, pass[p].outcome)
  <2>1. /\ pass[p].pc = "write" /\ Stores(pass[p].held, row) /\ UNCHANGED started
        /\ pass' = [pass EXCEPT ![p].pc = "look", ![p].held = row, ![p].round = @ + 1]
    BY <1>8 DEF PassWrites
  <2>2. PassInOrder(p) /\ starter = "done" /\ started = 0
    BY <1>1, <1>3, <2>1 DEF OneDelivery, Idle
  <2>3. PICK n \in 0 .. Len(steps) : n = pass[p].round
    BY <2>2 DEF PassInOrder
  <2>4. n < Len(steps) /\ pass[p].step = n + 1 /\ InOrder(pass[p].held, n)
    BY <2>1, <2>2, <2>3 DEF PassInOrder
  <2>5. pass[p].held \in ExecutionRow /\ pass[p].outcome \in Finished
    BY <1>t DEF PassState
  <2>6. InOrder(row, n + 1)
    BY <1>t, <2>4, <2>5, CompletingAdvances DEF Undisturbed
  <2>7. execution' = row
    BY <2>1 DEF Stores
  <2> HIDE DEF row
  <2>8. /\ pass'[p].pc = "look" /\ pass'[p].held = row /\ pass'[p].round = n + 1
        /\ \A q \in Passes : q # p => pass'[q] = pass[q] /\ Idle(q)
    BY <1>1, <1>t, <2>1, <2>3 DEF OneDelivery, Idle, PassState
  <2>9. InOrder(execution, n + 1)'
    BY <1>0, <2>6, <2>7 DEF InOrder
  <2>10. n + 1 \in 0 .. Len(steps)
    BY <1>2, <2>4
  <2>11. PassInOrder(p)'
    BY <1>0, <2>7, <2>8, <2>9, <2>10 DEF PassInOrder
  <2>12. \A q \in Passes : ~Idle(q)' => q = p
    BY <2>8 DEF Idle
  <2>13. ~Idle(p)'
    BY <2>8 DEF Idle
  <2>14. UNCHANGED started
    BY <2>1
  <2> QED
    BY <1>0, <2>2, <2>11, <2>12, <2>13, <2>14 DEF Underway
<1> QED
  BY <1>4, <1>5, <1>6, <1>7, <1>8 DEF PassStep

\* Every step keeps the order.
LEMMA AdvanceStep ==
    ASSUME RunbookTypeOK, RunInv, NobodyAsked, AdvanceInv, [RunbookNext]_runbookVars
    PROVE  AdvanceInv'
<1> SUFFICES ASSUME Undisturbed' PROVE AdvanceInv'
  BY DEF AdvanceInv
<1>1. /\ Undisturbed /\ UNCHANGED <<steps, marks>>
      /\ \/ ExecuteInserts \/ ExecuteFills \/ ExecutePublishes
         \/ \E p \in Passes : PassStep(p)
         \/ UNCHANGED runbookVars
  BY UndisturbedBefore
<1>2. /\ starter = "filled" \/ started > 0 => InOrder(execution, 0)
      /\ \A p \in Passes : ~Idle(p) => PassInOrder(p)
      /\ Underway \/ InOrder(execution, Len(steps))
      /\ OneDelivery
  BY <1>1 DEF AdvanceInv, RunInv, Undisturbed
<1>3. CASE ExecuteInserts
  <2>1. starter' = "inserted" /\ UNCHANGED <<steps, execution, started, pass>> /\ starter = "idle"
    BY <1>3 DEF ExecuteInserts
  <2>2. started = 0 /\ \A p \in Passes : Idle(p)
    BY <1>2, <2>1 DEF OneDelivery
  <2> QED
    BY <2>1, <2>2 DEF AdvanceInv, Underway, Idle
<1>4. CASE ExecuteFills
  <2>1. /\ starter' = "filled" /\ UNCHANGED <<steps, started, pass>> /\ starter = "inserted"
        /\ execution' = [execution EXCEPT !.status = "running", !.results = InitialResults]
    BY <1>4 DEF ExecuteFills
  <2>2. started = 0 /\ \A p \in Passes : Idle(p)
    BY <1>2, <2>1 DEF OneDelivery
  <2>3. InOrder(execution, 0)'
    <3>1. InOrder(execution', 0)
      BY <1>1, <2>1, FilledInOrder DEF RunbookTypeOK, Undisturbed
    <3> QED
      BY <2>1, <3>1 DEF InOrder
  <2>4. starter' = "filled" /\ UNCHANGED <<steps, started, pass>>
    BY <2>1
  <2> QED
    BY <2>2, <2>3, <2>4 DEF AdvanceInv, Underway, Idle
<1>5. CASE ExecutePublishes
  <2>1. /\ starter' = "done" /\ UNCHANGED <<steps, execution, pass>> /\ starter = "filled"
        /\ started' = started + 1
    BY <1>5 DEF ExecutePublishes
  <2>2. started = 0 /\ \A p \in Passes : Idle(p)
    BY <1>2, <2>1 DEF OneDelivery
  <2>3. InOrder(execution, 0)'
    BY <1>2, <2>1 DEF InOrder
  <2> QED
    BY <2>1, <2>2, <2>3 DEF AdvanceInv, Underway, Idle
<1>6. ASSUME NEW p \in Passes, PassStep(p) PROVE AdvanceInv'
  BY <1>1, <1>6, PassAdvances
<1>7. CASE UNCHANGED runbookVars
  <2>1. UNCHANGED <<steps, starter, execution, started, pass>>
    BY <1>7 DEF runbookVars
  <2> QED
    BY <1>2, <2>1 DEF AdvanceInv, Underway, Idle, InOrder, PassInOrder
<1> QED
  BY <1>1, <1>3, <1>4, <1>5, <1>6, <1>7

(***************************************************************************)
(* The executor does not leave an execution without steps for people       *)
(* before it is completed, unless a call fails or people meddle: its bound *)
(* on the rounds (executor.py 91) is enough for a runbook of any length.   *)
(* The safety half of UnattendedCompletes.                                 *)
(***************************************************************************)
THEOREM NoExecutionIsLeft == RunbookSpec => []NoExecutionIsAbandoned
<1>1. RunbookInit => NobodyAsked /\ AdvanceInv
  BY DEF RunbookInit, NobodyAsked, AdvanceInv, Idle, IdlePass, IdlePerson, Underway
<1>2. RunbookTypeOK /\ RunInv /\ NobodyAsked /\ AdvanceInv /\ [RunbookNext]_runbookVars =>
         NobodyAsked' /\ AdvanceInv'
  BY AskingStep, AdvanceStep
<1>3. AdvanceInv => NoExecutionIsAbandoned
  BY DEF AdvanceInv, NoExecutionIsAbandoned, InOrder
<1> QED
  BY <1>1, <1>2, <1>3, RunbookTypeCorrect, RunInductive, PTL DEF RunbookSpec

----------------------------------------------------------------------------
(***************************************************************************)
(* Ingestion, for any catalogue and any number of senders, incidents and   *)
(* ticks.                                                                  *)
(***************************************************************************)
\* Whoever follows the correlations from an incident meets one the pipeline has looked into, or
\* one of a service that depends on itself.
EndsWell(i) ==
    \E j \in Chain(i) : incidents[j].fate = "investigated" \/ SelfDependent(incidents[j].software)

\* Incidents that requests, events and the worker refer to are there.
ReferencesInv ==
    /\ \A w \in Senders : sender[w].pc # "idle" => sender[w].incident \in DOMAIN incidents
    /\ \A k \in DOMAIN alertEvents : alertEvents[k] \in DOMAIN incidents
    /\ correlator.pc # "idle" => correlator.incident \in DOMAIN incidents

\* At most one incident is under way, and one place holds it.
OneAtATime ==
    /\ \A i, j \in DOMAIN incidents :
          incidents[i].fate \notin Settled /\ incidents[j].fate \notin Settled => i = j
    /\ \A w \in Senders : sender[w].pc # "idle" => incidents[sender[w].incident].fate = "new"
    /\ \A v, w \in Senders : sender[v].pc # "idle" /\ sender[w].pc # "idle" => v = w
    /\ \A k \in DOMAIN alertEvents : incidents[alertEvents[k]].fate = "queued"
    /\ correlator.pc # "idle" => incidents[correlator.incident].fate = "queued"
    /\ Len(alertEvents) <= 1
    /\ correlator.pc # "idle" => alertEvents = <<>>

\* What has become of the incidents.
FatesInv ==
    \A i \in DOMAIN incidents :
       /\ incidents[i].fate # "failed"
       /\ incidents[i].fate # "correlated" => incidents[i].onto = 0
       /\ incidents[i].fate = "correlated" => incidents[i].onto \in DOMAIN incidents /\ EndsWell(i)

CalmInv == OneAtATime /\ FatesInv

IngestionInv ==
    IngestionTypeOK /\ ReferencesInv /\ (~ingestFault /\ ~overlapped => CalmInv)

LEMMA IngestionInitInv == IngestionInit => IngestionInv
<1> SUFFICES ASSUME IngestionInit PROVE IngestionInv
  OBVIOUS
<1>0. MaxClock \in Nat /\ MaxIncidents \in Nat
  BY IngestionAssumption
<1>1. /\ clock = 0 /\ sender = [w \in Senders |-> [pc |-> "idle", incident |-> 0]]
      /\ incidents = <<>> /\ quarantine = <<>> /\ alertEvents = <<>> /\ correlator = [pc |-> "idle", incident |-> 0]
      /\ ingestFault = FALSE /\ overlapped = FALSE
  BY DEF IngestionInit
<1>2. IngestionTypeOK
  <2>1. sender \in [Senders -> [pc : {"idle", "snapshot", "publish"}, incident : 0 .. MaxIncidents]]
    BY <1>0, <1>1
  <2>2. incidents \in Seq(IngestedRow) /\ Len(incidents) = 0 /\ quarantine \in Seq(QuarantineRow)
        /\ alertEvents \in Seq(IncidentIds)
    BY <1>1
  <2>3. correlator \in [pc : {"idle", "service", "cascade", "pipeline"}, incident : 0 .. MaxIncidents]
    BY <1>0, <1>1
  <2>4. ingestFault \in BOOLEAN /\ overlapped \in BOOLEAN
    BY <1>1
  <2>5. clock \in 0 .. MaxClock /\ Len(incidents) <= MaxIncidents
    BY <1>0, <1>1, <2>2
  <2> QED
    BY <2>1, <2>2, <2>3, <2>4, <2>5 DEF IngestionTypeOK
<1>3. DOMAIN incidents = {} /\ DOMAIN alertEvents = {} /\ Len(alertEvents) = 0
  BY <1>1
<1>4. ReferencesInv
  BY <1>1, <1>3 DEF ReferencesInv
<1>5. OneAtATime
  BY <1>1, <1>3 DEF OneAtATime
<1>6. FatesInv
  BY <1>3 DEF FatesInv
<1> QED
  BY <1>2, <1>4, <1>5, <1>6 DEF IngestionInv, CalmInv

\* An incident follows itself.
LEMMA ChainStarts == ASSUME NEW i \in DOMAIN incidents PROVE i \in Chain(i)
BY DEF Chain

\* A chain only grows while correlations are only added.
LEMMA ChainGrows ==
    ASSUME incidents \in Seq(IngestedRow), incidents' \in Seq(IngestedRow), Len(incidents) <= Len(incidents'),
           \A k \in DOMAIN incidents : /\ incidents[k].onto \in {0} \union DOMAIN incidents
                                       /\ incidents'[k].onto = incidents[k].onto \/ incidents[k].onto = 0,
           NEW i \in DOMAIN incidents
    PROVE  Chain(i) \subseteq Chain(i)'
<1>0. DOMAIN incidents \subseteq DOMAIN incidents' /\ 0 \notin DOMAIN incidents /\ 0 \notin DOMAIN incidents'
  OBVIOUS
<1> SUFFICES ASSUME NEW j \in Chain(i), NEW ids \in SUBSET DOMAIN incidents', i \in ids,
                    \A k \in ids : incidents'[k].onto \in ids \union {0}
             PROVE  j \in ids
  BY <1>0 DEF Chain
<1> DEFINE old == ids \cap DOMAIN incidents
<1>1. old \in SUBSET DOMAIN incidents /\ i \in old
  OBVIOUS
<1>2. ASSUME NEW k \in old PROVE incidents[k].onto \in old \union {0}
  BY <1>0
<1>3. j \in old
  BY <1>1, <1>2 DEF Chain
<1> QED
  BY <1>3

\* From an incident one reaches whatever one reaches from the one it is correlated to.
LEMMA ChainFollows ==
    ASSUME incidents \in Seq(IngestedRow), NEW i \in DOMAIN incidents, incidents[i].onto \in DOMAIN incidents
    PROVE  Chain(incidents[i].onto) \subseteq Chain(i)
<1>0. 0 \notin DOMAIN incidents
  OBVIOUS
<1> SUFFICES ASSUME NEW j \in Chain(incidents[i].onto), NEW ids \in SUBSET DOMAIN incidents, i \in ids,
                    \A k \in ids : incidents[k].onto \in ids \union {0}
             PROVE  j \in ids
  BY DEF Chain
<1>1. incidents[i].onto \in ids
  BY <1>0
<1> QED
  BY <1>1 DEF Chain

\* What ends well goes on to.
LEMMA EndsStay ==
    ASSUME incidents \in Seq(IngestedRow), incidents' \in Seq(IngestedRow), Len(incidents) <= Len(incidents'),
           \A k \in DOMAIN incidents : /\ incidents[k].onto \in {0} \union DOMAIN incidents
                                       /\ incidents'[k].onto = incidents[k].onto \/ incidents[k].onto = 0
                                       /\ incidents'[k].software = incidents[k].software
                                       /\ incidents[k].fate = "investigated" => incidents'[k].fate = "investigated",
           NEW i \in DOMAIN incidents, EndsWell(i)
    PROVE  EndsWell(i)'
<1>1. PICK j \in Chain(i) : incidents[j].fate = "investigated" \/ SelfDependent(incidents[j].software)
  BY DEF EndsWell
<1>2. j \in DOMAIN incidents
  BY DEF Chain
<1>3. j \in Chain(i)'
  BY ChainGrows
<1>4. incidents'[j].fate = "investigated" \/ SelfDependent(incidents'[j].software)
  BY <1>1, <1>2
<1> QED
  BY <1>3, <1>4 DEF EndsWell

SenderState == [pc : {"idle", "snapshot", "publish"}, incident : 0 .. MaxIncidents]
CorrelatorState == [pc : {"idle", "service", "cascade", "pipeline"}, incident : 0 .. MaxIncidents]

\* The type invariant, with what it says of the domains.
LEMMA IngestionTypes ==
    ASSUME IngestionInv
    PROVE  /\ sender \in [Senders -> SenderState] /\ \A w \in Senders : sender[w] \in SenderState
           /\ incidents \in Seq(IngestedRow) /\ Len(incidents) \in 0 .. MaxIncidents
           /\ DOMAIN incidents = 1 .. Len(incidents) /\ DOMAIN incidents \subseteq 1 .. MaxIncidents
           /\ \A i \in DOMAIN incidents : incidents[i] \in IngestedRow
           /\ correlator \in CorrelatorState /\ alertEvents \in Seq(1 .. MaxIncidents)
           /\ quarantine \in Seq(QuarantineRow) /\ clock \in 0 .. MaxClock
           /\ ingestFault \in BOOLEAN /\ overlapped \in BOOLEAN
           /\ MaxClock \in Nat /\ MaxIncidents \in Nat
<1>0. MaxClock \in Nat /\ MaxIncidents \in Nat
  BY IngestionAssumption
<1>1. IngestionTypeOK
  BY DEF IngestionInv
<1> QED
  BY <1>0, <1>1 DEF IngestionTypeOK, SenderState, CorrelatorState, IncidentIds

\* The rewrite of a row that keeps its fate and its correlation.
LEMMA TouchKeeps ==
    ASSUME IngestionInv, NEW i \in DOMAIN incidents, NEW row \in IngestedRow,
           incidents' = [incidents EXCEPT ![i] = row], row.fate = incidents[i].fate, row.onto = incidents[i].onto,
           row.software = incidents[i].software
    PROVE  /\ incidents' \in Seq(IngestedRow) /\ Len(incidents') = Len(incidents)
           /\ \A k \in DOMAIN incidents : incidents'[k].fate = incidents[k].fate
           /\ FatesInv => FatesInv'
<1>0. incidents \in Seq(IngestedRow)
  BY IngestionTypes
<1>1. incidents' \in Seq(IngestedRow) /\ Len(incidents') = Len(incidents) /\ DOMAIN incidents' = DOMAIN incidents
  BY <1>0
<1>2. \A k \in DOMAIN incidents : /\ incidents'[k].fate = incidents[k].fate /\ incidents'[k].onto = incidents[k].onto
                                  /\ incidents'[k].software = incidents[k].software
  BY <1>0
<1>3. ASSUME FatesInv, NEW k \in DOMAIN incidents, incidents[k].fate = "correlated" PROVE EndsWell(k)'
  <2>1. EndsWell(k) /\ \A j \in DOMAIN incidents : incidents[j].onto \in {0} \union DOMAIN incidents
    BY <1>3 DEF FatesInv
  <2> QED
    BY <1>0, <1>1, <1>2, <2>1, EndsStay
<1> QED
  BY <1>1, <1>2, <1>3 DEF FatesInv

\* The incident under way gets another fate, or is correlated to one that ended well.
LEMMA SettleKeeps ==
    ASSUME IngestionInv, FatesInv, NEW i \in DOMAIN incidents, incidents[i].fate \notin Settled,
           NEW row \in IngestedRow, incidents' = [incidents EXCEPT ![i] = row], row.fate # "failed",
           row.fate # "correlated" => row.onto = 0, row.software = incidents[i].software,
           row.fate = "correlated" =>
              /\ row.onto \in DOMAIN incidents
              /\ \/ row.onto = i /\ SelfDependent(row.software)
                 \/ row.onto # i /\ incidents[row.onto].fate \in Settled
    PROVE  FatesInv'
<1>0. incidents \in Seq(IngestedRow) /\ row.onto \in Nat
  BY IngestionTypes DEF IngestedRow
<1>1. incidents' \in Seq(IngestedRow) /\ Len(incidents') = Len(incidents) /\ DOMAIN incidents' = DOMAIN incidents
      /\ incidents'[i] = row /\ \A k \in DOMAIN incidents : k # i => incidents'[k] = incidents[k]
  BY <1>0
<1>2. incidents[i].onto = 0 /\ incidents[i].fate # "investigated" /\ incidents[i].fate # "correlated"
  BY DEF FatesInv, Settled
<1>3. \A k \in DOMAIN incidents : /\ incidents[k].onto \in {0} \union DOMAIN incidents
                                  /\ incidents'[k].onto = incidents[k].onto \/ incidents[k].onto = 0
                                  /\ incidents'[k].software = incidents[k].software
                                  /\ incidents[k].fate = "investigated" => incidents'[k].fate = "investigated"
  BY <1>1, <1>2 DEF FatesInv
<1>4. \A k \in DOMAIN incidents : EndsWell(k) => EndsWell(k)'
  BY <1>0, <1>1, <1>3, EndsStay
<1>5. ASSUME row.fate = "correlated" PROVE EndsWell(i)'
  <2>1. CASE row.onto = i /\ SelfDependent(row.software)
    <3>1. i \in Chain(i)'
      BY <1>1, ChainStarts DEF Chain
    <3> QED
      BY <1>1, <2>1, <3>1 DEF EndsWell
  <2>2. CASE row.onto # i /\ incidents[row.onto].fate \in Settled
    <3>o. PICK o : o = row.onto
      OBVIOUS
    <3>1. o \in DOMAIN incidents /\ o # i /\ incidents'[o] = incidents[o] /\ incidents[o].fate \in Settled
      BY <1>1, <1>5, <2>2, <3>o
    <3>2. EndsWell(o)'
      <4>1. CASE incidents[o].fate = "correlated"
        BY <1>4, <3>1, <4>1 DEF FatesInv
      <4>2. CASE incidents[o].fate = "investigated"
        <5>1. o \in Chain(o)'
          BY <1>1, <3>1 DEF Chain
        <5> QED
          BY <3>1, <4>2, <5>1 DEF EndsWell
      <4> QED
        BY <3>1, <4>1, <4>2 DEF FatesInv, Settled
    <3>3. Chain(o)' \subseteq Chain(i)'
      <4>1. \A j \in DOMAIN incidents', ids \in SUBSET DOMAIN incidents' :
               i \in ids /\ (\A k \in ids : incidents'[k].onto \in ids \union {0}) => o \in ids
        BY <1>0, <1>1, <3>o, <3>1
      <4> QED
        BY <4>1 DEF Chain
    <3> QED
      BY <3>2, <3>3 DEF EndsWell
  <2> QED
    BY <1>5, <2>1, <2>2
<1> QED
  BY <1>1, <1>4, <1>5 DEF FatesInv

\* The steps of a request.
LEMMA SenderKeeps ==
    ASSUME IngestionInv, NEW w \in Senders,
           \/ \E p \in Payloads, s \in Services \union {Unset} : IngestAlert(w, p, s)
           \/ Ingest(w)
           \/ IngestionFails(w)
    PROVE  IngestionInv'
<1>0. /\ sender \in [Senders -> SenderState] /\ \A v \in Senders : sender[v] \in SenderState
      /\ incidents \in Seq(IngestedRow) /\ Len(incidents) \in 0 .. MaxIncidents
      /\ DOMAIN incidents = 1 .. Len(incidents) /\ DOMAIN incidents \subseteq 1 .. MaxIncidents
      /\ \A i \in DOMAIN incidents : incidents[i] \in IngestedRow
      /\ correlator \in CorrelatorState /\ alertEvents \in Seq(1 .. MaxIncidents)
      /\ quarantine \in Seq(QuarantineRow) /\ clock \in 0 .. MaxClock
      /\ ingestFault \in BOOLEAN /\ overlapped \in BOOLEAN /\ MaxClock \in Nat /\ MaxIncidents \in Nat
  BY IngestionTypes
<1>i. IngestionTypeOK /\ ReferencesInv /\ (~ingestFault /\ ~overlapped => CalmInv)
  BY DEF IngestionInv
<1>1. ASSUME NEW p \in Payloads, NEW s \in Services, CreatesIncident(w, p, s), UNCHANGED alertEvents, WorkerUnchanged
      PROVE  IngestionInv'
  <2> DEFINE row == NewIncident(s, p)
  <2>r. row \in IngestedRow /\ row.fate = "new" /\ row.onto = 0
    BY <1>0 DEF NewIncident, IngestedRow
  <2>1. Len(incidents) < MaxIncidents /\ incidents' = Append(incidents, row)
    BY <1>1 DEF CreatesIncident
  <2> HIDE DEF row
  <2>l. Len(incidents) \in Nat
    BY <1>0
  <2>n. PICK n \in Nat : n = Len(incidents)
    BY <2>l
  <2>2. sender' = [sender EXCEPT ![w] = [pc |-> "snapshot", incident |-> n + 1]]
    BY <1>1, <2>n DEF CreatesIncident
  <2>3. overlapped' = (overlapped \/ \E i \in DOMAIN incidents : incidents[i].fate \notin Settled)
    BY <1>1 DEF CreatesIncident
  <2>4. UNCHANGED <<quarantine, ingestFault, alertEvents, clock, correlator>>
    BY <1>1 DEF CreatesIncident, WorkerUnchanged
  <2>5. /\ incidents' \in Seq(IngestedRow) /\ Len(incidents') = n + 1 /\ incidents'[n + 1] = row
        /\ DOMAIN incidents = 1 .. n /\ DOMAIN incidents' = 1 .. n + 1
        /\ \A i \in DOMAIN incidents : incidents'[i] = incidents[i]
    BY <1>0, <2>1, <2>n, <2>r
  <2>6. /\ sender' \in [Senders -> SenderState] /\ sender'[w] = [pc |-> "snapshot", incident |-> n + 1]
        /\ \A v \in Senders : v # w => sender'[v] = sender[v]
    <3>1. [pc |-> "snapshot", incident |-> n + 1] \in SenderState
      BY <1>0, <2>1, <2>n DEF SenderState
    <3> QED
      BY <1>0, <2>2, <3>1
  <2>7. IngestionTypeOK'
    <3>1. overlapped' \in BOOLEAN
      BY <2>3
    <3>2. Len(incidents') <= MaxIncidents
      BY <1>0, <2>1, <2>n, <2>5
    <3> QED
      BY <1>i, <2>4, <2>5, <2>6, <3>1, <3>2 DEF IngestionTypeOK, SenderState
  <2>8. ReferencesInv'
    <3>1. DOMAIN incidents \subseteq DOMAIN incidents' /\ n + 1 \in DOMAIN incidents'
      BY <2>5
    <3> QED
      BY <1>i, <2>4, <2>6, <3>1 DEF ReferencesInv
  <2>9. ASSUME ~ingestFault', ~overlapped' PROVE CalmInv'
    <3>1. CalmInv /\ \A i \in DOMAIN incidents : incidents[i].fate \in Settled
      BY <1>i, <2>3, <2>4, <2>9
    <3>2. (\A v \in Senders : sender[v].pc = "idle") /\ DOMAIN alertEvents = {} /\ correlator.pc = "idle"
      BY <1>i, <3>1 DEF CalmInv, OneAtATime, ReferencesInv, Settled
    <3>3. OneAtATime'
      <4>1. \A i \in DOMAIN incidents' : incidents'[i].fate \notin Settled => i = n + 1
        BY <2>5, <3>1
      <4> QED
        BY <2>4, <2>5, <2>6, <2>r, <3>1, <3>2, <4>1 DEF CalmInv, OneAtATime
    <3>4. FatesInv'
      <4>1. \A k \in DOMAIN incidents : EndsWell(k) => EndsWell(k)'
        <5>1. \A k \in DOMAIN incidents : incidents[k].onto \in {0} \union DOMAIN incidents
          BY <3>1 DEF CalmInv, FatesInv
        <5> QED
          BY <1>0, <2>n, <2>5, <5>1, EndsStay
      <4> QED
        BY <2>5, <2>r, <3>1, <4>1 DEF CalmInv, FatesInv
    <3> QED
      BY <3>3, <3>4 DEF CalmInv
  <2> QED
    BY <2>7, <2>8, <2>9 DEF IngestionInv
<1>2. ASSUME NEW p \in Payloads, Quarantines(p), UNCHANGED alertEvents, WorkerUnchanged
      PROVE  IngestionInv'
  <2>1. UNCHANGED <<sender, incidents, overlapped, alertEvents, clock, correlator>>
    BY <1>2 DEF Quarantines, WorkerUnchanged
  <2>2. quarantine' \in Seq(QuarantineRow)
    <3> DEFINE row == [payload |-> p, resolved |-> FALSE, reingested |-> FALSE]
    <3>1. row \in QuarantineRow
      BY DEF QuarantineRow
    <3>2. quarantine' = Append(quarantine, row) \/ quarantine' = quarantine
      BY <1>2 DEF Quarantines
    <3> HIDE DEF row
    <3>3. quarantine \in Seq(QuarantineRow)
      BY <1>0
    <3> QED
      BY <3>1, <3>2, <3>3
  <2>3. ingestFault' \in BOOLEAN /\ (~ingestFault' => ~ingestFault)
    <3>1. ingestFault' = ingestFault \/ ingestFault' = TRUE
      BY <1>2 DEF Quarantines, Fails
    <3>2. ingestFault \in BOOLEAN
      BY <1>0
    <3>3. CASE ingestFault' = TRUE
      BY <3>3
    <3>4. CASE ingestFault' = ingestFault
      BY <3>2, <3>4
    <3> QED
      BY <3>1, <3>3, <3>4
  <2>4. IngestionTypeOK'
    BY <1>i, <2>1, <2>2, <2>3 DEF IngestionTypeOK
  <2>5. ReferencesInv'
    BY <1>i, <2>1 DEF ReferencesInv
  <2>6. CalmInv => CalmInv'
    BY <2>1 DEF CalmInv, OneAtATime, FatesInv, EndsWell, Chain
  <2> QED
    BY <1>i, <2>1, <2>3, <2>4, <2>5, <2>6 DEF IngestionInv
<1>3. ASSUME NEW p \in Payloads, NEW s \in Services \union {Unset}, IngestAlert(w, p, s) PROVE IngestionInv'
  <2>1. UNCHANGED alertEvents /\ WorkerUnchanged
    BY <1>3 DEF IngestAlert
  <2>2. MatchSoftware(p, s) \subseteq Services
    BY DEF MatchSoftware, FindBySlugOrTag
  <2>3. Quarantines(p) \/ \E t \in MatchSoftware(p, s) : CreatesIncident(w, p, t)
    BY <1>3 DEF IngestAlert
  <2> QED
    BY <1>1, <1>2, <2>1, <2>2, <2>3
<1>4. CASE StoresSnapshot(w)
  <2>i. PICK i : i = sender[w].incident
    OBVIOUS
  <2>1. i \in DOMAIN incidents
    BY <1>i, <1>4, <2>i DEF StoresSnapshot, ReferencesInv
  <2> DEFINE row == [incidents[i] EXCEPT !.snapshot = TRUE]
  <2>2. row \in IngestedRow /\ row.fate = incidents[i].fate /\ row.onto = incidents[i].onto
        /\ row.software = incidents[i].software
    BY <1>0, <2>1 DEF IngestedRow
  <2>3. incidents' = [incidents EXCEPT ![i] = row]
    BY <1>4, <2>i DEF StoresSnapshot
  <2> HIDE DEF row
  <2>4. /\ incidents' \in Seq(IngestedRow) /\ Len(incidents') = Len(incidents)
        /\ \A k \in DOMAIN incidents : incidents'[k].fate = incidents[k].fate
        /\ FatesInv => FatesInv'
    BY <2>1, <2>2, <2>3, TouchKeeps
  <2>5. DOMAIN incidents' = DOMAIN incidents
    BY <2>3
  <2>6. /\ sender' = [sender EXCEPT ![w].pc = "publish"] /\ sender[w].pc = "snapshot"
        /\ UNCHANGED <<quarantine, alertEvents, ingestFault, overlapped, clock, correlator>>
    BY <1>4 DEF StoresSnapshot, WorkerUnchanged
  <2>7. /\ sender' \in [Senders -> SenderState] /\ sender'[w].incident = i
        /\ \A v \in Senders : sender'[v].incident = sender[v].incident /\ (sender'[v].pc = "idle" <=> sender[v].pc = "idle")
    <3>1. [sender[w] EXCEPT !.pc = "publish"] \in SenderState
      BY <1>0 DEF SenderState
    <3>2. sender' = [sender EXCEPT ![w] = [sender[w] EXCEPT !.pc = "publish"]]
      BY <2>6
    <3> QED
      BY <1>0, <2>i, <2>6, <3>1, <3>2 DEF SenderState
  <2>8. IngestionTypeOK'
    BY <1>i, <2>4, <2>6, <2>7 DEF IngestionTypeOK, SenderState
  <2>9. ReferencesInv'
    BY <1>i, <2>5, <2>6, <2>7 DEF ReferencesInv
  <2>10. OneAtATime => OneAtATime'
    BY SMTT(30), <1>i, <2>4, <2>5, <2>6, <2>7 DEF OneAtATime, ReferencesInv
  <2> QED
    BY <1>i, <2>4, <2>6, <2>8, <2>9, <2>10 DEF IngestionInv, CalmInv
<1>5. CASE PublishesAlert(w)
  <2>i. PICK i : i = sender[w].incident
    OBVIOUS
  <2>1. i \in DOMAIN incidents
    BY <1>i, <1>5, <2>i DEF PublishesAlert, ReferencesInv
  <2> DEFINE row == [incidents[i] EXCEPT !.fate = "queued"]
  <2>2. row \in IngestedRow /\ row.fate = "queued" /\ row.onto = incidents[i].onto
        /\ row.software = incidents[i].software
    BY <1>0, <2>1 DEF IngestedRow
  <2>3. incidents' = [incidents EXCEPT ![i] = row]
    BY <1>5, <2>i DEF PublishesAlert
  <2> HIDE DEF row
  <2>4. /\ incidents' \in Seq(IngestedRow) /\ Len(incidents') = Len(incidents) /\ DOMAIN incidents' = DOMAIN incidents
        /\ incidents'[i].fate = "queued" /\ \A k \in DOMAIN incidents : k # i => incidents'[k] = incidents[k]
    BY <1>0, <2>1, <2>2, <2>3
  <2>6. /\ sender' = [sender EXCEPT ![w] = [pc |-> "idle", incident |-> 0]] /\ sender[w].pc = "publish"
        /\ alertEvents' = Append(alertEvents, i)
        /\ UNCHANGED <<quarantine, ingestFault, overlapped, clock, correlator>>
    BY <1>5, <2>i DEF PublishesAlert, WorkerUnchanged
  <2>7. /\ sender' \in [Senders -> SenderState] /\ sender'[w].pc = "idle"
        /\ \A v \in Senders : v # w => sender'[v] = sender[v]
    <3>1. [pc |-> "idle", incident |-> 0] \in SenderState
      BY <1>0 DEF SenderState
    <3> QED
      BY <1>0, <2>6, <3>1
  <2>e. /\ alertEvents' \in Seq(1 .. MaxIncidents) /\ \A k \in DOMAIN alertEvents' : alertEvents'[k] = i \/ k \in DOMAIN alertEvents
        /\ \A k \in DOMAIN alertEvents : alertEvents'[k] = alertEvents[k]
        /\ Len(alertEvents') = Len(alertEvents) + 1
    BY <1>0, <2>1, <2>6
  <2>8. IngestionTypeOK'
    BY <1>i, <2>4, <2>6, <2>7, <2>e DEF IngestionTypeOK, SenderState, IncidentIds
  <2>9. ReferencesInv'
    BY <1>i, <2>1, <2>4, <2>6, <2>7, <2>e DEF ReferencesInv
  <2>10. ASSUME CalmInv PROVE CalmInv'
    <3>1. incidents[i].fate = "new" /\ incidents[i].onto = 0
      BY <1>i, <2>1, <2>10, <2>i, <2>6 DEF CalmInv, OneAtATime, FatesInv
    <3>2. (\A v \in Senders : v # w => sender[v].pc = "idle") /\ DOMAIN alertEvents = {} /\ correlator.pc = "idle"
      BY <1>i, <2>1, <2>10, <2>6, <3>1 DEF CalmInv, OneAtATime, ReferencesInv, Settled
    <3>3. FatesInv'
      BY <2>1, <2>2, <2>3, <2>10, <3>1, SettleKeeps DEF CalmInv, Settled
    <3>4. OneAtATime'
      <4>1. \A k \in DOMAIN incidents' : incidents'[k].fate \notin Settled => k = i
        BY <2>1, <2>4, <2>10, <3>1 DEF CalmInv, OneAtATime, Settled
      <4>2. Len(alertEvents') <= 1
        <5>1. Len(alertEvents) = 0
          BY <1>0, <3>2
        <5> QED
          BY <2>e, <5>1
      <4> QED
        BY <2>4, <2>6, <2>7, <2>e, <3>2, <4>1, <4>2 DEF OneAtATime
    <3> QED
      BY <3>3, <3>4 DEF CalmInv
  <2> QED
    BY <1>i, <2>6, <2>8, <2>9, <2>10 DEF IngestionInv
<1>6. CASE IngestionFails(w)
  <2>1. ingestFault' = TRUE /\ UNCHANGED <<incidents, quarantine, alertEvents, overlapped, clock, correlator>>
        /\ sender' = [sender EXCEPT ![w] = [pc |-> "idle", incident |-> 0]]
    BY <1>6 DEF IngestionFails, Fails, WorkerUnchanged
  <2>2. /\ sender' \in [Senders -> SenderState] /\ sender'[w].pc = "idle"
        /\ \A v \in Senders : v # w => sender'[v] = sender[v]
    <3>1. [pc |-> "idle", incident |-> 0] \in SenderState
      BY <1>0 DEF SenderState
    <3> QED
      BY <1>0, <2>1, <3>1
  <2>3. IngestionTypeOK'
    BY <1>i, <2>1, <2>2 DEF IngestionTypeOK, SenderState
  <2>4. ReferencesInv'
    BY <1>i, <2>1, <2>2 DEF ReferencesInv
  <2> QED
    BY <2>1, <2>3, <2>4 DEF IngestionInv
<1> QED
  BY <1>3, <1>4, <1>5, <1>6 DEF Ingest

\* A step that leaves requests, incidents, events and the worker alone.
LEMMA AsideKeeps ==
    ASSUME IngestionInv, UNCHANGED <<sender, incidents, alertEvents, correlator, ingestFault, overlapped>>,
           clock' \in 0 .. MaxClock, quarantine' \in Seq(QuarantineRow)
    PROVE  IngestionInv'
<1>1. IngestionTypeOK'
  BY DEF IngestionInv, IngestionTypeOK
<1>2. ReferencesInv'
  BY DEF IngestionInv, ReferencesInv
<1>3. CalmInv => CalmInv'
  BY DEF CalmInv, OneAtATime, FatesInv, EndsWell, Chain
<1> QED
  BY <1>1, <1>2, <1>3 DEF IngestionInv

\* The worker goes on to the next check of its alert.
LEMMA ProceedKeeps ==
    ASSUME IngestionInv, NEW pc \in {"service", "cascade", "pipeline"}, correlator.pc # "idle",
           correlator' = [correlator EXCEPT !.pc = pc], ingestFault' \in BOOLEAN, ~ingestFault' => ~ingestFault,
           UNCHANGED <<incidents, alertEvents>>, BackendUnchanged
    PROVE  IngestionInv'
<1>0. correlator \in CorrelatorState
  BY IngestionTypes
<1>1. correlator' \in CorrelatorState /\ correlator'.pc # "idle" /\ correlator'.incident = correlator.incident
  BY <1>0 DEF CorrelatorState
<1>2. UNCHANGED <<incidents, alertEvents, clock, sender, quarantine, overlapped>>
  BY DEF BackendUnchanged
<1>3. IngestionTypeOK'
  BY <1>1, <1>2 DEF IngestionInv, IngestionTypeOK, CorrelatorState
<1>4. ReferencesInv'
  BY <1>1, <1>2 DEF IngestionInv, ReferencesInv
<1>5. FatesInv => FatesInv'
  BY <1>2 DEF FatesInv, EndsWell, Chain
<1>6. OneAtATime => OneAtATime'
  BY <1>1, <1>2 DEF OneAtATime
<1> QED
  BY <1>2, <1>3, <1>4, <1>5, <1>6 DEF IngestionInv, CalmInv

\* The worker is done with its alert: the row of the incident says how.
LEMMA EndKeeps ==
    ASSUME IngestionInv, NEW i \in DOMAIN incidents, i = correlator.incident, correlator.pc # "idle",
           NEW row \in IngestedRow, incidents' = [incidents EXCEPT ![i] = row], row.fate \in Settled,
           row.software = incidents[i].software,
           row.fate # "correlated" => row.onto = incidents[i].onto,
           row.fate = "failed" => ingestFault',
           row.fate = "correlated" => row.onto \in DOMAIN incidents /\ (row.onto = i => SelfDependent(row.software)),
           correlator' = [pc |-> "idle", incident |-> 0],
           ingestFault' \in BOOLEAN, ~ingestFault' => ~ingestFault, UNCHANGED alertEvents, BackendUnchanged
    PROVE  IngestionInv'
<1>0. /\ incidents \in Seq(IngestedRow) /\ MaxIncidents \in Nat
  BY IngestionTypes
<1>1. UNCHANGED <<alertEvents, clock, sender, quarantine, overlapped>>
  BY DEF BackendUnchanged
<1>2. /\ incidents' \in Seq(IngestedRow) /\ Len(incidents') = Len(incidents) /\ DOMAIN incidents' = DOMAIN incidents
      /\ incidents'[i] = row /\ \A k \in DOMAIN incidents : k # i => incidents'[k] = incidents[k]
  BY <1>0
<1>3. correlator' \in CorrelatorState /\ correlator'.pc = "idle"
  BY <1>0 DEF CorrelatorState
<1>4. IngestionTypeOK'
  BY <1>1, <1>2, <1>3 DEF IngestionInv, IngestionTypeOK, CorrelatorState
<1>5. ReferencesInv'
  BY <1>1, <1>2, <1>3 DEF IngestionInv, ReferencesInv
<1>6. ASSUME ~ingestFault', ~overlapped' PROVE CalmInv'
  <2>1. OneAtATime /\ FatesInv /\ ReferencesInv
    BY <1>1, <1>6 DEF IngestionInv, CalmInv
  <2>2. incidents[i].fate = "queued" /\ incidents[i].onto = 0 /\ incidents[i].fate \notin Settled /\ alertEvents = <<>>
    BY <2>1 DEF OneAtATime, FatesInv, Settled
  <2>3. \A k \in DOMAIN incidents : k # i => incidents[k].fate \in Settled
    BY <2>1, <2>2 DEF OneAtATime
  <2>4. FatesInv'
    BY <1>6, <2>1, <2>2, <2>3, SettleKeeps
  <2>5. \A w \in Senders : sender[w].pc = "idle"
    <3>1. ASSUME NEW w \in Senders, sender[w].pc # "idle" PROVE FALSE
      <4>1. sender[w].incident \in DOMAIN incidents /\ incidents[sender[w].incident].fate = "new"
        BY <2>1, <3>1 DEF OneAtATime, ReferencesInv
      <4> QED
        BY <2>2, <2>3, <4>1 DEF Settled
    <3> QED
      BY <3>1
  <2>6. OneAtATime'
    <3>1. \A k \in DOMAIN incidents' : incidents'[k].fate \in Settled
      BY <1>2, <2>3
    <3>2. DOMAIN alertEvents' = {} /\ Len(alertEvents') = 0
      BY <1>1, <2>2
    <3>3. sender' = sender /\ alertEvents' = <<>>
      BY <1>1, <2>2
    <3> QED
      BY <1>3, <2>5, <3>1, <3>2, <3>3 DEF OneAtATime
  <2> QED
    BY <2>4, <2>6 DEF CalmInv
<1> QED
  BY <1>4, <1>5, <1>6 DEF IngestionInv

\* The steps of the worker.
LEMMA CorrelateKeeps ==
    ASSUME IngestionInv, Correlate \/ LookupFails
    PROVE  IngestionInv'
<1>0. /\ incidents \in Seq(IngestedRow) /\ MaxIncidents \in Nat /\ Len(incidents) \in Nat
      /\ DOMAIN incidents = 1 .. Len(incidents)
      /\ \A i \in DOMAIN incidents : incidents[i] \in IngestedRow
      /\ correlator \in CorrelatorState /\ alertEvents \in Seq(1 .. MaxIncidents)
      /\ ingestFault \in BOOLEAN
  BY IngestionTypes
<1>i. IngestionTypeOK /\ ReferencesInv /\ (~ingestFault /\ ~overlapped => CalmInv)
  BY DEF IngestionInv
<1>1. CASE TakeAlert
  <2>1. /\ correlator.pc = "idle" /\ alertEvents # <<>> /\ alertEvents' = Tail(alertEvents)
        /\ correlator' = [pc |-> "service", incident |-> Head(alertEvents)]
        /\ UNCHANGED <<incidents, ingestFault, clock, sender, quarantine, overlapped>>
    BY <1>1 DEF TakeAlert, BackendUnchanged
  <2>2. /\ Len(alertEvents) \in Nat /\ Len(alertEvents) > 0 /\ 1 \in DOMAIN alertEvents
        /\ Head(alertEvents) = alertEvents[1] /\ Head(alertEvents) \in 1 .. MaxIncidents
        /\ alertEvents' \in Seq(1 .. MaxIncidents) /\ Len(alertEvents') = Len(alertEvents) - 1
        /\ \A k \in DOMAIN alertEvents' : k + 1 \in DOMAIN alertEvents /\ alertEvents'[k] = alertEvents[k + 1]
    BY <1>0, <2>1
  <2>3. correlator' \in CorrelatorState /\ correlator'.pc = "service" /\ correlator'.incident = alertEvents[1]
    BY <1>0, <2>1, <2>2 DEF CorrelatorState
  <2>4. IngestionTypeOK'
    BY <1>i, <2>1, <2>2, <2>3 DEF IngestionTypeOK, CorrelatorState, IncidentIds
  <2>5. ReferencesInv'
    BY <1>i, <2>1, <2>2, <2>3 DEF ReferencesInv
  <2>6. ASSUME CalmInv PROVE CalmInv'
    <3>1. FatesInv'
      BY <2>1, <2>6 DEF CalmInv, FatesInv, EndsWell, Chain
    <3>2. OneAtATime'
      <4>1. Len(alertEvents') <= 1 /\ alertEvents' = <<>> /\ DOMAIN alertEvents' = {}
        BY <2>2, <2>6 DEF CalmInv, OneAtATime
      <4> QED
        BY <2>1, <2>2, <2>3, <2>6, <4>1 DEF CalmInv, OneAtATime
    <3> QED
      BY <3>1, <3>2 DEF CalmInv
  <2> QED
    BY <1>i, <2>1, <2>4, <2>5, <2>6 DEF IngestionInv
<1>2. ASSUME NEW j, SettlesOnto(correlator.incident, j), correlator.pc # "idle", j \in DOMAIN incidents,
             j = correlator.incident => SelfDependent(incidents[j].software)
      PROVE  IngestionInv'
  <2>i. PICK i : i = correlator.incident
    OBVIOUS
  <2>1. i \in DOMAIN incidents
    BY <1>i, <1>2, <2>i DEF ReferencesInv
  <2> DEFINE row == [incidents[i] EXCEPT !.fate = "correlated", !.onto = j]
  <2>2. row \in IngestedRow /\ row.fate = "correlated" /\ row.onto = j /\ row.software = incidents[i].software
    <3>1. incidents[i] \in IngestedRow /\ j \in Nat
      BY <1>0, <1>2, <2>1
    <3> QED
      BY <3>1 DEF IngestedRow, Settled
  <2>3. incidents' = [incidents EXCEPT ![i] = row]
    BY <1>2, <2>i DEF SettlesOnto
  <2>4. correlator' = [pc |-> "idle", incident |-> 0] /\ UNCHANGED <<alertEvents, ingestFault>> /\ BackendUnchanged
    BY <1>2 DEF SettlesOnto
  <2> HIDE DEF row
  <2>5. row.fate \in Settled /\ row.fate # "failed"
    BY <2>2 DEF Settled
  <2>6. ingestFault' \in BOOLEAN /\ (~ingestFault' => ~ingestFault)
    BY <1>0, <2>4
  <2> QED
    BY <1>2, <2>i, <2>1, <2>2, <2>3, <2>4, <2>5, <2>6, EndKeeps
<1>3. CASE CheckSameService
  <2>1. correlator.pc = "service"
    BY <1>3 DEF CheckSameService
  <2>2. \A j \in FingerprintMatch(correlator.incident) \union ServiceMatch(correlator.incident) :
           j \in DOMAIN incidents /\ j # correlator.incident
    BY DEF FingerprintMatch, FindIncidentByFingerprint, ServiceMatch, MostRecent, ListOpenBySoftware
  <2>3. CASE Proceeds("cascade")
    BY <1>0, <2>1, <2>3, ProceedKeeps DEF Proceeds
  <2>4. ASSUME NEW j \in FingerprintMatch(correlator.incident) \union ServiceMatch(correlator.incident),
               SettlesOnto(correlator.incident, j)
        PROVE  IngestionInv'
    BY <1>2, <2>1, <2>2, <2>4
  <2> QED
    BY <1>3, <2>3, <2>4 DEF CheckSameService
<1>4. CASE CheckCascade
  <2>i. PICK i : i = correlator.incident
    OBVIOUS
  <2>1. correlator.pc = "cascade" /\ i \in DOMAIN incidents
    BY <1>4, <1>i, <2>i DEF CheckCascade, ReferencesInv
  <2>2. PICK related \in GetDependencyGraph(incidents[i].software) :
           \/ \E j \in CascadeMatch(i, related) : SettlesOnto(i, j)
           \/ CascadeMatch(i, related) = {} /\ Proceeds("pipeline")
    BY <1>4, <2>i DEF CheckCascade
  <2>3. CASE Proceeds("pipeline")
    BY <1>0, <2>1, <2>3, ProceedKeeps DEF Proceeds
  <2>4. ASSUME NEW j \in CascadeMatch(i, related), SettlesOnto(i, j) PROVE IngestionInv'
    <3>1. j \in DOMAIN incidents /\ incidents[j].software \in related
      BY DEF CascadeMatch, MostRecent, ListOpenBySoftware
    <3>2. j = i => SelfDependent(incidents[j].software)
      BY <2>2, <3>1 DEF SelfDependent
    <3> QED
      BY <1>2, <2>1, <2>i, <2>4, <3>1, <3>2
  <2> QED
    BY <2>2, <2>3, <2>4
<1>5. CASE PipelineEnds
  <2>i. PICK i : i = correlator.incident
    OBVIOUS
  <2>1. i \in DOMAIN incidents /\ correlator.pc = "pipeline"
    BY <1>i, <1>5, <2>i DEF PipelineEnds, ReferencesInv
  <2>2. correlator' = [pc |-> "idle", incident |-> 0] /\ UNCHANGED alertEvents /\ BackendUnchanged
    BY <1>5 DEF PipelineEnds
  <2>3. PICK fate : /\ incidents' = [incidents EXCEPT ![i].fate = fate]
                    /\ \/ fate = "investigated" /\ UNCHANGED ingestFault
                       \/ fate = "failed" /\ ingestFault' = TRUE
    BY <1>5, <2>i DEF PipelineEnds, Fails
  <2> DEFINE row == [incidents[i] EXCEPT !.fate = fate]
  <2>4. row \in IngestedRow /\ row.fate = fate /\ row.onto = incidents[i].onto /\ row.software = incidents[i].software
        /\ row.fate \in Settled /\ row.fate # "correlated"
    BY <1>0, <2>1, <2>3 DEF IngestedRow, Settled
  <2>5. incidents' = [incidents EXCEPT ![i] = row]
    BY <2>3
  <2> HIDE DEF row
  <2>6. ingestFault' \in BOOLEAN /\ (~ingestFault' => ~ingestFault) /\ (row.fate = "failed" => ingestFault')
    <3>1. ingestFault \in BOOLEAN
      BY <1>0
    <3>2. CASE ingestFault' = TRUE
      BY <3>2
    <3>3. CASE ingestFault' = ingestFault /\ fate = "investigated"
      BY <2>4, <3>1, <3>3
    <3> QED
      BY <2>3, <3>2, <3>3
  <2> QED
    BY <2>i, <2>1, <2>2, <2>4, <2>5, <2>6, EndKeeps
<1>6. CASE LookupFails
  <2>1. correlator.pc \in {"service", "cascade"} /\ ingestFault' = TRUE /\ UNCHANGED <<incidents, alertEvents>>
        /\ BackendUnchanged
    BY <1>6 DEF LookupFails, Fails
  <2>2. PICK pc \in {"service", "cascade", "pipeline"} : correlator' = [correlator EXCEPT !.pc = pc]
    <3>1. CASE correlator.pc = "service"
      BY <1>6, <3>1 DEF LookupFails
    <3>2. CASE correlator.pc # "service"
      BY <1>6, <3>2 DEF LookupFails
    <3> QED
      BY <3>1, <3>2
  <2>3. ingestFault' \in BOOLEAN /\ (~ingestFault' => ~ingestFault) /\ correlator.pc # "idle"
    BY <2>1
  <2> QED
    BY <2>1, <2>2, <2>3, ProceedKeeps
<1> QED
  BY <1>1, <1>3, <1>4, <1>5, <1>6 DEF Correlate

LEMMA IngestionKeeps ==
    ASSUME IngestionInv, [IngestionNext]_ingestionVars
    PROVE  IngestionInv'
<1>0. /\ clock \in 0 .. MaxClock /\ MaxClock \in Nat /\ quarantine \in Seq(QuarantineRow)
      /\ incidents \in Seq(IngestedRow) /\ \A i \in DOMAIN incidents : incidents[i] \in IngestedRow
  BY IngestionTypes
<1>1. ASSUME NEW q \in DOMAIN quarantine, ResolveQuarantine(q) PROVE IngestionInv'
  <2> DEFINE row == [quarantine[q] EXCEPT !.resolved = TRUE, !.reingested = ValidToken(Unset)]
  <2>1. quarantine' = [quarantine EXCEPT ![q] = row]
    BY <1>1 DEF ResolveQuarantine
  <2>2. row \in QuarantineRow
    <3>1. quarantine[q] \in QuarantineRow
      BY <1>0
    <3>2. ValidToken(Unset) \in BOOLEAN
      BY DEF ValidToken
    <3> QED
      BY <3>1, <3>2 DEF QuarantineRow
  <2> HIDE DEF row
  <2>3. quarantine' \in Seq(QuarantineRow)
    BY <1>0, <2>1, <2>2
  <2>4. UNCHANGED <<sender, incidents, alertEvents, correlator, ingestFault, overlapped>> /\ clock' = clock
    BY <1>1 DEF ResolveQuarantine, WorkerUnchanged
  <2> QED
    BY <1>0, <2>3, <2>4, AsideKeeps
<1>2. ASSUME NEW i \in DOMAIN incidents, CloseIncident(i) PROVE IngestionInv'
  <2> DEFINE row == [incidents[i] EXCEPT !.open = FALSE]
  <2>1. row \in IngestedRow /\ row.fate = incidents[i].fate /\ row.onto = incidents[i].onto
        /\ row.software = incidents[i].software
    BY <1>0 DEF IngestedRow
  <2>2. incidents' = [incidents EXCEPT ![i] = row]
        /\ UNCHANGED <<clock, sender, quarantine, alertEvents, correlator, ingestFault, overlapped>>
    BY <1>2 DEF CloseIncident
  <2> HIDE DEF row
  <2>3. /\ incidents' \in Seq(IngestedRow) /\ Len(incidents') = Len(incidents) /\ DOMAIN incidents' = DOMAIN incidents
        /\ \A k \in DOMAIN incidents : incidents'[k].fate = incidents[k].fate
        /\ FatesInv => FatesInv'
    BY <2>1, <2>2, TouchKeeps
  <2>4. IngestionTypeOK'
    BY <2>2, <2>3 DEF IngestionInv, IngestionTypeOK
  <2>5. ReferencesInv'
    BY <2>2, <2>3 DEF IngestionInv, ReferencesInv
  <2>6. OneAtATime => OneAtATime'
    <3>1. ReferencesInv
      BY DEF IngestionInv
    <3> QED
      BY <2>2, <2>3, <3>1 DEF OneAtATime, ReferencesInv
  <2> QED
    BY <2>2, <2>3, <2>4, <2>5, <2>6 DEF IngestionInv, CalmInv
<1>3. CASE Tick
  <2>1. clock' \in 0 .. MaxClock /\ UNCHANGED <<sender, incidents, quarantine, alertEvents, correlator, ingestFault, overlapped>>
    BY <1>0, <1>3 DEF Tick
  <2> QED
    BY <1>0, <2>1, AsideKeeps
<1>4. CASE UNCHANGED ingestionVars
  BY <1>0, <1>4, AsideKeeps DEF ingestionVars
<1> QED
  BY <1>1, <1>2, <1>3, <1>4, SenderKeeps, CorrelateKeeps DEF IngestionNext

\* The invariant holds of every behaviour.
LEMMA IngestionInductive == IngestionSpec => []IngestionInv
<1>1. IngestionInit => IngestionInv
  BY IngestionInitInv
<1>2. IngestionInv /\ [IngestionNext]_ingestionVars => IngestionInv'
  BY IngestionKeeps
<1> QED
  BY <1>1, <1>2, PTL DEF IngestionSpec

(***************************************************************************)
(* An alert that is correlated away ends with an incident the pipeline has *)
(* looked into, unless a call failed, handling overlapped or a service     *)
(* depends on itself (CorrelationEngine.check_correlation,                 *)
(* CorrelationCheck), for any catalogue and any number of alerts.          *)
(***************************************************************************)
THEOREM AlertsAreLookedInto == IngestionSpec => []CorrelatedIsInvestigated
<1>1. IngestionInv => CorrelatedIsInvestigated
  BY DEF IngestionInv, CalmInv, FatesInv, EndsWell, CorrelatedIsInvestigated
<1> QED
  BY <1>1, IngestionInductive, PTL

(***************************************************************************)
(* No incident is forgotten                                                *)
(***************************************************************************)
\* The incident is in hand: with the request that made it, in an event or with the worker.
WithSender(i) == \E w \in Senders : sender[w].pc # "idle" /\ sender[w].incident = i
InAlertEvents(i) == \E k \in 1 .. Len(alertEvents) : alertEvents[k] = i
WithCorrelator(i) == correlator.pc # "idle" /\ correlator.incident = i
HeldIncident(i) == WithSender(i) \/ InAlertEvents(i) \/ WithCorrelator(i)

Unsettled(i) == i \in DOMAIN incidents /\ incidents[i].fate \notin Settled

NoIncidentIsForgotten == ~ingestFault => \A i \in DOMAIN incidents : Unsettled(i) => HeldIncident(i)

\* A failure stays on record.
LEMMA NoFaultBefore ==
    ASSUME [IngestionNext]_ingestionVars, ~ingestFault'
    PROVE  UNCHANGED ingestFault
<1>1. ASSUME NEW w \in Senders, NEW p, NEW s, IngestAlert(w, p, s) PROVE UNCHANGED ingestFault
  BY <1>1 DEF IngestAlert, CreatesIncident, Quarantines, Fails
<1>2. ASSUME NEW w \in Senders, Ingest(w) \/ IngestionFails(w) PROVE UNCHANGED ingestFault
  BY <1>2 DEF Ingest, StoresSnapshot, PublishesAlert, IngestionFails, Fails
<1>3. ASSUME Correlate \/ LookupFails PROVE UNCHANGED ingestFault
  BY <1>3 DEF Correlate, LookupFails, TakeAlert, CheckSameService, CheckCascade, SettlesOnto, Proceeds, PipelineEnds,
     Fails
<1>4. ASSUME NEW i, ResolveQuarantine(i) \/ CloseIncident(i) \/ Tick \/ UNCHANGED ingestionVars
      PROVE  UNCHANGED ingestFault
  BY <1>4 DEF ResolveQuarantine, CloseIncident, Tick, ingestionVars
<1> QED
  BY <1>1, <1>2, <1>3, <1>4 DEF IngestionNext

\* Whoever holds an incident keeps it, or hands it on, or settles it.
LEMMA IncidentStep ==
    ASSUME IngestionInv, NoIncidentIsForgotten, [IngestionNext]_ingestionVars
    PROVE  NoIncidentIsForgotten'
<1> SUFFICES ASSUME ~ingestFault', NEW i, Unsettled(i)' PROVE HeldIncident(i)'
  BY DEF NoIncidentIsForgotten
<1>f. ~ingestFault /\ UNCHANGED ingestFault
  BY NoFaultBefore
<1>h. Unsettled(i) => HeldIncident(i)
  BY <1>f DEF NoIncidentIsForgotten, Unsettled
<1>t. /\ sender \in [Senders -> SenderState] /\ incidents \in Seq(IngestedRow)
      /\ correlator \in CorrelatorState /\ alertEvents \in Seq(1 .. MaxIncidents)
  BY IngestionTypes
<1>r. ReferencesInv
  BY DEF IngestionInv
<1>n. ~Fails
  BY <1>f DEF Fails
<1>1. ASSUME UNCHANGED <<sender, alertEvents>>, Unsettled(i),
             correlator.pc # "idle" => correlator'.pc # "idle" /\ correlator'.incident = correlator.incident
      PROVE  HeldIncident(i)'
  BY <1>h, <1>1 DEF HeldIncident, WithSender, InAlertEvents, WithCorrelator
<1>2. ASSUME NEW w \in Senders, NEW p, NEW s, IngestAlert(w, p, s)
      PROVE  HeldIncident(i)'
  <2>1. UNCHANGED <<alertEvents, correlator>> /\ sender[w].pc = "idle"
    BY <1>2 DEF IngestAlert, WorkerUnchanged
  <2>2. CASE UNCHANGED <<sender, incidents>>
    <3>1. Unsettled(i)
      BY <2>2 DEF Unsettled
    <3> QED
      BY <1>1, <2>1, <2>2, <3>1
  <2>3. ASSUME NEW row, row = NewIncident(row.software, row.payload), incidents' = Append(incidents, row),
               sender' = [sender EXCEPT ![w] = [pc |-> "snapshot", incident |-> Len(incidents) + 1]]
        PROVE  HeldIncident(i)'
    <3>1. \A v \in Senders : v # w => sender'[v] = sender[v]
      BY <1>t, <2>3
    <3>2. sender'[w].pc = "snapshot" /\ sender'[w].incident = Len(incidents) + 1
      BY <1>t, <2>3
    <3>3. CASE i = Len(incidents) + 1
      BY <3>2, <3>3 DEF HeldIncident, WithSender
    <3>4. CASE i # Len(incidents) + 1
      <4>1. i \in DOMAIN incidents /\ incidents'[i] = incidents[i]
        BY <1>t, <2>3, <3>4 DEF Unsettled
      <4>2. HeldIncident(i)
        BY <1>h, <4>1 DEF Unsettled
      <4>3. WithSender(i) => WithSender(i)'
        BY <2>1, <3>1 DEF WithSender
      <4> QED
        BY <2>1, <4>2, <4>3 DEF HeldIncident, InAlertEvents, WithCorrelator
    <3> QED
      BY <3>3, <3>4
  <2>4. UNCHANGED <<sender, incidents>> \/ \E q \in MatchSoftware(p, s) : CreatesIncident(w, p, q)
    BY <1>2, <1>n DEF IngestAlert, Quarantines
  <2>5. ASSUME NEW q, CreatesIncident(w, p, q) PROVE HeldIncident(i)'
    <3> DEFINE row == NewIncident(q, p)
    <3>1. row = NewIncident(row.software, row.payload)
      BY DEF NewIncident
    <3>2. /\ incidents' = Append(incidents, row)
          /\ sender' = [sender EXCEPT ![w] = [pc |-> "snapshot", incident |-> Len(incidents) + 1]]
      BY <2>5 DEF CreatesIncident
    <3> HIDE DEF row
    <3> QED
      BY <2>3, <3>1, <3>2
  <2> QED
    BY <2>2, <2>4, <2>5
<1>3. ASSUME NEW w \in Senders, StoresSnapshot(w) PROVE HeldIncident(i)'
  <2>1. /\ sender[w].pc = "snapshot" /\ UNCHANGED <<alertEvents, correlator>>
        /\ sender' = [sender EXCEPT ![w].pc = "publish"]
        /\ incidents' = [incidents EXCEPT ![sender[w].incident].snapshot = TRUE]
    BY <1>3 DEF StoresSnapshot, WorkerUnchanged
  <2>2. DOMAIN incidents' = DOMAIN incidents /\ \A k \in DOMAIN incidents : incidents'[k].fate = incidents[k].fate
    BY <1>t, <2>1 DEF IngestedRow
  <2>3. \A v \in Senders : sender[v].pc # "idle" => sender'[v].pc # "idle" /\ sender'[v].incident = sender[v].incident
    BY <1>t, <2>1 DEF SenderState
  <2>4. HeldIncident(i)
    BY <1>h, <2>2 DEF Unsettled
  <2> QED
    BY <2>1, <2>3, <2>4 DEF HeldIncident, WithSender, InAlertEvents, WithCorrelator
<1>4. ASSUME NEW w \in Senders, PublishesAlert(w) PROVE HeldIncident(i)'
  <2>1. /\ sender[w].pc = "publish" /\ UNCHANGED correlator
        /\ alertEvents' = Append(alertEvents, sender[w].incident)
        /\ sender' = [sender EXCEPT ![w] = [pc |-> "idle", incident |-> 0]]
    BY <1>4 DEF PublishesAlert, WorkerUnchanged
  <2>2. incidents' = [incidents EXCEPT ![sender[w].incident].fate = "queued"]
    BY <1>4 DEF PublishesAlert
  <2>3. /\ Len(alertEvents) \in Nat /\ Len(alertEvents') = Len(alertEvents) + 1
        /\ \A k \in 1 .. Len(alertEvents) : alertEvents'[k] = alertEvents[k]
        /\ alertEvents'[Len(alertEvents) + 1] = sender[w].incident
    BY <1>t, <2>1
  <2>4. CASE i = sender[w].incident
    BY <2>3, <2>4 DEF HeldIncident, InAlertEvents
  <2>5. CASE i # sender[w].incident
    <3>1. HeldIncident(i)
      BY <1>h, <1>t, <2>2, <2>5 DEF Unsettled
    <3>2. \A v \in Senders : v # w => sender'[v] = sender[v]
      BY <1>t, <2>1
    <3>3. WithSender(i) => WithSender(i)'
      BY <2>5, <3>2 DEF WithSender
    <3>4. InAlertEvents(i) => InAlertEvents(i)'
      BY <2>3 DEF InAlertEvents
    <3> QED
      BY <2>1, <3>1, <3>3, <3>4 DEF HeldIncident, WithCorrelator
  <2> QED
    BY <2>4, <2>5
<1>5. CASE TakeAlert
  <2>1. /\ correlator.pc = "idle" /\ alertEvents # <<>> /\ alertEvents' = Tail(alertEvents)
        /\ correlator' = [pc |-> "service", incident |-> Head(alertEvents)] /\ UNCHANGED <<incidents, sender>>
    BY <1>5 DEF TakeAlert, BackendUnchanged
  <2>2. /\ correlator'.pc = "service" /\ correlator'.incident = alertEvents[1]
        /\ \A k \in 1 .. Len(alertEvents) :
              k # 1 => k - 1 \in 1 .. Len(alertEvents') /\ alertEvents'[k - 1] = alertEvents[k]
    BY <1>t, <2>1
  <2>3. HeldIncident(i)
    BY <1>h, <2>1 DEF Unsettled
  <2>4. InAlertEvents(i) => InAlertEvents(i)' \/ WithCorrelator(i)'
    BY <2>2 DEF InAlertEvents, WithCorrelator
  <2> QED
    BY <2>1, <2>3, <2>4 DEF HeldIncident, WithSender, WithCorrelator
<1>6. ASSUME NEW j, NEW fate \in Settled, j = correlator.incident, correlator.pc # "idle",
             DOMAIN incidents' = DOMAIN incidents, incidents'[j].fate = fate,
             \A k \in DOMAIN incidents : k # j => incidents'[k] = incidents[k],
             UNCHANGED <<sender, alertEvents>>
      PROVE  HeldIncident(i)'
  <2>1. i # j /\ Unsettled(i)
    BY <1>6 DEF Unsettled
  <2> QED
    BY <1>h, <1>6, <2>1 DEF HeldIncident, WithSender, InAlertEvents, WithCorrelator
<1>7. ASSUME NEW j, SettlesOnto(correlator.incident, j), correlator.pc # "idle" PROVE HeldIncident(i)'
  <2>i. PICK c : c = correlator.incident
    OBVIOUS
  <2>1. c \in DOMAIN incidents
    BY <1>7, <1>r, <2>i DEF ReferencesInv
  <2>2. incidents' = [incidents EXCEPT ![c].fate = "correlated", ![c].onto = j] /\ UNCHANGED <<sender, alertEvents>>
    BY <1>7, <2>i DEF SettlesOnto, BackendUnchanged
  <2>u. UNCHANGED <<sender, alertEvents>>
    BY <2>2
  <2>3. /\ DOMAIN incidents' = DOMAIN incidents /\ incidents'[c].fate = "correlated"
        /\ \A k \in DOMAIN incidents : k # c => incidents'[k] = incidents[k]
    <3> DEFINE row == [incidents[c] EXCEPT !.fate = "correlated", !.onto = j]
    <3>1. incidents[c] \in IngestedRow
      BY <1>t, <2>1
    <3>2. row.fate = "correlated"
      BY <3>1 DEF IngestedRow
    <3>3. incidents' = [incidents EXCEPT ![c] = row]
      BY <2>2
    <3> HIDE DEF row
    <3> QED
      BY <1>t, <2>1, <3>2, <3>3
  <2> QED
    BY <1>6, <1>7, <2>i, <2>u, <2>3 DEF Settled
<1>8. ASSUME NEW pc, Proceeds(pc), pc # "idle" PROVE HeldIncident(i)'
  BY <1>1, <1>8, <1>t DEF Proceeds, BackendUnchanged, Unsettled, CorrelatorState
<1>9. CASE CheckSameService \/ CheckCascade
  <2>1. correlator.pc # "idle"
    BY <1>9 DEF CheckSameService, CheckCascade
  <2>2. (\E j : SettlesOnto(correlator.incident, j)) \/ Proceeds("cascade") \/ Proceeds("pipeline")
    BY <1>9 DEF CheckSameService, CheckCascade
  <2> QED
    BY <1>7, <1>8, <2>1, <2>2
<1>10. CASE PipelineEnds
  <2>i. PICK c : c = correlator.incident
    OBVIOUS
  <2>1. c \in DOMAIN incidents /\ correlator.pc # "idle"
    BY <1>10, <1>r, <2>i DEF PipelineEnds, ReferencesInv
  <2>2. incidents' = [incidents EXCEPT ![c].fate = "investigated"] /\ UNCHANGED <<sender, alertEvents>>
    BY <1>10, <1>n, <2>i DEF PipelineEnds, BackendUnchanged
  <2>u. UNCHANGED <<sender, alertEvents>>
    BY <2>2
  <2>3. /\ DOMAIN incidents' = DOMAIN incidents /\ incidents'[c].fate = "investigated"
        /\ \A k \in DOMAIN incidents : k # c => incidents'[k] = incidents[k]
    <3> DEFINE row == [incidents[c] EXCEPT !.fate = "investigated"]
    <3>1. incidents[c] \in IngestedRow
      BY <1>t, <2>1
    <3>2. row.fate = "investigated"
      BY <3>1 DEF IngestedRow
    <3>3. incidents' = [incidents EXCEPT ![c] = row]
      BY <2>2
    <3> HIDE DEF row
    <3> QED
      BY <1>t, <2>1, <3>2, <3>3
  <2> QED
    BY <1>6, <2>1, <2>i, <2>u, <2>3 DEF Settled
<1>11. ASSUME NEW k \in DOMAIN incidents, CloseIncident(k) PROVE HeldIncident(i)'
  <2>1. incidents' = [incidents EXCEPT ![k].open = FALSE] /\ UNCHANGED <<sender, alertEvents, correlator>>
    BY <1>11 DEF CloseIncident
  <2>2. UNCHANGED <<sender, alertEvents, correlator>>
    BY <2>1
  <2>3. Unsettled(i)
    BY <1>t, <2>1 DEF Unsettled, IngestedRow
  <2> QED
    BY <1>1, <2>2, <2>3
<1>12. ASSUME NEW q, ResolveQuarantine(q) \/ Tick \/ UNCHANGED ingestionVars PROVE HeldIncident(i)'
  <2>1. UNCHANGED <<sender, alertEvents, correlator, incidents>>
    BY <1>12 DEF ResolveQuarantine, WorkerUnchanged, Tick, ingestionVars
  <2> QED
    BY <1>1, <2>1 DEF Unsettled
<1>13. ASSUME LookupFails \/ \E w \in Senders : IngestionFails(w) PROVE FALSE
  BY <1>13, <1>n DEF LookupFails, IngestionFails
<1> QED
  BY <1>2, <1>3, <1>4, <1>5, <1>9, <1>10, <1>11, <1>12, <1>13 DEF IngestionNext, Ingest, Correlate

(***************************************************************************)
(* An incident that is neither investigated nor correlated is in the hands *)
(* of a request, an event or the worker, unless a call failed              *)
(* (IngestionService, AlertWorker._handle_message): the safety half of     *)
(* IncidentsAreTriaged, for any number of alerts.                          *)
(***************************************************************************)
THEOREM IncidentsAreInHand == IngestionSpec => []NoIncidentIsForgotten
<1>1. IngestionInit => NoIncidentIsForgotten
  BY DEF IngestionInit, NoIncidentIsForgotten, Unsettled
<1>2. IngestionInv /\ NoIncidentIsForgotten /\ [IngestionNext]_ingestionVars => NoIncidentIsForgotten'
  BY IncidentStep
<1> QED
  BY <1>1, <1>2, IngestionInductive, PTL DEF IngestionSpec

----------------------------------------------------------------------------
(***************************************************************************)
(* The whole.                                                              *)
(***************************************************************************)
\* A step of the whole is one of a part, and leaves the others alone.
LEMMA WorkersStep ==
    ASSUME [WorkersNext]_vars
    PROVE  [WarRoomNext]_warRoomVars /\ [RunbookNext]_runbookVars /\ [IngestionNext]_ingestionVars
<1>1. CASE WorkersNext
  BY <1>1 DEF WorkersNext
<1>2. CASE UNCHANGED vars
  BY <1>2 DEF vars
<1> QED
  BY <1>1, <1>2

(***************************************************************************)
(* Whatever the whole does, each part does what its own specification      *)
(* says: what is proved of a part holds of the whole.                      *)
(***************************************************************************)
THEOREM WorkersAreTheirParts == WorkersSpec => WarRoomSpec /\ RunbookSpec /\ IngestionSpec
<1>1. WorkersInit => WarRoomInit /\ RunbookInit /\ IngestionInit
  BY DEF WorkersInit
<1> QED
  BY <1>1, WorkersStep, PTL DEF WorkersSpec, WarRoomSpec, RunbookSpec, IngestionSpec

(***************************************************************************)
(* The types of war rooms, runbook executions and ingestion, side by side, *)
(* whichever of them moves.                                                *)
(***************************************************************************)
THEOREM WorkersTypeCorrect == WorkersSpec => []WorkersTypeOK
<1>1. IngestionInv => IngestionTypeOK
  BY DEF IngestionInv
<1> QED
  BY <1>1, WorkersAreTheirParts, WarRoomTypeCorrect, RunbookTypeCorrect, IngestionInductive, PTL DEF WorkersTypeOK
============================================================================
