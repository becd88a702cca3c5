------------------------ MODULE PipelineGateProofs --------------------------
(***************************************************************************)
(* Proofs about PipelineGate, for any number of PATCH requests and of      *)
(* redeliveries: no postmortem without a cause, no approval without a      *)
(* pause, no second incident.resolved without an overlap, nothing lost.    *)
(***************************************************************************)
EXTENDS PipelineGate, TLAPS

----------------------------------------------------------------------------
(* The invariant.  Postmortems are bounded by events only through the whole *)
(* chain, so every link counts what is still on its way.                   *)

\* An event in the stream or in the handler's hand has produced nothing yet.
EventsInv == ungated + marks + queued + InHand <= fired + redelivered

\* As long as no two PATCHes overlapped, one at most is between its read and
\* its write, so what it saw of resolved_at is still true when it writes.
OverlapInv ==
    ~overlap =>
        /\ \A p, q \in Patches : patch[p] = "read" /\ patch[q] = "read" => p = q
        /\ \A p \in Patches : patch[p] = "read" =>
               /\ draft[p].resolved = (row.resolved \/ fires[p])
               /\ fires[p] => ~row.resolved
        /\ \A p, q \in Patches : patch[p] = "publish" /\ patch[q] = "publish" => p = q
        /\ \A p \in Patches : patch[p] = "publish" => row.resolved /\ fired = 0
        /\ fired <= 1
        /\ fired = 1 => row.resolved

\* An agent run is open only while the handler is between creating and closing it.
RunInv ==
    run = "open" => faulty \/ handler \in {"gate", "mark", "skip", "context", "dispatch",
                                           "persist", "finish"}

GateInv == TypeOK /\ EventsInv /\ ApprovalsUsePausesUp /\ OverlapInv /\ RunInv

----------------------------------------------------------------------------
\* The type invariant in three parts: the flags, the records that PATCHes pass
\* around, and everything that is counted or enumerated.
FlagTypeOK == awaiting \in BOOLEAN /\ gate \in BOOLEAN /\ overlap \in BOOLEAN /\ faulty \in BOOLEAN

RowTypeOK ==
    /\ row \in Rows
    /\ draft \in [Patches -> Rows]
    /\ fires \in [Patches -> BOOLEAN]

CountTypeOK ==
    /\ ungated \in Nat /\ resumed \in Nat
    /\ run \in {"none", "open", "skipped", "completed"}
    /\ patch \in [Patches -> {"new", "read", "publish", "done"}]
    /\ publishing \in Nat
    /\ handler \in Handling \union {"down", "idle"}
    /\ listener \in Resuming \union {"down", "starting", "listening", "dead"}
    /\ queued \in Nat /\ inbox \in Nat
    /\ fired \in Nat /\ marks \in Nat /\ granted \in Nat
    /\ redelivered \in 0..MaxRedeliveries

\* The three parts make the type invariant.
LEMMA GateTypeParts == TypeOK <=> FlagTypeOK /\ RowTypeOK /\ CountTypeOK
  BY DEF TypeOK, FlagTypeOK, RowTypeOK, CountTypeOK

\* The flags stay flags.
LEMMA FlagStep ==
    ASSUME FlagTypeOK, [Next]_vars
    PROVE  FlagTypeOK'
<1> USE DEF FlagTypeOK
<1>1. ASSUME NEW p \in Patches, Patch(p)
      PROVE  FlagTypeOK'
  BY <1>1, Zenon DEF Patch, PatchReads, PatchWrites, PatchFails, PatchPublishes, PatchPublishFails,
              dbVars
<1>2. ASSUME \/ \E b \in BOOLEAN : SetGate(b)
             \/ Approve \/ Approval
      PROVE  FlagTypeOK'
  BY <1>2, Zenon DEF SetGate, Approve, Approval, ApprovalPublishes, ApprovalGoesUnheard,
              dbVars, patchVars
<1>3. ASSUME ProcessStarts \/ ProcessDies \/ UNCHANGED vars
      PROVE  FlagTypeOK'
  BY <1>3, Zenon DEF ProcessStarts, ProcessDies, dbVars, patchVars, vars
<1>4. ASSUME Handle
      PROVE  FlagTypeOK'
  BY <1>4, Zenon
     DEF Handle, HandlerOnly, EventTaken, StaleEventSkipped, RunCreated, HandlerRaises,
         GateChecked, GateFailsOpen, Marked, MarkRaises, RunSkipped, ContextBuilt,
         AgentAnswers, Persisted, PersistFails, RunCompleted, EventAcked, AckRaises, patchVars
<1>5. ASSUME Listen
      PROVE  FlagTypeOK'
  BY <1>5, Zenon
     DEF Listen, ListenerSubscribes, SubscribeRaises, ApprovalTaken, InboxLost,
         ResumeProceeds, ResumeRaises, ResumePersists, ResumePersistFails,
         ListenerOnly, patchVars
<1> QED
  BY <1>1, <1>2, <1>3, <1>4, <1>5 DEF Next

\* Only PATCHes touch the records.
LEMMA RowStep ==
    ASSUME RowTypeOK, [Next]_vars
    PROVE  RowTypeOK'
<1>1. ASSUME NEW p \in Patches, PatchReads(p)
      PROVE  RowTypeOK'
  <2>1. PICK k \in Requests :
            /\ draft' = [draft EXCEPT ![p] = Edited(k)]
            /\ fires' = [fires EXCEPT ![p] = JustTerminalized(k)]
    BY <1>1 DEF PatchReads
  <2>2. JustTerminalized(k) \in BOOLEAN
    BY DEF JustTerminalized
  <2>3. Edited(k) \in Rows
    <3>1. row.terminal \in BOOLEAN /\ row.resolved \in BOOLEAN
      BY DEF RowTypeOK, Rows
    <3>2. (IF k = "other" THEN row.terminal ELSE k = "terminal") \in BOOLEAN
      BY <3>1
    <3>3. (row.resolved \/ JustTerminalized(k)) \in BOOLEAN
      OBVIOUS
    <3> QED
      BY <3>2, <3>3 DEF Edited, Rows
  <2>4. row' = row
    BY <1>1 DEF PatchReads, dbVars
  <2> QED
    BY <2>1, <2>2, <2>3, <2>4 DEF RowTypeOK
<1>2. ASSUME NEW p \in Patches, Patch(p), ~PatchReads(p)
      PROVE  RowTypeOK'
  BY <1>2 DEF Patch, PatchWrites, PatchFails, PatchPublishes, PatchPublishFails, dbVars, RowTypeOK
<1>3. ASSUME UNCHANGED <<row, draft, fires>>
      PROVE  RowTypeOK'
  BY <1>3 DEF RowTypeOK
<1>4. ASSUME \/ \E b \in BOOLEAN : SetGate(b)
             \/ Approve \/ Approval \/ ProcessStarts \/ ProcessDies \/ UNCHANGED vars
      PROVE  UNCHANGED <<row, draft, fires>>
  BY <1>4 DEF SetGate, Approve, Approval, ApprovalPublishes, ApprovalGoesUnheard,
              ProcessStarts, ProcessDies, vars, dbVars, patchVars
<1>5. ASSUME Handle \/ Listen
      PROVE  UNCHANGED <<row, draft, fires>>
  BY <1>5 DEF Handle, HandlerOnly, EventTaken, StaleEventSkipped, RunCreated, HandlerRaises,
              GateChecked, GateFailsOpen, Marked, MarkRaises, RunSkipped, ContextBuilt,
              AgentAnswers, Persisted, PersistFails, RunCompleted, EventAcked, AckRaises,
              Listen, ListenerOnly, ListenerSubscribes, SubscribeRaises, ApprovalTaken,
              InboxLost, ResumeProceeds, ResumeRaises, ResumePersists, ResumePersistFails,
              patchVars
<1> QED
  BY <1>1, <1>2, <1>3, <1>4, <1>5 DEF Next

\* Counters stay natural: nothing is taken from what is not there.
LEMMA CountStep ==
    ASSUME CountTypeOK, [Next]_vars
    PROVE  CountTypeOK'
<1> USE RedeliveriesAssumption DEF CountTypeOK, Handling, Resuming
<1>1. ASSUME NEW p \in Patches, Patch(p)
      PROVE  CountTypeOK'
  BY <1>1 DEF Patch, PatchReads, PatchWrites, PatchFails, PatchPublishes, PatchPublishFails,
              dbVars, agentVars, countVars
<1>2. ASSUME \/ \E b \in BOOLEAN : SetGate(b)
             \/ Approve \/ Approval
      PROVE  CountTypeOK'
  BY <1>2 DEF SetGate, Approve, Approval, ApprovalPublishes, ApprovalGoesUnheard,
              dbVars, patchVars, agentVars, countVars
<1>3. ASSUME ProcessStarts \/ ProcessDies \/ UNCHANGED vars
      PROVE  CountTypeOK'
  BY <1>3 DEF ProcessStarts, ProcessDies, HandOutAgain, dbVars, patchVars, agentVars,
              countVars, vars
<1>4. ASSUME Handle
      PROVE  CountTypeOK'
  <2> USE DEF HandlerOnly, patchVars
  <2>1. CASE EventTaken \/ StaleEventSkipped \/ RunCreated \/ HandlerRaises
    BY <2>1 DEF EventTaken, StaleEventSkipped, RunCreated, HandlerRaises
  <2>2. CASE GateChecked \/ GateFailsOpen \/ Marked \/ MarkRaises \/ RunSkipped
    BY <2>2 DEF GateChecked, GateFailsOpen, Marked, MarkRaises, RunSkipped
  <2>3. CASE ContextBuilt \/ AgentAnswers \/ Persisted \/ PersistFails \/ RunCompleted
    BY <2>3 DEF ContextBuilt, AgentAnswers, Persisted, PersistFails, RunCompleted
  <2>4. CASE EventAcked \/ AckRaises
    BY <2>4 DEF EventAcked, AckRaises, HandOutAgain
  <2> QED
    BY <1>4, <2>1, <2>2, <2>3, <2>4 DEF Handle
<1>5. ASSUME Listen
      PROVE  CountTypeOK'
  BY <1>5 DEF Listen, ListenerSubscribes, SubscribeRaises, ApprovalTaken, InboxLost,
              ResumeProceeds, ResumeRaises, ResumePersists, ResumePersistFails,
              ListenerOnly, patchVars, countVars
<1> QED
  BY <1>1, <1>2, <1>3, <1>4, <1>5 DEF Next

\* Type correctness is inductive by itself.
LEMMA GateTypeStep ==
    ASSUME TypeOK, [Next]_vars
    PROVE  TypeOK'
<1>1. FlagTypeOK' /\ RowTypeOK' /\ CountTypeOK'
  BY GateTypeParts, FlagStep, RowStep, CountStep
<1> QED
  BY <1>1 DEF TypeOK, FlagTypeOK, RowTypeOK, CountTypeOK

\* The two ledgers: events against pauses and direct postmortems, pauses
\* against approvals and resumed postmortems.
LEMMA LedgerStep ==
    ASSUME CountTypeOK, EventsInv, ApprovalsUsePausesUp, [Next]_vars
    PROVE  EventsInv' /\ ApprovalsUsePausesUp'
<1> USE RedeliveriesAssumption DEF CountTypeOK, EventsInv, ApprovalsUsePausesUp, InHand, Resumable, One
<1>1. ASSUME NEW p \in Patches, Patch(p)
      PROVE  EventsInv' /\ ApprovalsUsePausesUp'
  BY <1>1 DEF Patch, PatchReads, PatchWrites, PatchFails, PatchPublishes, PatchPublishFails,
              dbVars, agentVars, countVars
<1>2. ASSUME \/ \E b \in BOOLEAN : SetGate(b)
             \/ Approve \/ Approval
      PROVE  EventsInv' /\ ApprovalsUsePausesUp'
  BY <1>2 DEF SetGate, Approve, Approval, ApprovalPublishes, ApprovalGoesUnheard,
              dbVars, agentVars, countVars
<1>3. ASSUME ProcessStarts \/ ProcessDies
      PROVE  EventsInv' /\ ApprovalsUsePausesUp'
  BY <1>3 DEF ProcessStarts, ProcessDies, HandOutAgain, Resuming, dbVars, countVars
<1>4. ASSUME Handle
      PROVE  EventsInv' /\ ApprovalsUsePausesUp'
  <2> USE DEF HandlerOnly
  <2>1. CASE EventTaken \/ StaleEventSkipped \/ RunCreated \/ HandlerRaises
    BY <2>1 DEF EventTaken, StaleEventSkipped, RunCreated, HandlerRaises
  <2>2. CASE GateChecked \/ GateFailsOpen \/ Marked \/ MarkRaises \/ RunSkipped
    BY <2>2 DEF GateChecked, GateFailsOpen, Marked, MarkRaises, RunSkipped
  <2>3. CASE ContextBuilt \/ AgentAnswers \/ Persisted \/ PersistFails \/ RunCompleted
    BY <2>3 DEF ContextBuilt, AgentAnswers, Persisted, PersistFails, RunCompleted
  <2>4. CASE EventAcked \/ AckRaises
    BY <2>4 DEF EventAcked, AckRaises, HandOutAgain
  <2> QED
    BY <1>4, <2>1, <2>2, <2>3, <2>4 DEF Handle
<1>5. ASSUME Listen
      PROVE  EventsInv' /\ ApprovalsUsePausesUp'
  BY <1>5 DEF Listen, ListenerSubscribes, SubscribeRaises, ApprovalTaken, InboxLost,
              ResumeProceeds, ResumeRaises, ResumePersists, ResumePersistFails,
              ListenerOnly, Resuming, countVars
<1>6. ASSUME UNCHANGED vars
      PROVE  EventsInv' /\ ApprovalsUsePausesUp'
  BY <1>6 DEF vars, dbVars, agentVars, countVars
<1> QED
  BY <1>1, <1>2, <1>3, <1>4, <1>5, <1>6 DEF Next

\* A PATCH that overlaps with none writes what is still true of the row.
LEMMA OverlapStep ==
    ASSUME TypeOK, OverlapInv, [Next]_vars
    PROVE  OverlapInv'
<1>1. ASSUME NEW p \in Patches, PatchReads(p)
      PROVE  OverlapInv'
  <2>1. PICK k \in Requests :
            /\ draft' = [draft EXCEPT ![p] = Edited(k)]
            /\ fires' = [fires EXCEPT ![p] = JustTerminalized(k)]
    BY <1>1 DEF PatchReads
  <2>2. /\ Edited(k).resolved = (row.resolved \/ JustTerminalized(k))
        /\ JustTerminalized(k) => ~row.resolved
    BY DEF Edited, JustTerminalized, Rows
  <2>3. UNCHANGED <<row, fired>> /\ patch' = [patch EXCEPT ![p] = "read"]
    BY <1>1 DEF PatchReads, dbVars, countVars
  <2>4. ~overlap' => ~overlap /\ \A q \in Patches : patch[q] # "read"
    BY <1>1 DEF PatchReads
  <2> QED
    BY <2>1, <2>2, <2>3, <2>4 DEF OverlapInv, TypeOK
<1>2. ASSUME NEW p \in Patches, PatchWrites(p) \/ PatchFails(p)
      PROVE  OverlapInv'
  BY <1>2, SMTT(30) DEF PatchWrites, PatchFails, OverlapInv, TypeOK, countVars, Rows
<1>3. ASSUME NEW p \in Patches, PatchPublishes(p) \/ PatchPublishFails(p)
      PROVE  OverlapInv'
  BY <1>3 DEF PatchPublishes, PatchPublishFails, OverlapInv, TypeOK, dbVars, countVars
<1>4. ASSUME UNCHANGED <<row, patchVars, fired>>
      PROVE  OverlapInv'
  BY <1>4 DEF OverlapInv, patchVars
<1>5. ASSUME \/ \E b \in BOOLEAN : SetGate(b)
             \/ Approve \/ Approval \/ ProcessStarts \/ ProcessDies \/ UNCHANGED vars
      PROVE  UNCHANGED <<row, patchVars, fired>>
  BY <1>5 DEF SetGate, Approve, Approval, ApprovalPublishes, ApprovalGoesUnheard,
              ProcessStarts, ProcessDies, vars, dbVars, countVars
<1>6. ASSUME Handle
      PROVE  UNCHANGED <<row, patchVars, fired>>
  BY <1>6 DEF Handle, HandlerOnly, EventTaken, StaleEventSkipped, RunCreated, HandlerRaises,
              GateChecked, GateFailsOpen, Marked, MarkRaises, RunSkipped, ContextBuilt,
              AgentAnswers, Persisted, PersistFails, RunCompleted, EventAcked, AckRaises
<1>7. ASSUME Listen
      PROVE  UNCHANGED <<row, patchVars, fired>>
  BY <1>7 DEF Listen, ListenerSubscribes, SubscribeRaises, ApprovalTaken, InboxLost,
              ResumeProceeds, ResumeRaises, ResumePersists, ResumePersistFails,
              ListenerOnly, countVars
<1> QED
  BY <1>1, <1>2, <1>3, <1>4, <1>5, <1>6, <1>7 DEF Next, Patch

\* Every path of the handler closes the run it opened, or something failed.
LEMMA RunStep ==
    ASSUME TypeOK, RunInv, [Next]_vars
    PROVE  RunInv'
<1>1. ASSUME \/ \E p \in Patches : Patch(p)
             \/ \E b \in BOOLEAN : SetGate(b)
             \/ Approve \/ Approval \/ UNCHANGED vars
      PROVE  RunInv'
  BY <1>1 DEF Patch, PatchReads, PatchWrites, PatchFails, PatchPublishes, PatchPublishFails,
              SetGate, Approve, Approval, ApprovalPublishes, ApprovalGoesUnheard,
              vars, dbVars, agentVars, RunInv, TypeOK
<1>2. ASSUME ProcessStarts \/ ProcessDies
      PROVE  RunInv'
  BY <1>2 DEF ProcessStarts, ProcessDies, dbVars, RunInv
<1>3. ASSUME Handle
      PROVE  RunInv'
  <2> USE DEF RunInv, TypeOK
  <2>1. CASE EventTaken \/ StaleEventSkipped \/ RunCreated \/ HandlerRaises
    BY <2>1 DEF EventTaken, StaleEventSkipped, RunCreated, HandlerRaises
  <2>2. CASE GateChecked \/ GateFailsOpen \/ Marked \/ MarkRaises \/ RunSkipped
    BY <2>2 DEF GateChecked, GateFailsOpen, Marked, MarkRaises, RunSkipped
  <2>3. CASE ContextBuilt \/ AgentAnswers \/ Persisted \/ PersistFails \/ RunCompleted
    BY <2>3 DEF ContextBuilt, AgentAnswers, Persisted, PersistFails, RunCompleted
  <2>4. CASE EventAcked \/ AckRaises
    BY <2>4 DEF EventAcked, AckRaises
  <2> QED
    BY <1>3, <2>1, <2>2, <2>3, <2>4 DEF Handle
<1>4. ASSUME Listen
      PROVE  RunInv'
  BY <1>4 DEF Listen, ListenerSubscribes, SubscribeRaises, ApprovalTaken, InboxLost,
              ResumeProceeds, ResumeRaises, ResumePersists, ResumePersistFails,
              ListenerOnly, RunInv, TypeOK
<1> QED
  BY <1>1, <1>2, <1>3, <1>4 DEF Next

\* The invariant is inductive.
LEMMA GateInductive == Spec => []GateInv
<1>1. Init => GateInv
  <2> SUFFICES ASSUME Init PROVE GateInv
    OBVIOUS
  <2>1. FlagTypeOK
    BY Zenon DEF Init, FlagTypeOK
  <2>2. CountTypeOK
    BY RedeliveriesAssumption DEF Init, CountTypeOK
  <2>3. RowTypeOK
    <3>1. row \in Rows
      BY DEF Init, Rows
    <3> QED
      BY <3>1 DEF Init, RowTypeOK
  <2>4. EventsInv /\ ApprovalsUsePausesUp
    BY DEF Init, EventsInv, ApprovalsUsePausesUp, InHand, Resumable, One, Resuming
  <2>5. OverlapInv /\ RunInv
    BY DEF Init, OverlapInv, RunInv
  <2> QED
    BY <2>1, <2>2, <2>3, <2>4, <2>5, GateTypeParts DEF GateInv
<1>2. GateInv /\ [Next]_vars => GateInv'
  BY GateTypeParts, GateTypeStep, LedgerStep, OverlapStep, RunStep DEF GateInv
<1> QED
  BY <1>1, <1>2, PTL DEF Spec

----------------------------------------------------------------------------
\* Type correctness; in particular no counter of work in flight goes negative.
THEOREM GateTypeCorrect == Spec => []TypeOK
<1>1. GateInv => TypeOK
  BY DEF GateInv
<1> QED
  BY <1>1, GateInductive, PTL

\* However many operators, approvals, crashes and redeliveries there are, an
\* incident has no more postmortems than incident.resolved was handed out.
THEOREM NoPostmortemWithoutCause == Spec => []PostmortemsHaveCauses
<1>1. GateInv => PostmortemsHaveCauses
  BY DEF GateInv, TypeOK, EventsInv, ApprovalsUsePausesUp, PostmortemsHaveCauses,
         InHand, Resumable, One
<1> QED
  BY <1>1, GateInductive, PTL

\* No pause is approved twice and no approval resumed twice.
THEOREM NoApprovalWithoutPause == Spec => []ApprovalsUsePausesUp
<1>1. GateInv => ApprovalsUsePausesUp
  BY DEF GateInv
<1> QED
  BY <1>1, GateInductive, PTL

\* incident.resolved fires once unless two PATCHes overlap, however many there
\* are and whatever they ask for.
THEOREM SecondFireNeedsOverlap == Spec => []OnlyOverlapFiresTwice
<1>1. GateInv => OnlyOverlapFiresTwice
  BY DEF GateInv, OverlapInv, OnlyOverlapFiresTwice
<1> QED
  BY <1>1, GateInductive, PTL

\* The handler leaves no agent run open unless a call failed.
THEOREM NoRunLeftOpen == Spec => []RunsAreClosed
<1>1. GateInv => RunsAreClosed
  BY DEF GateInv, RunInv, RunsAreClosed
<1> QED
  BY <1>1, GateInductive, PTL

----------------------------------------------------------------------------
(* What liveness rests on: nothing is lost on the way.                     *)

\* As long as nothing failed, an incident.resolved is a postmortem or a pause, or in the stream or
\* the handler's hand, and an approval has been resumed, or is about to be published, in the inbox
\* or with the listener.  When all of these are idle, EveryResolveIsAnswered and
\* EveryApprovalIsResumed have nothing left to wait for.
NothingIsLost ==
    ~faulty => /\ fired = ungated + marks + queued + InHand
               /\ granted = resumed + Resumable

\* The two tasks live and die with their process.
DownTogether == handler = "down" => listener = "down"

\* Only the end of the process stops the handler, and it stops the listener too.
LEMMA DownStep ==
    ASSUME DownTogether, [Next]_vars
    PROVE  DownTogether'
<1>1. ASSUME \/ \E p \in Patches : Patch(p)
             \/ \E b \in BOOLEAN : SetGate(b)
             \/ Approve \/ Approval \/ UNCHANGED vars
      PROVE  DownTogether'
  BY <1>1 DEF Patch, PatchReads, PatchWrites, PatchFails, PatchPublishes, PatchPublishFails,
              SetGate, Approve, Approval, ApprovalPublishes, ApprovalGoesUnheard,
              vars, agentVars, DownTogether
<1>2. ASSUME ProcessStarts \/ ProcessDies
      PROVE  DownTogether'
  BY <1>2 DEF ProcessStarts, ProcessDies, DownTogether
<1>3. ASSUME Handle
      PROVE  DownTogether'
  BY <1>3 DEF Handle, EventTaken, StaleEventSkipped, RunCreated, HandlerRaises,
              GateChecked, GateFailsOpen, Marked, MarkRaises, RunSkipped, ContextBuilt,
              AgentAnswers, Persisted, PersistFails, RunCompleted, EventAcked, AckRaises,
              HandlerOnly, DownTogether
<1>4. ASSUME Listen
      PROVE  DownTogether'
  BY <1>4 DEF Listen, ListenerSubscribes, SubscribeRaises, ApprovalTaken, InboxLost,
              ResumeProceeds, ResumeRaises, ResumePersists, ResumePersistFails,
              ListenerOnly, Resuming, DownTogether
<1> QED
  BY <1>1, <1>2, <1>3, <1>4 DEF Next

\* Each step moves what is under way to the next place of its chain.
LEMMA AccountsStep ==
    ASSUME CountTypeOK, DownTogether, NothingIsLost, [Next]_vars
    PROVE  NothingIsLost'
<1> SUFFICES ASSUME ~faulty'
             PROVE  /\ fired' = ungated' + marks' + queued' + InHand'
                    /\ granted' = resumed' + Resumable'
  BY DEF NothingIsLost
<1> USE DEF CountTypeOK, NothingIsLost, InHand, Resumable, One
<1>1. ASSUME NEW p \in Patches, Patch(p)
      PROVE  /\ fired' = ungated' + marks' + queued' + InHand'
             /\ granted' = resumed' + Resumable'
  BY <1>1 DEF Patch, PatchReads, PatchWrites, PatchFails, PatchPublishes, PatchPublishFails,
              dbVars, agentVars, countVars
<1>2. ASSUME \/ \E b \in BOOLEAN : SetGate(b)
             \/ Approve \/ Approval
      PROVE  /\ fired' = ungated' + marks' + queued' + InHand'
             /\ granted' = resumed' + Resumable'
  BY <1>2 DEF SetGate, Approve, Approval, ApprovalPublishes, ApprovalGoesUnheard,
              dbVars, agentVars, countVars
<1>3. ASSUME ProcessStarts \/ ProcessDies
      PROVE  /\ fired' = ungated' + marks' + queued' + InHand'
             /\ granted' = resumed' + Resumable'
  BY <1>3 DEF ProcessStarts, ProcessDies, DownTogether, Resuming, dbVars, countVars
<1>4. ASSUME Handle
      PROVE  /\ fired' = ungated' + marks' + queued' + InHand'
             /\ granted' = resumed' + Resumable'
  <2> USE DEF HandlerOnly
  <2>1. CASE EventTaken \/ StaleEventSkipped \/ RunCreated \/ HandlerRaises
    BY <2>1 DEF EventTaken, StaleEventSkipped, RunCreated, HandlerRaises
  <2>2. CASE GateChecked \/ GateFailsOpen \/ Marked \/ MarkRaises \/ RunSkipped
    BY <2>2 DEF GateChecked, GateFailsOpen, Marked, MarkRaises, RunSkipped
  <2>3. CASE ContextBuilt \/ AgentAnswers \/ Persisted \/ PersistFails \/ RunCompleted
    BY <2>3 DEF ContextBuilt, AgentAnswers, Persisted, PersistFails, RunCompleted
  <2>4. CASE EventAcked \/ AckRaises
    BY <2>4 DEF EventAcked, AckRaises
  <2> QED
    BY <1>4, <2>1, <2>2, <2>3, <2>4 DEF Handle
<1>5. ASSUME Listen
      PROVE  /\ fired' = ungated' + marks' + queued' + InHand'
             /\ granted' = resumed' + Resumable'
  BY <1>5 DEF Listen, ListenerSubscribes, SubscribeRaises, ApprovalTaken, InboxLost,
              ResumeProceeds, ResumeRaises, ResumePersists, ResumePersistFails,
              ListenerOnly, Resuming, countVars
<1>6. ASSUME UNCHANGED vars
      PROVE  /\ fired' = ungated' + marks' + queued' + InHand'
             /\ granted' = resumed' + Resumable'
  BY <1>6 DEF vars, dbVars, agentVars, countVars
<1> QED
  BY <1>1, <1>2, <1>3, <1>4, <1>5, <1>6 DEF Next

\* The safety half of EveryResolveIsAnswered and EveryApprovalIsResumed: unless something fails,
\* the handler and the listener lose no event and no approval, for any number of PATCHes.
THEOREM NoWorkIsLost == Spec => []NothingIsLost
<1>1. Init => DownTogether /\ NothingIsLost
  BY DEF Init, DownTogether, NothingIsLost, InHand, Resumable, One, Resuming
<1>2. DownTogether /\ [Next]_vars => DownTogether'
  BY DownStep
<1>3. GateInv /\ DownTogether /\ NothingIsLost /\ [Next]_vars => NothingIsLost'
  BY GateTypeParts, AccountsStep DEF GateInv
<1> QED
  BY <1>1, <1>2, <1>3, GateInductive, PTL DEF Spec

============================================================================
