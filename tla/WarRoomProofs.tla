--------------------------- MODULE WarRoomProofs ----------------------------
(***************************************************************************)
(* Proofs about WarRoom, for any number of requests, meetings and calls of *)
(* end: what a meeting has come to is undone by a stale write only, and no *)
(* end is forgotten.                                                       *)
(***************************************************************************)
EXTENDS WarRoom, SequenceTheorems, TLAPS

(***************************************************************************)
(* The invariant: the types, and that whatever names a meeting (a request  *)
(* under way, an event, the consumer) names one of the table.              *)
(***************************************************************************)
TableInv == meetings \in Seq(MeetingRow)

RequestStates == WarRequestState({"idle", "insert", "announce", "poll", "end", "publish"})

\* A poll goes to Teams about a meeting that it has read as scheduled.
RequestInv ==
    /\ warReq \in [WarRequests -> RequestStates]
    /\ \A r \in WarRequests :
          /\ warReq[r].pc \in {"announce", "poll", "end", "publish"} =>
                warReq[r].meeting \in 1 .. LatestMeeting
          /\ warReq[r].pc = "poll" => warReq[r].seen.status = "scheduled"

EventInv ==
    /\ warEvents \in Seq([kind : {"created", "ended"}, meeting : Nat \ {0}])
    /\ \A k \in 1 .. Len(warEvents) : warEvents[k].meeting \in 1 .. LatestMeeting

ConsumerStates ==
    [pc : {"idle", "summarize", "attach"}, meeting : Nat \ {0}, seen : MeetingRow, people : BOOLEAN]

ConsumerInv ==
    /\ warConsumer \in ConsumerStates
    /\ warConsumer.pc # "idle" => warConsumer.meeting \in 1 .. LatestMeeting

FlagInv == ends \in 0 .. MaxEnds /\ warFault \in BOOLEAN /\ trampled \in BOOLEAN

WarRoomInv == TableInv /\ RequestInv /\ EventInv /\ ConsumerInv /\ FlagInv

\* The table only grows.
TableGrows == LatestMeeting \in Nat /\ LatestMeeting' \in Nat /\ LatestMeeting <= LatestMeeting'

\* The parts that are types make the type invariant.
LEMMA InvGivesTypes == WarRoomInv => WarRoomTypeOK
  BY DEF WarRoomInv, TableInv, RequestInv, EventInv, ConsumerInv, FlagInv, WarRoomTypeOK,
         RequestStates, ConsumerStates

----------------------------------------------------------------------------
(***************************************************************************)
(* Rows                                                                    *)
(***************************************************************************)
\* A new meeting is a row of the table.
LEMMA NewMeetingIsRow == NewMeeting \in MeetingRow
  BY DEF NewMeeting, MeetingRow, MeetingStatuses

\* So is an edited row.
LEMMA EditedRows ==
    ASSUME NEW seen \in MeetingRow, NEW t \in BOOLEAN, NEW a \in BOOLEAN
    PROVE  /\ [seen EXCEPT !.status = "active"] \in MeetingRow
           /\ [seen EXCEPT !.status = "ended", !.ended = TRUE, !.transcript = t,
                           !.attendance = a] \in MeetingRow
           /\ [seen EXCEPT !.status = "summarized", !.summary = TRUE,
                           !.attendance = seen.attendance \/ a] \in MeetingRow
  BY DEF MeetingRow, MeetingStatuses

\* None of the edits undoes anything of the row it started from, that of a poll given that the
\* row was scheduled; but the end of a meeting may lose a transcript or an attendance list.
Undoes(old, new) == MeetingUndone(old, new) \/ RecordingLost(old, new)

LEMMA EditsUndoNothing ==
    ASSUME NEW seen \in MeetingRow, NEW t \in BOOLEAN, NEW a \in BOOLEAN
    PROVE  /\ seen.status = "scheduled" => ~Undoes(seen, [seen EXCEPT !.status = "active"])
           /\ ~MeetingUndone(seen, [seen EXCEPT !.status = "ended", !.ended = TRUE,
                  !.transcript = t, !.attendance = a])
           /\ ~Undoes(seen, [seen EXCEPT !.status = "summarized", !.summary = TRUE,
                  !.attendance = seen.attendance \/ a])
  BY DEF MeetingRow, MeetingStatuses, Undoes, MeetingUndone, RecordingLost

\* Writing a row into the table: the others stay, and the table keeps its length.
LEMMA WriteKeepsTable ==
    ASSUME NEW m, NEW seen, NEW new \in MeetingRow, TableInv, WritesMeeting(m, seen, new)
    PROVE  /\ TableInv' /\ TableGrows
           /\ \A k \in DOMAIN meetings : k # m => meetings'[k] = meetings[k]
           /\ m \in DOMAIN meetings => meetings'[m] = new
<1>1. meetings \in [1 .. Len(meetings) -> MeetingRow] /\ Len(meetings) \in Nat
  BY DEF TableInv
<1>2. meetings' \in [1 .. Len(meetings) -> MeetingRow]
  BY <1>1 DEF WritesMeeting
<1>3. meetings' \in Seq(MeetingRow) /\ Len(meetings') = Len(meetings)
  BY <1>1, <1>2
<1> QED
  BY <1>1, <1>3 DEF WritesMeeting, TableInv, TableGrows, LatestMeeting

----------------------------------------------------------------------------
(***************************************************************************)
(* The table.                                                              *)
(***************************************************************************)
\* Every step leaves a table, no shorter than before.
LEMMA TableStep ==
    ASSUME WarRoomInv, [WarRoomNext]_warRoomVars
    PROVE  TableInv' /\ TableGrows
<1> USE DEF WarRoomInv
<1>0. ASSUME UNCHANGED meetings
      PROVE  TableInv' /\ TableGrows
  BY <1>0 DEF TableInv, TableGrows, LatestMeeting
<1>1. ASSUME NEW r \in WarRequests, CreateInserts(r)
      PROVE  TableInv' /\ TableGrows
  <2>1. CASE UNCHANGED meetings
    BY <2>1, <1>0
  <2>2. CASE meetings' = Append(meetings, NewMeeting)
    BY <2>2, NewMeetingIsRow DEF TableInv, TableGrows, LatestMeeting
  <2> QED
    BY <1>1, <2>1, <2>2 DEF CreateInserts
<1>2. ASSUME NEW r \in WarRequests, PollMarksActive(r)
      PROVE  TableInv' /\ TableGrows
  <2>1. warReq[r].seen \in MeetingRow
    BY DEF RequestInv, RequestStates, WarRequestState
  <2>2. [warReq[r].seen EXCEPT !.status = "active"] \in MeetingRow
    BY <2>1, EditedRows
  <2> QED
    BY <1>0, <1>2, <2>2, WriteKeepsTable DEF PollMarksActive
<1>3. ASSUME NEW r \in WarRequests, EndWrites(r)
      PROVE  TableInv' /\ TableGrows
  <2>1. warReq[r].seen \in MeetingRow
    BY DEF RequestInv, RequestStates, WarRequestState
  <2>2. CASE UNCHANGED meetings
    BY <2>2, <1>0
  <2>3. ASSUME NEW t \in BOOLEAN, NEW a \in BOOLEAN,
               WritesMeeting(warReq[r].meeting, warReq[r].seen,
                   [warReq[r].seen EXCEPT !.status = "ended", !.ended = TRUE,
                       !.transcript = t, !.attendance = a])
        PROVE  TableInv' /\ TableGrows
    <3> DEFINE new == [warReq[r].seen EXCEPT !.status = "ended", !.ended = TRUE,
                       !.transcript = t, !.attendance = a]
    <3>1. new \in MeetingRow
      BY <2>1, EditedRows
    <3> HIDE DEF new
    <3>2. WritesMeeting(warReq[r].meeting, warReq[r].seen, new)
      BY <2>3 DEF new
    <3> QED
      BY <3>1, <3>2, WriteKeepsTable
  <2> QED
    BY <1>3, <2>2, <2>3 DEF EndWrites
<1>4. ASSUME AttachWrites
      PROVE  TableInv' /\ TableGrows
  <2> DEFINE seen == warConsumer.seen
             new == [seen EXCEPT !.status = "summarized", !.summary = TRUE,
                                 !.attendance = seen.attendance \/ warConsumer.people]
  <2>1. seen \in MeetingRow /\ warConsumer.people \in BOOLEAN
    BY DEF ConsumerInv, ConsumerStates
  <2>2. new \in MeetingRow
    BY <2>1, EditedRows
  <2>3. WritesMeeting(warConsumer.meeting, seen, new)
    BY <1>4 DEF AttachWrites
  <2> HIDE DEF new, seen
  <2> QED
    BY <2>2, <2>3, WriteKeepsTable
<1>5. ASSUME NEW r \in WarRequests,
             \/ CreateCallsTeams(r) \/ PollReads(r) \/ CreateAnnounces(r)
             \/ \E m \in 1 .. LatestMeeting : EndReads(r, m)
             \/ EndPublishes(r) \/ WarRequestDies(r)
      PROVE  TableInv' /\ TableGrows
  BY <1>0, <1>5 DEF CreateCallsTeams, PollReads, CreateAnnounces, EndReads, EndPublishes,
                    PublishesWarEvent, WarRequestDies
<1>6. ASSUME TakeCreated \/ TakeEnded \/ AttachReads \/ ConsumerRaises \/ ConsumerRestarts
      PROVE  TableInv' /\ TableGrows
  BY <1>0, <1>6 DEF TakeCreated, TakeEnded, AttachReads, ConsumerRaises, ConsumerRestarts
<1>7. ASSUME UNCHANGED warRoomVars
      PROVE  TableInv' /\ TableGrows
  BY <1>0, <1>7 DEF warRoomVars
<1> QED
  BY <1>1, <1>2, <1>3, <1>4, <1>5, <1>6, <1>7 DEF WarRoomNext, AnswerWarRequest, ConsumeWarEvent

----------------------------------------------------------------------------
(***************************************************************************)
(* Requests, events, the consumer.                                         *)
(***************************************************************************)
\* What named a meeting of the table still does when the table has grown.
LEMMA GrowthKeepsIds ==
    ASSUME TableGrows
    PROVE  1 .. LatestMeeting \subseteq 1 .. LatestMeeting'
  BY DEF TableGrows

\* A request that takes up a permitted state keeps the invariant of requests.
LEMMA RequestMoves ==
    ASSUME NEW r \in WarRequests, NEW to \in RequestStates, RequestInv, TableGrows,
           to.pc \in {"announce", "poll", "end", "publish"} => to.meeting \in 1 .. LatestMeeting',
           to.pc = "poll" => to.seen.status = "scheduled",
           warReq' = [warReq EXCEPT ![r] = to]
    PROVE  RequestInv'
<1>1. warReq' \in [WarRequests -> RequestStates]
  BY DEF RequestInv
<1>2. ASSUME NEW q \in WarRequests
      PROVE  /\ warReq'[q].pc \in {"announce", "poll", "end", "publish"} =>
                   warReq'[q].meeting \in 1 .. LatestMeeting'
             /\ warReq'[q].pc = "poll" => warReq'[q].seen.status = "scheduled"
  <2>1. CASE q = r
    BY <2>1 DEF RequestInv
  <2>2. CASE q # r
    <3>1. warReq'[q] = warReq[q]
      BY <2>2 DEF RequestInv
    <3> QED
      BY <3>1, GrowthKeepsIds DEF RequestInv
  <2> QED
    BY <2>1, <2>2
<1> QED
  BY <1>1, <1>2 DEF RequestInv, RequestStates, WarRequestState

\* A request that ends.
LEMMA RequestReturns ==
    ASSUME NEW r \in WarRequests, RequestInv, TableGrows, WarReturns(r)
    PROVE  RequestInv'
<1>1. IdleWarRequest \in RequestStates /\ IdleWarRequest.pc = "idle"
  BY NewMeetingIsRow DEF IdleWarRequest, RequestStates, WarRequestState
<1> HIDE DEF IdleWarRequest
<1> QED
  BY <1>1, RequestMoves DEF WarReturns

\* Requests that nobody touches.
LEMMA RequestsStay ==
    ASSUME RequestInv, TableGrows, UNCHANGED warReq
    PROVE  RequestInv'
  BY GrowthKeepsIds DEF RequestInv

\* A request that reads a row of the table.
LEMMA RequestReads ==
    ASSUME NEW r \in WarRequests, TableInv, RequestInv, TableGrows,
           NEW m \in 1 .. LatestMeeting, NEW pc \in {"poll", "end"},
           pc = "poll" => meetings[m].status = "scheduled", ReadsMeeting(r, m, pc)
    PROVE  RequestInv'
<1> DEFINE to == [pc |-> pc, meeting |-> m, seen |-> meetings[m]]
<1>1. meetings[m] \in MeetingRow /\ m \in Nat \ {0}
  BY DEF TableInv, LatestMeeting
<1>2. to \in RequestStates
  BY <1>1 DEF RequestStates, WarRequestState
<1>3. /\ to.pc = "poll" => to.seen.status = "scheduled"
      /\ to.meeting \in 1 .. LatestMeeting'
  BY GrowthKeepsIds
<1>4. warReq' = [warReq EXCEPT ![r] = to]
  BY DEF ReadsMeeting
<1> HIDE DEF to
<1> QED
  BY <1>2, <1>3, <1>4, RequestMoves

\* Every step keeps the invariant of requests.
LEMMA RequestStep ==
    ASSUME WarRoomInv, [WarRoomNext]_warRoomVars
    PROVE  RequestInv'
<1> USE DEF WarRoomInv
<1>0. TableGrows
  BY TableStep
<1>1. ASSUME NEW r \in WarRequests, CreateCallsTeams(r)
      PROVE  RequestInv'
  <2> DEFINE to == [warReq[r] EXCEPT !.pc = "insert"]
  <2>1. to \in RequestStates /\ to.pc = "insert"
    BY DEF RequestInv, RequestStates, WarRequestState
  <2>2. warReq' = [warReq EXCEPT ![r] = to]
    BY <1>1 DEF CreateCallsTeams, WarMoves
  <2> HIDE DEF to
  <2> QED
    BY <1>0, <2>1, <2>2, RequestMoves
<1>2. ASSUME NEW r \in WarRequests, CreateInserts(r)
      PROVE  RequestInv'
  <2>1. CASE WarReturns(r)
    BY <1>0, <2>1, RequestReturns
  <2>2. CASE /\ meetings' = Append(meetings, NewMeeting)
             /\ warReq' = [warReq EXCEPT ![r] = [pc |-> "announce", meeting |-> LatestMeeting + 1,
                                                 seen |-> NewMeeting]]
    <3> DEFINE to == [pc |-> "announce", meeting |-> LatestMeeting + 1, seen |-> NewMeeting]
    <3>1. LatestMeeting \in Nat /\ LatestMeeting' = LatestMeeting + 1
      BY <2>2, NewMeetingIsRow DEF TableInv, LatestMeeting
    <3>2. to \in RequestStates /\ to.pc = "announce" /\ to.meeting \in 1 .. LatestMeeting'
      BY <3>1, NewMeetingIsRow DEF RequestStates, WarRequestState
    <3>3. warReq' = [warReq EXCEPT ![r] = to]
      BY <2>2
    <3> HIDE DEF to
    <3> QED
      BY <1>0, <3>2, <3>3, RequestMoves
  <2> QED
    BY <1>2, <2>1, <2>2 DEF CreateInserts
<1>3. ASSUME NEW r \in WarRequests, PollReads(r)
      PROVE  RequestInv'
  <2>1. LatestMeeting \in 1 .. LatestMeeting
    BY <1>3 DEF PollReads, TableInv, LatestMeeting
  <2> QED
    BY <1>0, <1>3, <2>1, RequestReads DEF PollReads
<1>4. ASSUME NEW r \in WarRequests, NEW m \in 1 .. LatestMeeting, EndReads(r, m)
      PROVE  RequestInv'
  BY <1>0, <1>4, RequestReads DEF EndReads
<1>5. ASSUME NEW r \in WarRequests,
             \/ PollMarksActive(r) \/ CreateAnnounces(r) \/ EndPublishes(r) \/ WarRequestDies(r)
      PROVE  RequestInv'
  BY <1>0, <1>5, RequestReturns
     DEF PollMarksActive, CreateAnnounces, EndPublishes, PublishesWarEvent, WarRequestDies
<1>6. ASSUME NEW r \in WarRequests, EndWrites(r)
      PROVE  RequestInv'
  <2>1. CASE WarReturns(r)
    BY <1>0, <2>1, RequestReturns
  <2>2. CASE WarMoves(r, "publish")
    <3> DEFINE to == [warReq[r] EXCEPT !.pc = "publish"]
    <3>1. to \in RequestStates /\ to.pc = "publish" /\ to.meeting = warReq[r].meeting
      BY DEF RequestInv, RequestStates, WarRequestState
    <3>2. to.meeting \in 1 .. LatestMeeting'
      BY <1>0, <1>6, <3>1, GrowthKeepsIds DEF EndWrites, RequestInv
    <3>3. warReq' = [warReq EXCEPT ![r] = to]
      BY <2>2 DEF WarMoves
    <3> HIDE DEF to
    <3> QED
      BY <1>0, <3>1, <3>2, <3>3, RequestMoves
  <2> QED
    BY <1>6, <2>1, <2>2 DEF EndWrites
<1>7. ASSUME ConsumeWarEvent \/ ConsumerRestarts \/ UNCHANGED warRoomVars
      PROVE  RequestInv'
  BY <1>0, <1>7, RequestsStay DEF ConsumeWarEvent, TakeCreated, TakeEnded, AttachReads,
     AttachWrites, ConsumerRaises, ConsumerRestarts, warRoomVars
<1> QED
  BY <1>1, <1>2, <1>3, <1>4, <1>5, <1>6, <1>7 DEF WarRoomNext, AnswerWarRequest

\* Events that nobody touches.
LEMMA EventsStay ==
    ASSUME EventInv, TableGrows, UNCHANGED warEvents
    PROVE  EventInv'
  BY GrowthKeepsIds DEF EventInv

\* An event that is published about a meeting of the table.
LEMMA EventPublished ==
    ASSUME NEW r \in WarRequests, NEW kind \in {"created", "ended"}, RequestInv, EventInv, TableGrows,
           warReq[r].pc \in {"announce", "publish"}, PublishesWarEvent(r, kind)
    PROVE  EventInv'
<1>1. CASE UNCHANGED warEvents
  BY <1>1, EventsStay
<1>2. CASE warEvents' = Append(warEvents, [kind |-> kind, meeting |-> warReq[r].meeting])
  <2> DEFINE event == [kind |-> kind, meeting |-> warReq[r].meeting]
  <2>1. event.meeting \in 1 .. LatestMeeting' /\ event \in [kind : {"created", "ended"}, meeting : Nat \ {0}]
    BY GrowthKeepsIds DEF RequestInv, RequestStates, WarRequestState
  <2>2. warEvents' = Append(warEvents, event)
    BY <1>2
  <2> HIDE DEF event
  <2>3. \A k \in 1 .. Len(warEvents') : warEvents'[k] = event \/ (k \in 1 .. Len(warEvents) /\ warEvents'[k] = warEvents[k])
    BY <2>1, <2>2 DEF EventInv
  <2> QED
    BY <2>1, <2>2, <2>3, GrowthKeepsIds DEF EventInv
<1> QED
  BY <1>1, <1>2 DEF PublishesWarEvent

\* Taking the first event.
LEMMA EventTaken ==
    ASSUME EventInv, TableGrows, warEvents # <<>>, warEvents' = Tail(warEvents)
    PROVE  EventInv'
<1>1. \A k \in 1 .. Len(warEvents') : k + 1 \in 1 .. Len(warEvents) /\ warEvents'[k] = warEvents[k + 1]
  BY DEF EventInv
<1> QED
  BY <1>1, GrowthKeepsIds DEF EventInv

\* Every step keeps the invariant of events.
LEMMA EventStep ==
    ASSUME WarRoomInv, [WarRoomNext]_warRoomVars
    PROVE  EventInv'
<1> USE DEF WarRoomInv
<1>0. TableGrows
  BY TableStep
<1>1. ASSUME NEW r \in WarRequests, CreateAnnounces(r) \/ EndPublishes(r)
      PROVE  EventInv'
  BY <1>0, <1>1, EventPublished DEF CreateAnnounces, EndPublishes
<1>2. ASSUME TakeCreated \/ TakeEnded
      PROVE  EventInv'
  BY <1>0, <1>2, EventTaken DEF TakeCreated, TakeEnded
<1>3. ASSUME ConsumerRestarts
      PROVE  EventInv'
  <2> DEFINE event == [kind |-> "ended", meeting |-> warConsumer.meeting]
             one == <<event>>
  <2>1. /\ event \in [kind : {"created", "ended"}, meeting : Nat \ {0}]
        /\ event.meeting \in 1 .. LatestMeeting'
    BY <1>0, <1>3, GrowthKeepsIds DEF ConsumerRestarts, ConsumerInv, ConsumerStates
  <2>2. warEvents' = one \o warEvents
    BY <1>3 DEF ConsumerRestarts
  <2> HIDE DEF event
  <2>3. one \in Seq([kind : {"created", "ended"}, meeting : Nat \ {0}]) /\ Len(one) = 1 /\ one[1] = event
    BY <2>1
  <2> HIDE DEF one
  <2>4. /\ warEvents' \in Seq([kind : {"created", "ended"}, meeting : Nat \ {0}])
        /\ \A k \in 1 .. Len(warEvents') :
              warEvents'[k] = event \/ \E j \in 1 .. Len(warEvents) : warEvents'[k] = warEvents[j]
    <3> DEFINE S == [kind : {"created", "ended"}, meeting : Nat \ {0}]
    <3>0. one \in Seq(S) /\ warEvents \in Seq(S)
      BY <2>3 DEF EventInv
    <3> HIDE DEF S
    <3>4. /\ Len(one \o warEvents) = Len(one) + Len(warEvents)
          /\ one \o warEvents \in Seq(S)
          /\ \A k \in 1 .. (Len(one) + Len(warEvents)) :
                (one \o warEvents)[k] = IF k <= Len(one) THEN one[k] ELSE warEvents[k - Len(one)]
      BY <3>0, ConcatProperties
    <3>5. Len(one) = 1
      BY <2>3
    <3>1. /\ Len(warEvents') = 1 + Len(warEvents)
          /\ warEvents' \in Seq(S)
          /\ \A k \in 1 .. (1 + Len(warEvents)) :
                warEvents'[k] = IF k <= 1 THEN one[k] ELSE warEvents[k - 1]
      BY <2>2, <3>4, <3>5, Zenon
    <3>2. ASSUME NEW k \in 1 .. Len(warEvents'), k # 1
          PROVE  \E j \in 1 .. Len(warEvents) : warEvents'[k] = warEvents[j]
      <4>1. k - 1 \in 1 .. Len(warEvents) /\ warEvents'[k] = warEvents[k - 1]
        BY <3>0, <3>1, <3>2
      <4> QED
        BY <4>1
    <3>3. warEvents'[1] = event
      BY <2>3, <3>0, <3>1
    <3> QED
      BY <3>1, <3>2, <3>3 DEF S
  <2> QED
    BY <1>0, <2>1, <2>4, GrowthKeepsIds DEF EventInv
<1>4. ASSUME NEW r \in WarRequests,
             \/ CreateCallsTeams(r) \/ CreateInserts(r) \/ PollReads(r) \/ PollMarksActive(r)
             \/ \E m \in 1 .. LatestMeeting : EndReads(r, m)
             \/ EndWrites(r) \/ WarRequestDies(r)
      PROVE  EventInv'
  BY <1>0, <1>4, EventsStay DEF CreateCallsTeams, CreateInserts, PollReads, PollMarksActive,
     EndReads, EndWrites, WarRequestDies
<1>5. ASSUME AttachReads \/ AttachWrites \/ ConsumerRaises \/ UNCHANGED warRoomVars
      PROVE  EventInv'
  BY <1>0, <1>5, EventsStay DEF AttachReads, AttachWrites, ConsumerRaises, warRoomVars
<1> QED
  BY <1>1, <1>2, <1>3, <1>4, <1>5 DEF WarRoomNext, AnswerWarRequest, ConsumeWarEvent

\* Every step keeps the invariant of the consumer.
LEMMA ConsumerStep ==
    ASSUME WarRoomInv, [WarRoomNext]_warRoomVars
    PROVE  ConsumerInv'
<1> USE DEF WarRoomInv
<1>0. TableGrows
  BY TableStep
<1>1. ASSUME UNCHANGED warConsumer
      PROVE  ConsumerInv'
  BY <1>0, <1>1, GrowthKeepsIds DEF ConsumerInv
<1>2. ASSUME warConsumer' = IdleConsumer
      PROVE  ConsumerInv'
  BY <1>2, NewMeetingIsRow DEF ConsumerInv, ConsumerStates, IdleConsumer
<1>3. ASSUME TakeEnded
      PROVE  ConsumerInv'
  <2> DEFINE m == Head(warEvents).meeting
  <2>1. m \in 1 .. LatestMeeting /\ m \in Nat \ {0}
    BY <1>3 DEF TakeEnded, EventInv
  <2> HIDE DEF m
  <2>2. meetings[m] \in MeetingRow
    BY <2>1 DEF TableInv, LatestMeeting
  <2>5. meetings[m].attendance \in BOOLEAN
    BY <2>2 DEF MeetingRow
  <2>3. warConsumer' = [pc |-> "summarize", meeting |-> m, seen |-> meetings[m],
                                people |-> meetings[m].attendance]
    BY <1>3 DEF TakeEnded, m
  <2>4. m \in 1 .. LatestMeeting'
    BY <1>0, <2>1, GrowthKeepsIds
  <2> QED
    BY <2>1, <2>2, <2>3, <2>4, <2>5 DEF ConsumerInv, ConsumerStates
<1>4. ASSUME AttachReads
      PROVE  ConsumerInv'
  <2>1. meetings[warConsumer.meeting] \in MeetingRow
    BY <1>4 DEF AttachReads, ConsumerInv, TableInv, LatestMeeting
  <2>2. warConsumer.meeting \in 1 .. LatestMeeting'
    BY <1>0, <1>4, GrowthKeepsIds DEF AttachReads, ConsumerInv
  <2> QED
    BY <1>4, <2>1, <2>2 DEF AttachReads, ConsumerInv, ConsumerStates
<1>5. ASSUME TakeCreated \/ AttachWrites \/ ConsumerRaises \/ ConsumerRestarts
      PROVE  ConsumerInv'
  BY <1>1, <1>2, <1>5 DEF TakeCreated, AttachWrites, ConsumerRaises, ConsumerRestarts
<1>6. ASSUME NEW r \in WarRequests,
             \/ CreateCallsTeams(r) \/ PollReads(r) \/ \E m \in 1 .. LatestMeeting : EndReads(r, m)
             \/ AnswerWarRequest(r) \/ WarRequestDies(r)
      PROVE  ConsumerInv'
  BY <1>1, <1>6 DEF CreateCallsTeams, CreateInserts, PollReads, PollMarksActive, AnswerWarRequest,
     EndReads, EndWrites, WarRequestDies, CreateAnnounces, EndPublishes, PublishesWarEvent
<1>7. ASSUME UNCHANGED warRoomVars
      PROVE  ConsumerInv'
  BY <1>1, <1>7 DEF warRoomVars
<1> QED
  BY <1>3, <1>4, <1>5, <1>6, <1>7 DEF WarRoomNext, ConsumeWarEvent

\* Every step keeps the count of ends in its bound and the flags flags.
LEMMA FlagStep ==
    ASSUME FlagInv, [WarRoomNext]_warRoomVars
    PROVE  FlagInv'
<1>1. (warFault \in BOOLEAN /\ trampled \in BOOLEAN)'
  <2> USE DEF FlagInv
  <2>1. ASSUME NEW r \in WarRequests,
               \/ CreateCallsTeams(r) \/ PollReads(r) \/ \E m \in 1 .. LatestMeeting : EndReads(r, m)
               \/ AnswerWarRequest(r) \/ WarRequestDies(r)
        PROVE  (warFault \in BOOLEAN /\ trampled \in BOOLEAN)'
    BY <2>1, Zenon DEF CreateCallsTeams, CreateInserts, PollReads, PollMarksActive, AnswerWarRequest,
       EndReads, EndWrites, WarRequestDies, CreateAnnounces, EndPublishes, PublishesWarEvent,
       WritesMeeting
  <2>2. ASSUME ConsumeWarEvent \/ ConsumerRestarts \/ UNCHANGED warRoomVars
        PROVE  (warFault \in BOOLEAN /\ trampled \in BOOLEAN)'
    BY <2>2, Zenon DEF ConsumeWarEvent, TakeCreated, TakeEnded, AttachReads, AttachWrites,
       ConsumerRaises, ConsumerRestarts, warRoomVars, WritesMeeting
  <2> QED
    BY <2>1, <2>2 DEF WarRoomNext
<1>2. (ends \in 0 .. MaxEnds)'
  <2>1. UNCHANGED ends \/ (ends < MaxEnds /\ ends' = ends + 1)
    BY DEF WarRoomNext, AnswerWarRequest, ConsumeWarEvent, CreateCallsTeams, CreateInserts,
       CreateAnnounces, PublishesWarEvent, PollReads, PollMarksActive, EndReads, EndWrites,
       EndPublishes, WarRequestDies, TakeCreated, TakeEnded, AttachReads, AttachWrites,
       ConsumerRaises, ConsumerRestarts, warRoomVars
  <2> QED
    BY <2>1, WarRoomAssumption DEF FlagInv
<1> QED
  BY <1>1, <1>2 DEF FlagInv

----------------------------------------------------------------------------
\* The invariant holds in every state.
LEMMA InvHolds == WarRoomSpec => []WarRoomInv
<1>1. WarRoomInit => WarRoomInv
  <2> SUFFICES ASSUME WarRoomInit PROVE WarRoomInv
    OBVIOUS
  <2>1. IdleWarRequest \in RequestStates /\ IdleWarRequest.pc = "idle"
    BY NewMeetingIsRow DEF IdleWarRequest, RequestStates, WarRequestState
  <2>2. RequestInv
    <3> HIDE DEF IdleWarRequest
    <3> QED
      BY <2>1 DEF WarRoomInit, RequestInv
  <2>3. TableInv /\ EventInv
    BY DEF WarRoomInit, TableInv, EventInv
  <2>5. FlagInv
    <3>1. ends \in 0 .. MaxEnds
      BY WarRoomAssumption DEF WarRoomInit
    <3>2. warFault \in BOOLEAN /\ trampled \in BOOLEAN
      BY Zenon DEF WarRoomInit
    <3> QED
      BY <3>1, <3>2 DEF FlagInv
  <2>4. ConsumerInv
    BY NewMeetingIsRow DEF WarRoomInit, ConsumerInv, ConsumerStates, IdleConsumer
  <2> QED
    BY <2>2, <2>3, <2>4, <2>5 DEF WarRoomInv
<1>2. WarRoomInv /\ [WarRoomNext]_warRoomVars => WarRoomInv'
  <2> SUFFICES ASSUME WarRoomInv, [WarRoomNext]_warRoomVars PROVE WarRoomInv'
    OBVIOUS
  <2>1. FlagInv
    BY DEF WarRoomInv
  <2> QED
    BY <2>1, TableStep, RequestStep, EventStep, ConsumerStep, FlagStep DEF WarRoomInv
<1> QED
  BY <1>1, <1>2, PTL DEF WarRoomSpec

(***************************************************************************)
(* The types of the war rooms' variables, in every state.                  *)
(***************************************************************************)
THEOREM WarRoomTypeCorrect == WarRoomSpec => []WarRoomTypeOK
  BY InvHolds, InvGivesTypes, PTL

----------------------------------------------------------------------------
\* A write that undoes something of a row, which the edit does not undo of the row it
\* was made of, was made of another row.
LEMMA UndoIsStale ==
    ASSUME TableInv, NEW n, NEW seen, NEW new \in MeetingRow, WritesMeeting(n, seen, new),
           NEW m \in DOMAIN meetings, Undoes(meetings[m], meetings'[m])
    PROVE  m = n /\ meetings'[m] = new /\ (~Undoes(seen, new) => seen # meetings[m])
<1>1. meetings[m] \in MeetingRow
  BY DEF TableInv
<1>2. ~Undoes(meetings[m], meetings[m])
  BY <1>1 DEF Undoes, MeetingUndone, RecordingLost, MeetingRow
<1>3. m = n
  BY <1>2, WriteKeepsTable
<1>4. meetings'[m] = new
  BY <1>3, WriteKeepsTable
<1> QED
  BY <1>3, <1>4

(***************************************************************************)
(* A meeting goes back from ended or summarized to active, or loses its    *)
(* summary, only by the write of a request, or of the consumer, that holds *)
(* a row read before another write; it loses its transcript or attendance  *)
(* only so, or by a POST /end (maybeMarkActive, EndWarRoom, AttachSummary).*)
(***************************************************************************)
THEOREM UndoingNeedsStaleWrite == WarRoomSpec => OnlyStaleWritesUndo
<1> DEFINE Kept == \A m \in DOMAIN meetings :
                      /\ MeetingUndone(meetings[m], meetings'[m]) => StaleWriter(m)
                      /\ RecordingLost(meetings[m], meetings'[m]) => StaleWriter(m) \/ EndsMeeting(m)
<1>1. WarRoomInv /\ [WarRoomNext]_warRoomVars => Kept
  <2> SUFFICES ASSUME WarRoomInv, [WarRoomNext]_warRoomVars,
                      NEW m \in DOMAIN meetings, Undoes(meetings[m], meetings'[m])
               PROVE  \/ StaleWriter(m)
                      \/ EndsMeeting(m) /\ ~MeetingUndone(meetings[m], meetings'[m])
    BY DEF Undoes
  <2> USE DEF WarRoomInv
  <2>1. meetings[m] \in MeetingRow
    BY DEF TableInv
  <2>2. meetings'[m] # meetings[m]
    BY <2>1 DEF Undoes, MeetingUndone, RecordingLost, MeetingRow
  <2>3. ASSUME NEW r \in WarRequests, PollMarksActive(r)
        PROVE  StaleWriter(m)
    <3> DEFINE seen == warReq[r].seen
               new == [seen EXCEPT !.status = "active"]
    <3>1. seen \in MeetingRow /\ seen.status = "scheduled"
      BY <2>3 DEF PollMarksActive, RequestInv, RequestStates, WarRequestState
    <3>2. new \in MeetingRow /\ ~Undoes(seen, new)
      BY <3>1, EditedRows, EditsUndoNothing
    <3>3. WritesMeeting(warReq[r].meeting, seen, new)
      BY <2>2, <2>3 DEF PollMarksActive
    <3>4. warReq'[r] # warReq[r]
      BY <2>3 DEF PollMarksActive, WarReturns, IdleWarRequest, RequestInv
    <3> HIDE DEF new
    <3>5. m = warReq[r].meeting /\ seen # meetings[m]
      BY <3>2, <3>3, UndoIsStale
    <3> QED
      BY <3>4, <3>5 DEF StaleWriter
  <2>4. ASSUME NEW r \in WarRequests, EndWrites(r)
        PROVE  \/ StaleWriter(m)
               \/ EndsMeeting(m) /\ ~MeetingUndone(meetings[m], meetings'[m])
    <3> DEFINE seen == warReq[r].seen
               new(t, a) == [seen EXCEPT !.status = "ended", !.ended = TRUE,
                               !.transcript = t, !.attendance = a]
    <3>1. seen \in MeetingRow
      BY DEF RequestInv, RequestStates, WarRequestState
    <3>2. PICK t \in BOOLEAN, a \in BOOLEAN :
             WritesMeeting(warReq[r].meeting, seen, new(t, a)) /\ WarMoves(r, "publish")
      BY <2>2, <2>4 DEF EndWrites
    <3>3. new(t, a) \in MeetingRow /\ ~MeetingUndone(seen, new(t, a))
      BY <3>1, EditedRows, EditsUndoNothing
    <3>4. warReq[r].pc = "end" /\ warReq'[r].pc = "publish"
      BY <2>4, <3>2 DEF EndWrites, WarMoves, RequestInv, RequestStates, WarRequestState
    <3> HIDE DEF new
    <3>5. m = warReq[r].meeting /\ meetings'[m] = new(t, a)
      BY <3>2, <3>3, UndoIsStale
    <3>6. CASE seen # meetings[m]
      BY <3>4, <3>5, <3>6 DEF StaleWriter
    <3>7. CASE seen = meetings[m]
      BY <3>3, <3>4, <3>5, <3>7 DEF EndsMeeting
    <3> QED
      BY <3>6, <3>7
  <2>5. ASSUME AttachWrites
        PROVE  StaleWriter(m)
    <3> DEFINE seen == warConsumer.seen
               new == [seen EXCEPT !.status = "summarized", !.summary = TRUE,
                                   !.attendance = seen.attendance \/ warConsumer.people]
    <3>1. seen \in MeetingRow /\ warConsumer.people \in BOOLEAN
      BY DEF ConsumerInv, ConsumerStates
    <3>2. new \in MeetingRow /\ ~Undoes(seen, new)
      BY <3>1, EditedRows, EditsUndoNothing
    <3>3. WritesMeeting(warConsumer.meeting, seen, new)
      BY <2>5 DEF AttachWrites
    <3>4. warConsumer' # warConsumer
      BY <2>5 DEF AttachWrites, IdleConsumer
    <3> HIDE DEF new
    <3>5. m = warConsumer.meeting /\ seen # meetings[m]
      BY <3>2, <3>3, UndoIsStale
    <3> QED
      BY <3>4, <3>5 DEF StaleWriter
  <2>6. ASSUME NEW r \in WarRequests, CreateInserts(r)
        PROVE  FALSE
    <3>1. meetings' = Append(meetings, NewMeeting) \/ UNCHANGED meetings
      BY <2>6 DEF CreateInserts
    <3>2. meetings'[m] = meetings[m]
      BY <3>1, NewMeetingIsRow DEF TableInv
    <3> QED
      BY <2>2, <3>2
  <2>7. ASSUME NEW r \in WarRequests,
               \/ CreateCallsTeams(r) \/ PollReads(r) \/ CreateAnnounces(r)
               \/ \E k \in 1 .. LatestMeeting : EndReads(r, k)
               \/ EndPublishes(r) \/ WarRequestDies(r)
        PROVE  FALSE
    BY <2>2, <2>7 DEF CreateCallsTeams, PollReads, CreateAnnounces, EndReads, EndPublishes,
                      PublishesWarEvent, WarRequestDies
  <2>8. ASSUME \/ TakeCreated \/ TakeEnded \/ AttachReads \/ ConsumerRaises \/ ConsumerRestarts
               \/ UNCHANGED warRoomVars
        PROVE  FALSE
    BY <2>2, <2>8 DEF TakeCreated, TakeEnded, AttachReads, ConsumerRaises, ConsumerRestarts,
                      warRoomVars
  <2> QED
    BY <2>3, <2>4, <2>5, <2>6, <2>7, <2>8 DEF WarRoomNext, AnswerWarRequest, ConsumeWarEvent
<1>2. [][WarRoomNext]_warRoomVars /\ []WarRoomInv => [][Kept]_warRoomVars
  BY <1>1, PTL
<1> QED
  BY <1>2, InvHolds, PTL DEF WarRoomSpec, OnlyStaleWritesUndo

----------------------------------------------------------------------------
(***************************************************************************)
(* No end is forgotten.                                                    *)
(***************************************************************************)
\* A meeting is ended and still to be summarized.
ToSummarize(m) == m \in DOMAIN meetings /\ meetings[m].ended /\ meetings[m].status # "summarized"

EndEvent(m) == [kind |-> "ended", meeting |-> m]

\* Somebody has it in hand: the request that ended it, an event or the consumer.
HeldByRequest(m) == \E r \in WarRequests : warReq[r].pc = "publish" /\ warReq[r].meeting = m
HeldByEvent(m) == \E k \in 1 .. Len(warEvents) : warEvents[k] = EndEvent(m)
HeldByConsumer(m) == warConsumer.pc # "idle" /\ warConsumer.meeting = m
HeldMeeting(m) == HeldByRequest(m) \/ HeldByEvent(m) \/ HeldByConsumer(m)

AllWell == ~warFault /\ ~trampled

NoEndIsForgotten == AllWell => \A m \in DOMAIN meetings : ToSummarize(m) => HeldMeeting(m)

\* What has gone wrong stays on record.
LEMMA AllWasWell ==
    ASSUME [WarRoomNext]_warRoomVars, AllWell'
    PROVE  AllWell
<1> DEFINE Recorded == /\ UNCHANGED warFault \/ warFault' = TRUE
                       /\ UNCHANGED trampled \/ \E m, seen, row : WritesMeeting(m, seen, row)
<1>1. ASSUME NEW r \in WarRequests,
             \/ CreateCallsTeams(r) \/ PollReads(r) \/ CreateAnnounces(r) \/ CreateInserts(r)
             \/ \E m \in 1 .. LatestMeeting : EndReads(r, m)
             \/ EndPublishes(r) \/ WarRequestDies(r)
      PROVE  Recorded
  BY <1>1 DEF CreateCallsTeams, PollReads, CreateAnnounces, EndReads, EndPublishes, CreateInserts,
              PublishesWarEvent, WarRequestDies
<1>2. ASSUME NEW r \in WarRequests, PollMarksActive(r) \/ EndWrites(r)
      PROVE  Recorded
  BY <1>2, Zenon DEF PollMarksActive, EndWrites
<1>3. ASSUME ConsumeWarEvent \/ ConsumerRestarts \/ UNCHANGED warRoomVars
      PROVE  Recorded
  BY <1>3 DEF ConsumeWarEvent, TakeCreated, TakeEnded, AttachReads, AttachWrites,
     ConsumerRaises, ConsumerRestarts, warRoomVars
<1>4. Recorded
  BY <1>1, <1>2, <1>3 DEF WarRoomNext, AnswerWarRequest
<1>5. ~warFault
  BY <1>4, Zenon DEF AllWell
<1>6. ~trampled
  BY <1>4, Zenon DEF AllWell, WritesMeeting
<1> QED
  BY <1>5, <1>6 DEF AllWell

\* A write that is no stale one, of a row with or without an end in it.
LEMMA PlainWrite ==
    ASSUME TableInv, NEW n \in DOMAIN meetings, NEW seen, NEW new \in MeetingRow,
           WritesMeeting(n, seen, new), AllWell', NEW m, ToSummarize(m)'
    PROVE  /\ seen = meetings[n]
           /\ m = n => new.ended /\ new.status # "summarized"
           /\ m # n => ToSummarize(m)
<1>1. seen = meetings[n]
  BY Zenon DEF WritesMeeting, AllWell
<1>2. DOMAIN meetings' = DOMAIN meetings
  BY DEF WritesMeeting
<1> QED
  BY <1>1, <1>2, WriteKeepsTable DEF ToSummarize

\* Every step either summarizes a meeting or leaves it with somebody.
LEMMA HeldStep ==
    ASSUME WarRoomInv, NoEndIsForgotten, [WarRoomNext]_warRoomVars
    PROVE  NoEndIsForgotten'
<1> SUFFICES ASSUME AllWell', NEW m, ToSummarize(m)' PROVE HeldMeeting(m)'
  BY DEF NoEndIsForgotten
<1> USE DEF WarRoomInv
<1>0. ToSummarize(m) => HeldMeeting(m)
  BY AllWasWell DEF NoEndIsForgotten, ToSummarize
<1>f. warFault' # TRUE
  BY Zenon DEF AllWell
<1>q. warReq \in [WarRequests -> RequestStates]
  BY DEF RequestInv
<1>1. ASSUME NEW r \in WarRequests, WarReturns(r) \/ (\E pc, n : ReadsMeeting(r, n, pc)) \/ WarMoves(r, "insert"),
             warReq[r].pc # "publish", HeldMeeting(m), UNCHANGED <<warEvents, warConsumer>>
      PROVE  HeldMeeting(m)'
  <2>1. \A q \in WarRequests : q # r => warReq'[q] = warReq[q]
    BY <1>q, <1>1 DEF WarReturns, ReadsMeeting, WarMoves
  <2>2. HeldByRequest(m) => HeldByRequest(m)'
    BY <1>1, <2>1 DEF HeldByRequest
  <2>3. UNCHANGED <<HeldByEvent(m), HeldByConsumer(m)>>
    BY <1>1 DEF HeldByEvent, HeldByConsumer
  <2> QED
    BY <1>1, <2>2, <2>3, Zenon DEF HeldMeeting
<1>2. ASSUME NEW r \in WarRequests,
             CreateCallsTeams(r) \/ PollReads(r) \/ \E n \in 1 .. LatestMeeting : EndReads(r, n)
      PROVE  HeldMeeting(m)'
  <2>1. /\ UNCHANGED <<meetings, warEvents, warConsumer>> /\ warReq[r].pc = "idle"
        /\ (\E pc, n : ReadsMeeting(r, n, pc)) \/ WarMoves(r, "insert")
    BY <1>2 DEF CreateCallsTeams, PollReads, EndReads
  <2>2. ToSummarize(m)
    BY <2>1 DEF ToSummarize
  <2> QED
    BY <1>0, <1>1, <2>1, <2>2
<1>3. ASSUME NEW r \in WarRequests, CreateInserts(r)
      PROVE  HeldMeeting(m)'
  <2>1. /\ warReq[r].pc = "insert" /\ UNCHANGED <<warEvents, warConsumer>> /\ meetings' = Append(meetings, NewMeeting)
        /\ warReq' = [warReq EXCEPT ![r] = [pc |-> "announce", meeting |-> LatestMeeting + 1, seen |-> NewMeeting]]
    BY <1>3, <1>f DEF CreateInserts
  <2>2. ToSummarize(m)
    BY <2>1, NewMeetingIsRow DEF ToSummarize, TableInv, NewMeeting
  <2>3. \A q \in WarRequests : q # r => warReq'[q] = warReq[q]
    BY <1>q, <2>1
  <2>4. HeldByRequest(m) => HeldByRequest(m)'
    BY <2>1, <2>3 DEF HeldByRequest
  <2>5. UNCHANGED <<HeldByEvent(m), HeldByConsumer(m)>>
    BY <2>1 DEF HeldByEvent, HeldByConsumer
  <2> QED
    BY <1>0, <2>2, <2>4, <2>5, Zenon DEF HeldMeeting
<1>4. ASSUME NEW r \in WarRequests, NEW kind \in {"created", "ended"}, PublishesWarEvent(r, kind),
             warReq[r].pc \in {"announce", "publish"}, warReq[r].pc = "publish" => kind = "ended"
      PROVE  HeldMeeting(m)'
  <2> DEFINE event == [kind |-> kind, meeting |-> warReq[r].meeting]
  <2>1. warEvents' = Append(warEvents, event) /\ UNCHANGED <<meetings, warConsumer>> /\ WarReturns(r)
    BY <1>4, <1>f DEF PublishesWarEvent
  <2>2. HeldMeeting(m)
    BY <1>0, <2>1 DEF ToSummarize
  <2>3. \A q \in WarRequests : q # r => warReq'[q] = warReq[q]
    BY <1>q, <2>1 DEF WarReturns
  <2>4. /\ Len(warEvents) \in Nat /\ Len(warEvents') = Len(warEvents) + 1
        /\ \A k \in 1 .. Len(warEvents) : warEvents'[k] = warEvents[k]
        /\ warEvents'[Len(warEvents) + 1] = event
    BY <2>1 DEF EventInv
  <2>5. warReq[r].pc = "publish" /\ warReq[r].meeting = m => HeldByEvent(m)'
    <3> SUFFICES ASSUME warReq[r].pc = "publish", warReq[r].meeting = m PROVE HeldByEvent(m)'
      OBVIOUS
    <3>1. event = EndEvent(m)
      BY <1>4 DEF EndEvent
    <3> QED
      BY <2>4, <3>1 DEF HeldByEvent, EndEvent
  <2>6. HeldByRequest(m) => HeldByRequest(m)' \/ HeldByEvent(m)'
    BY <2>3, <2>5 DEF HeldByRequest
  <2>7. HeldByEvent(m) => HeldByEvent(m)'
    BY <2>4 DEF HeldByEvent, EndEvent
  <2>8. HeldByConsumer(m) => HeldByConsumer(m)'
    BY <2>1 DEF HeldByConsumer
  <2> QED
    BY <2>2, <2>6, <2>7, <2>8 DEF HeldMeeting
<1>5. ASSUME NEW r \in WarRequests, CreateAnnounces(r) \/ EndPublishes(r)
      PROVE  HeldMeeting(m)'
  BY <1>4, <1>5 DEF CreateAnnounces, EndPublishes
<1>6. ASSUME NEW r \in WarRequests, PollMarksActive(r)
      PROVE  HeldMeeting(m)'
  <2> DEFINE n == warReq[r].meeting
             seen == warReq[r].seen
             new == [seen EXCEPT !.status = "active"]
  <2>1. /\ warReq[r].pc = "poll" /\ WarReturns(r) /\ UNCHANGED <<warEvents, warConsumer>>
        /\ WritesMeeting(n, seen, new) \/ UNCHANGED meetings
    BY <1>6 DEF PollMarksActive
  <2>2. seen \in MeetingRow /\ n \in DOMAIN meetings /\ seen.status = "scheduled"
    BY <2>1 DEF RequestInv, RequestStates, WarRequestState, LatestMeeting, TableInv
  <2>7. new \in MeetingRow
    BY <2>2, EditedRows
  <2>3. new \in MeetingRow /\ new.ended = seen.ended
    BY <2>2, <2>7 DEF MeetingRow
  <2>u. UNCHANGED meetings => ToSummarize(m)
    BY DEF ToSummarize
  <2> HIDE DEF new, seen, n
  <2>4. ASSUME WritesMeeting(n, seen, new) PROVE ToSummarize(m)
    <3>1. /\ seen = meetings[n]
          /\ m = n => new.ended /\ new.status # "summarized"
          /\ m # n => ToSummarize(m)
      BY <2>2, <2>3, <2>4, PlainWrite
    <3> QED
      BY <2>2, <2>3, <3>1 DEF ToSummarize
  <2> QED
    BY <1>0, <1>1, <2>1, <2>u, <2>4
<1>7. ASSUME NEW r \in WarRequests, EndWrites(r)
      PROVE  HeldMeeting(m)'
  <2>n. PICK n : n = warReq[r].meeting
    OBVIOUS
  <2> DEFINE seen == warReq[r].seen
             new(t, a) == [seen EXCEPT !.status = "ended", !.ended = TRUE,
                               !.transcript = t, !.attendance = a]
  <2>1. /\ warReq[r].pc = "end" /\ UNCHANGED <<warEvents, warConsumer>> /\ WarMoves(r, "publish")
    BY <1>7, <1>f DEF EndWrites
  <2>2. PICK t \in BOOLEAN, a \in BOOLEAN : WritesMeeting(n, seen, new(t, a))
    BY <1>7, <1>f, <2>n DEF EndWrites
  <2>3. seen \in MeetingRow /\ n \in DOMAIN meetings
    BY <2>1, <2>n DEF RequestInv, RequestStates, WarRequestState, LatestMeeting, TableInv
  <2>4. new(t, a) \in MeetingRow
    BY <2>3, EditedRows
  <2>5. /\ warReq'[r].pc = "publish" /\ warReq'[r].meeting = n
        /\ \A q \in WarRequests : q # r => warReq'[q] = warReq[q]
    BY <1>q, <2>1, <2>n DEF WarMoves, RequestStates, WarRequestState
  <2> HIDE DEF new, seen
  <2>6. m # n => ToSummarize(m)
    BY <2>2, <2>3, <2>4, PlainWrite
  <2>7. HeldByRequest(n)'
    BY <2>5 DEF HeldByRequest
  <2>8. HeldByRequest(m) => HeldByRequest(m)'
    BY <2>1, <2>5 DEF HeldByRequest
  <2>9. UNCHANGED <<HeldByEvent(m), HeldByConsumer(m)>>
    BY <2>1 DEF HeldByEvent, HeldByConsumer
  <2>10. CASE m = n
    BY <2>7, <2>10 DEF HeldMeeting, HeldByRequest
  <2>11. CASE m # n
    BY <1>0, <2>6, <2>8, <2>9, <2>11, Zenon DEF HeldMeeting
  <2> QED
    BY <2>10, <2>11
<1>8. ASSUME TakeCreated \/ TakeEnded
      PROVE  HeldMeeting(m)'
  <2>1. /\ warEvents # <<>> /\ warEvents' = Tail(warEvents) /\ UNCHANGED <<meetings, warReq>>
        /\ warConsumer.pc = "idle"
    BY <1>8 DEF TakeCreated, TakeEnded
  <2>2. HeldMeeting(m)
    BY <1>0, <2>1 DEF ToSummarize
  <2>3. HeldByRequest(m) => HeldByRequest(m)'
    BY <2>1 DEF HeldByRequest
  <2>4. \A k \in 1 .. Len(warEvents) : k # 1 => k - 1 \in 1 .. Len(warEvents') /\ warEvents'[k - 1] = warEvents[k]
    BY <2>1 DEF EventInv
  <2>5. warEvents[1] = EndEvent(m) => HeldByConsumer(m)'
    <3> SUFFICES ASSUME warEvents[1] = EndEvent(m) PROVE HeldByConsumer(m)'
      OBVIOUS
    <3>1. Head(warEvents).kind = "ended" /\ Head(warEvents).meeting = m
      BY DEF EndEvent
    <3>2. TakeEnded
      BY <1>8, <3>1 DEF TakeCreated
    <3> QED
      BY <3>1, <3>2 DEF TakeEnded, HeldByConsumer
  <2>6. HeldByEvent(m) => HeldByEvent(m)' \/ HeldByConsumer(m)'
    BY <2>4, <2>5 DEF HeldByEvent, EndEvent
  <2> QED
    BY <2>1, <2>2, <2>3, <2>6 DEF HeldMeeting, HeldByConsumer
<1>9. ASSUME AttachReads \/ UNCHANGED warRoomVars
      PROVE  HeldMeeting(m)'
  <2>1. /\ UNCHANGED <<meetings, warReq, warEvents>>
        /\ warConsumer.pc # "idle" => warConsumer'.pc # "idle" /\ warConsumer'.meeting = warConsumer.meeting
    BY <1>9 DEF AttachReads, warRoomVars, ConsumerInv, ConsumerStates
  <2> QED
    BY <1>0, <2>1 DEF ToSummarize, HeldMeeting, HeldByRequest, HeldByEvent, HeldByConsumer, EndEvent
<1>10. ASSUME AttachWrites
       PROVE  HeldMeeting(m)'
  <2> DEFINE n == warConsumer.meeting
             seen == warConsumer.seen
             new == [seen EXCEPT !.status = "summarized", !.summary = TRUE,
                                 !.attendance = seen.attendance \/ warConsumer.people]
  <2>1. seen \in MeetingRow /\ warConsumer.people \in BOOLEAN /\ n \in DOMAIN meetings
    BY <1>10 DEF AttachWrites, ConsumerInv, ConsumerStates, LatestMeeting, TableInv
  <2>6. new \in MeetingRow
    BY <2>1, EditedRows
  <2>2. new \in MeetingRow /\ new.status = "summarized"
    BY <2>1, <2>6 DEF MeetingRow
  <2>3. WritesMeeting(n, seen, new) /\ UNCHANGED <<warReq, warEvents>>
    BY <1>10 DEF AttachWrites
  <2> HIDE DEF new, seen
  <2>4. m # n /\ ToSummarize(m)
    BY <2>1, <2>2, <2>3, PlainWrite
  <2>5. UNCHANGED <<warReq, warEvents>>
    BY <2>3
  <2> QED
    BY <1>0, <2>4, <2>5 DEF HeldMeeting, HeldByRequest, HeldByEvent, HeldByConsumer, EndEvent
<1>11. ASSUME ConsumerRaises \/ ConsumerRestarts \/ \E r \in WarRequests : WarRequestDies(r)
       PROVE  FALSE
  BY <1>11, <1>f DEF ConsumerRaises, ConsumerRestarts, WarRequestDies
<1> QED
  BY <1>2, <1>3, <1>5, <1>6, <1>7, <1>8, <1>9, <1>10, <1>11 DEF WarRoomNext, AnswerWarRequest, ConsumeWarEvent

(***************************************************************************)
(* A meeting that was ended, and is not summarized yet, is in the hands of *)
(* a request, an event or the consumer, unless something failed or a write *)
(* trampled on another (EndWarRoom, AttachSummary, consumer.py 175): the   *)
(* safety half of EndedIsSummarized, for any number of meetings.           *)
(***************************************************************************)
THEOREM EndsAreInHand == WarRoomSpec => []NoEndIsForgotten
<1>1. WarRoomInit => NoEndIsForgotten
  BY DEF WarRoomInit, NoEndIsForgotten, ToSummarize
<1>2. WarRoomInv /\ NoEndIsForgotten /\ [WarRoomNext]_warRoomVars => NoEndIsForgotten'
  BY HeldStep
<1> QED
  BY <1>1, <1>2, InvHolds, PTL DEF WarRoomSpec
============================================================================
