------------------------------ MODULE WarRoom ------------------------------
(***************************************************************************)
(* The war rooms of one incident: WarRoomService in the backend and the    *)
(* WarRoomConsumer of the agent-service.                                   *)
(*                                                                         *)
(* Every operation reads the row of a meeting, calls Teams (or an LLM)     *)
(* and writes the whole row back, without a lock or a condition.  A        *)
(* request keeps the row it has seen; the row may have changed when it     *)
(* writes.  The stream between backend and consumer is AlertWorker's: here *)
(* it is the sequence of events the consumer has still to take.            *)
(***************************************************************************)
EXTENDS Naturals, Sequences

CONSTANTS
    WarRequests,    \* concurrent HTTP requests to the backend
    MaxMeetings,    \* bound: meetings opened for the incident
    MaxEnds         \* bound: calls of POST /warroom/:id/end

ASSUME WarRoomAssumption == MaxMeetings \in Nat /\ MaxEnds \in Nat

VARIABLES
    meetings,       \* the rows of war_room_meetings, oldest first
    warReq,         \* the requests: what each does next and the row it has read
    warEvents,      \* events published and not yet taken, oldest first
    warConsumer,    \* the consumer: the event in hand and the row it has read
    ends,           \* calls of end so far
    warFault,       \* history: a call failed or a process died
    trampled        \* history: a row was overwritten that had changed since it was read

warRoomVars == <<meetings, warReq, warEvents, warConsumer, ends, warFault, trampled>>

MeetingStatuses == {"scheduled", "active", "ended", "summarized"}
MeetingIds == 1 .. MaxMeetings
MeetingRow == [status : MeetingStatuses, ended : BOOLEAN, transcript : BOOLEAN,
        attendance : BOOLEAN, summary : BOOLEAN]
NewMeeting == [status |-> "scheduled", ended |-> FALSE, transcript |-> FALSE,
               attendance |-> FALSE, summary |-> FALSE]
WarEvent == [kind : {"created", "ended"}, meeting : MeetingIds]

IdleWarRequest == [pc |-> "idle", meeting |-> 1, seen |-> NewMeeting]
IdleConsumer == [pc |-> "idle", meeting |-> 1, seen |-> NewMeeting, people |-> FALSE]

WarRoomInit ==
    /\ meetings = <<>>
    /\ warReq = [r \in WarRequests |-> IdleWarRequest]
    /\ warEvents = <<>>
    /\ warConsumer = IdleConsumer
    /\ ends = 0
    /\ warFault = FALSE
    /\ trampled = FALSE

(***************************************************************************)
(* PgWarRoomRepository                                                     *)
(***************************************************************************)
LatestMeeting == Len(meetings)

\* GetByID and GetLatestByIncident: the request keeps what it has read.
ReadsMeeting(r, m, pc) == warReq' = [warReq EXCEPT ![r] = [pc |-> pc, meeting |-> m, seen |-> meetings[m]]]

\* Update: the whole row by id, whatever it has become since it was read.
WritesMeeting(m, seen, row) ==
    /\ meetings' = [meetings EXCEPT ![m] = row]
    /\ trampled' = (trampled \/ seen # meetings[m])

WarReturns(r) == warReq' = [warReq EXCEPT ![r] = IdleWarRequest]
WarMoves(r, pc) == warReq' = [warReq EXCEPT ![r].pc = pc]

(***************************************************************************)
(* POST /incidents/:id/warroom                                             *)
(***************************************************************************)
\* Teams has made the meeting; a failure before that leaves no trace.
CreateCallsTeams(r) ==
    /\ warReq[r].pc = "idle"
    /\ LatestMeeting < MaxMeetings
    /\ WarMoves(r, "insert")
    /\ UNCHANGED <<meetings, warEvents, warConsumer, ends, warFault, trampled>>

CreateInserts(r) ==
    /\ warReq[r].pc = "insert"
    /\ UNCHANGED <<warEvents, warConsumer, ends, trampled>>
    /\ \/ /\ LatestMeeting < MaxMeetings
          /\ meetings' = Append(meetings, NewMeeting)
          /\ warReq' = [warReq EXCEPT ![r] = [pc |-> "announce", meeting |-> LatestMeeting + 1,
                                              seen |-> NewMeeting]]
          /\ UNCHANGED warFault
       \/ /\ WarReturns(r)             \* 502: the meeting exists at Teams only
          /\ warFault' = TRUE
          /\ UNCHANGED meetings

\* A failure to publish is logged; the request succeeds all the same.
PublishesWarEvent(r, kind) ==
    /\ WarReturns(r)
    /\ UNCHANGED <<meetings, warConsumer, ends, trampled>>
    /\ \/ /\ warEvents' = Append(warEvents, [kind |-> kind, meeting |-> warReq[r].meeting])
          /\ UNCHANGED warFault
       \/ /\ warFault' = TRUE
          /\ UNCHANGED warEvents

CreateAnnounces(r) == warReq[r].pc = "announce" /\ PublishesWarEvent(r, "created")

(***************************************************************************)
(* GET /incidents/:id/warroom, polled every ten seconds by each open page  *)
(***************************************************************************)
\* Mutant: without the look at the status.
PollReadsAny(r) ==
    /\ warReq[r].pc = "idle"
    /\ LatestMeeting > 0
    /\ ReadsMeeting(r, LatestMeeting, "poll")
    /\ UNCHANGED <<meetings, warEvents, warConsumer, ends, warFault, trampled>>

\* GetByIncident: only a scheduled meeting is looked up at Teams.
PollReads(r) ==
    /\ warReq[r].pc = "idle"
    /\ LatestMeeting > 0
    /\ meetings[LatestMeeting].status = "scheduled"
    /\ ReadsMeeting(r, LatestMeeting, "poll")
    /\ UNCHANGED <<meetings, warEvents, warConsumer, ends, warFault, trampled>>

\* maybeMarkActive: nobody there, an error, or the row is written as active.
PollMarksActive(r) ==
    LET seen == warReq[r].seen IN
    /\ warReq[r].pc = "poll"
    /\ WarReturns(r)
    /\ \/ WritesMeeting(warReq[r].meeting, seen, [seen EXCEPT !.status = "active"])
       \/ UNCHANGED <<meetings, trampled>>
    /\ UNCHANGED <<warEvents, warConsumer, ends, warFault>>

(***************************************************************************)
(* POST /warroom/:meetingId/end                                            *)
(***************************************************************************)
EndReads(r, m) ==
    /\ warReq[r].pc = "idle"
    /\ ends < MaxEnds
    /\ ends' = ends + 1
    /\ ReadsMeeting(r, m, "end")
    /\ UNCHANGED <<meetings, warEvents, warConsumer, warFault, trampled>>

\* What Teams answers replaces the transcript and the attendance list, also with an empty one;
\* where it answers with an error they stay as they were read.
EndWrites(r) ==
    LET seen == warReq[r].seen IN
    /\ warReq[r].pc = "end"
    /\ UNCHANGED <<warEvents, warConsumer, ends>>
    /\ \/ \E transcript, attendance \in BOOLEAN :
             /\ WritesMeeting(warReq[r].meeting, seen,
                           [seen EXCEPT !.status = "ended", !.ended = TRUE,
                                        !.transcript = transcript, !.attendance = attendance])
             /\ WarMoves(r, "publish")
             /\ UNCHANGED warFault
       \/ /\ WarReturns(r)             \* 500
          /\ warFault' = TRUE
          /\ UNCHANGED <<meetings, trampled>>

EndPublishes(r) == warReq[r].pc = "publish" /\ PublishesWarEvent(r, "ended")

\* The client hangs up or the backend dies: the request goes no further.
WarRequestDies(r) ==
    /\ warReq[r].pc # "idle"
    /\ WarReturns(r)
    /\ warFault' = TRUE
    /\ UNCHANGED <<meetings, warEvents, warConsumer, ends, trampled>>

(***************************************************************************)
(* WarRoomConsumer._process_entry                                          *)
(***************************************************************************)
\* warroom.meeting.created: the channels are notified, and whatever comes of it the entry is acked.
TakeCreated ==
    /\ warConsumer.pc = "idle"
    /\ warEvents # <<>>
    /\ Head(warEvents).kind = "created"
    /\ warEvents' = Tail(warEvents)
    /\ UNCHANGED <<meetings, warReq, warConsumer, ends, warFault, trampled>>

\* Mutant: a meeting without a transcript is not worth a summary.
TakeEndedIfTranscript ==
    /\ warConsumer.pc = "idle"
    /\ warEvents # <<>>
    /\ LET m == Head(warEvents).meeting IN
       /\ Head(warEvents).kind = "ended"
       /\ warConsumer' = IF meetings[m].transcript
                         THEN [pc |-> "summarize", meeting |-> m, seen |-> meetings[m],
                                people |-> meetings[m].attendance]
                         ELSE IdleConsumer
    /\ warEvents' = Tail(warEvents)
    /\ UNCHANGED <<meetings, warReq, ends, warFault, trampled>>

\* warroom.meeting.ended: GET the meeting, and summarize its transcript if it has one.
TakeEnded ==
    /\ warConsumer.pc = "idle"
    /\ warEvents # <<>>
    /\ LET m == Head(warEvents).meeting IN
       /\ Head(warEvents).kind = "ended"
       /\ warConsumer' = [pc |-> "summarize", meeting |-> m, seen |-> meetings[m],
                                people |-> meetings[m].attendance]
    /\ warEvents' = Tail(warEvents)
    /\ UNCHANGED <<meetings, warReq, ends, warFault, trampled>>

\* AttachSummary reads the row again.  The participants sent along are the
\* attendance list the consumer was given; an empty one leaves the row's.
AttachReads ==
    /\ warConsumer.pc = "summarize"
    /\ warConsumer' = [warConsumer EXCEPT !.pc = "attach",
                           !.seen = meetings[warConsumer.meeting]]
    /\ UNCHANGED <<meetings, warReq, warEvents, ends, warFault, trampled>>

AttachWrites ==
    LET seen == warConsumer.seen IN
    /\ warConsumer.pc = "attach"
    /\ WritesMeeting(warConsumer.meeting, seen,
                  [seen EXCEPT !.status = "summarized", !.summary = TRUE,
                                  !.attendance = seen.attendance \/ warConsumer.people])
    /\ warConsumer' = IdleConsumer
    /\ UNCHANGED <<warReq, warEvents, ends, warFault>>

\* An exception is logged and the entry acked: this meeting is not summarized.
ConsumerRaises ==
    /\ warConsumer.pc # "idle"
    /\ warConsumer' = IdleConsumer
    /\ warFault' = TRUE
    /\ UNCHANGED <<meetings, warReq, warEvents, ends, trampled>>

\* The process dies with the entry pending, and claims it when it starts again.
ConsumerRestarts ==
    /\ warConsumer.pc # "idle"
    /\ warEvents' = <<[kind |-> "ended", meeting |-> warConsumer.meeting]>> \o warEvents
    /\ warConsumer' = IdleConsumer
    /\ warFault' = TRUE
    /\ UNCHANGED <<meetings, warReq, ends, trampled>>

----------------------------------------------------------------------------
AnswerWarRequest(r) ==
    \/ CreateInserts(r)
    \/ CreateAnnounces(r)
    \/ PollMarksActive(r)
    \/ EndWrites(r)
    \/ EndPublishes(r)

ConsumeWarEvent == TakeCreated \/ TakeEnded \/ AttachReads \/ AttachWrites \/ ConsumerRaises

WarRoomNext ==
    \/ \E r \in WarRequests :
         \/ CreateCallsTeams(r)
         \/ PollReads(r)
         \/ \E m \in 1 .. LatestMeeting : EndReads(r, m)
         \/ AnswerWarRequest(r)
         \/ WarRequestDies(r)
    \/ ConsumeWarEvent
    \/ ConsumerRestarts

\* A request that began goes on, and the consumer's loop never stops.
WarRoomFairness ==
    /\ \A r \in WarRequests : WF_warRoomVars(AnswerWarRequest(r))
    /\ WF_warRoomVars(ConsumeWarEvent)

WarRoomSpec == WarRoomInit /\ [][WarRoomNext]_warRoomVars /\ WarRoomFairness

----------------------------------------------------------------------------
WarRequestState(pcs) == [pc : pcs, meeting : Nat \ {0}, seen : MeetingRow]

WarRoomTypeOK ==
    /\ meetings \in Seq(MeetingRow)
    /\ warReq \in [WarRequests -> WarRequestState({"idle", "insert", "announce", "poll", "end", "publish"})]
    /\ warEvents \in Seq([kind : {"created", "ended"}, meeting : Nat \ {0}])
    /\ warConsumer \in [pc : {"idle", "summarize", "attach"}, meeting : Nat \ {0},
                        seen : MeetingRow, people : BOOLEAN]
    /\ ends \in 0 .. MaxEnds
    /\ warFault \in BOOLEAN
    /\ trampled \in BOOLEAN

StaleWriter(m) ==
    \/ \E r \in WarRequests :
         /\ warReq[r].meeting = m
         /\ warReq[r].seen # meetings[m]
         /\ warReq'[r] # warReq[r]
    \/ /\ warConsumer.meeting = m
       /\ warConsumer.seen # meetings[m]
       /\ warConsumer' # warConsumer

\* A POST /end writes the row with what Teams has just answered.
EndsMeeting(m) ==
    \E r \in WarRequests :
        warReq[r].pc = "end" /\ warReq[r].meeting = m /\ warReq'[r].pc = "publish"

MeetingUndone(old, new) ==
    \/ old.ended /\ ~new.ended
    \/ old.status \in {"ended", "summarized"} /\ new.status \in {"scheduled", "active"}
    \/ old.summary /\ ~new.summary

RecordingLost(old, new) ==
    \/ old.transcript /\ ~new.transcript
    \/ old.attendance /\ ~new.attendance

(***************************************************************************)
(* What a meeting has come to is undone only by a write of a row that had  *)
(* changed since it was read: a poll does not take an ended or summarized  *)
(* meeting back to active, and nobody loses a summary (maybeMarkActive,    *)
(* EndWarRoom, AttachSummary).  A transcript or an attendance list is lost *)
(* by such a write or by a POST /end, to which Teams may answer with less  *)
(* than before (warroom_service.go 304, 309), but never by a poll or by    *)
(* the consumer's summary.                                                 *)
(***************************************************************************)
OnlyStaleWritesUndo ==
    [][\A m \in DOMAIN meetings :
          /\ MeetingUndone(meetings[m], meetings'[m]) => StaleWriter(m)
          /\ RecordingLost(meetings[m], meetings'[m]) => StaleWriter(m) \/ EndsMeeting(m)]_warRoomVars

(***************************************************************************)
(* A meeting that was ended is summarized, if nothing fails and no write   *)
(* tramples on another: the consumer drops no event (consumer.py 175).     *)
(***************************************************************************)
EndedIsSummarized ==
    \A m \in MeetingIds :
        (m <= LatestMeeting /\ meetings[m].ended) ~>
            \/ m <= LatestMeeting /\ meetings[m].status = "summarized"
            \/ warFault
            \/ trampled
============================================================================
