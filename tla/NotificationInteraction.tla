---------------------- MODULE NotificationInteraction ----------------------
(***************************************************************************)
(* Buttons in chat messages: what a press delivered by Slack or Teams does *)
(* to the incident, and the audit row it leaves.                           *)
(*                                                                         *)
(* The provider delivers a press again when it is not answered in time, so *)
(* deliveries of one press may come late, more than once and at one time.  *)
(* The action is carried out first and the row written after it; the       *)
(* unique key is on the rows and does not keep an action from being        *)
(* carried out again.                                                      *)
(***************************************************************************)
EXTENDS Naturals, Sequences, FiniteSets

CONSTANTS
    Presses,            \* the presses: [by, action, token], numbered; token: it has a token of its own
    Deliveries,         \* concurrent requests
    MaxDeliveries       \* bound: deliveries of a press that get past the checks

ASSUME InteractionAssumption ==
    /\ MaxDeliveries \in Nat /\ IsFiniteSet(Deliveries)
    /\ DOMAIN Presses \subseteq Nat \ {0}
    /\ \A c \in DOMAIN Presses : Presses[c].by \in {"slack", "teams"} /\ Presses[c].token \in BOOLEAN

VARIABLES
    channel,        \* type of the channel that sent the messages, or "none" once it is deleted
    chatIncident,   \* status of the incident, or "none" once it is deleted
    delivery,       \* the requests
    audit,          \* notification_interactions: for each press the statuses of its rows
    done,           \* history: how often each press has had its effect
    dispatched,     \* how many deliveries of each press have got past the checks
    unrecorded      \* history: presses of which a row was refused or lost

interactionVars == <<channel, chatIncident, delivery, audit, done, dispatched, unrecorded>>

Pressed == DOMAIN Presses
IdleDelivery == [pc |-> "idle", press |-> 0, status |-> "none", scoped |-> FALSE]

\* The status that a press of the button gives to the incident; view_rca gives none.
StatusOf(action) == IF action = "acknowledge" THEN "investigating" ELSE "resolved"
KnownActions == {"acknowledge", "resolve", "view_rca"}

InteractionInit ==
    /\ channel \in {"slack", "teams"}
    /\ chatIncident = "open"
    /\ delivery = [d \in Deliveries |-> IdleDelivery]
    /\ audit = [c \in Pressed |-> <<>>]
    /\ done = [c \in Pressed |-> 0]
    /\ dispatched = [c \in Pressed |-> 0]
    /\ unrecorded = {}

----------------------------------------------------------------------------
DeliveryMoves(d, to) == delivery' = [delivery EXCEPT ![d] = to]

\* A delivery that gets past the checks.  The others are answered 400 or 401 and change nothing.
Verified(d, c) ==
    /\ delivery[d].pc = "idle"
    /\ dispatched[c] < MaxDeliveries
    /\ dispatched' = [dispatched EXCEPT ![c] = @ + 1]
    /\ DeliveryMoves(d, [IdleDelivery EXCEPT !.pc = "dispatch", !.press = c])
    /\ UNCHANGED <<channel, chatIncident, audit, done, unrecorded>>

\* The signature fits the secret of the channel and is not older than five minutes.
SlackInteractive(d, c) == Presses[c].by = "slack" /\ channel = "slack" /\ Verified(d, c)

\* The token the request carries is that of the channel.
TeamsInteractive(d, c) == Presses[c].by = "teams" /\ channel = "teams" /\ Verified(d, c)

\* After the action the request looks for the organization of the row, whatever came of the action.
Acted(d, status) == DeliveryMoves(d, [delivery[d] EXCEPT !.pc = "scope", !.status = status])

\* acknowledge and resolve: one IncidentService.Update, which asks for no particular status.
\* The word that the incident has just become terminal is dropped.
ChangesStatus(d) ==
    LET c == delivery[d].press IN
    /\ delivery[d].pc = "dispatch"
    /\ Presses[c].action \in {"acknowledge", "resolve"}
    /\ chatIncident # "none"
    /\ chatIncident' = StatusOf(Presses[c].action)
    /\ done' = [done EXCEPT ![c] = @ + 1]
    /\ Acted(d, "ok")
    /\ UNCHANGED <<channel, audit, dispatched, unrecorded>>

\* view_rca: there being no RCA yet is no failure.
ViewRca(d) ==
    LET c == delivery[d].press IN
    /\ delivery[d].pc = "dispatch"
    /\ Presses[c].action = "view_rca"
    /\ chatIncident # "none"
    /\ done' = [done EXCEPT ![c] = @ + 1]
    /\ Acted(d, "ok")
    /\ UNCHANGED <<channel, chatIncident, audit, dispatched, unrecorded>>

\* Mutant: a failed action is answered at once.
ActionFailsAtOnce(d) ==
    /\ delivery[d].pc = "dispatch"
    /\ DeliveryMoves(d, IdleDelivery)
    /\ UNCHANGED <<channel, chatIncident, audit, done, dispatched, unrecorded>>

\* The incident is gone, the action unknown, or the database failed.
ActionFails(d) ==
    /\ delivery[d].pc = "dispatch"
    /\ Acted(d, "error")
    /\ UNCHANGED <<channel, chatIncident, audit, done, dispatched, unrecorded>>

\* The organization of the channel, or else of the incident; looking them up may fail.
FindsOrganization(d) ==
    /\ delivery[d].pc = "scope"
    /\ \E scoped \in {FALSE, channel # "none" \/ chatIncident # "none"} :
          DeliveryMoves(d, [delivery[d] EXCEPT !.pc = "record", !.scoped = scoped])
    /\ UNCHANGED <<channel, chatIncident, audit, done, dispatched, unrecorded>>

\* The keys of the table: organization, incident and channel are there, the
\* action is a known one, and a press that has a token has no row yet.
RowIsAccepted(d, c) ==
    /\ delivery[d].scoped /\ chatIncident # "none" /\ channel # "none"
    /\ Presses[c].action \in KnownActions
    /\ Presses[c].token => audit[c] = <<>>

\* recordInteraction: best effort.  A refused row is logged and forgotten.
RecordInteraction(d) ==
    LET c == delivery[d].press
        first == ~Presses[c].token \/ audit[c] = <<>>
    IN  /\ delivery[d].pc = "record"
        /\ DeliveryMoves(d, IdleDelivery)
        /\ \/ /\ RowIsAccepted(d, c)
              /\ audit' = [audit EXCEPT ![c] = Append(@, delivery[d].status)]
              /\ UNCHANGED unrecorded
           \/ /\ ~RowIsAccepted(d, c)
              /\ unrecorded' = IF first THEN unrecorded \union {c} ELSE unrecorded
              /\ UNCHANGED audit
        /\ UNCHANGED <<channel, chatIncident, done, dispatched>>

\* The request dies, or the database fails when it inserts the row.
RecordIsLost(d) ==
    /\ delivery[d].pc \in {"scope", "record"}
    /\ DeliveryMoves(d, IdleDelivery)
    /\ unrecorded' = unrecorded \union {delivery[d].press}
    /\ UNCHANGED <<channel, chatIncident, audit, done, dispatched>>

\* What others do: the rows outlive the channel, and go with the incident.
ChannelIsDeleted ==
    /\ channel # "none"
    /\ channel' = "none"
    /\ UNCHANGED <<chatIncident, delivery, audit, done, dispatched, unrecorded>>

IncidentIsDeleted ==
    /\ chatIncident # "none"
    /\ chatIncident' = "none"
    /\ audit' = [c \in Pressed |-> <<>>]
    /\ unrecorded' = Pressed
    /\ UNCHANGED <<channel, delivery, done, dispatched>>

InteractionNext ==
    \/ \E d \in Deliveries :
         \/ \E c \in Pressed : SlackInteractive(d, c) \/ TeamsInteractive(d, c)
         \/ ChangesStatus(d)
         \/ ViewRca(d)
         \/ ActionFails(d)
         \/ FindsOrganization(d)
         \/ RecordInteraction(d)
         \/ RecordIsLost(d)
    \/ ChannelIsDeleted
    \/ IncidentIsDeleted

InteractionSpec == InteractionInit /\ [][InteractionNext]_interactionVars

----------------------------------------------------------------------------
InteractionTypeOK ==
    /\ channel \in {"slack", "teams", "none"}
    /\ chatIncident \in {"open", "investigating", "resolved", "none"}
    /\ delivery \in [Deliveries -> [pc : {"idle", "dispatch", "scope", "record"},
                                    press : Pressed \union {0}, status : {"none", "ok", "error"},
                                    scoped : BOOLEAN]]
    /\ audit \in [Pressed -> Seq({"ok", "error"})]
    /\ done \in [Pressed -> 0 .. MaxDeliveries]
    /\ dispatched \in [Pressed -> 0 .. MaxDeliveries]
    /\ unrecorded \subseteq Pressed

Rows(c, status) == {k \in DOMAIN audit[c] : audit[c][k] = status}
Settled(c) == \A d \in Deliveries : delivery[d].press # c

(***************************************************************************)
(* The audit trail accounts for every press that got past the checks: one  *)
(* row for a press with a token, however often it is delivered, and one    *)
(* for each delivery otherwise; a row that says ok stands for an effect,   *)
(* and a press whose only row is an error had one only if it was delivered *)
(* again, the row of the retry being refused as a duplicate.  The          *)
(* exceptions are rows the database did not take, and unknown actions,     *)
(* which the table does not admit (019_notification_interactions.up.sql    *)
(* 10, notification_interaction_service.go 274-280).                       *)
(***************************************************************************)
AuditFollowsPresses ==
    \A c \in Pressed :
        /\ Presses[c].token => Len(audit[c]) <= 1
        /\ Cardinality(Rows(c, "ok")) <= done[c]
        /\ Settled(c) /\ c \notin unrecorded /\ dispatched[c] > 0 =>
              IF Presses[c].token
              THEN Len(audit[c]) = 1 /\ (audit[c] = <<"error">> /\ done[c] > 0 => dispatched[c] > 1)
              ELSE Len(audit[c]) = dispatched[c] /\ Cardinality(Rows(c, "ok")) = done[c]
============================================================================
