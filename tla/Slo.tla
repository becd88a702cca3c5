-------------------------------- MODULE Slo --------------------------------
(***************************************************************************)
(* The status of a service level objective: the time in which incidents of *)
(* a service were open within the last days, taken off an error budget.    *)
(*                                                                         *)
(* Nothing is stored: the status is computed from the incidents' times of  *)
(* creation and resolution, which change while they are worked on.         *)
(***************************************************************************)
EXTENDS Naturals, FiniteSets

CONSTANTS
    Outages,        \* incidents of the service
    Window,         \* measurement window
    Targets,        \* target percentages
    MaxMinute       \* bound: time

ASSUME SloAssumption ==
    /\ {Window, MaxMinute} \subseteq Nat \ {0}
    /\ Targets \subseteq 1 .. 100
    /\ IsFiniteSet(Outages)

VARIABLES
    minute,         \* the present
    target,         \* target_percentage
    created,        \* created_at of each incident, or Never
    resolvedAt,     \* resolved_at, or Never
    ongoing,        \* incidents that are open
    downMinutes,    \* history: minutes in which some incident was open
    twice,          \* history: minutes in which two were
    reopenedOnce    \* history: incidents that have been reopened

sloVars == <<minute, target, created, resolvedAt, ongoing, downMinutes, twice, reopenedOnce>>

Never == MaxMinute + 1

SloInit ==
    /\ minute = 0
    /\ target \in Targets
    /\ created = [i \in Outages |-> Never]
    /\ resolvedAt = [i \in Outages |-> Never]
    /\ ongoing = {}
    /\ downMinutes = {}
    /\ twice = {}
    /\ reopenedOnce = {}

----------------------------------------------------------------------------
MinutePasses ==
    /\ minute < MaxMinute
    /\ minute' = minute + 1
    /\ downMinutes' = IF ongoing # {} THEN downMinutes \union {minute} ELSE downMinutes
    /\ twice' = IF Cardinality(ongoing) > 1 THEN twice \union {minute} ELSE twice
    /\ UNCHANGED <<target, created, resolvedAt, ongoing, reopenedOnce>>

OutageBegins(i) ==
    /\ created[i] = Never
    /\ created' = [created EXCEPT ![i] = minute]
    /\ ongoing' = ongoing \union {i}
    /\ UNCHANGED <<minute, target, resolvedAt, downMinutes, twice, reopenedOnce>>

\* IncidentService.Update: resolved_at is set once, by the first resolution.
OutageIsResolved(i) ==
    /\ i \in ongoing
    /\ ongoing' = ongoing \ {i}
    /\ resolvedAt' = [resolvedAt EXCEPT ![i] = IF @ = Never THEN minute ELSE @]
    /\ UNCHANGED <<minute, target, created, downMinutes, twice, reopenedOnce>>

OutageIsReopened(i) ==
    /\ created[i] # Never /\ i \notin ongoing
    /\ ongoing' = ongoing \union {i}
    /\ reopenedOnce' = reopenedOnce \union {i}
    /\ UNCHANGED <<minute, target, created, resolvedAt, downMinutes, twice>>

UpdateTarget(percentage) ==
    /\ target' = percentage
    /\ UNCHANGED <<minute, created, resolvedAt, ongoing, downMinutes, twice, reopenedOnce>>

SloNext ==
    \/ MinutePasses
    \/ \E i \in Outages : OutageBegins(i) \/ OutageIsResolved(i) \/ OutageIsReopened(i)
    \/ \E percentage \in Targets : UpdateTarget(percentage)

SloSpec == SloInit /\ [][SloNext]_sloVars

----------------------------------------------------------------------------
(***************************************************************************)
(* GET /slos/:id/status                                                    *)
(***************************************************************************)
Earlier(a, b) == IF a < b THEN a ELSE b
Later(a, b) == IF a < b THEN b ELSE a
WindowStart == Later(minute, Window) - Window

\* The minutes of an incident's time from creation to resolution that lie in the window.
Overlap(i) ==
    LET from == Later(created[i], WindowStart)
        to == Earlier(resolvedAt[i], minute)
    IN  {m \in 0 .. MaxMinute : from <= m /\ m < to}

\* GetIncidentDowntimeMinutes: added up, so that a minute counts once for every incident.
Downtime ==
    Cardinality({lost \in Outages \X (0 .. MaxMinute) :
                    created[lost[1]] < minute /\ lost[2] \in Overlap(lost[1])})

\* Mutant: what is left of the window.
BudgetWhole(percentage) == 100 * Window

\* calculateForDefinition, in hundredths of a minute.
Budget(percentage) == Window * (100 - percentage)

SloStatus ==
    LET consumed == 100 * Downtime
        remaining == Later(Budget(target), consumed) - consumed
    IN  IF Budget(target) = 0 THEN IF consumed > 0 THEN "exhausted" ELSE "healthy"
        ELSE IF remaining = 0 THEN "exhausted"
        ELSE IF 100 * remaining < 20 * Budget(target) THEN "at_risk"
        ELSE "healthy"

----------------------------------------------------------------------------
SloTypeOK ==
    /\ minute \in 0 .. MaxMinute
    /\ target \in Targets
    /\ created \in [Outages -> 0 .. Never] /\ resolvedAt \in [Outages -> 0 .. Never]
    /\ ongoing \subseteq Outages /\ reopenedOnce \subseteq Outages
    /\ downMinutes \subseteq 0 .. MaxMinute /\ twice \subseteq downMinutes

\* How much of the window some incident was open.
TrueDowntime == Cardinality({m \in downMinutes : m >= WindowStart})

(***************************************************************************)
(* The objective is met as long as the service was available for as much   *)
(* of the window as the target asks, counting a minute as lost if any      *)
(* incident was open: exhausted says it is not, and healthy that a fifth   *)
(* of what may be lost is left.  Except that minutes in which two were     *)
(* open count twice, and that a reopened incident is no longer counted,    *)
(* though slo_repository.go 109-121 says it is open until it is resolved.  *)
(***************************************************************************)
StatusFollowsAvailability ==
    LET available == Window - TrueDowntime
        budget == Window * (100 - target)
    IN  twice = {} /\ reopenedOnce = {} =>
          /\ SloStatus = "exhausted" <=>
                IF target = 100 THEN available < Window ELSE 100 * available <= target * Window
          /\ SloStatus = "healthy" /\ target < 100 => 5 * (budget - 100 * TrueDowntime) >= budget
============================================================================
