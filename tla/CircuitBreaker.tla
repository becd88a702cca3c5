--------------------------- MODULE CircuitBreaker ---------------------------
(***************************************************************************)
(* The circuit breaker of one A2A endpoint and the coroutines that share   *)
(* it: the orchestrator's dispatches for concurrent incidents, each with   *)
(* its own retries and back-off.  The breaker is looked at once per call,  *)
(* not once per attempt, and its state is changed by whichever call ends.  *)
(*                                                                         *)
(* Source: agent-service/app/services/resilience.py, as a2a/client.py      *)
(* uses it.                                                                *)
(***************************************************************************)
EXTENDS Naturals

CONSTANTS
    Callers,     \* coroutines calling the endpoint
    Threshold,   \* failure_threshold
    Attempts,    \* attempts of retry_async
    MaxFailures  \* bound: _consecutive_failures is counted up to here

ASSUME BreakerAssumption ==
    /\ Threshold \in Nat \ {0}
    /\ Attempts \in Nat \ {0}
    /\ MaxFailures \in Nat /\ MaxFailures >= Threshold

VARIABLES
    endpoint,  \* how the endpoint answers: "up", "refusing" (4xx), "down" (5xx, timeout)
    state,     \* _state
    failures,  \* _consecutive_failures
    cooling,   \* less than cooldown_seconds have passed since _opened_at
    call,      \* where each caller stands in ResilientCaller.call
    attempt,   \* the attempts it has started
    late       \* history: attempts it has started since the breaker opened

breakerVars == <<state, failures, cooling>>
callVars    == <<call, attempt, late>>
vars == <<endpoint, breakerVars, callVars>>

TypeOK ==
    /\ endpoint \in {"up", "refusing", "down"}
    /\ state \in {"closed", "open", "half_open"}
    /\ failures \in 0..MaxFailures
    /\ cooling \in {"yes", "no"}
    /\ call \in [Callers -> {"idle", "attempting", "sleeping"}]
    /\ attempt \in [Callers -> 0..Attempts]
    /\ late \in [Callers -> Nat]

Init ==
    /\ endpoint \in {"up", "refusing", "down"}
    /\ state = "closed"
    /\ failures = 0
    /\ cooling = "no"
    /\ call = [c \in Callers |-> "idle"]
    /\ attempt = [c \in Callers |-> 0]
    /\ late = [c \in Callers |-> 0]

----------------------------------------------------------------------------
(* The environment.                                                        *)

EndpointBecomes(e) ==
    /\ endpoint # e
    /\ endpoint' = e
    /\ UNCHANGED <<breakerVars, callVars>>

CooldownElapses ==
    /\ cooling = "yes"
    /\ cooling' = "no"
    /\ UNCHANGED <<endpoint, state, failures, callVars>>

----------------------------------------------------------------------------
(* The breaker's own operations.                                           *)

\* Mutant: nobody looks at the breaker.
CheckNot == UNCHANGED breakerVars

\* check() lets the call through.  When it raises, the call is over before it
\* began and nothing has changed.
Check ==
    \/ state # "open" /\ UNCHANGED breakerVars
    \/ /\ state = "open" /\ cooling = "no"
       /\ state' = "half_open"
       /\ UNCHANGED <<failures, cooling>>

\* Mutant: the count is reset, the state is not.
RecordSuccessHalf ==
    /\ failures' = 0
    /\ UNCHANGED <<state, cooling, late>>

RecordSuccess ==
    /\ failures' = 0
    /\ state' = "closed"
    /\ UNCHANGED <<cooling, late>>

OneMore == IF failures < MaxFailures THEN failures + 1 ELSE failures

\* Mutant: > for >=.
TripsLate == state = "half_open" \/ OneMore > Threshold

Trips == state = "half_open" \/ OneMore >= Threshold

\* Opening again while open only restarts the cooldown.
RecordFailure ==
    /\ failures' = OneMore
    /\ IF Trips
       THEN /\ state' = "open"
            /\ cooling' = "yes"
            /\ late' = IF state = "open" THEN late ELSE [c \in Callers |-> 0]
       ELSE UNCHANGED <<state, cooling, late>>

----------------------------------------------------------------------------
(* ResilientCaller.call and retry_async.                                   *)

\* An attempt begins: func() is awaited.
StartsAttempt(c) ==
    /\ call' = [call EXCEPT ![c] = "attempting"]
    /\ attempt' = [attempt EXCEPT ![c] = @ + 1]
    /\ late' = IF state' = "open" THEN [late EXCEPT ![c] = @ + 1] ELSE late

EndsCall(c) ==
    /\ call' = [call EXCEPT ![c] = "idle"]
    /\ attempt' = [attempt EXCEPT ![c] = 0]

Call(c) ==
    /\ call[c] = "idle"
    /\ Check
    /\ StartsAttempt(c)
    /\ UNCHANGED endpoint

Succeeds(c) ==
    /\ call[c] = "attempting" /\ endpoint = "up"
    /\ EndsCall(c)
    /\ RecordSuccess
    /\ UNCHANGED endpoint

\* A 4xx is neither retried nor recorded.
IsRefused(c) ==
    /\ call[c] = "attempting" /\ endpoint = "refusing"
    /\ EndsCall(c)
    /\ UNCHANGED <<endpoint, breakerVars, late>>

\* Mutant: one attempt too many.
BacksOffOnceMore(c) ==
    /\ call[c] = "attempting" /\ endpoint = "down"
    /\ attempt[c] <= Attempts
    /\ call' = [call EXCEPT ![c] = "sleeping"]
    /\ UNCHANGED <<endpoint, breakerVars, attempt, late>>

\* A retryable failure that is not the last: back off ...
BacksOff(c) ==
    /\ call[c] = "attempting" /\ endpoint = "down"
    /\ attempt[c] < Attempts
    /\ call' = [call EXCEPT ![c] = "sleeping"]
    /\ UNCHANGED <<endpoint, breakerVars, attempt, late>>

\* ... and try again, whatever has become of the breaker meanwhile.
Retries(c) ==
    /\ call[c] = "sleeping"
    /\ UNCHANGED breakerVars
    /\ StartsAttempt(c)
    /\ UNCHANGED endpoint

Fails(c) ==
    /\ call[c] = "attempting" /\ endpoint = "down"
    /\ attempt[c] = Attempts
    /\ EndsCall(c)
    /\ RecordFailure
    /\ UNCHANGED endpoint

----------------------------------------------------------------------------
InFlight(c) == Succeeds(c) \/ IsRefused(c) \/ BacksOff(c) \/ Retries(c) \/ Fails(c)

Next ==
    \/ \E e \in {"up", "refusing", "down"} : EndpointBecomes(e)
    \/ CooldownElapses
    \/ \E c \in Callers : Call(c) \/ InFlight(c)

Spec == Init /\ [][Next]_vars

\* A call in flight ends - every request has a timeout, every back-off a
\* length - and time passes.  Nobody has to call, the endpoint need not recover.
Fairness == WF_vars(CooldownElapses) /\ \A c \in Callers : WF_vars(InFlight(c))

FairSpec == Spec /\ Fairness

----------------------------------------------------------------------------
(* Properties.                                                             *)

\* The state and the count never drift apart, although calls that began in any
\* earlier state may end in this one: the breaker is closed exactly as long as
\* fewer than failure_threshold failures have come in a row.
ClosedBelowThreshold == state = "closed" <=> failures < Threshold

\* An endpoint whose breaker has opened is left alone but for the retries of
\* the calls that were already under way: none of them starts more than the
\* attempts it had left, however often the open breaker is opened again.
OpenEndpointIsLeftAlone ==
    state = "open" => \A c \in Callers : late[c] < Attempts

\* An endpoint that has recovered for good is found out, as long as somebody
\* keeps calling: neither late failures of old calls nor failing fast can keep
\* the breaker from closing and staying closed.
RecoveryIsFoundOut ==
    WF_vars(\E c \in Callers : Call(c)) /\ <>[](endpoint = "up") => <>[](state = "closed")

=============================================================================
