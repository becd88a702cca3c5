----------------------- MODULE CircuitBreakerProofs -----------------------
(***************************************************************************)
(* Proofs about CircuitBreaker, for any number of callers, any threshold   *)
(* and any number of attempts.                                             *)
(***************************************************************************)
EXTENDS CircuitBreaker, TLAPS

\* A caller counts its attempts while it is in a call, and only sleeps when it
\* has one left.
CallInv ==
    \A c \in Callers :
        /\ call[c] = "idle" => attempt[c] = 0
        /\ call[c] # "idle" => attempt[c] > 0
        /\ call[c] = "sleeping" => attempt[c] < Attempts

\* No call begins while the breaker is open, so a caller under way has started
\* at least its first attempt before.
LateInv ==
    state = "open" =>
        \A c \in Callers :
            /\ call[c] = "idle" => late[c] < Attempts
            /\ call[c] # "idle" => late[c] < attempt[c]

BreakerInv == TypeOK /\ CallInv /\ ClosedBelowThreshold /\ LateInv

\* A new breaker is closed and nobody is calling.
LEMMA BreakerInit == Init => BreakerInv
  BY BreakerAssumption
     DEF Init, BreakerInv, TypeOK, CallInv, ClosedBelowThreshold, LateInv

----------------------------------------------------------------------------
\* An attempt that starts under a closed or half-open breaker, or as a retry,
\* keeps the counts in step.
LEMMA AttemptStarts ==
    ASSUME TypeOK, CallInv, LateInv,
           NEW c \in Callers, StartsAttempt(c), UNCHANGED endpoint,
           call[c] = "idle" => state' # "open",
           call[c] \in {"idle", "sleeping"},
           state' = "open" => state = "open",
           state' \in {"closed", "open", "half_open"},
           UNCHANGED <<failures, cooling>>
    PROVE  TypeOK' /\ CallInv' /\ LateInv'
<1> USE BreakerAssumption DEF StartsAttempt, CallInv
<1>1. attempt[c] \in Nat /\ attempt[c] < Attempts
    BY DEF TypeOK
<1>2. TypeOK'
    BY <1>1 DEF TypeOK
<1>3. CallInv'
    BY <1>1 DEF TypeOK
<1>4. LateInv'
    BY <1>1 DEF TypeOK, LateInv
<1> QED
    BY <1>2, <1>3, <1>4

\* A call that ends without opening the breaker.
LEMMA CallEnds ==
    ASSUME TypeOK, CallInv, LateInv,
           NEW c \in Callers, EndsCall(c), UNCHANGED <<endpoint, late>>,
           state' = "open" => state = "open"
    PROVE  CallInv' /\ LateInv'
  BY BreakerAssumption DEF EndsCall, TypeOK, CallInv, LateInv

\* record_failure, on all its paths.
LEMMA FailureRecorded ==
    ASSUME BreakerInv, NEW c \in Callers, Fails(c)
    PROVE  BreakerInv'
<1> USE BreakerAssumption DEF BreakerInv
<1>1. /\ EndsCall(c) /\ RecordFailure /\ UNCHANGED endpoint
      /\ call[c] = "attempting"
    BY DEF Fails
<1>2. OneMore \in 0..MaxFailures /\ (OneMore >= Threshold \/ OneMore = failures + 1)
    BY DEF TypeOK, OneMore
<1>3. CASE Trips
  <2>1. /\ failures' = OneMore /\ state' = "open" /\ cooling' = "yes"
        /\ late' = IF state = "open" THEN late ELSE [d \in Callers |-> 0]
      BY <1>1, <1>3 DEF RecordFailure
  <2>2. OneMore >= Threshold
    <3>1. CASE state = "half_open"
        BY <1>2, <3>1 DEF ClosedBelowThreshold, OneMore, TypeOK
    <3> QED
        BY <1>3, <3>1 DEF Trips
  <2>3. TypeOK'
      BY <1>1, <1>2, <2>1 DEF TypeOK, EndsCall
  <2>4. CallInv'
      BY <1>1 DEF CallInv, EndsCall, TypeOK
  <2>5. ClosedBelowThreshold'
      BY <1>2, <2>1, <2>2 DEF ClosedBelowThreshold
  <2>6. LateInv'
    <3>1. CASE state = "open"
        BY <1>1, <2>1, <3>1 DEF LateInv, EndsCall, TypeOK
    <3>2. CASE state # "open"
        BY <1>1, <2>1, <3>2 DEF LateInv, CallInv, EndsCall, TypeOK
    <3> QED
        BY <3>1, <3>2
  <2> QED
      BY <2>3, <2>4, <2>5, <2>6
<1>4. CASE ~Trips
  <2>1. failures' = OneMore /\ UNCHANGED <<state, cooling, late>>
      BY <1>1, <1>4 DEF RecordFailure
  <2>2. TypeOK'
      BY <1>1, <1>2, <2>1 DEF TypeOK, EndsCall
  <2>3. ClosedBelowThreshold'
      BY <1>2, <1>4, <2>1 DEF ClosedBelowThreshold, Trips, TypeOK, OneMore
  <2> QED
      BY <1>1, <2>1, <2>2, <2>3, CallEnds
<1> QED
    BY <1>3, <1>4

----------------------------------------------------------------------------
\* Each step of a caller, of the endpoint and of time keeps the invariant.
LEMMA BreakerStep == BreakerInv /\ [Next]_vars => BreakerInv'
<1> SUFFICES ASSUME BreakerInv, [Next]_vars
             PROVE  BreakerInv'
    OBVIOUS
<1> USE BreakerAssumption DEF BreakerInv
<1>1. ASSUME NEW e \in {"up", "refusing", "down"}, EndpointBecomes(e)
      PROVE  BreakerInv'
    BY <1>1 DEF EndpointBecomes, breakerVars, callVars, TypeOK, CallInv, ClosedBelowThreshold, LateInv
<1>2. CASE CooldownElapses
    BY <1>2 DEF CooldownElapses, callVars, TypeOK, CallInv, ClosedBelowThreshold, LateInv
<1>3. ASSUME NEW c \in Callers, Call(c)
      PROVE  BreakerInv'
  <2>1. /\ call[c] = "idle" /\ StartsAttempt(c) /\ UNCHANGED endpoint
        /\ UNCHANGED <<failures, cooling>>
        /\ state' # "open" /\ state' \in {"closed", "half_open"}
        /\ state' = "closed" <=> state = "closed"
      BY <1>3 DEF Call, Check, breakerVars, TypeOK
  <2>2. TypeOK' /\ CallInv' /\ LateInv'
      BY <2>1, AttemptStarts
  <2>3. ClosedBelowThreshold'
      BY <2>1 DEF ClosedBelowThreshold
  <2> QED
      BY <2>2, <2>3
<1>4. ASSUME NEW c \in Callers, Succeeds(c)
      PROVE  BreakerInv'
  <2>1. /\ EndsCall(c) /\ UNCHANGED <<endpoint, cooling, late>>
        /\ state' = "closed" /\ failures' = 0
      BY <1>4 DEF Succeeds, RecordSuccess
  <2>2. TypeOK' /\ ClosedBelowThreshold'
      BY <2>1 DEF EndsCall, TypeOK, ClosedBelowThreshold
  <2> QED
      BY <2>1, <2>2, CallEnds
<1>5. ASSUME NEW c \in Callers, IsRefused(c)
      PROVE  BreakerInv'
  <2>1. EndsCall(c) /\ UNCHANGED <<endpoint, state, failures, cooling, late>>
      BY <1>5 DEF IsRefused, breakerVars
  <2>2. TypeOK' /\ ClosedBelowThreshold'
      BY <2>1 DEF EndsCall, TypeOK, ClosedBelowThreshold
  <2> QED
      BY <2>1, <2>2, CallEnds
<1>6. ASSUME NEW c \in Callers, BacksOff(c)
      PROVE  BreakerInv'
    BY <1>6 DEF BacksOff, breakerVars, TypeOK, CallInv, ClosedBelowThreshold, LateInv
<1>7. ASSUME NEW c \in Callers, Retries(c)
      PROVE  BreakerInv'
  <2>1. /\ call[c] = "sleeping" /\ StartsAttempt(c)
        /\ UNCHANGED <<endpoint, state, failures, cooling>>
      BY <1>7 DEF Retries, breakerVars
  <2>2. TypeOK' /\ CallInv' /\ LateInv'
      BY <2>1, AttemptStarts DEF TypeOK
  <2> QED
      BY <2>1, <2>2 DEF ClosedBelowThreshold
<1>8. ASSUME NEW c \in Callers, Fails(c)
      PROVE  BreakerInv'
    BY <1>8, FailureRecorded
<1>9. CASE UNCHANGED vars
    BY <1>9 DEF vars, breakerVars, callVars, TypeOK, CallInv, ClosedBelowThreshold, LateInv
<1> QED
    BY <1>1, <1>2, <1>3, <1>4, <1>5, <1>6, <1>7, <1>8, <1>9 DEF Next, InFlight

\* Hence every reachable state satisfies it.
LEMMA BreakerInvariant == Spec => []BreakerInv
  BY BreakerInit, BreakerStep, PTL DEF Spec

\* Type correctness: no call makes more attempts than retry_async allows.
THEOREM BreakerTypeCorrect == Spec => []TypeOK
<1>1. BreakerInv => TypeOK
    BY DEF BreakerInv
<1> QED
    BY <1>1, BreakerInvariant, PTL

\* _state and _consecutive_failures of resilience.py never contradict each
\* other, however calls overlap.
THEOREM StateFollowsCount == Spec => []ClosedBelowThreshold
<1>1. BreakerInv => ClosedBelowThreshold
    BY DEF BreakerInv
<1> QED
    BY <1>1, BreakerInvariant, PTL

\* The pressure on an endpoint whose breaker is open is bounded by the retries
\* of the calls it was opened under.
THEOREM OpenBreakerShedsLoad == Spec => []OpenEndpointIsLeftAlone
<1>1. BreakerInv => OpenEndpointIsLeftAlone
  <2> SUFFICES ASSUME BreakerInv, state = "open", NEW c \in Callers
               PROVE  late[c] < Attempts
      BY DEF OpenEndpointIsLeftAlone
  <2>1. late[c] \in Nat /\ attempt[c] \in Nat /\ attempt[c] <= Attempts /\ Attempts \in Nat
      BY BreakerAssumption DEF BreakerInv, TypeOK
  <2>2. late[c] < Attempts \/ late[c] < attempt[c]
      BY DEF BreakerInv, LateInv
  <2> QED
      BY <2>1, <2>2
<1> QED
    BY <1>1, BreakerInvariant, PTL

============================================================================
