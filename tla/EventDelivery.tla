--------------------------- MODULE EventDelivery ---------------------------
(***************************************************************************)
(* What the durable event stream promises the rest of the system, without  *)
(* consumers, batches, retries or Redis: an event is accepted, some        *)
(* attempts at it leave a reason to consider it dealt with, and it is      *)
(* closed - once, for good, and never without a reason.  The contract file *)
(* contracts/events/redis-events.yaml calls this "durable, at-least-once". *)
(* AlertWorker.tla is the detailed specification that implements it.       *)
(***************************************************************************)
EXTENDS Naturals

CONSTANTS
    MaxEntries,  \* bound on the number of events ever accepted
    Reasons      \* what an attempt at an event can leave behind

Entries == 1..MaxEntries

VARIABLES
    phase,    \* where each event stands
    reasons,  \* what the attempts at each event left behind
    foreign,  \* the events this consumer group has no handler for
    trimmed   \* the events the bounded stream has forgotten

deliveryVars == <<phase, reasons, foreign, trimmed>>

Phases == {"absent", "open", "closed"}

DeliveryTypeOK ==
    /\ phase \in [Entries -> Phases]
    /\ reasons \in [Entries -> SUBSET Reasons]
    /\ foreign \subseteq Entries
    /\ trimmed \subseteq Entries

DeliveryInit ==
    /\ phase = [e \in Entries |-> "absent"]
    /\ reasons = [e \in Entries |-> {}]
    /\ foreign = {}
    /\ trimmed = {}

\* A new event is accepted; the bounded stream may forget older ones.
Accept(e) ==
    /\ phase[e] = "absent"
    /\ phase' = [phase EXCEPT ![e] = "open"]
    /\ foreign' \in {foreign, foreign \union {e}}
    /\ trimmed' \in SUBSET Entries
    /\ trimmed \subseteq trimmed'
    /\ UNCHANGED reasons

\* An attempt at an accepted event ends and leaves reason r; attempts may be
\* repeated, and may even end after the event was closed by another consumer.
Attempt(e, r) ==
    /\ phase[e] # "absent"
    /\ reasons' = [reasons EXCEPT ![e] = @ \union {r}]
    /\ UNCHANGED <<phase, foreign, trimmed>>

MayClose(e) == reasons[e] # {} \/ e \in foreign \/ e \in trimmed

\* Open events with a reason are closed.
Close(S) ==
    /\ \A e \in S : phase[e] = "open" /\ MayClose(e)
    /\ phase' = [e \in Entries |-> IF e \in S THEN "closed" ELSE phase[e]]
    /\ UNCHANGED <<reasons, foreign, trimmed>>

DeliveryNext ==
    \/ \E e \in Entries : Accept(e)
    \/ \E e \in Entries, r \in Reasons : Attempt(e, r)
    \/ \E S \in SUBSET Entries : Close(S)

DeliverySpec == DeliveryInit /\ [][DeliveryNext]_deliveryVars

============================================================================
