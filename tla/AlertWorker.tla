---------------------------- MODULE AlertWorker ----------------------------
(***************************************************************************)
(* The durable event transport between the Go backend and agent-service:   *)
(* the Redis stream the backend XADDs to, the consumer group the           *)
(* AlertWorker replicas share, and the worker itself (batches, retries     *)
(* with back-off, dead-lettering, XACK, XAUTOCLAIM on startup), with       *)
(* crashes, lost replies, trimming and claims from slow live replicas.     *)
(*                                                                         *)
(* Source: agent-service/app/workers/alert_worker.py and                   *)
(* backend/internal/database/stream_publisher.go.  Redis itself is         *)
(* external: its commands are modelled from how that code uses them.       *)
(***************************************************************************)
EXTENDS Naturals, Sequences, FiniteSets

CONSTANTS
    Workers,     \* agent-service replicas, each one consumer of the group
    NoWorker,    \* "not in the pending entries list"
    MaxEntries,  \* bound: events ever published
    MaxLen,      \* XADD MAXLEN of the stream
    MaxCrashes,  \* bound: process deaths, over all workers
    MaxRetries,  \* event_max_retries
    ReadCount,   \* COUNT of XREADGROUP
    ClaimCount   \* COUNT of XAUTOCLAIM

ASSUME NoWorkerAssumption == NoWorker \notin Workers
ASSUME BoundsAssumption ==
    /\ MaxEntries \in Nat
    /\ MaxLen \in Nat \ {0}
    /\ MaxCrashes \in Nat
    /\ MaxRetries \in Nat
    /\ ReadCount \in Nat \ {0}
    /\ ClaimCount \in Nat \ {0}

Entries == 1..MaxEntries

\* What an entry's event_type and payload mean to this worker: an event it
\* handles, one whose payload always makes _handle_message raise, and one of
\* a type outside HANDLED_EVENT_TYPES.
Kinds == {"handled", "malformed", "foreign"}

\* How attempts at an entry ended.  _handle_message "returned": it did the
\* work, or skipped an event older than stale_event_threshold_seconds, or
\* swallowed the failure of the pipeline - the transport cannot tell these
\* apart.  "exhausted": every retry raised.
Outcomes == {"returned", "exhausted"}

VARIABLES
    \* --- Redis ---
    stream,   \* kind of every entry ever added, in ID order
    first,    \* lowest entry the stream still holds (older ones are trimmed)
    cursor,   \* last entry delivered to the group
    owner,    \* pending entries list: the consumer of each pending entry
    idle,     \* pending entries idle longer than event_autoclaim_idle_ms
    dlq,      \* entries copied to the dead-letter stream
    \* --- each worker ---
    mode,     \* its task: process down, task dead, claiming on startup, polling
    scan,     \* next XAUTOCLAIM start id, 0 when the sweep is over
    batch,    \* entries of the current reply not yet finished, in ID order
    step,     \* where _process_entry stands
    cur,      \* the entry it is processing
    attempt,  \* retries already spent on it
    crashes,  \* process deaths so far
    \* --- history ---
    fate      \* how the attempts at each entry ended

redisVars  == <<stream, first, cursor, owner, idle, dlq>>
workerVars == <<mode, scan, batch, step, cur, attempt, crashes>>
vars == <<redisVars, workerVars, fate>>

Modes == {"down", "dead", "claiming", "polling"}
Steps == {"next", "handle", "ack", "backoff", "bury", "finalack"}

TypeOK ==
    /\ stream \in Seq(Kinds) /\ Len(stream) <= MaxEntries
    /\ first \in 1..(MaxEntries + 1)
    /\ cursor \in 0..Len(stream)
    /\ owner \in [Entries -> Workers \union {NoWorker}]
    /\ idle \subseteq Entries
    /\ dlq \subseteq Entries
    /\ mode \in [Workers -> Modes]
    /\ scan \in [Workers -> 0..MaxEntries + 1]
    /\ batch \in [Workers -> SUBSET Entries]
    /\ step \in [Workers -> Steps]
    /\ cur \in [Workers -> 0..MaxEntries]
    /\ attempt \in [Workers -> 0..MaxRetries]
    /\ crashes \in 0..MaxCrashes
    /\ fate \in [Entries -> SUBSET Outcomes]

Init ==
    /\ stream = <<>>
    /\ first = 1
    /\ cursor = 0
    /\ owner = [e \in Entries |-> NoWorker]
    /\ idle = {}
    /\ dlq = {}
    /\ mode = [w \in Workers |-> "down"]
    /\ scan = [w \in Workers |-> 0]
    /\ batch = [w \in Workers |-> {}]
    /\ step = [w \in Workers |-> "next"]
    /\ cur = [w \in Workers |-> 0]
    /\ attempt = [w \in Workers |-> 0]
    /\ crashes = 0
    /\ fate = [e \in Entries |-> {}]

----------------------------------------------------------------------------
Published == 1..Len(stream)
Pending   == {e \in Entries : owner[e] # NoWorker}
Live(e)   == e >= first

\* Delivered to the group and no longer pending: nobody will look at it again.
Settled(e) == e <= cursor /\ owner[e] = NoWorker

\* Pending at a consumer that no longer has it in hand.
Orphan(e) == owner[e] # NoWorker /\ e \notin batch[owner[e]]

Running(w) == mode[w] \in {"claiming", "polling"}

----------------------------------------------------------------------------
(* The publisher: XADD with approximate trimming ("MAXLEN ~"), which keeps *)
(* at least MaxLen entries and may keep more.                              *)
XAdd(k) ==
    /\ Len(stream) < MaxEntries
    /\ stream' = Append(stream, k)
    /\ first' \in first..(MaxEntries + 1)
    /\ first' > first => first' + MaxLen <= Len(stream) + 2
    /\ UNCHANGED <<cursor, owner, idle, dlq, workerVars, fate>>

(* Time: a pending entry was last delivered more than a minute ago.  This   *)
(* happens to the entries of a busy live worker as well as to a crashed one.*)
BecomeIdle(e) ==
    /\ e \in Pending \ idle
    /\ idle' = idle \union {e}
    /\ UNCHANGED <<stream, first, cursor, owner, dlq, workerVars, fate>>

----------------------------------------------------------------------------
(* Process and task life cycle.                                            *)

\* Mutant: every start rewinds the group to id 0, as if it had been recreated.
StartRewindsGroup(w) ==
    /\ mode[w] = "down"
    /\ mode' = [mode EXCEPT ![w] = "claiming"]
    /\ scan' = [scan EXCEPT ![w] = 1]
    /\ cursor' = 0
    /\ UNCHANGED <<stream, first, owner, idle, dlq, batch, step, cur, attempt, crashes, fate>>

\* start(): the group exists (or is created at id 0), the claim sweep begins.
Start(w) ==
    /\ mode[w] = "down"
    /\ mode' = [mode EXCEPT ![w] = "claiming"]
    /\ scan' = [scan EXCEPT ![w] = 1]
    /\ UNCHANGED <<redisVars, batch, step, cur, attempt, crashes, fate>>

\* _ensure_group re-raises anything but BUSYGROUP: the asyncio task ends while
\* the process, its /health and its other tasks go on.
StartFails(w) ==
    /\ mode[w] = "down"
    /\ mode' = [mode EXCEPT ![w] = "dead"]
    /\ UNCHANGED <<redisVars, scan, batch, step, cur, attempt, crashes, fate>>

\* The process dies or is stopped (stop() cancels the task at any await).
Crash(w) ==
    /\ mode[w] # "down"
    /\ crashes < MaxCrashes
    /\ crashes' = crashes + 1
    /\ mode' = [mode EXCEPT ![w] = "down"]
    /\ scan' = [scan EXCEPT ![w] = 0]
    /\ batch' = [batch EXCEPT ![w] = {}]
    /\ step' = [step EXCEPT ![w] = "next"]
    /\ cur' = [cur EXCEPT ![w] = 0]
    /\ attempt' = [attempt EXCEPT ![w] = 0]
    /\ UNCHANGED <<redisVars, fate>>

----------------------------------------------------------------------------
(* Startup recovery: _claim_stale_messages.                                *)

\* What XAUTOCLAIM from id `from` scans: it stops at the pending entry `upto`
\* that exhausts COUNT, or at the end of the list.  Entries the stream has
\* trimmed are deleted from the list and count; live idle ones are claimed.
ClaimHits(from, upto) ==
    {e \in Pending : from <= e /\ e <= upto /\ (~Live(e) \/ e \in idle)}

ClaimScan(from, upto) ==
    /\ Cardinality(ClaimHits(from, upto)) <= ClaimCount
    /\ \/ upto \in ClaimHits(from, upto) /\ Cardinality(ClaimHits(from, upto)) = ClaimCount
       \/ upto = MaxEntries /\ Cardinality(ClaimHits(from, upto)) < ClaimCount

Claimed(from, upto) == {e \in ClaimHits(from, upto) : Live(e)}

\* The id XAUTOCLAIM returns to continue from; 0 stands for "0-0", no more.
IsNextScan(n, upto) ==
    \/ n = 0 /\ \A e \in Pending : e <= upto
    \/ n \in Pending /\ n > upto /\ \A e \in Pending : e > upto => n <= e

\* Redis executes the command for w.
ExecAutoClaim(w, from, upto) ==
    /\ owner' = [e \in Entries |->
                    IF e \in Claimed(from, upto) THEN w
                    ELSE IF e \in ClaimHits(from, upto) THEN NoWorker
                    ELSE owner[e]]
    /\ idle' = idle \ ClaimHits(from, upto)
    /\ UNCHANGED <<stream, first, cursor, dlq>>

\* The loop stops after this reply when it is empty or the scan has ended.
AutoClaim(w) ==
    /\ mode[w] = "claiming" /\ batch[w] = {} /\ scan[w] # 0
    /\ \E upto \in Entries, n \in 0..MaxEntries :
         /\ ClaimScan(scan[w], upto)
         /\ IsNextScan(n, upto)
         /\ ExecAutoClaim(w, scan[w], upto)
         /\ batch' = [batch EXCEPT ![w] = Claimed(scan[w], upto)]
         /\ scan' = [scan EXCEPT ![w] = IF Claimed(scan[w], upto) = {} THEN 0 ELSE n]
    /\ UNCHANGED <<mode, step, cur, attempt, crashes, fate>>

\* The command raises - executed, its reply lost, or not executed at all.
\* start() logs it, gives the sweep up and polls.
AutoClaimRaises(w) ==
    /\ mode[w] = "claiming" /\ batch[w] = {} /\ scan[w] # 0
    /\ \/ \E upto \in Entries : ClaimScan(scan[w], upto) /\ ExecAutoClaim(w, scan[w], upto)
       \/ UNCHANGED redisVars
    /\ mode' = [mode EXCEPT ![w] = "polling"]
    /\ scan' = [scan EXCEPT ![w] = 0]
    /\ UNCHANGED <<batch, step, cur, attempt, crashes, fate>>

ClaimsDone(w) ==
    /\ mode[w] = "claiming" /\ batch[w] = {} /\ scan[w] = 0
    /\ mode' = [mode EXCEPT ![w] = "polling"]
    /\ UNCHANGED <<redisVars, scan, batch, step, cur, attempt, crashes, fate>>

----------------------------------------------------------------------------
(* The consume loop: _consume_once.                                        *)

\* XREADGROUP ">" delivers to w the next ReadCount entries nobody was given
\* yet, trimmed ones left out.
NewFrom == IF first > cursor + 1 THEN first ELSE cursor + 1

NewUpTo == IF NewFrom + ReadCount - 1 <= Len(stream)
           THEN NewFrom + ReadCount - 1
           ELSE Len(stream)

\* Mutant: the group's cursor runs past the end of the stream.
ExecReadNewOvershoots(w) ==
    /\ NewFrom <= Len(stream)
    /\ cursor' = NewFrom + ReadCount
    /\ owner' = [e \in Entries |-> IF e \in NewFrom..NewUpTo THEN w ELSE owner[e]]
    /\ UNCHANGED <<stream, first, idle, dlq>>

\* Mutant: the group's cursor stays, and the same entries are delivered again.
ExecReadNewRepeats(w) ==
    /\ NewFrom <= Len(stream)
    /\ owner' = [e \in Entries |-> IF e \in NewFrom..NewUpTo THEN w ELSE owner[e]]
    /\ UNCHANGED <<stream, first, cursor, idle, dlq>>

ExecReadNew(w) ==
    /\ NewFrom <= Len(stream)
    /\ cursor' = NewUpTo
    /\ owner' = [e \in Entries |-> IF e \in NewFrom..NewUpTo THEN w ELSE owner[e]]
    /\ UNCHANGED <<stream, first, idle, dlq>>

ReadNew(w) ==
    /\ mode[w] = "polling" /\ batch[w] = {}
    /\ ExecReadNew(w)
    /\ batch' = [batch EXCEPT ![w] = NewFrom..NewUpTo]
    /\ UNCHANGED <<mode, scan, step, cur, attempt, crashes, fate>>

\* The reply is lost: the entries are pending at w, which never sees them,
\* since it only ever reads ">".
ReadReplyLost(w) ==
    /\ mode[w] = "polling" /\ batch[w] = {}
    /\ ExecReadNew(w)
    /\ UNCHANGED <<workerVars, fate>>

----------------------------------------------------------------------------
(* One entry: _process_entry.                                              *)

\* Take the next entry of the batch; one of a foreign type is acked unhandled.
Take(w) ==
    /\ Running(w) /\ step[w] = "next"
    /\ \E e \in batch[w] :
         /\ \A f \in batch[w] : e <= f
         /\ cur' = [cur EXCEPT ![w] = e]
         /\ step' = [step EXCEPT ![w] = IF stream[e] = "foreign" THEN "finalack" ELSE "handle"]
    /\ attempt' = [attempt EXCEPT ![w] = 0]
    /\ UNCHANGED <<redisVars, mode, scan, batch, crashes, fate>>

\* _handle_message returns, see Outcomes.  A payload it cannot parse never does.
HandleReturns(w) ==
    /\ step[w] = "handle"
    /\ stream[cur[w]] = "handled"
    /\ fate' = [fate EXCEPT ![cur[w]] = @ \union {"returned"}]
    /\ step' = [step EXCEPT ![w] = "ack"]
    /\ UNCHANGED <<redisVars, mode, scan, batch, cur, attempt, crashes>>

\* Mutant: the last failure goes straight to the final XACK.
AfterRaiseNoDlq(w) == IF attempt[w] < MaxRetries THEN "backoff" ELSE "finalack"

\* The except clause of the retry loop: back off, or give up after the last try.
AfterRaise(w) == IF attempt[w] < MaxRetries THEN "backoff" ELSE "bury"

HandleRaises(w) ==
    /\ step[w] = "handle"
    /\ step' = [step EXCEPT ![w] = AfterRaise(w)]
    /\ UNCHANGED <<redisVars, mode, scan, batch, cur, attempt, crashes, fate>>

\* Mutant: the attempt count is lost on the way.
BackoffForgetsAttempts(w) ==
    /\ step[w] = "backoff"
    /\ step' = [step EXCEPT ![w] = "handle"]
    /\ attempt' = [attempt EXCEPT ![w] = 0]
    /\ UNCHANGED <<redisVars, mode, scan, batch, cur, crashes, fate>>

Backoff(w) ==
    /\ step[w] = "backoff"
    /\ step' = [step EXCEPT ![w] = "handle"]
    /\ attempt' = [attempt EXCEPT ![w] = @ + 1]
    /\ UNCHANGED <<redisVars, mode, scan, batch, cur, crashes, fate>>

\* XACK removes the entry from the group's list whoever it is pending at.
ExecAck(e) ==
    /\ owner' = [owner EXCEPT ![e] = NoWorker]
    /\ idle' = idle \ {e}
    /\ UNCHANGED <<stream, first, cursor, dlq>>

\* An XACK that raises was executed (its reply lost) or was not.
AckMaybe(e) == ExecAck(e) \/ UNCHANGED redisVars

\* Mutant: finishing one entry ends the whole batch.
NextEntryDropsBatch(w) ==
    /\ step' = [step EXCEPT ![w] = "next"]
    /\ batch' = [batch EXCEPT ![w] = {}]
    /\ cur' = [cur EXCEPT ![w] = 0]
    /\ attempt' = [attempt EXCEPT ![w] = 0]
    /\ UNCHANGED <<mode, scan, crashes>>

NextEntry(w) ==
    /\ step' = [step EXCEPT ![w] = "next"]
    /\ batch' = [batch EXCEPT ![w] = @ \ {cur[w]}]
    /\ cur' = [cur EXCEPT ![w] = 0]
    /\ attempt' = [attempt EXCEPT ![w] = 0]
    /\ UNCHANGED <<mode, scan, crashes>>

Ack(w) ==
    /\ step[w] = "ack"
    /\ ExecAck(cur[w])
    /\ NextEntry(w)
    /\ UNCHANGED fate

\* The XACK sits inside the retry loop's try: when it raises, the message is
\* handled all over again.
AckRaises(w) ==
    /\ step[w] = "ack"
    /\ AckMaybe(cur[w])
    /\ step' = [step EXCEPT ![w] = AfterRaise(w)]
    /\ UNCHANGED <<mode, scan, batch, cur, attempt, crashes, fate>>

\* _send_to_dlq swallows a failing XADD; either way the original is acked next.
Bury(w) ==
    /\ step[w] = "bury"
    /\ dlq' \in {dlq, dlq \union {cur[w]}}
    /\ fate' = [fate EXCEPT ![cur[w]] = @ \union {"exhausted"}]
    /\ step' = [step EXCEPT ![w] = "finalack"]
    /\ UNCHANGED <<stream, first, cursor, owner, idle, mode, scan, batch, cur, attempt, crashes>>

FinalAck(w) ==
    /\ step[w] = "finalack"
    /\ ExecAck(cur[w])
    /\ NextEntry(w)
    /\ UNCHANGED fate

\* This XACK sits outside the try: the exception leaves _process_entry, and with
\* it _consume_once (or the claim sweep), so the rest of the batch is abandoned.
FinalAckRaises(w) ==
    /\ step[w] = "finalack"
    /\ AckMaybe(cur[w])
    /\ mode' = [mode EXCEPT ![w] = "polling"]
    /\ scan' = [scan EXCEPT ![w] = 0]
    /\ batch' = [batch EXCEPT ![w] = {}]
    /\ step' = [step EXCEPT ![w] = "next"]
    /\ cur' = [cur EXCEPT ![w] = 0]
    /\ attempt' = [attempt EXCEPT ![w] = 0]
    /\ UNCHANGED <<crashes, fate>>

----------------------------------------------------------------------------
\* What a running worker does by itself.
Work(w) ==
    \/ AutoClaim(w) \/ AutoClaimRaises(w) \/ ClaimsDone(w)
    \/ ReadNew(w) \/ ReadReplyLost(w)
    \/ Take(w)
    \/ HandleReturns(w)
    \/ HandleRaises(w) \/ Backoff(w)
    \/ Ack(w) \/ AckRaises(w) \/ Bury(w) \/ FinalAck(w) \/ FinalAckRaises(w)

Next ==
    \/ \E k \in Kinds : XAdd(k)
    \/ \E e \in Entries : BecomeIdle(e)
    \/ \E w \in Workers : Start(w) \/ StartFails(w) \/ Crash(w) \/ Work(w)

Spec == Init /\ [][Next]_vars

\* The scheduler runs a started worker (asyncio: every await of the loop has a
\* bounded wait or a timeout), and the container runtime restarts a process
\* that is down (restart: unless-stopped).
Fairness ==
    \A w \in Workers : WF_vars(Start(w) \/ StartFails(w)) /\ WF_vars(Work(w))

FairSpec == Spec /\ Fairness

----------------------------------------------------------------------------
(* Properties.                                                             *)

\* No event is settled for nothing: whatever the crashes, lost replies and
\* reclaims in between, an entry nobody will look at again had its handler
\* run to the end, or was retried to exhaustion, or is of a type this group does not
\* handle, or had been trimmed off the stream.
SettledIsAccountedFor ==
    \A e \in Entries :
        Settled(e) => fate[e] # {} \/ ~Live(e) \/ stream[e] = "foreign"

\* Only a crash, a lost Redis reply or an XACK raising outside the retry loop
\* makes a pending entry slip out of its consumer's hands: finishing, retrying,
\* dead-lettering or skipping one entry of a batch never drops another.
OnlyFaultsOrphan ==
    [][\A e \in Entries :
           ~Orphan(e) /\ Orphan(e)' =>
               \E w \in Workers : \/ Crash(w) \/ FinalAckRaises(w)
                                  \/ ReadReplyLost(w) \/ AutoClaimRaises(w)]_vars

\* A worker that holds an entry from its own XREADGROUP and still owns it never
\* starts on it after some earlier attempt has run to its end: duplicates come
\* from reclaims (and from XACKs that raise), not from reading new messages.
DuplicatesComeFromReclaims ==
    [][\A w \in Workers :
           /\ step[w] = "next" /\ step'[w] = "handle"
           /\ mode[w] = "polling" /\ owner[cur'[w]] = w
           => fate[cur'[w]] = {}]_vars

\* Every published event is settled, unless it is trimmed or becomes an orphan
\* or every worker's task is dead: no malformed payload, raising XACK or failing
\* DLQ write can block the group (crashes are finitely many, by MaxCrashes).
EventuallySettledOrOrphaned ==
    \A e \in Entries :
        e \in Published ~> \/ Settled(e) \/ Orphan(e) \/ ~Live(e)
                           \/ \A w \in Workers : mode[w] = "dead"

\* What contracts/events/redis-events.yaml says of the transport ("durable,
\* at-least-once"), taken at its word: as long as some worker's task is alive,
\* every published event is settled or trimmed.  The code does not promise it:
\* orphans are looked for on startup only, and only after a minute.
DurableAtLeastOnce ==
    \A e \in Entries :
        e \in Published ~> \/ Settled(e) \/ ~Live(e)
                           \/ \A w \in Workers : mode[w] = "dead"

----------------------------------------------------------------------------
(* The abstract specification, and the state functions it is seen through. *)

PhaseOf(e) == IF e > Len(stream) THEN "absent"
              ELSE IF e > cursor \/ owner[e] # NoWorker THEN "open"
              ELSE "closed"

Delivery == INSTANCE EventDelivery WITH
    Reasons <- Outcomes,
    phase   <- [e \in Entries |-> PhaseOf(e)],
    reasons <- fate,
    foreign <- {e \in Published : stream[e] = "foreign"},
    trimmed <- {e \in Entries : ~Live(e)}

\* Every behaviour of the workers and their stream is a behaviour of the
\* abstract delivery: a settled event never becomes unsettled again, whoever
\* crashes, reclaims, re-reads or acks it twice.
ImplementsDelivery == Delivery!DeliverySpec

============================================================================
