---------------------------- MODULE RateLimiter ----------------------------
(***************************************************************************)
(* The rate limiter's token bucket of one client, the requests that draw   *)
(* on it and the cleanup that removes it when nobody has for long.         *)
(*                                                                         *)
(* Nothing guards a bucket: a request reads and writes its fields while    *)
(* another does, and what it has read may be stale when it writes.         *)
(***************************************************************************)
EXTENDS Naturals, Sequences

CONSTANTS
    RateRequests,   \* concurrent requests of the client
    Burst,      \* rpm: tokens of a full bucket
    Refill,         \* tokens in a unit of time
    StaleAfter,     \* the cleanup removes a bucket that has not been used for longer
    MaxTime         \* bound: time

ASSUME RateLimiterAssumption ==
    /\ {Burst, Refill, StaleAfter, MaxTime} \subseteq Nat \ {0}
    /\ Burst <= StaleAfter * Refill

VARIABLES
    now,
    buckets,        \* the buckets made so far
    current,        \* the one in the map, 0 if none
    rateReq,        \* the requests
    cleanup,        \* the bucket the cleanup has found stale, 0 if none
    spent,          \* history: the tokens missing from a bucket that nobody touches with another; 0 once raced
    raced           \* history: two were at a bucket at a time, or time passed inside allow()

rateVars == <<now, buckets, current, rateReq, cleanup, spent, raced>>

Bucket == [tokens : Nat, last : Nat]
IdleRateRequest == [pc |-> "idle", bucket |-> 0, tokens |-> 0, at |-> 0]

RateInit ==
    /\ now = 0
    /\ buckets = <<>>
    /\ current = 0
    /\ rateReq = [q \in RateRequests |-> IdleRateRequest]
    /\ cleanup = 0
    /\ spent = 0
    /\ raced = FALSE

----------------------------------------------------------------------------
AtMost(n, bound) == IF n > bound THEN bound ELSE n
Inside(q) == rateReq[q].pc # "idle"
RequestStep(q, to) == rateReq' = [rateReq EXCEPT ![q] = to]

TimePasses ==
    /\ now < MaxTime
    /\ now' = now + 1
    /\ spent' = spent - AtMost(Refill, spent)
    /\ UNCHANGED <<buckets, current, rateReq, cleanup, raced>>

\* LoadOrStore: one bucket for all who come together, a full one for the first.
LoadBucket(q) ==
    /\ rateReq[q].pc = "idle"
    /\ IF current = 0
       THEN /\ buckets' = Append(buckets, [tokens |-> Burst, last |-> now])
            /\ current' = Len(buckets) + 1
       ELSE UNCHANGED <<buckets, current>>
    /\ RequestStep(q, [IdleRateRequest EXCEPT !.pc = "read", !.bucket = current'])
    /\ raced' = (raced \/ cleanup # 0 \/ \E other \in RateRequests : Inside(other))
    /\ UNCHANGED <<now, cleanup, spent>>

ReadBucket(q) ==
    LET b == buckets[rateReq[q].bucket] IN
    /\ rateReq[q].pc = "read"
    /\ RequestStep(q, [rateReq[q] EXCEPT !.pc = "refill", !.at = now,
                                         !.tokens = b.tokens + (now - b.last) * Refill])
    /\ UNCHANGED <<now, buckets, current, cleanup, spent, raced>>

\* Mutant: tokens add up while nobody comes.
RefillBucketUncapped(q) ==
    /\ rateReq[q].pc = "refill"
    /\ buckets' = [buckets EXCEPT ![rateReq[q].bucket] = [tokens |-> rateReq[q].tokens, last |-> rateReq[q].at]]
    /\ RequestStep(q, [rateReq[q] EXCEPT !.pc = "take", !.tokens = 0])
    /\ UNCHANGED <<now, current, cleanup, spent, raced>>

RefillBucket(q) ==
    /\ rateReq[q].pc = "refill"
    /\ buckets' = [buckets EXCEPT ![rateReq[q].bucket] =
                      [tokens |-> AtMost(rateReq[q].tokens, Burst), last |-> rateReq[q].at]]
    /\ RequestStep(q, [rateReq[q] EXCEPT !.pc = "take", !.tokens = 0])
    /\ UNCHANGED <<now, current, cleanup, spent, raced>>

\* Mutant: a token is taken from an empty bucket.
FindsTokenBlindly(q) ==
    /\ rateReq[q].pc = "take"
    /\ RequestStep(q, [rateReq[q] EXCEPT !.pc = "taken", !.tokens = buckets[rateReq[q].bucket].tokens])
    /\ UNCHANGED <<now, buckets, current, cleanup, spent, raced>>

\* What is read here is written back less one by the next step.
FindsToken(q) ==
    LET b == buckets[rateReq[q].bucket] IN
    /\ rateReq[q].pc = "take"
    /\ b.tokens >= 1
    /\ RequestStep(q, [rateReq[q] EXCEPT !.pc = "taken", !.tokens = b.tokens])
    /\ UNCHANGED <<now, buckets, current, cleanup, spent, raced>>

TakesToken(q) ==
    /\ rateReq[q].pc = "taken"
    /\ buckets' = [buckets EXCEPT ![rateReq[q].bucket].tokens = rateReq[q].tokens - 1]
    /\ RequestStep(q, IdleRateRequest)
    /\ raced' = (raced \/ rateReq[q].at # now)
    /\ spent' = IF raced' THEN 0 ELSE spent + 1
    /\ UNCHANGED <<now, current, cleanup>>

\* 429
IsLimited(q) ==
    /\ rateReq[q].pc = "take"
    /\ buckets[rateReq[q].bucket].tokens = 0
    /\ RequestStep(q, IdleRateRequest)
    /\ UNCHANGED <<now, buckets, current, cleanup, spent, raced>>

\* The cleanup looks at a bucket, and then removes what the map has for its key.
CleanupLooks ==
    /\ cleanup = 0
    /\ current # 0
    /\ now - buckets[current].last > StaleAfter
    /\ cleanup' = current
    /\ raced' = (raced \/ \E q \in RateRequests : Inside(q))
    /\ UNCHANGED <<now, buckets, current, rateReq, spent>>

CleanupDeletes ==
    /\ cleanup # 0
    /\ cleanup' = 0
    /\ current' = 0
    /\ UNCHANGED <<now, buckets, rateReq, spent, raced>>

RateNext ==
    \/ TimePasses
    \/ \E q \in RateRequests :
         \/ LoadBucket(q)
         \/ ReadBucket(q)
         \/ RefillBucket(q)
         \/ FindsToken(q)
         \/ TakesToken(q)
         \/ IsLimited(q)
    \/ CleanupLooks
    \/ CleanupDeletes

RateSpec == RateInit /\ [][RateNext]_rateVars

----------------------------------------------------------------------------
RateTypeOK ==
    /\ now \in 0 .. MaxTime
    /\ buckets \in Seq(Bucket)
    /\ current \in 0 .. Len(buckets)
    /\ rateReq \in [RateRequests -> [pc : {"idle", "read", "refill", "take", "taken"},
                                     bucket : 0 .. Len(buckets), tokens : Nat, at : 0 .. MaxTime]]
    /\ cleanup \in 0 .. Len(buckets)
    /\ spent \in Nat
    /\ raced \in BOOLEAN

(***************************************************************************)
(* No client gets more than its budget: as many requests as a bucket holds *)
(* at once, and after that as many as flow back in the time that passes;   *)
(* also when its bucket is removed meanwhile and it is given a new one.    *)
(* Except when requests are inside allow() at the same time, while the     *)
(* cleanup looks at their bucket, or for long (rate_limiter.go 18-33,      *)
(* 38-51): then more of them may get past.                                 *)
(***************************************************************************)
BudgetHolds == spent <= Burst \/ raced
============================================================================
