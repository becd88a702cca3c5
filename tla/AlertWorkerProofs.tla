------------------------ MODULE AlertWorkerProofs --------------------------
(***************************************************************************)
(* Proofs about AlertWorker: type correctness, and that no event is ever   *)
(* settled without a reason, for any number of workers, entries, retries   *)
(* and crashes.                                                            *)
(***************************************************************************)
EXTENDS AlertWorker, TLAPS

----------------------------------------------------------------------------
(* Commands that act on Redis keep its part of the type invariant.         *)

RedisTypeOK ==
    /\ stream \in Seq(Kinds) /\ Len(stream) <= MaxEntries
    /\ first \in 1..(MaxEntries + 1)
    /\ cursor \in 0..Len(stream)
    /\ owner \in [Entries -> Workers \union {NoWorker}]
    /\ idle \subseteq Entries
    /\ dlq \subseteq Entries

WorkerTypeOK ==
    /\ mode \in [Workers -> Modes]
    /\ scan \in [Workers -> 0..MaxEntries + 1]
    /\ batch \in [Workers -> SUBSET Entries]
    /\ step \in [Workers -> Steps]
    /\ cur \in [Workers -> 0..MaxEntries]
    /\ attempt \in [Workers -> 0..MaxRetries]
    /\ crashes \in 0..MaxCrashes

\* The type invariant splits into the Redis side, the workers and the history.
LEMMA TypeParts ==
    TypeOK <=> RedisTypeOK /\ WorkerTypeOK /\ fate \in [Entries -> SUBSET Outcomes]
  BY DEF TypeOK, RedisTypeOK, WorkerTypeOK

\* A step that leaves Redis alone keeps its types.
LEMMA UnchangedRedisType ==
    ASSUME RedisTypeOK, UNCHANGED redisVars
    PROVE  RedisTypeOK'
  BY DEF RedisTypeOK, redisVars

\* XACK keeps the types of what Redis holds.
LEMMA ExecAckType ==
    ASSUME RedisTypeOK, NEW e, ExecAck(e)
    PROVE  RedisTypeOK'
  BY DEF RedisTypeOK, ExecAck

\* XAUTOCLAIM keeps the types of what Redis holds.
LEMMA ExecAutoClaimType ==
    ASSUME RedisTypeOK, NEW w \in Workers, NEW n, NEW m, ExecAutoClaim(w, n, m)
    PROVE  RedisTypeOK'
  BY DEF RedisTypeOK, ExecAutoClaim

\* XREADGROUP keeps the types of what Redis holds, and delivers entries only.
LEMMA ExecReadNewType ==
    ASSUME RedisTypeOK, NEW w \in Workers, ExecReadNew(w)
    PROVE  RedisTypeOK' /\ NewFrom..NewUpTo \subseteq Entries
  <1>1. Len(stream) \in Nat /\ MaxEntries \in Nat /\ ReadCount \in Nat \ {0}
    BY BoundsAssumption DEF RedisTypeOK
  <1>2. NewFrom \in Nat /\ NewFrom >= 1 /\ NewUpTo \in NewFrom..Len(stream)
    BY <1>1 DEF RedisTypeOK, ExecReadNew, NewFrom, NewUpTo
  <1> QED
    BY <1>1, <1>2 DEF RedisTypeOK, ExecReadNew, Entries

\* XADD keeps the types of what Redis holds, also when it trims.
LEMMA XAddType ==
    ASSUME RedisTypeOK, NEW k \in Kinds, XAdd(k)
    PROVE  RedisTypeOK'
  BY BoundsAssumption DEF RedisTypeOK, XAdd


----------------------------------------------------------------------------
(* Type correctness.  TypeOK is not inductive as it stands: XACK and DLQ    *)
(* writes act on the current entry, which must be one, and a retry must     *)
(* stay within the budget.                                                  *)

HoldInv ==
    \A w \in Workers :
        /\ step[w] # "next" => cur[w] \in batch[w]
        /\ step[w] = "backoff" => attempt[w] < MaxRetries

\* What changes neither a worker's entry type nor Redis' is left to the
\* lemmas; each action of a worker is one step.
LEMMA TypeStep ==
    ASSUME TypeOK, HoldInv, [Next]_vars
    PROVE  TypeOK'
<1> USE BoundsAssumption DEF Modes, Steps, Outcomes
<1>0. RedisTypeOK /\ WorkerTypeOK /\ fate \in [Entries -> SUBSET Outcomes]
  BY TypeParts
<1> SUFFICES RedisTypeOK' /\ WorkerTypeOK' /\ fate' \in [Entries -> SUBSET Outcomes]
  BY DEF TypeOK, RedisTypeOK, WorkerTypeOK
<1>1. ASSUME NEW k \in Kinds, XAdd(k)
      PROVE  RedisTypeOK' /\ WorkerTypeOK' /\ fate' \in [Entries -> SUBSET Outcomes]
  BY <1>0, <1>1, XAddType DEF XAdd, WorkerTypeOK, workerVars
<1>2. ASSUME NEW e \in Entries, BecomeIdle(e)
      PROVE  RedisTypeOK' /\ WorkerTypeOK' /\ fate' \in [Entries -> SUBSET Outcomes]
  BY <1>0, <1>2 DEF BecomeIdle, RedisTypeOK, WorkerTypeOK, workerVars
<1>3. ASSUME NEW w \in Workers, Start(w) \/ StartFails(w) \/ Crash(w) \/ ClaimsDone(w)
      PROVE  RedisTypeOK' /\ WorkerTypeOK' /\ fate' \in [Entries -> SUBSET Outcomes]
  <2>1. RedisTypeOK'
    BY <1>0, <1>3, UnchangedRedisType DEF Start, StartFails, Crash, ClaimsDone
  <2>2. WorkerTypeOK' /\ fate' = fate
    BY <1>0, <1>3 DEF Start, StartFails, Crash, ClaimsDone, WorkerTypeOK
  <2> QED
    BY <1>0, <2>1, <2>2
<1>4. ASSUME NEW w \in Workers, AutoClaim(w)
      PROVE  RedisTypeOK' /\ WorkerTypeOK' /\ fate' \in [Entries -> SUBSET Outcomes]
  <2>1. PICK upto \in Entries, n \in 0..MaxEntries :
            /\ ExecAutoClaim(w, scan[w], upto)
            /\ batch' = [batch EXCEPT ![w] = Claimed(scan[w], upto)]
            /\ scan' = [scan EXCEPT ![w] = IF Claimed(scan[w], upto) = {} THEN 0 ELSE n]
    BY <1>4 DEF AutoClaim
  <2>2. Claimed(scan[w], upto) \subseteq Entries
    BY DEF Claimed, ClaimHits, Pending
  <2>3. RedisTypeOK'
    BY <1>0, <2>1, ExecAutoClaimType
  <2>4. WorkerTypeOK' /\ fate' = fate
    BY <1>0, <1>4, <2>1, <2>2 DEF AutoClaim, WorkerTypeOK
  <2> QED
    BY <1>0, <2>3, <2>4
<1>5. ASSUME NEW w \in Workers, AutoClaimRaises(w)
      PROVE  RedisTypeOK' /\ WorkerTypeOK' /\ fate' \in [Entries -> SUBSET Outcomes]
  <2>1. RedisTypeOK'
    BY <1>0, <1>5, ExecAutoClaimType, UnchangedRedisType DEF AutoClaimRaises
  <2>2. WorkerTypeOK' /\ fate' = fate
    BY <1>0, <1>5 DEF AutoClaimRaises, WorkerTypeOK
  <2> QED
    BY <1>0, <2>1, <2>2
<1>6. ASSUME NEW w \in Workers, ReadNew(w) \/ ReadReplyLost(w)
      PROVE  RedisTypeOK' /\ WorkerTypeOK' /\ fate' \in [Entries -> SUBSET Outcomes]
  <2>1. RedisTypeOK' /\ NewFrom..NewUpTo \subseteq Entries
    BY <1>0, <1>6, ExecReadNewType DEF ReadNew, ReadReplyLost
  <2>2. WorkerTypeOK' /\ fate' = fate
    BY <1>0, <1>6, <2>1, ZenonT(60) DEF ReadNew, ReadReplyLost, WorkerTypeOK, workerVars
  <2> QED
    BY <1>0, <2>1, <2>2
<1>7. ASSUME NEW w \in Workers,
             Take(w) \/ HandleReturns(w) \/ HandleRaises(w) \/ Backoff(w)
      PROVE  RedisTypeOK' /\ WorkerTypeOK' /\ fate' \in [Entries -> SUBSET Outcomes]
  <2>1. RedisTypeOK'
    BY <1>0, <1>7, UnchangedRedisType DEF Take, HandleReturns, HandleRaises, Backoff
  <2>2. WorkerTypeOK'
    <3>1. CASE Take(w)
      BY <1>0, <3>1 DEF Take, WorkerTypeOK, Entries
    <3>2. CASE HandleReturns(w) \/ HandleRaises(w)
      BY <1>0, <3>2 DEF HandleReturns, HandleRaises, AfterRaise, WorkerTypeOK
    <3>3. CASE Backoff(w)
      <4>1. attempt[w] + 1 \in 0..MaxRetries
        BY <1>0, <3>3 DEF Backoff, WorkerTypeOK, HoldInv
      <4> QED
        BY <1>0, <3>3, <4>1 DEF Backoff, WorkerTypeOK
    <3> QED
      BY <1>7, <3>1, <3>2, <3>3
  <2>3. fate' \in [Entries -> SUBSET Outcomes]
    BY <1>0, <1>7 DEF Take, HandleReturns, HandleRaises, Backoff
  <2> QED
    BY <2>1, <2>2, <2>3
<1>8. ASSUME NEW w \in Workers, Ack(w) \/ AckRaises(w) \/ FinalAck(w) \/ FinalAckRaises(w)
      PROVE  RedisTypeOK' /\ WorkerTypeOK' /\ fate' \in [Entries -> SUBSET Outcomes]
  <2>1. RedisTypeOK'
    BY <1>0, <1>8, ExecAckType, UnchangedRedisType
       DEF Ack, AckRaises, FinalAck, FinalAckRaises, AckMaybe
  <2>2. WorkerTypeOK' /\ fate' = fate
    BY <1>0, <1>8
       DEF Ack, AckRaises, FinalAck, FinalAckRaises, NextEntry, AfterRaise, WorkerTypeOK
  <2> QED
    BY <1>0, <2>1, <2>2
<1>9. ASSUME NEW w \in Workers, Bury(w)
      PROVE  RedisTypeOK' /\ WorkerTypeOK' /\ fate' \in [Entries -> SUBSET Outcomes]
  <2>1. cur[w] \in Entries
    BY <1>0, <1>9 DEF Bury, HoldInv, WorkerTypeOK
  <2>2. RedisTypeOK'
    BY <1>0, <1>9, <2>1 DEF Bury, RedisTypeOK
  <2>3. WorkerTypeOK'
    BY <1>0, <1>9 DEF Bury, WorkerTypeOK
  <2>4. fate' \in [Entries -> SUBSET Outcomes]
    BY <1>0, <1>9 DEF Bury
  <2> QED
    BY <2>2, <2>3, <2>4
<1>10. CASE UNCHANGED vars
  BY <1>0, <1>10 DEF vars, redisVars, workerVars, RedisTypeOK, WorkerTypeOK
<1> QED
  BY <1>1, <1>2, <1>3, <1>4, <1>5, <1>6, <1>7, <1>8, <1>9, <1>10 DEF Next, Work

\* Between the steps of _process_entry a worker keeps hold of its entry.
LEMMA HoldStep ==
    ASSUME TypeOK, HoldInv, [Next]_vars
    PROVE  HoldInv'
<1> USE DEF HoldInv, TypeOK
<1>1. ASSUME NEW w \in Workers, Start(w) \/ StartFails(w) \/ Crash(w) \/ ClaimsDone(w)
      PROVE  HoldInv'
  BY <1>1 DEF Start, StartFails, Crash, ClaimsDone
<1>2. ASSUME NEW w \in Workers,
             AutoClaim(w) \/ AutoClaimRaises(w) \/ ReadNew(w) \/ ReadReplyLost(w)
      PROVE  HoldInv'
  <2>1. step' = step /\ cur' = cur /\ attempt' = attempt /\ batch[w] = {}
    BY <1>2 DEF AutoClaim, AutoClaimRaises, ReadNew, ReadReplyLost, workerVars
  <2>2. \A v \in Workers : v # w => batch'[v] = batch[v]
    BY <1>2 DEF AutoClaim, AutoClaimRaises, ReadNew, ReadReplyLost, workerVars
  <2> QED
    BY <2>1, <2>2
<1>3. ASSUME NEW w \in Workers,
             Take(w) \/ HandleReturns(w) \/ HandleRaises(w) \/ Backoff(w) \/ Bury(w)
      PROVE  HoldInv'
  BY <1>3 DEF Take, HandleReturns, HandleRaises, AfterRaise, Backoff, Bury
<1>4. ASSUME NEW w \in Workers, Ack(w) \/ AckRaises(w) \/ FinalAck(w) \/ FinalAckRaises(w)
      PROVE  HoldInv'
  BY <1>4 DEF Ack, AckRaises, FinalAck, FinalAckRaises, NextEntry, AfterRaise
<1>5. ASSUME \/ \E k \in Kinds : XAdd(k)
             \/ \E e \in Entries : BecomeIdle(e)
             \/ UNCHANGED vars
      PROVE  HoldInv'
  BY <1>5 DEF XAdd, BecomeIdle, vars, workerVars
<1> QED
  BY <1>1, <1>2, <1>3, <1>4, <1>5 DEF Next, Work

\* Every reachable state is well typed, and stays so because of HoldInv.
LEMMA TypeAndHold == Spec => [](TypeOK /\ HoldInv)
<1>1. Init => TypeOK /\ HoldInv
  BY BoundsAssumption DEF Init, TypeOK, HoldInv, Modes, Steps, Kinds
<1>2. TypeOK /\ HoldInv /\ [Next]_vars => (TypeOK /\ HoldInv)'
  BY TypeStep, HoldStep
<1> QED
  BY <1>1, <1>2, PTL DEF Spec

\* Type correctness: in particular the group's cursor never passes the end of
\* the stream and no worker retries beyond event_max_retries.
THEOREM TypeCorrect == Spec => []TypeOK
  BY TypeAndHold, PTL

----------------------------------------------------------------------------
(* Nothing is settled without a reason.  The argument needs to know where   *)
(* each worker stands: an XACK is only ever sent for an entry delivered to  *)
(* the group (so trimming or publishing later does not matter to it) that   *)
(* already has its reason - whoever else holds, reclaims or acks the entry. *)

EvidenceInv ==
    /\ \A w \in Workers : batch[w] \subseteq 1..cursor
    /\ \A e \in Entries : owner[e] # NoWorker => e <= cursor
    /\ \A w \in Workers : step[w] = "ack" => fate[cur[w]] # {}
    /\ \A w \in Workers :
           step[w] = "finalack" => fate[cur[w]] # {} \/ stream[cur[w]] = "foreign"

IInv == TypeOK /\ HoldInv /\ EvidenceInv /\ SettledIsAccountedFor

\* What an XACK for an entry with a reason, executed or not, does to Redis.
LEMMA AckKeepsAccounts ==
    ASSUME IInv, NEW e \in Entries,
           fate[e] # {} \/ stream[e] = "foreign",
           AckMaybe(e), fate' = fate
    PROVE  /\ SettledIsAccountedFor'
           /\ \A f \in Entries : owner'[f] # NoWorker => f <= cursor'
           /\ stream' = stream /\ cursor' = cursor
  BY DEF IInv, TypeOK, EvidenceInv, SettledIsAccountedFor, Settled, Live,
         AckMaybe, ExecAck, redisVars

\* What XREADGROUP does: the entries it passes over without delivering them
\* are the trimmed ones.
LEMMA ReadKeepsAccounts ==
    ASSUME IInv, NEW w \in Workers, ExecReadNew(w), fate' = fate
    PROVE  /\ SettledIsAccountedFor'
           /\ \A f \in Entries : owner'[f] # NoWorker => f <= cursor'
           /\ stream' = stream /\ cursor <= cursor' /\ cursor' \in Nat
           /\ NewFrom..NewUpTo \subseteq 1..cursor'
<1>1. RedisTypeOK
  BY TypeParts DEF IInv
<1>2. /\ Len(stream) \in Nat /\ cursor \in Nat /\ first \in Nat
      /\ NewFrom \in Nat /\ NewFrom >= 1 /\ NewFrom >= cursor + 1
      /\ NewUpTo \in NewFrom..Len(stream)
  BY <1>1, BoundsAssumption DEF RedisTypeOK, ExecReadNew, NewFrom, NewUpTo
<1>3. \A f \in Entries : f > cursor /\ f < NewFrom => f < first
  BY <1>2 DEF NewFrom, Entries
<1>4. \A f \in Entries : owner'[f] = IF f \in NewFrom..NewUpTo THEN w ELSE owner[f]
  BY DEF ExecReadNew
<1>5. cursor' = NewUpTo /\ stream' = stream /\ first' = first
  BY DEF ExecReadNew
<1>6. \A f \in Entries : owner'[f] # NoWorker => f <= cursor'
  <2> SUFFICES ASSUME NEW f \in Entries, owner'[f] # NoWorker
               PROVE  f <= cursor'
    OBVIOUS
  <2>1. CASE f \in NewFrom..NewUpTo
    BY <2>1, <1>2, <1>5
  <2>2. CASE f \notin NewFrom..NewUpTo
    <3>1. f <= cursor
      BY <2>2, <1>4 DEF IInv, EvidenceInv
    <3> QED
      BY <3>1, <1>2, <1>5 DEF Entries
  <2> QED
    BY <2>1, <2>2
<1>7. SettledIsAccountedFor'
  <2> SUFFICES ASSUME NEW f \in Entries, f <= NewUpTo, owner'[f] = NoWorker
               PROVE  fate[f] # {} \/ ~(f >= first) \/ stream[f] = "foreign"
    BY <1>5 DEF SettledIsAccountedFor, Settled, Live
  <2>1. f \notin NewFrom..NewUpTo
    BY <1>4, NoWorkerAssumption
  <2>2. CASE f <= cursor
    BY <2>1, <2>2, <1>4 DEF IInv, SettledIsAccountedFor, Settled, Live
  <2>3. CASE f > cursor
    BY <2>1, <2>3, <1>2, <1>3 DEF Entries
  <2> QED
    BY <2>2, <2>3, <1>2 DEF Entries
<1> QED
  BY <1>2, <1>5, <1>6, <1>7

\* What XAUTOCLAIM does: the entries it deletes from the pending list are the
\* trimmed ones.
LEMMA ClaimKeepsAccounts ==
    ASSUME IInv, NEW w \in Workers, NEW n, NEW upto, ExecAutoClaim(w, n, upto),
           fate' = fate
    PROVE  /\ SettledIsAccountedFor'
           /\ \A f \in Entries : owner'[f] # NoWorker => f <= cursor'
           /\ stream' = stream /\ cursor' = cursor
           /\ Claimed(n, upto) \subseteq 1..cursor
<1>1. Claimed(n, upto) \subseteq 1..cursor
  BY DEF Claimed, ClaimHits, Pending, IInv, EvidenceInv, TypeOK, Entries
<1>2. \A f \in Entries : owner'[f] = NoWorker =>
          owner[f] = NoWorker \/ ~Live(f)
  BY NoWorkerAssumption DEF ExecAutoClaim, Claimed, ClaimHits
<1>3. \A f \in Entries : owner'[f] # NoWorker => owner[f] # NoWorker
  BY DEF ExecAutoClaim, Claimed, ClaimHits, Pending
<1> QED
  BY <1>1, <1>2, <1>3
     DEF ExecAutoClaim, IInv, EvidenceInv, SettledIsAccountedFor, Settled, Live

\* The inductive step for the accounts, action by action.
LEMMA EvidenceStep ==
    ASSUME IInv, [Next]_vars
    PROVE  EvidenceInv' /\ SettledIsAccountedFor'
<1>0. TypeOK /\ HoldInv /\ EvidenceInv /\ SettledIsAccountedFor /\ TypeOK'
  BY TypeStep DEF IInv
<1>1. ASSUME NEW k \in Kinds, XAdd(k)
      PROVE  EvidenceInv' /\ SettledIsAccountedFor'
  <2>1. Len(stream) \in Nat /\ cursor \in 0..Len(stream) /\ first \in Nat
    BY <1>0 DEF TypeOK
  <2>2. \A e \in 1..cursor : stream'[e] = stream[e]
    BY <1>0, <1>1, <2>1 DEF XAdd, TypeOK
  <2>3. first' >= first /\ first' \in Nat
    BY <1>1, <2>1, BoundsAssumption DEF XAdd
  <2>4. SettledIsAccountedFor'
    <3> SUFFICES ASSUME NEW e \in Entries, e <= cursor, owner[e] = NoWorker
                 PROVE  fate[e] # {} \/ ~(e >= first') \/ stream'[e] = "foreign"
      BY <1>1 DEF XAdd, SettledIsAccountedFor, Settled, Live
    <3>1. e \in 1..cursor /\ e \in Nat
      BY <2>1 DEF Entries
    <3>2. fate[e] # {} \/ ~(e >= first) \/ stream[e] = "foreign"
      BY <1>0 DEF SettledIsAccountedFor, Settled, Live
    <3> QED
      BY <3>1, <3>2, <2>1, <2>2, <2>3
  <2>5. EvidenceInv'
    <3>1. \A w \in Workers : step[w] = "finalack" => cur[w] \in 1..cursor
      BY <1>0 DEF HoldInv, EvidenceInv, TypeOK, Steps
    <3> QED
      BY <1>0, <1>1, <2>2, <3>1 DEF XAdd, EvidenceInv, workerVars
  <2> QED
    BY <2>4, <2>5
<1>2. ASSUME NEW e \in Entries, BecomeIdle(e)
      PROVE  EvidenceInv' /\ SettledIsAccountedFor'
  BY <1>0, <1>2
     DEF BecomeIdle, EvidenceInv, SettledIsAccountedFor, Settled, Live, workerVars
<1>3. ASSUME NEW w \in Workers, Start(w) \/ StartFails(w) \/ Crash(w) \/ ClaimsDone(w)
      PROVE  EvidenceInv' /\ SettledIsAccountedFor'
  <2>1. UNCHANGED <<redisVars, fate>>
    BY <1>3 DEF Start, StartFails, Crash, ClaimsDone
  <2>2. SettledIsAccountedFor'
    BY <1>0, <2>1 DEF redisVars, SettledIsAccountedFor, Settled, Live
  <2>3. EvidenceInv'
    BY ZenonT(60), <1>0, <1>3, <2>1
       DEF Start, StartFails, Crash, ClaimsDone, EvidenceInv, redisVars, TypeOK
  <2> QED
    BY <2>2, <2>3
<1>4. ASSUME NEW w \in Workers, AutoClaim(w)
      PROVE  EvidenceInv' /\ SettledIsAccountedFor'
  <2>1. PICK upto \in Entries :
            /\ ExecAutoClaim(w, scan[w], upto)
            /\ batch' = [batch EXCEPT ![w] = Claimed(scan[w], upto)]
    BY <1>4 DEF AutoClaim
  <2>2. UNCHANGED <<step, cur, fate>>
    BY <1>4 DEF AutoClaim
  <2>3. /\ SettledIsAccountedFor'
        /\ \A f \in Entries : owner'[f] # NoWorker => f <= cursor'
        /\ stream' = stream /\ cursor' = cursor
        /\ Claimed(scan[w], upto) \subseteq 1..cursor
    BY <2>1, <2>2, ClaimKeepsAccounts
  <2> QED
    BY <1>0, <2>1, <2>2, <2>3 DEF EvidenceInv, TypeOK
<1>5. ASSUME NEW w \in Workers, AutoClaimRaises(w)
      PROVE  EvidenceInv' /\ SettledIsAccountedFor'
  <2>1. UNCHANGED <<step, cur, batch, fate>>
    BY <1>5 DEF AutoClaimRaises
  <2>2. /\ SettledIsAccountedFor'
        /\ \A f \in Entries : owner'[f] # NoWorker => f <= cursor'
        /\ stream' = stream /\ cursor' = cursor
    <3>1. CASE UNCHANGED redisVars
      BY <1>0, <2>1, <3>1 DEF redisVars, EvidenceInv, SettledIsAccountedFor, Settled, Live
    <3>2. CASE \E upto \in Entries : ExecAutoClaim(w, scan[w], upto)
      BY <2>1, <3>2, ClaimKeepsAccounts
    <3> QED
      BY <1>5, <3>1, <3>2 DEF AutoClaimRaises
  <2> QED
    BY <1>0, <2>1, <2>2 DEF EvidenceInv
<1>6. ASSUME NEW w \in Workers, ReadNew(w) \/ ReadReplyLost(w)
      PROVE  EvidenceInv' /\ SettledIsAccountedFor'
  <2>1. ExecReadNew(w) /\ UNCHANGED <<step, cur, fate>>
    BY <1>6 DEF ReadNew, ReadReplyLost, workerVars
  <2>2. batch' = batch \/ batch' = [batch EXCEPT ![w] = NewFrom..NewUpTo]
    BY <1>6 DEF ReadNew, ReadReplyLost, workerVars
  <2>3. /\ SettledIsAccountedFor'
        /\ \A f \in Entries : owner'[f] # NoWorker => f <= cursor'
        /\ stream' = stream /\ cursor <= cursor' /\ cursor' \in Nat
        /\ NewFrom..NewUpTo \subseteq 1..cursor'
    BY <2>1, ReadKeepsAccounts
  <2>4. \A v \in Workers : batch'[v] \subseteq 1..cursor'
    <3>1. cursor \in Nat
      BY <1>0 DEF TypeOK
    <3>2. \A v \in Workers : batch[v] \subseteq 1..cursor'
      BY <1>0, <2>3, <3>1 DEF EvidenceInv
    <3>3. \A v \in Workers : batch'[v] = batch[v] \/ batch'[v] = NewFrom..NewUpTo
      BY <1>0, <2>2 DEF TypeOK
    <3> QED
      BY <2>3, <3>2, <3>3
  <2> QED
    BY <1>0, <2>1, <2>3, <2>4 DEF EvidenceInv
<1>7. ASSUME NEW w \in Workers,
             Take(w) \/ HandleReturns(w) \/ HandleRaises(w) \/ Backoff(w)
      PROVE  EvidenceInv' /\ SettledIsAccountedFor'
  <2>1. UNCHANGED redisVars /\ batch' = batch
    BY <1>7 DEF Take, HandleReturns, HandleRaises, Backoff
  <2>2. /\ \A v \in Workers : v # w => step'[v] = step[v] /\ cur'[v] = cur[v]
        /\ step'[w] = "ack" => fate'[cur'[w]] # {}
        /\ step'[w] = "finalack" => stream[cur'[w]] = "foreign"
        /\ \A e \in Entries : fate[e] \subseteq fate'[e]
    <3>1. CASE Take(w)
      BY <1>0, <3>1 DEF Take, TypeOK
    <3>2. CASE HandleReturns(w)
      <4>1. cur[w] \in Entries
        BY <1>0, <3>2 DEF HandleReturns, HoldInv, TypeOK
      <4>2. fate'[cur[w]] # {} /\ \A e \in Entries : fate[e] \subseteq fate'[e]
        BY <1>0, <3>2, <4>1 DEF HandleReturns, TypeOK
      <4> QED
        BY <1>0, <3>2, <4>2 DEF HandleReturns, TypeOK
    <3>3. CASE HandleRaises(w) \/ Backoff(w)
      BY <1>0, <3>3 DEF HandleRaises, AfterRaise, Backoff, TypeOK
    <3> QED
      BY <1>7, <3>1, <3>2, <3>3
  <2>3. SettledIsAccountedFor'
    BY <1>0, <2>1, <2>2 DEF redisVars, SettledIsAccountedFor, Settled, Live
  <2>4. \A v \in Workers : step[v] # "next" => cur[v] \in Entries
    BY <1>0 DEF HoldInv, TypeOK
  <2>5. \A v \in Workers : step'[v] = "ack" => fate'[cur'[v]] # {}
    BY <1>0, <2>2, <2>4 DEF EvidenceInv
  <2>6. \A v \in Workers :
            step'[v] = "finalack" => fate'[cur'[v]] # {} \/ stream'[cur'[v]] = "foreign"
    BY <1>0, <2>1, <2>2, <2>4 DEF EvidenceInv, redisVars
  <2> QED
    BY <1>0, <2>1, <2>3, <2>5, <2>6 DEF EvidenceInv, redisVars
<1>8. ASSUME NEW w \in Workers, Ack(w) \/ AckRaises(w) \/ FinalAck(w) \/ FinalAckRaises(w)
      PROVE  EvidenceInv' /\ SettledIsAccountedFor'
  <2>1. cur[w] \in Entries /\ (fate[cur[w]] # {} \/ stream[cur[w]] = "foreign")
    BY <1>0, <1>8
       DEF Ack, AckRaises, FinalAck, FinalAckRaises, HoldInv, EvidenceInv, TypeOK
  <2>2. AckMaybe(cur[w]) /\ fate' = fate
    BY <1>8 DEF Ack, AckRaises, FinalAck, FinalAckRaises, AckMaybe
  <2>3. /\ SettledIsAccountedFor'
        /\ \A f \in Entries : owner'[f] # NoWorker => f <= cursor'
        /\ stream' = stream /\ cursor' = cursor
    BY <2>1, <2>2, AckKeepsAccounts
  <2>4. /\ \A v \in Workers : batch'[v] \subseteq batch[v]
        /\ \A v \in Workers : v # w => step'[v] = step[v] /\ cur'[v] = cur[v]
        /\ step'[w] \notin {"ack", "finalack"}
    <3>1. CASE Ack(w) \/ FinalAck(w)
      <4>1. NextEntry(w)
        BY <3>1 DEF Ack, FinalAck
      <4>2. \A v \in Workers : v # w => batch'[v] = batch[v]
        BY <1>0, <4>1 DEF NextEntry, TypeOK
      <4>3. batch'[w] = batch[w] \ {cur[w]}
        BY <1>0, <4>1 DEF NextEntry, TypeOK
      <4>4. /\ \A v \in Workers : v # w => step'[v] = step[v] /\ cur'[v] = cur[v]
            /\ step'[w] = "next"
        BY <1>0, <4>1 DEF NextEntry, TypeOK
      <4> QED
        BY <4>2, <4>3, <4>4
    <3>2. CASE AckRaises(w)
      <4>1. UNCHANGED <<batch, cur>> /\ step' = [step EXCEPT ![w] = AfterRaise(w)]
        BY <3>2 DEF AckRaises
      <4>2. AfterRaise(w) \notin {"ack", "finalack"}
        BY DEF AfterRaise
      <4> QED
        BY <1>0, <4>1, <4>2 DEF TypeOK
    <3>3. CASE FinalAckRaises(w)
      BY <1>0, <3>3 DEF FinalAckRaises, TypeOK
    <3> QED
      BY <1>8, <3>1, <3>2, <3>3
  <2> QED
    BY <1>0, <2>2, <2>3, <2>4 DEF EvidenceInv
<1>9. ASSUME NEW w \in Workers, Bury(w)
      PROVE  EvidenceInv' /\ SettledIsAccountedFor'
  <2>1. cur[w] \in Entries /\ fate'[cur[w]] # {}
    BY <1>0, <1>9 DEF Bury, HoldInv, TypeOK
  <2>2. \A e \in Entries : fate[e] \subseteq fate'[e]
    BY <1>0, <1>9 DEF Bury, TypeOK
  <2>3. \A v \in Workers : step[v] # "next" => cur[v] \in Entries
    BY <1>0 DEF HoldInv, TypeOK
  <2>4. UNCHANGED <<stream, first, cursor, owner, batch, cur>>
    BY <1>9 DEF Bury
  <2>5. SettledIsAccountedFor'
    BY <1>0, <2>2, <2>4 DEF SettledIsAccountedFor, Settled, Live
  <2>6. step'[w] = "finalack" /\ \A v \in Workers : v # w => step'[v] = step[v]
    BY <1>0, <1>9 DEF Bury, TypeOK
  <2>7. /\ \A v \in Workers : step'[v] = "ack" => fate'[cur[v]] # {}
        /\ \A v \in Workers :
               step'[v] = "finalack" => fate'[cur[v]] # {} \/ stream[cur[v]] = "foreign"
    BY <1>0, <2>1, <2>2, <2>3, <2>4, <2>6 DEF EvidenceInv
  <2> QED
    BY <1>0, <2>4, <2>5, <2>7 DEF EvidenceInv
<1>10. CASE UNCHANGED vars
  BY <1>0, <1>10
     DEF vars, redisVars, workerVars, EvidenceInv, SettledIsAccountedFor, Settled, Live
<1> QED
  BY <1>1, <1>2, <1>3, <1>4, <1>5, <1>6, <1>7, <1>8, <1>9, <1>10 DEF Next, Work

\* The invariant is inductive.
LEMMA InductiveInvariant == Spec => []IInv
<1>1. Init => IInv
  BY BoundsAssumption
     DEF Init, IInv, TypeOK, HoldInv, EvidenceInv, SettledIsAccountedFor, Settled,
         Modes, Steps, Kinds, Entries
<1>2. IInv /\ [Next]_vars => IInv'
  BY TypeStep, HoldStep, EvidenceStep DEF IInv
<1> QED
  BY <1>1, <1>2, PTL DEF Spec

\* No event is settled for nothing, for any number of replicas, entries,
\* retries and crashes, and whatever Redis replies get lost.
THEOREM EverySettledEntryIsAccountedFor == Spec => []SettledIsAccountedFor
<1>1. IInv => SettledIsAccountedFor
  BY DEF IInv
<1> QED
  BY <1>1, InductiveInvariant, PTL

----------------------------------------------------------------------------
(* The action properties.  What a step does to an entry and to the batches  *)
(* is all they depend on.                                                   *)

\* Who is left holding which entry after a step, seen from worker w, the only
\* one whose batch it may touch: what w lets go of is no longer pending at it,
\* and what Redis hands over goes into w's batch.
LEMMA HandOver ==
    ASSUME TypeOK, NEW w \in Workers,
           owner' \in [Entries -> Workers \union {NoWorker}],
           \A v \in Workers \ {w} : batch'[v] = batch[v],
           \A e \in batch[w] : e \in batch'[w] \/ owner'[e] # w,
           \A e \in Entries : owner'[e] \in {owner[e], NoWorker} \/ (owner'[e] = w /\ e \in batch'[w])
    PROVE  \A e \in Entries : Orphan(e)' => Orphan(e)
<1> SUFFICES ASSUME NEW e \in Entries, owner'[e] # NoWorker, e \notin batch'[owner'[e]]
             PROVE  owner[e] # NoWorker /\ e \notin batch[owner[e]]
  BY DEF Orphan
<1>1. owner'[e] = owner[e] /\ owner[e] \in Workers
  OBVIOUS
<1> QED
  BY <1>1

\* No step but a crash, a lost reply or a final XACK that raises makes an orphan.
LEMMA OrphanStep ==
    ASSUME TypeOK, HoldInv, [Next]_vars, TypeOK',
           NEW e \in Entries, ~Orphan(e), Orphan(e)'
    PROVE  \E w \in Workers : \/ Crash(w) \/ FinalAckRaises(w)
                              \/ ReadReplyLost(w) \/ AutoClaimRaises(w)
<1> SUFFICES ASSUME ~ \E w \in Workers : \/ Crash(w) \/ FinalAckRaises(w)
                                         \/ ReadReplyLost(w) \/ AutoClaimRaises(w)
             PROVE  FALSE
  OBVIOUS
<1>0. owner' \in [Entries -> Workers \union {NoWorker}] /\ owner \in [Entries -> Workers \union {NoWorker}]
  BY DEF TypeOK
<1>1. ASSUME owner' = owner, batch' = batch
      PROVE  FALSE
  BY <1>1 DEF Orphan
<1>2. ASSUME NEW w \in Workers, Ack(w) \/ FinalAck(w)
      PROVE  FALSE
  <2>1. ExecAck(cur[w]) /\ NextEntry(w) /\ cur[w] \in Entries
    BY <1>2 DEF Ack, FinalAck, HoldInv, TypeOK
  <2>2. owner' = [owner EXCEPT ![cur[w]] = NoWorker]
    BY <2>1 DEF ExecAck
  <2>3. /\ \A v \in Workers \ {w} : batch'[v] = batch[v]
        /\ batch'[w] = batch[w] \ {cur[w]}
    BY <2>1 DEF NextEntry, TypeOK
  <2>4. /\ \A f \in batch[w] : f \in batch'[w] \/ owner'[f] # w
        /\ \A f \in Entries : owner'[f] \in {owner[f], NoWorker}
    BY <1>0, <2>1, <2>2, <2>3, NoWorkerAssumption
  <2> QED
    BY <1>0, <2>3, <2>4, HandOver
<1>3. ASSUME NEW w \in Workers, AckRaises(w)
      PROVE  FALSE
  <2>1. AckMaybe(cur[w]) /\ batch' = batch /\ cur[w] \in Entries
    BY <1>3 DEF AckRaises, HoldInv, TypeOK
  <2>2. \A f \in Entries : owner'[f] \in {owner[f], NoWorker}
    BY <1>0, <2>1 DEF AckMaybe, ExecAck, redisVars
  <2> QED
    BY <1>0, <2>1, <2>2, HandOver
<1>4. ASSUME NEW w \in Workers, AutoClaim(w)
      PROVE  FALSE
  <2>1. batch[w] = {}
    BY <1>4 DEF AutoClaim
  <2>2. PICK upto \in Entries :
            /\ ExecAutoClaim(w, scan[w], upto)
            /\ batch' = [batch EXCEPT ![w] = Claimed(scan[w], upto)]
    BY <1>4 DEF AutoClaim
  <2>3. /\ \A v \in Workers \ {w} : batch'[v] = batch[v]
        /\ batch'[w] = Claimed(scan[w], upto)
    BY <2>2 DEF TypeOK
  <2>4. \A f \in Entries :
            owner'[f] \in {owner[f], NoWorker} \/ (owner'[f] = w /\ f \in batch'[w])
    BY <2>2, <2>3 DEF ExecAutoClaim
  <2> QED
    BY <1>0, <2>1, <2>3, <2>4, HandOver
<1>5. ASSUME NEW w \in Workers, ReadNew(w)
      PROVE  FALSE
  <2>1. /\ batch[w] = {}
        /\ ExecReadNew(w)
        /\ batch' = [batch EXCEPT ![w] = NewFrom..NewUpTo]
    BY <1>5 DEF ReadNew
  <2>2. /\ \A v \in Workers \ {w} : batch'[v] = batch[v]
        /\ batch'[w] = NewFrom..NewUpTo
    BY <2>1 DEF TypeOK
  <2>3. \A f \in Entries :
            owner'[f] \in {owner[f], NoWorker} \/ (owner'[f] = w /\ f \in batch'[w])
    BY <2>1, <2>2 DEF ExecReadNew
  <2> QED
    BY <1>0, <2>1, <2>2, <2>3, HandOver
<1>6. ASSUME NEW w \in Workers,
             \/ Start(w) \/ StartFails(w) \/ ClaimsDone(w) \/ Take(w) \/ HandleReturns(w)
             \/ HandleRaises(w) \/ Backoff(w) \/ Bury(w)
      PROVE  owner' = owner /\ batch' = batch
  BY <1>6 DEF Start, StartFails, ClaimsDone, Take, HandleReturns, HandleRaises, Backoff,
              Bury, redisVars
<1>7. ASSUME \/ \E k \in Kinds : XAdd(k)
             \/ \E f \in Entries : BecomeIdle(f)
             \/ UNCHANGED vars
      PROVE  owner' = owner /\ batch' = batch
  BY <1>7 DEF XAdd, BecomeIdle, vars, redisVars, workerVars
<1> QED
  BY <1>1, <1>2, <1>3, <1>4, <1>5, <1>6, <1>7 DEF Next, Work

\* Finishing, retrying, dead-lettering or skipping one entry of a batch never
\* drops another, for any number of replicas and entries.
THEOREM OnlyFaultsLoseHold == Spec => OnlyFaultsOrphan
<1>1. TypeOK /\ HoldInv /\ [Next]_vars =>
          [\A e \in Entries :
               ~Orphan(e) /\ Orphan(e)' =>
                   \E w \in Workers : \/ Crash(w) \/ FinalAckRaises(w)
                                      \/ ReadReplyLost(w) \/ AutoClaimRaises(w)]_vars
  BY TypeStep, OrphanStep
<1> QED
  BY <1>1, TypeAndHold, PTL DEF Spec, OnlyFaultsOrphan

----------------------------------------------------------------------------
(* Duplicates.  While a worker polls, an entry in its batch that is still   *)
(* pending at it came from its own XREADGROUP (a claim would have been made *)
(* before it polled, and a claim by a peer would have moved the entry):     *)
(* nobody else has it in hand, and no attempt at it has ended but its own.  *)

FreshInv ==
    /\ \A e \in Entries : e > cursor => fate[e] = {}
    /\ \A w \in Workers : \A e \in batch[w] :
           mode[w] = "polling" /\ owner[e] = w =>
               /\ \A v \in Workers \ {w} : e \notin batch[v]
               /\ fate[e] = {} \/ (step[w] # "next" /\ cur[w] = e)

\* Steps of w that leave fate alone, take entries off the pending list at most
\* and give nobody a new one: what they leave in w's batch was there before.
LEMMA FreshWithoutAttempt ==
    ASSUME TypeOK, FreshInv, NEW w \in Workers,
           fate' = fate, cursor' = cursor,
           \A e \in Entries : owner'[e] \in {owner[e], NoWorker},
           \A v \in Workers \ {w} : /\ batch'[v] = batch[v] /\ mode'[v] = mode[v]
                                    /\ step'[v] = step[v] /\ cur'[v] = cur[v],
           batch'[w] \subseteq batch[w],
           batch'[w] # {} /\ mode'[w] = "polling" => mode[w] = "polling",
           \A e \in batch'[w] : step[w] # "next" /\ cur[w] = e =>
                                    step'[w] # "next" /\ cur'[w] = e
    PROVE  FreshInv'
<1>1. \A v \in Workers : batch'[v] \subseteq batch[v] /\ batch[v] \subseteq Entries
  BY DEF TypeOK
<1>2. \A e \in Entries : e > cursor' => fate'[e] = {}
  BY DEF FreshInv
<1>3. ASSUME NEW u \in Workers, NEW e \in batch'[u], mode'[u] = "polling", owner'[e] = u
      PROVE  /\ \A v \in Workers \ {u} : e \notin batch'[v]
             /\ fate'[e] = {} \/ (step'[u] # "next" /\ cur'[u] = e)
  <2>1. e \in batch[u] /\ e \in Entries /\ owner[e] = u /\ mode[u] = "polling"
    BY <1>1, <1>3, NoWorkerAssumption
  <2>2. /\ \A v \in Workers \ {u} : e \notin batch[v]
        /\ fate[e] = {} \/ (step[u] # "next" /\ cur[u] = e)
    BY <2>1 DEF FreshInv
  <2>3. step[u] # "next" /\ cur[u] = e => step'[u] # "next" /\ cur'[u] = e
    BY <1>3
  <2> QED
    BY <1>1, <2>2, <2>3
<1> QED
  BY <1>2, <1>3 DEF FreshInv

\* Steps by which an attempt of w at its current entry ends.
LEMMA FreshWithAttempt ==
    ASSUME TypeOK, HoldInv, EvidenceInv, FreshInv, NEW w \in Workers,
           step[w] # "next", step'[w] # "next",
           \A e \in Entries : e # cur[w] => fate'[e] = fate[e],
           UNCHANGED <<cursor, owner, batch, mode, cur>>,
           \A v \in Workers \ {w} : step'[v] = step[v]
    PROVE  FreshInv'
<1>0. cur[w] \in batch[w] /\ cur[w] \in 1..cursor /\ cursor \in Nat
  BY DEF HoldInv, EvidenceInv, TypeOK
<1>1. \A e \in Entries : e > cursor' => fate'[e] = {}
  BY <1>0 DEF FreshInv, Entries
<1>2. ASSUME NEW u \in Workers, NEW e \in batch[u], mode[u] = "polling", owner[e] = u
      PROVE  /\ \A v \in Workers \ {u} : e \notin batch[v]
             /\ fate'[e] = {} \/ (step'[u] # "next" /\ cur[u] = e)
  <2>1. /\ \A v \in Workers \ {u} : e \notin batch[v]
        /\ fate[e] = {} \/ (step[u] # "next" /\ cur[u] = e)
    BY <1>2 DEF FreshInv
  <2>2. e \in Entries
    BY <1>2 DEF TypeOK
  <2>3. CASE u = w
    BY <2>1, <2>2, <2>3
  <2>4. CASE u # w
    BY <1>0, <2>1, <2>2, <2>4
  <2> QED
    BY <2>3, <2>4
<1> QED
  BY <1>1, <1>2 DEF FreshInv

\* XAUTOCLAIM, its reply received or lost: entries move to w, which does not
\* poll while it has claimed ones in hand.
LEMMA FreshClaim ==
    ASSUME TypeOK, EvidenceInv, FreshInv, NEW w \in Workers, NEW n, NEW upto,
           ExecAutoClaim(w, n, upto), fate' = fate,
           batch'[w] # {} => mode'[w] # "polling",
           batch'[w] \subseteq Claimed(n, upto),
           \A v \in Workers \ {w} : /\ batch'[v] = batch[v] /\ mode'[v] = mode[v]
                                    /\ step'[v] = step[v] /\ cur'[v] = cur[v]
    PROVE  FreshInv'
<1>1. \A e \in Entries : e > cursor' => fate'[e] = {}
  BY DEF FreshInv, ExecAutoClaim
<1>2. ASSUME NEW u \in Workers, NEW e \in batch'[u], mode'[u] = "polling", owner'[e] = u
      PROVE  /\ \A v \in Workers \ {u} : e \notin batch'[v]
             /\ fate'[e] = {} \/ (step'[u] # "next" /\ cur'[u] = e)
  <2>1. u # w
    BY <1>2
  <2>2. e \in batch[u] /\ e \in Entries /\ mode[u] = "polling"
    BY <1>2, <2>1 DEF TypeOK
  <2>3. e \notin Claimed(n, upto) /\ owner[e] = u
    BY <1>2, <2>1, <2>2, NoWorkerAssumption DEF ExecAutoClaim
  <2>4. /\ \A v \in Workers \ {u} : e \notin batch[v]
        /\ fate[e] = {} \/ (step[u] # "next" /\ cur[u] = e)
    BY <2>2, <2>3 DEF FreshInv
  <2> QED
    BY <2>1, <2>3, <2>4
<1> QED
  BY <1>1, <1>2 DEF FreshInv

\* XREADGROUP, its reply received or lost: it only hands out entries nobody has
\* had before.
LEMMA FreshRead ==
    ASSUME TypeOK, EvidenceInv, FreshInv, NEW w \in Workers,
           ExecReadNew(w), UNCHANGED <<fate, mode, step, cur>>, batch[w] = {},
           batch'[w] \in {{}, NewFrom..NewUpTo},
           \A v \in Workers \ {w} : batch'[v] = batch[v]
    PROVE  FreshInv'
<1>1. RedisTypeOK
  BY TypeParts
<1>2. /\ cursor \in Nat /\ NewFrom \in Nat /\ NewFrom > cursor
      /\ NewUpTo \in Nat /\ NewUpTo >= NewFrom /\ NewFrom..NewUpTo \subseteq Entries
      /\ cursor' = NewUpTo
  <2>1. Len(stream) \in Nat /\ cursor \in Nat /\ first \in Nat
    BY <1>1 DEF RedisTypeOK
  <2>2. NewFrom \in Nat /\ NewFrom > cursor
    BY <2>1 DEF NewFrom
  <2>3. NewUpTo \in Nat /\ NewUpTo >= NewFrom
    BY <2>1, <2>2, BoundsAssumption DEF NewUpTo, ExecReadNew
  <2> QED
    BY <1>1, <2>1, <2>2, <2>3, ExecReadNewType DEF ExecReadNew
<1>3. \A e \in Entries : e > cursor' => fate'[e] = {}
  BY <1>2 DEF FreshInv, Entries
<1>4. \A v \in Workers : \A e \in batch[v] : e \in Entries /\ e <= cursor /\ e \notin NewFrom..NewUpTo
  BY <1>2 DEF EvidenceInv, TypeOK
<1>5. ASSUME NEW u \in Workers, NEW e \in batch'[u], mode'[u] = "polling", owner'[e] = u
      PROVE  /\ \A v \in Workers \ {u} : e \notin batch'[v]
             /\ fate'[e] = {} \/ (step'[u] # "next" /\ cur'[u] = e)
  <2>1. CASE u = w
    <3>1. e \in NewFrom..NewUpTo
      BY <1>5, <2>1
    <3>2. \A v \in Workers \ {u} : e \notin batch'[v]
      BY <1>4, <2>1, <3>1
    <3>3. fate[e] = {}
      BY <1>2, <3>1 DEF FreshInv
    <3> QED
      BY <3>2, <3>3
  <2>2. CASE u # w
    <3>1. e \in batch[u] /\ e \in Entries /\ e \notin NewFrom..NewUpTo
      BY <1>4, <1>5, <2>2
    <3>2. owner[e] = u
      BY <1>5, <3>1 DEF ExecReadNew
    <3>3. /\ \A v \in Workers \ {u} : e \notin batch[v]
          /\ fate[e] = {} \/ (step[u] # "next" /\ cur[u] = e)
      BY <1>5, <3>1, <3>2 DEF FreshInv
    <3>4. e \notin batch'[w]
      BY <3>1
    <3> QED
      BY <3>3, <3>4
  <2> QED
    BY <2>1, <2>2
<1> QED
  BY <1>3, <1>5 DEF FreshInv

\* FreshInv is preserved, action by action.
LEMMA FreshStep ==
    ASSUME IInv, FreshInv, [Next]_vars
    PROVE  FreshInv'
<1>0. TypeOK /\ HoldInv /\ EvidenceInv
  BY DEF IInv
<1>1. ASSUME NEW w \in Workers,
             \/ Start(w) \/ StartFails(w) \/ Crash(w) \/ ClaimsDone(w) \/ Take(w)
             \/ HandleRaises(w) \/ Backoff(w)
      PROVE  FreshInv'
  <2>1. fate' = fate /\ cursor' = cursor /\ owner' = owner
    BY <1>1 DEF Start, StartFails, Crash, ClaimsDone, Take, HandleRaises, Backoff, redisVars
  <2>2. /\ \A v \in Workers \ {w} : /\ batch'[v] = batch[v] /\ mode'[v] = mode[v]
                                    /\ step'[v] = step[v] /\ cur'[v] = cur[v]
        /\ batch'[w] \subseteq batch[w]
        /\ batch'[w] # {} /\ mode'[w] = "polling" => mode[w] = "polling"
        /\ \A e \in batch'[w] : step[w] # "next" /\ cur[w] = e =>
                                    step'[w] # "next" /\ cur'[w] = e
    <3>1. CASE Start(w) \/ StartFails(w) \/ ClaimsDone(w)
      BY <1>0, <3>1 DEF Start, StartFails, ClaimsDone, TypeOK
    <3>2. CASE Crash(w)
      BY <1>0, <3>2 DEF Crash, TypeOK
    <3>3. CASE Take(w)
      BY <1>0, <3>3 DEF Take, TypeOK
    <3>4. CASE HandleRaises(w) \/ Backoff(w)
      BY <1>0, <3>4 DEF HandleRaises, AfterRaise, Backoff, TypeOK
    <3> QED
      BY <1>1, <3>1, <3>2, <3>3, <3>4
  <2> QED
    BY <1>0, <2>1, <2>2, FreshWithoutAttempt
<1>2. ASSUME NEW w \in Workers, Ack(w) \/ AckRaises(w) \/ FinalAck(w) \/ FinalAckRaises(w)
      PROVE  FreshInv'
  <2>1. AckMaybe(cur[w]) /\ fate' = fate
    BY <1>2 DEF Ack, AckRaises, FinalAck, FinalAckRaises, AckMaybe
  <2>2. cursor' = cursor /\ \A e \in Entries : owner'[e] \in {owner[e], NoWorker}
    BY <1>0, <2>1 DEF AckMaybe, ExecAck, redisVars, TypeOK
  <2>3. /\ \A v \in Workers \ {w} : /\ batch'[v] = batch[v] /\ mode'[v] = mode[v]
                                    /\ step'[v] = step[v] /\ cur'[v] = cur[v]
        /\ batch'[w] \subseteq batch[w]
        /\ batch'[w] # {} /\ mode'[w] = "polling" => mode[w] = "polling"
        /\ \A e \in batch'[w] : step[w] # "next" /\ cur[w] = e =>
                                    step'[w] # "next" /\ cur'[w] = e
    <3>1. CASE Ack(w) \/ FinalAck(w)
      <4>1. NextEntry(w)
        BY <3>1 DEF Ack, FinalAck
      <4>2. /\ batch'[w] = batch[w] \ {cur[w]} /\ mode' = mode
            /\ \A v \in Workers \ {w} : /\ batch'[v] = batch[v]
                                        /\ step'[v] = step[v] /\ cur'[v] = cur[v]
        BY <1>0, <4>1 DEF NextEntry, TypeOK
      <4> QED
        BY <4>2
    <3>2. CASE AckRaises(w)
      BY <1>0, <3>2 DEF AckRaises, AfterRaise, TypeOK
    <3>3. CASE FinalAckRaises(w)
      BY <1>0, <3>3 DEF FinalAckRaises, TypeOK
    <3> QED
      BY <1>2, <3>1, <3>2, <3>3
  <2> QED
    BY <1>0, <2>1, <2>2, <2>3, FreshWithoutAttempt
<1>3. ASSUME NEW w \in Workers, HandleReturns(w) \/ Bury(w)
      PROVE  FreshInv'
  <2>1. /\ step[w] # "next" /\ step'[w] # "next"
        /\ UNCHANGED <<cursor, owner, batch, mode, cur>>
        /\ \A v \in Workers \ {w} : step'[v] = step[v]
    BY <1>0, <1>3 DEF HandleReturns, Bury, redisVars, TypeOK
  <2>2. \A e \in Entries : e # cur[w] => fate'[e] = fate[e]
    BY <1>0, <1>3 DEF HandleReturns, Bury, TypeOK
  <2> QED
    BY <1>0, <2>1, <2>2, FreshWithAttempt
<1>4. ASSUME NEW w \in Workers, AutoClaim(w)
      PROVE  FreshInv'
  <2>1. PICK upto \in Entries :
            /\ ExecAutoClaim(w, scan[w], upto)
            /\ batch' = [batch EXCEPT ![w] = Claimed(scan[w], upto)]
    BY <1>4 DEF AutoClaim
  <2>2. UNCHANGED <<mode, step, cur, fate>> /\ mode[w] = "claiming"
    BY <1>4 DEF AutoClaim
  <2>3. /\ batch'[w] = Claimed(scan[w], upto)
        /\ \A v \in Workers \ {w} : batch'[v] = batch[v]
    BY <1>0, <2>1 DEF TypeOK
  <2> QED
    BY <1>0, <2>1, <2>2, <2>3, FreshClaim
<1>5. ASSUME NEW w \in Workers, AutoClaimRaises(w)
      PROVE  FreshInv'
  <2>1. /\ UNCHANGED <<step, cur, batch, fate>> /\ batch[w] = {}
        /\ \A v \in Workers \ {w} : mode'[v] = mode[v]
    BY <1>0, <1>5 DEF AutoClaimRaises, TypeOK
  <2>2. CASE UNCHANGED redisVars
    <3>1. cursor' = cursor /\ owner' = owner
      BY <2>2 DEF redisVars
    <3> QED
      BY <1>0, <2>1, <3>1, FreshWithoutAttempt
  <2>3. CASE \E upto \in Entries : ExecAutoClaim(w, scan[w], upto)
    BY <1>0, <2>1, <2>3, FreshClaim
  <2> QED
    BY <1>5, <2>2, <2>3 DEF AutoClaimRaises
<1>6. ASSUME NEW w \in Workers, ReadNew(w) \/ ReadReplyLost(w)
      PROVE  FreshInv'
  <2>1. /\ ExecReadNew(w) /\ UNCHANGED <<fate, mode, step, cur>> /\ batch[w] = {}
        /\ batch' = batch \/ batch' = [batch EXCEPT ![w] = NewFrom..NewUpTo]
    BY <1>6 DEF ReadNew, ReadReplyLost, workerVars
  <2>2. /\ batch'[w] \in {{}, NewFrom..NewUpTo}
        /\ \A v \in Workers \ {w} : batch'[v] = batch[v]
    BY <1>0, <2>1 DEF TypeOK
  <2> QED
    BY <1>0, <2>1, <2>2, FreshRead
<1>7. ASSUME \/ \E k \in Kinds : XAdd(k)
             \/ \E e \in Entries : BecomeIdle(e)
             \/ UNCHANGED vars
      PROVE  FreshInv'
  BY <1>7 DEF XAdd, BecomeIdle, vars, redisVars, workerVars, FreshInv
<1> QED
  BY <1>1, <1>2, <1>3, <1>4, <1>5, <1>6, <1>7 DEF Next, Work

\* Only Take turns "next" into "handle", and FreshInv speaks of what it takes.
LEMMA TakeIsFresh ==
    ASSUME IInv, FreshInv, [Next]_vars, NEW w \in Workers,
           step[w] = "next", step'[w] = "handle", mode[w] = "polling", owner[cur'[w]] = w
    PROVE  fate[cur'[w]] = {}
<1>0. TypeOK
  BY DEF IInv
<1>1. CASE Take(w)
  <2>1. PICK e \in batch[w] : cur' = [cur EXCEPT ![w] = e]
    BY <1>1 DEF Take
  <2>2. cur'[w] = e
    BY <1>0, <2>1 DEF TypeOK
  <2> QED
    BY <2>2 DEF FreshInv
<1>2. ASSUME NEW v \in Workers, v # w,
             \/ Start(v) \/ StartFails(v) \/ Crash(v) \/ Work(v)
      PROVE  step'[w] = step[w]
  <2>1. CASE Start(v) \/ StartFails(v) \/ Crash(v) \/ AutoClaim(v) \/ AutoClaimRaises(v) \/ ClaimsDone(v)
             \/ ReadNew(v) \/ ReadReplyLost(v)
    BY <1>0, <1>2, <2>1 DEF Start, StartFails, Crash, AutoClaim, AutoClaimRaises, ClaimsDone,
                     ReadNew, ReadReplyLost, workerVars, TypeOK
  <2>2. CASE Take(v) \/ HandleReturns(v) \/ HandleRaises(v) \/ Backoff(v) \/ Bury(v)
    BY <1>0, <1>2, <2>2 DEF Take, HandleReturns, HandleRaises, Backoff, Bury, TypeOK
  <2>3. CASE Ack(v) \/ AckRaises(v) \/ FinalAck(v) \/ FinalAckRaises(v)
    BY <1>0, <1>2, <2>3 DEF Ack, AckRaises, FinalAck, FinalAckRaises, NextEntry, TypeOK
  <2> QED
    BY <1>2, <2>1, <2>2, <2>3 DEF Work
<1>3. ASSUME \/ Start(w) \/ StartFails(w) \/ AutoClaim(w) \/ AutoClaimRaises(w) \/ ClaimsDone(w)
             \/ ReadNew(w) \/ ReadReplyLost(w) \/ Crash(w)
      PROVE  step'[w] = "next"
  BY <1>0, <1>3 DEF Start, StartFails, Crash, AutoClaim, AutoClaimRaises, ClaimsDone,
                    ReadNew, ReadReplyLost, workerVars, TypeOK
<1>4. ~(\/ HandleReturns(w) \/ HandleRaises(w) \/ Backoff(w) \/ Ack(w) \/ AckRaises(w)
        \/ Bury(w) \/ FinalAck(w) \/ FinalAckRaises(w))
  BY DEF HandleReturns, HandleRaises, Backoff, Ack, AckRaises, Bury, FinalAck, FinalAckRaises
<1>5. ASSUME \/ \E k \in Kinds : XAdd(k)
             \/ \E e \in Entries : BecomeIdle(e)
             \/ UNCHANGED vars
      PROVE  step' = step
  BY <1>5 DEF XAdd, BecomeIdle, vars, workerVars
<1> QED
  BY <1>1, <1>2, <1>3, <1>4, <1>5 DEF Next, Work

\* A worker that still owns what it read itself never starts on it after an
\* attempt at it has ended: duplicates come from claims and raising XACKs.
THEOREM NewMessagesAreFresh == Spec => DuplicatesComeFromReclaims
<1>1. Init => FreshInv
  BY DEF Init, FreshInv
<1>2. IInv /\ FreshInv /\ [Next]_vars => FreshInv'
  BY FreshStep
<1>3. IInv /\ FreshInv /\ [Next]_vars =>
          [\A w \in Workers :
               /\ step[w] = "next" /\ step'[w] = "handle"
               /\ mode[w] = "polling" /\ owner[cur'[w]] = w
               => fate[cur'[w]] = {}]_vars
  BY TakeIsFresh
<1> QED
  BY <1>1, <1>2, <1>3, InductiveInvariant, PTL DEF Spec, DuplicatesComeFromReclaims

----------------------------------------------------------------------------
(***************************************************************************)
(* The workers and their stream implement the abstract event delivery of   *)
(* EventDelivery, for every value of the constants.                        *)
(***************************************************************************)
SettledSet == {e \in Entries : Settled(e)}

\* The reading of a state that ImplementsDelivery uses, in words of Settled.
LEMMA PhaseIsSettled ==
    ASSUME TypeOK, NEW e \in Entries
    PROVE  /\ PhaseOf(e) = "absent" <=> e > Len(stream)
           /\ PhaseOf(e) = "closed" <=> e \in SettledSet
           /\ PhaseOf(e) \in {"absent", "open", "closed"}
<1>1. e \in Nat /\ Len(stream) \in Nat /\ cursor \in Nat /\ cursor <= Len(stream)
  BY DEF TypeOK, Entries
<1> QED
  BY <1>1 DEF PhaseOf, Settled, SettledSet

\* A step that publishes nothing and ends no attempt closes exactly the events
\* it settles, provided it unsettles none.
LEMMA SettlingCloses ==
    ASSUME IInv, IInv', UNCHANGED <<stream, first, fate>>,
           SettledSet \subseteq SettledSet'
    PROVE  Delivery!Close(SettledSet' \ SettledSet)
<1> DEFINE S == SettledSet' \ SettledSet
           NewPhase(e) == IF e > Len(stream) THEN "absent"
                          ELSE IF e > cursor' \/ owner'[e] # NoWorker THEN "open"
                          ELSE "closed"
<1>0. /\ Len(stream) \in Nat /\ cursor \in 0..Len(stream) /\ cursor' \in 0..Len(stream)
      /\ first \in Nat /\ \A e \in Entries : e \in Nat
  BY DEF IInv, TypeOK, Entries
<1>a. \A e \in Entries : e \in SettledSet' <=> e <= cursor' /\ owner'[e] = NoWorker
  BY DEF SettledSet, Settled
<1>b. \A e \in Entries : e \in SettledSet <=> e <= cursor /\ owner[e] = NoWorker
  BY DEF SettledSet, Settled
<1>c. S \subseteq Entries
  BY DEF SettledSet, Entries
<1>1. \A e \in Entries : NewPhase(e) = IF e \in S THEN "closed" ELSE PhaseOf(e)
  BY <1>0, <1>a, <1>b DEF PhaseOf
<1>2. \A e \in S : PhaseOf(e) = "open"
  BY <1>0, <1>a, <1>b, <1>c DEF PhaseOf
<1>3. \A e \in S : fate[e] # {} \/ e < first \/ stream[e] = "foreign"
  BY <1>0, <1>a, <1>c DEF IInv, SettledIsAccountedFor, Settled, Live
<1>4. \A e \in S : /\ e < first => e \in {f \in Entries : ~Live(f)}
                   /\ stream[e] = "foreign" => e \in {f \in Published : stream[f] = "foreign"}
  BY <1>0, <1>a, <1>c DEF Entries, Published, Live
<1>5. [e \in Entries |-> PhaseOf(e)]' = [e \in Entries |-> IF e \in S THEN "closed" ELSE PhaseOf(e)]
  BY <1>1 DEF PhaseOf, Entries
<1> HIDE DEF S
<1>6. UNCHANGED <<fate, {e \in Published : stream[e] = "foreign"}, {e \in Entries : ~Live(e)}>>
  BY DEF Published, Live
<1>7. Delivery!Close(S)
  BY <1>2, <1>3, <1>4, <1>5, <1>6, <1>c
     DEF Delivery!Close, Delivery!MayClose, Delivery!Entries, Entries
<1> QED
  BY <1>7 DEF S

\* The commands that touch the pending list or the cursor unsettle nothing.
LEMMA RedisKeepsSettled ==
    ASSUME IInv, NEW w \in Workers,
           \/ ExecReadNew(w)
           \/ \E n, upto : ExecAutoClaim(w, n, upto)
           \/ \E e \in Entries : AckMaybe(e)
    PROVE  SettledSet \subseteq SettledSet' /\ UNCHANGED <<stream, first>>
<1>0. RedisTypeOK
  BY TypeParts DEF IInv
<1> SUFFICES /\ \A e \in Entries : e <= cursor /\ owner[e] = NoWorker
                                   => e <= cursor' /\ owner'[e] = NoWorker
             /\ UNCHANGED <<stream, first>>
  BY DEF SettledSet, Settled, Entries
<1>1. CASE ExecReadNew(w)
  <2>1. NewFrom \in Nat /\ NewFrom >= cursor + 1 /\ NewUpTo \in NewFrom..Len(stream)
    BY <1>0, <1>1, BoundsAssumption DEF RedisTypeOK, ExecReadNew, NewFrom, NewUpTo
  <2>2. cursor' = NewUpTo /\ cursor \in Nat
    BY <1>0, <1>1 DEF ExecReadNew, RedisTypeOK
  <2>3. \A e \in Entries : e <= cursor => e \notin NewFrom..NewUpTo /\ e <= cursor'
    BY <2>1, <2>2 DEF Entries
  <2> QED
    BY <1>1, <2>3 DEF ExecReadNew
<1>2. CASE \E n, upto : ExecAutoClaim(w, n, upto)
  <2>1. PICK n, upto : ExecAutoClaim(w, n, upto)
    BY <1>2
  <2>2. \A e \in Entries : owner[e] = NoWorker => owner'[e] = NoWorker
    BY <2>1 DEF ExecAutoClaim, Claimed, ClaimHits, Pending
  <2> QED
    BY <2>1, <2>2 DEF ExecAutoClaim
<1>3. CASE \E e \in Entries : AckMaybe(e)
  BY <1>0, <1>3 DEF AckMaybe, ExecAck, redisVars, RedisTypeOK
<1> QED
  BY <1>1, <1>2, <1>3

\* A step that only settles events is a step of the abstract specification.
LEMMA SettlingStep ==
    ASSUME IInv, IInv', UNCHANGED <<stream, first, fate>>,
           SettledSet \subseteq SettledSet'
    PROVE  Delivery!DeliveryNext
<1>1. SettledSet' \ SettledSet \in SUBSET Delivery!Entries
  BY DEF Delivery!Entries, Entries, SettledSet
<1> QED
  BY <1>1, SettlingCloses DEF Delivery!DeliveryNext

\* An attempt that ends leaves its outcome as a reason.
LEMMA AttemptStep ==
    ASSUME IInv, NEW e \in Entries, e <= Len(stream), NEW o \in Outcomes,
           UNCHANGED <<stream, first, cursor, owner>>,
           fate' = [fate EXCEPT ![e] = @ \union {o}]
    PROVE  Delivery!DeliveryNext
<1>1. PhaseOf(e) # "absent"
  BY PhaseIsSettled DEF IInv, TypeOK, Entries
<1>2. \A f \in Entries : PhaseOf(f)' = PhaseOf(f)
  BY DEF PhaseOf
<1>3. Delivery!Attempt(e, o)
  BY <1>1, <1>2 DEF Delivery!Attempt, Delivery!Entries, Entries, Published, Live
<1> QED
  BY <1>3 DEF Delivery!DeliveryNext, Delivery!Entries, Entries

\* Publishing accepts the next event and may forget old ones.
LEMMA PublishStep ==
    ASSUME IInv, NEW k \in Kinds, XAdd(k)
    PROVE  Delivery!DeliveryNext
<1>0. /\ Len(stream) \in Nat /\ cursor \in 0..Len(stream) /\ first \in 1..(MaxEntries + 1)
      /\ MaxEntries \in Nat /\ Len(stream) < MaxEntries
  BY BoundsAssumption DEF IInv, TypeOK, XAdd
<1>1. PICK e \in Entries : e = Len(stream) + 1
  BY <1>0 DEF Entries
<1>2. /\ stream \in Seq(Kinds) /\ stream' = Append(stream, k)
      /\ Len(stream') = e
      /\ stream'[e] = k /\ \A f \in 1..Len(stream) : stream'[f] = stream[f]
  BY <1>1 DEF IInv, TypeOK, XAdd
<1>3. UNCHANGED <<cursor, owner, fate>> /\ first' \in first..(MaxEntries + 1)
  BY DEF XAdd
<1>4. owner[e] = NoWorker
  BY <1>0, <1>1 DEF IInv, EvidenceInv
<1>5. PhaseOf(e) = "absent"
  BY <1>0, <1>1 DEF PhaseOf
<1>6. [f \in Entries |-> PhaseOf(f)]' = [[f \in Entries |-> PhaseOf(f)] EXCEPT ![e] = "open"]
  <2>1. \A f \in Entries : f # e => PhaseOf(f)' = PhaseOf(f)
    BY <1>0, <1>1, <1>2, <1>3 DEF PhaseOf, Entries
  <2>2. PhaseOf(e)' = "open"
    BY <1>0, <1>1, <1>2, <1>3 DEF PhaseOf
  <2> QED
    BY <2>1, <2>2 DEF Entries
<1>7. {f \in Published : stream[f] = "foreign"}' \in
          { {f \in Published : stream[f] = "foreign"},
            {f \in Published : stream[f] = "foreign"} \union {e} }
  <2>1. Published' = Published \union {e} /\ e \notin Published
    BY <1>0, <1>1, <1>2 DEF Published
  <2>2. \A f \in Published : stream'[f] = stream[f]
    BY <1>2 DEF Published
  <2>3. CASE k = "foreign"
    BY <1>2, <2>1, <2>2, <2>3
  <2>4. CASE k # "foreign"
    BY <1>2, <2>1, <2>2, <2>4
  <2> QED
    BY <2>3, <2>4
<1>8. /\ {f \in Entries : ~Live(f)}' \in SUBSET Entries
      /\ {f \in Entries : ~Live(f)} \subseteq {f \in Entries : ~Live(f)}'
  BY <1>0, <1>3 DEF Entries, Live
<1>9. Delivery!Accept(e)
  BY <1>3, <1>5, <1>6, <1>7, <1>8 DEF Delivery!Accept, Delivery!Entries, Entries
<1> QED
  BY <1>9 DEF Delivery!DeliveryNext, Delivery!Entries, Entries

\* A step that changes none of what the abstraction looks at is a stutter.
LEMMA StutterStep ==
    ASSUME UNCHANGED <<stream, first, cursor, owner, fate>>
    PROVE  UNCHANGED Delivery!deliveryVars
  BY DEF Delivery!deliveryVars, PhaseOf, Published, Live

\* Every step of the detailed specification is a step of the abstract one.
LEMMA StepRefines ==
    ASSUME IInv, IInv', [Next]_vars
    PROVE  [Delivery!DeliveryNext]_Delivery!deliveryVars
<1>0. TypeOK /\ HoldInv /\ EvidenceInv
  BY DEF IInv
<1>1. ASSUME NEW k \in Kinds, XAdd(k)
      PROVE  [Delivery!DeliveryNext]_Delivery!deliveryVars
  BY <1>1, PublishStep
<1>2. ASSUME NEW w \in Workers,
             AutoClaim(w) \/ AutoClaimRaises(w) \/ ReadNew(w) \/ ReadReplyLost(w)
      PROVE  [Delivery!DeliveryNext]_Delivery!deliveryVars
  <2>1. fate' = fate
    BY <1>2 DEF AutoClaim, AutoClaimRaises, ReadNew, ReadReplyLost
  <2>2. CASE UNCHANGED redisVars
    BY <2>1, <2>2, StutterStep DEF redisVars
  <2>3. CASE ExecReadNew(w) \/ \E n, upto : ExecAutoClaim(w, n, upto)
    BY <2>1, <2>3, RedisKeepsSettled, SettlingStep
  <2> QED
    BY <1>2, <2>2, <2>3 DEF AutoClaim, AutoClaimRaises, ReadNew, ReadReplyLost
<1>3. ASSUME NEW w \in Workers, HandleReturns(w) \/ Bury(w)
      PROVE  [Delivery!DeliveryNext]_Delivery!deliveryVars
  <2>1. cur[w] \in Entries /\ cur[w] <= Len(stream)
    BY <1>0, <1>3 DEF HandleReturns, Bury, HoldInv, EvidenceInv, TypeOK, Steps
  <2>2. UNCHANGED <<stream, first, cursor, owner>>
    BY <1>3 DEF HandleReturns, Bury, redisVars
  <2>3. PICK o \in Outcomes : fate' = [fate EXCEPT ![cur[w]] = @ \union {o}]
    BY <1>3 DEF HandleReturns, Bury, Outcomes
  <2> QED
    BY <2>1, <2>2, <2>3, AttemptStep
<1>4. ASSUME NEW w \in Workers, Ack(w) \/ AckRaises(w) \/ FinalAck(w) \/ FinalAckRaises(w)
      PROVE  [Delivery!DeliveryNext]_Delivery!deliveryVars
  <2>1. cur[w] \in Entries
    BY <1>0, <1>4
       DEF Ack, AckRaises, FinalAck, FinalAckRaises, HoldInv, TypeOK, Steps
  <2>2. AckMaybe(cur[w]) /\ fate' = fate
    BY <1>4 DEF Ack, AckRaises, FinalAck, FinalAckRaises, AckMaybe
  <2> QED
    BY <2>1, <2>2, RedisKeepsSettled, SettlingStep
<1>5. ASSUME NEW w \in Workers,
             \/ Start(w) \/ StartFails(w) \/ Crash(w) \/ ClaimsDone(w)
             \/ Take(w) \/ HandleRaises(w) \/ Backoff(w)
      PROVE  [Delivery!DeliveryNext]_Delivery!deliveryVars
  <2>1. UNCHANGED <<redisVars, fate>>
    BY <1>5 DEF Start, StartFails, Crash, ClaimsDone, Take, HandleRaises, Backoff
  <2> QED
    BY <2>1, StutterStep DEF redisVars
<1>6. ASSUME \/ \E e \in Entries : BecomeIdle(e)
             \/ UNCHANGED vars
      PROVE  [Delivery!DeliveryNext]_Delivery!deliveryVars
  BY <1>6, StutterStep DEF BecomeIdle, vars, redisVars
<1> QED
  BY <1>1, <1>2, <1>3, <1>4, <1>5, <1>6 DEF Next, Work

\* The workers implement the abstract delivery: whoever crashes, reclaims,
\* re-reads or acks twice, an event is closed once, for good, and for a reason.
THEOREM WorkersImplementDelivery == Spec => ImplementsDelivery
<1>1. Init => Delivery!DeliveryInit
  BY BoundsAssumption
     DEF Init, Delivery!DeliveryInit, Delivery!Entries, Entries, PhaseOf, Published, Live
<1>2. IInv /\ IInv' /\ [Next]_vars => [Delivery!DeliveryNext]_Delivery!deliveryVars
  BY StepRefines
<1> QED
  BY <1>1, <1>2, InductiveInvariant, PTL DEF Spec, ImplementsDelivery, Delivery!DeliverySpec

============================================================================
