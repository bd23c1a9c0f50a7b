---------------------------- MODULE RedisStore ------------------------------
(***************************************************************************)
(* The Redis statsStore of redis_store.go: replicas count in memory and    *)
(* flush their counts to one Redis in numbered batches. One action is one  *)
(* critical section of a replica, one script run in Redis, or one event of *)
(* the network. Requests travel on many connections: a request can get     *)
(* lost, can arrive after its sender gave up, and go-redis can send it     *)
(* again, so that it runs more than one time.                              *)
(*                                                                         *)
(* A definition marked "mutant" is a plausible bug in the definition below *)
(* it. No specification uses it: it shows that a property can fail.        *)
(***************************************************************************)
EXTENDS Integers, FiniteSetsExt

CONSTANTS
    Replicas,    \* one for each process: a restart is another replica
    Mortal,      \* the replicas that may be killed
    Keys,        \* the different requests (fizzbuzz.Params)
    LocalCost,   \* memoryCost: budget bytes of a key in a replica
    RedisCost,   \* statsKeyOverhead + len(member): the same in Redis
    MaxBytes,    \* cfg.StatsMaxBytes, the same in each replica
    MaxHits      \* bound of the Record calls for one key

(***************************************************************************)
(* A member is the JSON of the whole request, so it is longer than the two *)
(* strings that memoryCost counts.                                         *)
(***************************************************************************)
ASSUME CostAssumption ==
    /\ IsFiniteSet(Keys) /\ IsFiniteSet(Replicas)
    /\ LocalCost \in [Keys -> Nat]
    /\ RedisCost \in [Keys -> Nat]
    /\ \A k \in Keys : LocalCost[k] < RedisCost[k]
    /\ MaxBytes \in Int
    /\ MaxHits \in Nat
    /\ Mortal \subseteq Replicas

VARIABLES
    \* memory of each replica
    held,        \* the keys of s.pending
    n,           \* hits of each key that Redis did not acknowledge
    sent,        \* the part of n in the unacknowledged batch
    usedBytes,
    overflow,
    seq,         \* number of the newest batch
    batch,       \* the unacknowledged batch, or NoBatch
    phase,       \* where the Flush that holds flushMu is
    result,      \* what the script of this Flush returned, 0 before
    \* Redis
    counts,      \* the sorted set: 0 for a key that is no member
    used,
    saturated,
    lastSeq,     \* the seq key of each replica: 0 when it does not exist
    \* network and history
    requests,    \* script calls that can still reach Redis
    recorded     \* Record calls for each key, by all replicas

localVars == <<held, n, sent, usedBytes, overflow>>
flushVars == <<seq, batch, phase, result>>
redisVars == <<counts, used, saturated, lastSeq>>
vars == <<localVars, flushVars, redisVars, requests, recorded>>

NoBatch == [seq |-> 0]
NoHits == [k \in Keys |-> 0]
Tally == [Keys -> Nat]

FlushRequest == [kind : {"flush"}, from : Replicas, seq : Nat, hits : Tally]
SaturateRequest == [kind : {"saturate"}, from : Replicas]

(***************************************************************************)
(* The phases of a Flush. "idle": flushMu is free. "saturate" and "batch": *)
(* the overflow flag is read. "flushing" and "saturating": a script runs.  *)
(* "applied" and "cleared": its reply is back. "down": the process died.   *)
(***************************************************************************)
Phases == {"idle", "saturate", "batch", "flushing", "saturating",
           "applied", "cleared", "down"}

Init ==
    /\ held = [r \in Replicas |-> {}]
    /\ n = [r \in Replicas |-> NoHits]
    /\ sent = [r \in Replicas |-> NoHits]
    /\ usedBytes = [r \in Replicas |-> 0]
    /\ overflow = [r \in Replicas |-> FALSE]
    /\ seq = [r \in Replicas |-> 0]
    /\ batch = [r \in Replicas |-> NoBatch]
    /\ phase = [r \in Replicas |-> "idle"]
    /\ result = [r \in Replicas |-> 0]
    /\ counts = NoHits
    /\ used = 0
    /\ saturated = FALSE
    /\ lastSeq = [r \in Replicas |-> 0]
    /\ requests = {}
    /\ recorded = NoHits

Alive(r) == phase[r] # "down"

Move(r, from, to) ==
    /\ phase[r] = from
    /\ phase' = [phase EXCEPT ![r] = to]

-----------------------------------------------------------------------------
(***************************************************************************)
(* Record, under s.mu: it never waits for a Flush in progress.             *)
(***************************************************************************)
NoRoom(r, k) == k \notin held[r] /\ usedBytes[r] + LocalCost[k] > MaxBytes

Recorded(r, k) ==
    /\ Alive(r)
    /\ recorded[k] < MaxHits
    /\ recorded' = [recorded EXCEPT ![k] = @ + 1]

RecordHit(r, k) ==
    /\ Recorded(r, k)
    /\ ~overflow[r]
    /\ ~NoRoom(r, k)
    /\ held' = [held EXCEPT ![r] = @ \cup {k}]
    /\ usedBytes' = IF k \in held[r] THEN usedBytes
                    ELSE [usedBytes EXCEPT ![r] = @ + LocalCost[k]]
    /\ n' = [n EXCEPT ![r][k] = @ + 1]
    /\ UNCHANGED <<sent, overflow, flushVars, redisVars, requests>>

RecordOverflows(r, k) ==
    /\ Recorded(r, k)
    /\ ~overflow[r]
    /\ NoRoom(r, k)
    /\ overflow' = [overflow EXCEPT ![r] = TRUE]
    /\ UNCHANGED <<held, n, sent, usedBytes, flushVars, redisVars, requests>>

RecordIgnored(r, k) ==
    /\ Recorded(r, k)
    /\ overflow[r]
    /\ UNCHANGED <<localVars, flushVars, redisVars, requests>>

-----------------------------------------------------------------------------
(***************************************************************************)
(* Flush takes flushMu, then reads the overflow flag under s.mu.           *)
(***************************************************************************)
BeginFlush(r) ==
    /\ Move(r, "idle", IF overflow[r] THEN "saturate" ELSE "batch")
    /\ UNCHANGED <<localVars, seq, batch, result, redisVars, requests, recorded>>

(***************************************************************************)
(* Nothing to send: no batch waits for a retry and no key is pending.      *)
(***************************************************************************)
NothingPending(r) ==
    /\ batch[r] = NoBatch
    /\ held[r] = {}
    /\ Move(r, "batch", "idle")
    /\ UNCHANGED <<localVars, seq, batch, result, redisVars, requests, recorded>>

(***************************************************************************)
(* nextBatch marks all pending hits as sent, under s.mu, and numbers the   *)
(* batch. The first attempt of the script call leaves at once.             *)
(***************************************************************************)
NextBatch(r) ==
    /\ batch[r] = NoBatch
    /\ held[r] # {}
    /\ Move(r, "batch", "flushing")
    /\ sent' = [sent EXCEPT ![r] = n[r]]
    /\ seq' = [seq EXCEPT ![r] = @ + 1]
    /\ batch' = [batch EXCEPT ![r] = [seq |-> seq[r] + 1, hits |-> n[r]]]
    /\ requests' = requests \cup {[kind |-> "flush", from |-> r,
                                   seq |-> seq[r] + 1, hits |-> n[r]]}
    /\ UNCHANGED <<held, n, usedBytes, overflow, result, redisVars, recorded>>

CallOf(r) == [kind |-> "flush", from |-> r,
              seq |-> batch[r].seq, hits |-> batch[r].hits]

(***************************************************************************)
(* A batch without an acknowledgment goes again with the same number.      *)
(***************************************************************************)
RetryBatch(r) ==
    /\ batch[r] # NoBatch
    /\ Move(r, "batch", "flushing")
    /\ requests' = requests \cup {CallOf(r)}
    /\ UNCHANGED <<localVars, seq, batch, result, redisVars, recorded>>

SendSaturate(r) ==
    /\ Move(r, "saturate", "saturating")
    /\ requests' = requests \cup {[kind |-> "saturate", from |-> r]}
    /\ UNCHANGED <<localVars, seq, batch, result, redisVars, recorded>>

(***************************************************************************)
(* The call fails: a timeout, a closed connection, a canceled context. The *)
(* replica keeps all its state, the batch included.                        *)
(***************************************************************************)
DropOnFailure(r) ==  \* mutant
    /\ phase[r] \in {"flushing", "saturating"}
    /\ phase' = [phase EXCEPT ![r] = "idle"]
    /\ batch' = [batch EXCEPT ![r] = NoBatch]
    /\ UNCHANGED <<localVars, seq, result, redisVars, requests, recorded>>

FlushFails(r) ==
    /\ phase[r] \in {"flushing", "saturating"}
    /\ phase' = [phase EXCEPT ![r] = "idle"]
    /\ UNCHANGED <<localVars, seq, batch, result, redisVars, requests, recorded>>

KeepBatch(r) == UNCHANGED <<batch, sent>>  \* mutant

KeepOnlyBatch(r) ==  \* mutant
    /\ UNCHANGED batch
    /\ sent' = [sent EXCEPT ![r] = NoHits]

DropBatch(r) ==
    /\ batch' = [batch EXCEPT ![r] = NoBatch]
    /\ sent' = [sent EXCEPT ![r] = NoHits]

LeaveNone(r) == NoHits  \* mutant

Left(r) == [k \in Keys |-> n[r][k] - sent[r][k]]

(***************************************************************************)
(* The reply is back: the batch is acknowledged whatever the script        *)
(* returned, and keys without other hits leave the map.                    *)
(***************************************************************************)
Acknowledge(r) ==
    LET gone == {k \in held[r] : Left(r)[k] = 0}
    IN  /\ Move(r, "applied", "idle")
        /\ DropBatch(r)
        /\ n' = [n EXCEPT ![r] = Left(r)]
        /\ held' = [held EXCEPT ![r] = @ \ gone]
        /\ usedBytes' = [usedBytes EXCEPT
               ![r] = @ - MapThenSumSet(LAMBDA k : LocalCost[k], gone)]
        /\ result' = [result EXCEPT ![r] = 0]
        /\ UNCHANGED <<overflow, seq, redisVars, requests, recorded>>

(***************************************************************************)
(* Redis is saturated for sure: the replica starts again from nothing.     *)
(***************************************************************************)
ClearLocal(r) ==
    /\ Move(r, "cleared", "idle")
    /\ held' = [held EXCEPT ![r] = {}]
    /\ n' = [n EXCEPT ![r] = NoHits]
    /\ usedBytes' = [usedBytes EXCEPT ![r] = 0]
    /\ overflow' = [overflow EXCEPT ![r] = FALSE]
    /\ DropBatch(r)
    /\ UNCHANGED <<seq, result, redisVars, requests, recorded>>

-----------------------------------------------------------------------------
(***************************************************************************)
(* Redis runs each script atomically.                                      *)
(***************************************************************************)
ChargeAll(m) ==  \* mutant
    used + MapThenSumSet(LAMBDA k : RedisCost[k], {k \in Keys : m.hits[k] > 0})

NewUsed(m) ==
    used + MapThenSumSet(LAMBDA k : RedisCost[k],
                         {k \in Keys : m.hits[k] > 0 /\ counts[k] = 0})

SharedKey(r) == CHOOSE s \in Replicas : TRUE  \* mutant

\* rand.Text: a process that starts again has another key, and counts from 1.
SeqKey(r) == r

AppliedLater(m) == lastSeq[SeqKey(m.from)] > m.seq  \* mutant

AlreadyApplied(m) == lastSeq[SeqKey(m.from)] >= m.seq

\* The unacknowledged batch of a replica is in Redis.
Applied(r) == batch[r] # NoBatch /\ lastSeq[SeqKey(r)] >= batch[r].seq

FitsBefore(m) == ~(used > MaxBytes)  \* mutant

Fits(m) == ~(NewUsed(m) > MaxBytes)

WipeOnly ==  \* mutant
    /\ counts' = NoHits
    /\ used' = 0
    /\ UNCHANGED <<saturated, lastSeq>>

WipeAndSaturate ==
    /\ saturated' = TRUE
    /\ counts' = NoHits
    /\ used' = 0
    /\ UNCHANGED lastSeq

ApplyBatch(m) ==
    /\ counts' = [k \in Keys |-> counts[k] + m.hits[k]]
    /\ used' = NewUsed(m)
    /\ lastSeq' = [lastSeq EXCEPT ![SeqKey(m.from)] = m.seq]
    /\ UNCHANGED saturated

(***************************************************************************)
(* flushScript, with what it returns.                                      *)
(***************************************************************************)
FlushScript(m, res) ==
    \/ /\ saturated
       /\ res = 1
       /\ UNCHANGED redisVars
    \/ /\ ~saturated
       /\ AlreadyApplied(m)
       /\ res = 0
       /\ UNCHANGED redisVars
    \/ /\ ~saturated
       /\ ~AlreadyApplied(m)
       /\ ~Fits(m)
       /\ res = 2
       /\ WipeAndSaturate
    \/ /\ ~saturated
       /\ ~AlreadyApplied(m)
       /\ Fits(m)
       /\ res = 0
       /\ ApplyBatch(m)

(***************************************************************************)
(* The reply reaches a sender that still waits for it, or it gets lost.    *)
(***************************************************************************)
Reply(r, waitsIn, to, res) ==
    \/ UNCHANGED <<phase, result>>
    \/ /\ Move(r, waitsIn, to)
       /\ result' = [result EXCEPT ![r] = res]

(***************************************************************************)
(* A request that stays is another attempt of the same call.               *)
(***************************************************************************)
Deliver(m) == requests' \in {requests, requests \ {m}}

RunFlushScript(m) ==
    /\ m.kind = "flush"
    /\ Deliver(m)
    /\ \E res \in 0..2 :
          /\ FlushScript(m, res)
          /\ IF batch[m.from].seq = m.seq
             THEN Reply(m.from, "flushing", "applied", res)
             ELSE UNCHANGED <<phase, result>>
    /\ UNCHANGED <<localVars, seq, batch, recorded>>

RunSaturateScript(m) ==
    /\ m.kind = "saturate"
    /\ Deliver(m)
    /\ WipeAndSaturate
    /\ Reply(m.from, "saturating", "cleared", 0)
    /\ UNCHANGED <<localVars, seq, batch, recorded>>

LoseRequest(m) ==
    /\ requests' = requests \ {m}
    /\ UNCHANGED <<localVars, flushVars, redisVars, recorded>>

-----------------------------------------------------------------------------
(***************************************************************************)
(* A killed process. Its memory stays as it was and nobody reads it.       *)
(***************************************************************************)
Crash(r) ==
    /\ r \in Mortal
    /\ Alive(r)
    /\ phase' = [phase EXCEPT ![r] = "down"]
    /\ UNCHANGED <<localVars, seq, batch, result, redisVars, requests, recorded>>

(***************************************************************************)
(* The TTL of a seq key ends, a day after its last batch was applied. A    *)
(* batch that was not applied can wait meanwhile. The comment on           *)
(* batchSeqTTLSeconds excludes an applied batch that is not acknowledged   *)
(* for so long, and so does this; and no call is on its way for so long.   *)
(***************************************************************************)
ExpireSeq(r) ==
    /\ lastSeq[SeqKey(r)] > 0
    /\ ~Applied(r)
    /\ \A m \in requests :
          m.kind = "flush" /\ m.from = r => m.seq > lastSeq[SeqKey(r)]
    /\ lastSeq' = [lastSeq EXCEPT ![SeqKey(r)] = 0]
    /\ UNCHANGED <<localVars, flushVars, counts, used, saturated, requests, recorded>>

Record(r, k) == RecordHit(r, k) \/ RecordOverflows(r, k) \/ RecordIgnored(r, k)

FlushStep(r) ==
    \/ BeginFlush(r)
    \/ NothingPending(r)
    \/ NextBatch(r)
    \/ RetryBatch(r)
    \/ SendSaturate(r)
    \/ Acknowledge(r)
    \/ ClearLocal(r)

Run(m) == RunFlushScript(m) \/ RunSaturateScript(m)

Next ==
    \/ \E r \in Replicas, k \in Keys : Record(r, k)
    \/ \E r \in Replicas : FlushStep(r) \/ FlushFails(r) \/ Crash(r) \/ ExpireSeq(r)
    \/ \E m \in requests : Run(m) \/ LoseRequest(m)

Spec == Init /\ [][Next]_vars

-----------------------------------------------------------------------------
(***************************************************************************)
(* What the replicas and Redis implement together. A hit waits while it is *)
(* in n and Redis did not apply it: an applied batch stops waiting at that *)
(* moment, although its replica does not know it yet.                      *)
(***************************************************************************)
Waiting(r) ==
    [k \in Keys |-> n[r][k] - IF Applied(r) THEN sent[r][k] ELSE 0]

Contract == INSTANCE StatsStore WITH
    Requests <- Keys,
    Stores   <- Replicas,
    visible  <- counts,
    waiting  <- [r \in Replicas |-> Waiting(r)]

(***************************************************************************)
(* Type invariant. The two byte counters are sums: see BudgetExact.        *)
(***************************************************************************)
TypeOK ==
    /\ held \in [Replicas -> SUBSET Keys]
    /\ n \in [Replicas -> Tally]
    /\ sent \in [Replicas -> Tally]
    /\ overflow \in [Replicas -> BOOLEAN]
    /\ seq \in [Replicas -> Nat]
    /\ batch \in [Replicas -> {NoBatch} \cup [seq : Nat \ {0}, hits : Tally]]
    /\ phase \in [Replicas -> Phases]
    /\ result \in [Replicas -> 0..2]
    /\ counts \in Tally
    /\ saturated \in BOOLEAN
    /\ lastSeq \in [Replicas -> Nat]
    /\ requests \subseteq FlushRequest \cup SaturateRequest
    /\ recorded \in Tally

(***************************************************************************)
(* flushMu and the numbers: a replica has one batch, its newest. The batch *)
(* is the part of the pending hits that is marked as sent, so subtracting  *)
(* sent from n never wraps around in the uint64 of the code.               *)
(***************************************************************************)
BatchIsSent ==
    \A r \in Replicas :
        /\ lastSeq[r] <= seq[r]
        /\ \A k \in Keys : sent[r][k] <= n[r][k]
        /\ IF batch[r] = NoBatch THEN sent[r] = NoHits
           ELSE batch[r].seq = seq[r] /\ batch[r].hits = sent[r]
        /\ phase[r] \in {"flushing", "applied"} => batch[r] # NoBatch

(***************************************************************************)
(* A reply tells the truth: a replica that drops its batch knows that the  *)
(* batch is applied, or that Redis is saturated for ever.                  *)
(***************************************************************************)
RepliesAreTrue ==
    \A r \in Replicas :
        /\ phase[r] = "applied" => Applied(r) \/ saturated
        /\ phase[r] = "cleared" => saturated

(***************************************************************************)
(* A flush call that is still on its way can no longer change a count,     *)
(* unless it is the unacknowledged batch of its replica, unchanged.        *)
(***************************************************************************)
IsBatch(m) == batch[m.from] # NoBatch /\ m = CallOf(m.from)

LateCallsAreHarmless ==
    \A m \in requests :
        m.kind = "flush" =>
            /\ m.seq > 0
            /\ m.seq <= seq[m.from]
            /\ saturated \/ m.seq <= lastSeq[m.from] \/ IsBatch(m)
            /\ batch[m.from].seq = m.seq => IsBatch(m)

ExactlyOnceInv == BatchIsSent /\ RepliesAreTrue /\ LateCallsAreHarmless

(***************************************************************************)
(* "Redis counts each batch exactly one time" (redis_store.go:124). With   *)
(* lost replies, late and repeated calls, failed flushes and killed        *)
(* replicas, each hit moves one time from waiting to visible, or the store *)
(* is saturated and stays so: the replicas implement StatsStore.           *)
(***************************************************************************)
ExactlyOnce == Contract!Spec

Total(f, S) == MapThenSumSet(LAMBDA x : f[x], S)

(***************************************************************************)
(* While no replica overflowed and Redis is not saturated, each Record     *)
(* call is in Redis or waits in the memory of the replica that took it. So *)
(* a killed replica loses what waited there and nothing else.              *)
(***************************************************************************)
NoHitLost ==
    ~saturated /\ (\A r \in Replicas : ~overflow[r]) =>
        \A k \in Keys :
            recorded[k] = counts[k]
                + Total([r \in Replicas |-> Waiting(r)[k]], Replicas)

(***************************************************************************)
(* The two budgets: each byte counter is the cost of exactly the keys that *)
(* are there, through retries and acknowledgments ("a key uses the local   *)
(* budget one time, also while a batch waits for a retry",                 *)
(* redis_store.go:80), and never exceeds the budget.                       *)
(***************************************************************************)
BudgetExact ==
    /\ \A r \in Replicas :
          /\ held[r] = {k \in Keys : n[r][k] > 0}
          /\ usedBytes[r] = Total(LocalCost, held[r])
          /\ held[r] # {} => usedBytes[r] <= MaxBytes
    /\ used = Total(RedisCost, {k \in Keys : counts[k] > 0})
    /\ counts # NoHits => used <= MaxBytes

(***************************************************************************)
(* "If the pending keys exceed the budget, Redis certainly exceeds it too" *)
(* (redis_store.go:100): /stats gets unavailable only when all different   *)
(* requests together do not fit in the budget of Redis.                    *)
(***************************************************************************)
SaturationIsJustified ==
    saturated \/ (\E r \in Replicas : overflow[r]) =>
        Total(RedisCost, {k \in Keys : recorded[k] > 0}) > MaxBytes

-----------------------------------------------------------------------------
(***************************************************************************)
(* Fairness. Each replica runs the steps of a Flush and begins the next    *)
(* one (the ticker of flushLoop), so those steps are weakly fair. Calls    *)
(* may fail for any time, but not for ever: a replica that calls again and *)
(* again gets a reply in the end.                                          *)
(***************************************************************************)
Answered(r) ==
    /\ \E m \in requests : m.from = r /\ Run(m)
    /\ phase'[r] \in {"applied", "cleared"}

Fairness ==
    \A r \in Replicas :
        WF_vars(FlushStep(r)) /\ WF_vars(FlushFails(r)) /\ SF_vars(Answered(r))

FairSpec == Spec /\ Fairness

(***************************************************************************)
(* No hit waits for ever: when the traffic ends, each live replica gets    *)
(* all its hits acknowledged, or the store saturates. An outage of any     *)
(* length only delays hits (TestRedisOutage), and the lost reply of one    *)
(* batch does not block the next batch.                                    *)
(***************************************************************************)
NoHitWaitsForever ==
    <>[](saturated \/ \A r \in Replicas : Alive(r) => n[r] = NoHits)

=============================================================================
