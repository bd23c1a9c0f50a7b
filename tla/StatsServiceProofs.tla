------------------------- MODULE StatsServiceProofs -------------------------
(***************************************************************************)
(* Proofs about RedisStore and StatsService, for any number of replicas,   *)
(* keys and hits.                                                          *)
(*                                                                         *)
(* First the flush protocol of the store: the invariant of the batch       *)
(* numbers, and from it that the replicas and Redis implement StatsStore.  *)
(* Then the service around it: each of its steps is a step of the store or *)
(* leaves it alone, so the theorems of the store hold of the whole service.*)
(***************************************************************************)
EXTENDS StatsService, SumProofs

\* The key of a replica is the replica: lastSeq is read through it everywhere.
USE DEF SeqKey

IInv == TypeOK /\ ExactlyOnceInv

LEMMA FlushRequestType ==
    ASSUME TypeOK, NEW m \in requests, m.kind = "flush"
    PROVE  m \in FlushRequest
BY DEF TypeOK, FlushRequest, SaturateRequest

LEMMA SaturateRequestType ==
    ASSUME TypeOK, NEW m \in requests, m.kind = "saturate"
    PROVE  m \in SaturateRequest
BY DEF TypeOK, FlushRequest, SaturateRequest

(***************************************************************************)
(* The numbers and tallies that a batch and a call carry.                  *)
(***************************************************************************)
LEMMA BatchType ==
    ASSUME TypeOK, NEW r \in Replicas
    PROVE  /\ batch[r] # NoBatch =>
                 /\ batch[r] \in [seq : Nat \ {0}, hits : Tally]
                 /\ CallOf(r) \in FlushRequest
           /\ n[r] \in Tally /\ sent[r] \in Tally
           /\ seq[r] \in Nat /\ lastSeq[r] \in Nat
BY DEF TypeOK, CallOf, FlushRequest

THEOREM InitEstablishes == Init => IInv
<1> SUFFICES ASSUME Init PROVE IInv
  OBVIOUS
<1>1. NoHits \in Tally
  BY DEF NoHits, Tally
<1>2. TypeOK
  <2>1. held \in [Replicas -> SUBSET Keys] /\ overflow \in [Replicas -> BOOLEAN]
    BY DEF Init
  <2>2. n \in [Replicas -> Tally] /\ sent \in [Replicas -> Tally]
    BY <1>1 DEF Init
  <2>3. /\ seq \in [Replicas -> Nat]
        /\ result \in [Replicas -> 0..2]
        /\ lastSeq \in [Replicas -> Nat]
    BY DEF Init
  <2>4. /\ batch \in [Replicas -> {NoBatch}]
        /\ phase \in [Replicas -> {"idle"}]
    BY DEF Init
  <2>5. /\ counts \in Tally
        /\ saturated \in BOOLEAN
        /\ requests = {}
        /\ recorded \in Tally
    BY <1>1 DEF Init
  <2> QED
    BY <2>1, <2>2, <2>3, <2>4, <2>5 DEF TypeOK, Phases
<1>3. ExactlyOnceInv
  BY <1>1 DEF Init, ExactlyOnceInv, BatchIsSent, RepliesAreTrue,
     LateCallsAreHarmless, NoHits
<1> QED
  BY <1>2, <1>3 DEF IInv

-----------------------------------------------------------------------------
(***************************************************************************)
(* Only Run, NextBatch, Acknowledge, ClearLocal and ExpireSeq change what  *)
(* ExactlyOnceInv relates. Record only adds to n.                          *)
(***************************************************************************)
LEMMA RecordKeeps ==
    ASSUME IInv, NEW r \in Replicas, NEW k \in Keys, Record(r, k)
    PROVE  IInv'
<1> USE DEF IInv
<1>1. /\ UNCHANGED <<sent, flushVars, redisVars, requests>>
      /\ recorded' = [recorded EXCEPT ![k] = @ + 1]
  BY DEF Record, RecordHit, RecordOverflows, RecordIgnored, Recorded, localVars
<1>2. recorded' \in Tally
  BY <1>1 DEF TypeOK, Tally
<1>3. n' = n \/ n' = [n EXCEPT ![r][k] = @ + 1]
  BY DEF Record, RecordHit, RecordOverflows, RecordIgnored, localVars
<1> DEFINE more == [n[r] EXCEPT ![k] = @ + 1]
<1>4. more \in Tally /\ \A x \in Keys : more[x] >= n[r][x]
  <2>1. n[r] \in [Keys -> Nat]
    BY DEF TypeOK, Tally
  <2> QED
    BY <2>1 DEF Tally
<1>5. n' = n \/ n' = [n EXCEPT ![r] = more]
  BY <1>3
<1> HIDE DEF more
<1>6. /\ n' \in [Replicas -> Tally]
      /\ \A s \in Replicas : \A x \in Keys : sent[s][x] <= n'[s][x]
  <2>1. \A s \in Replicas : n[s] \in [Keys -> Nat] /\ sent[s] \in [Keys -> Nat]
    BY DEF TypeOK, Tally
  <2>2. \A s \in Replicas : \A x \in Keys : sent[s][x] <= n[s][x]
    BY DEF ExactlyOnceInv, BatchIsSent
  <2>3. n' \in [Replicas -> Tally]
    BY <1>4, <1>5 DEF TypeOK
  <2>4. ASSUME NEW s \in Replicas, NEW x \in Keys PROVE sent[s][x] <= n'[s][x]
    <3>1. n'[s] = n[s] \/ (s = r /\ n'[s] = more)
      BY <1>5 DEF TypeOK
    <3>2. n'[s][x] \in Nat /\ n'[s][x] >= n[s][x]
      BY <1>4, <2>1, <3>1 DEF Tally
    <3> QED
      BY <2>1, <2>2, <3>2
  <2> QED
    BY <2>3, <2>4
<1>7. held' \in [Replicas -> SUBSET Keys] /\ overflow' \in [Replicas -> BOOLEAN]
  <2>1. \/ held' = held
        \/ held' = [held EXCEPT ![r] = @ \cup {k}]
    BY DEF Record, RecordHit, RecordOverflows, RecordIgnored, localVars
  <2>2. overflow' = overflow \/ overflow' = [overflow EXCEPT ![r] = TRUE]
    BY DEF Record, RecordHit, RecordOverflows, RecordIgnored, localVars
  <2>3. held' \in [Replicas -> SUBSET Keys]
    BY <2>1 DEF TypeOK
  <2>4. overflow' \in [Replicas -> BOOLEAN]
    BY <2>2 DEF TypeOK
  <2> QED
    BY <2>3, <2>4
<1>8. TypeOK'
  BY <1>1, <1>2, <1>6, <1>7 DEF TypeOK, flushVars, redisVars
<1>9. ExactlyOnceInv'
  <2>1. BatchIsSent'
    BY <1>1, <1>6 DEF ExactlyOnceInv, BatchIsSent, flushVars, redisVars
  <2>2. RepliesAreTrue'
    BY <1>1 DEF ExactlyOnceInv, RepliesAreTrue, Applied, flushVars, redisVars
  <2>3. LateCallsAreHarmless'
    BY <1>1 DEF ExactlyOnceInv, LateCallsAreHarmless, IsBatch, CallOf,
       flushVars, redisVars
  <2> QED
    BY <2>1, <2>2, <2>3 DEF ExactlyOnceInv
<1> QED
  BY <1>8, <1>9

(***************************************************************************)
(* The steps of a Flush that only move its phase and send the batch again, *)
(* a failed call, a lost request and a killed process.                     *)
(***************************************************************************)
LEMMA QuietStepKeeps ==
    ASSUME IInv, NEW r \in Replicas, NEW ph \in Phases \ {"applied", "cleared"},
           UNCHANGED <<localVars, seq, batch, result, redisVars, recorded>>,
           phase' = phase \/ phase' = [phase EXCEPT ![r] = ph],
           ph = "flushing" => batch[r] # NoBatch,
           \A m \in requests' :
               \/ m \in requests
               \/ m = [kind |-> "saturate", from |-> r]
               \/ batch[r] # NoBatch /\ m = CallOf(r)
    PROVE  IInv'
<1> USE DEF IInv, localVars, redisVars
<1>1. phase' \in [Replicas -> Phases]
  BY DEF TypeOK
<1>2. requests' \subseteq FlushRequest \cup SaturateRequest
  BY BatchType DEF TypeOK, SaturateRequest
<1>3. TypeOK'
  BY <1>1, <1>2 DEF TypeOK
<1>4. \A s \in Replicas : phase'[s] = phase[s] \/ (s = r /\ phase'[s] = ph)
  BY DEF TypeOK
<1>5. BatchIsSent'
  BY <1>4 DEF ExactlyOnceInv, BatchIsSent
<1>6. RepliesAreTrue'
  BY <1>4 DEF ExactlyOnceInv, RepliesAreTrue, Applied
<1>7. LateCallsAreHarmless'
  <2> SUFFICES ASSUME NEW m \in requests', m.kind = "flush"
               PROVE  /\ m.seq > 0
                      /\ m.seq <= seq[m.from]
                      /\ saturated \/ m.seq <= lastSeq[m.from] \/ IsBatch(m)
                      /\ batch[m.from].seq = m.seq => IsBatch(m)
    BY DEF LateCallsAreHarmless, IsBatch, CallOf
  <2>1. CASE m \in requests
    BY <2>1 DEF ExactlyOnceInv, LateCallsAreHarmless
  <2>2. CASE batch[r] # NoBatch /\ m = CallOf(r)
    <3>1. m.from = r /\ m.seq = batch[r].seq /\ m.seq = seq[r]
      BY <2>2 DEF CallOf, ExactlyOnceInv, BatchIsSent
    <3>2. m.seq \in Nat \ {0}
      BY <2>2, <3>1, BatchType
    <3>3. IsBatch(m)
      BY <2>2, <3>1 DEF IsBatch
    <3> QED
      BY <3>1, <3>2, <3>3, BatchType
  <2> QED
    BY <2>1, <2>2
<1> QED
  BY <1>3, <1>5, <1>6, <1>7 DEF ExactlyOnceInv

LEMMA NextBatchKeeps ==
    ASSUME IInv, NEW r \in Replicas, NextBatch(r)
    PROVE  IInv'
<1> USE DEF IInv
<1> DEFINE b == [seq |-> seq[r] + 1, hits |-> n[r]]
<1> DEFINE call == [kind |-> "flush", from |-> r, seq |-> b.seq, hits |-> b.hits]
<1>1. /\ batch[r] = NoBatch
      /\ phase' = [phase EXCEPT ![r] = "flushing"]
      /\ sent' = [sent EXCEPT ![r] = n[r]]
      /\ seq' = [seq EXCEPT ![r] = @ + 1]
      /\ batch' = [batch EXCEPT ![r] = b]
      /\ requests' = requests \cup {call}
      /\ UNCHANGED <<held, n, usedBytes, overflow, result, redisVars, recorded>>
  BY DEF NextBatch, Move
<1>2. /\ b \in [seq : Nat \ {0}, hits : Tally]
      /\ call \in FlushRequest
      /\ b # NoBatch
  BY BatchType DEF FlushRequest, NoBatch
<1>3. TypeOK'
  <2>1. sent' \in [Replicas -> Tally]
    BY <1>1, BatchType DEF TypeOK
  <2>2. seq' \in [Replicas -> Nat]
    BY <1>1 DEF TypeOK
  <2>3. batch' \in [Replicas -> {NoBatch} \cup [seq : Nat \ {0}, hits : Tally]]
    BY <1>1, <1>2 DEF TypeOK
  <2>4. phase' \in [Replicas -> Phases]
    BY <1>1 DEF TypeOK, Phases
  <2>5. requests' \subseteq FlushRequest \cup SaturateRequest
    BY <1>1, <1>2 DEF TypeOK
  <2> QED
    BY <1>1, <2>1, <2>2, <2>3, <2>4, <2>5 DEF TypeOK, redisVars
<1>4. /\ batch'[r] = b /\ sent'[r] = n[r] /\ seq'[r] = b.seq
      /\ phase'[r] = "flushing"
      /\ \A s \in Replicas \ {r} :
            /\ batch'[s] = batch[s] /\ sent'[s] = sent[s]
            /\ seq'[s] = seq[s] /\ phase'[s] = phase[s]
  BY <1>1 DEF TypeOK
<1>5. b.seq = seq[r] + 1 /\ b.hits = n[r]
  OBVIOUS
<1>6. UNCHANGED <<n, lastSeq, saturated>>
  BY <1>1 DEF redisVars
<1> HIDE DEF b
<1>7. BatchIsSent'
  <2> SUFFICES ASSUME NEW s \in Replicas
               PROVE  /\ lastSeq[s] <= seq'[s]
                      /\ \A k \in Keys : sent'[s][k] <= n[s][k]
                      /\ IF batch'[s] = NoBatch THEN sent'[s] = NoHits
                         ELSE batch'[s].seq = seq'[s] /\ batch'[s].hits = sent'[s]
                      /\ phase'[s] \in {"flushing", "applied"} => batch'[s] # NoBatch
    BY <1>6 DEF BatchIsSent
  <2>1. CASE s = r
    <3>1. lastSeq[r] <= seq'[r]
      BY <1>4, <1>5, BatchType DEF ExactlyOnceInv, BatchIsSent
    <3>2. \A k \in Keys : sent'[r][k] <= n[r][k]
      BY <1>4, BatchType DEF Tally
    <3> QED
      BY <1>2, <1>4, <1>5, <2>1, <3>1, <3>2
  <2>2. CASE s # r
    BY <1>4, <2>2 DEF ExactlyOnceInv, BatchIsSent
  <2> QED
    BY <2>1, <2>2
<1>8. RepliesAreTrue'
  BY <1>4, <1>6 DEF ExactlyOnceInv, RepliesAreTrue, Applied
<1>9. LateCallsAreHarmless'
  <2> SUFFICES ASSUME NEW m \in requests', m.kind = "flush"
               PROVE  /\ m.seq > 0
                      /\ m.seq <= seq'[m.from]
                      /\ saturated \/ m.seq <= lastSeq[m.from] \/ IsBatch(m)'
                      /\ batch'[m.from].seq = m.seq => IsBatch(m)'
    BY <1>6 DEF LateCallsAreHarmless
  <2>1. CASE m = call
    <3>1. m.from = r /\ m.seq = b.seq /\ m.hits = b.hits
      BY <2>1
    <3>2. IsBatch(m)'
      BY <1>2, <1>4, <2>1, <3>1 DEF IsBatch, CallOf
    <3> QED
      BY <1>4, <1>5, <3>1, <3>2, BatchType
  <2>2. CASE m \in requests /\ m.from = r
    <3>1. /\ m.seq > 0 /\ m.seq <= seq[r]
          /\ saturated \/ m.seq <= lastSeq[r]
      BY <1>1, <2>2 DEF ExactlyOnceInv, LateCallsAreHarmless, IsBatch
    <3>2. m.seq \in Nat
      BY <2>2, FlushRequestType DEF FlushRequest
    <3> QED
      BY <1>4, <1>5, <2>2, <3>1, <3>2, BatchType
  <2>3. CASE m \in requests /\ m.from # r
    <3>1. m.from \in Replicas
      BY <2>3, FlushRequestType DEF FlushRequest
    <3>2. IsBatch(m)' <=> IsBatch(m)
      BY <1>4, <2>3, <3>1 DEF IsBatch, CallOf
    <3> QED
      BY <1>4, <2>3, <3>1, <3>2 DEF ExactlyOnceInv, LateCallsAreHarmless
  <2> QED
    BY <1>1, <2>1, <2>2, <2>3
<1> QED
  BY <1>3, <1>7, <1>8, <1>9 DEF ExactlyOnceInv

(***************************************************************************)
(* Acknowledge and ClearLocal: the batch goes, and Redis has it or is      *)
(* saturated, so a late call of it cannot matter.                          *)
(***************************************************************************)
LEMMA DropKeeps ==
    ASSUME IInv, NEW r \in Replicas, DropBatch(r),
           saturated \/ Applied(r) \/ batch[r] = NoBatch,
           NEW left \in Tally,
           n' = [n EXCEPT ![r] = left],
           phase' = [phase EXCEPT ![r] = "idle"],
           held' \in [Replicas -> SUBSET Keys],
           overflow' \in [Replicas -> BOOLEAN],
           result' \in [Replicas -> 0..2],
           UNCHANGED <<seq, redisVars, requests, recorded>>
    PROVE  IInv'
<1> USE DEF IInv
<1>1. /\ batch' = [batch EXCEPT ![r] = NoBatch]
      /\ sent' = [sent EXCEPT ![r] = NoHits]
  BY DEF DropBatch
<1>2. NoHits \in Tally
  BY DEF NoHits, Tally
<1>3. TypeOK'
  <2>1. n' \in [Replicas -> Tally] /\ sent' \in [Replicas -> Tally]
    BY <1>1, <1>2 DEF TypeOK
  <2>2. batch' \in [Replicas -> {NoBatch} \cup [seq : Nat \ {0}, hits : Tally]]
    BY <1>1 DEF TypeOK
  <2>3. phase' \in [Replicas -> Phases]
    BY DEF TypeOK, Phases
  <2> QED
    BY <2>1, <2>2, <2>3 DEF TypeOK, redisVars
<1>4. /\ batch'[r] = NoBatch /\ sent'[r] = NoHits /\ n'[r] = left
      /\ phase'[r] = "idle"
      /\ \A s \in Replicas \ {r} :
            /\ batch'[s] = batch[s] /\ sent'[s] = sent[s] /\ n'[s] = n[s]
            /\ phase'[s] = phase[s]
  BY <1>1 DEF TypeOK
<1>5. UNCHANGED <<seq, lastSeq, saturated, requests>>
  BY DEF redisVars
<1>6. BatchIsSent'
  <2> SUFFICES ASSUME NEW s \in Replicas
               PROVE  /\ lastSeq[s] <= seq[s]
                      /\ \A k \in Keys : sent'[s][k] <= n'[s][k]
                      /\ IF batch'[s] = NoBatch THEN sent'[s] = NoHits
                         ELSE batch'[s].seq = seq[s] /\ batch'[s].hits = sent'[s]
                      /\ phase'[s] \in {"flushing", "applied"} => batch'[s] # NoBatch
    BY <1>5 DEF BatchIsSent
  <2>1. \A k \in Keys : NoHits[k] <= left[k]
    BY DEF NoHits, Tally
  <2>2. CASE s = r
    BY <1>4, <2>1, <2>2 DEF ExactlyOnceInv, BatchIsSent
  <2>3. CASE s # r
    BY <1>4, <2>3 DEF ExactlyOnceInv, BatchIsSent
  <2> QED
    BY <2>2, <2>3
<1>7. RepliesAreTrue'
  BY <1>4, <1>5 DEF ExactlyOnceInv, RepliesAreTrue, Applied
<1>8. LateCallsAreHarmless'
  <2> SUFFICES ASSUME NEW m \in requests, m.kind = "flush"
               PROVE  /\ m.seq > 0
                      /\ m.seq <= seq[m.from]
                      /\ saturated \/ m.seq <= lastSeq[m.from] \/ IsBatch(m)'
                      /\ batch'[m.from].seq = m.seq => IsBatch(m)'
    BY <1>5 DEF LateCallsAreHarmless
  <2>1. m.from \in Replicas /\ m.seq \in Nat
    BY FlushRequestType DEF FlushRequest
  <2>2. /\ m.seq > 0
        /\ m.seq <= seq[m.from]
        /\ saturated \/ m.seq <= lastSeq[m.from] \/ IsBatch(m)
        /\ batch[m.from].seq = m.seq => IsBatch(m)
    BY DEF ExactlyOnceInv, LateCallsAreHarmless
  <2>3. CASE m.from = r
    <3>1. batch'[m.from].seq # m.seq
      BY <1>4, <2>1, <2>2, <2>3 DEF NoBatch
    <3>2. IsBatch(m) => saturated \/ m.seq <= lastSeq[r]
      BY <2>3 DEF IsBatch, CallOf, Applied
    <3> QED
      BY <2>2, <2>3, <3>1, <3>2
  <2>4. CASE m.from # r
    <3>1. IsBatch(m)' <=> IsBatch(m)
      BY <1>4, <2>1, <2>4 DEF IsBatch, CallOf
    <3> QED
      BY <1>4, <2>1, <2>2, <2>4, <3>1
  <2> QED
    BY <2>3, <2>4
<1> QED
  BY <1>3, <1>6, <1>7, <1>8 DEF ExactlyOnceInv

LEMMA AcknowledgeKeeps ==
    ASSUME IInv, NEW r \in Replicas, Acknowledge(r)
    PROVE  IInv'
<1> USE DEF IInv
<1>1. phase[r] = "applied"
  BY DEF Acknowledge, Move
<1>2. saturated \/ Applied(r)
  BY <1>1 DEF ExactlyOnceInv, RepliesAreTrue
<1>3. Left(r) \in Tally
  <2>1. \A k \in Keys : n[r][k] - sent[r][k] \in Nat
    BY BatchType DEF ExactlyOnceInv, BatchIsSent, Tally
  <2> QED
    BY <2>1 DEF Left, Tally
<1>4. /\ DropBatch(r)
      /\ n' = [n EXCEPT ![r] = Left(r)]
      /\ phase' = [phase EXCEPT ![r] = "idle"]
      /\ UNCHANGED <<overflow, seq, redisVars, requests, recorded>>
  BY DEF Acknowledge, Move
<1>5. held' \in [Replicas -> SUBSET Keys]
  <2>1. \E old \in SUBSET Keys : held' = [held EXCEPT ![r] = @ \ old]
    BY DEF Acknowledge, TypeOK
  <2> QED
    BY <2>1 DEF TypeOK
<1>6. result' \in [Replicas -> 0..2]
  BY DEF Acknowledge, TypeOK
<1>7. overflow' \in [Replicas -> BOOLEAN]
  BY <1>4 DEF TypeOK
<1> QED
  BY <1>2, <1>3, <1>4, <1>5, <1>6, <1>7, DropKeeps

LEMMA ClearLocalKeeps ==
    ASSUME IInv, NEW r \in Replicas, ClearLocal(r)
    PROVE  IInv'
<1> USE DEF IInv
<1>1. saturated
  BY DEF ClearLocal, Move, ExactlyOnceInv, RepliesAreTrue
<1>2. NoHits \in Tally
  BY DEF NoHits, Tally
<1>3. /\ DropBatch(r)
      /\ n' = [n EXCEPT ![r] = NoHits]
      /\ phase' = [phase EXCEPT ![r] = "idle"]
      /\ UNCHANGED <<seq, result, redisVars, requests, recorded>>
  BY DEF ClearLocal, Move
<1>4. /\ held' \in [Replicas -> SUBSET Keys]
      /\ overflow' \in [Replicas -> BOOLEAN]
      /\ result' \in [Replicas -> 0..2]
  BY DEF ClearLocal, TypeOK
<1> QED
  BY <1>1, <1>2, <1>3, <1>4, DropKeeps

(***************************************************************************)
(* The batch that waits while a key expires is not applied. Before and     *)
(* after, only the calls of that batch have a number that Redis would      *)
(* accept, or Redis is saturated.                                          *)
(***************************************************************************)
LEMMA ExpireSeqKeeps ==
    ASSUME IInv, NEW r \in Replicas, ExpireSeq(r)
    PROVE  IInv'
<1> USE DEF IInv
<1>1. /\ ~Applied(r)
      /\ \A m \in requests : m.kind = "flush" /\ m.from = r => m.seq > lastSeq[r]
      /\ lastSeq' = [lastSeq EXCEPT ![r] = 0]
      /\ UNCHANGED <<localVars, flushVars, counts, used, saturated, requests, recorded>>
  BY DEF ExpireSeq
<1>2. lastSeq' \in [Replicas -> Nat] /\ lastSeq'[r] = 0
  BY <1>1 DEF TypeOK
<1>3. \A s \in Replicas \ {r} : lastSeq'[s] = lastSeq[s]
  BY <1>1 DEF TypeOK
<1>4. UNCHANGED <<n, sent, seq, batch, phase, saturated, requests>>
  BY <1>1 DEF localVars, flushVars
<1>5. TypeOK'
  BY <1>1, <1>2 DEF TypeOK, localVars, flushVars
<1>6. BatchIsSent'
  BY <1>2, <1>3, <1>4, BatchType DEF ExactlyOnceInv, BatchIsSent
<1>7. RepliesAreTrue'
  <2>1. phase[r] = "applied" => saturated
    BY <1>1 DEF ExactlyOnceInv, RepliesAreTrue
  <2>2. \A s \in Replicas \ {r} : Applied(s)' <=> Applied(s)
    BY <1>3, <1>4 DEF Applied
  <2> QED
    BY <1>4, <2>1, <2>2 DEF ExactlyOnceInv, RepliesAreTrue
<1>8. LateCallsAreHarmless'
  <2> SUFFICES ASSUME NEW m \in requests, m.kind = "flush"
               PROVE  /\ m.seq > 0
                      /\ m.seq <= seq[m.from]
                      /\ saturated \/ m.seq <= lastSeq'[m.from] \/ IsBatch(m)
                      /\ batch[m.from].seq = m.seq => IsBatch(m)
    BY <1>4 DEF LateCallsAreHarmless, IsBatch, CallOf
  <2>1. m.from \in Replicas /\ m.seq \in Nat
    BY FlushRequestType DEF FlushRequest
  <2>2. /\ m.seq > 0
        /\ m.seq <= seq[m.from]
        /\ saturated \/ m.seq <= lastSeq[m.from] \/ IsBatch(m)
        /\ batch[m.from].seq = m.seq => IsBatch(m)
    BY DEF ExactlyOnceInv, LateCallsAreHarmless
  <2>3. CASE m.from = r
    <3>1. ~(m.seq <= lastSeq[r])
      BY <1>1, <2>1, <2>3, BatchType
    <3> QED
      BY <2>2, <2>3, <3>1
  <2>4. CASE m.from # r
    BY <1>3, <2>1, <2>2, <2>4
  <2> QED
    BY <2>3, <2>4
<1> QED
  BY <1>5, <1>6, <1>7, <1>8 DEF ExactlyOnceInv

(***************************************************************************)
(* What both scripts have in common: numbers only grow, saturation is for  *)
(* ever, and the reply that a replica gets is true.                        *)
(***************************************************************************)
LEMMA RedisStepKeeps ==
    ASSUME IInv,
           UNCHANGED <<localVars, seq, batch, recorded>>,
           result' \in [Replicas -> 0..2],
           phase' \in [Replicas -> Phases],
           counts' \in Tally,
           saturated' \in BOOLEAN,
           saturated => saturated',
           lastSeq' \in [Replicas -> Nat],
           \A r \in Replicas : lastSeq[r] <= lastSeq'[r] /\ lastSeq'[r] <= seq[r],
           requests' \subseteq requests,
           \A r \in Replicas :
               \/ phase'[r] = phase[r]
               \/ /\ phase[r] = "flushing" /\ phase'[r] = "applied"
                  /\ saturated' \/ lastSeq'[r] >= batch[r].seq
               \/ phase'[r] = "cleared" /\ saturated'
    PROVE  IInv'
<1> USE DEF IInv, localVars
<1>1. TypeOK'
  BY DEF TypeOK
<1>2. BatchIsSent'
  BY DEF ExactlyOnceInv, BatchIsSent
<1>3. ASSUME NEW r \in Replicas, Applied(r) PROVE Applied(r)'
  <2>1. batch[r].seq \in Nat
    BY <1>3, BatchType DEF Applied
  <2> QED
    BY <1>1, <1>3, <2>1, BatchType DEF Applied, TypeOK
<1>4. RepliesAreTrue'
  BY <1>3 DEF ExactlyOnceInv, RepliesAreTrue, Applied, BatchIsSent
<1>5. LateCallsAreHarmless'
  <2> SUFFICES ASSUME NEW m \in requests, m.kind = "flush"
               PROVE  /\ m.seq > 0
                      /\ m.seq <= seq[m.from]
                      /\ saturated' \/ m.seq <= lastSeq'[m.from] \/ IsBatch(m)
                      /\ batch[m.from].seq = m.seq => IsBatch(m)
    BY DEF LateCallsAreHarmless, IsBatch, CallOf
  <2>1. m.from \in Replicas /\ m.seq \in Nat
    BY FlushRequestType DEF FlushRequest
  <2>2. lastSeq[m.from] \in Nat /\ lastSeq'[m.from] \in Nat
    BY <2>1, BatchType
  <2> QED
    BY <2>1, <2>2 DEF ExactlyOnceInv, LateCallsAreHarmless
<1> QED
  BY <1>1, <1>2, <1>4, <1>5 DEF ExactlyOnceInv

LEMMA WipeEffect ==
    ASSUME IInv, WipeAndSaturate
    PROVE  /\ saturated' = TRUE
           /\ counts' = NoHits
           /\ counts' \in Tally
           /\ lastSeq' = lastSeq
BY DEF WipeAndSaturate, NoHits, Tally

(***************************************************************************)
(* The batch that Redis applies is the unacknowledged batch of its sender. *)
(***************************************************************************)
LEMMA OnlyTheBatchApplies ==
    ASSUME IInv, NEW m \in requests, m.kind = "flush",
           ~saturated, ~AlreadyApplied(m), ApplyBatch(m)
    PROVE  /\ m.from \in Replicas /\ m.seq \in Nat
           /\ IsBatch(m)
           /\ m.seq = batch[m.from].seq /\ m.hits = sent[m.from]
           /\ lastSeq[m.from] < m.seq /\ m.seq <= seq[m.from]
           /\ lastSeq' = [lastSeq EXCEPT ![m.from] = m.seq]
           /\ counts' = [k \in Keys |-> counts[k] + sent[m.from][k]]
           /\ counts' \in Tally
           /\ saturated' = saturated
<1> USE DEF IInv
<1>1. m.from \in Replicas /\ m.seq \in Nat /\ m.hits \in Tally
  BY FlushRequestType DEF FlushRequest
<1>2. lastSeq[m.from] < m.seq
  BY <1>1, BatchType DEF AlreadyApplied
<1>3. IsBatch(m) /\ m.seq <= seq[m.from]
  BY <1>1, <1>2, BatchType DEF ExactlyOnceInv, LateCallsAreHarmless
<1>4. m.seq = batch[m.from].seq /\ m.hits = batch[m.from].hits
  BY <1>3 DEF IsBatch, CallOf
<1>5. m.hits = sent[m.from]
  BY <1>1, <1>3, <1>4 DEF ExactlyOnceInv, BatchIsSent, IsBatch
<1>6. counts' = [k \in Keys |-> counts[k] + m.hits[k]]
  BY DEF ApplyBatch
<1>7. counts' \in Tally
  <2>1. \A k \in Keys : counts[k] + m.hits[k] \in Nat
    BY <1>1 DEF TypeOK, Tally
  <2> QED
    BY <1>6, <2>1 DEF Tally
<1> QED
  BY <1>1, <1>2, <1>3, <1>4, <1>5, <1>6, <1>7 DEF ApplyBatch

LEMMA RunFlushKeeps ==
    ASSUME IInv, NEW m \in requests, RunFlushScript(m)
    PROVE  IInv'
<1> USE DEF IInv
<1>1. m.kind = "flush"
  BY DEF RunFlushScript
<1>2. m.from \in Replicas /\ m.seq \in Nat
  BY <1>1, FlushRequestType DEF FlushRequest
<1>3. PICK res \in 0..2 :
          /\ FlushScript(m, res)
          /\ IF batch[m.from].seq = m.seq
             THEN Reply(m.from, "flushing", "applied", res)
             ELSE UNCHANGED <<phase, result>>
  BY DEF RunFlushScript
<1>4. UNCHANGED <<localVars, seq, batch, recorded>> /\ requests' \subseteq requests
  BY DEF RunFlushScript, Deliver
<1>5. result' \in [Replicas -> 0..2] /\ phase' \in [Replicas -> Phases]
  BY <1>2, <1>3 DEF Reply, Move, TypeOK, Phases
<1>6. /\ counts' \in Tally
      /\ saturated' \in BOOLEAN
      /\ saturated => saturated'
      /\ lastSeq' \in [Replicas -> Nat]
      /\ \A r \in Replicas : lastSeq[r] <= lastSeq'[r] /\ lastSeq'[r] <= seq[r]
      /\ saturated' \/ lastSeq'[m.from] >= m.seq
  <2>1. \A r \in Replicas : lastSeq[r] <= seq[r] /\ lastSeq[r] \in Nat
    BY BatchType DEF ExactlyOnceInv, BatchIsSent
  <2>2. CASE UNCHANGED redisVars /\ (saturated \/ AlreadyApplied(m))
    BY <1>2, <2>1, <2>2 DEF redisVars, TypeOK, AlreadyApplied
  <2>3. CASE WipeAndSaturate
    <3>1. saturated' = TRUE /\ counts' \in Tally /\ lastSeq' = lastSeq
      BY <2>3, WipeEffect
    <3> QED
      BY <2>1, <3>1 DEF TypeOK
  <2>4. CASE ~saturated /\ ~AlreadyApplied(m) /\ ApplyBatch(m)
    <3>1. /\ lastSeq[m.from] < m.seq /\ m.seq <= seq[m.from]
          /\ lastSeq' = [lastSeq EXCEPT ![m.from] = m.seq]
          /\ counts' \in Tally
          /\ saturated' = saturated
      BY <1>1, <2>4, OnlyTheBatchApplies
    <3> QED
      BY <1>2, <2>1, <3>1 DEF TypeOK
  <2> QED
    BY <1>3, <2>2, <2>3, <2>4 DEF FlushScript
<1>7. \A r \in Replicas :
          \/ phase'[r] = phase[r]
          \/ /\ phase[r] = "flushing" /\ phase'[r] = "applied"
             /\ saturated' \/ lastSeq'[r] >= batch[r].seq
  BY <1>2, <1>3, <1>6 DEF Reply, Move, TypeOK
<1> QED
  BY <1>4, <1>5, <1>6, <1>7, RedisStepKeeps

LEMMA RunSaturateKeeps ==
    ASSUME IInv, NEW m \in requests, RunSaturateScript(m)
    PROVE  IInv'
<1> USE DEF IInv
<1>1. m.from \in Replicas
  BY SaturateRequestType DEF RunSaturateScript, SaturateRequest
<1>2. /\ UNCHANGED <<localVars, seq, batch, recorded>>
      /\ requests' \subseteq requests
      /\ WipeAndSaturate
      /\ Reply(m.from, "saturating", "cleared", 0)
  BY DEF RunSaturateScript, Deliver
<1>3. result' \in [Replicas -> 0..2] /\ phase' \in [Replicas -> Phases]
  BY <1>1, <1>2 DEF Reply, Move, TypeOK, Phases
<1>4. \A r \in Replicas : phase'[r] = phase[r] \/ phase'[r] = "cleared"
  BY <1>1, <1>2 DEF Reply, Move, TypeOK
<1>5. \A r \in Replicas : lastSeq[r] <= seq[r] /\ lastSeq[r] \in Nat
  BY BatchType DEF ExactlyOnceInv, BatchIsSent
<1>6. saturated' = TRUE /\ counts' \in Tally /\ lastSeq' = lastSeq
  BY <1>2, WipeEffect
<1>7. /\ saturated' \in BOOLEAN
      /\ saturated => saturated'
      /\ lastSeq' \in [Replicas -> Nat]
      /\ \A r \in Replicas : lastSeq[r] <= lastSeq'[r] /\ lastSeq'[r] <= seq[r]
  BY <1>5, <1>6 DEF TypeOK
<1> QED
  BY <1>2, <1>3, <1>4, <1>6, <1>7, RedisStepKeeps

THEOREM NextKeeps == IInv /\ [Next]_vars => IInv'
<1> SUFFICES ASSUME IInv, [Next]_vars PROVE IInv'
  OBVIOUS
<1>1. ASSUME NEW r \in Replicas, BeginFlush(r) PROVE IInv'
  <2> DEFINE ph == IF overflow[r] THEN "saturate" ELSE "batch"
  <2>1. ph \in Phases \ {"applied", "cleared"} /\ ph # "flushing"
    BY DEF Phases
  <2>2. /\ UNCHANGED <<localVars, seq, batch, result, redisVars, requests, recorded>>
        /\ phase' = [phase EXCEPT ![r] = ph]
    BY <1>1 DEF BeginFlush, Move
  <2> HIDE DEF ph
  <2> QED
    BY <2>1, <2>2, QuietStepKeeps
<1>2. ASSUME NEW r \in Replicas, NothingPending(r) PROVE IInv'
  <2>1. /\ UNCHANGED <<localVars, seq, batch, result, redisVars, requests, recorded>>
        /\ phase' = [phase EXCEPT ![r] = "idle"]
    BY <1>2 DEF NothingPending, Move
  <2> QED
    BY <2>1, QuietStepKeeps DEF Phases
<1>3. ASSUME NEW r \in Replicas, RetryBatch(r) PROVE IInv'
  <2>1. /\ UNCHANGED <<localVars, seq, batch, result, redisVars, recorded>>
        /\ phase' = [phase EXCEPT ![r] = "flushing"]
        /\ batch[r] # NoBatch
        /\ requests' = requests \cup {CallOf(r)}
    BY <1>3 DEF RetryBatch, Move
  <2> QED
    BY <2>1, QuietStepKeeps DEF Phases
<1>4. ASSUME NEW r \in Replicas, SendSaturate(r) PROVE IInv'
  <2>1. /\ UNCHANGED <<localVars, seq, batch, result, redisVars, recorded>>
        /\ phase' = [phase EXCEPT ![r] = "saturating"]
        /\ requests' = requests \cup {[kind |-> "saturate", from |-> r]}
    BY <1>4 DEF SendSaturate, Move
  <2> QED
    BY <2>1, QuietStepKeeps DEF Phases
<1>5. ASSUME NEW r \in Replicas, FlushFails(r) PROVE IInv'
  <2>1. /\ UNCHANGED <<localVars, seq, batch, result, redisVars, requests, recorded>>
        /\ phase' = [phase EXCEPT ![r] = "idle"]
    BY <1>5 DEF FlushFails
  <2> QED
    BY <2>1, QuietStepKeeps DEF Phases
<1>6. ASSUME NEW r \in Replicas, Crash(r) PROVE IInv'
  <2>1. /\ UNCHANGED <<localVars, seq, batch, result, redisVars, requests, recorded>>
        /\ phase' = [phase EXCEPT ![r] = "down"]
    BY <1>6 DEF Crash
  <2> QED
    BY <2>1, QuietStepKeeps DEF Phases
<1>7. ASSUME NEW m \in requests, LoseRequest(m) PROVE IInv'
  <2>1. PICK r \in Replicas : TRUE
    <3>1. m.from \in Replicas
      BY FlushRequestType, SaturateRequestType
      DEF IInv, TypeOK, FlushRequest, SaturateRequest
    <3> QED
      BY <3>1
  <2>2. /\ UNCHANGED <<localVars, seq, batch, result, redisVars, recorded>>
        /\ phase' = phase
        /\ requests' = requests \ {m}
    BY <1>7 DEF LoseRequest, flushVars
  <2> QED
    BY <2>1, <2>2, QuietStepKeeps DEF Phases
<1>8. CASE UNCHANGED vars
  BY <1>8 DEF vars, localVars, flushVars, redisVars, IInv, TypeOK,
     ExactlyOnceInv, BatchIsSent, RepliesAreTrue, LateCallsAreHarmless,
     IsBatch, CallOf, Applied
<1> QED
  BY <1>1, <1>2, <1>3, <1>4, <1>5, <1>6, <1>7, <1>8, RecordKeeps,
     NextBatchKeeps, AcknowledgeKeeps, ClearLocalKeeps, ExpireSeqKeeps,
     RunFlushKeeps, RunSaturateKeeps DEF Next, FlushStep, Run

THEOREM Invariance == Spec => []IInv
BY InitEstablishes, NextKeeps, PTL DEF Spec

(***************************************************************************)
(* The type invariant holds for every instance.                            *)
(***************************************************************************)
THEOREM TypeCorrect == Spec => []TypeOK
<1>1. IInv => TypeOK
  BY DEF IInv
<1> QED
  BY <1>1, Invariance, PTL

(***************************************************************************)
(* A batch is exactly the hits marked as sent, a reply is true, and a late *)
(* or repeated call of an old batch changes nothing, for any number of     *)
(* replicas and any traffic.                                               *)
(***************************************************************************)
THEOREM BatchNumbersWork == Spec => []ExactlyOnceInv
<1>1. IInv => ExactlyOnceInv
  BY DEF IInv
<1> QED
  BY <1>1, Invariance, PTL

-----------------------------------------------------------------------------
(***************************************************************************)
(* The step simulation. waitingMap is what RedisStore substitutes for the  *)
(* variable waiting of StatsStore.                                         *)
(***************************************************************************)
waitingMap == [r \in Replicas |-> Waiting(r)]

LEMMA WaitingType ==
    ASSUME IInv, NEW r \in Replicas
    PROVE  Waiting(r) \in Tally
<1>1. \A k \in Keys : /\ n[r][k] \in Nat
                      /\ n[r][k] - sent[r][k] \in Nat
  BY BatchType DEF IInv, ExactlyOnceInv, BatchIsSent, Tally
<1> QED
  BY <1>1 DEF Waiting, Tally

LEMMA WaitingKept ==
    ASSUME NEW r \in Replicas, n'[r] = n[r],
           Applied(r)' <=> Applied(r),
           Applied(r) => sent'[r] = sent[r]
    PROVE  Waiting(r)' = Waiting(r)
BY DEF Waiting

(***************************************************************************)
(* A counted hit waits in the replica that took it.                        *)
(***************************************************************************)
LEMMA RecordHitSimulates ==
    ASSUME IInv, NEW r \in Replicas, NEW k \in Keys, RecordHit(r, k)
    PROVE  Contract!CountLocally(r, k)
<1>1. UNCHANGED <<sent, batch, lastSeq, counts, saturated>>
  BY DEF RecordHit, flushVars, redisVars
<1>2. n' = [n EXCEPT ![r][k] = @ + 1]
  BY DEF RecordHit
<1>3. \A s \in Replicas : Applied(s)' <=> Applied(s)
  BY <1>1 DEF Applied
<1>4. n[r] \in [Keys -> Nat] /\ sent[r] \in [Keys -> Nat]
  BY BatchType DEF IInv, Tally
<1>5. n'[r] = [n[r] EXCEPT ![k] = @ + 1]
  BY <1>2 DEF IInv, TypeOK
<1>6. \A s \in Replicas \ {r} : n'[s] = n[s]
  BY <1>2 DEF IInv, TypeOK
<1>7. \A s \in Replicas \ {r} : Waiting(s)' = Waiting(s)
  BY <1>1, <1>3, <1>6 DEF Waiting
<1>8. ASSUME NEW x \in Keys
      PROVE  Waiting(r)'[x] = IF x = k THEN Waiting(r)[x] + 1 ELSE Waiting(r)[x]
  <2>1. n'[r][x] = IF x = k THEN n[r][x] + 1 ELSE n[r][x]
    BY <1>4, <1>5
  <2>2. n[r][x] \in Nat /\ sent[r][x] \in Nat
    BY <1>4
  <2>3. /\ Waiting(r)[x] = n[r][x] - IF Applied(r) THEN sent[r][x] ELSE 0
        /\ Waiting(r)'[x] = n'[r][x] - IF Applied(r) THEN sent[r][x] ELSE 0
    BY <1>1, <1>3 DEF Waiting
  <2> QED
    BY <2>1, <2>2, <2>3
<1>9. Waiting(r)' = [Waiting(r) EXCEPT ![k] = @ + 1]
  BY <1>8 DEF Waiting
<1>10. waitingMap' = [waitingMap EXCEPT ![r][k] = @ + 1]
  BY <1>7, <1>9 DEF waitingMap
<1> QED
  BY <1>1, <1>10 DEF Contract!CountLocally, waitingMap

LEMMA QuietStepSimulates ==
    ASSUME UNCHANGED <<n, sent, batch, counts, saturated, lastSeq>>
    PROVE  UNCHANGED Contract!vars
<1>1. \A r \in Replicas : Waiting(r)' = Waiting(r)
  BY DEF Waiting, Applied
<1> QED
  BY <1>1 DEF Contract!vars

LEMMA NextBatchSimulates ==
    ASSUME IInv, NEW r \in Replicas, NextBatch(r)
    PROVE  UNCHANGED Contract!vars
<1>1. /\ batch[r] = NoBatch
      /\ batch' = [batch EXCEPT ![r] = [seq |-> seq[r] + 1, hits |-> n[r]]]
      /\ sent' = [sent EXCEPT ![r] = n[r]]
      /\ UNCHANGED <<n, counts, saturated, lastSeq>>
  BY DEF NextBatch, redisVars
<1>2. batch'[r].seq = seq[r] + 1
  BY <1>1 DEF IInv, TypeOK
<1>3. ~Applied(r) /\ ~Applied(r)'
  <2>1. lastSeq[r] <= seq[r]
    BY DEF IInv, ExactlyOnceInv, BatchIsSent
  <2> QED
    BY <1>1, <1>2, <2>1, BatchType DEF IInv, Applied
<1>4. \A s \in Replicas \ {r} :
          /\ Applied(s)' <=> Applied(s)
          /\ sent'[s] = sent[s]
  BY <1>1 DEF IInv, TypeOK, Applied
<1>5. \A s \in Replicas : Waiting(s)' = Waiting(s)
  BY <1>1, <1>3, <1>4 DEF Waiting
<1> QED
  BY <1>1, <1>5 DEF Contract!vars

LEMMA ExpireSeqSimulates ==
    ASSUME IInv, NEW r \in Replicas, ExpireSeq(r)
    PROVE  UNCHANGED Contract!vars
<1>1. /\ ~Applied(r)
      /\ lastSeq' = [lastSeq EXCEPT ![r] = 0]
      /\ UNCHANGED <<n, sent, batch, counts, saturated>>
  BY DEF ExpireSeq, localVars, flushVars
<1>2. ~Applied(r)'
  <2>1. lastSeq'[r] = 0
    BY <1>1 DEF IInv, TypeOK
  <2>2. batch[r] # NoBatch => batch[r].seq \in Nat \ {0}
    BY BatchType DEF IInv
  <2> QED
    BY <1>1, <2>1, <2>2 DEF Applied
<1>3. \A s \in Replicas \ {r} : Applied(s)' <=> Applied(s)
  BY <1>1 DEF IInv, TypeOK, Applied
<1>4. \A s \in Replicas : Waiting(s)' = Waiting(s)
  BY <1>1, <1>2, <1>3 DEF Waiting
<1> QED
  BY <1>1, <1>4 DEF Contract!vars

(***************************************************************************)
(* Hits that a replica drops are in Redis, or Redis is saturated.          *)
(***************************************************************************)
LEMMA DropSimulates ==
    ASSUME IInv, NEW r \in Replicas, DropBatch(r),
           NEW left \in Tally,
           n' = [n EXCEPT ![r] = left],
           \A k \in Keys : left[k] <= Waiting(r)[k],
           saturated \/ left = Waiting(r),
           UNCHANGED <<counts, saturated, lastSeq>>
    PROVE  /\ [Contract!Next]_Contract!vars
           /\ saturated \/ UNCHANGED Contract!vars
<1>1. /\ batch' = [batch EXCEPT ![r] = NoBatch]
      /\ sent' = [sent EXCEPT ![r] = NoHits]
  BY DEF DropBatch
<1>2. \A s \in Replicas \ {r} : Waiting(s)' = Waiting(s)
  BY <1>1 DEF IInv, TypeOK, Waiting, Applied
<1>3. Waiting(r)' = left
  <2>1. ~Applied(r)'
    BY <1>1 DEF IInv, TypeOK, Applied
  <2>2. n'[r] = left
    BY DEF IInv, TypeOK
  <2>3. \A k \in Keys : left[k] - 0 = left[k]
    BY DEF Tally
  <2>4. Waiting(r)' = [k \in Keys |-> left[k]]
    BY <2>1, <2>2, <2>3 DEF Waiting
  <2> QED
    BY <2>4 DEF Tally
<1>4. CASE left = Waiting(r)
  <2>1. \A s \in Replicas : Waiting(s)' = Waiting(s)
    BY <1>2, <1>3, <1>4
  <2> QED
    BY <2>1 DEF Contract!vars
<1>5. CASE saturated
  <2>1. \A s \in Replicas : Waiting(s)' \in Tally
    BY <1>2, <1>3, WaitingType
  <2>2. waitingMap' \in [Replicas -> Tally]
    BY <2>1 DEF waitingMap
  <2>3. /\ \A k \in Keys : waitingMap'[r][k] <= waitingMap[r][k]
        /\ \A s \in Replicas \ {r} : waitingMap'[s] = waitingMap[s]
    BY <1>2, <1>3 DEF waitingMap
  <2>4. Contract!Discard(r)
    BY <1>5, <2>2, <2>3 DEF Contract!Discard, Contract!Tally, Tally, waitingMap
  <2> QED
    BY <1>5, <2>4 DEF Contract!Next
<1> QED
  BY <1>4, <1>5

LEMMA AcknowledgeSimulates ==
    ASSUME IInv, NEW r \in Replicas, Acknowledge(r)
    PROVE  /\ [Contract!Next]_Contract!vars
           /\ saturated \/ UNCHANGED Contract!vars
<1>1. /\ DropBatch(r)
      /\ n' = [n EXCEPT ![r] = Left(r)]
      /\ UNCHANGED <<counts, saturated, lastSeq>>
  BY DEF Acknowledge, redisVars
<1>2. \A k \in Keys : /\ n[r][k] \in Nat /\ sent[r][k] \in Nat
                      /\ n[r][k] - sent[r][k] \in Nat
  BY BatchType DEF IInv, ExactlyOnceInv, BatchIsSent, Tally
<1>3. Left(r) \in Tally /\ \A k \in Keys : Left(r)[k] <= Waiting(r)[k]
  BY <1>2 DEF Left, Waiting, Tally
<1>4. saturated \/ Left(r) = Waiting(r)
  <2>1. saturated \/ Applied(r)
    BY DEF Acknowledge, Move, IInv, ExactlyOnceInv, RepliesAreTrue
  <2> QED
    BY <2>1 DEF Left, Waiting
<1> QED
  BY <1>1, <1>3, <1>4, DropSimulates

LEMMA ClearLocalSimulates ==
    ASSUME IInv, NEW r \in Replicas, ClearLocal(r)
    PROVE  [Contract!Next]_Contract!vars /\ saturated
<1>1. /\ DropBatch(r)
      /\ n' = [n EXCEPT ![r] = NoHits]
      /\ UNCHANGED <<counts, saturated, lastSeq>>
  BY DEF ClearLocal, redisVars
<1>2. saturated
  BY DEF ClearLocal, Move, IInv, ExactlyOnceInv, RepliesAreTrue
<1>3. NoHits \in Tally /\ \A k \in Keys : NoHits[k] <= Waiting(r)[k]
  BY WaitingType DEF NoHits, Tally
<1> QED
  BY <1>1, <1>2, <1>3, DropSimulates

LEMMA WipeSimulates ==
    ASSUME IInv, WipeAndSaturate, UNCHANGED <<n, sent, batch>>
    PROVE  [Contract!Next]_Contract!vars
<1>1. saturated' = TRUE /\ counts' = NoHits /\ lastSeq' = lastSeq
  BY WipeEffect
<1>2. \A s \in Replicas : Waiting(s)' = Waiting(s)
  BY <1>1 DEF Waiting, Applied
<1>3. Contract!Saturate
  BY <1>1, <1>2 DEF Contract!Saturate, Contract!NoHits, NoHits
<1> QED
  BY <1>3 DEF Contract!Next

(***************************************************************************)
(* The step that publishes: the hits of the batch stop waiting and become  *)
(* visible at the moment the script runs.                                  *)
(***************************************************************************)
LEMMA ApplySimulates ==
    ASSUME IInv, NEW m \in requests, m.kind = "flush",
           ~saturated, ~AlreadyApplied(m), ApplyBatch(m),
           UNCHANGED <<n, sent, batch>>
    PROVE  Contract!Publish(m.from)
<1> DEFINE r == m.from
<1>1. /\ r \in Replicas /\ m.seq \in Nat
      /\ batch[r] # NoBatch
      /\ m.seq = batch[r].seq
      /\ lastSeq[r] < m.seq
      /\ lastSeq' = [lastSeq EXCEPT ![r] = m.seq]
      /\ counts' = [k \in Keys |-> counts[k] + sent[r][k]]
      /\ counts' \in Tally
      /\ saturated' = saturated
  BY OnlyTheBatchApplies DEF IsBatch
<1> HIDE DEF r
<1>2. ~Applied(r) /\ Applied(r)'
  BY <1>1, BatchType DEF Applied, IInv, TypeOK
<1>3. \A s \in Replicas \ {r} : Waiting(s)' = Waiting(s)
  BY <1>1 DEF IInv, TypeOK, Waiting, Applied
<1>4. ASSUME NEW k \in Keys
      PROVE  /\ Waiting(r)'[k] \in Nat
             /\ counts'[k] + Waiting(r)'[k] = counts[k] + Waiting(r)[k]
             /\ Waiting(r)'[k] <= Waiting(r)[k]
  <2>1. /\ n[r][k] \in Nat /\ sent[r][k] \in Nat /\ counts[k] \in Nat
        /\ n[r][k] - sent[r][k] \in Nat
    BY <1>1, BatchType DEF IInv, TypeOK, ExactlyOnceInv, BatchIsSent, Tally
  <2>2. Waiting(r)[k] = n[r][k] - 0 /\ Waiting(r)'[k] = n[r][k] - sent[r][k]
    BY <1>2 DEF Waiting
  <2>3. counts'[k] = counts[k] + sent[r][k]
    BY <1>1
  <2> QED
    BY <2>1, <2>2, <2>3
<1>5. Waiting(r)' \in Tally
  BY <1>4 DEF Waiting, Tally
<1>6. waitingMap' \in [Replicas -> Tally]
  BY <1>1, <1>3, <1>5, WaitingType DEF waitingMap
<1>7. /\ \A k \in Keys :
            /\ counts'[k] + waitingMap'[r][k] = counts[k] + waitingMap[r][k]
            /\ waitingMap'[r][k] <= waitingMap[r][k]
      /\ \A s \in Replicas \ {r} : waitingMap'[s] = waitingMap[s]
  BY <1>1, <1>3, <1>4 DEF waitingMap
<1>8. Contract!Publish(r)
  BY <1>1, <1>6, <1>7 DEF Contract!Publish, Contract!Tally, Tally, waitingMap
<1> QED
  BY <1>8 DEF r

(***************************************************************************)
(* "Redis counts each batch exactly one time": the replicas and Redis      *)
(* implement the contract of statsStore, whatever the network does and     *)
(* whichever replicas die.                                                 *)
(***************************************************************************)
THEOREM RedisImplementsContract == Spec => ExactlyOnce
<1>1. Init => Contract!Init
  <2> SUFFICES ASSUME Init PROVE Contract!Init
    OBVIOUS
  <2>1. \A r \in Replicas : Waiting(r) = NoHits
    BY DEF Init, Waiting, Applied, NoHits
  <2> QED
    BY <2>1 DEF Init, Contract!Init, Contract!NoHits, NoHits
<1>2. IInv /\ [Next]_vars => [Contract!Next]_Contract!vars
  <2> SUFFICES ASSUME IInv, [Next]_vars PROVE [Contract!Next]_Contract!vars
    OBVIOUS
  <2>1. ASSUME NEW r \in Replicas,
               BeginFlush(r) \/ NothingPending(r) \/ RetryBatch(r)
               \/ SendSaturate(r) \/ FlushFails(r) \/ Crash(r)
        PROVE  [Contract!Next]_Contract!vars
    BY <2>1, QuietStepSimulates DEF BeginFlush, NothingPending, RetryBatch,
       SendSaturate, FlushFails, Crash, localVars, redisVars
  <2>2. ASSUME NEW m \in requests, LoseRequest(m)
        PROVE  [Contract!Next]_Contract!vars
    BY <2>2, QuietStepSimulates DEF LoseRequest, localVars, flushVars, redisVars
  <2>3. ASSUME NEW m \in requests, RunSaturateScript(m)
        PROVE  [Contract!Next]_Contract!vars
    BY <2>3, WipeSimulates DEF RunSaturateScript, localVars
  <2>4. ASSUME NEW m \in requests, RunFlushScript(m)
        PROVE  [Contract!Next]_Contract!vars
    <3>1. m.kind = "flush" /\ UNCHANGED <<n, sent, batch>>
      BY <2>4 DEF RunFlushScript, localVars
    <3>2. CASE UNCHANGED redisVars
      BY <3>1, <3>2, QuietStepSimulates DEF redisVars
    <3>3. CASE WipeAndSaturate
      BY <3>1, <3>3, WipeSimulates
    <3>4. CASE ~saturated /\ ~AlreadyApplied(m) /\ ApplyBatch(m)
      <4>1. m.from \in Replicas
        BY <3>1, FlushRequestType DEF IInv, FlushRequest
      <4> QED
        BY <3>1, <3>4, <4>1, ApplySimulates DEF Contract!Next
    <3> QED
      BY <2>4, <3>2, <3>3, <3>4 DEF RunFlushScript, FlushScript
  <2>5. CASE UNCHANGED vars
    BY <2>5, QuietStepSimulates DEF vars, localVars, flushVars, redisVars
  <2>6. ASSUME NEW r \in Replicas, NEW k \in Keys, Record(r, k)
        PROVE  [Contract!Next]_Contract!vars
    <3>1. CASE RecordHit(r, k)
      BY <3>1, RecordHitSimulates DEF Contract!Next
    <3>2. CASE RecordOverflows(r, k) \/ RecordIgnored(r, k)
      BY <3>2, QuietStepSimulates DEF RecordOverflows, RecordIgnored, localVars,
         flushVars, redisVars
    <3> QED
      BY <2>6, <3>1, <3>2 DEF Record
  <2> QED
    BY <2>1, <2>2, <2>3, <2>4, <2>5, <2>6, NextBatchSimulates,
       AcknowledgeSimulates, ClearLocalSimulates, ExpireSeqSimulates
    DEF Next, FlushStep, Run
<1> QED
  BY <1>1, <1>2, Invariance, PTL DEF Spec, ExactlyOnce, Contract!Spec

-----------------------------------------------------------------------------
(***************************************************************************)
(* The budgets of the store. Both byte counters are the cost of the keys   *)
(* that have hits: in a replica those of held, in Redis the members.       *)
(***************************************************************************)
Members == {k \in Keys : counts[k] > 0}

ReplicaBudget(r) ==
    /\ held[r] = {k \in Keys : n[r][k] > 0}
    /\ usedBytes[r] = SumOver(LocalCost, held[r])
    /\ held[r] # {} => usedBytes[r] <= MaxBytes

BudgetInv ==
    /\ usedBytes \in [Replicas -> Nat]
    /\ \A r \in Replicas : ReplicaBudget(r)
    /\ used = SumOver(RedisCost, Members)
    /\ counts # NoHits => used <= MaxBytes

LEMMA Costs ==
    /\ MaxBytes \in Int
    /\ \A k \in Keys : /\ LocalCost[k] \in Nat /\ RedisCost[k] \in Nat
                       /\ LocalCost[k] <= RedisCost[k]
BY CostAssumption

LEMMA KeysAreFinite == \A ks \in SUBSET Keys : IsFiniteSet(ks)
BY CostAssumption, FS_Subset

LEMMA CostsAreNat ==
    ASSUME NEW ks \in SUBSET Keys
    PROVE  SumOver(LocalCost, ks) \in Nat /\ SumOver(RedisCost, ks) \in Nat
BY Costs, KeysAreFinite, SumIsNat

(***************************************************************************)
(* Acknowledged keys without other hits leave the map with their cost.     *)
(***************************************************************************)
LEMMA CostWithout ==
    ASSUME NEW ks \in SUBSET Keys, NEW old \in SUBSET ks
    PROVE  /\ SumOver(LocalCost, ks \ old) = SumOver(LocalCost, ks) - SumOver(LocalCost, old)
           /\ SumOver(LocalCost, ks \ old) <= SumOver(LocalCost, ks)
<1> DEFINE left == ks \ old
<1>1. left \cup old = ks /\ left \cap old = {} /\ left \in SUBSET Keys /\ old \in SUBSET Keys
  OBVIOUS
<1> HIDE DEF left
<1>2. IsFiniteSet(left) /\ IsFiniteSet(old)
      /\ \A k \in left \cup old : LocalCost[k] \in Nat
  BY <1>1, KeysAreFinite, Costs
<1>3. SumOver(LocalCost, left \cup old) = SumOver(LocalCost, left) + SumOver(LocalCost, old)
  BY <1>1, <1>2, SumOfParts
<1>4. SumOver(LocalCost, ks) = SumOver(LocalCost, left) + SumOver(LocalCost, old)
  BY <1>1, <1>3
<1>5. SumOver(LocalCost, left) \in Nat /\ SumOver(LocalCost, old) \in Nat
  BY <1>1, CostsAreNat
<1>6. /\ SumOver(LocalCost, left) = SumOver(LocalCost, ks) - SumOver(LocalCost, old)
      /\ SumOver(LocalCost, left) <= SumOver(LocalCost, ks)
  BY <1>4, <1>5
<1> QED
  BY <1>6 DEF left

LEMMA BudgetInit == Init => BudgetInv
<1> SUFFICES ASSUME Init PROVE BudgetInv
  OBVIOUS
<1>1. SumOver(LocalCost, {}) = 0 /\ SumOver(RedisCost, {}) = 0
  BY SumStep, KeysAreFinite
<1>2. Members = {}
  BY DEF Init, Members, NoHits
<1>3. \A r \in Replicas : held[r] = {} /\ usedBytes[r] = 0 /\ \A k \in Keys : ~(n[r][k] > 0)
  BY DEF Init, NoHits
<1>4. \A r \in Replicas : ReplicaBudget(r)
  BY <1>1, <1>3 DEF ReplicaBudget
<1>5. usedBytes \in [Replicas -> Nat]
  BY DEF Init
<1> QED
  BY <1>1, <1>2, <1>4, <1>5 DEF Init, BudgetInv

LEMMA RecordBudget ==
    ASSUME IInv, BudgetInv, NEW r \in Replicas, NEW k \in Keys, RecordHit(r, k)
    PROVE  BudgetInv'
<1>1. /\ held' = [held EXCEPT ![r] = @ \cup {k}]
      /\ usedBytes' = IF k \in held[r] THEN usedBytes
                      ELSE [usedBytes EXCEPT ![r] = @ + LocalCost[k]]
      /\ n' = [n EXCEPT ![r][k] = @ + 1]
      /\ ~NoRoom(r, k)
      /\ UNCHANGED <<counts, used>>
  BY DEF RecordHit, redisVars
<1>2. /\ held[r] \in SUBSET Keys /\ held \in [Replicas -> SUBSET Keys]
      /\ n \in [Replicas -> [Keys -> Nat]]
      /\ usedBytes \in [Replicas -> Nat]
  BY DEF IInv, TypeOK, Tally, BudgetInv
<1>3. /\ held'[r] = held[r] \cup {k} /\ held'[r] \in SUBSET Keys
      /\ \A s \in Replicas \ {r} : held'[s] = held[s] /\ n'[s] = n[s]
  BY <1>1, <1>2
<1>4. \A x \in Keys : n'[r][x] = IF x = k THEN n[r][x] + 1 ELSE n[r][x]
  BY <1>1, <1>2
<1>5. ReplicaBudget(r)
  BY DEF BudgetInv
<1>6. held'[r] = {x \in Keys : n'[r][x] > 0}
  <2>1. \A x \in Keys : n[r][x] \in Nat
    BY <1>2
  <2>2. \A x \in Keys : x \in held'[r] <=> n'[r][x] > 0
    BY <1>3, <1>4, <1>5, <2>1 DEF ReplicaBudget
  <2> QED
    BY <1>3, <2>2
<1>7. CASE k \in held[r]
  <2>1. usedBytes' = usedBytes /\ held'[r] = held[r]
    BY <1>1, <1>3, <1>7
  <2>2. ReplicaBudget(r)'
    BY <1>5, <1>6, <2>1 DEF ReplicaBudget
  <2>3. \A s \in Replicas \ {r} : ReplicaBudget(s)'
    BY <1>3, <2>1 DEF BudgetInv, ReplicaBudget
  <2> QED
    BY <1>1, <1>2, <2>1, <2>2, <2>3 DEF BudgetInv, Members
<1>8. CASE k \notin held[r]
  <2>1. usedBytes' = [usedBytes EXCEPT ![r] = @ + LocalCost[k]]
    BY <1>1, <1>8
  <2>2. LocalCost[k] \in Nat
    BY Costs
  <2>3. usedBytes' \in [Replicas -> Nat]
    BY <1>2, <2>1, <2>2
  <2>4. /\ usedBytes'[r] = usedBytes[r] + LocalCost[k]
        /\ \A s \in Replicas \ {r} : usedBytes'[s] = usedBytes[s]
    BY <1>2, <2>1
  <2>5. SumOver(LocalCost, held[r] \cup {k}) = LocalCost[k] + SumOver(LocalCost, held[r])
    <3>1. IsFiniteSet(held[r]) /\ \A x \in held[r] \cup {k} : LocalCost[x] \in Nat
      BY <1>2, KeysAreFinite, Costs
    <3> QED
      BY <1>8, <3>1, SumWith
  <2>6. usedBytes[r] \in Nat /\ usedBytes[r] = SumOver(LocalCost, held[r])
    BY <1>2, <1>5 DEF ReplicaBudget
  <2>7. usedBytes'[r] = SumOver(LocalCost, held'[r])
    BY <1>3, <2>2, <2>4, <2>5, <2>6
  <2>8. usedBytes'[r] <= MaxBytes
    BY <1>1, <1>8, <2>2, <2>4, <2>6, Costs DEF NoRoom
  <2>9. ReplicaBudget(r)'
    BY <1>6, <2>7, <2>8 DEF ReplicaBudget
  <2>10. \A s \in Replicas \ {r} : ReplicaBudget(s)'
    BY <1>3, <2>4 DEF BudgetInv, ReplicaBudget
  <2> QED
    BY <1>1, <2>3, <2>9, <2>10 DEF BudgetInv, Members
<1> QED
  BY <1>7, <1>8

LEMMA AcknowledgeBudget ==
    ASSUME IInv, BudgetInv, NEW r \in Replicas, Acknowledge(r)
    PROVE  BudgetInv'
<1> DEFINE old == {k \in held[r] : Left(r)[k] = 0}
<1>1. /\ n' = [n EXCEPT ![r] = Left(r)]
      /\ held' = [held EXCEPT ![r] = @ \ old]
      /\ usedBytes' = [usedBytes EXCEPT
             ![r] = @ - MapThenSumSet(LAMBDA k : LocalCost[k], old)]
      /\ UNCHANGED <<counts, used>>
  BY DEF Acknowledge, redisVars
<1>2. MapThenSumSet(LAMBDA k : LocalCost[k], old) = SumOver(LocalCost, old)
  BY SumIsFold
<1>3. /\ held[r] \in SUBSET Keys /\ held \in [Replicas -> SUBSET Keys]
      /\ n \in [Replicas -> Tally] /\ usedBytes \in [Replicas -> Nat]
  BY DEF IInv, TypeOK, BudgetInv
<1>4. \A k \in Keys : /\ n[r][k] \in Nat /\ sent[r][k] \in Nat
                      /\ Left(r)[k] = n[r][k] - sent[r][k] /\ Left(r)[k] \in Nat
  BY BatchType DEF IInv, ExactlyOnceInv, BatchIsSent, Tally, Left
<1>5. ReplicaBudget(r)
  BY DEF BudgetInv
<1>6. {k \in Keys : Left(r)[k] > 0} = held[r] \ old
  <2>1. \A k \in Keys : Left(r)[k] > 0 <=> k \in held[r] /\ Left(r)[k] # 0
    BY <1>4, <1>5 DEF ReplicaBudget
  <2> QED
    BY <1>3, <2>1
<1>7. old \in SUBSET held[r]
  OBVIOUS
<1> HIDE DEF old
<1>8. /\ SumOver(LocalCost, held[r] \ old) = SumOver(LocalCost, held[r]) - SumOver(LocalCost, old)
      /\ SumOver(LocalCost, held[r] \ old) <= SumOver(LocalCost, held[r])
  BY <1>3, <1>7, CostWithout
<1>9. /\ held'[r] = held[r] \ old /\ n'[r] = Left(r)
      /\ \A s \in Replicas \ {r} :
            held'[s] = held[s] /\ n'[s] = n[s] /\ usedBytes'[s] = usedBytes[s]
      /\ DOMAIN usedBytes' = Replicas
      /\ usedBytes' = [s \in Replicas |-> usedBytes'[s]]
  BY <1>1, <1>3
<1>10. usedBytes'[r] = SumOver(LocalCost, held'[r])
  <2>1. usedBytes'[r] = usedBytes[r] - SumOver(LocalCost, old)
    BY <1>1, <1>2, <1>3
  <2> QED
    BY <1>5, <1>8, <1>9, <2>1 DEF ReplicaBudget
<1>11. SumOver(LocalCost, held[r] \ old) \in Nat /\ SumOver(LocalCost, held[r]) \in Nat
  BY <1>3, CostsAreNat
<1>12. usedBytes' \in [Replicas -> Nat]
  <2>1. \A s \in Replicas : usedBytes'[s] \in Nat
    BY <1>3, <1>9, <1>10, <1>11
  <2> QED
    BY <1>9, <2>1
<1>13. held'[r] # {} => usedBytes'[r] <= MaxBytes
  BY <1>5, <1>8, <1>9, <1>10, <1>11, Costs DEF ReplicaBudget
<1>14. ReplicaBudget(r)'
  BY <1>6, <1>9, <1>10, <1>13 DEF ReplicaBudget
<1>15. \A s \in Replicas \ {r} : ReplicaBudget(s)'
  BY <1>9 DEF BudgetInv, ReplicaBudget
<1> QED
  BY <1>1, <1>12, <1>14, <1>15 DEF BudgetInv, Members

LEMMA ClearBudget ==
    ASSUME IInv, BudgetInv, NEW r \in Replicas, ClearLocal(r)
    PROVE  BudgetInv'
<1>1. /\ held' = [held EXCEPT ![r] = {}]
      /\ n' = [n EXCEPT ![r] = NoHits]
      /\ usedBytes' = [usedBytes EXCEPT ![r] = 0]
      /\ UNCHANGED <<counts, used>>
  BY DEF ClearLocal, redisVars
<1>2. held \in [Replicas -> SUBSET Keys] /\ n \in [Replicas -> Tally]
      /\ usedBytes \in [Replicas -> Nat]
  BY DEF IInv, TypeOK, BudgetInv
<1>3. SumOver(LocalCost, {}) = 0
  BY SumStep, KeysAreFinite
<1>4. held'[r] = {} /\ usedBytes'[r] = 0 /\ n'[r] = NoHits
  BY <1>1, <1>2
<1>5. {k \in Keys : n'[r][k] > 0} = {}
  BY <1>4 DEF NoHits
<1>6. ReplicaBudget(r)'
  BY <1>3, <1>4, <1>5 DEF ReplicaBudget
<1>7. \A s \in Replicas \ {r} : ReplicaBudget(s)'
  BY <1>1, <1>2 DEF BudgetInv, ReplicaBudget
<1>8. usedBytes' \in [Replicas -> Nat]
  BY <1>1, <1>2
<1> QED
  BY <1>1, <1>6, <1>7, <1>8 DEF BudgetInv, Members

(***************************************************************************)
(* What a script charges: the keys of the batch that are no members yet.   *)
(***************************************************************************)
LEMMA Charge ==
    ASSUME IInv, BudgetInv, NEW m \in requests, m.kind = "flush"
    PROVE  /\ \A k \in Keys : m.hits[k] \in Nat /\ counts[k] \in Nat
           /\ NewUsed(m) = SumOver(RedisCost, {k \in Keys : counts[k] > 0 \/ m.hits[k] > 0})
<1> DEFINE new == {k \in Keys : m.hits[k] > 0 /\ counts[k] = 0}
           both == {k \in Keys : counts[k] > 0 \/ m.hits[k] > 0}
<1>1. \A k \in Keys : m.hits[k] \in Nat /\ counts[k] \in Nat
  BY FlushRequestType DEF IInv, TypeOK, FlushRequest, Tally
<1>2. NewUsed(m) = used + SumOver(RedisCost, new)
  <2>1. MapThenSumSet(LAMBDA k : RedisCost[k], new) = SumOver(RedisCost, new)
    BY SumIsFold
  <2> QED
    BY <2>1 DEF NewUsed
<1>3. Members \cap new = {} /\ Members \cup new = both
      /\ Members \in SUBSET Keys /\ new \in SUBSET Keys
  BY <1>1 DEF Members
<1> HIDE DEF new, both
<1>4. /\ IsFiniteSet(Members) /\ IsFiniteSet(new)
      /\ \A k \in Members \cup new : RedisCost[k] \in Nat
  BY <1>3, KeysAreFinite, Costs
<1>5. SumOver(RedisCost, both) = SumOver(RedisCost, Members) + SumOver(RedisCost, new)
  BY <1>3, <1>4, SumOfParts
<1>6. NewUsed(m) = SumOver(RedisCost, both)
  BY <1>2, <1>5 DEF BudgetInv
<1> QED
  BY <1>1, <1>6 DEF both

LEMMA LocalKept ==
    ASSUME BudgetInv, UNCHANGED <<held, n, usedBytes>>,
           used' = SumOver(RedisCost, Members)' , counts' # NoHits => used' <= MaxBytes
    PROVE  BudgetInv'
BY DEF BudgetInv, ReplicaBudget

LEMMA WipeBudget ==
    ASSUME IInv, BudgetInv, WipeAndSaturate, UNCHANGED localVars
    PROVE  BudgetInv'
<1>1. counts' = NoHits /\ used' = 0
  BY DEF WipeAndSaturate
<1>2. Members' = {}
  BY <1>1 DEF Members, NoHits
<1>3. SumOver(RedisCost, {}) = 0
  BY SumStep, KeysAreFinite
<1> QED
  BY <1>1, <1>2, <1>3, LocalKept DEF localVars

LEMMA ApplyBudget ==
    ASSUME IInv, BudgetInv, NEW m \in requests, m.kind = "flush",
           Fits(m), ApplyBatch(m), UNCHANGED localVars
    PROVE  BudgetInv'
<1>1. counts' = [k \in Keys |-> counts[k] + m.hits[k]] /\ used' = NewUsed(m)
  BY DEF ApplyBatch
<1>2. \A k \in Keys : m.hits[k] \in Nat /\ counts[k] \in Nat
  BY Charge
<1>3. Members' = {k \in Keys : counts[k] > 0 \/ m.hits[k] > 0}
  BY <1>1, <1>2 DEF Members
<1>4. used' = SumOver(RedisCost, Members')
  BY <1>1, <1>3, Charge
<1>5. used' \in Nat
  <2>1. Members' \in SUBSET Keys
    BY DEF Members
  <2> QED
    BY <1>4, <2>1, CostsAreNat
<1>6. used' <= MaxBytes
  BY <1>1, <1>5, Costs DEF Fits
<1> QED
  BY <1>4, <1>6, LocalKept DEF localVars

LEMMA BudgetKept ==
    ASSUME BudgetInv, UNCHANGED <<held, n, usedBytes, counts, used>>
    PROVE  BudgetInv'
BY DEF BudgetInv, ReplicaBudget, Members

THEOREM BudgetNext == IInv /\ BudgetInv /\ [Next]_vars => BudgetInv'
<1> SUFFICES ASSUME IInv, BudgetInv, [Next]_vars PROVE BudgetInv'
  OBVIOUS
<1>1. ASSUME NEW r \in Replicas, NEW k \in Keys, Record(r, k)
      PROVE  BudgetInv'
  BY <1>1, RecordBudget, BudgetKept DEF Record, RecordOverflows, RecordIgnored,
     localVars, redisVars
<1>2. ASSUME NEW r \in Replicas, FlushStep(r) \/ FlushFails(r) \/ Crash(r) \/ ExpireSeq(r)
      PROVE  BudgetInv'
  BY <1>2, AcknowledgeBudget, ClearBudget, BudgetKept
  DEF FlushStep, BeginFlush, NothingPending, NextBatch, RetryBatch, SendSaturate,
      FlushFails, Crash, ExpireSeq, localVars, redisVars
<1>3. ASSUME NEW m \in requests, RunFlushScript(m)
      PROVE  BudgetInv'
  <2>1. m.kind = "flush" /\ UNCHANGED localVars
    BY <1>3 DEF RunFlushScript
  <2>2. \/ UNCHANGED redisVars
        \/ WipeAndSaturate
        \/ Fits(m) /\ ApplyBatch(m)
    BY <1>3 DEF RunFlushScript, FlushScript
  <2> QED
    BY <2>1, <2>2, WipeBudget, ApplyBudget, BudgetKept DEF localVars, redisVars
<1>4. ASSUME NEW m \in requests, RunSaturateScript(m) \/ LoseRequest(m)
      PROVE  BudgetInv'
  BY <1>4, WipeBudget, BudgetKept DEF RunSaturateScript, LoseRequest, localVars, redisVars
<1>5. CASE UNCHANGED vars
  BY <1>5, BudgetKept DEF vars, localVars, redisVars
<1> QED
  BY <1>1, <1>2, <1>3, <1>4, <1>5 DEF Next, Run

LEMMA BudgetInvariance == Spec => []BudgetInv
BY BudgetInit, BudgetNext, Invariance, PTL DEF Spec

(***************************************************************************)
(* The budgets are exact, in each replica and in Redis.                    *)
(***************************************************************************)
THEOREM BudgetAlwaysExact == Spec => []BudgetExact
<1>1. BudgetInv => BudgetExact
  <2>1. \A cost, ks : Total(cost, ks) = SumOver(cost, ks)
    BY SumIsFold DEF Total
  <2> QED
    BY <2>1 DEF BudgetInv, ReplicaBudget, BudgetExact, Members
<1> QED
  BY <1>1, BudgetInvariance, PTL

(***************************************************************************)
(* Why a replica overflows or Redis saturates: all requests together are   *)
(* too large for Redis (TooLargeForRedis, which stays true). Every hit     *)
(* anywhere, also in a call on its way, was recorded.                      *)
(***************************************************************************)
AllRecorded == {k \in Keys : recorded[k] > 0}

TooLargeForRedis == SumOver(RedisCost, AllRecorded) > MaxBytes

HitsAreRecorded ==
    \A k \in Keys :
        /\ \A r \in Replicas : n[r][k] > 0 => k \in AllRecorded
        /\ counts[k] > 0 => k \in AllRecorded
        /\ \A m \in requests : m.kind = "flush" /\ m.hits[k] > 0 => k \in AllRecorded

WhySaturated ==
    ~TooLargeForRedis =>
        /\ ~saturated
        /\ \A r \in Replicas :
              ~overflow[r] /\ phase[r] \notin {"saturate", "saturating", "cleared"}
        /\ \A m \in requests : m.kind # "saturate"

CauseInv == HitsAreRecorded /\ WhySaturated

LEMMA CauseInit == Init => CauseInv
<1> SUFFICES ASSUME Init PROVE CauseInv
  OBVIOUS
<1>1. HitsAreRecorded
  BY DEF Init, HitsAreRecorded, NoHits
<1>2. WhySaturated
  BY DEF Init, WhySaturated
<1> QED
  BY <1>1, <1>2 DEF CauseInv

\* More recorded keys cost more.
LEMMA CostOfPart ==
    ASSUME NEW ks \in SUBSET Keys, NEW part \in SUBSET ks
    PROVE  SumOver(RedisCost, part) <= SumOver(RedisCost, ks)
<1>1. IsFiniteSet(ks) /\ \A k \in ks : RedisCost[k] \in Nat
  BY KeysAreFinite, Costs
<1> QED
  BY <1>1, SumOfPart

LEMMA RecordedGrows ==
    ASSUME IInv, [Next]_vars
    PROVE  /\ AllRecorded \subseteq AllRecorded' /\ AllRecorded' \in SUBSET Keys
           /\ TooLargeForRedis => TooLargeForRedis'
<1>1. \A k \in Keys : recorded[k] \in Nat
  BY DEF IInv, TypeOK, Tally
<1>2. recorded' = recorded \/ \E k \in Keys : recorded' = [recorded EXCEPT ![k] = @ + 1]
  BY DEF Next, Record, RecordHit, RecordOverflows, RecordIgnored, Recorded, FlushStep,
     BeginFlush, NothingPending, NextBatch, RetryBatch, SendSaturate, Acknowledge,
     ClearLocal, FlushFails, Crash, ExpireSeq, Run, RunFlushScript, RunSaturateScript,
     LoseRequest, vars
<1>3. recorded \in [Keys -> Nat]
  BY DEF IInv, TypeOK, Tally
<1>4. \A k \in Keys : recorded'[k] = recorded[k] \/ recorded'[k] = recorded[k] + 1
  BY <1>2, <1>3
<1>5. \A k \in Keys : recorded[k] > 0 => recorded'[k] > 0
  BY <1>1, <1>4
<1>6. AllRecorded \subseteq AllRecorded' /\ AllRecorded' \in SUBSET Keys
  BY <1>5 DEF AllRecorded
<1>7. TooLargeForRedis => TooLargeForRedis'
  <2>1. SumOver(RedisCost, AllRecorded) <= SumOver(RedisCost, AllRecorded')
    BY <1>6, CostOfPart
  <2>2. SumOver(RedisCost, AllRecorded) \in Nat /\ SumOver(RedisCost, AllRecorded') \in Nat
    BY <1>6, CostsAreNat DEF AllRecorded
  <2>3. TooLargeForRedis' <=> SumOver(RedisCost, AllRecorded') > MaxBytes
    BY DEF TooLargeForRedis
  <2> QED
    BY <2>1, <2>2, <2>3, Costs DEF TooLargeForRedis
<1> QED
  BY <1>6, <1>7

(***************************************************************************)
(* A replica that overflows has more keys than fit, and they cost more in  *)
(* Redis than in its memory.                                               *)
(***************************************************************************)
LEMMA OverflowIsJustified ==
    ASSUME IInv, BudgetInv, CauseInv, NEW r \in Replicas, NEW k \in Keys,
           RecordOverflows(r, k)
    PROVE  TooLargeForRedis'
<1>1. NoRoom(r, k) /\ recorded' = [recorded EXCEPT ![k] = @ + 1]
  BY DEF RecordOverflows, Recorded
<1>2. held[r] \in SUBSET Keys /\ usedBytes[r] \in Nat /\ recorded \in [Keys -> Nat]
  BY DEF IInv, TypeOK, BudgetInv, Tally
<1> DEFINE ks == held[r] \cup {k}
<1>3. ks \in SUBSET Keys /\ k \notin held[r]
  BY <1>1, <1>2 DEF NoRoom
<1>4. ks \subseteq AllRecorded'
  <2>1. recorded'[k] > 0
    BY <1>1, <1>2
  <2>2. \A x \in held[r] : x \in AllRecorded
    BY <1>2 DEF CauseInv, HitsAreRecorded, BudgetInv, ReplicaBudget
  <2>3. \A x \in AllRecorded : recorded'[x] > 0
    BY <1>1, <1>2 DEF AllRecorded
  <2> QED
    BY <1>3, <2>1, <2>2, <2>3 DEF AllRecorded
<1>5. SumOver(LocalCost, ks) = LocalCost[k] + SumOver(LocalCost, held[r])
  <2>1. IsFiniteSet(held[r]) /\ \A x \in held[r] \cup {k} : LocalCost[x] \in Nat
    BY <1>2, KeysAreFinite, Costs
  <2> QED
    BY <1>3, <2>1, SumWith
<1> HIDE DEF ks
<1>6. SumOver(LocalCost, ks) > MaxBytes
  <2>1. usedBytes[r] = SumOver(LocalCost, held[r])
    BY DEF BudgetInv, ReplicaBudget
  <2>2. usedBytes[r] + LocalCost[k] > MaxBytes
    BY <1>1 DEF NoRoom
  <2> QED
    BY <1>2, <1>5, <2>1, <2>2, Costs
<1>7. SumOver(LocalCost, ks) <= SumOver(RedisCost, ks)
  <2>1. /\ IsFiniteSet(ks)
        /\ \A x \in ks : LocalCost[x] \in Nat
        /\ \A x \in ks : RedisCost[x] \in Nat
        /\ \A x \in ks : LocalCost[x] <= RedisCost[x]
    BY <1>3, KeysAreFinite, Costs
  <2> QED
    BY <2>1, SumGrows
<1>8. AllRecorded' \in SUBSET Keys
  BY DEF AllRecorded
<1>9. SumOver(RedisCost, ks) <= SumOver(RedisCost, AllRecorded')
  BY <1>4, <1>8, CostOfPart
<1>10. /\ SumOver(LocalCost, ks) \in Nat /\ SumOver(RedisCost, ks) \in Nat
       /\ SumOver(RedisCost, AllRecorded') \in Nat
  BY <1>3, <1>8, CostsAreNat
<1>11. SumOver(RedisCost, AllRecorded') > MaxBytes
  BY <1>6, <1>7, <1>9, <1>10, Costs
<1> QED
  BY <1>11 DEF TooLargeForRedis

(***************************************************************************)
(* A batch that does not fit was recorded, like the members it meets.      *)
(***************************************************************************)
LEMMA RefusalIsJustified ==
    ASSUME IInv, BudgetInv, CauseInv, NEW m \in requests, m.kind = "flush", ~Fits(m)
    PROVE  TooLargeForRedis
<1> DEFINE ks == {k \in Keys : counts[k] > 0 \/ m.hits[k] > 0}
<1>1. NewUsed(m) = SumOver(RedisCost, ks)
  BY Charge
<1>2. ks \in SUBSET AllRecorded /\ AllRecorded \in SUBSET Keys /\ ks \in SUBSET Keys
  BY DEF CauseInv, HitsAreRecorded, AllRecorded
<1> HIDE DEF ks
<1>3. SumOver(RedisCost, ks) <= SumOver(RedisCost, AllRecorded)
  BY <1>2, CostOfPart
<1>4. SumOver(RedisCost, ks) \in Nat /\ SumOver(RedisCost, AllRecorded) \in Nat
  BY <1>2, CostsAreNat
<1>5. SumOver(RedisCost, ks) > MaxBytes
  BY <1>1 DEF Fits
<1> QED
  BY <1>3, <1>4, <1>5, Costs DEF TooLargeForRedis

LEMMA RecordedStays ==
    ASSUME IInv, [Next]_vars, HitsAreRecorded,
           \A k \in Keys :
               /\ \A r \in Replicas :
                     n'[r][k] > 0 => n[r][k] > 0 \/ k \in AllRecorded'
               /\ counts'[k] > 0 => k \in AllRecorded
               /\ \A m \in requests' :
                     m \in requests \/ (m.kind = "flush" => (m.hits[k] > 0 => k \in AllRecorded))
    PROVE  HitsAreRecorded'
BY RecordedGrows DEF HitsAreRecorded

LEMMA HitsStayRecorded ==
    ASSUME IInv, [Next]_vars, HitsAreRecorded
    PROVE  HitsAreRecorded'
<1>1. /\ n \in [Replicas -> [Keys -> Nat]] /\ recorded \in [Keys -> Nat]
      /\ counts \in [Keys -> Nat] /\ held \in [Replicas -> SUBSET Keys]
  BY DEF IInv, TypeOK, Tally
<1>2. \A r \in Replicas, k \in Keys : sent[r][k] \in Nat /\ sent[r][k] <= n[r][k]
  BY BatchType DEF IInv, ExactlyOnceInv, BatchIsSent, Tally
<1>3. ASSUME NEW r \in Replicas, NEW k \in Keys, Record(r, k)
      PROVE  HitsAreRecorded'
  <2>1. /\ UNCHANGED <<counts, requests>>
        /\ recorded' = [recorded EXCEPT ![k] = @ + 1]
        /\ n' = n \/ n' = [n EXCEPT ![r][k] = @ + 1]
    BY <1>3 DEF Record, RecordHit, RecordOverflows, RecordIgnored, Recorded,
       localVars, redisVars
  <2>2. k \in AllRecorded'
    BY <1>1, <2>1 DEF AllRecorded
  <2>3. \A s \in Replicas, x \in Keys : n'[s][x] > 0 => n[s][x] > 0 \/ x = k
    BY <1>1, <2>1
  <2> QED
    BY <2>1, <2>2, <2>3, RecordedStays DEF HitsAreRecorded
<1>4. ASSUME NEW r \in Replicas,
             \/ BeginFlush(r) \/ NothingPending(r) \/ FlushFails(r) \/ Crash(r)
             \/ ExpireSeq(r) \/ SendSaturate(r)
      PROVE  HitsAreRecorded'
  <2>1. /\ UNCHANGED <<n, counts>>
        /\ \A m \in requests' : m \in requests \/ m.kind = "saturate"
    BY <1>4 DEF BeginFlush, NothingPending, FlushFails, Crash, ExpireSeq, SendSaturate,
       localVars, redisVars
  <2> QED
    BY <2>1, RecordedStays DEF HitsAreRecorded
<1>5. ASSUME NEW r \in Replicas, NextBatch(r) \/ RetryBatch(r)
      PROVE  HitsAreRecorded'
  <2>1. /\ UNCHANGED <<n, counts>>
        /\ \A m \in requests' : m \in requests \/ m.hits \in {n[r], sent[r]}
    <3>1. CASE NextBatch(r)
      BY <3>1 DEF NextBatch, redisVars
    <3>2. CASE RetryBatch(r)
      <4>1. batch[r] # NoBatch /\ batch[r].hits = sent[r]
        BY <3>2 DEF RetryBatch, IInv, ExactlyOnceInv, BatchIsSent
      <4> QED
        BY <3>2, <4>1 DEF RetryBatch, CallOf, localVars, redisVars
    <3> QED
      BY <1>5, <3>1, <3>2
  <2>2. \A k \in Keys : n[r][k] \in Nat /\ (n[r][k] > 0 \/ sent[r][k] > 0 => n[r][k] > 0)
    BY <1>1, <1>2
  <2>3. \A k \in Keys : \A m \in requests' :
            m \in requests \/ (m.hits[k] > 0 => k \in AllRecorded)
    BY <2>1, <2>2 DEF HitsAreRecorded
  <2> QED
    BY <2>1, <2>3, RecordedStays DEF HitsAreRecorded
<1>6. ASSUME NEW r \in Replicas, Acknowledge(r) \/ ClearLocal(r)
      PROVE  HitsAreRecorded'
  <2>1. /\ UNCHANGED <<counts, requests>>
        /\ n' = [n EXCEPT ![r] = Left(r)] \/ n' = [n EXCEPT ![r] = NoHits]
    BY <1>6 DEF Acknowledge, ClearLocal, redisVars
  <2>2. \A k \in Keys : /\ NoHits[k] = 0 /\ Left(r)[k] = n[r][k] - sent[r][k]
                        /\ n[r][k] \in Nat
    BY <1>1 DEF NoHits, Left
  <2>3. \A k \in Keys : NoHits[k] > 0 \/ Left(r)[k] > 0 => n[r][k] > 0
    BY <1>2, <2>2
  <2>4. \A s \in Replicas, k \in Keys : n'[s][k] > 0 => n[s][k] > 0
    BY <1>1, <2>1, <2>3
  <2> QED
    BY <2>1, <2>4, RecordedStays DEF HitsAreRecorded
<1>7. ASSUME NEW m \in requests, Run(m) \/ LoseRequest(m)
      PROVE  HitsAreRecorded'
  <2>1. n' = n /\ requests' \subseteq requests
    BY <1>7 DEF Run, RunFlushScript, RunSaturateScript, LoseRequest, Deliver, localVars
  <2>2. \A k \in Keys : counts'[k] > 0 => k \in AllRecorded
    <3>1. \/ counts' = counts
          \/ counts' = NoHits
          \/ m.kind = "flush" /\ counts' = [k \in Keys |-> counts[k] + m.hits[k]]
      BY <1>7 DEF Run, RunFlushScript, RunSaturateScript, LoseRequest, FlushScript,
         WipeAndSaturate, ApplyBatch, redisVars
    <3>2. m.kind = "flush" => \A k \in Keys : m.hits[k] \in Nat
      BY FlushRequestType DEF IInv, FlushRequest, Tally
    <3>3. \A k \in Keys : counts[k] \in Nat /\ NoHits[k] = 0
      BY <1>1 DEF NoHits
    <3>4. \A k \in Keys : counts'[k] > 0 =>
              counts[k] > 0 \/ (m.kind = "flush" /\ m.hits[k] > 0)
      BY <3>1, <3>2, <3>3
    <3> QED
      BY <3>4 DEF HitsAreRecorded
  <2> QED
    BY <2>1, <2>2, RecordedStays DEF HitsAreRecorded
<1>8. CASE UNCHANGED vars
  BY <1>8 DEF vars, localVars, redisVars, HitsAreRecorded, AllRecorded
<1> QED
  BY <1>3, <1>4, <1>5, <1>6, <1>7, <1>8 DEF Next, FlushStep

THEOREM CauseNext == IInv /\ BudgetInv /\ CauseInv /\ [Next]_vars => CauseInv'
<1> SUFFICES ASSUME IInv, BudgetInv, CauseInv, [Next]_vars PROVE CauseInv'
  OBVIOUS
<1>1. HitsAreRecorded'
  BY HitsStayRecorded DEF CauseInv
<1>2. TooLargeForRedis => TooLargeForRedis'
  BY RecordedGrows
<1> SUFFICES ASSUME ~TooLargeForRedis' PROVE WhySaturated'
  BY <1>1 DEF CauseInv, WhySaturated
<1>3. /\ ~saturated
      /\ \A r \in Replicas :
            ~overflow[r] /\ phase[r] \notin {"saturate", "saturating", "cleared"}
      /\ \A m \in requests : m.kind # "saturate"
  BY <1>2 DEF CauseInv, WhySaturated
<1>4. phase \in [Replicas -> Phases] /\ overflow \in [Replicas -> BOOLEAN]
  BY DEF IInv, TypeOK
<1>5. ASSUME NEW r \in Replicas, NEW k \in Keys, Record(r, k)
      PROVE  WhySaturated'
  <2>1. ~RecordOverflows(r, k)
    BY OverflowIsJustified
  <2>2. UNCHANGED <<saturated, overflow, phase, requests>>
    BY <1>5, <2>1 DEF Record, RecordHit, RecordIgnored, localVars, flushVars, redisVars
  <2> QED
    BY <1>3, <2>2 DEF WhySaturated
<1>6. ASSUME NEW r \in Replicas,
             FlushStep(r) \/ FlushFails(r) \/ Crash(r) \/ ExpireSeq(r)
      PROVE  WhySaturated'
  <2>1. ~SendSaturate(r) /\ ~ClearLocal(r)
    BY <1>3 DEF SendSaturate, ClearLocal, Move
  <2>2. /\ UNCHANGED <<saturated, overflow>>
        /\ \/ phase' = phase
           \/ \E to \in {"idle", "batch", "flushing", "down"} :
                 phase' = [phase EXCEPT ![r] = to]
        /\ \A m \in requests' : m \in requests \/ m.kind = "flush"
    BY <1>3, <1>6, <2>1 DEF FlushStep, BeginFlush, NothingPending, NextBatch, RetryBatch,
       Acknowledge, FlushFails, Crash, ExpireSeq, Move, CallOf, localVars, flushVars, redisVars
  <2>3. \A s \in Replicas : phase'[s] \notin {"saturate", "saturating", "cleared"}
    BY <1>3, <1>4, <2>2
  <2> QED
    BY <1>3, <2>2, <2>3 DEF WhySaturated
<1>7. ASSUME NEW m \in requests, Run(m) \/ LoseRequest(m)
      PROVE  WhySaturated'
  <2>1. m.kind # "saturate" /\ (m.kind = "flush" => Fits(m))
    BY <1>2, <1>3, RefusalIsJustified
  <2>2. /\ UNCHANGED <<saturated, overflow>>
        /\ requests' \subseteq requests
        /\ \/ phase' = phase
           \/ phase' = [phase EXCEPT ![m.from] = "applied"]
    BY <1>3, <1>7, <2>1 DEF Run, RunFlushScript, RunSaturateScript, LoseRequest, Deliver,
       FlushScript, ApplyBatch, Reply, Move, localVars, flushVars, redisVars
  <2>3. \A s \in Replicas : phase'[s] \notin {"saturate", "saturating", "cleared"}
    BY <1>3, <1>4, <2>2
  <2> QED
    BY <1>3, <2>2, <2>3 DEF WhySaturated
<1>8. CASE UNCHANGED vars
  BY <1>3, <1>8 DEF vars, localVars, flushVars, redisVars, WhySaturated
<1> QED
  BY <1>5, <1>6, <1>7, <1>8 DEF Next

LEMMA CauseInvariance == Spec => []CauseInv
BY CauseInit, CauseNext, BudgetInvariance, Invariance, PTL DEF Spec

(***************************************************************************)
(* /stats gets unavailable only when no budget of this size is enough.     *)
(***************************************************************************)
THEOREM SaturationIsAlwaysJustified == Spec => []SaturationIsJustified
<1>1. CauseInv => SaturationIsJustified
  <2>1. Total(RedisCost, {k \in Keys : recorded[k] > 0}) = SumOver(RedisCost, AllRecorded)
    BY SumIsFold DEF Total, AllRecorded
  <2> QED
    BY <2>1 DEF CauseInv, WhySaturated, SaturationIsJustified, TooLargeForRedis
<1> QED
  BY <1>1, CauseInvariance, PTL

-----------------------------------------------------------------------------
(***************************************************************************)
(*                              The service                                *)
(***************************************************************************)

(***************************************************************************)
(* The steps that leave the store alone.                                   *)
(***************************************************************************)
LEMMA HandlerMaps ==
    ASSUME NEW r \in Replicas, Handlers(r)
    PROVE  [Next]_vars
<1>1. CASE TopFlushes(r) \/ LastFlush(r)
  BY <1>1 DEF TopFlushes, LastFlush, Lock, Next, FlushStep
<1>2. CASE FlushSends(r)
  BY <1>2 DEF FlushSends, Next, FlushStep
<1>3. CASE FlushSucceeds(r)
  BY <1>3 DEF FlushSucceeds, Next, FlushStep
<1>4. CASE FlushErrs(r)
  BY <1>4 DEF FlushErrs, Next
<1>5. CASE Exists(r) \/ ZRevRange(r) \/ TopErrs(r)
  BY <1>5 DEF Exists, ZRevRange, TopErrs, Finish
<1>6. CASE ResponseSent(r) \/ Drained(r)
  BY <1>6 DEF ResponseSent, Drained
<1>7. QED
  BY <1>1, <1>2, <1>3, <1>4, <1>5, <1>6 DEF Handlers

LEMMA StepMaps == [ServiceNext]_allVars => [Next]_vars
<1> SUFFICES ASSUME [ServiceNext]_allVars PROVE [Next]_vars
  OBVIOUS
<1>1. ASSUME NEW r \in Replicas, NEW k \in Keys, Fizzbuzz(r, k)
      PROVE  [Next]_vars
  BY <1>1 DEF Fizzbuzz, Next
<1>2. ASSUME NEW r \in Replicas, Statistics(r) \/ Tick(r) \/ Shutdown(r)
      PROVE  [Next]_vars
  BY <1>2 DEF Statistics, Tick, Lock, Shutdown, Next, FlushStep
<1>3. ASSUME NEW r \in Replicas, Expires(r) \/ Killed(r)
      PROVE  [Next]_vars
  BY <1>3 DEF Expires, Killed, Next
<1>4. CASE RedisRuns
  BY <1>4 DEF RedisRuns, Next
<1>5. CASE UNCHANGED allVars
  BY <1>5 DEF allVars
<1>6. QED
  BY <1>1, <1>2, <1>3, <1>4, <1>5, HandlerMaps DEF ServiceNext

(***************************************************************************)
(* The handlers, the loop and the shutdown use the store as RedisStore     *)
(* says: every behaviour of the service is a behaviour of RedisStore.      *)
(***************************************************************************)
THEOREM ServiceUsesStore == ServiceSpec => Spec
<1>1. ServiceInit => Init
  BY DEF ServiceInit
<1>2. QED
  BY <1>1, StepMaps, PTL DEF ServiceSpec, Spec

(***************************************************************************)
(* So the service counts each hit exactly one time: it implements the      *)
(* contract of statsStore (stats.go:15), whatever the handlers, the ticker *)
(* and the shutdown do.                                                    *)
(***************************************************************************)
THEOREM ServiceCountsExactly == ServiceSpec => ExactlyOnce
BY ServiceUsesStore, RedisImplementsContract, PTL

LEMMA StoreInv == ServiceSpec => []IInv
BY ServiceUsesStore, Invariance, PTL

-----------------------------------------------------------------------------
(***************************************************************************)
(* What a script does to Redis: it saturates the store, or no count falls. *)
(***************************************************************************)
Grows == saturated' \/ (~saturated /\ \A k \in Keys : counts[k] <= counts'[k])

ScriptFrame ==
    /\ UNCHANGED <<localVars, seq, batch>>
    /\ result' \in [Replicas -> 0..2]
    /\ \A r \in Replicas :
          \/ phase'[r] = phase[r] /\ result'[r] = result[r]
          \/ /\ phase[r] = "flushing" /\ phase'[r] = "applied"
             /\ result'[r] = 2 => saturated'
          \/ phase[r] = "saturating" /\ phase'[r] = "cleared" /\ result'[r] = 0

LEMMA RunEffect ==
    ASSUME IInv, NEW m \in requests, Run(m)
    PROVE  Grows /\ ScriptFrame
<1> USE DEF IInv
<1>1. CASE RunFlushScript(m)
  <2>1. m.kind = "flush"
    BY <1>1 DEF RunFlushScript
  <2>2. m.from \in Replicas /\ m.hits \in Tally
    BY <2>1, FlushRequestType DEF FlushRequest
  <2>3. PICK res \in 0..2 :
          /\ FlushScript(m, res)
          /\ IF batch[m.from].seq = m.seq
             THEN Reply(m.from, "flushing", "applied", res)
             ELSE UNCHANGED <<phase, result>>
    BY <1>1 DEF RunFlushScript
  <2>4. Grows /\ (res = 2 => saturated')
    BY <2>2, <2>3 DEF FlushScript, WipeAndSaturate, ApplyBatch, redisVars,
                      Grows, TypeOK, Tally
  <2>5. UNCHANGED <<localVars, seq, batch>>
    BY <1>1 DEF RunFlushScript
  <2>6. CASE UNCHANGED <<phase, result>>
    BY <2>4, <2>5, <2>6 DEF ScriptFrame, TypeOK
  <2>7. CASE Move(m.from, "flushing", "applied")
             /\ result' = [result EXCEPT ![m.from] = res]
    BY <2>2, <2>4, <2>5, <2>7 DEF ScriptFrame, TypeOK, Move
  <2>8. QED
    BY <2>3, <2>4, <2>6, <2>7 DEF Reply
<1>2. CASE RunSaturateScript(m)
  <2>1. m.from \in Replicas
    BY <1>2, SaturateRequestType DEF RunSaturateScript, SaturateRequest
  <2>2. Grows
    BY <1>2 DEF RunSaturateScript, WipeAndSaturate, Grows
  <2>3. UNCHANGED <<localVars, seq, batch>>
    BY <1>2 DEF RunSaturateScript
  <2>4. \/ UNCHANGED <<phase, result>>
        \/ /\ Move(m.from, "saturating", "cleared")
           /\ result' = [result EXCEPT ![m.from] = 0]
    BY <1>2 DEF RunSaturateScript, Reply
  <2>5. QED
    BY <2>1, <2>2, <2>3, <2>4 DEF ScriptFrame, TypeOK, Move
<1>3. QED
  BY <1>1, <1>2 DEF Run

LEMMA LoseEffect ==
    ASSUME NEW m \in requests, LoseRequest(m)
    PROVE  UNCHANGED <<localVars, flushVars, redisVars>>
BY DEF LoseRequest

(***************************************************************************)
(* The steps of a replica leave Redis alone.                               *)
(***************************************************************************)
LEMMA FlushStepEffect ==
    ASSUME NEW r \in Replicas, FlushStep(r) \/ FlushFails(r) \/ Crash(r)
    PROVE  UNCHANGED redisVars
BY DEF FlushStep, FlushFails, Crash, BeginFlush, NothingPending, NextBatch,
       RetryBatch, SendSaturate, Acknowledge, ClearLocal

LEMMA RecordEffect ==
    ASSUME NEW r \in Replicas, NEW k \in Keys, Record(r, k)
    PROVE  UNCHANGED <<redisVars, flushVars, sent>>
BY DEF Record, RecordHit, RecordOverflows, RecordIgnored, localVars

(***************************************************************************)
(* Redis never forgets that it is saturated, and no count falls before.    *)
(***************************************************************************)
LEMMA StoreGrows == IInv /\ [Next]_vars => (saturated => saturated') /\
                    (saturated' \/ \A k \in Keys : counts[k] <= counts'[k])
<1> SUFFICES ASSUME IInv, [Next]_vars
             PROVE  /\ saturated => saturated'
                    /\ saturated' \/ \A k \in Keys : counts[k] <= counts'[k]
  OBVIOUS
<1>1. counts \in [Keys -> Nat]
  BY DEF IInv, TypeOK, Tally
<1>2. CASE UNCHANGED <<saturated, counts>>
  BY <1>1, <1>2
<1>3. ASSUME NEW m \in requests, Run(m) PROVE Grows
  BY <1>3, RunEffect
<1>4. ASSUME NEW r \in Replicas, ExpireSeq(r) PROVE UNCHANGED <<saturated, counts>>
  BY <1>4 DEF ExpireSeq
<1>5. CASE UNCHANGED vars
  BY <1>2, <1>5 DEF vars, redisVars
<1>6. QED
  BY <1>2, <1>3, <1>4, <1>5, FlushStepEffect, RecordEffect, LoseEffect
     DEF Next, Grows, redisVars

-----------------------------------------------------------------------------
(***************************************************************************)
(* More of the store: the keys of s.pending are those with hits, a script  *)
(* that returned 2 did saturate Redis, and a replica forgets its overflow  *)
(* only then.                                                              *)
(***************************************************************************)
HeldIsPending == \A r \in Replicas : held[r] = {k \in Keys : n[r][k] > 0}

ResultIsTrue == \A r \in Replicas : result[r] = 2 => saturated

StoreFacts == HeldIsPending /\ ResultIsTrue

OverflowKept == \A r \in Replicas : overflow[r] => overflow'[r] \/ saturated'

LEMMA RecordKeepsFacts ==
    ASSUME IInv, StoreFacts, NEW r \in Replicas, NEW k \in Keys, Record(r, k)
    PROVE  StoreFacts' /\ OverflowKept
<1> USE DEF IInv, TypeOK, StoreFacts
<1>1. ResultIsTrue'
  BY RecordEffect DEF ResultIsTrue, redisVars, flushVars
<1>2. CASE RecordHit(r, k)
  <2>1. n[r] \in [Keys -> Nat]
    BY DEF Tally
  <2>2. /\ n' = [n EXCEPT ![r][k] = @ + 1]
        /\ held' = [held EXCEPT ![r] = @ \cup {k}]
        /\ UNCHANGED overflow
    BY <1>2 DEF RecordHit
  <2>3. {x \in Keys : n'[r][x] > 0} = {x \in Keys : n[r][x] > 0} \cup {k}
    BY <2>1, <2>2
  <2>4. QED
    BY <1>1, <2>2, <2>3 DEF HeldIsPending, OverflowKept
<1>3. CASE RecordOverflows(r, k)
  BY <1>1, <1>3 DEF RecordOverflows, HeldIsPending, OverflowKept
<1>4. CASE RecordIgnored(r, k)
  BY <1>1, <1>4 DEF RecordIgnored, localVars, HeldIsPending, OverflowKept
<1>5. QED
  BY <1>2, <1>3, <1>4 DEF Record

LEMMA FlushKeepsFacts ==
    ASSUME IInv, StoreFacts, NEW r \in Replicas, FlushStep(r)
    PROVE  StoreFacts' /\ OverflowKept
<1> USE DEF IInv, TypeOK, StoreFacts
<1>1. UNCHANGED saturated
  BY FlushStepEffect DEF redisVars
<1>2. CASE BeginFlush(r) \/ NothingPending(r) \/ RetryBatch(r) \/ SendSaturate(r)
  BY <1>1, <1>2 DEF BeginFlush, NothingPending, RetryBatch, SendSaturate,
                    localVars, HeldIsPending, ResultIsTrue, OverflowKept
<1>3. CASE NextBatch(r)
  BY <1>1, <1>3 DEF NextBatch, HeldIsPending, ResultIsTrue, OverflowKept
<1>4. CASE Acknowledge(r)
  <2>1. n[r] \in [Keys -> Nat] /\ sent[r] \in [Keys -> Nat]
    BY DEF Tally
  <2>2. \A k \in Keys : sent[r][k] <= n[r][k]
    BY DEF ExactlyOnceInv, BatchIsSent
  <2>3. /\ n' = [n EXCEPT ![r] = Left(r)]
        /\ held' = [held EXCEPT ![r] = @ \ {k \in held[r] : Left(r)[k] = 0}]
        /\ result' = [result EXCEPT ![r] = 0]
        /\ UNCHANGED overflow
    BY <1>4 DEF Acknowledge
  <2>4. held'[r] = {k \in Keys : n'[r][k] > 0}
    BY <2>1, <2>2, <2>3 DEF HeldIsPending, Left
  <2>5. QED
    BY <1>1, <2>3, <2>4 DEF HeldIsPending, ResultIsTrue, OverflowKept
<1>5. CASE ClearLocal(r)
  <2>1. saturated
    BY <1>5 DEF ClearLocal, Move, ExactlyOnceInv, RepliesAreTrue
  <2>2. {k \in Keys : NoHits[k] > 0} = {}
    BY DEF NoHits
  <2>3. QED
    BY <1>1, <1>5, <2>1, <2>2
       DEF ClearLocal, HeldIsPending, ResultIsTrue, OverflowKept
<1>6. QED
  BY <1>2, <1>3, <1>4, <1>5 DEF FlushStep

LEMMA StepKeepsFacts == IInv /\ StoreFacts /\ [Next]_vars => StoreFacts' /\ OverflowKept
<1> SUFFICES ASSUME IInv, StoreFacts, [Next]_vars PROVE StoreFacts' /\ OverflowKept
  OBVIOUS
<1> USE DEF StoreFacts
<1>1. CASE UNCHANGED <<localVars, result, saturated>>
  BY <1>1 DEF localVars, HeldIsPending, ResultIsTrue, OverflowKept
<1>2. ASSUME NEW r \in Replicas, FlushFails(r) \/ Crash(r) \/ ExpireSeq(r)
      PROVE  UNCHANGED <<localVars, result, saturated>>
  BY <1>2 DEF FlushFails, Crash, ExpireSeq, redisVars, flushVars
<1>3. ASSUME NEW m \in requests, Run(m) PROVE StoreFacts' /\ OverflowKept
  BY <1>3, RunEffect, StoreGrows
     DEF ScriptFrame, localVars, HeldIsPending, ResultIsTrue, OverflowKept
<1>4. ASSUME NEW m \in requests, LoseRequest(m)
      PROVE  UNCHANGED <<localVars, result, saturated>>
  BY <1>4, LoseEffect DEF flushVars, redisVars
<1>5. CASE UNCHANGED vars
  BY <1>1, <1>5 DEF vars, redisVars, flushVars
<1>6. QED
  BY <1>1, <1>2, <1>3, <1>4, <1>5, RecordKeepsFacts, FlushKeepsFacts DEF Next

-----------------------------------------------------------------------------
(***************************************************************************)
(* No hit is lost. While nothing overflows and Redis is not saturated, the *)
(* hits of a key that were recorded are in Redis or wait in one replica.   *)
(***************************************************************************)
WaitingFor(k) == [r \in Replicas |-> waitingMap[r][k]]

NothingOverflows == ~saturated /\ \A r \in Replicas : ~overflow[r]

IsPlaced(k) == recorded[k] = counts[k] + SumOver(WaitingFor(k), Replicas)

PlaceInv == NothingOverflows => \A k \in Keys : IsPlaced(k)

LEMMA ReplicasAreFinite == IsFiniteSet(Replicas)
BY CostAssumption

LEMMA WaitingForIsNat ==
    ASSUME IInv, NEW k \in Keys
    PROVE  WaitingFor(k) \in [Replicas -> Nat]
BY WaitingType DEF WaitingFor, waitingMap, Tally

LEMMA PlaceInit == Init => PlaceInv
<1> SUFFICES ASSUME Init, NEW k \in Keys PROVE IsPlaced(k)
  BY DEF PlaceInv
<1>1. \A r \in Replicas : waitingMap[r][k] = 0
  BY DEF Init, waitingMap, Waiting, Applied, NoHits
<1>2. SumOver(WaitingFor(k), Replicas) = 0
  BY <1>1, ReplicasAreFinite, SumOfZeros DEF WaitingFor
<1> QED
  BY <1>2 DEF Init, IsPlaced, NoHits

\* Nothing moves.
LEMMA PlaceKept ==
    ASSUME PlaceInv, NothingOverflows, NEW k \in Keys,
           UNCHANGED <<waitingMap, counts, recorded>>
    PROVE  IsPlaced(k)'
<1>1. WaitingFor(k)' = WaitingFor(k)
  BY DEF WaitingFor
<1>2. SumOver(WaitingFor(k), Replicas)' = SumOver(WaitingFor(k), Replicas)
  BY <1>1
<1> QED
  BY <1>2 DEF PlaceInv, IsPlaced

\* A hit that leaves a place arrives at another one.
Balanced(k, r) == recorded'[k] + counts[k] + waitingMap[r][k]
                      = recorded[k] + counts'[k] + waitingMap'[r][k]

\* One replica changes what waits there, and the hits are still somewhere.
LEMMA PlaceMoves ==
    ASSUME IInv, IInv', PlaceInv, NothingOverflows, NEW k \in Keys, NEW r \in Replicas,
           waitingMap'[r][k] \in Nat,
           \A s \in Replicas \ {r} : waitingMap'[s][k] = waitingMap[s][k],
           Balanced(k, r)
    PROVE  IsPlaced(k)'
<1> DEFINE f == WaitingFor(k)
           g == WaitingFor(k)'
<1>1. f \in [Replicas -> Nat]
  BY WaitingForIsNat
<1>2. \A s \in Replicas : f[s] = waitingMap[s][k] /\ g[s] = waitingMap'[s][k]
  BY DEF WaitingFor
<1>3. /\ \A s \in Replicas : f[s] \in Nat
      /\ \A s \in Replicas \ {r} : g[s] = f[s]
      /\ \A s \in Replicas : g[s] \in Nat
  BY <1>1, <1>2
<1>4. recorded[k] = counts[k] + SumOver(f, Replicas)
  BY DEF PlaceInv, IsPlaced
<1>5. IsPlaced(k)' <=> recorded'[k] = counts'[k] + SumOver(g, Replicas)
  BY DEF IsPlaced
<1> HIDE DEF f, g
<1>6. SumOver(g, Replicas) = (SumOver(f, Replicas) - f[r]) + g[r]
  BY <1>3, ReplicasAreFinite, SumChange
<1>7. SumOver(f, Replicas) \in Nat /\ f[r] \in Nat /\ g[r] \in Nat
  BY <1>3, ReplicasAreFinite, SumIsNat
<1>8. recorded[k] \in Nat /\ counts[k] \in Nat /\ recorded'[k] \in Nat /\ counts'[k] \in Nat
  BY DEF IInv, TypeOK, Tally
<1>9. recorded'[k] + counts[k] + f[r] = recorded[k] + counts'[k] + g[r]
  BY <1>2 DEF Balanced
<1> DEFINE rec == recorded[k]
           rec2 == recorded'[k]
           cnt == counts[k]
           cnt2 == counts'[k]
           sum == SumOver(f, Replicas)
           sum2 == SumOver(g, Replicas)
<1>10. rec \in Nat /\ rec2 \in Nat /\ cnt \in Nat /\ cnt2 \in Nat /\ sum \in Nat
  BY <1>7, <1>8
<1>11. rec = cnt + sum /\ rec2 + cnt + f[r] = rec + cnt2 + g[r] /\ sum2 = (sum - f[r]) + g[r]
  BY <1>4, <1>6, <1>9
<1> HIDE DEF rec, rec2, cnt, cnt2, sum, sum2
<1>12. rec2 = cnt2 + sum2
  BY <1>7, <1>10, <1>11
<1> QED
  BY <1>5, <1>12 DEF rec2, cnt2, sum2

THEOREM PlaceNext ==
    IInv /\ StoreFacts /\ PlaceInv /\ [Next]_vars => PlaceInv'
<1> SUFFICES ASSUME IInv, StoreFacts, PlaceInv, [Next]_vars,
                    NothingOverflows', NEW k \in Keys
             PROVE  IsPlaced(k)'
  BY DEF PlaceInv
<1>1. IInv'
  BY NextKeeps
<1>2. NothingOverflows /\ ~saturated
  BY StoreGrows, StepKeepsFacts DEF NothingOverflows, OverflowKept
<1>3. CASE UNCHANGED Contract!vars /\ recorded' = recorded
  BY <1>2, <1>3, PlaceKept DEF Contract!vars, waitingMap
<1>4. ASSUME NEW r \in Replicas,
             BeginFlush(r) \/ NothingPending(r) \/ RetryBatch(r)
             \/ SendSaturate(r) \/ FlushFails(r) \/ Crash(r)
      PROVE  UNCHANGED Contract!vars /\ recorded' = recorded
  BY <1>4, QuietStepSimulates DEF BeginFlush, NothingPending, RetryBatch,
     SendSaturate, FlushFails, Crash, localVars, redisVars
<1>5. ASSUME NEW r \in Replicas,
             NextBatch(r) \/ Acknowledge(r) \/ ClearLocal(r) \/ ExpireSeq(r)
      PROVE  UNCHANGED Contract!vars /\ recorded' = recorded
  BY <1>2, <1>5, NextBatchSimulates, AcknowledgeSimulates, ClearLocalSimulates,
     ExpireSeqSimulates DEF NextBatch, Acknowledge, ClearLocal, ExpireSeq
<1>6. ASSUME UNCHANGED vars PROVE UNCHANGED Contract!vars /\ recorded' = recorded
  BY <1>6, QuietStepSimulates DEF vars, localVars, flushVars, redisVars
<1>7. ASSUME NEW m \in requests, LoseRequest(m)
      PROVE  UNCHANGED Contract!vars /\ recorded' = recorded
  BY <1>7, QuietStepSimulates DEF LoseRequest, localVars, flushVars, redisVars
<1>8. ASSUME NEW m \in requests, Run(m)
      PROVE  IsPlaced(k)'
  <2>1. m.kind = "flush" /\ UNCHANGED <<n, sent, batch, recorded>>
    BY <1>2, <1>8, WipeEffect DEF Run, RunFlushScript, RunSaturateScript, localVars,
       NothingOverflows
  <2>2. CASE UNCHANGED redisVars
    BY <1>3, <2>1, <2>2, QuietStepSimulates DEF redisVars
  <2>3. CASE WipeAndSaturate
    BY <2>3, WipeEffect DEF NothingOverflows
  <2>4. CASE ~saturated /\ ~AlreadyApplied(m) /\ ApplyBatch(m)
    <3>1. m.from \in Replicas
      BY <2>1, FlushRequestType DEF IInv, FlushRequest
    <3>2. Contract!Publish(m.from)
      BY <2>1, <2>4, ApplySimulates
    <3>3. /\ counts'[k] + waitingMap'[m.from][k] = counts[k] + waitingMap[m.from][k]
          /\ \A s \in Replicas \ {m.from} : waitingMap'[s] = waitingMap[s]
      BY <3>2 DEF Contract!Publish, waitingMap
    <3>4. /\ counts[k] \in Nat /\ counts'[k] \in Nat /\ recorded[k] \in Nat
          /\ waitingMap[m.from][k] \in Nat
          /\ waitingMap'[m.from][k] \in Nat
      <4>1. /\ counts[k] \in Nat /\ counts'[k] \in Nat /\ recorded[k] \in Nat
        BY <1>1 DEF IInv, TypeOK, Tally
      <4>2. waitingMap[m.from][k] \in Nat
        BY <3>1, WaitingType DEF waitingMap, Tally
      <4>3. waitingMap'[m.from][k] \in Nat
        BY <3>1, <3>2 DEF Contract!Publish, Contract!Tally, waitingMap
      <4> QED
        BY <4>1, <4>2, <4>3
    <3>5. Balanced(k, m.from)
      BY <2>1, <3>3, <3>4 DEF Balanced
    <3> QED
      BY <1>1, <1>2, <3>1, <3>3, <3>4, <3>5, PlaceMoves
  <2> QED
    BY <1>8, <2>1, <2>2, <2>3, <2>4 DEF Run, RunFlushScript, RunSaturateScript, FlushScript
<1>9. ASSUME NEW r \in Replicas, NEW x \in Keys, Record(r, x)
      PROVE  IsPlaced(k)'
  <2>1. ~overflow[r] /\ ~overflow'[r]
    BY <1>2 DEF NothingOverflows
  <2>2. RecordHit(r, x)
    <3>1. ~RecordIgnored(r, x)
      BY <2>1 DEF RecordIgnored
    <3>2. ~RecordOverflows(r, x)
      BY <2>1 DEF RecordOverflows, IInv, TypeOK
    <3> QED
      BY <1>9, <3>1, <3>2 DEF Record
  <2>3. /\ waitingMap' = [waitingMap EXCEPT ![r][x] = @ + 1]
        /\ counts' = counts
    BY <2>2, RecordHitSimulates DEF Contract!CountLocally, waitingMap
  <2>4. recorded' = [recorded EXCEPT ![x] = @ + 1]
    BY <2>2 DEF RecordHit, Recorded
  <2>5. waitingMap \in [Replicas -> [Keys -> Nat]]
    BY WaitingType DEF waitingMap, Tally
  <2>6. recorded \in [Keys -> Nat] /\ counts \in [Keys -> Nat]
    BY DEF IInv, TypeOK, Tally
  <2>7. \A s \in Replicas \ {r} : waitingMap'[s][k] = waitingMap[s][k]
    BY <2>3, <2>5
  <2>8. waitingMap'[r][k] = IF k = x THEN waitingMap[r][k] + 1 ELSE waitingMap[r][k]
    BY <2>3, <2>5
  <2>9. recorded'[k] = IF k = x THEN recorded[k] + 1 ELSE recorded[k]
    BY <2>4, <2>6
  <2>10. recorded[k] \in Nat /\ counts[k] \in Nat /\ waitingMap[r][k] \in Nat
    BY <2>5, <2>6
  <2>11. Balanced(k, r)
    BY <2>3, <2>8, <2>9, <2>10 DEF Balanced
  <2>12. waitingMap'[r][k] \in Nat
    BY <2>8, <2>10
  <2> QED
    BY <1>1, <1>2, <2>7, <2>11, <2>12, PlaceMoves
<1> QED
  BY <1>3, <1>4, <1>5, <1>6, <1>7, <1>8, <1>9 DEF Next, FlushStep

LEMMA StoreFactsAlways == Spec => []StoreFacts
<1>1. Init => StoreFacts
  BY DEF Init, StoreFacts, HeldIsPending, ResultIsTrue, NoHits
<1> QED
  BY <1>1, StepKeepsFacts, Invariance, PTL DEF Spec

(***************************************************************************)
(* A killed replica, a lost call or a late one loses no hit that another   *)
(* replica or Redis has.                                                   *)
(***************************************************************************)
THEOREM NoHitIsEverLost == Spec => []NoHitLost
<1>1. PlaceInv => NoHitLost
  <2> SUFFICES ASSUME PlaceInv, NothingOverflows, NEW k \in Keys
               PROVE  recorded[k] = counts[k]
                          + Total([r \in Replicas |-> Waiting(r)[k]], Replicas)
    BY DEF NoHitLost, NothingOverflows
  <2>1. [r \in Replicas |-> Waiting(r)[k]] = WaitingFor(k)
    BY DEF WaitingFor, waitingMap
  <2>2. Total(WaitingFor(k), Replicas) = SumOver(WaitingFor(k), Replicas)
    BY SumIsFold DEF Total
  <2> QED
    BY <2>1, <2>2 DEF PlaceInv, IsPlaced
<1> QED
  BY <1>1, PlaceInit, PlaceNext, StoreFactsAlways, Invariance, PTL DEF Spec

-----------------------------------------------------------------------------
(***************************************************************************)
(* The types of the service.                                               *)
(***************************************************************************)
LEMMA FizzbuzzCounts ==
    ASSUME IInv, ServiceTypeOK, NEW r \in Replicas, NEW k \in Keys, Fizzbuzz(r, k)
    PROVE  by' \in [Replicas -> Tally] /\ UNCHANGED phase
<1> USE DEF IInv, TypeOK, ServiceTypeOK, Tally
<1>1. Record(r, k) /\ by' = [by EXCEPT ![r][k] = @ + n'[r][k] - n[r][k]]
  BY DEF Fizzbuzz
<1>2. n'[r][k] = n[r][k] \/ n'[r][k] = n[r][k] + 1
  BY <1>1 DEF Record, RecordHit, RecordOverflows, RecordIgnored, localVars
<1>3. n[r][k] \in Nat
  OBVIOUS
<1>4. by[r][k] + n'[r][k] - n[r][k] \in Nat
  BY <1>2, <1>3
<1>5. UNCHANGED phase
  BY <1>1, RecordEffect DEF flushVars
<1>6. QED
  BY <1>1, <1>4, <1>5

LEMMA WarnTypes ==
    ASSUME warnings \in [Replicas -> Nat], NEW r \in Replicas, NEW now \in BOOLEAN,
           Warn(r, now)
    PROVE  warnings' \in [Replicas -> Nat]
BY DEF Warn

LEMMA ReaderMovesOn ==
    ASSUME NEW x \in Reader, NEW to \in {"none", "flush", "exists", "members", "done"},
           NEW what \in Answers, NEW hits \in Nat
    PROVE  /\ [x EXCEPT !.at = to, !.answer = what] \in Reader
           /\ [x EXCEPT !.at = to, !.answer = what, !.hits = hits] \in Reader
<1> DEFINE y == [x EXCEPT !.at = to]
<1> DEFINE z == [y EXCEPT !.answer = what]
<1>1. y \in Reader
  BY DEF Reader
<1>2. z \in Reader
  <2> HIDE DEF y
  <2> QED
    BY <1>1 DEF Reader
<1>3. [z EXCEPT !.hits = hits] \in Reader
  <2> HIDE DEF z
  <2> QED
    BY <1>2 DEF Reader
<1>4. z = [x EXCEPT !.at = to, !.answer = what]
  BY DEF Reader
<1>5. [z EXCEPT !.hits = hits] = [x EXCEPT !.at = to, !.answer = what, !.hits = hits]
  BY DEF Reader
<1>6. QED
  BY <1>2, <1>3, <1>4, <1>5

LEMMA FinishTypes ==
    ASSUME ServiceTypeOK, NEW r \in Replicas, NEW hits \in Nat,
           NEW what \in Answers, Finish(r, what, hits)
    PROVE  ServiceTypeOK'
<1> USE DEF Finish, ServiceTypeOK
<1>1. [reader[r] EXCEPT !.at = "done", !.answer = what, !.hits = hits] \in Reader
  BY ReaderMovesOn
<1>2. reader' \in [Replicas -> Reader]
  BY <1>1
<1>3. gone' \in BOOLEAN
  BY Zenon
<1>4. best' \in Nat
  OBVIOUS
<1>5. UNCHANGED <<phase, owner, loop, server, warnings, by>>
  BY DEF vars, flushVars
<1>6. QED
  BY <1>2, <1>3, <1>4, <1>5

LEMMA LockTypes ==
    ASSUME IInv, ServiceTypeOK, NEW r \in Replicas, NEW who \in {"loop", "stats"},
           Lock(r, who),
           loop' \in [Replicas -> {"running", "final", "retrying", "stopped"}],
           reader' \in [Replicas -> Reader]
    PROVE  ServiceTypeOK'
BY DEF Lock, BeginFlush, Move, ServiceTypeOK, IInv, TypeOK

LEMMA ReturnTypes ==
    ASSUME IInv, ServiceTypeOK, NEW r \in Replicas, NEW ok \in BOOLEAN,
           phase' = [phase EXCEPT ![r] = "idle"], Unlock(r), FlushReturns(r, ok),
           warnings' \in [Replicas -> Nat]
    PROVE  ServiceTypeOK'
<1> USE DEF IInv, TypeOK, ServiceTypeOK
<1>1. reader' \in [Replicas -> Reader]
  <2>1. CASE owner[r] # "stats"
    BY <2>1 DEF FlushReturns
  <2>2. CASE owner[r] = "stats" /\ ok
    <3>1. [reader[r] EXCEPT !.at = "exists", !.answer = "none"] \in Reader
      BY ReaderMovesOn DEF Answers
    <3>2. QED
      BY <2>2, <3>1 DEF FlushReturns
  <2>3. CASE owner[r] = "stats" /\ ~ok
    <3>1. [reader[r] EXCEPT !.at = "done", !.answer = "error"] \in Reader
      BY ReaderMovesOn DEF Answers
    <3>2. QED
      BY <2>3, <3>1 DEF FlushReturns
  <2>4. QED
    BY <2>1, <2>2, <2>3
<1>2. loop' \in [Replicas -> {"running", "final", "retrying", "stopped"}]
  BY DEF FlushReturns
<1>3. QED
  BY <1>1, <1>2 DEF FlushReturns, Unlock

LEMMA HandlerTypes ==
    ASSUME IInv, ServiceTypeOK, NEW r \in Replicas, Handlers(r)
    PROVE  ServiceTypeOK'
<1>1. CASE TopFlushes(r)
  <2>1. \A waits \in BOOLEAN : [reader[r] EXCEPT !.behind = waits] \in Reader
    BY DEF ServiceTypeOK, Reader
  <2>2. PICK waits \in BOOLEAN : reader' = [reader EXCEPT ![r].behind = waits]
    BY <1>1, Zenon DEF TopFlushes
  <2>3. reader' \in [Replicas -> Reader]
    BY <2>1, <2>2 DEF ServiceTypeOK
  <2>4. QED
    BY <1>1, <2>3, LockTypes DEF TopFlushes, ServiceTypeOK
<1>2. CASE LastFlush(r)
  <2>1. loop' \in [Replicas -> {"running", "final", "retrying", "stopped"}]
    BY <1>2 DEF LastFlush, ServiceTypeOK
  <2>2. QED
    BY <1>2, <2>1, LockTypes DEF LastFlush, ServiceTypeOK
<1>3. CASE FlushSends(r)
  BY <1>3 DEF FlushSends, NextBatch, RetryBatch, SendSaturate, Move, serviceVars,
              ServiceTypeOK, IInv, TypeOK
<1>4. CASE FlushSucceeds(r)
  <2>1. warnings' \in [Replicas -> Nat]
    BY <1>4, WarnTypes DEF FlushSucceeds, ServiceTypeOK
  <2>2. phase' = [phase EXCEPT ![r] = "idle"]
    BY <1>4 DEF FlushSucceeds, NothingPending, Acknowledge, ClearLocal, Move
  <2>3. QED
    BY <1>4, <2>1, <2>2, ReturnTypes DEF FlushSucceeds
<1>5. CASE FlushErrs(r)
  <2>1. phase' = [phase EXCEPT ![r] = "idle"] /\ warnings' = warnings
    BY <1>5 DEF FlushErrs, FlushFails
  <2>2. warnings' \in [Replicas -> Nat]
    BY <2>1 DEF ServiceTypeOK
  <2>3. Unlock(r) /\ FlushReturns(r, FALSE)
    BY <1>5 DEF FlushErrs
  <2>4. QED
    BY <2>1, <2>2, <2>3, ReturnTypes
<1>6. CASE Exists(r)
  <2>1. CASE saturated
    BY <1>6, <2>1, FinishTypes DEF Exists, Answers
  <2>2. CASE ~saturated
    <3>1. /\ reader' = [reader EXCEPT ![r].at = "members"]
          /\ UNCHANGED <<phase, owner, loop, server, warnings, by, best, gone>>
      BY <1>6, <2>2 DEF Exists, ReaderMoves, vars, flushVars
    <3>2. [reader[r] EXCEPT !.at = "members"] \in Reader
      BY DEF ServiceTypeOK, Reader
    <3>3. reader' \in [Replicas -> Reader]
      BY <3>1, <3>2 DEF ServiceTypeOK
    <3>4. QED
      BY <3>1, <3>3 DEF ServiceTypeOK
  <2>3. QED
    BY <2>1, <2>2
<1>7. CASE ZRevRange(r)
  BY <1>7, FinishTypes DEF ZRevRange, Answers, IInv, TypeOK, Tally
<1>8. CASE TopErrs(r)
  BY <1>8, FinishTypes DEF TopErrs, Answers
<1>9. CASE ResponseSent(r)
  BY <1>9 DEF ResponseSent, NoReader, NoHits, ServiceTypeOK, Reader, Tally,
              Answers, vars, flushVars
<1>10. CASE Drained(r)
  BY <1>10 DEF Drained, ServiceTypeOK, vars, flushVars
<1>11. QED
  BY <1>1, <1>2, <1>3, <1>4, <1>5, <1>6, <1>7, <1>8, <1>9, <1>10 DEF Handlers

LEMMA NextServiceTypes ==
    IInv /\ ServiceTypeOK /\ [ServiceNext]_allVars => ServiceTypeOK'
<1> SUFFICES ASSUME IInv, ServiceTypeOK, [ServiceNext]_allVars PROVE ServiceTypeOK'
  OBVIOUS
<1>1. ASSUME NEW r \in Replicas, NEW k \in Keys, Fizzbuzz(r, k)
      PROVE  ServiceTypeOK'
  <2>1. warnings' \in [Replicas -> Nat]
    BY <1>1, WarnTypes DEF Fizzbuzz, ServiceTypeOK, IInv, TypeOK
  <2>2. QED
    BY <1>1, <2>1, FizzbuzzCounts DEF Fizzbuzz, ServiceTypeOK
<1>2. ASSUME NEW r \in Replicas, Statistics(r) PROVE ServiceTypeOK'
  BY <1>2 DEF Statistics, NoReader, NoHits, ServiceTypeOK, Reader, Tally, Answers,
              vars, flushVars
<1>3. ASSUME NEW r \in Replicas, Tick(r) PROVE ServiceTypeOK'
  BY <1>3, LockTypes DEF Tick, ServiceTypeOK
<1>4. ASSUME NEW r \in Replicas, Shutdown(r) \/ Expires(r) PROVE ServiceTypeOK'
  BY <1>4 DEF Shutdown, Expires, ServiceTypeOK, vars, flushVars
<1>5. ASSUME NEW r \in Replicas, Killed(r) PROVE ServiceTypeOK'
  BY <1>5 DEF Killed, Crash, serviceVars, ServiceTypeOK, IInv, TypeOK
<1>6. ASSUME RedisRuns, UNCHANGED serviceVars PROVE ServiceTypeOK'
  <2>1. ScriptFrame \/ UNCHANGED phase
    BY <1>6, RunEffect, LoseEffect DEF RedisRuns, flushVars
  <2>2. QED
    BY <1>6, <2>1 DEF ScriptFrame, serviceVars, ServiceTypeOK
<1>7. CASE UNCHANGED allVars
  BY <1>7 DEF allVars, serviceVars, vars, flushVars, ServiceTypeOK
<1>8. QED
  BY <1>1, <1>2, <1>3, <1>4, <1>5, <1>6, <1>7, HandlerTypes DEF ServiceNext

LEMMA InitServiceTypes == ServiceInit => ServiceTypeOK
<1> SUFFICES ASSUME ServiceInit PROVE ServiceTypeOK
  OBVIOUS
<1>1. NoHits \in Tally
  BY DEF NoHits, Tally
<1>2. NoReader \in Reader
  BY <1>1 DEF NoReader, Reader, Answers
<1>3. QED
  BY <1>1, <1>2 DEF ServiceInit, Init, ServiceTypeOK

(***************************************************************************)
(* The type invariant of the service; a Flush in progress has one owner.   *)
(***************************************************************************)
THEOREM ServiceTypeCorrect == ServiceSpec => []ServiceTypeOK
BY InitServiceTypes, NextServiceTypes, StoreInv, PTL DEF ServiceSpec

-----------------------------------------------------------------------------
(***************************************************************************)
(* Warnings.                                                               *)
(***************************************************************************)
LEMMA OtherStepsDoNotWarn ==
    ASSUME [ServiceNext]_allVars,
           ~ \E r \in Replicas, k \in Keys : Fizzbuzz(r, k),
           ~ \E r \in Replicas : FlushSucceeds(r)
    PROVE  UNCHANGED warnings
<1>1. ASSUME NEW r \in Replicas, Handlers(r) PROVE UNCHANGED warnings
  BY <1>1 DEF Handlers, TopFlushes, LastFlush, Lock, FlushSends, FlushErrs,
              Exists, ZRevRange, TopErrs, Finish, ResponseSent, Drained, serviceVars
<1>2. ASSUME NEW r \in Replicas,
             Statistics(r) \/ Tick(r) \/ Shutdown(r) \/ Expires(r) \/ Killed(r)
      PROVE  UNCHANGED warnings
  BY <1>2 DEF Statistics, Tick, Lock, Shutdown, Expires, Killed, serviceVars
<1>3. QED
  BY <1>1, <1>2 DEF ServiceNext, allVars, serviceVars

LEMMA WarningsStayTrue ==
    IInv /\ ServiceTypeOK /\ StoreFacts /\ WarningsAreTrue /\ [ServiceNext]_allVars
        => WarningsAreTrue'
<1> SUFFICES ASSUME IInv, ServiceTypeOK, StoreFacts, WarningsAreTrue,
                    [ServiceNext]_allVars
             PROVE  WarningsAreTrue'
  OBVIOUS
<1>1. OverflowKept /\ (saturated => saturated')
  BY StepMaps, StepKeepsFacts, StoreGrows
<1>2. CASE UNCHANGED warnings
  BY <1>1, <1>2 DEF WarningsAreTrue, OverflowKept
<1>3. ASSUME NEW r \in Replicas, NEW k \in Keys, Fizzbuzz(r, k)
      PROVE  WarningsAreTrue'
  BY <1>1, <1>3 DEF Fizzbuzz, Warn, WarningsAreTrue, OverflowKept, ServiceTypeOK
<1>4. ASSUME NEW r \in Replicas, FlushSucceeds(r) PROVE WarningsAreTrue'
  BY <1>1, <1>4 DEF FlushSucceeds, Warn, WarningsAreTrue, OverflowKept,
                    StoreFacts, ResultIsTrue, ServiceTypeOK
<1>5. QED
  BY <1>2, <1>3, <1>4, OtherStepsDoNotWarn

LEMMA FactsAlways == ServiceSpec => [](IInv /\ ServiceTypeOK /\ StoreFacts)
<1>1. ServiceInit => StoreFacts
  BY DEF ServiceInit, Init, StoreFacts, HeldIsPending, ResultIsTrue, NoHits
<1>2. IInv /\ StoreFacts /\ [ServiceNext]_allVars => StoreFacts'
  BY StepMaps, StepKeepsFacts
<1>3. QED
  BY <1>1, <1>2, StoreInv, ServiceTypeCorrect, PTL DEF ServiceSpec

(***************************************************************************)
(* A warning in the log of any replica stays true, for any number of       *)
(* replicas that overflow, clear and saturate (server.go:124).             *)
(***************************************************************************)
THEOREM WarningsAlwaysTrue == ServiceSpec => []WarningsAreTrue
<1>1. ServiceInit => WarningsAreTrue
  BY DEF ServiceInit, WarningsAreTrue
<1>2. QED
  BY <1>1, FactsAlways, WarningsStayTrue, PTL DEF ServiceSpec

-----------------------------------------------------------------------------
(***************************************************************************)
(* Answers. Redis holds at least the best answer so far, or is saturated;  *)
(* who was told so before the request cannot get past EXISTS.              *)
(***************************************************************************)
AnswerInv ==
    /\ gone => saturated
    /\ saturated \/ best = 0 \/ \E k \in Keys : counts[k] >= best
    /\ \A r \in Replicas :
          /\ reader[r].floor <= best
          /\ reader[r].told => gone
          /\ reader[r].at \in {"flush", "exists", "members"} => reader[r].answer = "none"
          /\ reader[r].at = "members" => ~reader[r].told

\* The steps that leave the readers and their answers alone.
LEMMA QuietKeepsAnswers ==
    ASSUME IInv, ServiceTypeOK, AnswerInv, [Next]_vars, UNCHANGED <<reader, best, gone>>
    PROVE  AnswerInv'
<1>1. saturated' \/ \A k \in Keys : counts[k] <= counts'[k]
  BY StoreGrows
<1>2. saturated => saturated'
  BY StoreGrows
<1>3. counts \in [Keys -> Nat] /\ counts' \in [Keys -> Nat] /\ best \in Nat
  BY NextKeeps DEF IInv, TypeOK, Tally, ServiceTypeOK
<1>4. QED
  BY <1>1, <1>2, <1>3 DEF AnswerInv

\* The steps that move one reader on and leave Redis alone.
LEMMA MoveKeepsAnswers ==
    ASSUME ServiceTypeOK, AnswerInv, NEW r \in Replicas, NEW to, NEW what,
           reader' = [reader EXCEPT ![r].at = to, ![r].answer = what],
           to \in {"flush", "exists", "members"} => what = "none",
           to # "members",
           UNCHANGED <<redisVars, best, gone>>
    PROVE  AnswerInv'
<1>1. \A s \in Replicas : reader[s] \in Reader
  BY DEF ServiceTypeOK
<1>2. /\ reader'[r].floor = reader[r].floor /\ reader'[r].told = reader[r].told
      /\ reader'[r].at = to /\ reader'[r].answer = what
  BY <1>1 DEF ServiceTypeOK, Reader
<1>3. \A s \in Replicas \ {r} : reader'[s] = reader[s]
  BY DEF ServiceTypeOK
<1>4. QED
  BY <1>2, <1>3 DEF AnswerInv, redisVars

\* An answer: it can raise best, and tell that the store is saturated.
LEMMA FinishKeepsAnswers ==
    ASSUME IInv, ServiceTypeOK, AnswerInv, NEW r \in Replicas, NEW hits \in Nat,
           NEW what, Finish(r, what, hits),
           what = "unavailable" => saturated,
           hits = 0 \/ \E k \in Keys : counts[k] = hits
    PROVE  AnswerInv'
<1>1. \A s \in Replicas : reader[s] \in Reader
  BY DEF ServiceTypeOK
<1>2. /\ reader'[r].floor = reader[r].floor /\ reader'[r].told = reader[r].told
      /\ reader'[r].at = "done"
  BY <1>1 DEF ServiceTypeOK, Reader, Finish
<1>3. \A s \in Replicas \ {r} : reader'[s] = reader[s]
  BY DEF ServiceTypeOK, Finish
<1>4. UNCHANGED <<counts, saturated>>
  BY DEF Finish, vars, redisVars
<1>5. best \in Nat /\ best' \in Nat /\ best <= best'
  BY DEF Finish, ServiceTypeOK
<1>6. best' = best \/ best' = hits
  BY DEF Finish
<1>7. gone' => saturated
  BY Zenon DEF Finish, AnswerInv
<1>8. gone => gone'
  BY Zenon DEF Finish
<1>9. \A s \in Replicas : reader[s].floor \in Nat
  BY <1>1 DEF Reader
<1>10. counts \in [Keys -> Nat]
  BY DEF IInv, TypeOK, Tally
<1>11. saturated' \/ best' = 0 \/ \E k \in Keys : counts'[k] >= best'
  BY <1>4, <1>5, <1>6, <1>10 DEF AnswerInv
<1>12. QED
  BY <1>2, <1>3, <1>4, <1>5, <1>7, <1>8, <1>9, <1>11 DEF AnswerInv

LEMMA HandlerKeepsAnswers ==
    ASSUME IInv, ServiceTypeOK, AnswerInv, NEW r \in Replicas, Handlers(r)
    PROVE  AnswerInv'
<1>1. [Next]_vars
  BY HandlerMaps
<1>2. \A s \in Replicas : reader[s] \in Reader
  BY DEF ServiceTypeOK
<1>3. CASE LastFlush(r) \/ FlushSends(r) \/ Drained(r)
  BY <1>1, <1>3, QuietKeepsAnswers DEF LastFlush, Lock, FlushSends, Drained, serviceVars
<1>4. CASE TopFlushes(r)
  <2>1. UNCHANGED <<redisVars, best, gone>>
    BY <1>4 DEF TopFlushes, Lock, BeginFlush
  <2>2. \A s \in Replicas : /\ reader'[s].at = reader[s].at
                            /\ reader'[s].answer = reader[s].answer
                            /\ reader'[s].floor = reader[s].floor
                            /\ reader'[s].told = reader[s].told
    BY <1>2, <1>4 DEF TopFlushes, ServiceTypeOK, Reader
  <2>3. QED
    BY <2>1, <2>2 DEF AnswerInv, redisVars
<1>5. ASSUME NEW ok \in BOOLEAN, FlushReturns(r, ok), UNCHANGED redisVars
      PROVE  AnswerInv'
  <2>1. UNCHANGED <<best, gone>>
    BY <1>5 DEF FlushReturns
  <2>2. CASE owner[r] # "stats"
    BY <1>5, <2>1, <2>2 DEF FlushReturns, AnswerInv, redisVars
  <2> DEFINE Moved(to, what) == reader' = [reader EXCEPT ![r].at = to, ![r].answer = what]
  <2>3. /\ "exists" # "members" /\ "done" # "members"
        /\ "done" \notin {"flush", "exists", "members"}
    OBVIOUS
  <2>4. Moved("exists", "none") => AnswerInv'
    BY <1>5, <2>1, <2>3, MoveKeepsAnswers, Zenon
  <2>5. Moved("done", "error") => AnswerInv'
    BY <1>5, <2>1, <2>3, MoveKeepsAnswers, Zenon
  <2>6. ASSUME owner[r] = "stats", ok PROVE Moved("exists", "none")
    BY <1>5, <2>6 DEF FlushReturns
  <2>7. ASSUME owner[r] = "stats", ~ok PROVE Moved("done", "error")
    BY <1>5, <2>7 DEF FlushReturns
  <2>8. QED
    BY <2>2, <2>4, <2>5, <2>6, <2>7
<1>6. CASE FlushSucceeds(r)
  BY <1>5, <1>6, FlushStepEffect DEF FlushSucceeds, FlushStep
<1>7. CASE FlushErrs(r)
  BY <1>5, <1>7, FlushStepEffect DEF FlushErrs
<1>8. CASE Exists(r)
  <2>1. CASE saturated
    BY <1>8, <2>1, FinishKeepsAnswers DEF Exists
  <2>2. CASE ~saturated
    <3>1. /\ reader[r].at = "exists"
          /\ reader' = [reader EXCEPT ![r].at = "members"]
          /\ UNCHANGED <<vars, best, gone>>
      BY <1>8, <2>2 DEF Exists, ReaderMoves
    <3>2. ~reader[r].told /\ reader[r].answer = "none"
      BY <2>2, <3>1 DEF AnswerInv
    <3>3. /\ reader'[r].answer = reader[r].answer
          /\ reader'[r].floor = reader[r].floor
          /\ reader'[r].told = reader[r].told
      BY <1>2, <3>1 DEF ServiceTypeOK, Reader
    <3>4. \A s \in Replicas \ {r} : reader'[s] = reader[s]
      BY <3>1 DEF ServiceTypeOK
    <3>5. QED
      BY <3>1, <3>2, <3>3, <3>4 DEF AnswerInv, vars, redisVars
  <2>3. QED
    BY <2>1, <2>2
<1>9. CASE ZRevRange(r)
  <2>1. PICK k \in Keys : Finish(r, "winner", counts[k])
    BY <1>9 DEF ZRevRange
  <2>2. counts[k] \in Nat
    BY DEF IInv, TypeOK, Tally
  <2>3. QED
    BY <2>1, <2>2, FinishKeepsAnswers
<1>10. CASE TopErrs(r)
  BY <1>10, FinishKeepsAnswers DEF TopErrs
<1>11. CASE ResponseSent(r)
  <2>1. reader' = [reader EXCEPT ![r] = NoReader] /\ UNCHANGED <<vars, best, gone>>
    BY <1>11 DEF ResponseSent
  <2>2. QED
    BY <2>1 DEF AnswerInv, NoReader, ServiceTypeOK, vars, redisVars
<1>12. QED
  BY <1>3, <1>4, <1>6, <1>7, <1>8, <1>9, <1>10, <1>11 DEF Handlers

LEMMA NextKeepsAnswers ==
    IInv /\ ServiceTypeOK /\ AnswerInv /\ [ServiceNext]_allVars => AnswerInv'
<1> SUFFICES ASSUME IInv, ServiceTypeOK, AnswerInv, [ServiceNext]_allVars
             PROVE  AnswerInv'
  OBVIOUS
<1>1. [Next]_vars
  BY StepMaps
<1>2. CASE UNCHANGED <<reader, best, gone>>
  BY <1>1, <1>2, QuietKeepsAnswers
<1>3. ASSUME NEW r \in Replicas, NEW k \in Keys, Fizzbuzz(r, k)
      PROVE  UNCHANGED <<reader, best, gone>>
  BY <1>3 DEF Fizzbuzz
<1>4. ASSUME NEW r \in Replicas, Tick(r) \/ Shutdown(r) \/ Expires(r) \/ Killed(r)
      PROVE  UNCHANGED <<reader, best, gone>>
  BY <1>4 DEF Tick, Lock, Shutdown, Expires, Killed, serviceVars
<1>5. ASSUME NEW r \in Replicas, Statistics(r) PROVE AnswerInv'
  <2>1. /\ reader' = [reader EXCEPT ![r] =
               [NoReader EXCEPT !.at = "flush", !.mine = by[r],
                                !.floor = best, !.told = gone]]
        /\ UNCHANGED <<vars, best, gone>>
    BY <1>5 DEF Statistics
  <2>2. /\ reader'[r].at = "flush" /\ reader'[r].answer = "none"
        /\ reader'[r].floor = best /\ reader'[r].told = gone
    BY <2>1 DEF NoReader, ServiceTypeOK
  <2>3. \A s \in Replicas \ {r} : reader'[s] = reader[s]
    BY <2>1 DEF ServiceTypeOK
  <2>4. best \in Nat
    BY DEF ServiceTypeOK
  <2>5. QED
    BY <2>1, <2>2, <2>3, <2>4 DEF AnswerInv, vars, redisVars
<1>6. CASE UNCHANGED allVars
  BY <1>2, <1>6 DEF allVars, serviceVars
<1>7. QED
  BY <1>2, <1>3, <1>4, <1>5, <1>6, HandlerKeepsAnswers DEF ServiceNext, serviceVars

LEMMA AnswersAlways == ServiceSpec => []AnswerInv
<1>1. ServiceInit => AnswerInv
  BY DEF ServiceInit, AnswerInv, NoReader
<1>2. QED
  BY <1>1, NextKeepsAnswers, FactsAlways, PTL DEF ServiceSpec

(***************************************************************************)
(* Answers of different replicas never go back (server.go:110-122), for    *)
(* any number of replicas that flush, time out and stop. A reader past     *)
(* EXISTS was not told "unavailable" before, and ZREVRANGE finds at least  *)
(* the best answer, or the store was saturated in between.                 *)
(***************************************************************************)
THEOREM AnswersNeverGoBackAlways == ServiceSpec => AnswersNeverGoBack
<1> DEFINE Fine == \A r \in Replicas :
          GotWinner(r) =>
              /\ ~reader[r].told
              /\ reader'[r].hits >= reader[r].floor \/ saturated
<1>1. IInv /\ ServiceTypeOK /\ AnswerInv /\ [ServiceNext]_allVars => [Fine]_allVars
  <2> SUFFICES ASSUME IInv, ServiceTypeOK, AnswerInv, [ServiceNext]_allVars,
                      NEW r \in Replicas, GotWinner(r), ~saturated
               PROVE  ~reader[r].told /\ reader'[r].hits >= reader[r].floor
    BY DEF AnswerInv, GotWinner
  <2>1. reader[r].at = "members" /\ reader'[r].answer = "winner" /\ ~reader[r].told
        /\ reader[r].answer = "none"
    BY DEF GotWinner, AnswerInv
  <2>2. reader'[r] # reader[r]
    BY <2>1
  <2>3. ASSUME NEW s \in Replicas, s # r, Handlers(s) PROVE reader'[r] = reader[r]
    BY <2>3 DEF Handlers, TopFlushes, LastFlush, FlushSends, FlushSucceeds, FlushErrs,
                FlushReturns, Exists, ReaderMoves, ZRevRange, TopErrs, Finish,
                ResponseSent, Drained, serviceVars, ServiceTypeOK
  <2>4. ASSUME NEW s \in Replicas, Statistics(s) PROVE reader'[r] = reader[r]
    BY <2>1, <2>4 DEF Statistics, ServiceTypeOK
  <2>5. Handlers(r)
    BY <2>2, <2>3, <2>4 DEF ServiceNext, Fizzbuzz, Tick, Lock, Shutdown, Expires,
                            Killed, serviceVars, allVars
  <2>6. ZRevRange(r)
    <3>1. CASE TopFlushes(r) \/ Exists(r) \/ ResponseSent(r)
      BY <2>1, <3>1 DEF TopFlushes, Exists, ReaderMoves, ResponseSent
    <3>2. CASE LastFlush(r) \/ FlushSends(r) \/ Drained(r)
      BY <2>2, <3>2 DEF LastFlush, FlushSends, Drained, serviceVars
    <3>3. CASE TopErrs(r)
      BY <2>1, <3>3 DEF TopErrs, Finish, ServiceTypeOK
    <3>4. ASSUME NEW ok \in BOOLEAN, FlushReturns(r, ok) PROVE FALSE
      <4>1. CASE owner[r] # "stats"
        BY <2>2, <3>4, <4>1 DEF FlushReturns
      <4>2. CASE owner[r] = "stats"
        BY <2>1, <3>4, <4>2 DEF FlushReturns, ServiceTypeOK
      <4>3. QED
        BY <4>1, <4>2
    <3>5. QED
      BY <2>5, <3>1, <3>2, <3>3, <3>4 DEF Handlers, FlushSucceeds, FlushErrs
  <2>7. PICK k \in Keys : /\ \A x \in Keys : counts[x] <= counts[k]
                          /\ Finish(r, "winner", counts[k])
    BY <2>6 DEF ZRevRange
  <2>8. reader[r] \in Reader /\ counts \in [Keys -> Nat] /\ best \in Nat
    BY DEF ServiceTypeOK, IInv, TypeOK, Tally
  <2>9. reader'[r].hits = counts[k]
    BY <2>7, <2>8 DEF Finish, Reader, ServiceTypeOK
  <2>10. counts[k] >= best
    BY <2>7, <2>8 DEF AnswerInv
  <2>11. QED
    BY <2>1, <2>8, <2>9, <2>10 DEF AnswerInv, Reader
<1>2. QED
  BY <1>1, AnswersAlways, FactsAlways, PTL DEF ServiceSpec, AnswersNeverGoBack

-----------------------------------------------------------------------------
(***************************************************************************)
(* The last flush. It holds flushMu until the loop has stopped, and after  *)
(* a drain no handler records: what the batch took is all that there is.   *)
(***************************************************************************)
LastFlushInv ==
    \A r \in Replicas :
        /\ loop[r] \in {"final", "retrying"} => owner[r] = "loop"
        /\ loop[r] = "final" => server[r] \in {"drained", "expired"}
        /\ loop[r] = "final" /\ server[r] = "drained" =>
              /\ phase[r] = "batch" => batch[r] = NoBatch
              /\ phase[r] \in {"flushing", "applied"} => sent[r] = n[r]

\* The steps of other replicas and of readers.
LEMMA QuietKeepsLast ==
    ASSUME LastFlushInv, UNCHANGED <<loop, owner, server, localVars, flushVars>>
    PROVE  LastFlushInv'
BY DEF LastFlushInv, localVars, flushVars

LEMMA LockKeepsLast ==
    ASSUME IInv, ServiceTypeOK, LastFlushInv, NEW r \in Replicas,
           NEW who, Lock(r, who),
           \/ UNCHANGED loop
           \/ /\ who = "loop" /\ server[r] \in {"drained", "expired"}
              /\ loop' = [loop EXCEPT ![r] = IF batch[r] = NoBatch THEN "final"
                                                                   ELSE "retrying"]
    PROVE  LastFlushInv'
<1> USE DEF IInv, TypeOK, ServiceTypeOK
<1>1. /\ owner[r] = "nobody" /\ owner' = [owner EXCEPT ![r] = who]
      /\ phase' = [phase EXCEPT ![r] = IF overflow[r] THEN "saturate" ELSE "batch"]
      /\ UNCHANGED <<server, batch, sent, n>>
  BY DEF Lock, BeginFlush, Move, localVars
<1>2. loop[r] \notin {"final", "retrying"}
  BY <1>1 DEF LastFlushInv
<1>3. QED
  BY <1>1, <1>2 DEF LastFlushInv

LEMMA SendsKeepsLast ==
    ASSUME IInv, ServiceTypeOK, LastFlushInv, NEW r \in Replicas, FlushSends(r)
    PROVE  LastFlushInv'
<1> USE DEF IInv, TypeOK, ServiceTypeOK, LastFlushInv
<1>1. UNCHANGED <<loop, owner, server>>
  BY DEF FlushSends, serviceVars
<1>2. CASE NextBatch(r)
  BY <1>1, <1>2 DEF NextBatch, Move
<1>3. CASE RetryBatch(r)
  BY <1>1, <1>3 DEF RetryBatch, Move, localVars
<1>4. CASE SendSaturate(r)
  BY <1>1, <1>4 DEF SendSaturate, Move, localVars
<1>5. QED
  BY <1>2, <1>3, <1>4 DEF FlushSends

LEMMA ReturnKeepsLast ==
    ASSUME ServiceTypeOK, LastFlushInv, NEW r \in Replicas, NEW ok \in BOOLEAN,
           Unlock(r), FlushReturns(r, ok),
           \A s \in Replicas \ {r} : /\ phase'[s] = phase[s] /\ batch'[s] = batch[s]
                                     /\ sent'[s] = sent[s] /\ n'[s] = n[s]
    PROVE  LastFlushInv'
<1> USE DEF ServiceTypeOK, LastFlushInv
<1>1. loop'[r] \notin {"final", "retrying"}
  BY DEF FlushReturns
<1>2. \A s \in Replicas \ {r} : loop'[s] = loop[s] /\ owner'[s] = owner[s]
  BY DEF FlushReturns, Unlock
<1>3. UNCHANGED server
  BY DEF FlushReturns
<1>4. QED
  BY <1>1, <1>2, <1>3

LEMMA ReturnFrame ==
    ASSUME IInv, NEW r \in Replicas, FlushSucceeds(r) \/ FlushErrs(r)
    PROVE  \A s \in Replicas \ {r} : /\ phase'[s] = phase[s] /\ batch'[s] = batch[s]
                                     /\ sent'[s] = sent[s] /\ n'[s] = n[s]
BY DEF IInv, TypeOK, FlushSucceeds, FlushErrs, NothingPending, Acknowledge, ClearLocal,
       DropBatch, FlushFails, Move, localVars

LEMMA FizzbuzzKeepsLast ==
    ASSUME IInv, ServiceTypeOK, LastFlushInv, NEW r \in Replicas, NEW k \in Keys,
           Fizzbuzz(r, k)
    PROVE  LastFlushInv'
<1> USE DEF IInv, TypeOK, ServiceTypeOK, LastFlushInv
<1>1. UNCHANGED <<loop, owner, server, flushVars, sent>> /\ server[r] # "drained"
  BY RecordEffect DEF Fizzbuzz
<1>2. \A s \in Replicas \ {r} : n'[s] = n[s]
  BY DEF Fizzbuzz, Record, RecordHit, RecordOverflows, RecordIgnored, localVars
<1>3. QED
  BY <1>1, <1>2 DEF flushVars

LEMMA NextKeepsLast ==
    IInv /\ ServiceTypeOK /\ LastFlushInv /\ [ServiceNext]_allVars => LastFlushInv'
<1> SUFFICES ASSUME IInv, ServiceTypeOK, LastFlushInv, [ServiceNext]_allVars
             PROVE  LastFlushInv'
  OBVIOUS
<1>1. ASSUME NEW r \in Replicas, Handlers(r) PROVE LastFlushInv'
  <2>1. CASE TopFlushes(r)
    BY <2>1, LockKeepsLast DEF TopFlushes
  <2>2. CASE LastFlush(r)
    BY <2>2, LockKeepsLast DEF LastFlush
  <2>3. CASE FlushSends(r)
    BY <2>3, SendsKeepsLast
  <2>4. CASE FlushSucceeds(r) \/ FlushErrs(r)
    BY <2>4, ReturnFrame, ReturnKeepsLast DEF FlushSucceeds, FlushErrs
  <2>5. CASE Exists(r) \/ ZRevRange(r) \/ TopErrs(r) \/ ResponseSent(r)
    BY <2>5, QuietKeepsLast DEF Exists, ZRevRange, TopErrs, Finish, ResponseSent, vars
  <2>6. CASE Drained(r)
    <3>1. /\ server[r] = "draining" /\ server' = [server EXCEPT ![r] = "drained"]
          /\ UNCHANGED <<vars, owner, loop>>
      BY <2>6 DEF Drained
    <3>2. loop[r] # "final"
      BY <3>1 DEF LastFlushInv
    <3>3. QED
      BY <3>1, <3>2 DEF LastFlushInv, ServiceTypeOK, vars, localVars, flushVars
  <2>7. QED
    BY <1>1, <2>1, <2>2, <2>3, <2>4, <2>5, <2>6 DEF Handlers
<1>2. ASSUME NEW r \in Replicas, NEW k \in Keys, Fizzbuzz(r, k) PROVE LastFlushInv'
  BY <1>2, FizzbuzzKeepsLast
<1>3. ASSUME NEW r \in Replicas, Statistics(r) PROVE LastFlushInv'
  BY <1>3, QuietKeepsLast DEF Statistics, vars
<1>4. ASSUME NEW r \in Replicas, Tick(r) PROVE LastFlushInv'
  BY <1>4, LockKeepsLast DEF Tick
<1>5. ASSUME NEW r \in Replicas, Shutdown(r) \/ Expires(r) PROVE LastFlushInv'
  BY <1>5 DEF Shutdown, Expires, LastFlushInv, ServiceTypeOK, vars, localVars, flushVars
<1>6. ASSUME NEW r \in Replicas, Killed(r) PROVE LastFlushInv'
  BY <1>6 DEF Killed, Crash, serviceVars, LastFlushInv, localVars, IInv, TypeOK
<1>7. ASSUME RedisRuns, UNCHANGED serviceVars PROVE LastFlushInv'
  <2>1. CASE ScriptFrame
    BY <1>7, <2>1 DEF ScriptFrame, serviceVars, LastFlushInv, localVars
  <2>2. CASE UNCHANGED <<localVars, flushVars>>
    BY <1>7, <2>2, QuietKeepsLast DEF serviceVars
  <2>3. QED
    BY <1>7, <2>1, <2>2, RunEffect, LoseEffect DEF RedisRuns
<1>8. CASE UNCHANGED allVars
  BY <1>8, QuietKeepsLast DEF allVars, serviceVars, vars
<1>9. QED
  BY <1>1, <1>2, <1>3, <1>4, <1>5, <1>6, <1>7, <1>8 DEF ServiceNext

LEMMA LastFlushAlways == ServiceSpec => []LastFlushInv
<1>1. ServiceInit => LastFlushInv
  BY DEF ServiceInit, LastFlushInv
<1>2. QED
  BY <1>1, NextKeepsLast, FactsAlways, PTL DEF ServiceSpec

(***************************************************************************)
(* A normal shutdown that finds no unacknowledged batch, and whose last    *)
(* flush succeeds, leaves no hit in the process (flushLoop, server.go:94): *)
(* for any number of replicas, keys and draining requests.                 *)
(***************************************************************************)
THEOREM CleanStopAlwaysLosesNothing == ServiceSpec => CleanStopLosesNothing
<1> DEFINE Fine == \A r \in Replicas :
          LastFlushSucceeds(r, {"final"}) => n'[r] = NoHits \/ saturated'
<1>1. IInv /\ ServiceTypeOK /\ StoreFacts /\ LastFlushInv /\ [ServiceNext]_allVars
          => [Fine]_allVars
  <2> SUFFICES ASSUME IInv, ServiceTypeOK, StoreFacts, LastFlushInv,
                      [ServiceNext]_allVars,
                      NEW r \in Replicas, LastFlushSucceeds(r, {"final"})
               PROVE  n'[r] = NoHits
    OBVIOUS
  <2>1. /\ loop[r] = "final" /\ loop'[r] = "stopped" /\ server[r] = "drained"
        /\ phase[r] \in {"batch", "applied", "cleared"}
    BY DEF LastFlushSucceeds
  <2>2. ASSUME NEW s \in Replicas, s # r, Handlers(s) PROVE FALSE
    BY <2>1, <2>2 DEF Handlers, TopFlushes, LastFlush, FlushSends, FlushSucceeds,
                FlushErrs, FlushReturns, Exists, ZRevRange, TopErrs, Finish,
                ResponseSent, Drained, serviceVars, ServiceTypeOK
  <2>3. Handlers(r)
    BY <2>1, <2>2 DEF ServiceNext, Fizzbuzz, Statistics, Tick, Shutdown, Expires,
                      Killed, serviceVars, allVars
  <2>4. FlushSucceeds(r)
    BY <2>1, <2>3 DEF Handlers, TopFlushes, LastFlush, FlushSends, FlushErrs,
                FlushFails, Exists, ZRevRange, TopErrs, Finish, ResponseSent,
                Drained, serviceVars, ServiceTypeOK
  <2>5. n \in [Replicas -> Tally] /\ n[r] \in [Keys -> Nat]
    BY DEF IInv, TypeOK, Tally
  <2>6. CASE NothingPending(r)
    <3>1. held[r] = {} /\ UNCHANGED n
      BY <2>6 DEF NothingPending, localVars
    <3>2. \A k \in Keys : n[r][k] = 0
      BY <2>5, <3>1 DEF StoreFacts, HeldIsPending
    <3>3. QED
      BY <2>5, <3>1, <3>2 DEF NoHits
  <2>7. CASE Acknowledge(r)
    <3>1. n' = [n EXCEPT ![r] = Left(r)] /\ phase[r] = "applied"
      BY <2>7 DEF Acknowledge, Move
    <3>2. sent[r] = n[r]
      BY <2>1, <3>1 DEF LastFlushInv
    <3>3. Left(r) = NoHits
      BY <2>5, <3>2 DEF Left, NoHits
    <3>4. QED
      BY <2>5, <3>1, <3>3
  <2>8. CASE ClearLocal(r)
    BY <2>5, <2>8 DEF ClearLocal
  <2>9. QED
    BY <2>4, <2>6, <2>7, <2>8 DEF FlushSucceeds
<1>2. QED
  BY <1>1, LastFlushAlways, FactsAlways, PTL DEF ServiceSpec, CleanStopLosesNothing

-----------------------------------------------------------------------------
(***************************************************************************)
(* Own hits. What a replica counted and does not wait for any more is      *)
(* published, and stays so until saturation.                               *)
(***************************************************************************)
LEMMA WaitingFalls ==
    ASSUME IInv, [Next]_vars, ~saturated',
           ~ \E r \in Replicas, k \in Keys : RecordHit(r, k),
           NEW s \in Replicas, NEW x \in Keys
    PROVE  Waiting(s)'[x] <= Waiting(s)[x]
<1>1. ~saturated /\ Waiting(s)[x] \in Nat
  BY StoreGrows, WaitingType DEF Tally
<1>2. CASE UNCHANGED Contract!vars
  <2>1. waitingMap' = waitingMap
    BY <1>2 DEF Contract!vars, waitingMap
  <2>2. Waiting(s)' = Waiting(s)
    BY <2>1 DEF waitingMap
  <2> QED
    BY <1>1, <2>2
<1>3. ASSUME NEW r \in Replicas, NEW k \in Keys, Record(r, k)
      PROVE  UNCHANGED Contract!vars
  BY <1>3, QuietStepSimulates DEF Record, RecordOverflows, RecordIgnored, localVars,
     flushVars, redisVars
<1>4. ASSUME NEW r \in Replicas,
             BeginFlush(r) \/ NothingPending(r) \/ RetryBatch(r)
             \/ SendSaturate(r) \/ FlushFails(r) \/ Crash(r)
      PROVE  UNCHANGED Contract!vars
  BY <1>4, QuietStepSimulates DEF BeginFlush, NothingPending, RetryBatch,
     SendSaturate, FlushFails, Crash, localVars, redisVars
<1>5. ASSUME NEW r \in Replicas,
             NextBatch(r) \/ Acknowledge(r) \/ ClearLocal(r) \/ ExpireSeq(r)
      PROVE  UNCHANGED Contract!vars
  BY <1>1, <1>5, NextBatchSimulates, AcknowledgeSimulates, ClearLocalSimulates,
     ExpireSeqSimulates
<1>6. ASSUME UNCHANGED vars PROVE UNCHANGED Contract!vars
  BY <1>6, QuietStepSimulates DEF vars, localVars, flushVars, redisVars
<1>7. ASSUME NEW m \in requests, LoseRequest(m)
      PROVE  UNCHANGED Contract!vars
  BY <1>7, QuietStepSimulates DEF LoseRequest, localVars, flushVars, redisVars
<1>8. ASSUME NEW m \in requests, Run(m)
      PROVE  Waiting(s)'[x] <= Waiting(s)[x]
  <2>1. m.kind = "flush" /\ UNCHANGED <<n, sent, batch>>
    BY <1>8, WipeEffect DEF Run, RunFlushScript, RunSaturateScript, localVars
  <2>2. CASE UNCHANGED redisVars
    BY <1>2, <2>1, <2>2, QuietStepSimulates DEF redisVars
  <2>3. CASE WipeAndSaturate
    BY <2>3, WipeEffect
  <2>4. CASE ~saturated /\ ~AlreadyApplied(m) /\ ApplyBatch(m)
    <3>1. Contract!Publish(m.from)
      BY <2>1, <2>4, ApplySimulates
    <3>2. /\ waitingMap'[m.from][x] <= waitingMap[m.from][x]
          /\ \A r \in Replicas \ {m.from} : waitingMap'[r] = waitingMap[r]
      BY <3>1 DEF Contract!Publish, waitingMap
    <3>3. waitingMap'[s][x] <= waitingMap[s][x]
      <4>1. waitingMap[s][x] = Waiting(s)[x]
        BY DEF waitingMap
      <4>2. CASE s = m.from
        BY <3>2, <4>2
      <4>3. CASE s # m.from
        BY <1>1, <3>2, <4>1, <4>3
      <4> QED
        BY <4>2, <4>3
    <3> QED
      BY <3>3 DEF waitingMap
  <2> QED
    BY <1>8, <2>1, <2>2, <2>3, <2>4 DEF Run, RunFlushScript, RunSaturateScript, FlushScript
<1> QED
  BY <1>2, <1>3, <1>4, <1>5, <1>6, <1>7, <1>8 DEF Next, FlushStep

\* Only Fizzbuzz counts.
LEMMA OthersDoNotCount ==
    ASSUME IInv, [ServiceNext]_allVars,
           ~ \E r \in Replicas, k \in Keys : Fizzbuzz(r, k)
    PROVE  /\ UNCHANGED by
           /\ ~ \E r \in Replicas, k \in Keys : RecordHit(r, k)
<1>1. ASSUME NEW r \in Replicas, Handlers(r) PROVE UNCHANGED <<by, recorded>>
  BY <1>1 DEF Handlers, TopFlushes, LastFlush, Lock, BeginFlush, FlushSends, NextBatch,
     RetryBatch, SendSaturate, FlushSucceeds, NothingPending, Acknowledge, ClearLocal,
     FlushErrs, FlushFails, FlushReturns, Exists, ZRevRange, TopErrs, Finish,
     ResponseSent, Drained, serviceVars, vars
<1>2. ASSUME NEW r \in Replicas,
             Statistics(r) \/ Tick(r) \/ Shutdown(r) \/ Expires(r) \/ Killed(r)
      PROVE  UNCHANGED <<by, recorded>>
  BY <1>2 DEF Statistics, Tick, Lock, BeginFlush, Shutdown, Expires, Killed, Crash,
     serviceVars, vars
<1>3. ASSUME RedisRuns, UNCHANGED serviceVars PROVE UNCHANGED <<by, recorded>>
  BY <1>3 DEF RedisRuns, Run, RunFlushScript, RunSaturateScript, LoseRequest, serviceVars
<1>4. UNCHANGED <<by, recorded>>
  BY <1>1, <1>2, <1>3 DEF ServiceNext, allVars, serviceVars, vars
<1>5. ASSUME NEW r \in Replicas, NEW k \in Keys, RecordHit(r, k) PROVE FALSE
  <2>1. recorded \in [Keys -> Nat] /\ recorded' = [recorded EXCEPT ![k] = @ + 1]
    BY <1>5 DEF RecordHit, Recorded, IInv, TypeOK, Tally
  <2>2. recorded'[k] = recorded[k] + 1 /\ recorded[k] \in Nat
    BY <2>1
  <2> QED
    BY <1>4, <2>2
<1> QED
  BY <1>4, <1>5

LEMMA OwnTypes ==
    ASSUME IInv, ServiceTypeOK, NEW r \in Replicas, NEW k \in Keys
    PROVE  /\ reader[r].mine[k] \in Nat
           /\ by[r][k] \in Nat
           /\ n[r][k] \in Nat /\ sent[r][k] \in Nat /\ sent[r][k] <= n[r][k]
           /\ Waiting(r)[k] \in Nat
           /\ Published(r, k) \in Int
<1>1. reader[r].mine[k] \in Nat /\ by[r][k] \in Nat
  BY DEF ServiceTypeOK, Reader, Tally
<1>2. n[r][k] \in Nat /\ sent[r][k] \in Nat /\ sent[r][k] <= n[r][k]
  BY BatchType DEF IInv, ExactlyOnceInv, BatchIsSent, Tally
<1>3. Waiting(r)[k] \in Nat
  BY WaitingType DEF Tally
<1> QED
  BY <1>1, <1>2, <1>3 DEF Published

\* A hit that is counted waits, and a hit that does not wait was published.
LEMMA PublishedGrows ==
    ASSUME IInv, ServiceTypeOK, [ServiceNext]_allVars, ~saturated',
           NEW r \in Replicas, NEW k \in Keys
    PROVE  Published(r, k)' \in Int /\ Published(r, k) <= Published(r, k)'
<1>1. by[r][k] \in Nat /\ Waiting(r)[k] \in Nat
  BY OwnTypes
<1>2. Waiting(r)'[k] \in Int
  <2>1. n'[r][k] \in Nat /\ sent'[r][k] \in Nat
    <3>1. TypeOK'
      BY StepMaps, NextKeeps DEF IInv
    <3> QED
      BY <3>1 DEF TypeOK, Tally
  <2>2. Waiting(r)'[k] = n'[r][k] - IF Applied(r)' THEN sent'[r][k] ELSE 0
    BY DEF Waiting
  <2> QED
    BY <2>1, <2>2
<1>3. Published(r, k)' = by'[r][k] - Waiting(r)'[k] /\ Published(r, k) = by[r][k] - Waiting(r)[k]
  BY DEF Published
<1>4. ASSUME NEW s \in Replicas, NEW x \in Keys, Fizzbuzz(s, x)
      PROVE  /\ by'[r][k] \in Nat
             /\ by'[r][k] + Waiting(r)[k] = by[r][k] + Waiting(r)'[k]
  <2>1. Record(s, x) /\ by' = [by EXCEPT ![s][x] = @ + n'[s][x] - n[s][x]]
    BY <1>4 DEF Fizzbuzz
  <2>2. by \in [Replicas -> [Keys -> Nat]] /\ n \in [Replicas -> [Keys -> Nat]]
    BY DEF IInv, TypeOK, ServiceTypeOK, Tally
  <2>3. by[s][x] \in Nat /\ n[s][x] \in Nat
    BY <2>2
  <2>4. CASE RecordHit(s, x)
    <3>1. n' = [n EXCEPT ![s][x] = @ + 1]
      BY <2>4 DEF RecordHit
    <3>2. n'[s][x] = n[s][x] + 1
      BY <2>2, <3>1
    <3>3. by[s][x] + n'[s][x] - n[s][x] = by[s][x] + 1
      BY <2>3, <3>2
    <3>4. by'[r][k] = IF r = s /\ k = x THEN by[r][k] + 1 ELSE by[r][k]
      BY <2>1, <2>2, <3>3
    <3>5. waitingMap' = [waitingMap EXCEPT ![s][x] = @ + 1]
      BY <2>4, RecordHitSimulates DEF Contract!CountLocally, waitingMap
    <3>6. waitingMap \in [Replicas -> [Keys -> Nat]]
      BY WaitingType DEF waitingMap, Tally
    <3>7. waitingMap'[r][k] = IF r = s /\ k = x THEN waitingMap[r][k] + 1 ELSE waitingMap[r][k]
      BY <3>5, <3>6
    <3>8. waitingMap[r] = Waiting(r) /\ waitingMap'[r] = Waiting(r)'
      BY DEF waitingMap
    <3> QED
      BY <1>1, <3>4, <3>7, <3>8
  <2>5. CASE RecordOverflows(s, x) \/ RecordIgnored(s, x)
    <3>1. UNCHANGED <<n, sent, batch, counts, saturated, lastSeq>>
      BY <2>5 DEF RecordOverflows, RecordIgnored, localVars, flushVars, redisVars
    <3>2. Waiting(r)' = Waiting(r)
      BY <3>1 DEF Waiting, Applied
    <3>3. by[s][x] + n'[s][x] - n[s][x] = by[s][x]
      BY <2>3, <3>1
    <3>4. by'[r][k] = by[r][k]
      BY <2>1, <2>2, <3>3
    <3> QED
      BY <1>1, <3>2, <3>4
  <2> QED
    BY <2>1, <2>4, <2>5 DEF Record
<1>5. CASE ~ \E s \in Replicas, x \in Keys : Fizzbuzz(s, x)
  <2>1. by' = by /\ ~ \E s \in Replicas, x \in Keys : RecordHit(s, x)
    BY <1>5, OthersDoNotCount
  <2>2. Waiting(r)'[k] <= Waiting(r)[k]
    BY <2>1, StepMaps, WaitingFalls
  <2>3. by'[r][k] = by[r][k]
    BY <2>1
  <2> QED
    BY <1>1, <1>2, <1>3, <2>2, <2>3
<1> QED
  BY <1>1, <1>2, <1>3, <1>4, <1>5

\* The /stats handler runs its own Flush, whose batch is all that waits.
OwnFlush(r) ==
    owner[r] = "stats" =>
        /\ phase[r] = "batch" => batch[r] = NoBatch
        /\ phase[r] \in {"flushing", "applied"} =>
               \A k \in Keys : reader[r].mine[k] + n[r][k] - sent[r][k] <= by[r][k]

MineIsPublished(r) ==
    reader[r].at \in {"exists", "members"} =>
        \A k \in Keys : reader[r].mine[k] <= Published(r, k)

OwnHits(r) ==
    /\ owner[r] = "stats" => reader[r].at = "flush"
    /\ reader[r].at # "none" => \A k \in Keys : reader[r].mine[k] <= by[r][k]
    /\ saturated \/ reader[r].behind \/ (OwnFlush(r) /\ MineIsPublished(r))

FlushIsKept(r) ==
    /\ owner'[r] = owner[r]
    /\ n'[r] = n[r] /\ sent'[r] = sent[r] /\ batch'[r] = batch[r]
    /\ \/ phase'[r] = phase[r]
       \/ phase[r] = "flushing" /\ phase'[r] = "applied"
       \/ phase'[r] \notin {"batch", "flushing", "applied"}

\* The steps that leave the reader alone.
LEMMA OwnHitsKept ==
    ASSUME IInv, ServiceTypeOK, [ServiceNext]_allVars, NEW r \in Replicas, OwnHits(r),
           reader'[r] = reader[r], by'[r] = by[r],
           owner'[r] # "stats" \/ FlushIsKept(r)
    PROVE  OwnHits(r)'
<1>1. saturated => saturated'
  BY StepMaps, StoreGrows
<1>2. OwnFlush(r) => OwnFlush(r)'
  BY DEF OwnFlush, FlushIsKept
<1>3. ASSUME ~saturated', MineIsPublished(r) PROVE MineIsPublished(r)'
  <2>1. ASSUME reader[r].at \in {"exists", "members"}, NEW k \in Keys
        PROVE  reader'[r].mine[k] <= Published(r, k)'
    <3>1. reader[r].mine[k] <= Published(r, k)
      BY <1>3, <2>1 DEF MineIsPublished
    <3> QED
      BY <1>3, <3>1, OwnTypes, PublishedGrows
  <2> QED
    BY <2>1 DEF MineIsPublished
<1>4. owner'[r] = "stats" => owner[r] = "stats"
  BY DEF FlushIsKept
<1> QED
  BY <1>1, <1>2, <1>3, <1>4 DEF OwnHits

LEMMA FizzbuzzKeepsOwn ==
    ASSUME IInv, ServiceTypeOK, [ServiceNext]_allVars, NEW r \in Replicas, NEW k \in Keys,
           Fizzbuzz(r, k), OwnHits(r)
    PROVE  OwnHits(r)'
<1>1. Record(r, k) /\ by' = [by EXCEPT ![r][k] = @ + n'[r][k] - n[r][k]]
      /\ UNCHANGED <<owner, reader>>
  BY DEF Fizzbuzz
<1>2. UNCHANGED <<phase, batch, sent, saturated>>
  BY <1>1, RecordEffect DEF redisVars, flushVars
<1>3. \A x \in Keys : by'[r][x] + n[r][x] = by[r][x] + n'[r][x]
                      /\ by'[r][x] \in Nat /\ n'[r][x] \in Nat /\ n[r][x] <= n'[r][x]
  <2>1. by \in [Replicas -> [Keys -> Nat]] /\ n \in [Replicas -> [Keys -> Nat]]
    BY DEF IInv, TypeOK, ServiceTypeOK, Tally
  <2>2. n' = [n EXCEPT ![r][k] = @ + 1] \/ n' = n
    BY <1>1 DEF Record, RecordHit, RecordOverflows, RecordIgnored, localVars
  <2>3. by[r][k] \in Nat /\ n[r][k] \in Nat
    BY <2>1
  <2>4. n'[r][k] \in Nat /\ n[r][k] <= n'[r][k]
        /\ \A x \in Keys : x # k => n'[r][x] = n[r][x]
    BY <2>1, <2>2, <2>3
  <2>5. by'[r][k] = by[r][k] + n'[r][k] - n[r][k]
        /\ \A x \in Keys : x # k => by'[r][x] = by[r][x]
    BY <1>1, <2>1
  <2> QED
    BY <2>1, <2>3, <2>4, <2>5
<1>4. OwnFlush(r) => OwnFlush(r)'
  <2>1. ASSUME NEW x \in Keys, reader[r].mine[x] + n[r][x] - sent[r][x] <= by[r][x]
        PROVE  reader[r].mine[x] + n'[r][x] - sent[r][x] <= by'[r][x]
    BY <1>3, <2>1, OwnTypes
  <2> QED
    BY <1>1, <1>2, <2>1 DEF OwnFlush
<1>5. ASSUME ~saturated', MineIsPublished(r) PROVE MineIsPublished(r)'
  <2>1. ASSUME reader[r].at \in {"exists", "members"}, NEW x \in Keys
        PROVE  reader'[r].mine[x] <= Published(r, x)'
    <3>1. reader[r].mine[x] <= Published(r, x)
      BY <1>5, <2>1 DEF MineIsPublished
    <3> QED
      BY <1>1, <1>5, <3>1, OwnTypes, PublishedGrows
  <2> QED
    BY <1>1, <2>1 DEF MineIsPublished
<1>6. ASSUME NEW x \in Keys, reader[r].mine[x] <= by[r][x]
      PROVE  reader[r].mine[x] <= by'[r][x]
  BY <1>3, <1>6, OwnTypes
<1> QED
  BY <1>1, <1>2, <1>4, <1>5, <1>6 DEF OwnHits

\* The hits of the batch are all hits that the replica counted before.
LEMMA SendsKeepsOwn ==
    ASSUME IInv, ServiceTypeOK, [ServiceNext]_allVars, NEW r \in Replicas,
           FlushSends(r), OwnHits(r)
    PROVE  OwnHits(r)'
<1>1. UNCHANGED <<owner, reader, by>>
  BY DEF FlushSends, serviceVars
<1> USE DEF IInv, TypeOK
<1>2. CASE NextBatch(r)
  <2>1. /\ sent'[r] = n[r] /\ n' = n /\ saturated' = saturated
        /\ phase'[r] = "flushing"
        /\ UNCHANGED <<counts, lastSeq>>
    BY <1>2 DEF NextBatch, Move, redisVars
  <2>2. ASSUME owner[r] = "stats", NEW k \in Keys
        PROVE  reader'[r].mine[k] + n'[r][k] - sent'[r][k] <= by'[r][k]
    <3>1. reader[r].mine[k] <= by[r][k]
      BY <2>2 DEF OwnHits
    <3>2. sent'[r][k] = n[r][k] /\ n'[r][k] = n[r][k]
      BY <2>1
    <3> QED
      BY <1>1, <3>1, <3>2, OwnTypes
  <2>3. OwnFlush(r)'
    BY <1>1, <2>1, <2>2 DEF OwnFlush
  <2>4. ASSUME ~saturated', MineIsPublished(r) PROVE MineIsPublished(r)'
    <3>1. ASSUME reader[r].at \in {"exists", "members"}, NEW k \in Keys
          PROVE  reader'[r].mine[k] <= Published(r, k)'
      <4>1. reader[r].mine[k] <= Published(r, k)
        BY <2>4, <3>1 DEF MineIsPublished
      <4> QED
        BY <1>1, <2>4, <4>1, OwnTypes, PublishedGrows
    <3> QED
      BY <1>1, <3>1 DEF MineIsPublished
  <2> QED
    BY <1>1, <2>1, <2>3, <2>4 DEF OwnHits
<1>3. CASE SendSaturate(r)
  <2>1. FlushIsKept(r)
    BY <1>1, <1>3 DEF SendSaturate, Move, localVars, FlushIsKept
  <2> QED
    BY <1>1, <2>1, OwnHitsKept
<1>4. CASE RetryBatch(r)
  <2>1. batch[r] # NoBatch /\ phase[r] = "batch" /\ UNCHANGED <<n, sent, batch, saturated>>
    BY <1>4 DEF RetryBatch, Move, localVars, redisVars
  <2>2. CASE owner[r] # "stats"
    BY <1>1, <2>2, OwnHitsKept
  <2>3. CASE owner[r] = "stats"
    BY <1>1, <2>1, <2>3 DEF OwnHits, OwnFlush
  <2> QED
    BY <2>2, <2>3
<1> QED
  BY <1>2, <1>3, <1>4 DEF FlushSends

\* A Flush that succeeds published all that its request knew.
LEMMA AcknowledgedIsPublished ==
    ASSUME IInv, ServiceTypeOK, StoreFacts, NEW r \in Replicas, OwnHits(r),
           NothingPending(r) \/ Acknowledge(r) \/ ClearLocal(r),
           owner[r] = "stats", ~saturated, ~reader[r].behind, NEW k \in Keys
    PROVE  reader[r].mine[k] <= Published(r, k)
<1>1. reader[r].mine[k] <= by[r][k] /\ OwnFlush(r)
  BY DEF OwnHits
<1>2. CASE NothingPending(r)
  <2>1. n[r][k] = 0 /\ batch[r] = NoBatch
    BY <1>2 DEF NothingPending, StoreFacts, HeldIsPending, IInv, TypeOK, Tally
  <2>2. Waiting(r)[k] = 0
    BY <2>1 DEF Waiting, Applied
  <2> QED
    BY <1>1, <2>2, OwnTypes DEF Published
<1>3. CASE Acknowledge(r)
  <2>1. phase[r] = "applied"
    BY <1>3 DEF Acknowledge, Move
  <2>2. Applied(r)
    BY <2>1 DEF IInv, ExactlyOnceInv, RepliesAreTrue
  <2>3. Waiting(r)[k] = n[r][k] - sent[r][k]
    BY <2>2 DEF Waiting
  <2>4. reader[r].mine[k] + n[r][k] - sent[r][k] <= by[r][k]
    BY <1>1, <2>1 DEF OwnFlush
  <2> QED
    BY <2>3, <2>4, OwnTypes DEF Published
<1>4. CASE ClearLocal(r)
  BY <1>4 DEF ClearLocal, Move, IInv, ExactlyOnceInv, RepliesAreTrue
<1> QED
  BY <1>2, <1>3, <1>4

LEMMA ReturnKeepsOwn ==
    ASSUME IInv, ServiceTypeOK, StoreFacts, [ServiceNext]_allVars, NEW r \in Replicas,
           FlushSucceeds(r) \/ FlushErrs(r), OwnHits(r)
    PROVE  OwnHits(r)'
<1>1. PICK ok \in BOOLEAN : FlushReturns(r, ok)
      /\ (ok => NothingPending(r) \/ Acknowledge(r) \/ ClearLocal(r))
  BY DEF FlushSucceeds, FlushErrs
<1>2. owner'[r] = "nobody" /\ UNCHANGED by
  BY DEF FlushSucceeds, FlushErrs, Unlock, FlushReturns, ServiceTypeOK
<1>3. CASE owner[r] # "stats"
  <2>1. reader' = reader
    BY <1>1, <1>3 DEF FlushReturns
  <2> QED
    BY <1>2, <2>1, OwnHitsKept
<1>4. CASE owner[r] = "stats"
  <2>1. reader' = [reader EXCEPT ![r].at = IF ok THEN "exists" ELSE "done",
                                 ![r].answer = IF ok THEN "none" ELSE "error"]
    BY <1>1, <1>4 DEF FlushReturns
  <2>2. /\ reader'[r].mine = reader[r].mine /\ reader'[r].behind = reader[r].behind
        /\ reader'[r].at = IF ok THEN "exists" ELSE "done"
    BY <2>1 DEF ServiceTypeOK, Reader
  <2>3. reader[r].at = "flush"
    BY <1>4 DEF OwnHits
  <2>4. ASSUME ~saturated', ~reader[r].behind PROVE MineIsPublished(r)'
    <3>1. ASSUME ok, NEW k \in Keys PROVE reader[r].mine[k] <= Published(r, k)'
      <4>1. ~saturated
        BY <2>4, StepMaps, StoreGrows
      <4>2. reader[r].mine[k] <= Published(r, k)
        BY <1>1, <1>4, <2>4, <3>1, <4>1, AcknowledgedIsPublished
      <4> QED
        BY <2>4, <4>2, OwnTypes, PublishedGrows
    <3> QED
      BY <2>2, <3>1 DEF MineIsPublished
  <2>5. OwnFlush(r)'
    BY <1>2 DEF OwnFlush
  <2> QED
    BY <1>2, <2>2, <2>3, <2>4, <2>5 DEF OwnHits
<1> QED
  BY <1>3, <1>4

LEMMA TopFlushesKeepsOwn ==
    ASSUME IInv, ServiceTypeOK, NEW r \in Replicas, TopFlushes(r), OwnHits(r)
    PROVE  OwnHits(r)'
<1>1. /\ reader[r].at = "flush" /\ UNCHANGED <<by, batch>>
      /\ phase' = [phase EXCEPT ![r] = IF overflow[r] THEN "saturate" ELSE "batch"]
  BY DEF TopFlushes, Lock, BeginFlush, Move
<1>2. reader[r] \in Reader /\ batch \in [Replicas -> {batch[s] : s \in Replicas}]
  BY DEF ServiceTypeOK, IInv, TypeOK
<1>3. /\ reader'[r].at = "flush" /\ reader'[r].mine = reader[r].mine
      /\ reader'[r].behind = (batch[r] # NoBatch)
  BY <1>1, <1>2 DEF TopFlushes, ServiceTypeOK, Reader
<1>4. phase'[r] \in {"saturate", "batch"}
  BY <1>1 DEF IInv, TypeOK
<1>5. reader'[r].behind \/ batch'[r] = NoBatch
  BY <1>1, <1>3, Zenon
<1>6. reader'[r].behind \/ OwnFlush(r)'
  BY <1>4, <1>5 DEF OwnFlush
<1>7. MineIsPublished(r)'
  BY <1>3 DEF MineIsPublished
<1> QED
  BY <1>1, <1>3, <1>6, <1>7 DEF OwnHits

\* The reader of Redis: its Flush is over.
LEMMA ReaderKeepsOwn ==
    ASSUME IInv, ServiceTypeOK, [ServiceNext]_allVars, NEW r \in Replicas, OwnHits(r),
           \/ Statistics(r) \/ Exists(r) \/ ZRevRange(r) \/ TopErrs(r) \/ ResponseSent(r)
    PROVE  OwnHits(r)'
<1>1. /\ UNCHANGED <<owner, by, n, sent, batch, lastSeq, saturated>>
      /\ reader[r].at # "flush"
  BY DEF Statistics, Exists, ReaderMoves, ZRevRange, TopErrs, Finish, ResponseSent,
         vars, localVars, flushVars, redisVars
<1>2. reader[r] \in Reader /\ owner[r] # "stats"
  BY <1>1 DEF ServiceTypeOK, OwnHits
<1>3. \/ reader'[r].at = "none"
      \/ reader'[r].at = "flush" /\ reader'[r].mine = by[r]
      \/ /\ reader[r].at # "none" /\ reader'[r].mine = reader[r].mine
         /\ reader'[r].at = "done"
      \/ /\ reader[r].at = "exists" /\ reader'[r].mine = reader[r].mine
         /\ reader'[r].at = "members" /\ reader'[r].behind = reader[r].behind
  <2>1. CASE Statistics(r)
    BY <2>1, <1>2 DEF Statistics, ServiceTypeOK, NoReader
  <2>2. CASE ResponseSent(r)
    BY <2>2, <1>2 DEF ResponseSent, ServiceTypeOK, NoReader
  <2>3. ASSUME NEW what, NEW hits, Finish(r, what, hits), reader[r].at # "none"
        PROVE  /\ reader[r].at # "none" /\ reader'[r].mine = reader[r].mine
               /\ reader'[r].at = "done"
    BY <1>2, <2>3 DEF Finish, ServiceTypeOK, Reader
  <2>4. CASE Exists(r) /\ ~saturated
    BY <1>2, <2>4 DEF Exists, ReaderMoves, ServiceTypeOK, Reader
  <2>5. CASE Exists(r) /\ saturated
    BY <2>3, <2>5 DEF Exists
  <2>6. CASE ZRevRange(r) \/ TopErrs(r)
    BY <2>3, <2>6 DEF ZRevRange, TopErrs
  <2> QED
    BY <2>1, <2>2, <2>4, <2>5, <2>6
<1>4. \A k \in Keys : Published(r, k)' = Published(r, k)
  BY <1>1 DEF Published, Waiting, Applied
<1>5. OwnFlush(r)'
  BY <1>1, <1>2 DEF OwnFlush
<1>6. reader'[r].at # "none" => \A k \in Keys : reader'[r].mine[k] <= by'[r][k]
  <2>1. \A k \in Keys : by[r][k] <= by[r][k]
    BY OwnTypes
  <2> QED
    BY <1>1, <1>3, <2>1 DEF OwnHits
<1>7. saturated' \/ reader'[r].behind \/ MineIsPublished(r)'
  BY <1>1, <1>3, <1>4 DEF OwnHits, MineIsPublished
<1> QED
  BY <1>1, <1>2, <1>5, <1>6, <1>7 DEF OwnHits

\* What another replica does.
LEMMA OthersKeepOwn ==
    ASSUME IInv, ServiceTypeOK, [ServiceNext]_allVars, NEW r \in Replicas, OwnHits(r),
           NEW s \in Replicas, s # r,
           \/ \E k \in Keys : Fizzbuzz(s, k)
           \/ Statistics(s) \/ Tick(s) \/ Shutdown(s) \/ Expires(s) \/ Killed(s)
           \/ Handlers(s)
    PROVE  OwnHits(r)'
<1> USE DEF IInv, TypeOK, ServiceTypeOK
<1> DEFINE Same == /\ reader'[r] = reader[r] /\ by'[r] = by[r] /\ owner'[r] = owner[r]
                   /\ n'[r] = n[r] /\ sent'[r] = sent[r] /\ batch'[r] = batch[r]
                   /\ phase'[r] = phase[r]
<1>1. ASSUME NEW k \in Keys, Fizzbuzz(s, k) PROVE Same
  BY <1>1 DEF Fizzbuzz, Record, RecordHit, RecordOverflows, RecordIgnored, localVars,
     flushVars
<1>2. ASSUME Statistics(s) \/ Shutdown(s) \/ Expires(s) PROVE Same
  BY <1>2 DEF Statistics, Shutdown, Expires, vars, localVars, flushVars
<1>3. ASSUME Tick(s) \/ TopFlushes(s) \/ LastFlush(s) PROVE Same
  BY <1>3 DEF Tick, TopFlushes, LastFlush, Lock, BeginFlush, Move, localVars
<1>4. ASSUME Killed(s) PROVE Same
  BY <1>4 DEF Killed, Crash, serviceVars, localVars
<1>5. ASSUME FlushSends(s) PROVE Same
  BY <1>5 DEF FlushSends, NextBatch, RetryBatch, SendSaturate, Move, serviceVars, localVars
<1>6. ASSUME FlushSucceeds(s) \/ FlushErrs(s) PROVE Same
  <2>1. n'[r] = n[r] /\ sent'[r] = sent[r] /\ batch'[r] = batch[r] /\ phase'[r] = phase[r]
    BY <1>6, ReturnFrame
  <2>2. owner'[r] = owner[r] /\ reader'[r] = reader[r] /\ by'[r] = by[r]
    BY <1>6 DEF FlushSucceeds, FlushErrs, Unlock, FlushReturns
  <2> QED
    BY <2>1, <2>2
<1>7. ASSUME Exists(s) \/ ZRevRange(s) \/ TopErrs(s) \/ ResponseSent(s) \/ Drained(s) PROVE Same
  BY <1>7 DEF Exists, ReaderMoves, ZRevRange, TopErrs, Finish, ResponseSent, Drained,
     vars, localVars, flushVars
<1> HIDE DEF Same
<1>8. Same
  BY <1>1, <1>2, <1>3, <1>4, <1>5, <1>6, <1>7 DEF Handlers
<1> QED
  BY <1>8, OwnHitsKept DEF FlushIsKept, Same

LEMMA NextKeepsOwn ==
    ASSUME IInv, ServiceTypeOK, StoreFacts, [ServiceNext]_allVars, NEW r \in Replicas,
           OwnHits(r)
    PROVE  OwnHits(r)'
<1> DEFINE Step(s) == \/ \E k \in Keys : Fizzbuzz(s, k)
                      \/ Statistics(s) \/ Tick(s) \/ Shutdown(s) \/ Expires(s)
                      \/ Killed(s) \/ Handlers(s)
<1>1. ASSUME NEW s \in Replicas, s # r, Step(s) PROVE OwnHits(r)'
  BY <1>1, OthersKeepOwn
<1>2. CASE Step(r)
  <2>1. CASE \E k \in Keys : Fizzbuzz(r, k)
    BY <2>1, FizzbuzzKeepsOwn
  <2>2. CASE Statistics(r) \/ Exists(r) \/ ZRevRange(r) \/ TopErrs(r) \/ ResponseSent(r)
    BY <2>2, ReaderKeepsOwn
  <2>3. CASE Tick(r) \/ LastFlush(r)
    <3>1. owner'[r] = "loop" /\ reader' = reader /\ by' = by
      BY <2>3 DEF Tick, LastFlush, Lock, ServiceTypeOK
    <3> QED
      BY <3>1, OwnHitsKept
  <2>4. CASE Shutdown(r) \/ Expires(r) \/ Drained(r)
    <3>1. UNCHANGED <<reader, by, owner, n, sent, batch, phase>>
      BY <2>4 DEF Shutdown, Expires, Drained, vars, localVars, flushVars
    <3> QED
      BY <3>1, OwnHitsKept DEF FlushIsKept
  <2>5. CASE Killed(r)
    <3>1. UNCHANGED <<reader, by, owner, n, sent, batch>> /\ phase'[r] = "down"
      BY <2>5 DEF Killed, Crash, serviceVars, localVars, IInv, TypeOK
    <3> QED
      BY <3>1, OwnHitsKept DEF FlushIsKept
  <2>6. CASE TopFlushes(r)
    BY <2>6, TopFlushesKeepsOwn
  <2>7. CASE FlushSends(r)
    BY <2>7, SendsKeepsOwn
  <2>8. CASE FlushSucceeds(r) \/ FlushErrs(r)
    BY <2>8, ReturnKeepsOwn
  <2> QED
    BY <1>2, <2>1, <2>2, <2>3, <2>4, <2>5, <2>6, <2>7, <2>8 DEF Handlers
<1>3. ASSUME RedisRuns, UNCHANGED serviceVars PROVE OwnHits(r)'
  <2>1. CASE ScriptFrame
    BY <1>3, <2>1, OwnHitsKept DEF ScriptFrame, serviceVars, localVars, FlushIsKept
  <2>2. CASE UNCHANGED <<localVars, flushVars>>
    BY <1>3, <2>2, OwnHitsKept DEF serviceVars, localVars, flushVars, FlushIsKept
  <2> QED
    BY <1>3, <2>1, <2>2, RunEffect, LoseEffect DEF RedisRuns
<1>4. CASE UNCHANGED allVars
  BY <1>4, OwnHitsKept DEF allVars, serviceVars, vars, localVars, flushVars, FlushIsKept
<1> QED
  BY <1>1, <1>2, <1>3, <1>4 DEF ServiceNext

OwnHitsInv == \A r \in Replicas : OwnHits(r)

LEMMA OwnHitsAlways == ServiceSpec => []OwnHitsInv
<1>1. ServiceInit => OwnHitsInv
  BY DEF ServiceInit, OwnHitsInv, OwnHits, OwnFlush, MineIsPublished, NoReader
<1>2. IInv /\ ServiceTypeOK /\ StoreFacts /\ OwnHitsInv /\ [ServiceNext]_allVars
          => OwnHitsInv'
  BY NextKeepsOwn DEF OwnHitsInv
<1>3. QED
  BY <1>1, <1>2, FactsAlways, PTL DEF ServiceSpec

(***************************************************************************)
(* "top flushes first, so a client sees its own hits on this replica"      *)
(* (server.go:110): for any number of replicas, keys and flushes, the      *)
(* answer to a request that found no unacknowledged batch includes each    *)
(* hit that its replica counted before.                                    *)
(***************************************************************************)
THEOREM FreshAnswersAlwaysShowOwnHits == ServiceSpec => FreshAnswersShowOwnHits
<1> DEFINE Fine == \A r \in Replicas :
          GotWinner(r) /\ ~reader[r].behind /\ ~saturated =>
              \A k \in Keys : reader[r].mine[k] <= Published(r, k)
<1>1. OwnHitsInv => [Fine]_allVars
  BY DEF OwnHitsInv, OwnHits, MineIsPublished, GotWinner
<1>2. QED
  BY <1>1, OwnHitsAlways, PTL DEF FreshAnswersShowOwnHits

=============================================================================
