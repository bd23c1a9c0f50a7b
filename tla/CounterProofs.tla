--------------------------- MODULE CounterProofs ----------------------------
(***************************************************************************)
(* The safety properties of Counter, for every set of prefixes, every      *)
(* limit, budget and charge that CostAssumption and ConfigAssumption allow.*)
(***************************************************************************)
EXTENDS Counter, SumProofs

N == Cardinality(DOMAIN prefixes)

(***************************************************************************)
(* The IDs in use are different numbers below the number of prefixes.      *)
(***************************************************************************)
IdsInv ==
    /\ IsFiniteSet(DOMAIN prefixes)
    /\ \A x \in DOMAIN prefixes : prefixes[x] < N
    /\ \A x, y \in DOMAIN prefixes : x # y => prefixes[x] # prefixes[y]

(***************************************************************************)
(* The budget pays for each prefix: this bounds the IDs.                   *)
(***************************************************************************)
BudgetInv ==
    /\ N * PrefixCost <= usedBytes
    /\ WithinBudget

(***************************************************************************)
(* A key of the map of counts belongs to a known prefix, so a new prefix   *)
(* cannot inherit hits.                                                    *)
(***************************************************************************)
CountsInv ==
    \A key \in DOMAIN counts : \E p \in Requests : Known(p) /\ key = KeyOf(p)

LeadInv ==
    ~saturated =>
        /\ \A key \in DOMAIN counts : counts[key] <= topHits
        /\ topHits = 0 => topKey = 0
        /\ topHits > 0 =>
              /\ top \in Requests
              /\ Known(top)
              /\ topKey = KeyOf(top)
              /\ topKey \in DOMAIN counts
              /\ counts[topKey] = topHits

IInv == TypeOK /\ IdsInv /\ BudgetInv /\ CountsInv /\ LeadInv

-----------------------------------------------------------------------------
(***************************************************************************)
(* Packing an ID and a limit below Span into one number loses nothing      *)
(* (stats.go:73).                                                          *)
(***************************************************************************)
LEMMA PackingIsInjective ==
    ASSUME NEW i \in Nat, NEW j \in Nat,
           NEW l \in 1..MaxLimit, NEW m \in 1..MaxLimit,
           i * Span + l = j * Span + m
    PROVE  i = j /\ l = m
<1>1. Span \in Nat /\ l \in Nat /\ m \in Nat /\ l < Span /\ m < Span
  BY ConfigAssumption
<1>2. ASSUME NEW u \in Nat, NEW v \in Nat, u < v
      PROVE  u * Span + Span <= v * Span
  <2>1. (v - u - 1) * Span >= 0
    BY <1>1, <1>2
  <2>2. (v - u - 1) * Span = v * Span - u * Span - Span
    BY <1>1, <1>2
  <2>3. u * Span \in Int /\ v * Span \in Int
    BY <1>1
  <2> QED
    BY <2>1, <2>2, <2>3, <1>1
<1>3. i * Span \in Int /\ j * Span \in Int
  BY <1>1
<1>4. ~(i < j)
  BY <1>1, <1>2, <1>3
<1>5. ~(j < i)
  BY <1>1, <1>2, <1>3
<1> QED
  BY <1>1, <1>3, <1>4, <1>5

(***************************************************************************)
(* A budget that pays for k prefixes has k different 32-bit IDs: this is   *)
(* why loadConfig limits STATS_MAX_BYTES (config.go:93).                   *)
(***************************************************************************)
LEMMA PaidIdsFit ==
    ASSUME NEW k \in Nat, k * PrefixCost <= MaxBytes
    PROVE  k <= Span - 1
<1> DEFINE q == MaxBytes \div PrefixCost
<1>1. /\ q \in Int
      /\ MaxBytes < q * PrefixCost + PrefixCost
  BY CostAssumption, ConfigAssumption
<1>2. CASE k > q
  <2>1. (k - q - 1) * PrefixCost >= 0
    BY <1>1, <1>2, CostAssumption
  <2>2. (k - q - 1) * PrefixCost = k * PrefixCost - q * PrefixCost - PrefixCost
    BY <1>1, CostAssumption
  <2>3. k * PrefixCost \in Int /\ q * PrefixCost \in Int
    BY <1>1, CostAssumption
  <2> QED
    BY <1>1, <2>1, <2>2, <2>3, CostAssumption, ConfigAssumption
<1>3. CASE ~(k > q)
  BY <1>1, <1>3, ConfigAssumption
<1> QED
  BY <1>2, <1>3

-----------------------------------------------------------------------------
(***************************************************************************)
(* The next ID is not in use, and does not wrap around in 32 bits.         *)
(***************************************************************************)
LEMMA NextIdIsFresh ==
    ASSUME IInv
    PROVE  /\ N \in Nat
           /\ NextId = N
           /\ \A x \in DOMAIN prefixes : prefixes[x] \in Nat /\ prefixes[x] < N
<1>1. N \in Nat
  BY FS_CardinalityType DEF IInv, IdsInv, N
<1>2. N = 0 \/ N * PrefixCost <= MaxBytes
  <2>1. CASE usedBytes = 0
    <3>1. N * PrefixCost \in Int /\ N * PrefixCost <= 0
      BY <1>1, <2>1, CostAssumption DEF IInv, BudgetInv
    <3>2. N > 0 => N * PrefixCost > 0
      BY <1>1, CostAssumption
    <3> QED
      BY <1>1, <3>1, <3>2
  <2>2. CASE usedBytes # 0
    BY <1>1, <2>2, CostAssumption, ConfigAssumption
    DEF IInv, BudgetInv, WithinBudget, TypeOK
  <2> QED
    BY <2>1, <2>2
<1>3. N < Span
  BY <1>1, <1>2, PaidIdsFit, ConfigAssumption
<1>4. NextId = N
  BY <1>1, <1>3, ConfigAssumption DEF NextId, N
<1> QED
  BY <1>1, <1>4 DEF IInv, TypeOK, IdsInv

LEMMA KeyType ==
    ASSUME IInv, NEW p \in Requests
    PROVE  /\ IdOf(p) \in Nat
           /\ KeyOf(p) \in Nat
           /\ KeyOf(p) > 0
<1>1. IdOf(p) \in Nat
  BY NextIdIsFresh DEF IdOf, Known
<1>2. p.limit \in Nat /\ p.limit > 0
  BY DEF Requests
<1>3. IdOf(p) * Span \in Nat
  BY <1>1, ConfigAssumption
<1> QED
  BY <1>1, <1>2, <1>3 DEF KeyOf

(***************************************************************************)
(* Two requests with one map key are one request, when at least one of     *)
(* them is known. The other may be about to get the next ID.               *)
(***************************************************************************)
LEMMA SameKeySameRequest ==
    ASSUME IInv, NEW p \in Requests, NEW q \in Requests,
           Known(q), KeyOf(p) = KeyOf(q)
    PROVE  p = q /\ Known(p)
<1>1. p.limit \in 1..MaxLimit /\ q.limit \in 1..MaxLimit
  BY DEF Requests
<1>2. IdOf(p) = IdOf(q) /\ p.limit = q.limit
  BY <1>1, KeyType, PackingIsInjective DEF KeyOf
<1>3. Known(p)
  BY <1>2, NextIdIsFresh DEF IdOf, Known
<1>4. p.prefix = q.prefix
  BY <1>2, <1>3 DEF IdOf, Known, IInv, IdsInv
<1> QED
  BY <1>2, <1>3, <1>4 DEF Requests

THEOREM InitEstablishes == Init => IInv
<1> SUFFICES ASSUME Init PROVE IInv
  OBVIOUS
<1> USE DEF Init, EmptyMap
<1>1. DOMAIN prefixes = {} /\ DOMAIN counts = {}
  OBVIOUS
<1>2. N = 0
  BY <1>1, FS_EmptySet DEF N
<1>3. TypeOK
  <2>1. prefixes \in [DOMAIN prefixes -> Nat]
    OBVIOUS
  <2>2. counts \in [DOMAIN counts -> 1..MaxHits]
    OBVIOUS
  <2>3. top \in {NoRequest} /\ topKey \in Nat /\ usedBytes \in Nat
    OBVIOUS
  <2>4. topHits \in 0..MaxHits
    BY CostAssumption
  <2>5. DOMAIN prefixes \subseteq Prefixes /\ DOMAIN counts \subseteq Nat
    BY <1>1
  <2>6. saturated \in BOOLEAN
    OBVIOUS
  <2> HIDE DEF Init, EmptyMap
  <2> QED
    BY <2>1, <2>2, <2>3, <2>4, <2>5, <2>6 DEF TypeOK
<1>4. IdsInv
  BY <1>1, FS_EmptySet DEF IdsInv
<1>5. BudgetInv
  BY <1>2, CostAssumption DEF BudgetInv, WithinBudget
<1>6. CountsInv
  BY <1>1 DEF CountsInv
<1>7. LeadInv
  BY <1>1 DEF LeadInv
<1> QED
  BY <1>3, <1>4, <1>5, <1>6, <1>7 DEF IInv

-----------------------------------------------------------------------------
(***************************************************************************)
(* A hit adds at most the prefix of its request, and moves no ID.          *)
(***************************************************************************)
LEMMA HitKeepsIds ==
    ASSUME IInv, NEW p \in Requests, RecordHit(p)
    PROVE  /\ DOMAIN prefixes' = DOMAIN prefixes \cup {p.prefix}
           /\ \A x \in DOMAIN prefixes : prefixes'[x] = prefixes[x]
           /\ prefixes'[p.prefix] = IdOf(p)
           /\ Known(p) <=> prefixes' = prefixes
<1>1. CASE Known(p)
  <2>1. prefixes' = prefixes
    BY <1>1 DEF RecordHit, Charge
  <2> QED
    BY <1>1, <2>1 DEF Known, IdOf
<1>2. CASE ~Known(p)
  <2>1. KeyOf(p) \notin DOMAIN counts
    BY <1>2, SameKeySameRequest DEF IInv, CountsInv
  <2>2. prefixes' = Put(prefixes, p.prefix, NextId)
    BY <1>2, <2>1 DEF RecordHit, Charge
  <2>3. p.prefix \notin DOMAIN prefixes
    BY <1>2 DEF Known
  <2>4. DOMAIN prefixes' = DOMAIN prefixes \cup {p.prefix}
    BY <2>2 DEF Put
  <2>5. /\ \A x \in DOMAIN prefixes : prefixes'[x] = prefixes[x]
        /\ prefixes'[p.prefix] = NextId
    BY <2>2, <2>3 DEF Put
  <2> QED
    BY <1>2, <2>3, <2>4, <2>5 DEF IdOf
<1> QED
  BY <1>1, <1>2

(***************************************************************************)
(* So the key of each known request stays, and p gets the key it used.     *)
(***************************************************************************)
LEMMA HitKeepsKeys ==
    ASSUME IInv, NEW p \in Requests, RecordHit(p), NEW q \in Requests
    PROVE  /\ Known(q)' <=> Known(q) \/ q.prefix = p.prefix
           /\ Known(q) => KeyOf(q)' = KeyOf(q)
           /\ q.prefix = p.prefix => KeyOf(q)' = IdOf(p) * Span + q.limit
           /\ KeyOf(p)' = KeyOf(p)
BY HitKeepsIds DEF Known, KeyOf, IdOf

LEMMA HitCounts ==
    ASSUME IInv, NEW p \in Requests, RecordHit(p)
    PROVE  /\ NewHits(p) \in 1..MaxHits
           /\ DOMAIN counts' = DOMAIN counts \cup {KeyOf(p)}
           /\ counts'[KeyOf(p)] = NewHits(p)
           /\ \A key \in DOMAIN counts \ {KeyOf(p)} : counts'[key] = counts[key]
           /\ counts' \in [DOMAIN counts' -> 1..MaxHits]
           /\ KeyOf(p) \in DOMAIN counts => NewHits(p) = counts[KeyOf(p)] + 1
<1>1. HitsAt(KeyOf(p)) \in Nat
  BY CostAssumption DEF IInv, TypeOK, HitsAt
<1>2. NewHits(p) \in 1..MaxHits
  BY <1>1, CostAssumption DEF RecordHit, NewHits
<1>3. counts' = Put(counts, KeyOf(p), NewHits(p))
  BY DEF RecordHit
<1>4. /\ DOMAIN counts' = DOMAIN counts \cup {KeyOf(p)}
      /\ counts'[KeyOf(p)] = NewHits(p)
      /\ \A key \in DOMAIN counts \ {KeyOf(p)} : counts'[key] = counts[key]
  BY <1>3 DEF Put
<1>5. counts' \in [DOMAIN counts' -> 1..MaxHits]
  <2>1. \A key \in DOMAIN counts' : counts'[key] \in 1..MaxHits
    BY <1>2, <1>4 DEF IInv, TypeOK
  <2>2. counts' = [key \in DOMAIN counts' |-> counts'[key]]
    BY <1>3 DEF Put
  <2> QED
    BY <2>1, <2>2
<1>6. KeyOf(p) \in DOMAIN counts => NewHits(p) = counts[KeyOf(p)] + 1
  BY DEF NewHits, HitsAt
<1> QED
  BY <1>2, <1>4, <1>5, <1>6

LEMMA HitKeepsIdsInv ==
    ASSUME IInv, NEW p \in Requests, RecordHit(p)
    PROVE  /\ IdsInv'
           /\ prefixes' \in [DOMAIN prefixes' -> Nat]
           /\ N' = IF Known(p) THEN N ELSE N + 1
<1>1. CASE Known(p)
  <2>1. prefixes' = prefixes
    BY <1>1, HitKeepsIds
  <2> QED
    BY <1>1, <2>1 DEF IInv, IdsInv, TypeOK, N
<1>2. CASE ~Known(p)
  <2>1. p.prefix \notin DOMAIN prefixes
    BY <1>2 DEF Known
  <2>2. IdOf(p) = N /\ N \in Nat
    BY <1>2, NextIdIsFresh DEF IdOf
  <2>3. IsFiniteSet(DOMAIN prefixes') /\ N' = N + 1
    <3>1. IsFiniteSet(DOMAIN prefixes)
      BY DEF IInv, IdsInv
    <3>2. DOMAIN prefixes' = DOMAIN prefixes \cup {p.prefix}
      BY HitKeepsIds
    <3>3. /\ IsFiniteSet(DOMAIN prefixes \cup {p.prefix})
          /\ Cardinality(DOMAIN prefixes \cup {p.prefix}) =
                Cardinality(DOMAIN prefixes) + 1
      BY <2>1, <3>1, FS_AddElement
    <3> QED
      BY <3>2, <3>3 DEF N
  <2>4. ASSUME NEW x \in DOMAIN prefixes'
        PROVE  \/ x = p.prefix /\ prefixes'[x] = N
               \/ /\ x \in DOMAIN prefixes
                  /\ prefixes'[x] = prefixes[x]
                  /\ prefixes[x] \in Nat
                  /\ prefixes[x] < N
    <3>1. CASE x = p.prefix
      BY <2>2, <3>1, HitKeepsIds
    <3>2. CASE x \in DOMAIN prefixes
      <4>1. prefixes'[x] = prefixes[x]
        BY <3>2, HitKeepsIds
      <4> QED
        BY <3>2, <4>1, NextIdIsFresh
    <3> QED
      BY <3>1, <3>2, HitKeepsIds
  <2>5. \A x \in DOMAIN prefixes' : prefixes'[x] \in Nat /\ prefixes'[x] < N + 1
    BY <2>2, <2>4
  <2>6. ASSUME NEW x \in DOMAIN prefixes', NEW y \in DOMAIN prefixes', x # y
        PROVE  prefixes'[x] # prefixes'[y]
    BY <2>2, <2>4, <2>6 DEF IInv, IdsInv
  <2>7. prefixes' \in [DOMAIN prefixes' -> Nat]
    <3>1. prefixes' = Put(prefixes, p.prefix, NextId) \/ prefixes' = prefixes
      BY DEF RecordHit, Charge
    <3>2. prefixes' = [x \in DOMAIN prefixes' |-> prefixes'[x]]
      BY <3>1 DEF Put, IInv, TypeOK
    <3> QED
      BY <2>5, <3>2
  <2> QED
    BY <1>2, <2>3, <2>5, <2>6, <2>7 DEF IdsInv
<1> QED
  BY <1>1, <1>2

LEMMA HitKeepsBudgetInv ==
    ASSUME IInv, NEW p \in Requests, RecordHit(p)
    PROVE  usedBytes' \in Nat /\ BudgetInv'
<1>1. /\ p.prefix \in Prefixes
      /\ StringCost[p.prefix] \in Nat
  BY CostAssumption DEF Requests
<1>2. Cost(p) \in Nat /\ (~Known(p) => Cost(p) >= PrefixCost)
  BY <1>1, CostAssumption DEF Cost
<1>3. usedBytes \in Nat /\ N \in Nat
  BY NextIdIsFresh DEF IInv, TypeOK
<1>4. N * PrefixCost \in Nat /\ (N + 1) * PrefixCost = N * PrefixCost + PrefixCost
  BY <1>3, CostAssumption
<1>5. CASE KeyOf(p) \in DOMAIN counts
  <2>1. usedBytes' = usedBytes /\ prefixes' = prefixes
    BY <1>5 DEF RecordHit, Charge
  <2> QED
    BY <1>3, <2>1 DEF IInv, BudgetInv, WithinBudget, N
<1>6. CASE KeyOf(p) \notin DOMAIN counts
  <2>1. usedBytes' = usedBytes + Cost(p)
    BY <1>6 DEF RecordHit, Charge
  <2>2. usedBytes' <= MaxBytes
    BY <1>2, <1>3, <1>6, <2>1, ConfigAssumption DEF RecordHit, NoRoom
  <2>3. N' * PrefixCost <= usedBytes'
    <3>1. CASE Known(p)
      BY <1>2, <1>3, <1>4, <2>1, <3>1, HitKeepsIdsInv DEF IInv, BudgetInv
    <3>2. CASE ~Known(p)
      <4>1. N' * PrefixCost = N * PrefixCost + PrefixCost
        BY <1>4, <3>2, HitKeepsIdsInv
      <4> QED
        BY <1>2, <1>3, <1>4, <2>1, <3>2, <4>1, CostAssumption DEF IInv, BudgetInv
    <3> QED
      BY <3>1, <3>2
  <2> QED
    BY <1>2, <1>3, <2>1, <2>2, <2>3 DEF BudgetInv, WithinBudget
<1> QED
  BY <1>5, <1>6

LEMMA HitKeepsCountsInv ==
    ASSUME IInv, NEW p \in Requests, RecordHit(p)
    PROVE  DOMAIN counts' \subseteq Nat /\ CountsInv'
<1>1. DOMAIN counts' \subseteq Nat
  BY HitCounts, KeyType DEF IInv, TypeOK
<1>2. ASSUME NEW key \in DOMAIN counts'
      PROVE  \E q \in Requests : Known(q)' /\ key = KeyOf(q)'
  <2>1. CASE key = KeyOf(p)
    BY <2>1, HitKeepsKeys
  <2>2. CASE key \in DOMAIN counts
    <3>1. PICK q \in Requests : Known(q) /\ key = KeyOf(q)
      BY <2>2 DEF IInv, CountsInv
    <3> QED
      BY <3>1, HitKeepsKeys
  <2>3. DOMAIN counts' = DOMAIN counts \cup {KeyOf(p)}
    BY HitCounts
  <2> QED
    BY <2>1, <2>2, <2>3
<1> QED
  BY <1>1, <1>2 DEF CountsInv

(***************************************************************************)
(* Only the key of the call can take the lead (stats.go:92).               *)
(***************************************************************************)
LEMMA HitKeepsLeadInv ==
    ASSUME IInv, NEW p \in Requests, RecordHit(p)
    PROVE  /\ top' \in Requests
           /\ topKey' \in Nat
           /\ topHits' \in 0..MaxHits
           /\ LeadInv'
<1> DEFINE k == NewHits(p)
<1> DEFINE key == KeyOf(p)
<1>1. /\ ~saturated
      /\ Lead(p, k)
  BY DEF RecordHit
<1>2. /\ k \in 1..MaxHits
      /\ topHits \in 0..MaxHits
      /\ topKey \in Nat
      /\ key \in Nat
      /\ key > 0
  BY HitCounts, KeyType DEF IInv, TypeOK
<1>3. \A x \in DOMAIN counts : counts[x] \in Nat /\ counts[x] <= topHits
  BY <1>1, CostAssumption DEF IInv, TypeOK, LeadInv
<1>4. /\ DOMAIN counts' = DOMAIN counts \cup {key}
      /\ counts'[key] = k
      /\ \A x \in DOMAIN counts \ {key} : counts'[x] = counts[x]
      /\ key \in DOMAIN counts => k = counts[key] + 1
  BY HitCounts
<1> HIDE DEF k, key
<1>5. CASE k > topHits
  <2>1. topHits' = k /\ topKey' = key
    BY <1>1, <1>5 DEF Lead, key
  <2>2. top' = p
    <3>1. CASE key # topKey
      BY <1>1, <1>5, <3>1 DEF Lead, key
    <3>2. CASE key = topKey
      <4>1. topHits > 0
        BY <1>1, <1>2, <3>2 DEF IInv, LeadInv
      <4>2. top \in Requests /\ Known(top) /\ KeyOf(p) = KeyOf(top)
        BY <1>1, <3>2, <4>1 DEF IInv, LeadInv, key
      <4>3. top = p
        BY <4>2, SameKeySameRequest
      <4> QED
        BY <1>1, <1>5, <3>2, <4>3 DEF Lead, key
    <3> QED
      BY <3>1, <3>2
  <2>3. \A x \in DOMAIN counts' : counts'[x] <= topHits'
    BY <1>2, <1>3, <1>4, <1>5, <2>1
  <2>4. Known(p)' /\ KeyOf(p)' = key
    BY HitKeepsKeys DEF key
  <2>5. key \in DOMAIN counts' /\ counts'[key] = k
    BY <1>4
  <2> QED
    BY <1>2, <2>1, <2>2, <2>3, <2>4, <2>5 DEF LeadInv
<1>6. CASE ~(k > topHits)
  <2>1. UNCHANGED <<top, topKey, topHits>>
    BY <1>1, <1>6 DEF Lead, key
  <2>2. topHits > 0
    BY <1>2, <1>6
  <2>3. /\ top \in Requests
        /\ Known(top)
        /\ topKey = KeyOf(top)
        /\ topKey \in DOMAIN counts
        /\ counts[topKey] = topHits
    BY <1>1, <2>2 DEF IInv, LeadInv
  <2>4. Known(top)' /\ KeyOf(top)' = KeyOf(top)
    <3>1. \A q \in Requests : Known(q) => Known(q)' /\ KeyOf(q)' = KeyOf(q)
      BY HitKeepsKeys
    <3> QED
      BY <2>1, <2>3, <3>1
  <2>5. topKey \in DOMAIN counts' /\ counts'[topKey] = topHits
    <3>1. key # topKey
      BY <1>2, <1>4, <1>6, <2>3
    <3> QED
      BY <1>4, <2>3, <3>1
  <2>6. \A x \in DOMAIN counts' : counts'[x] <= topHits
    BY <1>2, <1>3, <1>4, <1>6
  <2> QED
    BY <1>2, <2>1, <2>2, <2>3, <2>4, <2>5, <2>6 DEF LeadInv
<1> QED
  BY <1>5, <1>6

LEMMA HitKeepsIInv ==
    ASSUME IInv, NEW p \in Requests, RecordHit(p)
    PROVE  IInv'
<1>1. DOMAIN prefixes' \subseteq Prefixes
  <2>1. p.prefix \in Prefixes
    BY DEF Requests
  <2> QED
    BY <2>1, HitKeepsIds DEF IInv, TypeOK
<1>2. counts' \in [DOMAIN counts' -> 1..MaxHits]
  BY HitCounts
<1>3. saturated' \in BOOLEAN
  BY DEF RecordHit, IInv, TypeOK
<1>4. TypeOK'
  BY <1>1, <1>2, <1>3, HitKeepsIdsInv, HitKeepsBudgetInv, HitKeepsCountsInv,
     HitKeepsLeadInv DEF TypeOK
<1> QED
  BY <1>4, HitKeepsIdsInv, HitKeepsBudgetInv, HitKeepsCountsInv,
     HitKeepsLeadInv DEF IInv

LEMMA SaturatingKeepsIInv ==
    ASSUME IInv, NEW p \in Requests, RecordSaturates(p)
    PROVE  IInv'
<1>1. /\ prefixes' = EmptyMap
      /\ counts' = EmptyMap
      /\ saturated' = TRUE
      /\ UNCHANGED <<top, topKey, topHits, usedBytes>>
  BY DEF RecordSaturates
<1>2. DOMAIN prefixes' = {} /\ DOMAIN counts' = {}
  BY <1>1 DEF EmptyMap
<1>3. N' = 0
  BY <1>2, FS_EmptySet DEF N
<1>4. TypeOK'
  <2>1. /\ prefixes' \in [DOMAIN prefixes' -> Nat]
        /\ counts' \in [DOMAIN counts' -> 1..MaxHits]
    BY <1>1 DEF EmptyMap
  <2> QED
    BY <1>1, <1>2, <2>1 DEF IInv, TypeOK
<1>5. IdsInv'
  BY <1>2, FS_EmptySet DEF IdsInv
<1>6. BudgetInv'
  BY <1>1, <1>3, CostAssumption DEF IInv, TypeOK, BudgetInv, WithinBudget
<1>7. CountsInv'
  BY <1>2 DEF CountsInv
<1>8. LeadInv'
  BY <1>1 DEF LeadInv
<1> QED
  BY <1>4, <1>5, <1>6, <1>7, <1>8 DEF IInv

THEOREM NextKeeps == IInv /\ [Next]_vars => IInv'
<1> SUFFICES ASSUME IInv, [Next]_vars PROVE IInv'
  OBVIOUS
<1>1. ASSUME NEW p \in Requests, RecordHit(p) PROVE IInv'
  BY <1>1, HitKeepsIInv
<1>2. ASSUME NEW p \in Requests, RecordSaturates(p) PROVE IInv'
  BY <1>2, SaturatingKeepsIInv
<1>3. CASE UNCHANGED vars
  BY <1>3 DEF vars, IInv, TypeOK, IdsInv, BudgetInv, WithinBudget, CountsInv,
              LeadInv, N, Known, KeyOf, IdOf, NextId
<1> QED
  BY <1>1, <1>2, <1>3 DEF Next, Record, RecordIgnored

THEOREM Invariance == Spec => []IInv
BY InitEstablishes, NextKeeps, PTL DEF Spec

-----------------------------------------------------------------------------
(***************************************************************************)
(* The type invariant holds for every instance.                            *)
(***************************************************************************)
THEOREM TypeCorrect == Spec => []TypeOK
<1>1. IInv => TypeOK
  BY DEF IInv
<1> QED
  BY <1>1, Invariance, PTL

(***************************************************************************)
(* The leader that Top of the memory store returns is an exact winner of   *)
(* all hits, for every set of requests and every budget.                   *)
(***************************************************************************)
THEOREM LeaderAlwaysExact == Spec => []LeaderIsExact
<1>1. ASSUME IInv, ~saturated, NEW q \in Requests
      PROVE  HitsOf(q) \in Nat /\ HitsOf(q) <= topHits
  BY <1>1, CostAssumption DEF IInv, TypeOK, LeadInv, HitsOf, HitsAt
<1>2. IInv => LeaderIsExact
  <2> SUFFICES ASSUME IInv, ~saturated PROVE Contract!IsWinner(top, topHits)
    BY DEF LeaderIsExact
  <2> DEFINE visible == [p \in Requests |-> HitsOf(p)]
  <2>1. topHits \in Nat
    BY CostAssumption DEF IInv, TypeOK
  <2>2. CASE topHits = 0
    <3>1. \A q \in Requests : HitsOf(q) = 0
      BY <1>1, <2>2
    <3>2. visible = [p \in Requests |-> 0]
      BY <3>1
    <3> QED
      BY <2>2, <3>2 DEF Contract!IsWinner, Contract!NoHits
  <2>3. CASE topHits # 0
    <3>1. top \in Requests /\ HitsOf(top) = topHits
      BY <2>1, <2>3 DEF IInv, LeadInv, HitsOf, HitsAt
    <3>2. visible[top] = topHits
      BY <3>1
    <3>3. \A q \in Requests : visible[q] <= topHits
      BY <1>1
    <3> QED
      BY <2>3, <3>2, <3>3 DEF Contract!IsWinner
  <2> QED
    BY <2>2, <2>3
<1> QED
  BY <1>2, Invariance, PTL

(***************************************************************************)
(* No two requests ever share a map key, whatever Span is: the checks of   *)
(* loadConfig are enough for the packing of stats.go.                      *)
(***************************************************************************)
THEOREM KeysAlwaysDistinct == Spec => []KeysAreDistinct
<1>1. IInv => KeysAreDistinct
  BY SameKeySameRequest DEF KeysAreDistinct
<1> QED
  BY <1>1, Invariance, PTL

(***************************************************************************)
(* The memory store never uses more than STATS_MAX_BYTES.                  *)
(***************************************************************************)
THEOREM AlwaysWithinBudget == Spec => []WithinBudget
<1>1. IInv => WithinBudget
  BY DEF IInv, BudgetInv
<1> QED
  BY <1>1, Invariance, PTL

-----------------------------------------------------------------------------
(***************************************************************************)
(* A hit adds one to its own request and nothing to any other.             *)
(***************************************************************************)
LEMMA HitCountsOne ==
    ASSUME IInv, NEW p \in Requests, RecordHit(p), NEW q \in Requests
    PROVE  HitsOf(q)' = IF q = p THEN HitsOf(p) + 1 ELSE HitsOf(q)
<1>1. /\ DOMAIN counts' = DOMAIN counts \cup {KeyOf(p)}
      /\ counts'[KeyOf(p)] = NewHits(p)
      /\ \A key \in DOMAIN counts \ {KeyOf(p)} : counts'[key] = counts[key]
  BY HitCounts
<1>2. /\ Known(q)' <=> Known(q) \/ q.prefix = p.prefix
      /\ Known(q) => KeyOf(q)' = KeyOf(q)
      /\ q.prefix = p.prefix => KeyOf(q)' = IdOf(p) * Span + q.limit
      /\ KeyOf(p)' = KeyOf(p)
  BY HitKeepsKeys
<1>3. ASSUME NEW s \in Requests, KeyOf(s) \in DOMAIN counts PROVE Known(s)
  <2>1. PICK t \in Requests : Known(t) /\ KeyOf(s) = KeyOf(t)
    BY <1>3 DEF IInv, CountsInv
  <2> QED
    BY <2>1, SameKeySameRequest
<1>4. CASE q = p
  <2>1. HitsOf(p)' = NewHits(p)
    BY <1>1, <1>2, <1>4 DEF HitsOf, HitsAt
  <2>2. NewHits(p) = HitsOf(p) + 1
    BY <1>3 DEF NewHits, HitsOf, HitsAt
  <2> QED
    BY <1>4, <2>1, <2>2
<1>5. CASE q # p /\ Known(q)
  <2>1. KeyOf(q)' = KeyOf(q) /\ KeyOf(q) # KeyOf(p)
    BY <1>2, <1>5, SameKeySameRequest
  <2>2. HitsAt(KeyOf(q))' = HitsAt(KeyOf(q))
    BY <1>1, <2>1 DEF HitsAt
  <2> QED
    BY <1>2, <1>5, <2>2 DEF HitsOf
<1>6. CASE q # p /\ ~Known(q) /\ q.prefix = p.prefix
  <2>1. IdOf(q) = IdOf(p)
    BY <1>6 DEF IdOf, Known
  <2>2. KeyOf(q)' = KeyOf(q)
    BY <1>2, <1>6, <2>1 DEF KeyOf
  <2>3. KeyOf(q) \notin DOMAIN counts
    BY <1>3, <1>6
  <2>4. KeyOf(q) # KeyOf(p)
    <3>1. q.limit # p.limit
      BY <1>6 DEF Requests
    <3>2. q.limit \in 1..MaxLimit /\ p.limit \in 1..MaxLimit
      BY DEF Requests
    <3> QED
      BY <2>1, <3>1, <3>2, KeyType, PackingIsInjective DEF KeyOf
  <2>5. HitsOf(q)' = 0
    BY <1>1, <1>2, <1>6, <2>2, <2>3, <2>4 DEF HitsOf, HitsAt
  <2> QED
    BY <1>6, <2>5 DEF HitsOf
<1>7. CASE q # p /\ ~Known(q) /\ q.prefix # p.prefix
  BY <1>2, <1>7 DEF HitsOf
<1> QED
  BY <1>4, <1>5, <1>6, <1>7

(***************************************************************************)
(* The memory store implements the contract of statsStore: each Record is  *)
(* one visible hit, or the permanent step to "unavailable", or nothing.    *)
(***************************************************************************)
THEOREM CounterImplementsContract == Spec => CountsExactly
<1> DEFINE visible == [p \in Requests |-> HitsOf(p)]
<1>1. Init => Contract!Init
  <2> SUFFICES ASSUME Init PROVE Contract!Init
    OBVIOUS
  <2>1. \A p \in Requests : HitsOf(p) = 0
    BY DEF Init, EmptyMap, HitsOf, Known
  <2>2. EmptyMap = [s \in {} |-> Contract!NoHits]
    BY DEF EmptyMap
  <2> QED
    BY <2>1, <2>2 DEF Init, Contract!Init, Contract!NoHits
<1>2. IInv /\ [Next]_vars => [Contract!Next]_Contract!vars
  <2> SUFFICES ASSUME IInv, [Next]_vars PROVE [Contract!Next]_Contract!vars
    OBVIOUS
  <2>1. ASSUME NEW p \in Requests, RecordHit(p) PROVE Contract!Next
    <3>1. \A q \in Requests :
             HitsOf(q)' = IF q = p THEN HitsOf(p) + 1 ELSE HitsOf(q)
      BY <2>1, HitCountsOne
    <3>2. visible' = [visible EXCEPT ![p] = @ + 1]
      BY <3>1
    <3>3. ~saturated /\ saturated' = saturated
      BY <2>1 DEF RecordHit
    <3>4. Contract!CountVisibly(p)
      BY <3>2, <3>3 DEF Contract!CountVisibly, EmptyMap
    <3> QED
      BY <3>4 DEF Contract!Next
  <2>2. ASSUME NEW p \in Requests, RecordSaturates(p) PROVE Contract!Next
    <3>1. prefixes' = EmptyMap /\ saturated' = TRUE
      BY <2>2 DEF RecordSaturates
    <3>2. \A q \in Requests : HitsOf(q)' = 0
      BY <3>1 DEF HitsOf, Known, EmptyMap
    <3>3. Contract!Saturate
      BY <3>1, <3>2 DEF Contract!Saturate, Contract!NoHits, EmptyMap
    <3> QED
      BY <3>3 DEF Contract!Next
  <2>3. CASE UNCHANGED vars
    BY <2>3 DEF vars, Contract!vars, HitsOf, HitsAt, Known, KeyOf, IdOf, NextId,
                EmptyMap
  <2> QED
    BY <2>1, <2>2, <2>3 DEF Next, Record, RecordIgnored
<1> QED
  BY <1>1, <1>2, Invariance, PTL DEF Spec, CountsExactly, Contract!Spec

-----------------------------------------------------------------------------
(***************************************************************************)
(* The charge: one CountCost for each key, and each prefix one time.       *)
(***************************************************************************)
Charged == SumOver(ChargeOf, DOMAIN prefixes)

ChargeInv ==
    /\ IsFiniteSet(DOMAIN counts)
    /\ ~saturated => usedBytes = CountCost * Cardinality(DOMAIN counts) + Charged

LEMMA ChargeType ==
    ASSUME IInv
    PROVE  /\ \A x \in DOMAIN prefixes : ChargeOf[x] \in Nat
           /\ Charged \in Nat
<1>1. \A x \in Prefixes : ChargeOf[x] \in Nat
  BY CostAssumption DEF ChargeOf
<1>2. \A x \in DOMAIN prefixes : ChargeOf[x] \in Nat
  BY <1>1 DEF IInv, TypeOK
<1>3. Charged \in Nat
  BY <1>2, SumIsNat DEF Charged, IInv, IdsInv
<1> QED
  BY <1>2, <1>3

LEMMA ChargeInit == Init => ChargeInv
<1> SUFFICES ASSUME Init PROVE ChargeInv
  OBVIOUS
<1>1. DOMAIN prefixes = {} /\ DOMAIN counts = {}
  BY DEF Init, EmptyMap
<1>2. Charged = 0
  BY <1>1, FS_EmptySet, SumOfZeros DEF Charged
<1>3. CountCost * 0 = 0
  BY CostAssumption
<1> QED
  BY <1>1, <1>2, <1>3, FS_EmptySet DEF Init, ChargeInv

(***************************************************************************)
(* A hit for a new key of a known prefix pays for the count alone.         *)
(***************************************************************************)
LEMMA HitCharges ==
    ASSUME IInv, NEW p \in Requests, RecordHit(p)
    PROVE  Charged' = IF Known(p) THEN Charged
                                  ELSE Charged + PrefixCost + StringCost[p.prefix]
<1>1. CASE Known(p)
  BY <1>1, HitKeepsIds DEF Charged
<1>2. CASE ~Known(p)
  <2>1. p.prefix \in Prefixes /\ p.prefix \notin DOMAIN prefixes
    BY <1>2 DEF Requests, Known
  <2>2. ChargeOf[p.prefix] = PrefixCost + StringCost[p.prefix]
    BY <2>1 DEF ChargeOf
  <2>3. PrefixCost \in Nat /\ StringCost[p.prefix] \in Nat
    BY <2>1, CostAssumption
  <2>4. \A x \in DOMAIN prefixes \cup {p.prefix} : ChargeOf[x] \in Nat
    BY <2>2, <2>3, ChargeType
  <2>5. SumOver(ChargeOf, DOMAIN prefixes \cup {p.prefix}) = ChargeOf[p.prefix] + Charged
    BY <2>1, <2>4, SumWith DEF Charged, IInv, IdsInv
  <2>6. Charged' = SumOver(ChargeOf, DOMAIN prefixes \cup {p.prefix})
    BY HitKeepsIds DEF Charged
  <2>7. Charged' = ChargeOf[p.prefix] + Charged
    BY <2>5, <2>6
  <2> QED
    BY <1>2, <2>2, <2>3, <2>7, ChargeType
<1> QED
  BY <1>1, <1>2

LEMMA HitKeepsCharge ==
    ASSUME IInv, ChargeInv, NEW p \in Requests, RecordHit(p)
    PROVE  ChargeInv'
<1> DEFINE c == Cardinality(DOMAIN counts)
<1>1. ~saturated /\ ~saturated'
  BY DEF RecordHit
<1>2. usedBytes = CountCost * c + Charged /\ IsFiniteSet(DOMAIN counts)
  BY <1>1 DEF ChargeInv
<1>3. c \in Nat /\ CountCost \in Nat /\ PrefixCost \in Nat /\ StringCost[p.prefix] \in Nat
  BY <1>2, FS_CardinalityType, CostAssumption DEF Requests
<1>4. CASE KeyOf(p) \in DOMAIN counts
  <2>1. usedBytes' = usedBytes /\ prefixes' = prefixes
    BY <1>4 DEF RecordHit, Charge
  <2>2. DOMAIN counts' = DOMAIN counts
    BY <1>4, HitCounts
  <2>3. Charged' = Charged
    BY <2>1 DEF Charged
  <2> QED
    BY <1>1, <1>2, <2>1, <2>2, <2>3 DEF ChargeInv
<1>5. CASE KeyOf(p) \notin DOMAIN counts
  <2>1. usedBytes' = usedBytes + Cost(p)
    BY <1>5 DEF RecordHit, Charge
  <2>2. IsFiniteSet(DOMAIN counts') /\ Cardinality(DOMAIN counts') = c + 1
    <3>1. DOMAIN counts' = DOMAIN counts \cup {KeyOf(p)}
      BY HitCounts
    <3>2. /\ IsFiniteSet(DOMAIN counts \cup {KeyOf(p)})
          /\ Cardinality(DOMAIN counts \cup {KeyOf(p)}) = c + 1
      BY <1>2, <1>5, FS_AddElement
    <3> QED
      BY <3>1, <3>2
  <2>3. CountCost * (c + 1) = CountCost * c + CountCost /\ CountCost * c \in Nat
    BY <1>3
  <2>4. Charged' + CountCost = Charged + Cost(p) /\ Charged' \in Nat
    BY <1>3, HitCharges, ChargeType DEF Cost
  <2>5. Cost(p) \in Nat
    BY <1>3 DEF Cost
  <2>6. usedBytes' = CountCost * (c + 1) + Charged'
    BY <1>2, <1>3, <2>1, <2>3, <2>4, <2>5, ChargeType
  <2> QED
    BY <2>2, <2>6 DEF ChargeInv
<1> QED
  BY <1>4, <1>5

THEOREM ChargeNext == IInv /\ ChargeInv /\ [Next]_vars => ChargeInv'
<1> SUFFICES ASSUME IInv, ChargeInv, [Next]_vars PROVE ChargeInv'
  OBVIOUS
<1>1. ASSUME NEW p \in Requests, RecordHit(p) PROVE ChargeInv'
  BY <1>1, HitKeepsCharge
<1>2. ASSUME NEW p \in Requests, RecordSaturates(p) PROVE ChargeInv'
  <2>1. DOMAIN counts' = {} /\ saturated'
    BY <1>2 DEF RecordSaturates, EmptyMap
  <2> QED
    BY <2>1, FS_EmptySet DEF ChargeInv
<1>3. CASE UNCHANGED vars
  BY <1>3 DEF vars, ChargeInv, Charged
<1> QED
  BY <1>1, <1>2, <1>3 DEF Next, Record, RecordIgnored

(***************************************************************************)
(* A prefix is charged one time and each different request one count, for  *)
(* any charges and any order of the hits (TestCounterSharesPrefix).        *)
(***************************************************************************)
THEOREM ChargeAlwaysExact == Spec => []ChargeIsExact
<1>1. ChargeInv => ChargeIsExact
  BY SumIsFold DEF ChargeInv, ChargeIsExact, Charged
<1> QED
  BY <1>1, ChargeInit, ChargeNext, Invariance, PTL DEF Spec

=============================================================================
