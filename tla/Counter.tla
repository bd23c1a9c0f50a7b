------------------------------ MODULE Counter -------------------------------
(***************************************************************************)
(* The in-memory statsStore of stats.go: one counter for each process.     *)
(* Record runs under the mutex, so each call is one step. The two Go maps  *)
(* are partial functions: the domain is the key set of the map.            *)
(*                                                                         *)
(* A definition marked "mutant" is a plausible bug in the definition below *)
(* it. No specification uses it: it shows that a property can fail.        *)
(***************************************************************************)
EXTENDS Integers, FiniteSetsExt

CONSTANTS
    Prefixes,    \* the different int1, int2, str1, str2
    StringCost,  \* heap bytes of the two strings of a prefix (allocSize)
    PrefixCost,  \* prefixCost: one entry of the map of prefixes
    CountCost,   \* countCost: one entry of the map of counts
    MaxLimit,    \* cfg.Limits.MaxLimit
    MaxBytes,    \* cfg.StatsMaxBytes
    Span,        \* 2^32: a prefix ID and a limit share a 64-bit map key
    MaxHits      \* bound of one count (2^64 - 1 in the code)

(***************************************************************************)
(* The charges are positive. The last two conjuncts are what loadConfig    *)
(* checks so that a limit and a prefix ID fit in 32 bits.                  *)
(***************************************************************************)
ASSUME CostAssumption ==
    /\ StringCost \in [Prefixes -> Nat]
    /\ PrefixCost \in Nat \ {0}
    /\ CountCost \in Nat \ {0}
    /\ MaxHits \in Nat

ASSUME ConfigAssumption ==
    /\ MaxBytes \in Int
    /\ MaxLimit \in Nat
    /\ Span \in Nat \ {0}
    /\ MaxLimit <= Span - 1
    /\ MaxBytes \div PrefixCost <= Span - 1

VARIABLES
    prefixes,    \* prefix -> its ID
    counts,      \* ID * Span + limit -> hits
    top,         \* the leader, NoRequest before the first hit
    topKey,
    topHits,
    usedBytes,
    saturated

vars == <<prefixes, counts, top, topKey, topHits, usedBytes, saturated>>

Requests == [prefix : Prefixes, limit : 1..MaxLimit]

NoRequest == [prefix |-> "none", limit |-> 0]

EmptyMap == [x \in {} |-> 0]

Put(map, x, y) == [z \in DOMAIN map \cup {x} |-> IF z = x THEN y ELSE map[z]]

Init ==
    /\ prefixes = EmptyMap
    /\ counts = EmptyMap
    /\ top = NoRequest
    /\ topKey = 0
    /\ topHits = 0
    /\ usedBytes = 0
    /\ saturated = FALSE

-----------------------------------------------------------------------------

Known(p) == p.prefix \in DOMAIN prefixes

(***************************************************************************)
(* uint32(len(c.prefixes)): the next ID, cut to 32 bits.                   *)
(***************************************************************************)
NewestId == (Cardinality(DOMAIN prefixes) - 1) % Span  \* mutant

NextId == Cardinality(DOMAIN prefixes) % Span

IdOf(p) == IF Known(p) THEN prefixes[p.prefix] ELSE NextId

KeyUnshifted(p) == IdOf(p) + p.limit  \* mutant
KeyOfLimit(p) == p.limit  \* mutant: uint32(id) << 32 is 0

KeyOf(p) == IdOf(p) * Span + p.limit

HitsAt(key) == IF key \in DOMAIN counts THEN counts[key] ELSE 0

NewHits(p) == HitsAt(KeyOf(p)) + 1

CostOfAll(p) == CountCost + PrefixCost + StringCost[p.prefix]  \* mutant

Cost(p) ==
    IF Known(p) THEN CountCost
                ELSE CountCost + PrefixCost + StringCost[p.prefix]

(***************************************************************************)
(* A hit for a new key that the budget has no room for saturates.          *)
(***************************************************************************)
NoRoom(p) ==
    /\ KeyOf(p) \notin DOMAIN counts
    /\ usedBytes + Cost(p) > MaxBytes

Charge(p) ==
    IF KeyOf(p) \in DOMAIN counts
    THEN UNCHANGED <<prefixes, usedBytes>>
    ELSE /\ usedBytes' = usedBytes + Cost(p)
         /\ prefixes' = IF Known(p) THEN prefixes
                                    ELSE Put(prefixes, p.prefix, NextId)

(***************************************************************************)
(* Only the key of this call can take the lead. On a tie the leader stays. *)
(***************************************************************************)
LeadOnce(p, n) ==  \* mutant
    IF n > topHits
    THEN /\ topHits' = n
         /\ topKey' = KeyOf(p)
         /\ top' = IF topHits = 0 THEN p ELSE top
    ELSE UNCHANGED <<top, topKey, topHits>>

Lead(p, n) ==
    IF n > topHits
    THEN /\ topHits' = n
         /\ topKey' = KeyOf(p)
         /\ top' = IF KeyOf(p) # topKey THEN p ELSE top
    ELSE UNCHANGED <<top, topKey, topHits>>

RecordHit(p) ==
    /\ ~saturated
    /\ ~NoRoom(p)
    /\ NewHits(p) <= MaxHits
    /\ Charge(p)
    /\ counts' = Put(counts, KeyOf(p), NewHits(p))
    /\ Lead(p, NewHits(p))
    /\ UNCHANGED saturated

RecordSaturates(p) ==
    /\ ~saturated
    /\ NoRoom(p)
    /\ saturated' = TRUE
    /\ prefixes' = EmptyMap
    /\ counts' = EmptyMap
    /\ UNCHANGED <<top, topKey, topHits, usedBytes>>

RecordIgnored(p) == saturated /\ UNCHANGED vars

Record(p) == RecordHit(p) \/ RecordSaturates(p) \/ RecordIgnored(p)

Next == \E p \in Requests : Record(p)

Spec == Init /\ [][Next]_vars

-----------------------------------------------------------------------------
(***************************************************************************)
(* The counts that the maps stand for, request by request.                 *)
(***************************************************************************)
HitsOf(p) == IF Known(p) THEN HitsAt(KeyOf(p)) ELSE 0

Contract == INSTANCE StatsStore WITH
    Stores  <- {},
    visible <- [p \in Requests |-> HitsOf(p)],
    waiting <- EmptyMap

(***************************************************************************)
(* Type invariant of the counter (stats.go, type counter).                 *)
(***************************************************************************)
TypeOK ==
    /\ DOMAIN prefixes \subseteq Prefixes
    /\ prefixes \in [DOMAIN prefixes -> Nat]
    /\ DOMAIN counts \subseteq Nat
    /\ counts \in [DOMAIN counts -> 1..MaxHits]
    /\ top \in Requests \cup {NoRequest}
    /\ topKey \in Nat
    /\ topHits \in 0..MaxHits
    /\ usedBytes \in Nat
    /\ saturated \in BOOLEAN

(***************************************************************************)
(* The leader kept by Record is an exact winner of all hits counted so     *)
(* far: no request has more hits, and top has exactly topHits. This is     *)
(* "counts exactly or returns errStatsUnavailable" (stats.go:15).          *)
(***************************************************************************)
LeaderIsExact == ~saturated => Contract!IsWinner(top, topHits)

(***************************************************************************)
(* Two requests never share a map key, and a prefix ID never wraps: the    *)
(* packing ID << 32 | limit is exact under the checks of loadConfig.       *)
(***************************************************************************)
KeysAreDistinct ==
    \A p, q \in Requests :
        Known(p) /\ Known(q) /\ p # q => KeyOf(p) # KeyOf(q)

(***************************************************************************)
(* The budget holds at every step, also the step that saturates.           *)
(***************************************************************************)
WithinBudget == usedBytes = 0 \/ usedBytes <= MaxBytes

(***************************************************************************)
(* The charge is exact: a prefix is charged one time, however many limits  *)
(* share it, and each different request one count (TestCounterSharesPrefix *)
(* in stats_test.go).                                                      *)
(***************************************************************************)
ChargeOf == [x \in Prefixes |-> PrefixCost + StringCost[x]]

ChargeIsExact ==
    ~saturated =>
        usedBytes = CountCost * Cardinality(DOMAIN counts)
                    + MapThenSumSet(LAMBDA x : ChargeOf[x], DOMAIN prefixes)

(***************************************************************************)
(* Each hit counts one time, for its own request only, and the counts go   *)
(* only when the counter saturates: the maps implement StatsStore.         *)
(***************************************************************************)
CountsExactly == Contract!Spec

=============================================================================
