--------------------------- MODULE MCStatsService ---------------------------
(***************************************************************************)
(* Small instances of StatsService, with the costs of MCRedisStore.        *)
(***************************************************************************)
EXTENDS StatsService, TLC

CONSTANTS r1, r2, a, b

TwoReplicas == {r1, r2}
OneReplica == {r1}
NoReplica == {}
TwoKeys == {a, b}
OneKey == {a}

Cheap1 == [k \in Keys |-> IF k = a THEN 1 ELSE 3]
Cheap2 == [k \in Keys |-> IF k = a THEN 2 ELSE 4]

\* In MCServiceTwo, nothing tells the replicas apart.
AlikeReplicas == Permutations(Replicas)
=============================================================================
