---------------------------- MODULE MCRedisStore ----------------------------
(***************************************************************************)
(* Small instances of RedisStore. A key costs one unit more in Redis than  *)
(* in a replica. With the costs of a and b and a budget of 3, key a fits,  *)
(* key b fits in a replica but saturates Redis, and both overflow a        *)
(* replica. With a budget of 6, both keys fit everywhere.                  *)
(***************************************************************************)
EXTENDS RedisStore

CONSTANTS r1, r2, a, b

TwoReplicas == {r1, r2}
OneReplica == {r1}
TwoKeys == {a, b}
OneKey == {a}

Cheap1 == [k \in Keys |-> IF k = a THEN 1 ELSE 3]
Cheap2 == [k \in Keys |-> IF k = a THEN 2 ELSE 4]
=============================================================================
