------------------------------- MODULE Config -------------------------------
(***************************************************************************)
(* loadConfig (config.go): the environment over the defaults, and what it  *)
(* reports. A variable of the environment is Unset, or a setting: if it    *)
(* parses, and the value that its parser assigns. A parser assigns also    *)
(* when it fails (strconv returns 0 or the nearest int), and the switch    *)
(* below the parsers sees that value.                                      *)
(*                                                                         *)
(* A definition marked "mutant" is a plausible bug in the definition below *)
(* it. No specification uses it: it shows that a property can fail.        *)
(***************************************************************************)
EXTENDS Integers

CONSTANTS
    Defaults,   \* the config before the environment is read
    MaxUint32,  \* math.MaxUint32
    PrefixCost  \* prefixCost of the memory store

ASSUME ConfigAssumption == MaxUint32 \in Nat \ {0} /\ PrefixCost \in Nat \ {0}

Unset == [given |-> FALSE]

Keys == DOMAIN Defaults

Load(env) == [k \in Keys |-> IF env[k].given THEN env[k].value ELSE Defaults[k]]

BadSettings(env) == {k \in Keys : env[k].given /\ ~env[k].parses}

ConflictPastBudget(c) ==  \* mutant
    IF c["STATS_STORE"] \notin {"memory", "redis"} THEN "STATS_STORE"
    ELSE IF c["MAX_LIMIT"] > MaxUint32 THEN "MAX_LIMIT"
    ELSE IF c["STATS_MAX_BYTES"] \div PrefixCost > MaxUint32 THEN "STATS_MAX_BYTES"
    ELSE IF c["STATS_FLUSH_INTERVAL"] <= 0 THEN "STATS_FLUSH_INTERVAL"
    ELSE IF c["STATS_STORE"] = "redis" /\ c["REDIS_ADDR"] = "" THEN "REDIS_ADDR"
    ELSE "none"

\* The first case of the switch: at most one of them is reported.
Conflict(c) ==
    IF c["MAX_INFLIGHT_BYTES"] < c["MAX_RESPONSE_BYTES"] THEN "MAX_INFLIGHT_BYTES"
    ELSE IF c["STATS_STORE"] \notin {"memory", "redis"} THEN "STATS_STORE"
    ELSE IF c["MAX_LIMIT"] > MaxUint32 THEN "MAX_LIMIT"
    ELSE IF c["STATS_MAX_BYTES"] \div PrefixCost > MaxUint32 THEN "STATS_MAX_BYTES"
    ELSE IF c["STATS_FLUSH_INTERVAL"] <= 0 THEN "STATS_FLUSH_INTERVAL"
    ELSE IF c["STATS_STORE"] = "redis" /\ c["REDIS_ADDR"] = "" THEN "REDIS_ADDR"
    ELSE "none"

\* The problems that loadConfig joins. The server starts when there is none.
Problems(env) == BadSettings(env) \cup ({Conflict(Load(env))} \ {"none"})

LimitsOf(c) ==
    [MaxLimit |-> c["MAX_LIMIT"], MaxStrBytes |-> c["MAX_STR_BYTES"],
     MaxResponseBytes |-> c["MAX_RESPONSE_BYTES"]]

=============================================================================
