----------------------------- MODULE StatsStore -----------------------------
(***************************************************************************)
(* What the statsStore interface of stats.go promises to /stats, whatever  *)
(* the implementation: each counted hit is published exactly one time, and *)
(* an answer is the exact winner of the published hits or unavailable.     *)
(* Counter (one process) and RedisStore (replicas that share Redis) are    *)
(* both shown to implement this specification.                             *)
(***************************************************************************)
EXTENDS Integers

CONSTANTS
    Requests,   \* the keys of the statistics: parsed, valid parameters
    Stores      \* the stores that count locally before they publish

VARIABLES
    visible,    \* hits of each request that Top can see
    waiting,    \* hits counted by a store and not published yet
    saturated   \* an exact winner is no longer known: Top is unavailable

vars == <<visible, waiting, saturated>>

NoHits == [p \in Requests |-> 0]

Tally == [Requests -> Nat]

TypeOK ==
    /\ visible \in Tally
    /\ waiting \in [Stores -> Tally]
    /\ saturated \in BOOLEAN

Init ==
    /\ visible = NoHits
    /\ waiting = [s \in Stores |-> NoHits]
    /\ saturated = FALSE

(***************************************************************************)
(* Record in a store without a Flush: the hit is visible at once.          *)
(***************************************************************************)
CountVisibly(p) ==
    /\ ~saturated
    /\ visible' = [visible EXCEPT ![p] = @ + 1]
    /\ UNCHANGED <<waiting, saturated>>

(***************************************************************************)
(* Record in a store that flushes: the hit waits in the store.             *)
(***************************************************************************)
CountLocally(s, p) ==
    /\ waiting' = [waiting EXCEPT ![s][p] = @ + 1]
    /\ UNCHANGED <<visible, saturated>>

(***************************************************************************)
(* Some waiting hits of one store become visible, and stop waiting in the  *)
(* same step: none is lost and none counts twice.                          *)
(***************************************************************************)
Publish(s) ==
    /\ ~saturated
    /\ visible' \in Tally
    /\ waiting' \in [Stores -> Tally]
    /\ \A p \in Requests :
          /\ visible'[p] + waiting'[s][p] = visible[p] + waiting[s][p]
          /\ waiting'[s][p] <= waiting[s][p]
    /\ \A t \in Stores \ {s} : waiting'[t] = waiting[t]
    /\ UNCHANGED saturated

(***************************************************************************)
(* The budget is full. The counts go, and the state is permanent.          *)
(***************************************************************************)
Saturate ==
    /\ saturated' = TRUE
    /\ visible' = NoHits
    /\ UNCHANGED waiting

(***************************************************************************)
(* Hits that wait may be dropped, but only when no winner is ever given.   *)
(***************************************************************************)
Discard(s) ==
    /\ saturated
    /\ waiting' \in [Stores -> Tally]
    /\ \A p \in Requests : waiting'[s][p] <= waiting[s][p]
    /\ \A t \in Stores \ {s} : waiting'[t] = waiting[t]
    /\ UNCHANGED <<visible, saturated>>

Next ==
    \/ \E p \in Requests : CountVisibly(p)
    \/ \E s \in Stores, p \in Requests : CountLocally(s, p)
    \/ \E s \in Stores : Publish(s) \/ Discard(s)
    \/ Saturate

Spec == Init /\ [][Next]_vars

(***************************************************************************)
(* A right answer of Top: n hits for p, where n = 0 says that nothing is   *)
(* counted. On a tie, any of the leaders is right.                         *)
(***************************************************************************)
IsWinner(p, n) ==
    IF n = 0 THEN visible = NoHits
             ELSE visible[p] = n /\ \A q \in Requests : visible[q] <= n

=============================================================================
