---------------------------- MODULE StatsService ----------------------------
(***************************************************************************)
(* The statistics of the whole service: replicas that run server.go over   *)
(* RedisStore. Each replica has /fizzbuzz handlers that record, one /stats *)
(* handler at a time, the flushLoop goroutine, and the shutdown of main.go.*)
(* The handler and the loop compete for flushMu, so a Flush has an owner,  *)
(* and what the Flush returns goes to that owner.                          *)
(*                                                                         *)
(* A definition marked "mutant" is a plausible bug in the definition below *)
(* it. No specification uses it: it shows that a property can fail.        *)
(***************************************************************************)
EXTENDS RedisStore

CONSTANTS
    Asked,     \* the replicas that get /stats requests
    Stopped    \* the replicas that get SIGTERM

ASSUME ServiceAssumption == Asked \subseteq Replicas /\ Stopped \subseteq Replicas

VARIABLES
    owner,     \* who runs the Flush that holds flushMu, or "nobody"
    loop,      \* flushLoop: "running", "final" or "retrying", "stopped"
    server,    \* "serving", "draining" (srv.Shutdown), "drained" or "expired"
    reader,    \* the /stats request of a replica
    warnings,  \* log lines of warnSaturated in a replica
    \* history
    by,        \* hits that each replica counted
    best,      \* the highest hits in an answer so far
    gone       \* some answer was "unavailable"

serviceVars == <<owner, loop, server, reader, warnings, by, best, gone>>
allVars == <<vars, serviceVars>>

(***************************************************************************)
(* A /stats request: "flush" waits for flushMu or runs its Flush, "exists" *)
(* and "members" read Redis, "done" has the answer. mine, floor and told   *)
(* are what was known when the request came: the hits of this replica, the *)
(* best answer and whether an answer was "unavailable". behind tells if    *)
(* its Flush found a batch that waits for a retry.                         *)
(***************************************************************************)
Answers == {"none", "winner", "unavailable", "error"}

Reader == [at : {"none", "flush", "exists", "members", "done"},
           mine : Tally, floor : Nat, told : BOOLEAN, behind : BOOLEAN,
           answer : Answers, hits : Nat]

NoReader == [at |-> "none", mine |-> NoHits, floor |-> 0, told |-> FALSE,
             behind |-> FALSE, answer |-> "none", hits |-> 0]

ServiceInit ==
    /\ Init
    /\ owner = [r \in Replicas |-> "nobody"]
    /\ loop = [r \in Replicas |-> "running"]
    /\ server = [r \in Replicas |-> "serving"]
    /\ reader = [r \in Replicas |-> NoReader]
    /\ warnings = [r \in Replicas |-> 0]
    /\ by = [r \in Replicas |-> NoHits]
    /\ best = 0
    /\ gone = FALSE

Running(r) == Alive(r) /\ loop[r] # "stopped"

ReaderMoves(r, from, to) ==
    /\ reader[r].at = from
    /\ reader' = [reader EXCEPT ![r].at = to]

Warn(r, now) ==
    warnings' = [warnings EXCEPT ![r] = IF now THEN @ + 1 ELSE @]

-----------------------------------------------------------------------------
(***************************************************************************)
(* The /fizzbuzz handler: Record, and one warning if it saturates. Also a  *)
(* request that Shutdown waits for can still record.                       *)
(***************************************************************************)
Fizzbuzz(r, k) ==
    /\ Running(r)
    /\ server[r] # "drained"
    /\ Record(r, k)
    /\ by' = [by EXCEPT ![r][k] = @ + n'[r][k] - n[r][k]]
    /\ Warn(r, overflow'[r] /\ ~overflow[r])
    /\ UNCHANGED <<owner, loop, server, reader, best, gone>>

(***************************************************************************)
(* A /stats request comes in (statistics, then top).                       *)
(***************************************************************************)
ReadAtOnce(r) ==  \* mutant
    /\ r \in Asked
    /\ Running(r)
    /\ server[r] = "serving"
    /\ reader[r].at = "none"
    /\ reader' = [reader EXCEPT ![r] =
           [NoReader EXCEPT !.at = "exists", !.mine = by[r],
                            !.floor = best, !.told = gone]]
    /\ UNCHANGED <<vars, owner, loop, server, warnings, by, best, gone>>

Statistics(r) ==
    /\ r \in Asked
    /\ Running(r)
    /\ server[r] = "serving"
    /\ reader[r].at = "none"
    /\ reader' = [reader EXCEPT ![r] =
           [NoReader EXCEPT !.at = "flush", !.mine = by[r],
                            !.floor = best, !.told = gone]]
    /\ UNCHANGED <<vars, owner, loop, server, warnings, by, best, gone>>

(***************************************************************************)
(* One caller of flush gets flushMu.                                       *)
(***************************************************************************)
Lock(r, who) ==
    /\ Running(r)
    /\ owner[r] = "nobody"
    /\ owner' = [owner EXCEPT ![r] = who]
    /\ BeginFlush(r)
    /\ UNCHANGED <<server, warnings, by, best, gone>>

TopFlushes(r) ==
    /\ reader[r].at = "flush"
    /\ Lock(r, "stats")
    /\ reader' = [reader EXCEPT ![r].behind = batch[r] # NoBatch]
    /\ UNCHANGED loop

(***************************************************************************)
(* The ticker of flushLoop. When the context ends, the loop flushes a last *)
(* time. With both ready, select takes either. "retrying" is a last flush  *)
(* that finds an unacknowledged batch, so it sends that batch again.       *)
(***************************************************************************)
Tick(r) ==
    /\ loop[r] = "running"
    /\ Lock(r, "loop")
    /\ UNCHANGED <<loop, reader>>

FlushWhileDraining(r) ==  \* mutant
    /\ loop[r] = "running"
    /\ server[r] # "serving"
    /\ Lock(r, "loop")
    /\ loop' = [loop EXCEPT ![r] = IF batch[r] = NoBatch THEN "final"
                                                         ELSE "retrying"]
    /\ UNCHANGED reader

LastFlush(r) ==
    /\ loop[r] = "running"
    /\ server[r] \in {"drained", "expired"}
    /\ Lock(r, "loop")
    /\ loop' = [loop EXCEPT ![r] = IF batch[r] = NoBatch THEN "final"
                                                         ELSE "retrying"]
    /\ UNCHANGED reader

(***************************************************************************)
(* Flush sends its batch, or the request to saturate.                      *)
(***************************************************************************)
FlushSends(r) ==
    /\ Running(r)
    /\ NextBatch(r) \/ RetryBatch(r) \/ SendSaturate(r)
    /\ UNCHANGED serviceVars

(***************************************************************************)
(* Flush returns to its owner. A handler continues with Top or answers     *)
(* with the error. The loop ignores the error.                             *)
(***************************************************************************)
KeepLock(r) == owner' = owner  \* mutant

Unlock(r) == owner' = [owner EXCEPT ![r] = "nobody"]

FlushReturns(r, ok) ==
    /\ owner[r] # "nobody"
    /\ reader' = IF owner[r] # "stats" THEN reader
                 ELSE [reader EXCEPT
                          ![r].at = IF ok THEN "exists" ELSE "done",
                          ![r].answer = IF ok THEN "none" ELSE "error"]
    /\ loop' = IF owner[r] = "loop" /\ loop[r] \in {"final", "retrying"}
               THEN [loop EXCEPT ![r] = "stopped"] ELSE loop
    /\ UNCHANGED <<server, by, best, gone>>

FlushSucceeds(r) ==
    /\ Running(r)
    /\ Warn(r, phase[r] = "applied" /\ result[r] = 2)
    /\ NothingPending(r) \/ Acknowledge(r) \/ ClearLocal(r)
    /\ Unlock(r)
    /\ FlushReturns(r, TRUE)

FlushErrs(r) ==
    /\ Running(r)
    /\ FlushFails(r)
    /\ Unlock(r)
    /\ FlushReturns(r, FALSE)
    /\ UNCHANGED warnings

-----------------------------------------------------------------------------
(***************************************************************************)
(* redisStore.Top. The pipeline has two commands, and it is no transaction:*)
(* a script of another replica can run between them.                       *)
(***************************************************************************)
Finish(r, what, hits) ==
    /\ reader' = [reader EXCEPT ![r].at = "done", ![r].answer = what,
                                ![r].hits = hits]
    /\ best' = IF hits > best THEN hits ELSE best
    /\ gone' = (gone \/ what = "unavailable")
    /\ UNCHANGED <<vars, owner, loop, server, warnings, by>>

Exists(r) ==
    /\ Running(r)
    /\ IF saturated
       THEN reader[r].at = "exists" /\ Finish(r, "unavailable", 0)
       ELSE /\ ReaderMoves(r, "exists", "members")
            /\ UNCHANGED <<vars, owner, loop, server, warnings, by, best, gone>>

ZRevRange(r) ==
    /\ Running(r)
    /\ reader[r].at = "members"
    /\ \E k \in Keys :
          /\ \A x \in Keys : counts[x] <= counts[k]
          /\ Finish(r, "winner", counts[k])

TopErrs(r) ==
    /\ Running(r)
    /\ reader[r].at \in {"exists", "members"}
    /\ Finish(r, "error", 0)

ResponseSent(r) ==
    /\ Running(r)
    /\ reader[r].at = "done"
    /\ reader' = [reader EXCEPT ![r] = NoReader]
    /\ UNCHANGED <<vars, owner, loop, server, warnings, by, best, gone>>

-----------------------------------------------------------------------------
(***************************************************************************)
(* SIGTERM. srv.Shutdown waits for the handlers, and only then, or when    *)
(* the wait is over, stopFlush cancels the context of the loop. A Flush of *)
(* the loop that is in progress at that moment can fail because of it:     *)
(* FlushErrs.                                                              *)
(***************************************************************************)
Shutdown(r) ==
    /\ r \in Stopped
    /\ Running(r)
    /\ server[r] = "serving"
    /\ server' = [server EXCEPT ![r] = "draining"]
    /\ UNCHANGED <<vars, owner, loop, reader, warnings, by, best, gone>>

Drained(r) ==
    /\ Running(r)
    /\ server[r] = "draining"
    /\ reader[r].at = "none"
    /\ server' = [server EXCEPT ![r] = "drained"]
    /\ UNCHANGED <<vars, owner, loop, reader, warnings, by, best, gone>>

\* SHUTDOWN_TIMEOUT: handlers may still run during the last flush.
Expires(r) ==
    /\ Running(r)
    /\ server[r] = "draining"
    /\ server' = [server EXCEPT ![r] = "expired"]
    /\ UNCHANGED <<vars, owner, loop, reader, warnings, by, best, gone>>

(***************************************************************************)
(* The process ends at once: it is killed, or srv.Serve fails and run      *)
(* returns without a last flush.                                           *)
(***************************************************************************)
Killed(r) == Running(r) /\ Crash(r) /\ UNCHANGED serviceVars

RedisRuns == \E m \in requests : Run(m) \/ LoseRequest(m)

Handlers(r) ==
    \/ TopFlushes(r)
    \/ LastFlush(r)
    \/ FlushSends(r)
    \/ FlushSucceeds(r)
    \/ FlushErrs(r)
    \/ Exists(r)
    \/ ZRevRange(r)
    \/ TopErrs(r)
    \/ ResponseSent(r)
    \/ Drained(r)

ServiceNext ==
    \/ \E r \in Replicas, k \in Keys : Fizzbuzz(r, k)
    \/ \E r \in Replicas : Statistics(r) \/ Tick(r) \/ Shutdown(r)
    \/ \E r \in Replicas : Expires(r) \/ Killed(r)
    \/ \E r \in Replicas : Handlers(r)
    \/ RedisRuns /\ UNCHANGED serviceVars

ServiceSpec == ServiceInit /\ [][ServiceNext]_allVars

-----------------------------------------------------------------------------
(***************************************************************************)
(* The types of the variables that StatsService adds (server.go, main.go). *)
(***************************************************************************)
ServiceTypeOK ==
    /\ owner \in [Replicas -> {"nobody", "loop", "stats"}]
    /\ loop \in [Replicas -> {"running", "final", "retrying", "stopped"}]
    /\ server \in [Replicas -> {"serving", "draining", "drained", "expired"}]
    /\ reader \in [Replicas -> Reader]
    /\ \A r \in Replicas :
          /\ phase[r] = "idle" => owner[r] = "nobody"
          /\ owner[r] = "nobody" => phase[r] \in {"idle", "down"}
    /\ warnings \in [Replicas -> Nat]
    /\ by \in [Replicas -> Tally]
    /\ best \in Nat
    /\ gone \in BOOLEAN

GotWinner(r) == reader[r].at = "members" /\ reader'[r].answer = "winner"

Published(r, k) == by[r][k] - Waiting(r)[k]

(***************************************************************************)
(* "top flushes first, so a client sees its own hits on this replica"      *)
(* (server.go:110), when no batch waits for a retry: an answer includes    *)
(* each hit that its replica counted before the request came, also when    *)
(* the loop flushed some of them at the same time. It is not true without  *)
(* the condition: a Flush that retries a batch leaves the newer hits.      *)
(***************************************************************************)
FreshAnswersShowOwnHits ==
    [][\A r \in Replicas :
          GotWinner(r) /\ ~reader[r].behind /\ ~saturated =>
              \A k \in Keys : reader[r].mine[k] <= Published(r, k)]_allVars

(***************************************************************************)
(* Answers of different replicas agree: a request that comes after an      *)
(* answer never gets fewer hits than that answer, and no winner after      *)
(* "unavailable". Only the race of NullMeansNoHits is left out.            *)
(***************************************************************************)
AnswersNeverGoBack ==
    [][\A r \in Replicas :
          GotWinner(r) =>
              /\ ~reader[r].told
              /\ reader'[r].hits >= reader[r].floor \/ saturated]_allVars

(***************************************************************************)
(* "It never reports a winner that can be wrong" (stats.go:16): an answer  *)
(* without hits says that nothing is counted, not that Redis is saturated. *)
(***************************************************************************)
NullMeansNoHits ==
    [][\A r \in Replicas :
          GotWinner(r) /\ reader'[r].hits = 0 => ~saturated]_allVars

LastFlushSucceeds(r, from) ==
    /\ loop[r] \in from
    /\ loop'[r] = "stopped"
    /\ server[r] = "drained"
    /\ phase[r] \in {"batch", "applied", "cleared"}

(***************************************************************************)
(* A normal shutdown that finds no unacknowledged batch, and whose last    *)
(* flush succeeds, leaves no hit in the process (server.go:94): nothing is *)
(* recorded after that flush took its batch.                               *)
(***************************************************************************)
CleanStopLosesNothing ==
    [][\A r \in Replicas :
          LastFlushSucceeds(r, {"final"}) =>
              n'[r] = NoHits \/ saturated']_allVars

(***************************************************************************)
(* "flushes one last time when ctx ends, so a normal shutdown loses no     *)
(* hits" (server.go:94), also when a batch waits for a retry.              *)
(***************************************************************************)
StopLosesNothing ==
    [][\A r \in Replicas :
          LastFlushSucceeds(r, {"final", "retrying"}) =>
              n'[r] = NoHits \/ saturated']_allVars

(***************************************************************************)
(* A warning is true for ever: the store is saturated, or the replica that *)
(* logged it has overflowed and will saturate Redis with its next Flush.   *)
(* A replica forgets its overflow only when Redis really is saturated      *)
(* (stats.go:18, redis_store.go:136).                                      *)
(***************************************************************************)
WarningsAreTrue ==
    \A r \in Replicas : warnings[r] > 0 => saturated \/ overflow[r]

-----------------------------------------------------------------------------
(***************************************************************************)
(* Fairness. A goroutine that can run runs, and a call to Redis ends, with *)
(* a reply or with its timeout. The two callers of flush compete: a        *)
(* sync.Mutex hands over to a waiter after 1 ms, and select chooses at     *)
(* random between the ticker and the end of the context, so each caller    *)
(* gets its turn.                                                          *)
(***************************************************************************)
ServiceFairness ==
    \A r \in Replicas :
        /\ SF_allVars(TopFlushes(r))
        /\ SF_allVars(LastFlush(r))
        /\ WF_allVars(FlushSends(r))
        /\ WF_allVars(FlushSucceeds(r))
        /\ WF_allVars(FlushErrs(r))
        /\ WF_allVars(Exists(r))
        /\ WF_allVars(ZRevRange(r))
        /\ WF_allVars(ResponseSent(r))
        /\ WF_allVars(Drained(r))

FairService == ServiceSpec /\ ServiceFairness

(***************************************************************************)
(* Each /stats request is answered, unless the process ends, and each      *)
(* shutdown ends, also while Redis answers nobody and the two callers of   *)
(* flush compete for flushMu.                                              *)
(***************************************************************************)
CallersEnd ==
    \A r \in Replicas :
        /\ reader[r].at = "flush" ~> reader[r].at = "done" \/ ~Running(r)
        /\ server[r] = "draining" ~> loop[r] = "stopped" \/ ~Alive(r)

=============================================================================
