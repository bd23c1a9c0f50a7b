------------------------------ MODULE ErrorLog ------------------------------
(***************************************************************************)
(* logStoreErr (server.go): handlers and flushLoop report errors of Redis  *)
(* at the same time, and an atomic time stamp limits the lines in the log. *)
(* A caller can stop for any time between its steps.                       *)
(*                                                                         *)
(* A definition marked "mutant" is a plausible bug in the definition below *)
(* it. No specification uses it: it shows that a property can fail.        *)
(***************************************************************************)
EXTENDS Integers

CONSTANTS
    Callers,   \* the goroutines that report an error
    Interval,  \* 10 s
    MaxClock   \* bound of the clock

ASSUME ErrorLogAssumption ==
    /\ Interval \in Nat \ {0}
    /\ MaxClock \in Nat

VARIABLES
    clock,       \* time.Now
    lastErrLog,  \* server.lastErrLog
    phase,       \* "idle", "loading", "deciding" or "logging", per caller
    now, last,   \* the locals of logStoreErr, per caller
    lines,       \* history: the "now" of each line in the log
    wrote        \* history: the time when the last line was written

logVars == <<clock, lastErrLog, phase, now, last, lines, wrote>>

\* The clock starts long after the zero time stamp.
LogInit ==
    /\ clock = Interval
    /\ lastErrLog = 0
    /\ phase = [g \in Callers |-> "idle"]
    /\ now = [g \in Callers |-> 0]
    /\ last = [g \in Callers |-> 0]
    /\ lines = {}
    /\ wrote = 0

Move(g, from, to) == phase[g] = from /\ phase' = [phase EXCEPT ![g] = to]

TimePasses ==
    /\ clock < MaxClock
    /\ clock' = clock + 1
    /\ UNCHANGED <<lastErrLog, phase, now, last, lines, wrote>>

(***************************************************************************)
(* Two loads: the time, then the time stamp.                               *)
(***************************************************************************)
Now(g) ==
    /\ Move(g, "idle", "loading")
    /\ now' = [now EXCEPT ![g] = clock]
    /\ UNCHANGED <<clock, lastErrLog, last, lines, wrote>>

Load(g) ==
    /\ Move(g, "loading", "deciding")
    /\ last' = [last EXCEPT ![g] = lastErrLog]
    /\ UNCHANGED <<clock, lastErrLog, now, lines, wrote>>

(***************************************************************************)
(* CompareAndSwap, and after it the line, in a step of its own: others     *)
(* can read the new time stamp before the line is in the log.              *)
(***************************************************************************)
AlwaysSwaps(g) == now[g] - last[g] >= Interval  \* mutant

Swaps(g) == now[g] - last[g] >= Interval /\ lastErrLog = last[g]

Swap(g) ==
    /\ Move(g, "deciding", "logging")
    /\ Swaps(g)
    /\ lastErrLog' = now[g]
    /\ UNCHANGED <<clock, now, last, lines, wrote>>

LogLine(g) ==
    /\ Move(g, "logging", "idle")
    /\ lines' = lines \cup {now[g]}
    /\ wrote' = clock
    /\ UNCHANGED <<clock, lastErrLog, now, last>>

SkipAndStamp(g) ==  \* mutant
    /\ Move(g, "deciding", "idle")
    /\ ~Swaps(g)
    /\ lastErrLog' = now[g]
    /\ UNCHANGED <<clock, now, last, lines, wrote>>

Skip(g) ==
    /\ Move(g, "deciding", "idle")
    /\ ~Swaps(g)
    /\ UNCHANGED <<clock, lastErrLog, now, last, lines, wrote>>

LogNext ==
    \/ TimePasses
    \/ \E g \in Callers : Now(g) \/ Load(g) \/ Swap(g) \/ LogLine(g) \/ Skip(g)

LogSpec == LogInit /\ [][LogNext]_logVars

-----------------------------------------------------------------------------
(***************************************************************************)
(* The types of the variables of ErrorLog; a time stamp is never ahead of  *)
(* the clock.                                                              *)
(***************************************************************************)
LogTypeOK ==
    /\ clock \in Interval .. Interval + MaxClock
    /\ lastErrLog \in 0..clock
    /\ phase \in [Callers -> {"idle", "loading", "deciding", "logging"}]
    /\ now \in [Callers -> 0..clock]
    /\ last \in [Callers -> 0..clock]
    /\ lines \subseteq 0..clock
    /\ wrote \in 0..clock

Apart(s, t) == s - t >= Interval \/ t - s >= Interval

(***************************************************************************)
(* "logStoreErr logs one time in 10 s or less often, so an outage does not *)
(* flood the log" (server.go:128): the times that the callers measured for *)
(* any two lines are 10 s apart, also when several callers loaded the same *)
(* time stamp, when a caller decides long after its loads, and when lines  *)
(* are written in another order than their swaps.                          *)
(***************************************************************************)
LinesAreSpaced ==
    [][\A g \in Callers : LogLine(g) => \A t \in lines : Apart(now[g], t)]_logVars

\* The caller of the newest swap did not write its line yet.
LineIsOwed == \E h \in Callers : phase[h] = "logging" /\ now[h] = lastErrLog

(***************************************************************************)
(* The limit never makes an outage silent: an error is left out only if a  *)
(* line was written after it, or less than 10 s before it, or is about to  *)
(* be written. The caller compares a time stamp that may be older than     *)
(* that line, or be there before it (server.go:131-132).                   *)
(***************************************************************************)
SkipsAreJustified ==
    [][\A g \in Callers : Skip(g) => now[g] - wrote < Interval \/ LineIsOwed]_logVars

=============================================================================
