------------------------------ MODULE WebPage -------------------------------
(***************************************************************************)
(* The page (web/app.js): its requests, one after the other, each of which *)
(* aborts the one before it, and the check of every element that arrives.  *)
(* A step is a task of the browser with its microtasks. An abort rejects a *)
(* pending fetch or read at once, so that run ends in the same step. But   *)
(* the body of an error (res.json) reports in a task of its own, and fail  *)
(* follows whether it was read or aborted.                                 *)
(*                                                                         *)
(* A definition marked "mutant" is a plausible bug in the definition below *)
(* it. No specification uses it: it shows that a property can fail.        *)
(***************************************************************************)
EXTENDS Integers, Sequences

CONSTANTS
    Params,   \* what the user enters: int1, int2, limit, str1, str2
    Elements, \* what a server may send: text, and its number or -1
    MapCap,   \* MAP_CAP
    MaxRuns   \* bound of the requests

Texts == [text : Seq(STRING) \ {<<>>}, num : Int]

\* The number of a text is a function of the text, and only digits have one.
ASSUME PageAssumption ==
    /\ MapCap \in Nat \ {0} /\ MaxRuns \in Nat \ {0}
    /\ Elements \subseteq Texts
    /\ Params \subseteq [int1 : Nat \ {0}, int2 : Nat \ {0}, limit : Nat \ {0},
                         str1 : Texts, str2 : Texts]
    /\ \A e \in Elements, q \in Params :
          /\ \A s \in {q.str1, q.str2} : e.text = s.text => e.num = s.num
          /\ e.text = q.str1.text \o q.str2.text /\ q.str1.num = -1 => e.num = -1

Runs == 1..MaxRuns

VARIABLES
    sent,     \* calls of send so far: the newest run
    current,  \* the request that is in progress, 0 if there is none
    phase,    \* of each run: "new", "fetching", "erring", "reading" or "done"
    form,     \* the params of each run
    mapRun,   \* the run the map belongs to, 0 if there is no map
    count,    \* count: its elements
    wrong,    \* wrong: those whose class is not the wanted one
    ticks,    \* the runs that wait for an animation frame
    busy,     \* the button says Stop
    error,    \* the run whose error is below the form, 0 if none is
    lineRun,  \* the status line: of which run,
    lineText, \* and what it says
    right,    \* history: every element on the map follows the rule
    stale     \* history: Send aborted a run while the body of its error was read

vars == <<sent, current, phase, form, mapRun, count, wrong, ticks, busy, error,
          lineRun, lineText, right, stale>>

Init ==
    /\ sent = 0 /\ current = 0
    /\ phase = [r \in Runs |-> "new"]
    /\ form \in [Runs -> Params]
    /\ mapRun = 0 /\ count = 0 /\ wrong = 0
    /\ ticks = {}
    /\ busy = FALSE
    /\ error = 0
    /\ lineRun = 0 /\ lineText = "none"
    /\ right = TRUE
    /\ stale = FALSE

mapVars == <<mapRun, count, wrong, right>>
line == <<lineRun, lineText>>

Says(r, text) == lineRun' = r /\ lineText' = text

SendKeepsOld ==  \* mutant
    /\ sent < MaxRuns
    /\ sent' = sent + 1
    /\ current' = sent + 1
    /\ phase' = [phase EXCEPT ![sent + 1] = "fetching"]
    /\ busy' = TRUE
    /\ error' = 0
    /\ stale' = stale
    /\ UNCHANGED <<form, mapVars, ticks, line>>

\* A preset or the statistics send at any time, the form when nothing runs.
\* The aborted run has no effect on the page: it is not current any more.
Send ==
    /\ sent < MaxRuns
    /\ sent' = sent + 1
    /\ current' = sent + 1
    /\ phase' = [r \in Runs |->
          IF r = sent + 1 THEN "fetching"
          ELSE IF r = current /\ phase[r] # "erring" THEN "done" ELSE phase[r]]
    /\ busy' = TRUE
    /\ error' = 0
    /\ stale' = (stale \/ (current # 0 /\ phase[current] = "erring"))
    /\ UNCHANGED <<form, mapVars, ticks, line>>

FinallyBusy(r) ==  \* mutant
    /\ phase' = [phase EXCEPT ![r] = "done"]
    /\ current' = IF current = r THEN 0 ELSE current
    /\ busy' = busy

\* The finally of send. It also asks for the statistics.
Finally(r) ==
    /\ phase' = [phase EXCEPT ![r] = "done"]
    /\ IF current = r THEN current' = 0 /\ busy' = FALSE
                      ELSE UNCHANGED <<current, busy>>

\* The button while it says Stop. While the body of an error is read, it
\* changes nothing: fail follows anyway.
Stop ==
    /\ current # 0
    /\ phase[current] # "erring"
    /\ Finally(current)
    /\ Says(current, "stopped")
    /\ UNCHANGED <<sent, form, mapVars, ticks, error, stale>>

\* The head of the response: startMap, or the body of an error.
Responds(r) ==
    /\ phase[r] = "fetching"
    /\ \/ /\ phase' = [phase EXCEPT ![r] = "reading"]
          /\ mapRun' = r /\ count' = 0 /\ wrong' = 0
          /\ ticks' = ticks \cup {r}
          /\ right' = TRUE
       \/ /\ phase' = [phase EXCEPT ![r] = "erring"]
          /\ UNCHANGED <<mapVars, ticks>>
    /\ UNCHANGED <<sent, current, form, busy, error, line, stale>>

Fails(r) ==
    /\ phase[r] = "erring"
    /\ error' = r /\ Says(r, "error")
    /\ Finally(r)
    /\ UNCHANGED <<sent, form, mapVars, ticks, stale>>

\* The fetch or the read fails, or the tokenizer throws.
Breaks(r) ==
    /\ phase[r] \in {"fetching", "reading"}
    /\ Says(r, "failed")
    /\ Finally(r)
    /\ UNCHANGED <<sent, form, mapVars, ticks, error, stale>>

-----------------------------------------------------------------------------
Divides(x, i) == i % x = 0

N(r) == IF form[r].limit <= MapCap THEN form[r].limit ELSE MapCap

AnyNumber(q, e, i) ==  \* mutant
    IF e.num >= 0 THEN 0
    ELSE IF e.text = q.str1.text \o q.str2.text THEN 3
    ELSE IF e.text = q.str1.text THEN 1
    ELSE IF e.text = q.str2.text THEN 2 ELSE 4

\* cat: the tokenizer's class of element i, from what it says.
Cat(q, e, i) ==
    IF e.num = i THEN 0
    ELSE IF e.text = q.str1.text \o q.str2.text THEN 3
    ELSE IF e.text = q.str1.text THEN 1
    ELSE IF e.text = q.str2.text THEN 2 ELSE 4

\* want: its class by the rule.
Want(q, i) ==
    (IF Divides(q.int1, i) THEN 1 ELSE 0) + (IF Divides(q.int2, i) THEN 2 ELSE 0)

\* The rule, of an element itself. A number may be written with zeros before it.
Follows(q, e, i) ==
    IF Divides(q.int1, i) /\ Divides(q.int2, i) THEN e.text = q.str1.text \o q.str2.text
    ELSE IF Divides(q.int1, i) THEN e.text = q.str1.text
    ELSE IF Divides(q.int2, i) THEN e.text = q.str2.text
    ELSE e.num = i

\* A chunk with one more element: tok, or nothing when the map is full.
Receives(r, e) ==
    /\ phase[r] = "reading"
    /\ count < N(r)
    /\ LET i == count + 1
       IN  /\ count' = i
           /\ wrong' = IF Cat(form[r], e, i) = Want(form[r], i) THEN wrong ELSE wrong + 1
           /\ right' = (right /\ Follows(form[r], e, i))
    /\ UNCHANGED <<sent, current, phase, form, mapRun, ticks, busy, error, line, stale>>

\* finish: closed if the last byte is a bracket.
Verdict(r, closed) ==
    IF ~closed THEN "cut"
    ELSE IF count = N(r) /\ wrong = 0 THEN "matches" ELSE "differs"

Finishes(r) ==
    /\ phase[r] = "reading"
    /\ \E closed \in BOOLEAN : Says(r, Verdict(r, closed))
    /\ Finally(r)
    /\ UNCHANGED <<sent, form, mapVars, ticks, error, stale>>

PaintsAlways(r) ==  \* mutant
    /\ r \in ticks
    /\ Says(r, "progress")
    /\ ticks' = IF phase[r] # "done" /\ current = r THEN ticks ELSE ticks \ {r}
    /\ UNCHANGED <<sent, current, phase, form, mapVars, busy, error, stale>>

\* An animation frame: paint, and the next tick.
Paints(r) ==
    /\ r \in ticks
    /\ IF phase[r] # "done" THEN Says(r, "progress") ELSE UNCHANGED line
    /\ ticks' = IF phase[r] # "done" /\ current = r THEN ticks ELSE ticks \ {r}
    /\ UNCHANGED <<sent, current, phase, form, mapVars, busy, error, stale>>

Network(r) == Responds(r) \/ Fails(r) \/ Breaks(r) \/ Finishes(r)

Next ==
    \/ Send \/ Stop
    \/ \E r \in Runs : Network(r) \/ Paints(r) \/ \E e \in Elements : Receives(r, e)

(***************************************************************************)
(* Each response arrives and ends, or breaks: the server gives up on a     *)
(* client that does not read (Admission), and the browser on a server that *)
(* does not answer. Nobody has to press a button or to see a frame.        *)
(***************************************************************************)
Spec == Init /\ [][Next]_vars /\ \A r \in Runs : WF_vars(Network(r))

-----------------------------------------------------------------------------
Steps == {"new", "fetching", "erring", "reading", "done"}
Lines == {"none", "stopped", "error", "failed", "progress", "cut", "matches", "differs"}

(***************************************************************************)
(* The types of the variables, and: the button says Stop exactly while a   *)
(* request is in progress.                                                 *)
(***************************************************************************)
TypeOK ==
    /\ sent \in 0..MaxRuns
    /\ current \in {0, sent}
    /\ phase \in [Runs -> Steps]
    /\ form \in [Runs -> Params]
    /\ mapRun \in 0..sent /\ count \in Nat /\ wrong \in 0..count
    /\ ticks \subseteq 1..sent
    /\ busy \in BOOLEAN /\ (busy <=> current # 0)
    /\ error \in 0..sent
    /\ lineRun \in 0..sent
    /\ lineText \in Lines
    /\ right \in BOOLEAN /\ stale \in BOOLEAN

(***************************************************************************)
(* Only the request in progress waits for the server, and the one that     *)
(* reads writes its own map: the chunks of an older request never mix with *)
(* the map and the count of the newer one (app.js:40, 74-103).             *)
(***************************************************************************)
OneLiveRun ==
    \A r \in Runs :
        /\ phase[r] \in {"fetching", "reading"} => r = current
        /\ phase[r] = "reading" => mapRun = r

(***************************************************************************)
(* The page does not tell the user a falsehood about the response: it says *)
(* "match the rule" only for a map full of elements that do, and "do not   *)
(* match" only if one is wrong or missing. The second needs strings that   *)
(* differ and are not numbers: else the classes overlap.                   *)
(***************************************************************************)
Distinct(q) == q.str1.text # q.str2.text /\ q.str1.num = -1 /\ q.str2.num = -1

VerdictIsTrue ==
    LET r == mapRun
        good == right /\ count = N(r)
    IN  r # 0 /\ lineRun = r =>
            /\ lineText = "matches" => good
            /\ lineText = "differs" /\ Distinct(form[r]) => ~good

(***************************************************************************)
(* When nothing is in progress, the page shows how the newest request      *)
(* ended: no frame or answer that comes late writes over it. The exception *)
(* is a request that the next one aborts while the body of its error is    *)
(* read: the catch of app.js:60 swallows the AbortError, and its fail comes*)
(* after the newer request began.                                          *)
(***************************************************************************)
ShowsTheNewest ==
    ~stale =>
        /\ error \in {0, sent}
        /\ ~busy => lineRun = sent /\ lineText # "progress"

(***************************************************************************)
(* The page becomes usable again after each request.                       *)
(***************************************************************************)
BusyEnds == busy ~> ~busy

=============================================================================
