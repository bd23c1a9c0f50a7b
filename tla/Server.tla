------------------------------- MODULE Server -------------------------------
(***************************************************************************)
(* The requests of one process: routes and handlers (server.go), and the   *)
(* observe middleware that measures each of them (observe.go). A valid GET *)
(* or QUERY of /fizzbuzz goes through Admission, is recorded before its    *)
(* first byte, and streams. All other requests have an answer at once.     *)
(* Handlers run concurrently; the store and the metrics are shared.        *)
(*                                                                         *)
(* A definition marked "mutant" is a plausible bug in the definition below *)
(* it. No specification uses it: it shows that a property can fail.        *)
(***************************************************************************)
EXTENDS Admission

CONSTANTS
    Requests,     \* the requests: path, method, and if the parameters are valid
    MaxRequests   \* bound of the requests

NoRequest == [path |-> "none"]

ASSUME ServerAssumption ==
    /\ Requests \subseteq [path : STRING, method : STRING, valid : BOOLEAN]
    /\ MaxRequests \in Nat

VARIABLES
    request,   \* the request of each handler, or NoRequest
    counted,   \* the handler called Record
    status,    \* c.Writer.Status() after the handler returned, 0 before
    hits,      \* Record calls of all handlers
    total,     \* http_requests_total
    arrived    \* requests so far

serverVars == <<request, counted, status, hits, total, arrived>>
allVars == <<vars, serverVars>>

(***************************************************************************)
(* c.FullPath(): the routes of handler, "" when none matches the path and  *)
(* the method. Request models which requests are valid.                    *)
(***************************************************************************)
Allowed(path) ==
    IF path = "/fizzbuzz" THEN {"GET", "HEAD", "QUERY"}
    ELSE IF path \in {"/stats", "/healthz", "/metrics", "/", "/app.js", "/app.css"}
    THEN {"GET"} ELSE {}

Route(q) == IF q.method \in Allowed(q.path) THEN q.path ELSE "unmatched"

Streams(q) == Route(q) = "/fizzbuzz" /\ q.method # "HEAD" /\ q.valid

(***************************************************************************)
(* The status of the other requests. HEAD has the headers of GET and stops *)
(* before the reservation. /stats depends on the store: see StatsService.  *)
(* No request has a path that gin redirects, as "/stats/": observe does    *)
(* not see those.                                                          *)
(***************************************************************************)
AnswersTo(q) ==
    IF Route(q) = "unmatched" THEN IF Allowed(q.path) = {} THEN {404} ELSE {405}
    ELSE IF Route(q) = "/stats" THEN {200, 503}
    ELSE IF Route(q) # "/fizzbuzz" THEN {200}
    ELSE IF q.method = "QUERY" THEN {400, 413, 415}
    ELSE IF q.valid THEN {200} ELSE {400}

\* methodLabel: clients choose the method, but not the labels.
methodLabel(m) ==
    IF m \in {"GET", "HEAD", "POST", "PUT", "PATCH", "DELETE", "OPTIONS",
              "CONNECT", "TRACE", "QUERY"} THEN m ELSE "other"

Label(q, code) == <<Route(q), methodLabel(q.method), code>>

Codes(q) == IF Streams(q) THEN {200, 503} ELSE AnswersTo(q)

Labels == UNION {{Label(q, code) : code \in Codes(q)} : q \in Requests}

ServerInit ==
    /\ Init
    /\ request = [h \in Handlers |-> NoRequest]
    /\ counted = [h \in Handlers |-> FALSE]
    /\ status = [h \in Handlers |-> 0]
    /\ hits = 0
    /\ total = [l \in Labels |-> 0]
    /\ arrived = 0

Arrives(h, q) ==
    /\ request[h] = NoRequest
    /\ arrived < MaxRequests
    /\ arrived' = arrived + 1
    /\ request' = [request EXCEPT ![h] = q]

Returns(h, code) == status' = [status EXCEPT ![h] = code]

(***************************************************************************)
(* A request that streams starts with its reservation.                     *)
(***************************************************************************)
Fizzbuzz(h, q, s) ==
    /\ Streams(q)
    /\ Arrives(h, q)
    /\ Reserve(h, s)
    /\ UNCHANGED <<counted, status, hits, total>>

\* Every other request changes nothing but its own response.
Answer(h, q, code) ==
    /\ ~Streams(q)
    /\ Arrives(h, q)
    /\ Returns(h, code)
    /\ UNCHANGED <<vars, counted, hits, total>>

BusyGoesOn(h) ==  \* mutant
    /\ at[h] = "refused"
    /\ Release(h)
    /\ at' = [at EXCEPT ![h] = "admitted"]
    /\ Returns(h, 503)
    /\ UNCHANGED <<size, left, reads, request, counted, hits, total, arrived>>

Busy(h) ==
    /\ Refuse(h)
    /\ Returns(h, 503)
    /\ UNCHANGED <<request, counted, hits, total, arrived>>

(***************************************************************************)
(* Record, after the admission and before the first byte.                  *)
(***************************************************************************)
RecordsAlways(h) ==  \* mutant
    /\ at[h] \in {"admitted", "refused"}
    /\ ~counted[h]
    /\ counted' = [counted EXCEPT ![h] = TRUE]
    /\ hits' = hits + 1
    /\ UNCHANGED <<vars, request, status, total, arrived>>

Records(h) ==
    /\ at[h] = "admitted"
    /\ ~counted[h]
    /\ counted' = [counted EXCEPT ![h] = TRUE]
    /\ hits' = hits + 1
    /\ UNCHANGED <<vars, request, status, total, arrived>>

\* WriteJSON. The error of a failed write is dropped: the status is sent.
StreamsAtOnce(h) == WriteChunk(h) \/ WriteFails(h)  \* mutant

StreamsBody(h) == counted[h] /\ (WriteChunk(h) \/ WriteFails(h))

Body(h) == StreamsBody(h) /\ UNCHANGED serverVars

Streamed(h) ==
    /\ counted[h]
    /\ Finish(h)
    /\ Returns(h, 200)
    /\ UNCHANGED <<request, counted, hits, total, arrived>>

(***************************************************************************)
(* observe, after c.Next(): one increment for each request.                *)
(***************************************************************************)
Observe(h) ==
    /\ status[h] # 0
    /\ total' = [total EXCEPT ![Label(request[h], status[h])] = @ + 1]
    /\ request' = [request EXCEPT ![h] = NoRequest]
    /\ counted' = [counted EXCEPT ![h] = FALSE]
    /\ status' = [status EXCEPT ![h] = 0]
    /\ UNCHANGED <<vars, hits, arrived>>

ServerNext ==
    \E h \in Handlers :
        \/ \E q \in Requests, s \in Sizes : Fizzbuzz(h, q, s)
        \/ \E q \in Requests : \E code \in Codes(q) : Answer(h, q, code)
        \/ Busy(h)
        \/ Records(h)
        \/ Body(h)
        \/ Streamed(h)
        \/ Observe(h)
        \/ Client(h) /\ UNCHANGED serverVars

\* Each handler runs, and each write ends, at its deadline or before.
ServerFairness ==
    \A h \in Handlers :
        WF_allVars(Busy(h) \/ Records(h) \/ Body(h) \/ Streamed(h) \/ Observe(h))

ServerSpec == ServerInit /\ [][ServerNext]_allVars /\ ServerFairness

-----------------------------------------------------------------------------
(***************************************************************************)
(* The types of the variables of Admission and of those that Server adds   *)
(* (server.go, observe.go). A handler returns one time: with a status it   *)
(* holds nothing.                                                          *)
(***************************************************************************)
ServerTypeOK ==
    /\ TypeOK
    /\ request \in [Handlers -> Requests \cup {NoRequest}]
    /\ counted \in [Handlers -> BOOLEAN]
    /\ status \in [Handlers -> {0, 200, 400, 404, 405, 413, 415, 503}]
    /\ hits \in Nat
    /\ total \in [Labels -> Nat]
    /\ arrived \in 0..MaxRequests
    /\ \A h \in Handlers :
          /\ status[h] # 0 => at[h] = "idle" /\ request[h] # NoRequest
          /\ counted[h] => request[h] # NoRequest
          /\ at[h] # "idle" => request[h] # NoRequest

Served == {l \in Labels : l[1] = "/fizzbuzz" /\ l[2] \in {"GET", "QUERY"} /\ l[3] = 200}

(***************************************************************************)
(* /stats and /metrics agree: the hits are the GET and QUERY requests of   *)
(* /fizzbuzz that are measured with 200, and those in progress that were   *)
(* recorded. Invalid requests, HEAD and 503 are not among them, and a      *)
(* client that leaves early is in both (README.md:202-206).                *)
(***************************************************************************)
HitsAreServed ==
    hits = MapThenSumSet(LAMBDA l : total[l], Served)
         + Cardinality({h \in Handlers : counted[h]})

(***************************************************************************)
(* A client that has a byte of its response is counted already, so the     *)
(* memory store shows it its own hit (server.go:72 is before the write).   *)
(***************************************************************************)
ReadersAreCounted ==
    \A h \in Handlers : at[h] # "refused" /\ left[h] < size[h] => counted[h]

=============================================================================
