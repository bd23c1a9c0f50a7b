------------------------------ MODULE Request -------------------------------
(***************************************************************************)
(* One request for /fizzbuzz in a process with one configuration, from its *)
(* raw input to the decision of the handler: query and fizzbuzz (query.go, *)
(* server.go), which call parseParams and Params.Validate. Status 200      *)
(* stands for "goes on": Server models what follows (HEAD ends, the others *)
(* ask Admission and may still get 503).                                   *)
(***************************************************************************)
EXTENDS Validate, Query, Config

CONSTANTS
    Environments,  \* the environments the process may start in
    RawRequests    \* method, form (the media type is right), body, url, content

VARIABLES
    env,     \* the environment
    raw,     \* the request as net/http passes it on
    step,    \* "refused" (no server), "received", "validating" or "answered"
    status,  \* of the answer, 0 before
    blamed   \* the name before the colon in the error, or "none"

requestVars == <<env, raw, step, status, blamed>>
allVars == <<vars, requestVars>>

conf == Load(env)

\* The Params of parseParams before it reads the parameters.
NoParams ==
    LET none == [bytes |-> 0, utf8 |-> TRUE, code |-> 0]
    IN  [int1 |-> 0, int2 |-> 0, limit |-> 0, str1 |-> none, str2 |-> none]

\* The settings have the types of the fields of config (config.go), and
\* reading a body has one of three ends (query.go).
ASSUME RequestAssumption ==
    /\ NoParams \in Requests
    /\ \A e \in Environments :
          /\ LimitsOf(Load(e)) \in Limits
          /\ \A k \in {"MAX_INFLIGHT_BYTES", "STATS_FLUSH_INTERVAL"} : Load(e)[k] \in Int
    /\ \A r \in RawRequests :
          /\ r.body \in {"ok", "big", "unreadable"}
          /\ SyntaxFault(RawQuery(r)) = "none" => ParamsOf(RawQuery(r)) \in Requests

\* run (main.go) loads the configuration before all else, and ends if that fails.
RequestInit ==
    /\ env \in Environments
    /\ raw \in RawRequests
    /\ step = IF Problems(env) = {} THEN "received" ELSE "refused"
    /\ p = NoParams /\ lim = LimitsOf(conf) /\ Init
    /\ status = 0 /\ blamed = "none"

Answer(code, name) ==
    /\ step' = "answered"
    /\ status' = code /\ blamed' = name

\* query answers, and does not call fizzbuzz.
Reject ==
    /\ step = "received"
    /\ Rejection(raw)[1] # 0
    /\ Answer(Rejection(raw)[1], Rejection(raw)[2])
    /\ UNCHANGED <<vars, env, raw>>

\* fizzbuzz calls parseParams and, without an error, Validate.
Parse ==
    /\ step = "received"
    /\ Rejection(raw)[1] = 0
    /\ UNCHANGED <<env, raw>>
    /\ LET q == RawQuery(raw)
       IN  \/ /\ SyntaxFault(q) = "none"
              /\ Call(ParamsOf(q))
              /\ step' = "validating"
              /\ UNCHANGED <<status, blamed>>
           \/ /\ SyntaxFault(q) # "none"
              /\ Answer(400, SyntaxFault(q))
              /\ UNCHANGED vars

Validates == (Check \/ Probe \/ SearchEnds) /\ UNCHANGED requestVars

\* The FieldError of a large response names the limit.
Responds ==
    /\ step = "validating" /\ pc = "done"
    /\ IF fault = "none" THEN Answer(200, "none")
       ELSE Answer(400, IF fault = "size" THEN "limit" ELSE fault)
    /\ UNCHANGED <<vars, env, raw>>

RequestNext == Reject \/ Parse \/ Validates \/ Responds

RequestSpec == RequestInit /\ [][RequestNext]_allVars

-----------------------------------------------------------------------------
(***************************************************************************)
(* The types of the variables of Request (env and raw never change), and   *)
(* how its step, Validate and the answer go together: Validate runs only   *)
(* for a parsed request, and an answer other than 200 names something.     *)
(***************************************************************************)
RequestTypeOK ==
    /\ step \in {"refused", "received", "validating", "answered"}
    /\ step = "refused" <=> Problems(env) # {}
    /\ lim = LimitsOf(conf)
    /\ step = "validating" => pc # "idle"
    /\ step \in {"refused", "received"} => pc = "idle"
    /\ step # "answered" <=> status = 0
    /\ status \in {0, 200} <=> blamed = "none"
    /\ status \in {0, 200, 400, 413, 415}
    /\ blamed \in {"none", "Content-Type", "body", "query",
                   "int1", "int2", "limit", "str1", "str2"}

\* Where the parameters are: QUERY is "GET with the input in the body" (query.go:13).
Given == IF raw.method = "QUERY" THEN raw.content ELSE raw.url

\* The parameters in the order of README.md:192.
Order == <<"int1", "int2", "limit", "str1", "str2">>

Unreadable(q) ==
    {k \in DOMAIN Order : \/ Len(q.values[Order[k]]) # 1
                          \/ k <= 3 /\ First(q, Order[k]).int # "ok"}

OutOfRange(q) ==
    LET number(k) == First(q, Order[k]).n
        text(k) == First(q, Order[k]).text
    IN  {k \in 1..3 : number(k) < 1 \/ (k = 3 /\ number(k) > lim.MaxLimit)} \cup
        {k \in 4..5 : text(k).bytes \notin 1..lim.MaxStrBytes \/ ~text(k).utf8}

(***************************************************************************)
(* "The server checks syntax first, then ranges. In each check, the error  *)
(* names the first parameter that fails, in the order int1, int2, limit,   *)
(* str1, str2" (README.md:192), for QUERY as for GET ("the rules and       *)
(* errors are the same", README.md:144). limit is blamed for the size of   *)
(* the response only if nothing else fails.                                *)
(***************************************************************************)
BlameIsFirst ==
    LET q == Given
        FirstOf(S, name) == \E k \in S : Order[k] = name /\ \A m \in S : k <= m
    IN  status = 400 /\ blamed # "body" =>
          IF q.malformed THEN blamed = "query"
          ELSE IF Unreadable(q) # {} THEN FirstOf(Unreadable(q), blamed)
          ELSE IF OutOfRange(q) # {} THEN FirstOf(OutOfRange(q), blamed)
          ELSE blamed = "limit" /\ fault = "size"

(***************************************************************************)
(* The handler accepts exactly the requests the README describes: each     *)
(* parameter one time, in its range, in the URL or for QUERY in a form of  *)
(* the allowed size, with a response (counted element by element) of at    *)
(* most MAX_RESPONSE_BYTES. And Validate saw the values of the request.    *)
(***************************************************************************)
AcceptsExactlyValid ==
    LET q == Given
    IN  step = "answered" =>
          (status = 200 <=>
              /\ raw.method = "QUERY" => raw.form /\ raw.body = "ok"
              /\ ~q.malformed /\ Unreadable(q) = {} /\ OutOfRange(q) = {}
              /\ p = ParamsOf(q)
              /\ ListBytes(newPlan(p), 1, p.limit) + 1 <= conf["MAX_RESPONSE_BYTES"])

(***************************************************************************)
(* An accepted request can be served and counted: its response fits the    *)
(* bytes in transfer of an idle server (or it would get 503 forever), its  *)
(* limit fits the 32 bits of the memory store's key, and the flush loop of *)
(* a Redis store can start (config.go:86-99).                              *)
(***************************************************************************)
AcceptedFits ==
    status = 200 =>
        /\ JSONSize(p) <= conf["MAX_INFLIGHT_BYTES"]
        /\ p.limit \in 1..MaxUint32
        /\ conf["STATS_FLUSH_INTERVAL"] > 0
        /\ conf["STATS_STORE"] = "redis" => conf["REDIS_ADDR"] # ""

=============================================================================
