----------------------------- MODULE MCRequest ------------------------------
(***************************************************************************)
(* A small instance of Request: an int of 9 bits, so that products of the  *)
(* divisors overflow, and limits of 7 bits, so that the key of the store   *)
(* can be too small for a configured limit.                                *)
(***************************************************************************)
EXTENDS Request

Short == [bytes |-> 1, utf8 |-> TRUE, code |-> 1]
Escaped == [bytes |-> 2, utf8 |-> TRUE, code |-> 12]
Strange == {[Short EXCEPT !.bytes = 0], [Short EXCEPT !.bytes = 9],
            [Short EXCEPT !.utf8 = FALSE]}

Divisors == {1, 2, 3, 4, 6, 10, 50, 99, 100, 126, 127, 254, 255}

Params ==
    [int1 : Divisors, int2 : Divisors, limit : {1, 9, 12, 99, 100, 127},
     str1 : {Short}, str2 : {Escaped}] \cup
    [int1 : {0, 3}, int2 : {-1, 5}, limit : {-1, 20, 120},
     str1 : Strange \cup {Short}, str2 : Strange \cup {Short}]

\* Values of a parameter. ParseInt of a text is "syntax".
Number(n) == [int |-> "ok", n |-> n, text |-> Short]
TextOf(s) == [int |-> "syntax", n |-> 0, text |-> s]
Huge == [int |-> "range", n |-> 0, text |-> Short]

Query1(q) ==
    [malformed |-> FALSE,
     values |-> [int1 |-> <<Number(q.int1)>>, int2 |-> <<Number(q.int2)>>,
                 limit |-> <<Number(q.limit)>>,
                 str1 |-> <<TextOf(q.str1)>>, str2 |-> <<TextOf(q.str2)>>]]

Nothing == [malformed |-> FALSE,
            values |-> [k \in {"int1", "int2", "limit", "str1", "str2"} |-> <<>>]]

Numbers == {<<>>, <<Number(3)>>, <<Number(0)>>, <<Huge>>, <<TextOf(Short)>>,
            <<Number(3), Number(5)>>}
Strings == {<<>>, <<TextOf(Short)>>, <<TextOf([Short EXCEPT !.bytes = 0])>>}

Mixed ==  \* each parameter right, or wrong in one of several ways
    [malformed : {FALSE},
     values : [int1 : Numbers, int2 : Numbers, limit : Numbers,
               str1 : Strings, str2 : Strings \cup {<<TextOf(Short), TextOf(Escaped)>>}]]

Malformed == [Nothing EXCEPT !.malformed = TRUE]

Classic == [int1 |-> 3, int2 |-> 5, limit |-> 9, str1 |-> Short, str2 |-> Escaped]

Get(q) == [method |-> "GET", form |-> FALSE, body |-> "ok", url |-> q, content |-> Nothing]

Some == {Nothing, Malformed, Query1(Classic), Query1([Classic EXCEPT !.int1 = 0])}

MCRawRequests ==
    {Get(q) : q \in {Query1(r) : r \in Params} \cup Mixed \cup {Malformed}} \cup
    [method : {"QUERY"}, form : BOOLEAN, body : {"ok", "big", "unreadable"},
     url : Some, content : Some]

\* What Validate may be called with: more than these inputs need.
MCRequests ==
    LET texts == Strange \cup {Short, Escaped, NoParams.str1}
        numbers == Divisors \cup {-1, 0, 3, 5}
    IN  [int1 : numbers, int2 : numbers, limit : numbers \cup {9, 12, 20, 120},
         str1 : texts, str2 : texts]

-----------------------------------------------------------------------------
MCDefaults ==
    [k \in {"PORT", "MAX_LIMIT", "MAX_STR_BYTES", "MAX_RESPONSE_BYTES",
            "MAX_INFLIGHT_BYTES", "WRITE_CHUNK_TIMEOUT", "READ_HEADER_TIMEOUT",
            "READ_TIMEOUT", "IDLE_TIMEOUT", "SHUTDOWN_TIMEOUT", "MAX_HEADER_BYTES",
            "STATS_STORE", "STATS_MAX_BYTES", "STATS_FLUSH_INTERVAL",
            "REDIS_ADDR", "REDIS_TIMEOUT"} |->
        CASE k = "PORT" -> "8080" [] k = "STATS_STORE" -> "memory"
          [] k = "REDIS_ADDR" -> "" [] k = "MAX_LIMIT" -> 127
          [] k = "MAX_STR_BYTES" -> 2 [] k = "MAX_RESPONSE_BYTES" -> 400
          [] k = "MAX_INFLIGHT_BYTES" -> 900 [] OTHER -> 10]

Set(v) == [given |-> TRUE, parses |-> TRUE, value |-> v]
Fails == [given |-> TRUE, parses |-> FALSE, value |-> 0]
None == [k \in DOMAIN MCDefaults |-> Unset]

\* Environments that a server runs in, and some that loadConfig refuses.
Accepted ==
    {None,
     [None EXCEPT !["MAX_RESPONSE_BYTES"] = Set(3)],
     [None EXCEPT !["MAX_RESPONSE_BYTES"] = Set(60), !["MAX_INFLIGHT_BYTES"] = Set(60)],
     [None EXCEPT !["MAX_LIMIT"] = Set(110), !["MAX_RESPONSE_BYTES"] = Set(900),
                  !["STATS_STORE"] = Set("redis"), !["REDIS_ADDR"] = Set("redis:6379")]}
Refused ==
    {[None EXCEPT ![k] = Fails] : k \in {"READ_TIMEOUT", "MAX_INFLIGHT_BYTES"}} \cup
    {[None EXCEPT !["MAX_RESPONSE_BYTES"] = Set(2000)],
     [None EXCEPT !["STATS_STORE"] = Set("disk")],
     [None EXCEPT !["STATS_STORE"] = Set("redis")],
     [None EXCEPT !["MAX_LIMIT"] = Set(128)],
     [None EXCEPT !["STATS_MAX_BYTES"] = Set(128 * 4)],
     [None EXCEPT !["STATS_FLUSH_INTERVAL"] = Set(0)]}

MCEnvironments == Accepted \cup Refused

MCLimits == {LimitsOf(Load(e)) : e \in MCEnvironments}
=============================================================================
