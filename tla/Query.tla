------------------------------- MODULE Query --------------------------------
(***************************************************************************)
(* The input of /fizzbuzz before validation: query (query.go) for QUERY,   *)
(* and parseParams (server.go) for each method. A query string is          *)
(* malformed, or gives each of the five names a sequence of values. Of a   *)
(* value matters what ParseInt says of it ("ok" with n, "syntax" or        *)
(* "range"), and what Validate needs of it as a text.                      *)
(*                                                                         *)
(* A definition marked "mutant" is a plausible bug in the definition below *)
(* it. No specification uses it: it shows that a property can fail.        *)
(***************************************************************************)
EXTENDS Integers, Sequences

\* Why query rejects a request before it parses the body: the status and
\* the name in the error, 0 if it goes on.
Rejection(raw) ==
    IF raw.method # "QUERY" THEN <<0, "none">>
    ELSE IF ~raw.form THEN <<415, "Content-Type">>
    ELSE IF raw.body = "big" THEN <<413, "body">>
    ELSE IF raw.body = "unreadable" THEN <<400, "body">>
    ELSE <<0, "none">>

KeepsURL(raw) == raw.url  \* mutant

\* QUERY replaces the query string of the URL by the body.
RawQuery(raw) == IF raw.method = "QUERY" THEN raw.content ELSE raw.url

First(q, name) == q.values[name][1]

Integral(name) == name \in {"int1", "int2", "limit"}

\* get and getInt return a value of the parameter.
Reads(q, name) ==
    Len(q.values[name]) = 1
    /\ (Integral(name) => First(q, name).int = "ok")

StringsFirst(q) ==  \* mutant
    IF q.malformed THEN "query"
    ELSE IF ~Reads(q, "str1") THEN "str1"
    ELSE IF ~Reads(q, "str2") THEN "str2"
    ELSE IF ~Reads(q, "int1") THEN "int1"
    ELSE IF ~Reads(q, "int2") THEN "int2"
    ELSE IF ~Reads(q, "limit") THEN "limit"
    ELSE "none"

\* The name in the error of parseParams.
SyntaxFault(q) ==
    IF q.malformed THEN "query"
    ELSE IF ~Reads(q, "int1") THEN "int1"
    ELSE IF ~Reads(q, "int2") THEN "int2"
    ELSE IF ~Reads(q, "limit") THEN "limit"
    ELSE IF ~Reads(q, "str1") THEN "str1"
    ELSE IF ~Reads(q, "str2") THEN "str2"
    ELSE "none"

\* The params of parseParams without an error.
ParamsOf(q) ==
    [int1 |-> First(q, "int1").n, int2 |-> First(q, "int2").n, limit |-> First(q, "limit").n,
     str1 |-> First(q, "str1").text, str2 |-> First(q, "str2").text]

=============================================================================
