------------------------------ MODULE Validate ------------------------------
(***************************************************************************)
(* Params.Validate (params.go): the first violation of a request, and for  *)
(* a response that is too large, the binary search for the limit that the  *)
(* error message suggests. One call, by the handler of one request.        *)
(*                                                                         *)
(* A definition marked "mutant" is a plausible bug in the definition below *)
(* it. No specification uses it: it shows that a property can fail.        *)
(***************************************************************************)
EXTENDS ResponseSize

CONSTANTS
    Requests,  \* the requests that a handler may pass to Validate
    Limits     \* of the server: records with MaxLimit, MaxStrBytes, MaxResponseBytes

Texts == [bytes : Nat, utf8 : BOOLEAN, code : Nat]

ASSUME ValidateAssumption ==
    /\ MaxInt \in Nat \ {0}
    /\ Requests \subseteq [int1 : Int, int2 : Int, limit : -MaxInt .. MaxInt,
                           str1 : Texts, str2 : Texts]
    /\ Limits \subseteq [MaxLimit : Int, MaxStrBytes : Int, MaxResponseBytes : Int]

VARIABLES
    p,      \* the request
    lim,    \* the limits of the server
    pc,     \* "idle" before the call, "check", "search" or "done"
    fault,  \* the parameter of the FieldError, "size" for a large response
    i, j,   \* the bounds of sort.Search
    named   \* the limit in the message, 0 if there is none

vars == <<p, lim, pc, fault, i, j, named>>

Init ==
    /\ p \in Requests
    /\ lim \in Limits
    /\ pc = "idle"
    /\ fault = "none"
    /\ i = 0 /\ j = 0 /\ named = 0

BadStr(s, maxBytes) == s.bytes = 0 \/ s.bytes > maxBytes \/ ~s.utf8

TooLarge(q, maxBytes) == JSONSize(q) > maxBytes

\* The first violation. The size is computed only when all else is valid.
Verdict(q, l) ==
    IF q.int1 < 1 THEN "int1"
    ELSE IF q.int2 < 1 THEN "int2"
    ELSE IF q.limit < 1 \/ q.limit > l.MaxLimit THEN "limit"
    ELSE IF BadStr(q.str1, l.MaxStrBytes) THEN "str1"
    ELSE IF BadStr(q.str2, l.MaxStrBytes) THEN "str2"
    ELSE IF TooLarge(q, l.MaxResponseBytes) THEN "size"
    ELSE "none"

\* The handler calls p.Validate (server.go).
Call(q) ==
    /\ pc = "idle"
    /\ p' = q
    /\ pc' = "check"
    /\ UNCHANGED <<lim, fault, i, j, named>>

SearchRange(q) == q.limit

Check ==
    /\ pc = "check"
    /\ fault' = Verdict(p, lim)
    /\ pc' = IF fault' = "size" THEN "search" ELSE "done"
    /\ j' = IF fault' = "size" THEN SearchRange(p) ELSE j
    /\ UNCHANGED <<p, lim, i, named>>

(***************************************************************************)
(* sort.Search halves i..j. Index h of the search is the limit h + 1.      *)
(***************************************************************************)
WithLimit(q, limit) == [q EXCEPT !.limit = limit]

ProbesIndex(h) == TooLarge(WithLimit(p, h), lim.MaxResponseBytes)  \* mutant

Probes(h) == TooLarge(WithLimit(p, h + 1), lim.MaxResponseBytes)

Probe ==
    /\ pc = "search"
    /\ i < j
    /\ LET h == (i + j) \div 2
       IN  IF Probes(h) THEN j' = h /\ i' = i
                        ELSE i' = h + 1 /\ j' = j
    /\ UNCHANGED <<p, lim, pc, fault, named>>

SearchEnds ==
    /\ pc = "search"
    /\ i >= j
    /\ named' = i
    /\ pc' = "done"
    /\ UNCHANGED <<p, lim, fault, i, j>>

Next == (\E q \in Requests : Call(q)) \/ Check \/ Probe \/ SearchEnds

Spec == Init /\ [][Next]_vars

-----------------------------------------------------------------------------
(***************************************************************************)
(* The types of the variables of Validate.                                 *)
(***************************************************************************)
TypeOK ==
    /\ p \in Requests
    /\ lim \in Limits
    /\ pc \in {"idle", "check", "search", "done"}
    /\ fault \in {"none", "int1", "int2", "limit", "str1", "str2", "size"}
    /\ i \in Nat /\ j \in Nat /\ named \in Nat
    /\ i <= j
    /\ fault = "size" => j <= p.limit

(***************************************************************************)
(* JSONSize is the exact length of the response ("exactly JSONSize(p)",    *)
(* write.go:111): the closed formula agrees with the sum over the elements *)
(* of the reference, for divisors and bands at the width of an int too.    *)
(***************************************************************************)
SizeIsExact ==
    pc = "done" /\ fault \in {"none", "size"} =>
        JSONSize(p) = ListBytes(newPlan(p), 1, p.limit) + 1

(***************************************************************************)
(* Whoever follows the message succeeds: the request with the suggested    *)
(* limit is valid, and with one more it is still too large. Without a      *)
(* suggestion, no limit helps.                                             *)
(***************************************************************************)
AdviceIsTight ==
    pc = "done" /\ fault = "size" =>
        /\ named < p.limit
        /\ named > 0 => Verdict(WithLimit(p, named), lim) = "none"
        /\ Verdict(WithLimit(p, named + 1), lim) = "size"

=============================================================================
