------------------------------ MODULE MCServer ------------------------------
(***************************************************************************)
(* Small instance of Server: three handlers, sizes of which one, two or    *)
(* three fit together, and a method that has no label of its own.          *)
(***************************************************************************)
EXTENDS Server

CONSTANTS h1, h2, h3

ThreeHandlers == {h1, h2, h3}

TwoSizes == {1, 4}

SomeRequests ==
    [path : {"/fizzbuzz"}, method : {"GET", "HEAD"}, valid : {TRUE}] \cup
    [path : {"/fizzbuzz"}, method : {"QUERY"}, valid : {FALSE}] \cup
    {[path |-> "/stats", method |-> "BREW", valid |-> FALSE],
     [path |-> "/healthz", method |-> "GET", valid |-> TRUE]}
=============================================================================
