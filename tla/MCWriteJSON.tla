---------------------------- MODULE MCWriteJSON -----------------------------
(***************************************************************************)
(* Small instances of ResponseStream: a buffer of a few elements, strings  *)
(* of different lengths, one longer than what the pooled buffers have room *)
(* for, and limits that end before, at and after a period and a band. One  *)
(* request counts past 99.                                                 *)
(***************************************************************************)
EXTENDS ResponseStream

Coded(n) == [bytes |-> n, utf8 |-> TRUE, code |-> n]

MCRequests ==
    [int1 : {1, 2, 3, 20}, int2 : {1, 2, 6}, limit : {1, 5, 7, 12},
     str1 : {Coded(1), Coded(7)}, str2 : {Coded(2)}]
    \cup {[int1 |-> 9, int2 |-> 40, limit |-> 101,
           str1 |-> Coded(1), str2 |-> Coded(2)]}
=============================================================================
