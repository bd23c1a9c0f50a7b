----------------------------- MODULE MCWebPage ------------------------------
(***************************************************************************)
(* Three requests for up to three elements, of which the map takes two.    *)
(* The strings may be equal, or a number.                                  *)
(***************************************************************************)
EXTENDS WebPage

Word(w) == [text |-> <<w>>, num |-> -1]
Numeral(w, n) == [text |-> <<w>>, num |-> n]

MCElements ==
    {Word("f"), Word("b"), [text |-> <<"f", "b">>, num |-> -1],
     Numeral("1", 1), Numeral("2", 2), [text |-> <<"f", "f">>, num |-> -1]}

MCParams ==
    {[int1 |-> 2, int2 |-> 3, limit |-> 3, str1 |-> Word("f"), str2 |-> Word("b")],
     [int1 |-> 1, int2 |-> 2, limit |-> 2, str1 |-> Word("f"), str2 |-> Word("f")],
     [int1 |-> 1, int2 |-> 2, limit |-> 2, str1 |-> Word("f"), str2 |-> Word("b")],
     [int1 |-> 2, int2 |-> 2, limit |-> 1, str1 |-> Numeral("1", 1), str2 |-> Word("b")]}
=============================================================================
