---------------------------- MODULE ResponseSize ----------------------------
(***************************************************************************)
(* The sizes that internal/fizzbuzz computes before it writes a response   *)
(* (size.go). A request has int1, int2, limit, str1 and str2. Of a string, *)
(* only these facts matter: its bytes, if they are valid UTF-8, and "code":*)
(* its bytes after JSON escaping, without the quotes.                      *)
(* A number of bytes is an int64 that cannot overflow (the strings come    *)
(* from one HTTP header), the other numbers are ints of limited width.     *)
(***************************************************************************)
EXTENDS Integers, FiniteSetsExt

CONSTANT MaxInt  \* math.MaxInt

Min2(x, y) == IF x <= y THEN x ELSE y

Max2(x, y) == IF x <= y THEN y ELSE x

\* What an int keeps of a result that is too large or too small.
Word(x) == ((x + MaxInt + 1) % (2 * (MaxInt + 1))) - (MaxInt + 1)

gcd[ab \in Nat \X Nat] ==
    IF ab[2] = 0 THEN ab[1] ELSE gcd[<<ab[2], ab[1] % ab[2]>>]

lcmUncapped(a, b, limit) == Word((a \div gcd[<<a, b>>]) * b)  \* mutant

lcmCapped(a, b, limit) ==
    LET q == a \div gcd[<<a, b>>]
    IN  IF q > limit \div b THEN 0 ELSE Word(q * b)

(***************************************************************************)
(* The elements of a response, each with its leading comma and its quotes. *)
(* The strings are valid UTF-8, so the code of str1 str2 is the code of    *)
(* str1, then the code of str2.                                            *)
(***************************************************************************)
newPlan(p) ==
    [a |-> p.int1, b |-> p.int2, n |-> p.limit,
     l |-> lcmCapped(p.int1, p.int2, p.limit),
     e1 |-> p.str1.code + 3, e2 |-> p.str2.code + 3, e12 |-> p.str1.code + p.str2.code + 3]

multiples(x, m) == IF m = 0 \/ x <= 0 THEN 0 ELSE x \div m

\* The multiples of m in lo..hi.
Count(lo, hi, m) == multiples(hi, m) - multiples(lo - 1, m)

EventBytes(pl, lo, hi) ==
    LET c12 == Count(lo, hi, pl.l)
    IN  (Count(lo, hi, pl.a) - c12) * pl.e1 +
        (Count(lo, hi, pl.b) - c12) * pl.e2 + c12 * pl.e12

\* The plain numbers in lo..hi, none if hi is below lo.
Plain(pl, lo, hi) ==
    IF lo > hi THEN 0
    ELSE (hi - lo + 1) - Count(lo, hi, pl.a) - Count(lo, hi, pl.b)
                       + Count(lo, hi, pl.l)

BandHi(bandLo) ==
    IF bandLo <= MaxInt \div 10 THEN Word(bandLo * 10 - 1) ELSE MaxInt

NumberBytes(pl, lo, hi) ==
    LET Bands[band \in (1..MaxInt) \X Nat] ==
            LET bandLo == band[1]
                d == band[2]
            IN  IF bandLo > hi THEN 0
                ELSE Plain(pl, Max2(lo, bandLo), Min2(hi, BandHi(bandLo))) * (d + 3)
                     + IF BandHi(bandLo) = MaxInt THEN 0
                       ELSE Bands[<<BandHi(bandLo) + 1, d + 1>>]
    IN  Bands[<<1, 1>>]

rangeBytes(pl, lo, hi) ==
    IF lo > hi THEN 0 ELSE EventBytes(pl, lo, hi) + NumberBytes(pl, lo, hi)

JSONSize(p) ==
    IF p.limit <= 0 THEN 2 ELSE rangeBytes(newPlan(p), 1, p.limit) + 1

-----------------------------------------------------------------------------
(***************************************************************************)
(* The reference, as the test of the package states the rule               *)
(* (fizzbuzz_test.go, naive): element i of the list and its bytes.         *)
(***************************************************************************)
Element(pl, i) ==
    CASE i % pl.a = 0 /\ i % pl.b = 0 -> <<"e12", 0>>
      [] i % pl.a = 0 /\ i % pl.b # 0 -> <<"e1", 0>>
      [] i % pl.a # 0 /\ i % pl.b = 0 -> <<"e2", 0>>
      [] OTHER -> <<"number", i>>

Digits[x \in Nat] == IF x < 10 THEN 1 ELSE 1 + Digits[x \div 10]

ElementBytes(pl, e) ==
    CASE e[1] = "e12" -> pl.e12
      [] e[1] = "e1" -> pl.e1
      [] e[1] = "e2" -> pl.e2
      [] e[1] = "number" -> 3 + Digits[e[2]]

ListBytes(pl, lo, hi) ==
    MapThenSumSet(LAMBDA i : ElementBytes(pl, Element(pl, i)), lo..hi)

=============================================================================
