--------------------------- MODULE DecimalCounter ---------------------------
(***************************************************************************)
(* dcounter (write.go): the current number, with a leading comma and its   *)
(* quotes, right-aligned in an array. inc carries in place; the quote left *)
(* of the digits stops the carry, and a longer number moves it.            *)
(*                                                                         *)
(* A definition marked "mutant" is a plausible bug in the definition below *)
(* it. No specification uses it: it shows that a property can fail.        *)
(***************************************************************************)
EXTENDS Integers, Sequences, FiniteSetsExt

CONSTANTS
    dEnd,      \* index of the closing quote
    Starts,    \* the numbers that set gets
    MaxNumber  \* bound: inc runs up to this number

VARIABLES
    d,      \* the array
    start,  \* index of the most significant digit
    v       \* history: the number

vars == <<d, start, v>>

\* Bytes, as in ASCII.
Comma == 44
Quote == 34
Digit(x) == 48 + x
Nine == Digit(9)

\* The digits of x, the most significant first.
AppendInt[x \in Nat] ==
    IF x < 10 THEN <<Digit(x)>> ELSE Append(AppendInt[x \div 10], Digit(x % 10))

\* ,"digits" of x
Framed(x) == <<Comma, Quote>> \o AppendInt[x] \o <<Quote>>

-----------------------------------------------------------------------------
(***************************************************************************)
(* set writes into the zero array of a new gen.                            *)
(***************************************************************************)
Init ==
    /\ v \in Starts
    /\ start = dEnd - Len(AppendInt[v])
    /\ d = [j \in 0..63 |->
              CASE j = dEnd -> Quote
                [] j \in start .. dEnd - 1 -> AppendInt[v][j - start + 1]
                [] j = start - 1 -> Quote
                [] j = start - 2 -> Comma
                [] OTHER -> 0]

\* The digit that takes the carry, or the quote if there is none.
Carry == Max({j \in 0 .. dEnd - 1 : d[j] # Nine})

Zeros(j) == j > Carry /\ j < dEnd

ShiftsLate == Carry < start - 1  \* mutant

Shifts == Carry < start

inc ==
    /\ v < MaxNumber
    /\ v' = v + 1
    /\ IF Shifts
       THEN /\ start' = Carry
            /\ d' = [j \in DOMAIN d |->
                       IF Zeros(j) THEN Digit(0)
                       ELSE IF j = Carry THEN Digit(1)
                       ELSE IF j = Carry - 1 THEN Quote
                       ELSE IF j = Carry - 2 THEN Comma
                       ELSE d[j]]
       ELSE /\ start' = start
            /\ d' = [j \in DOMAIN d |->
                       IF Zeros(j) THEN Digit(0)
                       ELSE IF j = Carry THEN d[j] + 1
                       ELSE d[j]]

Spec == Init /\ [][inc]_vars

-----------------------------------------------------------------------------
(***************************************************************************)
(* The types of the variables; the frame stays in the array.               *)
(***************************************************************************)
TypeOK ==
    /\ d \in [0..63 -> 0..127]
    /\ start \in 2..dEnd
    /\ v \in Nat

\* What fill copies, d[start-2 : dEnd+1], is the number with its frame.
FrameShows == [j \in 1 .. dEnd - start + 3 |-> d[start - 3 + j]] = Framed(v)

=============================================================================
