----------------------------- MODULE WriteJSON ------------------------------
(***************************************************************************)
(* WriteJSON (write.go): the generator gen fills a buffer element by       *)
(* element, and each full buffer goes to the client in one write, which    *)
(* can fail after any number of bytes. If one divisor is 1, writePeriodic  *)
(* fills one period and sends copies of it. Init chooses the request.      *)
(*                                                                         *)
(* An element is a pair of ResponseSize!Element. A byte is a triple: its   *)
(* element and its place in it, so two equal bytes at different places of  *)
(* the array are the same only where the array really repeats.             *)
(*                                                                         *)
(* A definition marked "mutant" is a plausible bug in the definition below *)
(* it. No specification uses it: it shows that a property can fail.        *)
(***************************************************************************)
EXTENDS ResponseSize, SequencesExt

CONSTANTS
    Requests,     \* the requests that Init chooses from
    StreamBuf,    \* streamBuf
    MaxNumElem,   \* maxNumElem
    MaxReplElem   \* maxReplElem, for which the pooled buffers have room

\* Validate: a limit is below 2^32 (config.go:91), and an int has 64 bits.
ASSUME WriteAssumption ==
    /\ MaxInt \in Nat \ {0}
    /\ StreamBuf \in Nat \ {0}
    /\ MaxNumElem \in Nat
    /\ MaxReplElem \in Nat
    /\ \A x \in 1..MaxInt : 3 + Digits[x] \in 1..MaxNumElem
    /\ \A q \in Requests :
          /\ q.int1 \in 1..MaxInt
          /\ q.int2 \in 1..MaxInt
          /\ q.limit \in Nat \ {0}
          /\ 2 * q.limit <= MaxInt
          /\ q.str1.code \in Nat \ {0}
          /\ q.str2.code \in Nat \ {0}

VARIABLES
    req,           \* the request
    i,             \* next element
    next1, next2,  \* next multiples of a and b
    c,             \* the number that dcounter shows
    line,          \* the elements in the buffer
    pos,           \* its bytes
    at,            \* the place in the code
    chunk,         \* copies of a period
    periods,       \* the periods that writePeriodic still has to send
    first,         \* nothing is written yet
    got,           \* the bytes that the client got
    written,       \* the bytes that w.Write accepted
    result         \* "writing", "complete" or "failed"

genVars == <<i, next1, next2, c, line, pos>>
outVars == <<first, got, written, result>>
vars == <<req, genVars, at, chunk, periods, outVars>>

pl == newPlan(req)

-----------------------------------------------------------------------------
Bytes(plan, e) == [o \in 1..ElementBytes(plan, e) |-> <<e[1], e[2], o>>]

Text(plan, es) == FlattenSeq([x \in DOMAIN es |-> Bytes(plan, es[x])])

Bracket(b) == <<b, 0, 0>>

Opened(text) == [text EXCEPT ![1] = Bracket("[")]

\* What a request asks for.
Array(plan) ==
    Append(Opened(Text(plan, [x \in 1..plan.n |-> Element(plan, x)])), Bracket("]"))

maxElem == Max2(Max2(MaxNumElem, pl.e1), Max2(pl.e2, pl.e12))

BufLenTooShort == Max2(StreamBuf + MaxReplElem + 1, StreamBuf + maxElem)  \* mutant

BufLen == Max2(StreamBuf + MaxReplElem + 1, StreamBuf + maxElem + 1)

P == Min2(Max2(pl.a, pl.b), pl.n)

pb == rangeBytes(pl, 1, P)

k == Min2(StreamBuf \div pb, pl.n \div P)

ChunkLen == k * pb + maxElem

AlwaysPeriodic == Min2(pl.a, pl.b) = 1  \* mutant

Periodic == Min2(pl.a, pl.b) = 1 /\ pb <= StreamBuf

\* What fill gets: the last place to start an element, and the last element.
stop == IF Periodic THEN pb ELSE StreamBuf

hi == IF Periodic THEN P ELSE pl.n

Init ==
    /\ req \in Requests
    /\ i = 1
    /\ next1 = pl.a
    /\ next2 = pl.b
    /\ c = 1
    /\ line = <<>>
    /\ pos = 0
    /\ at = "fill"
    /\ chunk = <<>>
    /\ periods = 0
    /\ first = TRUE
    /\ got = <<>>
    /\ written = 0
    /\ result = "writing"

-----------------------------------------------------------------------------
(***************************************************************************)
(* gen.fill: a run of numbers up to the next event, then the event.        *)
(***************************************************************************)
Filling == at = "fill" /\ i <= hi /\ pos <= stop

Put(e) ==
    /\ line' = Append(line, e)
    /\ pos' = pos + ElementBytes(pl, e)
    /\ c' = c + 1
    /\ i' = i + 1
    /\ UNCHANGED <<req, at, chunk, periods, outVars>>

FillNumber ==
    /\ Filling
    /\ i < Min2(next1, next2)
    /\ Put(<<"number", c>>)
    /\ UNCHANGED <<next1, next2>>

EventOnce ==  \* mutant
    /\ Filling
    /\ i >= Min2(next1, next2)
    /\ \/ /\ i = next1
          /\ next1' = Word(next1 + pl.a)
          /\ UNCHANGED next2
          /\ Put(<<IF i = next2 THEN "e12" ELSE "e1", 0>>)
       \/ /\ i # next1
          /\ next2' = Word(next2 + pl.b)
          /\ UNCHANGED next1
          /\ Put(<<"e2", 0>>)

Event ==
    /\ Filling
    /\ i >= Min2(next1, next2)
    /\ \/ /\ i = next1 /\ i = next2
          /\ next1' = Word(next1 + pl.a)
          /\ next2' = Word(next2 + pl.b)
          /\ Put(<<"e12", 0>>)
       \/ /\ i = next1 /\ i # next2
          /\ next1' = Word(next1 + pl.a)
          /\ UNCHANGED next2
          /\ Put(<<"e1", 0>>)
       \/ /\ i # next1
          /\ next2' = Word(next2 + pl.b)
          /\ UNCHANGED next1
          /\ Put(<<"e2", 0>>)

Filled == at = "fill" /\ ~Filling

-----------------------------------------------------------------------------
(***************************************************************************)
(* w.Write: it takes all bytes, or it returns an error after some of them. *)
(***************************************************************************)
WriteSucceeds(text) ==
    /\ got' = got \o text
    /\ written' = written + Len(text)
    /\ result' = IF at' = "returned" THEN "complete" ELSE "writing"

WriteFails(text) ==
    /\ \E m \in 0..Len(text) :
          /\ got' = got \o SubSeq(text, 1, m)
          /\ written' = written + m
    /\ result' = "failed"

(***************************************************************************)
(* The loop of WriteJSON: the first buffer starts with the bracket instead *)
(* of a comma, and the last one ends with the bracket.                     *)
(***************************************************************************)
BufferText ==
    LET text == IF first THEN Opened(Text(pl, line)) ELSE Text(pl, line)
    IN  IF i > pl.n THEN Append(text, Bracket("]")) ELSE text

NextBuffer ==
    /\ ~Periodic
    /\ Filled
    /\ line' = <<>>
    /\ pos' = 0
    /\ first' = FALSE
    /\ UNCHANGED <<req, i, next1, next2, c, chunk, periods>>

Write ==
    /\ NextBuffer
    /\ at' = IF i > pl.n THEN "returned" ELSE "fill"
    /\ WriteSucceeds(BufferText)

WriteError ==
    /\ NextBuffer
    /\ at' = "returned"
    /\ WriteFails(BufferText)

-----------------------------------------------------------------------------
(***************************************************************************)
(* writePeriodic: k copies of the period make the chunk. The loop sends    *)
(* the chunk, then a shorter part of it, then a part of a period.          *)
(***************************************************************************)
MakeChunk ==
    /\ Periodic
    /\ Filled
    /\ chunk' = FlattenSeq([x \in 1..k |-> Text(pl, line)])
    /\ periods' = pl.n \div P
    /\ at' = "chunks"
    /\ UNCHANGED <<req, genVars, outVars>>

KeepBracket(text) == IF first THEN Opened(text) ELSE text  \* mutant

RestoreComma(text) == text

\* emit: the bracket replaces the comma of the first byte for one write.
Emit(text) ==
    /\ UNCHANGED <<req, genVars>>
    /\ IF text = <<>>
       THEN UNCHANGED <<chunk, outVars>>
       ELSE /\ first' = FALSE
            /\ chunk' = RestoreComma(chunk)
            /\ WriteSucceeds(IF first THEN Opened(text) ELSE text)

EmitFails(text) ==
    /\ text # <<>>
    /\ first' = FALSE
    /\ at' = "returned"
    /\ UNCHANGED <<req, genVars, chunk, periods>>
    /\ WriteFails(IF first THEN Opened(text) ELSE text)

Part(bytes) == SubSeq(chunk, 1, bytes)

ChunkLeft == periods >= k

EmitChunk ==
    /\ at = "chunks"
    /\ ChunkLeft
    /\ \/ at' = at /\ periods' = periods - k /\ Emit(Part(k * pb))
       \/ EmitFails(Part(k * pb))

EmitPeriods ==
    /\ at = "chunks"
    /\ ~ChunkLeft
    /\ \/ at' = "tail" /\ UNCHANGED periods /\ Emit(Part(periods * pb))
       \/ EmitFails(Part(periods * pb))

EmitTail ==
    LET text == Part(rangeBytes(pl, 1, pl.n % P))
    IN  /\ at = "tail"
        /\ \/ at' = "end" /\ UNCHANGED periods /\ Emit(text)
           \/ EmitFails(text)

EmitEnd ==
    /\ at = "end"
    /\ at' = "returned"
    /\ UNCHANGED <<req, genVars, chunk, periods, first>>
    /\ WriteSucceeds(<<Bracket("]")>>) \/ WriteFails(<<Bracket("]")>>)

Next ==
    \/ FillNumber \/ Event
    \/ Write \/ WriteError
    \/ MakeChunk \/ EmitChunk \/ EmitPeriods \/ EmitTail \/ EmitEnd

Spec == Init /\ [][Next]_vars

\* Each write ends: with success, an error, or the deadline of the server.
FairSpec == Spec /\ WF_vars(Next)

-----------------------------------------------------------------------------
(***************************************************************************)
(* The types of the variables of WriteJSON.                                *)
(***************************************************************************)
TypeOK ==
    /\ req \in Requests
    /\ i \in Nat \ {0} /\ c \in Nat \ {0}
    /\ next1 \in Nat \ {0} /\ next2 \in Nat \ {0}
    /\ line \in Seq({"number", "e1", "e2", "e12"} \X Nat)
    /\ pos \in Nat
    /\ at \in {"fill", "chunks", "tail", "end", "returned"}
    /\ periods \in Nat
    /\ first \in BOOLEAN
    /\ written \in Nat
    /\ result \in {"writing", "complete", "failed"}

(***************************************************************************)
(* The elements in the buffer follow the rule of the reference, across the *)
(* ends of buffers and runs of numbers. The code never divides: it counts  *)
(* c, next1 and next2 up on different paths, and they must stay in step.   *)
(***************************************************************************)
ElementsAreRight ==
    \A x \in 1..Len(line) : line[x] = Element(pl, i - 1 - Len(line) + x)

(***************************************************************************)
(* fill never writes past the end of its buffer ("buf needs stop+maxElem   *)
(* bytes", write.go:67): the chunk of writePeriodic, or the buffer, where  *)
(* the closing bracket has room too. copy would cut an element silently.   *)
(***************************************************************************)
FitsBuffer ==
    IF Periodic THEN pos <= ChunkLen
    ELSE pos + (IF i > pl.n THEN 1 ELSE 0) <= BufLen

(***************************************************************************)
(* WriteJSON keeps the promise of its comment (Response), on both paths    *)
(* and for a write error at any byte: the client gets a prefix of the      *)
(* array, and without an error all of it, with the length announced.       *)
(***************************************************************************)
Contract == INSTANCE Response WITH
    Bodies <- {Array(newPlan(q)) : q \in Requests},
    body <- Array(pl),
    announced <- JSONSize(req)

StreamsTheArray == Contract!Spec

(***************************************************************************)
(* WriteJSON returns: no buffer and no chunk is empty.                     *)
(***************************************************************************)
Returns == <>(result # "writing")

=============================================================================
