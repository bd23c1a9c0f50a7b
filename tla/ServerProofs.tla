---------------------------- MODULE ServerProofs ----------------------------
(***************************************************************************)
(* Proofs about Admission and Server, for any number of handlers, sizes    *)
(* and requests. A step of the server is a step of Admission or leaves it  *)
(* alone, so its theorems hold of the whole server. Last, ErrorLog: the    *)
(* time stamp of the server that its handlers share (logStoreErr).         *)
(***************************************************************************)
EXTENDS Server, ErrorLog, SumProofs

(***************************************************************************)
(* The counter of the bytes in transfer, with the part of it that admitted *)
(* handlers hold. An idle handler holds nothing.                           *)
(***************************************************************************)
Held(hs) == SumOver(size, hs)

AInv ==
    /\ at \in [Handlers -> {"idle", "refused", "admitted", "failed"}]
    /\ size \in [Handlers -> Sizes \cup {0}]
    /\ left \in [Handlers -> Nat]
    /\ reads \in [Handlers -> BOOLEAN]
    /\ \A h \in Handlers : left[h] <= size[h] /\ (at[h] = "idle" => size[h] = 0)
    /\ inflight = Held(Handlers)
    /\ Held(Transfers) <= MaxInflightBytes

LEMMA ReservedIsHeld == \A hs : Reserved(hs) = Held(hs)
BY SumIsFold DEF Reserved, Held

LEMMA Bytes ==
    /\ IsFiniteSet(Handlers)
    /\ \A s \in Sizes \cup {0} : s \in Nat /\ s <= MaxInflightBytes
    /\ MaxInflightBytes \in Nat
BY AdmissionAssumption

\* The last chunk may be smaller than the others.
LEMMA ChunkShrinks ==
    ASSUME NEW x \in Nat
    PROVE  AfterChunk(x) \in Nat /\ AfterChunk(x) <= x
<1> DEFINE S == {0, x - ChunkBytes}
           m == IF x <= ChunkBytes THEN 0 ELSE x - ChunkBytes
<1>1. ChunkBytes \in Nat \ {0}
  BY AdmissionAssumption
<1>2. m \in S /\ \A y \in S : m >= y
  BY <1>1
<1>3. \A n \in S : (\A y \in S : n >= y) => n = m
  BY <1>1, <1>2
<1>4. Max(S) = m
  BY <1>2, <1>3 DEF Max
<1> QED
  BY <1>1, <1>4 DEF AfterChunk

LEMMA AInitInv == Init => AInv
<1> SUFFICES ASSUME Init PROVE AInv
  OBVIOUS
<1>1. \A hs \in SUBSET Handlers : Held(hs) = 0
  <2> TAKE hs \in SUBSET Handlers
  <2>1. IsFiniteSet(hs) /\ \A h \in hs : size[h] = 0
    BY Bytes, FS_Subset DEF Init
  <2> QED
    BY <2>1, SumOfZeros DEF Held
<1>2. Transfers \in SUBSET Handlers
  BY DEF Transfers
<1> QED
  BY <1>1, <1>2, Bytes DEF Init, AInv

(***************************************************************************)
(* A handler that reserves adds its size, and one that returns takes it    *)
(* back; nobody else's size changes.                                       *)
(***************************************************************************)
LEMMA OneSizeChanges ==
    ASSUME AInv, NEW h \in Handlers, NEW s \in Sizes \cup {0},
           size' = [size EXCEPT ![h] = s]
    PROVE  Held(Handlers)' = (Held(Handlers) - size[h]) + s
<1>1. \A g \in Handlers : size[g] \in Nat /\ size'[g] \in Nat
  BY Bytes DEF AInv
<1>2. size'[h] = s /\ \A g \in Handlers \ {h} : size'[g] = size[g]
  BY DEF AInv
<1> DEFINE f == size
           g == size'
<1>3. /\ IsFiniteSet(Handlers)
      /\ \A y \in Handlers : f[y] \in Nat
      /\ \A y \in Handlers : g[y] \in Nat
      /\ \A y \in Handlers \ {h} : g[y] = f[y]
  BY <1>1, <1>2, Bytes
<1> HIDE DEF f, g
<1>4. SumOver(g, Handlers) = (SumOver(f, Handlers) - f[h]) + g[h]
  BY <1>3, SumChange
<1> QED
  BY <1>2, <1>4 DEF Held, f, g

LEMMA SameTransfers ==
    ASSUME NEW f, NEW g, NEW T \in SUBSET Handlers,
           \A h \in T : f[h] = g[h]
    PROVE  SumOver(f, T) = SumOver(g, T)
<1>1. IsFiniteSet(T)
  BY Bytes, FS_Subset
<1> QED
  BY <1>1, SumSame

LEMMA AStep ==
    ASSUME AInv, Next
    PROVE  AInv'
<1>1. /\ \A h \in Handlers : size[h] \in Nat
      /\ Transfers \in SUBSET Handlers
      /\ IsFiniteSet(Transfers)
      /\ Held(Handlers) \in Nat /\ Held(Transfers) \in Nat
  <2>1. \A h \in Handlers : size[h] \in Nat
    BY Bytes DEF AInv
  <2>2. Transfers \in SUBSET Handlers
    BY DEF Transfers
  <2>3. IsFiniteSet(Transfers)
    BY <2>2, Bytes, FS_Subset
  <2> QED
    BY <2>1, <2>2, <2>3, Bytes, SumIsNat DEF Held
<1>2. ASSUME NEW h \in Handlers, NEW s \in Sizes, Reserve(h, s)
      PROVE  AInv'
  <2>1. s \in Nat
    BY Bytes
  <2>2. Held(Handlers)' = Held(Handlers) + s
    <3>1. size[h] = 0
      BY <1>2 DEF Reserve, AInv
    <3>2. Held(Handlers)' = (Held(Handlers) - size[h]) + s
      BY <1>2, OneSizeChanges DEF Reserve
    <3> QED
      BY <1>1, <2>1, <3>1, <3>2
  <2>3. inflight' = Held(Handlers)'
    BY <1>2, <2>2 DEF Reserve, AInv
  <2>4. \A g \in Handlers : size'[g] \in Nat
    BY <1>2, Bytes DEF Reserve, AInv
  <2>5. Held(Transfers)' <= MaxInflightBytes
    <3>1. CASE TooMuch(inflight + s)
      <4>1. Transfers' = Transfers
        BY <1>2, <3>1 DEF Reserve, Transfers, AInv
      <4>2. \A g \in Transfers : size'[g] = size[g]
        BY <1>2 DEF Reserve, Transfers, AInv
      <4>3. Held(Transfers)' = Held(Transfers)
        BY <1>1, <4>1, <4>2, SameTransfers DEF Held
      <4> QED
        BY <4>3 DEF AInv
    <3>2. CASE ~TooMuch(inflight + s)
      <4>1. Transfers' \subseteq Handlers
        BY DEF Transfers
      <4>2. Held(Transfers)' <= Held(Handlers)'
        BY <2>4, <4>1, Bytes, SumOfPart DEF Held
      <4>3. Held(Handlers)' <= MaxInflightBytes
        BY <1>1, <2>1, <2>2, <3>2, Bytes DEF TooMuch, AInv
      <4>4. Held(Transfers)' \in Nat
        BY <2>4, <4>1, Bytes, FS_Subset, SumIsNat DEF Held
      <4> QED
        BY <1>1, <2>1, <2>2, <4>2, <4>3, <4>4, Bytes
    <3> QED
      BY <3>1, <3>2
  <2>6. /\ at' \in [Handlers -> {"idle", "refused", "admitted", "failed"}]
        /\ size' \in [Handlers -> Sizes \cup {0}]
        /\ left' \in [Handlers -> Nat]
        /\ reads' \in [Handlers -> BOOLEAN]
    BY <1>2, <2>1 DEF Reserve, AInv
  <2>7. \A g \in Handlers : left'[g] <= size'[g] /\ (at'[g] = "idle" => size'[g] = 0)
    BY <1>2, <2>1 DEF Reserve, AInv
  <2> QED
    BY <2>3, <2>5, <2>6, <2>7 DEF AInv
<1>3. ASSUME NEW h \in Handlers, at[h] # "idle", Release(h), Return(h)
      PROVE  AInv'
  <2>1. Held(Handlers)' = Held(Handlers) - size[h]
    <3>1. Held(Handlers)' = (Held(Handlers) - size[h]) + 0
      BY <1>3, OneSizeChanges DEF Return
    <3> QED
      BY <1>1, <3>1
  <2>2. inflight' = Held(Handlers)'
    BY <1>3, <2>1 DEF Release, AInv
  <2>3. Held(Transfers)' <= MaxInflightBytes
    <3>1. Transfers' = Transfers \ {h}
      BY <1>3 DEF Return, Transfers, AInv
    <3>2. \A g \in Transfers \ {h} : size'[g] = size[g]
      BY <1>3 DEF Return, Transfers, AInv
    <3>3. Held(Transfers)' = Held(Transfers \ {h})
      BY <1>1, <3>1, <3>2, SameTransfers DEF Held
    <3>4. Held(Transfers \ {h}) <= Held(Transfers)
      BY <1>1, SumOfPart DEF Held
    <3>5. Held(Transfers \ {h}) \in Nat
      BY <1>1, FS_Subset, SumIsNat DEF Held
    <3> QED
      BY <1>1, <3>3, <3>4, <3>5, Bytes DEF AInv
  <2>4. /\ at' \in [Handlers -> {"idle", "refused", "admitted", "failed"}]
        /\ size' \in [Handlers -> Sizes \cup {0}]
        /\ left' \in [Handlers -> Nat]
        /\ reads' \in [Handlers -> BOOLEAN]
        /\ \A g \in Handlers : left'[g] <= size'[g] /\ (at'[g] = "idle" => size'[g] = 0)
    BY <1>3 DEF Return, AInv
  <2> QED
    BY <2>2, <2>3, <2>4 DEF AInv
<1>4. ASSUME NEW h \in Handlers, WriteChunk(h) \/ WriteFails(h) \/ Client(h)
      PROVE  AInv'
  <2>1. inflight' = inflight /\ size' = size
    BY <1>4 DEF WriteChunk, WriteFails, Client
  <2>2. Transfers' = Transfers
    BY <1>4 DEF WriteChunk, WriteFails, Client, Transfers, AInv
  <2>3. inflight' = Held(Handlers)' /\ Held(Transfers)' <= MaxInflightBytes
    BY <2>1, <2>2 DEF AInv, Held
  <2>4. /\ left' \in [Handlers -> Nat]
        /\ \A g \in Handlers : left'[g] <= left[g]
    <3>1. AfterChunk(left[h]) \in Nat /\ AfterChunk(left[h]) <= left[h]
      BY ChunkShrinks DEF AInv
    <3>2. left' = left \/ left' = [left EXCEPT ![h] = AfterChunk(left[h])]
      BY <1>4 DEF WriteChunk, WriteFails, Client
    <3> QED
      BY <3>1, <3>2 DEF AInv
  <2>5. /\ at' \in [Handlers -> {"idle", "refused", "admitted", "failed"}]
        /\ reads' \in [Handlers -> BOOLEAN]
        /\ \A g \in Handlers : at'[g] = "idle" => at[g] = "idle"
    BY <1>4 DEF WriteChunk, WriteFails, Client, AInv
  <2>6. \A g \in Handlers : left'[g] <= size'[g] /\ (at'[g] = "idle" => size'[g] = 0)
    BY <1>1, <2>1, <2>4, <2>5 DEF AInv
  <2> QED
    BY <2>1, <2>3, <2>4, <2>5, <2>6 DEF AInv
<1> QED
  BY <1>2, <1>3, <1>4 DEF Next, Refuse, Finish

LEMMA AInvariance == Spec => []AInv
<1>1. AInv /\ UNCHANGED vars => AInv'
  BY DEF AInv, vars, Held, Transfers
<1> QED
  BY <1>1, AInitInv, AStep, PTL DEF Spec

(***************************************************************************)
(* The types of Admission.                                                 *)
(***************************************************************************)
THEOREM TypeCorrect == Spec => []TypeOK
<1>1. AInv => TypeOK
  <2> SUFFICES ASSUME AInv PROVE TypeOK
    OBVIOUS
  <2>1. \A h \in Handlers : size[h] \in Nat
    BY Bytes DEF AInv
  <2>2. inflight \in Nat
    BY <2>1, Bytes, SumIsNat DEF AInv, Held
  <2> QED
    BY <2>2 DEF AInv, TypeOK
<1> QED
  BY <1>1, AInvariance, PTL

(***************************************************************************)
(* No byte leaks: the counter is the sum of the reservations.              *)
(***************************************************************************)
THEOREM ReservationsAlwaysAddUp == Spec => []ReservationsAddUp
<1>1. AInv => ReservationsAddUp
  BY ReservedIsHeld DEF AInv, ReservationsAddUp
<1> QED
  BY <1>1, AInvariance, PTL

(***************************************************************************)
(* The responses in transfer fit in MAX_INFLIGHT_BYTES together.           *)
(***************************************************************************)
THEOREM TransfersAlwaysFit == Spec => []TransfersFit
<1>1. AInv => TransfersFit
  BY ReservedIsHeld DEF AInv, TransfersFit
<1> QED
  BY <1>1, AInvariance, PTL

(***************************************************************************)
(* A refusal has a cause: some other request holds a reservation.          *)
(***************************************************************************)
THEOREM LargestCanAlwaysRun == Spec => LargestCanRun
<1>1. AInv /\ [Next]_vars =>
        [\A h \in Handlers : Refuses(h) => \E g \in Handlers \ {h} : at[g] # "idle"]_vars
  <2> SUFFICES ASSUME AInv, Next, NEW h \in Handlers, Refuses(h),
                      \A g \in Handlers \ {h} : at[g] = "idle"
               PROVE  FALSE
    BY DEF Refuses
  <2>1. PICK s \in Sizes : Reserve(h, s)
    BY DEF Next, Refuses, Reserve, Refuse, Finish, Return, WriteChunk, WriteFails,
           Client, AInv
  <2>2. TooMuch(inflight + s)
    BY <2>1 DEF Reserve, Refuses, AInv
  <2>3. \A g \in Handlers : size[g] = 0
    BY DEF Refuses, AInv
  <2>4. inflight = 0
    BY <2>3, Bytes, SumOfZeros DEF AInv, Held
  <2> QED
    BY <2>2, <2>4, Bytes DEF TooMuch
<1> QED
  BY <1>1, AInvariance, PTL DEF Spec, LargestCanRun

-----------------------------------------------------------------------------
(***************************************************************************)
(* The labels of the metric: those of served requests, and the others.     *)
(***************************************************************************)
LEMMA Routes ==
    ASSUME NEW q \in Requests
    PROVE  /\ q.valid \in BOOLEAN
           /\ Route(q) = "/fizzbuzz" => q.method \in {"GET", "HEAD", "QUERY"}
           /\ q.method \in {"GET", "HEAD", "QUERY"} => methodLabel(q.method) = q.method
<1>1. q.valid \in BOOLEAN
  BY ServerAssumption
<1>2. CASE q.path = "/fizzbuzz"
  BY <1>1, <1>2 DEF Route, Allowed, methodLabel
<1>3. CASE q.path # "/fizzbuzz"
  BY <1>1, <1>3 DEF Route, methodLabel
<1> QED
  BY <1>2, <1>3

LEMMA KnownCodes ==
    ASSUME NEW q \in Requests
    PROVE  Codes(q) \subseteq {200, 400, 404, 405, 413, 415, 503}
BY DEF Codes, AnswersTo

LEMMA OnlyStreamsServe ==
    ASSUME NEW q \in Requests, ~Streams(q), Route(q) = "/fizzbuzz", q.method # "HEAD"
    PROVE  200 \notin Codes(q)
<1>1. ~q.valid
  BY DEF Streams
<1>2. Codes(q) = AnswersTo(q)
  BY DEF Codes
<1>3. AnswersTo(q) = IF q.method = "QUERY" THEN {400, 413, 415} ELSE {400}
  BY <1>1 DEF AnswersTo
<1> QED
  BY <1>2, <1>3

LEMMA LabelOf ==
    ASSUME NEW q \in Requests, NEW code \in Codes(q)
    PROVE  /\ Label(q, code) \in Labels
           /\ Label(q, code) \in Served <=> Streams(q) /\ code = 200
<1> DEFINE l == Label(q, code)
<1>1. l \in Labels
  BY DEF Labels
<1>2. l[1] = Route(q) /\ l[2] = methodLabel(q.method) /\ l[3] = code
  BY DEF Label
<1>3. l \in Served <=> l[1] = "/fizzbuzz" /\ l[2] \in {"GET", "QUERY"} /\ l[3] = 200
  BY <1>1 DEF Served
<1> HIDE DEF l
<1>4. CASE Streams(q)
  <2>1. Route(q) = "/fizzbuzz" /\ q.method \in {"GET", "QUERY"}
        /\ methodLabel(q.method) = q.method
    BY <1>4, Routes DEF Streams
  <2> QED
    BY <1>1, <1>2, <1>3, <1>4, <2>1 DEF l
<1>5. CASE ~Streams(q)
  <2>1. ~(Route(q) = "/fizzbuzz" /\ methodLabel(q.method) \in {"GET", "QUERY"} /\ code = 200)
    BY <1>5, Routes, OnlyStreamsServe
  <2> QED
    BY <1>1, <1>2, <1>3, <1>5, <2>1 DEF l
<1> QED
  BY <1>4, <1>5

LEMMA ServedIsFinite == IsFiniteSet(Served)
<1> DEFINE g == <<"/fizzbuzz", "GET", 200>>
           q == <<"/fizzbuzz", "QUERY", 200>>
<1>1. ASSUME NEW a, NEW b PROVE IsFiniteSet({a} \cup {b})
  <2>1. IsFiniteSet({a})
    BY FS_Singleton
  <2> QED
    BY <2>1, FS_AddElement
<1>2. \A l \in Served : l = g \/ l = q
  <2> TAKE l \in Served
  <2>1. l \in Labels /\ l[1] = "/fizzbuzz" /\ l[2] \in {"GET", "QUERY"} /\ l[3] = 200
    BY Zenon DEF Served
  <2>2. l = <<l[1], l[2], l[3]>>
    BY <2>1 DEF Labels, Label
  <2> QED
    BY <2>1, <2>2
<1> HIDE DEF g, q
<1>3. Served \in SUBSET ({g} \cup {q})
  BY <1>2
<1> QED
  BY <1>1, <1>3, FS_Subset

(***************************************************************************)
(* The handlers of Server: one that has a place in Admission streams, and  *)
(* one that wrote anything was recorded.                                   *)
(***************************************************************************)
HandlerInv(h) ==
    /\ request[h] # NoRequest => request[h] \in Requests
    /\ status[h] # 0 =>
          /\ at[h] = "idle" /\ request[h] # NoRequest
          /\ status[h] \in Codes(request[h])
          /\ Streams(request[h]) /\ status[h] = 200 => counted[h]
    /\ at[h] # "idle" => request[h] # NoRequest /\ Streams(request[h])
    /\ counted[h] =>
          /\ request[h] # NoRequest /\ Streams(request[h])
          /\ at[h] # "refused"
          /\ status[h] \in {0, 200}
    /\ at[h] = "failed" => counted[h]
    /\ at[h] # "refused" /\ left[h] < size[h] => counted[h]

CountedHandlers == {h \in Handlers : counted[h]}

SInv ==
    /\ AInv
    /\ request \in [Handlers -> Requests \cup {NoRequest}]
    /\ counted \in [Handlers -> BOOLEAN]
    /\ status \in [Handlers -> Nat]
    /\ hits \in Nat
    /\ total \in [Labels -> Nat]
    /\ arrived \in 0..MaxRequests
    /\ \A h \in Handlers : HandlerInv(h)
    /\ hits = SumOver(total, Served) + Cardinality(CountedHandlers)

LEMMA SInitInv == ServerInit => SInv
<1> SUFFICES ASSUME ServerInit PROVE SInv
  OBVIOUS
<1>1. AInv
  BY AInitInv DEF ServerInit
<1>2. SumOver(total, Served) = 0
  BY ServedIsFinite, SumOfZeros DEF ServerInit, Served
<1>3. Cardinality(CountedHandlers) = 0
  BY FS_EmptySet DEF ServerInit, CountedHandlers
<1>4. \A h \in Handlers : HandlerInv(h)
  BY DEF ServerInit, Init, HandlerInv
<1> QED
  BY <1>1, <1>2, <1>3, <1>4, ServerAssumption DEF ServerInit, SInv

(***************************************************************************)
(* Each step of the server is a step of Admission or leaves it alone.      *)
(***************************************************************************)
LEMMA ServerMaps ==
    ASSUME ServerNext
    PROVE  [Next]_vars
<1>1. ASSUME NEW h \in Handlers, NEW q \in Requests, NEW s \in Sizes, Fizzbuzz(h, q, s)
      PROVE  Next
  BY <1>1 DEF Fizzbuzz, Next
<1>2. ASSUME NEW h \in Handlers, Busy(h) \/ Body(h) \/ Streamed(h) \/ Client(h)
      PROVE  Next
  BY <1>2 DEF Busy, Body, StreamsBody, Streamed, Next
<1>3. ASSUME NEW h \in Handlers, Records(h) \/ Observe(h)
      PROVE  UNCHANGED vars
  BY <1>3 DEF Records, Observe
<1>4. ASSUME NEW h \in Handlers, NEW q \in Requests, NEW code, Answer(h, q, code)
      PROVE  UNCHANGED vars
  BY <1>4 DEF Answer
<1> QED
  BY <1>1, <1>2, <1>3, <1>4 DEF ServerNext

THEOREM ServerUsesAdmission == ServerSpec => Spec
<1>1. ServerInit => Init
  BY DEF ServerInit
<1>2. [ServerNext]_allVars => [Next]_vars
  BY ServerMaps DEF allVars
<1> QED
  BY <1>1, <1>2, PTL DEF ServerSpec, Spec

(***************************************************************************)
(* What a step of Admission by one handler leaves to the others.           *)
(***************************************************************************)
LEMMA OthersKeep ==
    ASSUME SInv, NEW h \in Handlers, NEW g \in Handlers, g # h, HandlerInv(g),
           at'[g] = at[g], size'[g] = size[g], left'[g] = left[g],
           request'[g] = request[g], counted'[g] = counted[g], status'[g] = status[g]
    PROVE  HandlerInv(g)'
BY DEF HandlerInv

(***************************************************************************)
(* The handlers that are counted, after one of them changes.               *)
(***************************************************************************)
LEMMA CountedChange ==
    ASSUME SInv, NEW h \in Handlers, NEW b \in BOOLEAN,
           counted' = [counted EXCEPT ![h] = b]
    PROVE  /\ Cardinality(CountedHandlers) \in Nat
           /\ b /\ ~counted[h] =>
                 Cardinality(CountedHandlers)' = Cardinality(CountedHandlers) + 1
           /\ ~b /\ counted[h] =>
                 Cardinality(CountedHandlers) = Cardinality(CountedHandlers)' + 1
           /\ (b <=> counted[h]) => CountedHandlers' = CountedHandlers
<1> DEFINE C == CountedHandlers
           D == CountedHandlers'
<1>1. counted \in [Handlers -> BOOLEAN]
  BY DEF SInv
<1>2. \A g \in Handlers : counted'[g] <=> IF g = h THEN b ELSE counted[g]
  BY <1>1
<1>3. /\ C \in SUBSET Handlers /\ (h \in C <=> counted[h])
      /\ b => D = C \cup {h}
      /\ ~b => D = C \ {h}
  BY <1>2 DEF CountedHandlers
<1>4. IsFiniteSet(C) /\ Cardinality(C) \in Nat
  BY <1>3, Bytes, FS_Subset, FS_CardinalityType
<1> HIDE DEF C, D
<1>5. /\ Cardinality(C \cup {h}) = IF h \in C THEN Cardinality(C) ELSE Cardinality(C) + 1
      /\ Cardinality(C \ {h}) = IF h \in C THEN Cardinality(C) - 1 ELSE Cardinality(C)
  BY <1>4, FS_AddElement, FS_RemoveElement
<1>6. (b <=> counted[h]) => D = C
  BY <1>3
<1>7. b /\ ~counted[h] => Cardinality(D) = Cardinality(C) + 1
  BY <1>3, <1>5
<1>8. ASSUME ~b, counted[h] PROVE Cardinality(C) = Cardinality(D) + 1
  <2>1. D = C \ {h} /\ h \in C
    BY <1>3, <1>8
  <2>2. Cardinality(D) = Cardinality(C) - 1
    BY <1>5, <2>1
  <2> QED
    BY <1>4, <2>2
<1> QED
  BY <1>4, <1>6, <1>7, <1>8 DEF C, D

ServerTypes ==
    /\ request \in [Handlers -> Requests \cup {NoRequest}]
    /\ counted \in [Handlers -> BOOLEAN]
    /\ status \in [Handlers -> Nat]
    /\ hits \in Nat
    /\ total \in [Labels -> Nat]
    /\ arrived \in 0..MaxRequests

LEMMA RequestIsSome == NoRequest \notin Requests
<1>1. \A q \in Requests : q.method \in STRING /\ q \in [path : STRING, method : STRING, valid : BOOLEAN]
  BY ServerAssumption
<1>2. NoRequest \notin [path : STRING, method : STRING, valid : BOOLEAN]
  BY DEF NoRequest
<1> QED
  BY <1>1, <1>2

LEMMA StepTypes ==
    ASSUME SInv, ServerNext
    PROVE  ServerTypes'
<1>1. ServerTypes
  BY DEF SInv, ServerTypes
<1>2. \A q \in Requests : \A code \in Codes(q) : code \in Nat
  BY KnownCodes
<1>3. ASSUME NEW h \in Handlers, NEW q \in Requests, Arrives(h, q)
      PROVE  /\ request' \in [Handlers -> Requests \cup {NoRequest}]
             /\ arrived' \in 0..MaxRequests
  BY <1>1, <1>3, ServerAssumption DEF Arrives, ServerTypes
<1>4. ASSUME NEW h \in Handlers, NEW code \in Nat, Returns(h, code)
      PROVE  status' \in [Handlers -> Nat]
  BY <1>1, <1>4 DEF Returns, ServerTypes
<1>5. ASSUME NEW h \in Handlers, NEW q \in Requests, NEW s \in Sizes, Fizzbuzz(h, q, s)
      PROVE  ServerTypes'
  BY <1>1, <1>3, <1>5 DEF Fizzbuzz, ServerTypes
<1>6. ASSUME NEW h \in Handlers, NEW q \in Requests, NEW code \in Codes(q),
             Answer(h, q, code)
      PROVE  ServerTypes'
  BY <1>1, <1>2, <1>3, <1>4, <1>6 DEF Answer, ServerTypes
<1>7. ASSUME NEW h \in Handlers, Busy(h) \/ Streamed(h)
      PROVE  ServerTypes'
  BY <1>1, <1>4, <1>7 DEF Busy, Streamed, ServerTypes
<1>8. ASSUME NEW h \in Handlers, Records(h)
      PROVE  ServerTypes'
  BY <1>1, <1>8 DEF Records, ServerTypes
<1>9. ASSUME NEW h \in Handlers, Body(h) \/ (Client(h) /\ UNCHANGED serverVars)
      PROVE  ServerTypes'
  BY <1>1, <1>9 DEF Body, serverVars, ServerTypes
<1>10. ASSUME NEW h \in Handlers, Observe(h)
       PROVE  ServerTypes'
  <2>1. total' \in [Labels -> Nat]
    <3> DEFINE l == Label(request[h], status[h])
               f == total
               g == total'
    <3>1. g = [f EXCEPT ![l] = @ + 1]
      BY <1>10 DEF Observe
    <3>2. f \in [Labels -> Nat]
      BY <1>1 DEF ServerTypes
    <3>3. l \in Labels
      <4>1. request[h] \in Requests /\ status[h] \in Codes(request[h])
        BY <1>10 DEF Observe, SInv, HandlerInv
      <4> QED
        BY <4>1, LabelOf
    <3> HIDE DEF f, g, l
    <3>4. g \in [Labels -> Nat]
      BY <3>1, <3>2, <3>3
    <3> QED
      BY <3>4 DEF g
  <2>2. request' \in [Handlers -> Requests \cup {NoRequest}]
    BY <1>1, <1>10 DEF Observe, ServerTypes
  <2>3. counted' \in [Handlers -> BOOLEAN] /\ status' \in [Handlers -> Nat]
    BY <1>1, <1>10 DEF Observe, ServerTypes
  <2> QED
    BY <1>1, <1>10, <2>1, <2>2, <2>3 DEF Observe, ServerTypes
<1> QED
  BY <1>5, <1>6, <1>7, <1>8, <1>9, <1>10 DEF ServerNext

LEMMA StepHandlers ==
    ASSUME SInv, ServerNext
    PROVE  \A h \in Handlers : HandlerInv(h)'
<1>1. \A h \in Handlers : HandlerInv(h)
  BY DEF SInv
<1>2. /\ at \in [Handlers -> {"idle", "refused", "admitted", "failed"}]
      /\ size \in [Handlers -> Nat] /\ left \in [Handlers -> Nat]
      /\ \A h \in Handlers : left[h] <= size[h]
      /\ \A s \in Sizes : s \in Nat
      /\ DOMAIN request = Handlers /\ DOMAIN counted = Handlers /\ DOMAIN status = Handlers
      /\ \A h \in Handlers : at[h] = "idle" => left[h] = 0 /\ size[h] = 0
  BY Bytes DEF SInv, AInv
<1>3. \A q \in Requests : q # NoRequest
  BY RequestIsSome
<1>4. ASSUME NEW h \in Handlers, NEW q \in Requests, NEW s \in Sizes, Fizzbuzz(h, q, s),
             NEW g \in Handlers
      PROVE  HandlerInv(g)'
  <2>1. CASE g # h
    BY <1>1, <1>2, <1>4, <2>1, OthersKeep DEF Fizzbuzz, Arrives, Reserve
  <2>2. CASE g = h
    <3>1. /\ request[h] = NoRequest /\ request'[h] = q /\ Streams(q)
          /\ left'[h] = size'[h] /\ at'[h] \in {"refused", "admitted"}
          /\ counted'[h] = counted[h] /\ status'[h] = status[h]
      BY <1>2, <1>4 DEF Fizzbuzz, Arrives, Reserve
    <3>2. status[h] = 0 /\ ~counted[h] /\ size'[h] \in Nat
      BY <1>1, <1>2, <1>4, <3>1 DEF HandlerInv, Fizzbuzz, Reserve
    <3> QED
      BY <1>3, <2>2, <3>1, <3>2 DEF HandlerInv
  <2> QED
    BY <2>1, <2>2
<1>5. ASSUME NEW h \in Handlers, NEW q \in Requests, NEW code \in Codes(q),
             Answer(h, q, code), NEW g \in Handlers
      PROVE  HandlerInv(g)'
  <2>1. CASE g # h
    BY <1>1, <1>2, <1>5, <2>1, OthersKeep DEF Answer, Arrives, Returns, vars
  <2>2. CASE g = h
    <3>1. /\ request[h] = NoRequest /\ request'[h] = q /\ ~Streams(q) /\ status'[h] = code
          /\ at'[h] = at[h] /\ size'[h] = size[h] /\ left'[h] = left[h]
          /\ counted'[h] = counted[h]
      BY <1>2, <1>5 DEF Answer, Arrives, Returns, vars
    <3>2. ~counted[h] /\ at[h] = "idle" /\ left[h] = 0 /\ size[h] = 0
      BY <1>1, <1>2, <3>1 DEF HandlerInv
    <3> QED
      BY <1>3, <2>2, <3>1, <3>2 DEF HandlerInv
  <2> QED
    BY <2>1, <2>2
<1>6. ASSUME NEW h \in Handlers, Busy(h) \/ Streamed(h), NEW g \in Handlers
      PROVE  HandlerInv(g)'
  <2>1. /\ Return(h) /\ at[h] # "idle"
        /\ UNCHANGED <<request, counted>>
        /\ \/ at[h] = "refused" /\ Returns(h, 503)
           \/ counted[h] /\ Returns(h, 200)
    BY <1>6 DEF Busy, Refuse, Streamed, Finish
  <2>2. CASE g # h
    BY <1>1, <1>2, <2>1, <2>2, OthersKeep DEF Return, Returns
  <2>3. CASE g = h
    <3>1. at'[h] = "idle" /\ size'[h] = 0 /\ left'[h] = 0
      BY <1>2, <2>1 DEF Return
    <3>2. /\ request'[h] = request[h] /\ counted'[h] = counted[h]
          /\ request[h] # NoRequest /\ request[h] \in Requests /\ Streams(request[h])
          /\ \/ status'[h] = 503 /\ ~counted[h]
             \/ status'[h] = 200 /\ counted[h]
      BY <1>1, <1>2, <2>1 DEF Returns, HandlerInv
    <3>3. Codes(request[h]) = {200, 503}
      BY <3>2 DEF Codes
    <3> QED
      BY <2>3, <3>1, <3>2, <3>3 DEF HandlerInv
  <2> QED
    BY <2>2, <2>3
<1>7. ASSUME NEW h \in Handlers, Records(h), NEW g \in Handlers
      PROVE  HandlerInv(g)'
  <2>1. CASE g # h
    BY <1>1, <1>2, <1>7, <2>1, OthersKeep DEF Records, vars
  <2>2. CASE g = h
    <3>1. /\ at[h] = "admitted" /\ counted'[h] = TRUE
          /\ at'[h] = at[h] /\ size'[h] = size[h] /\ left'[h] = left[h]
          /\ request'[h] = request[h] /\ status'[h] = status[h]
      BY <1>2, <1>7 DEF Records, vars
    <3> QED
      BY <1>1, <2>2, <3>1 DEF HandlerInv
  <2> QED
    BY <2>1, <2>2
<1>8. ASSUME NEW h \in Handlers, Body(h) \/ (Client(h) /\ UNCHANGED serverVars),
             NEW g \in Handlers
      PROVE  HandlerInv(g)'
  <2>1. /\ size' = size /\ UNCHANGED <<request, counted, status>>
        /\ at[h] = "admitted"
        /\ \A k \in Handlers : k # h => at'[k] = at[k] /\ left'[k] = left[k]
        /\ \/ at'[h] = at[h] /\ left'[h] = left[h]
           \/ counted[h] /\ at'[h] \in {"admitted", "failed"}
    BY <1>2, <1>8 DEF Body, StreamsBody, WriteChunk, WriteFails, Client, serverVars
  <2>2. CASE g # h
    BY <1>1, <2>1, <2>2, OthersKeep
  <2>3. CASE g = h
    BY <1>1, <2>1, <2>3 DEF HandlerInv
  <2> QED
    BY <2>2, <2>3
<1>9. ASSUME NEW h \in Handlers, Observe(h), NEW g \in Handlers
      PROVE  HandlerInv(g)'
  <2>1. CASE g # h
    BY <1>1, <1>2, <1>9, <2>1, OthersKeep DEF Observe, vars
  <2>2. CASE g = h
    <3>1. /\ request'[h] = NoRequest /\ counted'[h] = FALSE /\ status'[h] = 0
          /\ status[h] # 0
          /\ at'[h] = at[h] /\ size'[h] = size[h] /\ left'[h] = left[h]
      BY <1>2, <1>9 DEF Observe, vars
    <3>2. at[h] = "idle" /\ left[h] = 0 /\ size[h] = 0
      BY <1>1, <1>2, <3>1 DEF HandlerInv
    <3> QED
      BY <2>2, <3>1, <3>2 DEF HandlerInv
  <2> QED
    BY <2>1, <2>2
<1> QED
  BY <1>4, <1>5, <1>6, <1>7, <1>8, <1>9 DEF ServerNext

(***************************************************************************)
(* One more request is measured: its label was served if and only if it    *)
(* was counted.                                                            *)
(***************************************************************************)
LEMMA ObserveMoves ==
    ASSUME SInv, NEW h \in Handlers, Observe(h)
    PROVE  SumOver(total', Served) =
               SumOver(total, Served) + IF counted[h] THEN 1 ELSE 0
<1> DEFINE l == Label(request[h], status[h])
           f == total
           g == total'
<1>1. /\ request[h] \in Requests /\ status[h] \in Codes(request[h])
      /\ Streams(request[h]) /\ status[h] = 200 => counted[h]
      /\ counted[h] => Streams(request[h]) /\ status[h] = 200
  BY DEF Observe, SInv, HandlerInv
<1>2. l \in Labels /\ (l \in Served <=> counted[h])
  <2>1. l \in Labels /\ (l \in Served <=> Streams(request[h]) /\ status[h] = 200)
    BY <1>1, LabelOf
  <2> QED
    BY <1>1, <2>1
<1>3. g = [f EXCEPT ![l] = @ + 1]
  BY DEF Observe
<1>4. f \in [Labels -> Nat]
  BY DEF SInv
<1> HIDE DEF f, g, l
<1>5. g \in [Labels -> Nat] /\ g[l] = f[l] + 1 /\ \A k \in Labels \ {l} : g[k] = f[k]
  BY <1>2, <1>3, <1>4
<1>6. /\ Served \subseteq Labels /\ IsFiniteSet(Served)
      /\ \A k \in Served : f[k] \in Nat
      /\ \A k \in Served : g[k] \in Nat
      /\ \A k \in Served \ {l} : g[k] = f[k]
  BY <1>4, <1>5, ServedIsFinite DEF Served
<1>7. SumOver(f, Served) \in Nat
  BY <1>6, SumIsNat
<1>8. CASE counted[h]
  <2>1. l \in Served
    BY <1>2, <1>8
  <2>2. SumOver(g, Served) = (SumOver(f, Served) - f[l]) + g[l]
    BY <1>6, <2>1, SumChange
  <2>3. f[l] \in Nat
    BY <1>6, <2>1
  <2>4. SumOver(g, Served) = SumOver(f, Served) + 1
    BY <1>5, <1>7, <2>2, <2>3
  <2> QED
    BY <1>8, <2>4 DEF f, g
<1>9. CASE ~counted[h]
  <2>1. \A k \in Served : f[k] = g[k]
    BY <1>2, <1>6, <1>9
  <2>2. SumOver(g, Served) = SumOver(f, Served)
    BY <1>6, <2>1, SumSame
  <2>3. SumOver(g, Served) = SumOver(f, Served) + 0
    BY <1>7, <2>2
  <2> QED
    BY <1>9, <2>3 DEF f, g
<1> QED
  BY <1>8, <1>9

LEMMA StepHits ==
    ASSUME SInv, ServerNext
    PROVE  hits' = SumOver(total', Served) + Cardinality(CountedHandlers)'
<1>1. /\ hits = SumOver(total, Served) + Cardinality(CountedHandlers)
      /\ SumOver(total, Served) \in Nat
  <2>1. \A k \in Served : total[k] \in Nat
    BY DEF SInv, Served
  <2> QED
    BY <2>1, ServedIsFinite, SumIsNat DEF SInv
<1>2. CASE UNCHANGED <<hits, total, counted>>
  <2>1. CountedHandlers' = CountedHandlers
    BY <1>2 DEF CountedHandlers
  <2> QED
    BY <1>1, <1>2, <2>1
<1>3. ASSUME NEW h \in Handlers, Records(h)
      PROVE  hits' = SumOver(total', Served) + Cardinality(CountedHandlers)'
  <2>1. counted' = [counted EXCEPT ![h] = TRUE] /\ ~counted[h]
        /\ hits' = hits + 1 /\ total' = total
    BY <1>3 DEF Records
  <2>2. /\ Cardinality(CountedHandlers) \in Nat
        /\ Cardinality(CountedHandlers)' = Cardinality(CountedHandlers) + 1
    BY <2>1, CountedChange
  <2>3. hits' = hits + 1 /\ total' = total
    BY <2>1
  <2> QED
    BY <1>1, <2>2, <2>3
<1>4. ASSUME NEW h \in Handlers, Observe(h)
      PROVE  hits' = SumOver(total', Served) + Cardinality(CountedHandlers)'
  <2>1. /\ SumOver(total', Served) = SumOver(total, Served) + IF counted[h] THEN 1 ELSE 0
        /\ hits' = hits
        /\ counted' = [counted EXCEPT ![h] = FALSE]
    BY <1>4, ObserveMoves DEF Observe
  <2>2. /\ Cardinality(CountedHandlers) \in Nat
        /\ counted[h] => Cardinality(CountedHandlers) = Cardinality(CountedHandlers)' + 1
        /\ ~counted[h] => CountedHandlers' = CountedHandlers
    BY <2>1, CountedChange
  <2>3. Cardinality(CountedHandlers)' \in Nat
    <3>1. CountedHandlers' \in SUBSET Handlers
      BY DEF CountedHandlers
    <3> QED
      BY <3>1, Bytes, FS_Subset, FS_CardinalityType
  <2>4. CASE counted[h]
    <3>1. /\ SumOver(total', Served) = SumOver(total, Served) + 1
          /\ Cardinality(CountedHandlers) = Cardinality(CountedHandlers)' + 1
          /\ hits' = hits
      BY <2>1, <2>2, <2>4
    <3> QED
      BY <1>1, <2>3, <3>1
  <2>5. CASE ~counted[h]
    <3>1. /\ SumOver(total', Served) = SumOver(total, Served) + 0
          /\ Cardinality(CountedHandlers)' = Cardinality(CountedHandlers)
          /\ hits' = hits
      BY <2>1, <2>2, <2>5
    <3> QED
      BY <1>1, <2>3, <3>1
  <2> QED
    BY <2>4, <2>5
<1>5. \/ UNCHANGED <<hits, total, counted>>
      \/ \E h \in Handlers : Records(h) \/ Observe(h)
  BY DEF ServerNext, Fizzbuzz, Answer, Busy, Body, Streamed, serverVars
<1> QED
  BY <1>2, <1>3, <1>4, <1>5

LEMMA SInvariance == ServerSpec => []SInv
<1>1. SInv /\ ServerNext => SInv'
  <2> SUFFICES ASSUME SInv, ServerNext PROVE SInv'
    OBVIOUS
  <2>1. AInv'
    <3>1. AInv
      BY DEF SInv
    <3>2. CASE Next
      BY <3>1, <3>2, AStep
    <3>3. CASE UNCHANGED vars
      BY <3>1, <3>3 DEF AInv, vars, Held, Transfers
    <3> QED
      BY <3>2, <3>3, ServerMaps
  <2> QED
    BY <2>1, StepTypes, StepHandlers, StepHits DEF SInv, ServerTypes
<1>2. SInv /\ UNCHANGED allVars => SInv'
  BY DEF SInv, allVars, serverVars, vars, AInv, Held, Transfers, HandlerInv, CountedHandlers
<1> QED
  BY <1>1, <1>2, SInitInv, PTL DEF ServerSpec

(***************************************************************************)
(* The types of Server, and that a handler returns one time.               *)
(***************************************************************************)
THEOREM ServerTypeCorrect == ServerSpec => []ServerTypeOK
<1>1. SInv /\ TypeOK => ServerTypeOK
  <2> SUFFICES ASSUME SInv, TypeOK PROVE ServerTypeOK
    OBVIOUS
  <2>1. status \in [Handlers -> {0, 200, 400, 404, 405, 413, 415, 503}]
    <3>1. status \in [Handlers -> Nat]
      BY DEF SInv
    <3>2. \A h \in Handlers : status[h] \in {0, 200, 400, 404, 405, 413, 415, 503}
      BY KnownCodes DEF SInv, HandlerInv
    <3> QED
      BY <3>1, <3>2
  <2>2. \A h \in Handlers :
          /\ status[h] # 0 => at[h] = "idle" /\ request[h] # NoRequest
          /\ counted[h] => request[h] # NoRequest
          /\ at[h] # "idle" => request[h] # NoRequest
    BY DEF SInv, HandlerInv
  <2> QED
    BY <2>1, <2>2 DEF SInv, ServerTypeOK
<1> QED
  BY <1>1, SInvariance, ServerUsesAdmission, TypeCorrect, PTL

(***************************************************************************)
(* /stats and /metrics agree.                                              *)
(***************************************************************************)
THEOREM HitsAreAlwaysServed == ServerSpec => []HitsAreServed
<1>1. SInv => HitsAreServed
  <2>1. MapThenSumSet(LAMBDA l : total[l], Served) = SumOver(total, Served)
    BY SumIsFold
  <2> QED
    BY <2>1 DEF SInv, HitsAreServed, CountedHandlers
<1> QED
  BY <1>1, SInvariance, PTL

(***************************************************************************)
(* Nobody reads a byte of a response before it is counted.                 *)
(***************************************************************************)
THEOREM ReadersAreAlwaysCounted == ServerSpec => []ReadersAreCounted
<1>1. SInv => ReadersAreCounted
  BY DEF SInv, HandlerInv, ReadersAreCounted
<1> QED
  BY <1>1, SInvariance, PTL

(***************************************************************************)
(* The limit on the bytes in transfer holds in the whole server.           *)
(***************************************************************************)
THEOREM ServerKeepsTheLimit ==
    ServerSpec => [](ReservationsAddUp /\ TransfersFit) /\ LargestCanRun
BY ServerUsesAdmission, ReservationsAlwaysAddUp, TransfersAlwaysFit,
   LargestCanAlwaysRun, PTL

-----------------------------------------------------------------------------
(***************************************************************************)
(*                        The log of store errors                          *)
(***************************************************************************)

(***************************************************************************)
(* The types, on each step.                                                *)
(***************************************************************************)
LEMMA InitLogTypeOK == LogInit => LogTypeOK
BY ErrorLogAssumption DEF LogInit, LogTypeOK

LEMMA NextLogTypeOK == LogTypeOK /\ [LogNext]_logVars => LogTypeOK'
<1> SUFFICES ASSUME LogTypeOK, [LogNext]_logVars PROVE LogTypeOK'
  OBVIOUS
<1> USE ErrorLogAssumption DEF LogTypeOK
<1>1. CASE TimePasses
  BY <1>1 DEF TimePasses
<1>2. ASSUME NEW g \in Callers, Now(g) PROVE LogTypeOK'
  BY <1>2 DEF Now, Move
<1>3. ASSUME NEW g \in Callers, Load(g) PROVE LogTypeOK'
  BY <1>3 DEF Load, Move
<1>4. ASSUME NEW g \in Callers, Swap(g) PROVE LogTypeOK'
  BY <1>4 DEF Swap, Move
<1>5. ASSUME NEW g \in Callers, LogLine(g) PROVE LogTypeOK'
  <2>1. clock' = clock /\ lines' = lines \cup {now[g]} /\ now[g] \in 0..clock
    BY <1>5 DEF LogLine
  <2>2. lines' \subseteq 0..clock'
    BY <2>1, Zenon
  <2>3. clock \in 0..clock
    OBVIOUS
  <2>4. QED
    BY <1>5, <2>2, <2>3, Zenon DEF LogLine, Move
<1>6. ASSUME NEW g \in Callers, Skip(g) PROVE LogTypeOK'
  BY <1>6 DEF Skip, Move
<1>7. CASE UNCHANGED logVars
  BY <1>7 DEF logVars
<1>8. QED
  BY <1>1, <1>2, <1>3, <1>4, <1>5, <1>6, <1>7 DEF LogNext

(***************************************************************************)
(* The type invariant of logStoreErr: no time stamp is ahead of the clock, *)
(* so now - last never overflows.                                          *)
(***************************************************************************)
THEOREM LogTypeCorrect == LogSpec => []LogTypeOK
BY InitLogTypeOK, NextLogTypeOK, PTL DEF LogSpec

(***************************************************************************)
(* The inductive invariant for the distance of the lines: the times of all *)
(* swaps are at most the time stamp and apart, those with a line and those *)
(* whose caller still has to write it.                                     *)
(***************************************************************************)
NoneIsNewer ==
    /\ \A t \in lines : t <= lastErrLog
    /\ \A h \in Callers : phase[h] = "logging" => now[h] <= lastErrLog

SwapsAreApart ==
    \A h \in Callers :
        phase[h] = "logging" =>
            /\ \A t \in lines : Apart(now[h], t)
            /\ \A g \in Callers \ {h} : phase[g] = "logging" => Apart(now[h], now[g])

SpacingInv == LogTypeOK /\ NoneIsNewer /\ SwapsAreApart

LEMMA NextSpacingInv == SpacingInv /\ [LogNext]_logVars => SpacingInv'
<1> SUFFICES ASSUME SpacingInv, [LogNext]_logVars
             PROVE  NoneIsNewer' /\ SwapsAreApart'
  BY NextLogTypeOK DEF SpacingInv
<1> USE DEF SpacingInv, LogTypeOK, NoneIsNewer, SwapsAreApart
<1>1. CASE TimePasses
  BY <1>1 DEF TimePasses, Apart
<1>2. ASSUME NEW g \in Callers, Now(g) PROVE NoneIsNewer' /\ SwapsAreApart'
  BY <1>2 DEF Now, Move, Apart
<1>3. ASSUME NEW g \in Callers, Load(g) PROVE NoneIsNewer' /\ SwapsAreApart'
  BY <1>3 DEF Load, Move, Apart
<1>4. ASSUME NEW g \in Callers, Swap(g) PROVE NoneIsNewer' /\ SwapsAreApart'
  <2>1. /\ phase' = [phase EXCEPT ![g] = "logging"]
        /\ lastErrLog' = now[g] /\ now' = now /\ lines' = lines
        /\ now[g] - lastErrLog >= Interval
    BY <1>4 DEF Swap, Move, Swaps
  <2>2. NoneIsNewer'
    BY <2>1, ErrorLogAssumption
  <2>3. \A t \in lines : Apart(now[g], t)
    BY <2>1, ErrorLogAssumption DEF Apart
  <2>4. \A h \in Callers \ {g} :
           phase[h] = "logging" => Apart(now[g], now[h]) /\ Apart(now[h], now[g])
    BY <2>1, ErrorLogAssumption DEF Apart
  <2>5. SwapsAreApart'
    BY <2>1, <2>3, <2>4 DEF Apart
  <2>6. QED
    BY <2>2, <2>5
<1>5. ASSUME NEW g \in Callers, LogLine(g) PROVE NoneIsNewer' /\ SwapsAreApart'
  BY <1>5 DEF LogLine, Move, Apart
<1>6. ASSUME NEW g \in Callers, Skip(g) PROVE NoneIsNewer' /\ SwapsAreApart'
  BY <1>6 DEF Skip, Move, Apart
<1>7. CASE UNCHANGED logVars
  BY <1>7 DEF logVars, Apart
<1>8. QED
  BY <1>1, <1>2, <1>3, <1>4, <1>5, <1>6, <1>7 DEF LogNext

(***************************************************************************)
(* The times of any two lines of an outage are 10 s apart by the clocks of *)
(* their callers, for any number of callers of logStoreErr (server.go:129- *)
(* 134), also if another caller writes between a swap and its line.        *)
(***************************************************************************)
THEOREM LinesAlwaysSpaced == LogSpec => LinesAreSpaced
<1>1. LogInit => SpacingInv
  BY InitLogTypeOK DEF LogInit, SpacingInv, NoneIsNewer, SwapsAreApart
<1>2. SpacingInv =>
        [\A g \in Callers : LogLine(g) => \A t \in lines : Apart(now[g], t)]_logVars
  BY DEF SpacingInv, SwapsAreApart, LogLine, Move
<1>3. QED
  BY <1>1, <1>2, NextSpacingInv, PTL DEF LogSpec, LinesAreSpaced

(***************************************************************************)
(* The inductive invariant for the errors that are left out: the line of   *)
(* the newest swap is owed or was written after it, and so for a caller    *)
(* that holds an older time stamp, which was overtaken after it read the   *)
(* clock.                                                                  *)
(***************************************************************************)
StampHasLine == lastErrLog <= wrote \/ LineIsOwed

Overtaken ==
    \A g \in Callers :
        phase[g] = "deciding" /\ last[g] # lastErrLog => now[g] <= wrote \/ LineIsOwed

SkipInv == LogTypeOK /\ StampHasLine /\ Overtaken

LEMMA NextSkipInv == SkipInv /\ [LogNext]_logVars => SkipInv'
<1> SUFFICES ASSUME SkipInv, [LogNext]_logVars PROVE StampHasLine' /\ Overtaken'
  BY NextLogTypeOK DEF SkipInv
<1> USE DEF SkipInv, LogTypeOK, StampHasLine, Overtaken, LineIsOwed
<1>1. CASE TimePasses
  BY <1>1 DEF TimePasses
<1>2. ASSUME NEW g \in Callers, Now(g) PROVE StampHasLine' /\ Overtaken'
  BY <1>2 DEF Now, Move
<1>3. ASSUME NEW g \in Callers, Load(g) PROVE StampHasLine' /\ Overtaken'
  BY <1>3 DEF Load, Move
<1>4. ASSUME NEW g \in Callers, Swap(g) PROVE StampHasLine' /\ Overtaken'
  <2>1. LineIsOwed'
    BY <1>4 DEF Swap, Move
  <2>2. QED
    BY <2>1
<1>5. ASSUME NEW g \in Callers, LogLine(g) PROVE StampHasLine' /\ Overtaken'
  BY <1>5 DEF LogLine, Move
<1>6. ASSUME NEW g \in Callers, Skip(g) PROVE StampHasLine' /\ Overtaken'
  BY <1>6 DEF Skip, Move
<1>7. CASE UNCHANGED logVars
  BY <1>7 DEF logVars
<1>8. QED
  BY <1>1, <1>2, <1>3, <1>4, <1>5, <1>6, <1>7 DEF LogNext

(***************************************************************************)
(* An error is left out only beside a line that was written or that is     *)
(* about to be (server.go:131-132), for any number of callers.             *)
(***************************************************************************)
THEOREM SkipsAlwaysJustified == LogSpec => SkipsAreJustified
<1>1. LogInit => SkipInv
  BY InitLogTypeOK DEF LogInit, SkipInv, StampHasLine, Overtaken
<1>2. SkipInv =>
        [\A g \in Callers : Skip(g) => now[g] - wrote < Interval \/ LineIsOwed]_logVars
  <2> SUFFICES ASSUME SkipInv, NEW g \in Callers, Skip(g), ~LineIsOwed
               PROVE  now[g] - wrote < Interval
    OBVIOUS
  <2> USE ErrorLogAssumption DEF SkipInv, LogTypeOK, StampHasLine, Overtaken
  <2>1. phase[g] = "deciding" /\ ~Swaps(g)
    BY DEF Skip, Move
  <2>2. CASE last[g] # lastErrLog
    BY <2>1, <2>2
  <2>3. CASE last[g] = lastErrLog
    BY <2>1, <2>3 DEF Swaps
  <2>4. QED
    BY <2>2, <2>3
<1>3. QED
  BY <1>1, <1>2, NextSkipInv, PTL DEF LogSpec, SkipsAreJustified

=============================================================================
