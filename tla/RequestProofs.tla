---------------------------- MODULE RequestProofs ----------------------------
(***************************************************************************)
(* Proofs about Validate and Request, for any environments, requests and   *)
(* widths.                                                                 *)
(*                                                                         *)
(* First Validate. That the advice is tight needs no look into JSONSize:   *)
(* the binary search is right for any function of the limit. That it names *)
(* the largest limit, and that the size is exact, rests on SizeProofs.     *)
(* Then the handler, which runs Validate as its specification allows, so   *)
(* these theorems hold of it too; and what it answers is decided by the    *)
(* first fault of the request.                                             *)
(***************************************************************************)
EXTENDS Request, SizeProofs

(***************************************************************************)
(* The loop invariant of sort.Search: the limit i fits, the limit j + 1    *)
(* does not, and the request itself is too large.                          *)
(***************************************************************************)
SearchInv ==
    /\ pc \in {"idle", "check"} => fault = "none" /\ i = 0 /\ j = 0
    /\ pc = "search" => fault = "size"
    /\ pc \in {"search", "done"} => fault = Verdict(p, lim)
    /\ pc = "done" /\ fault = "size" => named = i /\ i = j
    /\ fault = "size" =>
          /\ Verdict(p, lim) = "size"
          /\ i > 0 => ~TooLarge(WithLimit(p, i), lim.MaxResponseBytes)
          /\ j < p.limit => TooLarge(WithLimit(p, j + 1), lim.MaxResponseBytes)

IInv == TypeOK /\ SearchInv

(***************************************************************************)
(* Half of a sum lies between its terms, below the larger one.             *)
(***************************************************************************)
LEMMA HalfLies ==
    ASSUME NEW x \in Nat, NEW y \in Nat, x < y
    PROVE  (x + y) \div 2 \in Nat /\ x <= (x + y) \div 2 /\ (x + y) \div 2 < y
BY SMT

(***************************************************************************)
(* Validate with another limit sees the same request otherwise             *)
(* (largestLimit assigns p.Limit in its own copy of p).                    *)
(***************************************************************************)
LEMMA OtherLimit ==
    ASSUME NEW q \in Requests, NEW l \in Int
    PROVE  /\ WithLimit(q, l).limit = l
           /\ WithLimit(q, l).int1 = q.int1
           /\ WithLimit(q, l).int2 = q.int2
           /\ WithLimit(q, l).str1 = q.str1
           /\ WithLimit(q, l).str2 = q.str2
           /\ WithLimit(q, q.limit) = q
BY ValidateAssumption DEF WithLimit

(***************************************************************************)
(* A request whose only fault is its size.                                 *)
(***************************************************************************)
LEMMA OnlyTooLarge ==
    ASSUME NEW q \in Requests, NEW l \in Limits, Verdict(q, l) = "size"
    PROVE  /\ q.int1 >= 1 /\ q.int2 >= 1
           /\ q.limit >= 1 /\ q.limit <= l.MaxLimit
           /\ ~BadStr(q.str1, l.MaxStrBytes) /\ ~BadStr(q.str2, l.MaxStrBytes)
           /\ TooLarge(q, l.MaxResponseBytes)
BY ValidateAssumption DEF Verdict

LEMMA InitInv == Init => IInv
BY DEF Init, IInv, TypeOK, SearchInv

LEMMA NextInv == IInv /\ [Next]_vars => IInv'
<1> SUFFICES ASSUME IInv, [Next]_vars PROVE IInv'
  OBVIOUS
<1> USE DEF IInv, TypeOK, SearchInv
<1>t. p.limit \in Int
  BY ValidateAssumption
<1>1. CASE Check
  <2>1. /\ p' = p /\ lim' = lim /\ i' = 0 /\ named' = named
        /\ fault' = Verdict(p, lim)
    BY <1>1 DEF Check
  <2>2. fault' \in {"none", "int1", "int2", "limit", "str1", "str2", "size"}
    BY <2>1 DEF Verdict
  <2>3. CASE fault' = "size"
    <3>1. pc' = "search" /\ j' = p.limit
      BY <1>1, <2>3 DEF Check, SearchRange
    <3>2. p.limit >= 1
      BY <2>1, <2>3, OnlyTooLarge
    <3> QED
      BY <1>t, <2>1, <2>2, <2>3, <3>1, <3>2
  <2>4. CASE fault' # "size"
    <3>1. pc' = "done" /\ j' = 0
      BY <1>1, <2>4 DEF Check
    <3> QED
      BY <2>1, <2>2, <2>4, <3>1
  <2> QED
    BY <2>3, <2>4
<1>2. CASE Probe
  <2> DEFINE h == (i + j) \div 2
  <2>1. /\ pc = "search" /\ i < j
        /\ p' = p /\ lim' = lim /\ pc' = pc /\ fault' = fault /\ named' = named
        /\ fault = "size"
    BY <1>2 DEF Probe
  <2>2. h \in Nat /\ i <= h /\ h < j
    BY <2>1, HalfLies
  <2>3. CASE Probes(h)
    <3>1. j' = h /\ i' = i
      BY <1>2, <2>3 DEF Probe
    <3>2. TooLarge(WithLimit(p, j' + 1), lim.MaxResponseBytes)
      BY <2>3, <3>1 DEF Probes
    <3> HIDE DEF h
    <3> QED
      BY <1>t, <2>1, <2>2, <3>1, <3>2
  <2>4. CASE ~Probes(h)
    <3>1. i' = h + 1 /\ j' = j
      BY <1>2, <2>4 DEF Probe
    <3>2. ~TooLarge(WithLimit(p, i'), lim.MaxResponseBytes)
      BY <2>4, <3>1 DEF Probes
    <3> HIDE DEF h
    <3> QED
      BY <1>t, <2>1, <2>2, <3>1, <3>2
  <2> QED
    BY <2>3, <2>4
<1>3. CASE SearchEnds
  BY <1>3 DEF SearchEnds
<1>4. CASE UNCHANGED vars
  BY <1>4 DEF vars
<1>5. ASSUME NEW q \in Requests, Call(q) PROVE IInv'
  BY <1>5 DEF Call
<1> QED
  BY <1>1, <1>2, <1>3, <1>4, <1>5 DEF Next

LEMMA Invariance == Spec => []IInv
<1>1. Init => IInv
  BY InitInv
<1>2. IInv /\ [Next]_vars => IInv'
  BY NextInv
<1> QED
  BY <1>1, <1>2, PTL DEF Spec

(***************************************************************************)
(* The types of Validate: in particular, the search never leaves the range *)
(* of limits between 0 and the limit of the request.                       *)
(***************************************************************************)
THEOREM TypeCorrect == Spec => []TypeOK
<1>1. IInv => TypeOK
  BY DEF IInv
<1> QED
  BY <1>1, Invariance, PTL

(***************************************************************************)
(* When the search has ended, its bounds are the largest limit that was    *)
(* seen to fit and the smallest that was seen not to fit.                  *)
(***************************************************************************)
LEMMA SearchIsTight == IInv => AdviceIsTight
<1> SUFFICES ASSUME IInv, pc = "done", fault = "size"
             PROVE  /\ named < p.limit
                    /\ named > 0 => Verdict(WithLimit(p, named), lim) = "none"
                    /\ Verdict(WithLimit(p, named + 1), lim) = "size"
  BY DEF AdviceIsTight
<1> USE DEF IInv, TypeOK, SearchInv
<1>1. /\ named = i /\ i = j /\ named \in Nat
      /\ p \in Requests /\ lim \in Limits
      /\ Verdict(p, lim) = "size"
  OBVIOUS
<1>2. p.limit \in Int /\ p.int1 \in Int /\ p.int2 \in Int /\ lim.MaxLimit \in Int
  BY <1>1, ValidateAssumption
<1>3. /\ p.int1 >= 1 /\ p.int2 >= 1
      /\ p.limit >= 1 /\ p.limit <= lim.MaxLimit
      /\ ~BadStr(p.str1, lim.MaxStrBytes) /\ ~BadStr(p.str2, lim.MaxStrBytes)
      /\ TooLarge(p, lim.MaxResponseBytes)
  BY <1>1, OnlyTooLarge
<1>4. named < p.limit
  <2>1. SUFFICES ASSUME named = p.limit PROVE FALSE
    BY <1>1, <1>2
  <2>2. ~TooLarge(WithLimit(p, p.limit), lim.MaxResponseBytes)
    BY <1>1, <1>2, <1>3, <2>1
  <2>3. WithLimit(p, p.limit) = p
    BY <1>1, <1>2, OtherLimit
  <2> QED
    BY <1>3, <2>2, <2>3
<1>5. ASSUME named > 0 PROVE Verdict(WithLimit(p, named), lim) = "none"
  <2>1. ~TooLarge(WithLimit(p, named), lim.MaxResponseBytes)
    BY <1>1, <1>5
  <2> QED
    BY <1>1, <1>2, <1>3, <1>4, <1>5, <2>1, OtherLimit DEF Verdict
<1>6. Verdict(WithLimit(p, named + 1), lim) = "size"
  <2>1. TooLarge(WithLimit(p, named + 1), lim.MaxResponseBytes)
    BY <1>1, <1>2, <1>4
  <2> QED
    BY <1>1, <1>2, <1>3, <1>4, <2>1, OtherLimit DEF Verdict
<1> QED
  BY <1>4, <1>5, <1>6

(***************************************************************************)
(* Whoever follows the advice of the message succeeds, and one more is too *)
(* much (largestLimit, params.go).                                         *)
(***************************************************************************)
THEOREM AdviceAlwaysTight == Spec => []AdviceIsTight
<1>1. IInv => AdviceIsTight
  BY SearchIsTight
<1> QED
  BY <1>1, Invariance, PTL

(***************************************************************************)
(* A request without a fault before its size is one that newPlan may get.  *)
(***************************************************************************)
LEMMA ValidUntilSize ==
    ASSUME NEW q \in Requests, NEW l \in Limits, Verdict(q, l) \in {"none", "size"}
    PROVE  /\ ValidParams(q)
           /\ q.limit <= l.MaxLimit
           /\ ~BadStr(q.str1, l.MaxStrBytes) /\ ~BadStr(q.str2, l.MaxStrBytes)
           /\ Verdict(q, l) = IF TooLarge(q, l.MaxResponseBytes) THEN "size" ELSE "none"
<1>1. /\ q.int1 >= 1 /\ q.int2 >= 1 /\ ~(q.limit < 1 \/ q.limit > l.MaxLimit)
      /\ ~BadStr(q.str1, l.MaxStrBytes) /\ ~BadStr(q.str2, l.MaxStrBytes)
      /\ Verdict(q, l) = IF TooLarge(q, l.MaxResponseBytes) THEN "size" ELSE "none"
  BY ValidateAssumption DEF Verdict
<1>2. /\ q.int1 \in Int /\ q.int2 \in Int /\ q.limit \in -MaxInt .. MaxInt
      /\ q.str1.code \in Nat /\ q.str2.code \in Nat
      /\ l.MaxLimit \in Int /\ MaxInt \in Nat
  BY ValidateAssumption DEF Texts
<1> QED
  BY <1>1, <1>2 DEF ValidParams

(***************************************************************************)
(* The size that Validate compares and the handler announces is the length *)
(* of the response, element by element: for divisors and limits up to the  *)
(* largest int, whose common multiple and widths overflow ("exactly        *)
(* JSONSize(p)", write.go:111).                                            *)
(***************************************************************************)
THEOREM SizeIsAlwaysExact == Spec => []SizeIsExact
<1>1. IInv => SizeIsExact
  <2> SUFFICES ASSUME IInv, pc = "done", fault \in {"none", "size"}
               PROVE  JSONSize(p) = ListBytes(newPlan(p), 1, p.limit) + 1
    BY DEF SizeIsExact
  <2>1. p \in Requests /\ lim \in Limits /\ fault = Verdict(p, lim)
    BY DEF IInv, TypeOK, SearchInv
  <2>2. ValidParams(p)
    BY <2>1, ValidUntilSize
  <2> QED
    BY <2>2, ValidateAssumption, JSONSizeIsExact
<1> QED
  BY <1>1, Invariance, PTL

(***************************************************************************)
(* "largestLimit returns the largest limit below p.Limit whose response    *)
(* fits, or 0" (params.go:64), and the message says "use a limit of %d or  *)
(* less": of the limits up to that of the request, exactly those up to the *)
(* suggested one are valid. No test of single limits shows this: the       *)
(* search looks at about 24 of them.                                       *)
(***************************************************************************)
AdviceIsLargest ==
    pc = "done" /\ fault = "size" =>
        \A n \in 1..p.limit : Verdict(WithLimit(p, n), lim) = "none" <=> n <= named

LEMMA OtherLimitValid ==
    ASSUME NEW q \in Requests, NEW l \in Limits, Verdict(q, l) = "size",
           NEW n \in 1..q.limit
    PROVE  /\ ValidParams(WithLimit(q, n))
           /\ Verdict(WithLimit(q, n), l) =
                IF TooLarge(WithLimit(q, n), l.MaxResponseBytes) THEN "size" ELSE "none"
<1> DEFINE r == WithLimit(q, n)
<1>1. /\ ValidParams(q) /\ q.limit <= l.MaxLimit
      /\ ~BadStr(q.str1, l.MaxStrBytes) /\ ~BadStr(q.str2, l.MaxStrBytes)
  BY ValidUntilSize
<1>2. /\ r.int1 = q.int1 /\ r.int2 = q.int2 /\ r.limit = n
      /\ r.str1 = q.str1 /\ r.str2 = q.str2
  <2>1. n \in Int
    BY <1>1 DEF ValidParams
  <2> QED
    BY <2>1, OtherLimit
<1>3. q.limit \in Int /\ MaxInt \in Nat /\ l.MaxLimit \in Int
  BY <1>1, ValidateAssumption DEF ValidParams
<1> HIDE DEF r
<1>4. ValidParams(r)
  BY <1>1, <1>2, <1>3 DEF ValidParams
<1>5. n >= 1 /\ n <= l.MaxLimit /\ n \in Int
  BY <1>1, <1>3
<1>6. ~(r.int1 < 1) /\ ~(r.int2 < 1) /\ ~(r.limit < 1 \/ r.limit > l.MaxLimit)
  BY <1>1, <1>2, <1>3, <1>5 DEF ValidParams
<1>7. Verdict(r, l) = IF TooLarge(r, l.MaxResponseBytes) THEN "size" ELSE "none"
  BY <1>1, <1>2, <1>6 DEF Verdict
<1> QED
  BY <1>4, <1>7 DEF r

THEOREM AdviceAlwaysLargest == Spec => []AdviceIsLargest
<1>1. IInv => AdviceIsLargest
  <2> SUFFICES ASSUME IInv, pc = "done", fault = "size", NEW n \in 1..p.limit
               PROVE  Verdict(WithLimit(p, n), lim) = "none" <=> n <= named
    BY DEF AdviceIsLargest
  <2>1. /\ p \in Requests /\ lim \in Limits /\ Verdict(p, lim) = "size"
        /\ named \in Nat
    BY DEF IInv, TypeOK, SearchInv
  <2>2. /\ named < p.limit
        /\ named > 0 => Verdict(WithLimit(p, named), lim) = "none"
        /\ Verdict(WithLimit(p, named + 1), lim) = "size"
    BY SearchIsTight DEF AdviceIsTight
  <2>3. p.limit \in Int /\ lim.MaxResponseBytes \in Int /\ MaxInt \in Nat \ {0}
    BY <2>1, ValidateAssumption
  <2> DEFINE size(k) == JSONSize(WithLimit(p, k))
             max == lim.MaxResponseBytes
  <2>4. ASSUME NEW k \in 1..p.limit
        PROVE  size(k) \in Nat /\ (Verdict(WithLimit(p, k), lim) = "none" <=> size(k) <= max)
    <3>1. /\ ValidParams(WithLimit(p, k))
          /\ Verdict(WithLimit(p, k), lim) =
               IF TooLarge(WithLimit(p, k), max) THEN "size" ELSE "none"
      BY <2>1, OtherLimitValid
    <3>2. size(k) \in Nat
      BY <2>3, <3>1, JSONSizeIsNat
    <3>3. TooLarge(WithLimit(p, k), max) <=> ~(size(k) <= max)
      BY <2>3, <3>2 DEF TooLarge
    <3> QED
      BY <3>1, <3>2, <3>3
  <2>5. ASSUME NEW k \in 1..p.limit, NEW m \in 1..p.limit, k <= m
        PROVE  size(k) <= size(m)
    <3> DEFINE q == WithLimit(p, k)
               r == WithLimit(p, m)
    <3>1. ValidParams(q) /\ ValidParams(r)
      BY <2>1, OtherLimitValid
    <3>2. /\ q.int1 = r.int1 /\ q.int2 = r.int2 /\ q.str1 = r.str1 /\ q.str2 = r.str2
          /\ q.limit = k /\ r.limit = m
      BY <2>1, <2>3, OtherLimit
    <3> HIDE DEF q, r
    <3>3. JSONSize(q) <= JSONSize(r)
      BY <2>3, <2>5, <3>1, <3>2, JSONSizeGrows
    <3> QED
      BY <3>3 DEF q, r
  <2> HIDE DEF size, max
  <2>6. max \in Int
    BY <2>3 DEF max
  <2>7. CASE n <= named
    <3>1. named \in 1..p.limit /\ named > 0
      BY <2>1, <2>2, <2>3, <2>7
    <3>2. size(named) <= max /\ size(named) \in Nat
      BY <2>2, <2>4, <3>1
    <3>3. size(n) <= size(named) /\ size(n) \in Nat
      BY <2>4, <2>5, <2>7, <3>1
    <3>4. size(n) <= max
      BY <2>6, <3>2, <3>3
    <3> QED
      BY <2>4, <2>7, <3>4
  <2>8. CASE ~(n <= named)
    <3>1. named + 1 \in 1..p.limit /\ named + 1 <= n
      BY <2>1, <2>2, <2>3, <2>8
    <3>2. ~(size(named + 1) <= max) /\ size(named + 1) \in Nat
      BY <2>2, <2>4, <3>1
    <3>3. size(named + 1) <= size(n) /\ size(n) \in Nat
      BY <2>4, <2>5, <3>1
    <3>4. ~(size(n) <= max)
      BY <2>6, <3>2, <3>3
    <3> QED
      BY <2>4, <2>8, <3>4
  <2> QED
    BY <2>7, <2>8
<1> QED
  BY <1>1, Invariance, PTL

-----------------------------------------------------------------------------
(***************************************************************************)
(*                              The handler                                *)
(***************************************************************************)

Fields == {"int1", "int2", "limit", "str1", "str2"}

(***************************************************************************)
(* Validate sees the parsed request, and its verdict does not change while *)
(* the search for the advice runs.                                         *)
(***************************************************************************)
Sees ==
    /\ step = "refused" <=> Problems(env) # {}
    /\ lim = LimitsOf(conf)
    /\ step \in {"refused", "received"} => pc = "idle"
    /\ step = "validating" => pc # "idle"
    /\ pc \in {"check", "search"} => step = "validating"
    /\ pc \in {"idle", "check"} => fault = "none"
    /\ pc # "idle" =>
          /\ Rejection(raw)[1] = 0
          /\ SyntaxFault(RawQuery(raw)) = "none"
          /\ p = ParamsOf(RawQuery(raw))
    /\ pc \in {"search", "done"} => fault = Verdict(p, lim)

(***************************************************************************)
(* Why an answer is what it is.                                            *)
(***************************************************************************)
Explains ==
    /\ step \in {"refused", "received", "validating"} => status = 0 /\ blamed = "none"
    /\ step \in {"refused", "received", "validating", "answered"}
    /\ step = "answered" =>
          \/ /\ pc = "idle" /\ Rejection(raw)[1] # 0
             /\ status = Rejection(raw)[1] /\ blamed = Rejection(raw)[2]
          \/ /\ pc = "idle" /\ Rejection(raw)[1] = 0
             /\ status = 400 /\ blamed = SyntaxFault(RawQuery(raw)) /\ blamed # "none"
          \/ /\ pc = "done" /\ fault # "none"
             /\ status = 400 /\ blamed = (IF fault = "size" THEN "limit" ELSE fault)
          \/ pc = "done" /\ fault = "none" /\ status = 200 /\ blamed = "none"

Constant == env \in Environments /\ raw \in RawRequests

RInv == Constant /\ Sees /\ Explains

LEMMA Rejections ==
    \/ Rejection(raw) = <<0, "none">>
    \/ Rejection(raw) = <<415, "Content-Type">>
    \/ Rejection(raw) = <<413, "body">>
    \/ Rejection(raw) = <<400, "body">>
BY DEF Rejection

LEMMA Faults ==
    ASSUME NEW q PROVE SyntaxFault(q) \in Fields \cup {"none", "query"}
BY DEF SyntaxFault, Fields

LEMMA Verdicts ==
    ASSUME NEW q, NEW l PROVE Verdict(q, l) \in Fields \cup {"none", "size"}
BY DEF Verdict, Fields

LEMMA RInitInv == RequestInit => RInv
BY DEF RequestInit, Init, RInv, Constant, Sees, Explains

LEMMA RNextInv == RInv /\ [RequestNext]_allVars => RInv'
<1> SUFFICES ASSUME RInv, [RequestNext]_allVars PROVE RInv'
  OBVIOUS
<1> USE DEF RInv, Constant
<1>1. CASE Reject
  <2>1. /\ pc = "idle" /\ step = "received" /\ step' = "answered"
        /\ UNCHANGED <<env, raw, p, lim, pc, fault>>
        /\ Rejection(raw)[1] # 0
        /\ status' = Rejection(raw)[1] /\ blamed' = Rejection(raw)[2]
    BY <1>1 DEF Reject, Answer, vars, Sees
  <2>2. Sees'
    BY <2>1 DEF Sees, conf
  <2>3. Explains'
    BY <2>1 DEF Explains
  <2> QED
    BY <2>1, <2>2, <2>3
<1>2. CASE Parse
  <2> DEFINE q == RawQuery(raw)
  <2>1. /\ pc = "idle" /\ step = "received" /\ Rejection(raw)[1] = 0
        /\ UNCHANGED <<env, raw>>
    BY <1>2 DEF Parse, Sees
  <2>2. CASE SyntaxFault(q) = "none" /\ Call(ParamsOf(q))
             /\ step' = "validating" /\ UNCHANGED <<status, blamed>>
    <3>1. /\ p' = ParamsOf(q) /\ pc' = "check" /\ fault' = fault /\ lim' = lim
      BY <2>2 DEF Call
    <3>2. Explains'
      BY <2>1, <2>2, <3>1 DEF Explains
    <3>3. Sees'
      BY <2>1, <2>2, <3>1 DEF Sees, conf
    <3> QED
      BY <2>1, <3>2, <3>3
  <2>3. CASE /\ SyntaxFault(q) # "none" /\ step' = "answered"
             /\ status' = 400 /\ blamed' = SyntaxFault(q) /\ UNCHANGED vars
    <3>1. UNCHANGED <<p, lim, pc, fault>>
      BY <2>3 DEF vars
    <3>2. Explains'
      BY <2>1, <2>3, <3>1 DEF Explains
    <3>3. Sees'
      BY <2>1, <2>3, <3>1 DEF Sees, conf
    <3> QED
      BY <2>1, <3>2, <3>3
  <2> QED
    BY <1>2, <2>2, <2>3 DEF Parse, Answer
<1>3. CASE Validates
  <2>1. UNCHANGED <<env, raw, step, status, blamed, p, lim>>
    BY <1>3 DEF Validates, requestVars, Check, Probe, SearchEnds
  <2>2. pc \in {"check", "search"} /\ pc' \in {"search", "done"}
        /\ fault' = Verdict(p, lim)
    BY <1>3 DEF Validates, Check, Probe, SearchEnds, Sees
  <2>3. Sees'
    BY <2>1, <2>2 DEF Sees, conf
  <2>4. Explains'
    BY <2>1, <2>2 DEF Sees, Explains
  <2> QED
    BY <2>1, <2>3, <2>4
<1>4. CASE Responds
  <2>1. /\ step = "validating" /\ pc = "done" /\ step' = "answered"
        /\ UNCHANGED <<env, raw, p, lim, pc, fault>>
        /\ IF fault = "none" THEN status' = 200 /\ blamed' = "none"
           ELSE status' = 400 /\ blamed' = IF fault = "size" THEN "limit" ELSE fault
    BY <1>4 DEF Responds, Answer, vars
  <2>2. Sees'
    BY <2>1 DEF Sees, conf
  <2>3. Explains'
    BY <2>1 DEF Explains
  <2> QED
    BY <2>1, <2>2, <2>3
<1>5. CASE UNCHANGED allVars
  BY <1>5 DEF allVars, vars, requestVars, Sees, Explains, conf
<1> QED
  BY <1>1, <1>2, <1>3, <1>4, <1>5 DEF RequestNext

LEMMA RInvariance == RequestSpec => []RInv
<1>1. RequestInit => RInv
  BY RInitInv
<1>2. RInv /\ [RequestNext]_allVars => RInv'
  BY RNextInv
<1> QED
  BY <1>1, <1>2, PTL DEF RequestSpec

(***************************************************************************)
(* The handler calls Validate one time, with params it may get, and does   *)
(* not touch what Validate keeps (server.go:50-55).                        *)
(***************************************************************************)
THEOREM RequestUsesValidate == RequestSpec => Spec
<1>1. RequestInit => Init
  BY DEF RequestInit
<1>2. RInv /\ [RequestNext]_allVars => [Next]_vars
  <2> SUFFICES ASSUME RInv, RequestNext PROVE [Next]_vars
    BY DEF allVars, vars
  <2>1. CASE Reject
    BY <2>1 DEF Reject
  <2>2. CASE Parse
    <3>1. SyntaxFault(RawQuery(raw)) = "none" => ParamsOf(RawQuery(raw)) \in Requests
      BY RequestAssumption DEF RInv, Constant
    <3> QED
      BY <2>2, <3>1 DEF Parse, Next
  <2>3. CASE Validates
    BY <2>3 DEF Validates, Next
  <2>4. CASE Responds
    BY <2>4 DEF Responds
  <2> QED
    BY <2>1, <2>2, <2>3, <2>4 DEF RequestNext
<1> QED
  BY <1>1, <1>2, RInvariance, PTL DEF RequestSpec, Spec

(***************************************************************************)
(* So the advice in an error of the handler is tight and names the largest *)
(* limit, and the size it computes is exact, for all requests it receives. *)
(***************************************************************************)
THEOREM RequestAdviceIsTight ==
    RequestSpec => []AdviceIsTight /\ []AdviceIsLargest /\ []SizeIsExact
BY RequestUsesValidate, AdviceAlwaysTight, AdviceAlwaysLargest, SizeIsAlwaysExact, PTL

(***************************************************************************)
(* The types and the phases of Request.                                    *)
(***************************************************************************)
THEOREM RequestTypeCorrect == RequestSpec => []RequestTypeOK
<1>1. RInv => RequestTypeOK
  <2> SUFFICES ASSUME RInv PROVE RequestTypeOK
    OBVIOUS
  <2>1. fault = Verdict(p, lim) \/ pc # "done"
    BY DEF RInv, Sees
  <2>2. fault \in Fields \cup {"none", "size"} \/ pc # "done"
    BY <2>1, Verdicts
  <2>3. SyntaxFault(RawQuery(raw)) \in Fields \cup {"none", "query"}
    BY Faults
  <2>4. /\ step # "answered" <=> status = 0
        /\ status \in {0, 200} <=> blamed = "none"
        /\ status \in {0, 200, 400, 413, 415}
        /\ blamed \in Fields \cup {"none", "Content-Type", "body", "query"}
    BY <2>2, <2>3, Rejections DEF RInv, Explains, Fields
  <2> QED
    BY <2>4 DEF RInv, Sees, Explains, RequestTypeOK, Fields
<1> QED
  BY <1>1, RInvariance, PTL

-----------------------------------------------------------------------------
(***************************************************************************)
(* The positions in Order, and the first of a set of positions.            *)
(***************************************************************************)
FirstOf(S, name) == \E k \in S : Order[k] = name /\ \A m \in S : k <= m

LEMMA Positions ==
    /\ DOMAIN Order = 1..5
    /\ Order[1] = "int1" /\ Order[2] = "int2" /\ Order[3] = "limit"
    /\ Order[4] = "str1" /\ Order[5] = "str2"
BY DEF Order

LEMMA FirstPosition ==
    ASSUME NEW S, S \subseteq 1..5, NEW k \in S, \A m \in 1..5 : m < k => m \notin S
    PROVE  FirstOf(S, Order[k])
<1>1. \A m \in S : k <= m
  OBVIOUS
<1> QED
  BY <1>1 DEF FirstOf

(***************************************************************************)
(* parseParams names the first parameter it cannot read.                   *)
(***************************************************************************)
LEMMA CannotRead ==
    ASSUME NEW q
    PROVE  Unreadable(q) = {k \in 1..5 : ~Reads(q, Order[k])}
<1>1. \A k \in 1..5 : Integral(Order[k]) <=> k <= 3
  <2> TAKE k \in 1..5
  <2>1. k = 1 \/ k = 2 \/ k = 3 \/ k = 4 \/ k = 5
    OBVIOUS
  <2> QED
    BY <2>1, Positions DEF Integral
<1> QED
  BY <1>1, Positions DEF Unreadable, Reads, First

LEMMA ParseBlamesFirst ==
    ASSUME NEW q, ~q.malformed
    PROVE  IF SyntaxFault(q) = "none" THEN Unreadable(q) = {}
           ELSE FirstOf(Unreadable(q), SyntaxFault(q))
<1> DEFINE U == Unreadable(q)
<1>1. \A k \in 1..5 : k \in U <=> ~Reads(q, Order[k])
  BY CannotRead
<1>2. U \subseteq 1..5
  BY CannotRead
<1>3. /\ 1 \in U <=> ~Reads(q, "int1")
      /\ 2 \in U <=> ~Reads(q, "int2")
      /\ 3 \in U <=> ~Reads(q, "limit")
      /\ 4 \in U <=> ~Reads(q, "str1")
      /\ 5 \in U <=> ~Reads(q, "str2")
  BY <1>1, Positions
<1> HIDE DEF U
<1>4. ASSUME NEW k \in U, \A m \in 1..5 : m < k => m \notin U
      PROVE  FirstOf(U, Order[k])
  BY <1>2, <1>4, FirstPosition
<1>5. CASE 1 \in U
  BY <1>3, <1>4, <1>5, Positions DEF SyntaxFault, U
<1>6. CASE 1 \notin U /\ 2 \in U
  BY <1>3, <1>4, <1>6, Positions DEF SyntaxFault, U
<1>7. CASE 1 \notin U /\ 2 \notin U /\ 3 \in U
  BY <1>3, <1>4, <1>7, Positions DEF SyntaxFault, U
<1>8. CASE 1 \notin U /\ 2 \notin U /\ 3 \notin U /\ 4 \in U
  BY <1>3, <1>4, <1>8, Positions DEF SyntaxFault, U
<1>9. CASE 1 \notin U /\ 2 \notin U /\ 3 \notin U /\ 4 \notin U /\ 5 \in U
  BY <1>3, <1>4, <1>9, Positions DEF SyntaxFault, U
<1>10. CASE 1 \notin U /\ 2 \notin U /\ 3 \notin U /\ 4 \notin U /\ 5 \notin U
  <2>1. U = {}
    BY <1>2, <1>10
  <2> QED
    BY <1>3, <1>10, <2>1 DEF SyntaxFault, U
<1> QED
  BY <1>5, <1>6, <1>7, <1>8, <1>9, <1>10

(***************************************************************************)
(* Validate names the first parameter that is out of range.                *)
(***************************************************************************)
LEMMA ValidateBlamesFirst ==
    ASSUME NEW q, ParamsOf(q) \in Requests, lim \in Limits
    PROVE  IF Verdict(ParamsOf(q), lim) \in {"none", "size"} THEN OutOfRange(q) = {}
           ELSE FirstOf(OutOfRange(q), Verdict(ParamsOf(q), lim))
<1> DEFINE r == ParamsOf(q)
           R == OutOfRange(q)
<1>1. /\ r.int1 \in Int /\ r.int2 \in Int /\ r.limit \in Int
      /\ r.str1.bytes \in Nat /\ r.str2.bytes \in Nat
      /\ lim.MaxLimit \in Int /\ lim.MaxStrBytes \in Int
  BY ValidateAssumption DEF Texts
<1>2. /\ r.int1 = First(q, "int1").n /\ r.int2 = First(q, "int2").n
      /\ r.limit = First(q, "limit").n
      /\ r.str1 = First(q, "str1").text /\ r.str2 = First(q, "str2").text
  BY DEF ParamsOf
<1>3. /\ 1 \in R <=> r.int1 < 1
      /\ 2 \in R <=> r.int2 < 1
      /\ 3 \in R <=> r.limit < 1 \/ r.limit > lim.MaxLimit
      /\ R \subseteq 1..5
  BY <1>2, Positions DEF OutOfRange
<1>4. /\ 4 \in R <=> BadStr(r.str1, lim.MaxStrBytes)
      /\ 5 \in R <=> BadStr(r.str2, lim.MaxStrBytes)
  BY <1>1, <1>2, Positions DEF OutOfRange, BadStr
<1> HIDE DEF R, r
<1>5. ASSUME NEW k \in R, \A m \in 1..5 : m < k => m \notin R
      PROVE  FirstOf(R, Order[k])
  BY <1>3, <1>5, FirstPosition
<1> DEFINE v == Verdict(r, lim)
<1>6. CASE 1 \in R
  <2>1. v = "int1"
    BY <1>3, <1>6 DEF Verdict
  <2> QED
    BY <1>5, <1>6, <2>1, Positions DEF R, r
<1>7. CASE 1 \notin R /\ 2 \in R
  <2>1. v = "int2"
    BY <1>3, <1>7 DEF Verdict
  <2> QED
    BY <1>5, <1>7, <2>1, Positions DEF R, r
<1>8. CASE 1 \notin R /\ 2 \notin R /\ 3 \in R
  <2>1. v = "limit"
    BY <1>3, <1>8 DEF Verdict
  <2> QED
    BY <1>5, <1>8, <2>1, Positions DEF R, r
<1>9. CASE 1 \notin R /\ 2 \notin R /\ 3 \notin R /\ 4 \in R
  <2>1. v = "str1"
    BY <1>3, <1>4, <1>9 DEF Verdict
  <2> QED
    BY <1>5, <1>9, <2>1, Positions DEF R, r
<1>10. CASE 1 \notin R /\ 2 \notin R /\ 3 \notin R /\ 4 \notin R /\ 5 \in R
  <2>1. v = "str2"
    BY <1>3, <1>4, <1>10 DEF Verdict
  <2> QED
    BY <1>5, <1>10, <2>1, Positions DEF R, r
<1>11. CASE 1 \notin R /\ 2 \notin R /\ 3 \notin R /\ 4 \notin R /\ 5 \notin R
  <2>1. R = {}
    BY <1>3, <1>11
  <2>2. v \in {"none", "size"}
    BY <1>3, <1>4, <1>11 DEF Verdict
  <2> QED
    BY <2>1, <2>2 DEF R, r
<1> QED
  BY <1>6, <1>7, <1>8, <1>9, <1>10, <1>11

(***************************************************************************)
(* The error names the first parameter that cannot be read, or else the    *)
(* first that is out of range (README.md:192), for GET and for QUERY.      *)
(***************************************************************************)
THEOREM BlameAlwaysFirst == RequestSpec => []BlameIsFirst
<1>1. RInv => BlameIsFirst
  <2> SUFFICES ASSUME RInv, status = 400, blamed # "body" PROVE BlameIsFirst
    BY DEF BlameIsFirst
  <2> DEFINE q == RawQuery(raw)
  <2>1. Given = q
    BY DEF Given, RawQuery
  <2>2. SyntaxFault(q) = "none" => ~q.malformed
    BY DEF SyntaxFault
  <2>3. CASE blamed = SyntaxFault(q) /\ blamed # "none"
    <3>1. CASE q.malformed
      BY <2>1, <2>3, <3>1 DEF BlameIsFirst, SyntaxFault
    <3>2. CASE ~q.malformed
      <4>1. FirstOf(Unreadable(q), blamed)
        BY <2>3, <3>2, ParseBlamesFirst
      <4>2. Unreadable(q) # {}
        BY <4>1 DEF FirstOf
      <4> QED
        BY <2>1, <3>2, <4>1, <4>2 DEF BlameIsFirst, FirstOf
    <3> QED
      BY <3>1, <3>2
  <2>4. CASE /\ pc = "done" /\ fault # "none"
             /\ blamed = (IF fault = "size" THEN "limit" ELSE fault)
    <3>1. /\ SyntaxFault(q) = "none" /\ p = ParamsOf(q) /\ fault = Verdict(p, lim)
          /\ lim = LimitsOf(conf)
      BY <2>4 DEF RInv, Sees
    <3>2. ParamsOf(q) \in Requests /\ lim \in Limits
      BY <3>1, RequestAssumption DEF RInv, Constant, conf
    <3>3. ~q.malformed /\ Unreadable(q) = {}
      BY <2>2, <3>1, ParseBlamesFirst
    <3>4. CASE fault = "size"
      <4>1. OutOfRange(q) = {}
        BY <3>1, <3>2, <3>4, ValidateBlamesFirst
      <4> QED
        BY <2>1, <2>4, <3>3, <3>4, <4>1 DEF BlameIsFirst
    <3>5. CASE fault # "size"
      <4>1. FirstOf(OutOfRange(q), blamed)
        BY <2>4, <3>1, <3>2, <3>5, ValidateBlamesFirst
      <4>2. OutOfRange(q) # {}
        BY <4>1 DEF FirstOf
      <4> QED
        BY <2>1, <3>3, <4>1, <4>2 DEF BlameIsFirst, FirstOf
    <3> QED
      BY <3>4, <3>5
  <2> QED
    BY <2>3, <2>4, Rejections DEF RInv, Explains
<1> QED
  BY <1>1, RInvariance, PTL

-----------------------------------------------------------------------------
(***************************************************************************)
(* What Validate has decided when the handler answers after it.            *)
(***************************************************************************)
LEMMA Decided ==
    ASSUME RInv, pc = "done"
    PROVE  /\ Rejection(raw)[1] = 0 /\ SyntaxFault(RawQuery(raw)) = "none"
           /\ p = ParamsOf(RawQuery(raw)) /\ p \in Requests
           /\ lim = LimitsOf(conf) /\ lim \in Limits
           /\ fault = Verdict(p, lim)
<1>1. /\ Rejection(raw)[1] = 0 /\ SyntaxFault(RawQuery(raw)) = "none"
      /\ p = ParamsOf(RawQuery(raw)) /\ lim = LimitsOf(conf) /\ fault = Verdict(p, lim)
  BY DEF RInv, Sees
<1>2. p \in Requests /\ lim \in Limits
  BY <1>1, RequestAssumption DEF RInv, Constant, conf
<1> QED
  BY <1>1, <1>2

(***************************************************************************)
(* Of the requests without another fault, Validate accepts those whose     *)
(* response, element by element, is not too long.                          *)
(***************************************************************************)
LEMMA AcceptedSize ==
    ASSUME RInv, pc = "done", fault \in {"none", "size"}
    PROVE  /\ p.limit \in 1..lim.MaxLimit
           /\ JSONSize(p) \in Nat
           /\ JSONSize(p) = ListBytes(newPlan(p), 1, p.limit) + 1
           /\ fault = "none" <=> JSONSize(p) <= lim.MaxResponseBytes
<1>1. p \in Requests /\ lim \in Limits /\ fault = Verdict(p, lim)
  BY Decided
<1>2. /\ ValidParams(p) /\ p.limit <= lim.MaxLimit
      /\ fault = IF TooLarge(p, lim.MaxResponseBytes) THEN "size" ELSE "none"
  BY <1>1, ValidUntilSize
<1>3. /\ JSONSize(p) \in Nat
      /\ JSONSize(p) = ListBytes(newPlan(p), 1, p.limit) + 1
  BY <1>2, ValidateAssumption, JSONSizeIsNat, JSONSizeIsExact
<1>4. lim.MaxResponseBytes \in Int /\ lim.MaxLimit \in Int
  BY <1>1, ValidateAssumption
<1>5. TooLarge(p, lim.MaxResponseBytes) <=> ~(JSONSize(p) <= lim.MaxResponseBytes)
  BY <1>3, <1>4 DEF TooLarge
<1>6. p.limit \in 1..lim.MaxLimit
  BY <1>2, <1>4 DEF ValidParams
<1> QED
  BY <1>2, <1>3, <1>5, <1>6

(***************************************************************************)
(* The handler answers 200 exactly to the requests of the README, whatever *)
(* was sent: one readable value for each parameter, in its range, and an   *)
(* array, counted element by element, of at most MAX_RESPONSE_BYTES.       *)
(***************************************************************************)
THEOREM AlwaysAcceptsExactlyValid == RequestSpec => []AcceptsExactlyValid
<1>1. RInv => AcceptsExactlyValid
  <2> DEFINE q == RawQuery(raw)
             Readable == raw.method = "QUERY" => raw.form /\ raw.body = "ok"
             Small == ListBytes(newPlan(p), 1, p.limit) + 1 <= conf["MAX_RESPONSE_BYTES"]
  <2> SUFFICES ASSUME RInv, step = "answered"
               PROVE  status = 200 <=>
                        /\ Readable /\ ~q.malformed
                        /\ Unreadable(q) = {} /\ OutOfRange(q) = {}
                        /\ p = ParamsOf(q) /\ Small
    BY DEF AcceptsExactlyValid, Given, RawQuery
  <2>1. raw.body \in {"ok", "big", "unreadable"}
    BY RequestAssumption DEF RInv, Constant
  <2>2. Readable <=> Rejection(raw)[1] = 0
    BY <2>1 DEF Rejection
  <2>3. CASE pc = "idle" /\ Rejection(raw)[1] # 0 /\ status = Rejection(raw)[1]
    <3>1. status # 200
      BY <2>3, Rejections
    <3> QED
      BY <2>2, <2>3, <3>1
  <2>4. CASE status = 400 /\ SyntaxFault(q) # "none"
    <3>1. ASSUME ~q.malformed PROVE Unreadable(q) # {}
      BY <2>4, <3>1, ParseBlamesFirst DEF FirstOf
    <3> QED
      BY <2>4, <3>1
  <2>5. CASE pc = "done" /\ (status = 200 <=> fault = "none")
    <3>1. /\ Readable /\ SyntaxFault(q) = "none" /\ p = ParamsOf(q)
          /\ ParamsOf(q) \in Requests
          /\ lim = LimitsOf(conf) /\ lim \in Limits /\ fault = Verdict(p, lim)
      BY <2>2, <2>5, Decided
    <3>2. ~q.malformed /\ Unreadable(q) = {}
      <4>1. ~q.malformed
        BY <3>1 DEF SyntaxFault
      <4> QED
        BY <3>1, <4>1, ParseBlamesFirst
    <3>3. OutOfRange(q) = {} <=> fault \in {"none", "size"}
      BY <3>1, ValidateBlamesFirst DEF FirstOf
    <3>4. lim.MaxResponseBytes = conf["MAX_RESPONSE_BYTES"]
      BY <3>1 DEF LimitsOf
    <3>5. ASSUME fault \in {"none", "size"} PROVE fault = "none" <=> Small
      BY <2>5, <3>4, <3>5, AcceptedSize
    <3> HIDE DEF Small, Readable, q
    <3> QED
      BY <2>5, <3>1, <3>2, <3>3, <3>5
  <2> QED
    BY <2>3, <2>4, <2>5 DEF RInv, Explains
<1> QED
  BY <1>1, RInvariance, PTL

(***************************************************************************)
(* A server that started can serve and count what it accepts: loadConfig   *)
(* refuses each environment in which it could not (config.go:86-99).       *)
(***************************************************************************)
THEOREM AcceptedAlwaysFits == RequestSpec => []AcceptedFits
<1>1. RInv => AcceptedFits
  <2> SUFFICES ASSUME RInv, status = 200 PROVE AcceptedFits
    BY DEF AcceptedFits
  <2>1. pc = "done" /\ fault = "none" /\ step = "answered"
    BY Rejections DEF RInv, Explains
  <2>2. Conflict(conf) = "none"
    BY <2>1 DEF RInv, Sees, Problems, conf
  <2>3. /\ conf["MAX_INFLIGHT_BYTES"] \in Int /\ conf["STATS_FLUSH_INTERVAL"] \in Int
        /\ conf["MAX_RESPONSE_BYTES"] \in Int /\ conf["MAX_LIMIT"] \in Int
        /\ lim.MaxResponseBytes = conf["MAX_RESPONSE_BYTES"]
        /\ lim.MaxLimit = conf["MAX_LIMIT"]
    <3>1. lim = LimitsOf(conf) /\ lim \in Limits
      BY <2>1, Decided
    <3>2. /\ lim.MaxResponseBytes = conf["MAX_RESPONSE_BYTES"]
          /\ lim.MaxLimit = conf["MAX_LIMIT"]
      BY <3>1 DEF LimitsOf
    <3>3. lim.MaxResponseBytes \in Int /\ lim.MaxLimit \in Int
      BY <3>1, ValidateAssumption
    <3>4. conf["MAX_INFLIGHT_BYTES"] \in Int /\ conf["STATS_FLUSH_INTERVAL"] \in Int
      BY RequestAssumption DEF RInv, Constant, conf
    <3> QED
      BY <3>2, <3>3, <3>4
  <2>4. /\ ~(conf["MAX_INFLIGHT_BYTES"] < conf["MAX_RESPONSE_BYTES"])
        /\ ~(conf["MAX_LIMIT"] > MaxUint32)
        /\ ~(conf["STATS_FLUSH_INTERVAL"] <= 0)
        /\ ~(conf["STATS_STORE"] = "redis" /\ conf["REDIS_ADDR"] = "")
    BY <2>2 DEF Conflict
  <2>5. /\ p.limit \in 1..conf["MAX_LIMIT"]
        /\ JSONSize(p) \in Nat /\ JSONSize(p) <= conf["MAX_RESPONSE_BYTES"]
    BY <2>1, <2>3, AcceptedSize
  <2> DEFINE most == conf["MAX_INFLIGHT_BYTES"]
             large == conf["MAX_RESPONSE_BYTES"]
             top == conf["MAX_LIMIT"]
             flush == conf["STATS_FLUSH_INTERVAL"]
  <2>6. /\ most \in Int /\ large \in Int /\ top \in Int /\ flush \in Int
        /\ ~(most < large) /\ ~(top > MaxUint32) /\ ~(flush <= 0)
        /\ p.limit \in 1..top /\ JSONSize(p) \in Nat /\ JSONSize(p) <= large
    BY <2>3, <2>4, <2>5
  <2> HIDE DEF most, large, top, flush
  <2>7. JSONSize(p) <= most /\ p.limit \in 1..MaxUint32 /\ flush > 0
    BY <2>6, ConfigAssumption
  <2> QED
    BY <2>4, <2>7 DEF AcceptedFits, most, flush
<1> QED
  BY <1>1, RInvariance, PTL

=============================================================================
