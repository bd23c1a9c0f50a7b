---------------------------- MODULE WebPageProofs ----------------------------
(***************************************************************************)
(* Proofs about WebPage, for any requests, responses and size of the map.  *)
(***************************************************************************)
EXTENDS WebPage, TLAPS

(***************************************************************************)
(* The phases of the runs around the one in progress. A run that waits for *)
(* the body of an error without being current has been aborted, and only   *)
(* runs that have started to read wait for frames.                         *)
(***************************************************************************)
Phases ==
    /\ \A r \in Runs : phase[r] = "new" <=> r > sent
    /\ current # 0 => phase[current] \in {"fetching", "erring", "reading"}
    /\ \A r \in Runs : phase[r] = "erring" => r = current \/ stale
    /\ \A r \in ticks : phase[r] \in {"reading", "done"}
    /\ lineRun # 0 => phase[lineRun] \notin {"new", "fetching"}
    /\ mapRun # 0 => phase[mapRun] \in {"reading", "done"}

(***************************************************************************)
(* What the counts of the map say of its elements, and when the status     *)
(* line may give a verdict about it.                                       *)
(***************************************************************************)
Counts ==
    LET r == mapRun
    IN  r # 0 =>
          /\ wrong = 0 => right
          /\ right /\ Distinct(form[r]) => wrong = 0
          /\ lineRun = r /\ lineText \in {"matches", "differs"} =>
                /\ phase[r] = "done"
                /\ lineText = "matches" <=> count = N(r) /\ wrong = 0

IInv == TypeOK /\ OneLiveRun /\ Phases /\ Counts /\ ShowsTheNewest

(***************************************************************************)
(* The tokenizer's class of an element is the wanted one only if the       *)
(* element follows the rule; and if the strings differ and are not         *)
(* numbers, whenever it does.                                              *)
(***************************************************************************)
LEMMA LongerText ==
    ASSUME NEW s \in Seq(STRING) \ {<<>>}, NEW t \in Seq(STRING) \ {<<>>}
    PROVE  s \o t # s /\ s \o t # t
<1>1. Len(s) \in Nat /\ Len(t) \in Nat /\ Len(s) > 0 /\ Len(t) > 0
  OBVIOUS
<1>2. Len(s \o t) = Len(s) + Len(t)
  OBVIOUS
<1> QED
  BY <1>1, <1>2

LEMMA ClassIsRight ==
    ASSUME NEW q \in Params, NEW e \in Elements, NEW i \in Nat \ {0}
    PROVE  /\ Cat(q, e, i) = Want(q, i) => Follows(q, e, i)
           /\ Follows(q, e, i) /\ Distinct(q) => Cat(q, e, i) = Want(q, i)
<1> DEFINE A == Divides(q.int1, i)
           B == Divides(q.int2, i)
           s == q.str1.text
           t == q.str2.text
           st == s \o t
<1>0. Cat(q, e, i) = IF e.num = i THEN 0 ELSE IF e.text = st THEN 3
                     ELSE IF e.text = s THEN 1 ELSE IF e.text = t THEN 2 ELSE 4
  BY DEF Cat
<1>1. /\ A /\ B => Want(q, i) = 3
      /\ A /\ ~B => Want(q, i) = 1
      /\ ~A /\ B => Want(q, i) = 2
      /\ ~A /\ ~B => Want(q, i) = 0
  BY DEF Want
<1>2. /\ A /\ B => (Follows(q, e, i) <=> e.text = st)
      /\ A /\ ~B => (Follows(q, e, i) <=> e.text = s)
      /\ ~A /\ B => (Follows(q, e, i) <=> e.text = t)
      /\ ~A /\ ~B => (Follows(q, e, i) <=> e.num = i)
  BY DEF Follows
<1>3. /\ Cat(q, e, i) = 3 => e.text = st
      /\ Cat(q, e, i) = 1 => e.text = s
      /\ Cat(q, e, i) = 2 => e.text = t
      /\ Cat(q, e, i) = 0 => e.num = i
  <2> HIDE DEF st, s, t
  <2> QED
    BY <1>0
<1>4. st # s /\ st # t
  BY PageAssumption, LongerText DEF Texts
<1>5. /\ e.text = s => e.num = q.str1.num
      /\ e.text = t => e.num = q.str2.num
      /\ e.text = st /\ q.str1.num = -1 => e.num = -1
  BY PageAssumption
<1>6. Distinct(q) => s # t /\ q.str1.num = -1 /\ q.str2.num = -1
  BY DEF Distinct
<1> HIDE DEF A, B, s, t, st
<1>7. Distinct(q) => /\ e.text = st => Cat(q, e, i) = 3
                     /\ e.text = s => Cat(q, e, i) = 1
                     /\ e.text = t => Cat(q, e, i) = 2
                     /\ e.num = i => Cat(q, e, i) = 0
  BY <1>0, <1>4, <1>5, <1>6
<1> QED
  BY <1>1, <1>2, <1>3, <1>7

LEMMA StepNames ==
    "new" \in Steps /\ "fetching" \in Steps /\ "erring" \in Steps
    /\ "reading" \in Steps /\ "done" \in Steps
BY DEF Steps

LEMMA LineTexts ==
    /\ "none" \in Lines /\ "stopped" \in Lines /\ "error" \in Lines /\ "failed" \in Lines
    /\ "progress" \in Lines /\ "cut" \in Lines /\ "matches" \in Lines /\ "differs" \in Lines
BY DEF Lines

LEMMA RunNumbers ==
    /\ MaxRuns \in Nat
    /\ \A r \in Runs : r \in Nat /\ r >= 1 /\ r <= MaxRuns
<1>1. MaxRuns \in Nat
  BY PageAssumption
<1> QED
  BY <1>1 DEF Runs

LEMMA InitInv == Init => IInv
<1> SUFFICES ASSUME Init PROVE IInv
  OBVIOUS
<1>n. /\ sent = 0 /\ current = 0 /\ form \in [Runs -> Params]
      /\ mapRun = 0 /\ count = 0 /\ wrong = 0 /\ ticks = {}
      /\ error = 0 /\ lineRun = 0 /\ right \in BOOLEAN /\ stale \in BOOLEAN
  BY DEF Init
<1>1. lineText \in Lines
  BY LineTexts DEF Init
<1>2. phase \in [Runs -> Steps]
  BY StepNames DEF Init
<1>B. busy \in BOOLEAN /\ (busy <=> current # 0)
  BY DEF Init
<1>3. TypeOK
  BY <1>n, <1>1, <1>2, <1>B, RunNumbers DEF TypeOK
<1>5. \A r \in Runs : phase[r] = "new" /\ r > sent
  BY RunNumbers DEF Init
<1>6. OneLiveRun /\ Phases
  BY <1>n, <1>5 DEF OneLiveRun, Phases
<1>4. Counts /\ ShowsTheNewest
  BY <1>n DEF Counts, ShowsTheNewest, Init
<1> QED
  BY <1>3, <1>4, <1>6 DEF IInv

(***************************************************************************)
(* Only the run in progress can be fetching or reading, so the finally of  *)
(* such a run makes the page idle.                                         *)
(***************************************************************************)
LEMMA Idles ==
    ASSUME IInv, NEW r \in Runs, phase[r] \in {"fetching", "reading"}, Finally(r)
    PROVE  /\ r = current /\ r = sent /\ current' = 0 /\ busy' = FALSE
           /\ phase' = [phase EXCEPT ![r] = "done"]
BY DEF IInv, OneLiveRun, TypeOK, Finally, Runs

LEMMA NextInv == IInv /\ [Next]_vars => IInv'
<1> SUFFICES ASSUME IInv, [Next]_vars PROVE IInv'
  OBVIOUS
<1> USE DEF IInv
<1>s. /\ sent \in Nat /\ sent <= MaxRuns /\ MaxRuns \in Nat
      /\ \A r \in Runs : r \in Nat /\ r >= 1 /\ r <= MaxRuns
      /\ current # 0 => current = sent /\ current \in Runs
      /\ \A r \in 0..sent : r # 0 => r \in Runs
  BY RunNumbers DEF TypeOK, Runs
<1>1. CASE Send
  <2> DEFINE n == sent + 1
  <2>1. /\ n \in Runs /\ sent' = n /\ current' = n /\ busy' = TRUE /\ error' = 0
        /\ phase' = [r \in Runs |->
              IF r = n THEN "fetching"
              ELSE IF r = current /\ phase[r] # "erring" THEN "done" ELSE phase[r]]
        /\ stale' = (stale \/ (current # 0 /\ phase[current] = "erring"))
        /\ UNCHANGED <<form, mapRun, count, wrong, ticks, lineRun, lineText, right>>
    BY <1>1, <1>s DEF Send, mapVars, line, Runs
  <2>L. lineText' \in Lines
    BY <1>s, <2>1, LineTexts DEF TypeOK
  <2>P. phase' \in [Runs -> Steps]
    BY <1>s, <2>1, StepNames DEF TypeOK
  <2>2. TypeOK'
    BY <1>s, <2>1, <2>L, <2>P DEF TypeOK, Runs
  <2>3. OneLiveRun'
    BY <1>s, <2>1 DEF OneLiveRun, TypeOK
  <2>4. Phases'
    BY <1>s, <2>1 DEF Phases, OneLiveRun, TypeOK, Runs
  <2>5. Counts'
    BY <1>s, <2>1 DEF Counts, TypeOK, N, Runs, Distinct
  <2>6. ShowsTheNewest'
    BY <2>1 DEF ShowsTheNewest
  <2> QED
    BY <2>2, <2>3, <2>4, <2>5, <2>6
<1>2. CASE Stop
  <2>1. /\ current \in Runs /\ phase[current] \in {"fetching", "reading"}
        /\ Finally(current) /\ Says(current, "stopped") /\ stale' = stale
        /\ UNCHANGED <<sent, form, mapRun, count, wrong, ticks, error, right>>
    BY <1>2, <1>s DEF Stop, mapVars, line, Phases
  <2>2. /\ current = sent /\ current' = 0 /\ busy' = FALSE
        /\ phase' = [phase EXCEPT ![current] = "done"]
        /\ lineRun' = current /\ lineText' = "stopped"
    BY <2>1, Idles DEF Says
  <2>L. lineText' \in Lines
    BY <1>s, <2>1, <2>2, LineTexts DEF TypeOK
  <2>P. phase' \in [Runs -> Steps]
    BY <1>s, <2>1, <2>2, StepNames DEF TypeOK
  <2>n. /\ current \in Runs /\ current' = 0
        /\ lineRun' = current /\ stale' = stale
        /\ UNCHANGED <<sent, form, mapRun, count, wrong, ticks, error, right>>
    BY <2>1, <2>2
  <2>B. busy' \in BOOLEAN /\ (busy' <=> current' # 0)
    BY <2>2 DEF TypeOK
  <2>3. TypeOK'
    BY <1>s, <2>n, <2>L, <2>P, <2>B DEF TypeOK
  <2>4. OneLiveRun'
    BY <2>1, <2>2 DEF OneLiveRun, TypeOK
  <2>5. Phases'
    BY <1>s, <2>1, <2>2 DEF Phases, OneLiveRun, TypeOK
  <2>6. Counts'
    BY <1>s, <2>1, <2>2 DEF Counts, TypeOK, N, Distinct
  <2>7. ShowsTheNewest'
    BY <2>1, <2>2 DEF ShowsTheNewest
  <2> QED
    BY <2>3, <2>4, <2>5, <2>6, <2>7
<1>3. ASSUME NEW r \in Runs, Responds(r) PROVE IInv'
  <2>1. /\ phase[r] = "fetching" /\ r = current /\ r = sent
        /\ UNCHANGED <<sent, current, form, busy, error, lineRun, lineText, stale>>
    BY <1>3, <1>s DEF Responds, mapVars, line, OneLiveRun
  <2>2. CASE /\ phase' = [phase EXCEPT ![r] = "reading"]
             /\ mapRun' = r /\ count' = 0 /\ wrong' = 0
             /\ ticks' = ticks \cup {r}
             /\ right' = TRUE
    <3>L. lineText' \in Lines
      BY <1>s, <2>1, <2>2, LineTexts DEF TypeOK
    <3>P. phase' \in [Runs -> Steps]
      BY <1>s, <2>1, <2>2, StepNames DEF TypeOK
    <3>n. /\ r = sent /\ mapRun' = r /\ count' = 0 /\ wrong' = 0
          /\ ticks' = ticks \cup {r} /\ right' = TRUE
          /\ UNCHANGED <<sent, current, form, busy, error, lineRun, stale>>
      BY <2>1, <2>2
    <3>B. busy' \in BOOLEAN /\ (busy' <=> current' # 0)
      BY <2>1 DEF TypeOK
    <3>1. TypeOK'
      BY <1>s, <3>n, <3>L, <3>P, <3>B DEF TypeOK
    <3>2. OneLiveRun'
      BY <2>1, <2>2 DEF OneLiveRun, TypeOK
    <3>f. \A x \in Runs : phase'[x] = IF x = r THEN "reading" ELSE phase[x]
      BY <2>2 DEF TypeOK
    <3>g. /\ \A x \in ticks' : phase'[x] \in {"reading", "done"}
          /\ mapRun' = r /\ phase'[r] = "reading"
      BY <1>s, <2>2, <3>f DEF Phases, TypeOK
    <3>h. lineRun' # 0 => phase'[lineRun'] \notin {"new", "fetching"}
      BY <1>s, <2>1, <3>f DEF Phases, TypeOK
    <3>3. Phases'
      BY <1>s, <2>1, <3>f, <3>g, <3>h DEF Phases
    <3>4. Counts'
      BY <1>s, <2>1, <2>2 DEF Counts, TypeOK, Phases
    <3>5. ShowsTheNewest'
      BY <2>1, <2>2 DEF ShowsTheNewest
    <3> QED
      BY <3>1, <3>2, <3>3, <3>4, <3>5
  <2>3. CASE phase' = [phase EXCEPT ![r] = "erring"] /\ UNCHANGED <<mapRun, count, wrong, ticks, right>>
    <3>L. lineText' \in Lines
      BY <1>s, <2>1, <2>3, LineTexts DEF TypeOK
    <3>P. phase' \in [Runs -> Steps]
      BY <1>s, <2>1, <2>3, StepNames DEF TypeOK
    <3>1. TypeOK'
      BY <1>s, <2>1, <2>3, <3>L, <3>P DEF TypeOK
    <3>2. OneLiveRun'
      BY <2>1, <2>3 DEF OneLiveRun, TypeOK
    <3>f. \A x \in Runs : phase'[x] = IF x = r THEN "erring" ELSE phase[x]
      BY <2>3 DEF TypeOK
    <3>g. /\ \A x \in ticks' : phase'[x] \in {"reading", "done"}
          /\ mapRun' # 0 => phase'[mapRun'] \in {"reading", "done"}
      BY <1>s, <2>1, <2>3, <3>f DEF Phases, TypeOK
    <3>h. lineRun' # 0 => phase'[lineRun'] \notin {"new", "fetching"}
      BY <1>s, <2>1, <3>f DEF Phases, TypeOK
    <3>3. Phases'
      BY <1>s, <2>1, <3>f, <3>g, <3>h DEF Phases
    <3>4. Counts'
      BY <1>s, <2>1, <2>3 DEF Counts, TypeOK, Phases, N, Distinct
    <3>5. ShowsTheNewest'
      BY <2>1, <2>3 DEF ShowsTheNewest
    <3> QED
      BY <3>1, <3>2, <3>3, <3>4, <3>5
  <2> QED
    BY <1>3, <2>2, <2>3 DEF Responds, mapVars, line
<1>4. ASSUME NEW r \in Runs, Fails(r) PROVE IInv'
  <2>1. /\ phase[r] = "erring" /\ error' = r
        /\ lineRun' = r /\ lineText' = "error"
        /\ phase' = [phase EXCEPT ![r] = "done"]
        /\ UNCHANGED <<sent, form, mapRun, count, wrong, ticks, right, stale>>
        /\ IF current = r THEN current' = 0 /\ busy' = FALSE ELSE UNCHANGED <<current, busy>>
        /\ r = current \/ stale
        /\ r <= sent
    BY <1>4, <1>s DEF Fails, mapVars, line, Says, Finally, Phases
  <2>L. lineText' \in Lines
    BY <1>s, <2>1, LineTexts DEF TypeOK
  <2>P. phase' \in [Runs -> Steps]
    BY <1>s, <2>1, StepNames DEF TypeOK
  <2>n. /\ error' = r /\ lineRun' = r /\ r <= sent
        /\ UNCHANGED <<sent, form, mapRun, count, wrong, ticks, right, stale>>
        /\ current' \in {0, current}
    BY <2>1
  <2>B. busy' \in BOOLEAN /\ (busy' <=> current' # 0)
    BY <2>1 DEF TypeOK
  <2>2. TypeOK'
    BY <1>s, <2>n, <2>L, <2>P, <2>B DEF TypeOK
  <2>3. OneLiveRun'
    BY <1>s, <2>1 DEF OneLiveRun, TypeOK
  <2>4. Phases'
    BY <1>s, <2>1 DEF Phases, TypeOK
  <2>5. Counts'
    BY <1>s, <2>1 DEF Counts, TypeOK, N, Distinct
  <2>6. ShowsTheNewest'
    BY <1>s, <2>1 DEF ShowsTheNewest, TypeOK
  <2> QED
    BY <2>2, <2>3, <2>4, <2>5, <2>6
<1>5. ASSUME NEW r \in Runs, Breaks(r) PROVE IInv'
  <2>1. /\ phase[r] \in {"fetching", "reading"} /\ Finally(r)
        /\ lineRun' = r /\ lineText' = "failed"
        /\ UNCHANGED <<sent, form, mapRun, count, wrong, ticks, error, right, stale>>
    BY <1>5 DEF Breaks, mapVars, line, Says
  <2>2. /\ r = current /\ r = sent /\ current' = 0 /\ busy' = FALSE
        /\ phase' = [phase EXCEPT ![r] = "done"]
    BY <2>1, Idles
  <2>L. lineText' \in Lines
    BY <1>s, <2>1, <2>2, LineTexts DEF TypeOK
  <2>P. phase' \in [Runs -> Steps]
    BY <1>s, <2>1, <2>2, StepNames DEF TypeOK
  <2>n. /\ r = sent /\ current' = 0 /\ lineRun' = r
        /\ UNCHANGED <<sent, form, mapRun, count, wrong, ticks, error, right, stale>>
    BY <2>1, <2>2
  <2>B. busy' \in BOOLEAN /\ (busy' <=> current' # 0)
    BY <2>2 DEF TypeOK
  <2>3. TypeOK'
    BY <1>s, <2>n, <2>L, <2>P, <2>B DEF TypeOK
  <2>4. OneLiveRun'
    BY <2>1, <2>2 DEF OneLiveRun, TypeOK
  <2>5. Phases'
    BY <1>s, <2>1, <2>2 DEF Phases, OneLiveRun, TypeOK
  <2>6. Counts'
    BY <1>s, <2>1, <2>2 DEF Counts, TypeOK, N, Distinct
  <2>7. ShowsTheNewest'
    BY <2>1, <2>2 DEF ShowsTheNewest
  <2> QED
    BY <2>3, <2>4, <2>5, <2>6, <2>7
<1>6. ASSUME NEW r \in Runs, Finishes(r) PROVE IInv'
  <2>1. PICK closed \in BOOLEAN : Says(r, Verdict(r, closed))
    BY <1>6 DEF Finishes, mapVars, line
  <2>2. /\ phase[r] = "reading" /\ Finally(r)
        /\ lineRun' = r /\ lineText' = Verdict(r, closed)
        /\ UNCHANGED <<sent, form, mapRun, count, wrong, ticks, error, right, stale>>
    BY <1>6, <2>1 DEF Finishes, mapVars, line, Says
  <2>3. /\ r = current /\ r = sent /\ current' = 0 /\ busy' = FALSE
        /\ phase' = [phase EXCEPT ![r] = "done"]
    BY <2>2, Idles
  <2>4. /\ Verdict(r, closed) \in {"cut", "matches", "differs"}
        /\ Verdict(r, closed) = "matches" => count = N(r) /\ wrong = 0
        /\ Verdict(r, closed) = "differs" => ~(count = N(r) /\ wrong = 0)
    BY DEF Verdict
  <2>L. lineText' \in Lines
    BY <2>2, <2>4, LineTexts
  <2>P. phase' \in [Runs -> Steps]
    BY <1>s, <2>2, <2>3, StepNames DEF TypeOK
  <2>n. /\ r = sent /\ current' = 0 /\ lineRun' = r
        /\ UNCHANGED <<sent, form, mapRun, count, wrong, ticks, error, right, stale>>
    BY <2>2, <2>3
  <2>B. busy' \in BOOLEAN /\ (busy' <=> current' # 0)
    BY <2>3 DEF TypeOK
  <2>5. TypeOK'
    BY <1>s, <2>n, <2>L, <2>P, <2>B DEF TypeOK
  <2>6. OneLiveRun'
    BY <2>2, <2>3 DEF OneLiveRun, TypeOK
  <2>7. Phases'
    BY <1>s, <2>2, <2>3 DEF Phases, OneLiveRun, TypeOK
  <2>8. Counts'
    <3>1. mapRun = r /\ N(r)' = N(r)
      BY <2>2 DEF OneLiveRun, N
    <3>2. phase'[r] = "done"
      BY <2>3 DEF TypeOK
    <3> QED
      BY <2>2, <2>4, <3>1, <3>2 DEF Counts, Distinct
  <2>9. ShowsTheNewest'
    BY <2>2, <2>3, <2>4 DEF ShowsTheNewest
  <2> QED
    BY <2>5, <2>6, <2>7, <2>8, <2>9
<1>7. ASSUME NEW r \in Runs, Paints(r) PROVE IInv'
  <2>1. /\ r \in ticks /\ ticks' \subseteq ticks
        /\ UNCHANGED <<lineRun, lineText>> \/ (phase[r] # "done" /\ lineRun' = r /\ lineText' = "progress")
        /\ UNCHANGED <<sent, current, phase, form, mapRun, count, wrong, busy, error, right, stale>>
    BY <1>7 DEF Paints, mapVars, line, Says
  <2>2. phase[r] # "done" => phase[r] = "reading" /\ r = current /\ busy
    BY <1>s, <2>1 DEF Phases, OneLiveRun, TypeOK
  <2>L. lineText' \in Lines
    BY <1>s, <2>1, <2>2, LineTexts DEF TypeOK
  <2>P. phase' \in [Runs -> Steps]
    BY <1>s, <2>1, <2>2, StepNames DEF TypeOK
  <2>3. TypeOK'
    BY <1>s, <2>1, <2>2, <2>L, <2>P DEF TypeOK
  <2>4. OneLiveRun'
    BY <2>1 DEF OneLiveRun
  <2>5. Phases'
    BY <2>1, <2>2 DEF Phases
  <2>6. Counts'
    BY <2>1 DEF Counts, N, Distinct
  <2>7. ShowsTheNewest'
    BY <2>1, <2>2 DEF ShowsTheNewest
  <2> QED
    BY <2>3, <2>4, <2>5, <2>6, <2>7
<1>8. ASSUME NEW r \in Runs, NEW e \in Elements, Receives(r, e) PROVE IInv'
  <2> DEFINE n == count + 1
             q == form[r]
  <2>1. /\ phase[r] = "reading" /\ mapRun = r /\ n \in Nat \ {0} /\ q \in Params
        /\ count \in Nat /\ wrong \in 0..count
        /\ right' = (right /\ Follows(q, e, n))
        /\ count' = n /\ mapRun' = mapRun
        /\ wrong' = IF Cat(q, e, n) = Want(q, n) THEN wrong ELSE wrong + 1
        /\ UNCHANGED <<sent, current, phase, form, ticks, busy, error, lineRun, lineText, stale>>
    BY <1>8 DEF Receives, mapVars, line, OneLiveRun, TypeOK
  <2>L. lineText' \in Lines
    BY <2>1, LineTexts DEF TypeOK
  <2>P. phase' \in [Runs -> Steps]
    BY <2>1, StepNames DEF TypeOK
  <2>3. TypeOK'
    BY <2>1, <2>L, <2>P DEF TypeOK
  <2>4. OneLiveRun'
    BY <2>1 DEF OneLiveRun
  <2>5. Phases'
    BY <2>1 DEF Phases
  <2>6. Counts'
    <3>1. /\ Cat(q, e, n) = Want(q, n) => Follows(q, e, n)
          /\ Follows(q, e, n) /\ Distinct(q) => Cat(q, e, n) = Want(q, n)
      BY <2>1, ClassIsRight
    <3>2. ~(lineRun = r /\ lineText \in {"matches", "differs"})
      BY <2>1 DEF Counts, TypeOK, Runs
    <3>a. (wrong = 0 => right) /\ (right /\ Distinct(q) => wrong = 0)
      BY <2>1 DEF Counts, Runs
    <3> HIDE DEF n, q
    <3>b. right' <=> right /\ Follows(q, e, n)
      BY <2>1
    <3>c. wrong' = 0 => wrong = 0 /\ Cat(q, e, n) = Want(q, n)
      BY <2>1
    <3>d. wrong = 0 /\ Cat(q, e, n) = Want(q, n) => wrong' = 0
      BY <2>1
    <3>3. wrong' = 0 => right'
      BY <3>1, <3>a, <3>b, <3>c
    <3>4. right' /\ Distinct(q) => wrong' = 0
      BY <3>1, <3>a, <3>b, <3>d
    <3> QED
      BY <2>1, <3>2, <3>3, <3>4 DEF Counts, q, Distinct
  <2>7. ShowsTheNewest'
    BY <2>1 DEF ShowsTheNewest
  <2> QED
    BY <2>3, <2>4, <2>5, <2>6, <2>7
<1>9. CASE UNCHANGED vars
  BY <1>9 DEF vars, TypeOK, OneLiveRun, Phases, Counts, ShowsTheNewest, N, Distinct
<1> QED
  BY <1>1, <1>2, <1>3, <1>4, <1>5, <1>6, <1>7, <1>8, <1>9 DEF Next, Network

LEMMA Invariance == Spec => []IInv
<1>1. Init => IInv
  BY InitInv
<1>2. IInv /\ [Next]_vars => IInv'
  BY NextInv
<1> QED
  BY <1>1, <1>2, PTL DEF Spec

(***************************************************************************)
(* The types of the page, and a button that says Stop exactly while a      *)
(* request is in progress.                                                 *)
(***************************************************************************)
THEOREM PageTypeCorrect == Spec => []TypeOK
BY Invariance, PTL DEF IInv

(***************************************************************************)
(* The chunks of an aborted request never reach the map of the newer one.  *)
(***************************************************************************)
THEOREM AlwaysOneLiveRun == Spec => []OneLiveRun
BY Invariance, PTL DEF IInv

(***************************************************************************)
(* The verdict about a response is true (finish and tokenizer, app.js).    *)
(***************************************************************************)
THEOREM VerdictAlwaysTrue == Spec => []VerdictIsTrue
<1>1. IInv => VerdictIsTrue
  BY DEF IInv, Counts, VerdictIsTrue
<1> QED
  BY <1>1, Invariance, PTL

(***************************************************************************)
(* Without an abort during the body of an error, the page at rest shows    *)
(* the newest request.                                                     *)
(***************************************************************************)
THEOREM AlwaysShowsTheNewest == Spec => []ShowsTheNewest
BY Invariance, PTL DEF IInv
=============================================================================
