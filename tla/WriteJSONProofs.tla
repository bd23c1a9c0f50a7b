-------------------------- MODULE WriteJSONProofs ---------------------------
(***************************************************************************)
(* Proofs about WriteJSON and its decimal counter, for any requests, sizes *)
(* of buffers and write errors: the elements are right and fit, the bytes  *)
(* that the client got begin the array until they are all of it, and the   *)
(* counter shows the number.                                               *)
(*                                                                         *)
(* A text is a run of elements u + 1 to u + v. Bytes(plan, e) has one item *)
(* for each byte, so the length of a run is what SizeProofs sums up, and a *)
(* run can be cut at each element. If a divisor is 1, the elements repeat, *)
(* and j periods are a run too: the chunk of writePeriodic and each of its *)
(* parts are runs. So each write adds the next run to what was sent.       *)
(***************************************************************************)
EXTENDS ResponseStream, SizeProofs, SequenceTheorems

-----------------------------------------------------------------------------
(***************************************************************************)
(* FlattenSeq, by its recursion.                                           *)
(***************************************************************************)
\* f[1] \o ... \o f[n] by the local function of FlattenSeq.
IsFlat(g, f, n) ==
    g = [x \in 1..n |-> IF x = 1 THEN f[x] ELSE g[x - 1] \o f[x]]

(***************************************************************************)
(* FlattenSeq has the value that its recursion describes: the calls go     *)
(* down to the first sequence.                                             *)
(***************************************************************************)
LEMMA FlatExists ==
    ASSUME NEW S, NEW n \in Nat, NEW f, \A x \in 1..n : f[x] \in Seq(S)
    PROVE  \E g : IsFlat(g, f, n)
<1> DEFINE D == 1..n
           V == Seq(S)
           done == {x \in D : x = 1}
           base == [x \in D |-> f[x]]
           calls == [x \in D |-> IF x = 1 THEN 1 ELSE x - 1]
           combine == [z \in D \X V |-> z[2] \o f[z[1]]]
           rank == [x \in D |-> x]
<1>1. base \in [D -> V] /\ calls \in [D -> D] /\ rank \in [D -> Nat]
  OBVIOUS
<1>2. combine \in [D \X V -> V]
  OBVIOUS
<1>3. \A x \in D \ done : rank[calls[x]] < rank[x]
  OBVIOUS
<1>4. \A z \in D \X V : combine[z] = z[2] \o f[z[1]]
  OBVIOUS
<1>5. \A x \in D : base[x] = f[x] /\ (x # 1 => calls[x] = x - 1) /\ (x \in done <=> x = 1)
  OBVIOUS
<1> HIDE DEF V, done, base, calls, combine, rank
<1>6. PICK g \in [D -> V] : \A x \in D : Solves(g, x, done, base, calls, combine)
  <2> HIDE DEF D
  <2> QED
    BY <1>1, <1>2, <1>3, Recursion
<1>7. \A x \in D : g[x] = IF x = 1 THEN f[x] ELSE g[x - 1] \o f[x]
  <2> TAKE x \in D
  <2>1. Solves(g, x, done, base, calls, combine)
    BY <1>6
  <2>2. CASE x = 1
    BY <1>5, <2>1, <2>2 DEF Solves
  <2>3. CASE x # 1
    <3>1. x - 1 \in D
      BY <2>3
    <3>2. <<x, g[x - 1]>> \in D \X V
      BY <1>6, <3>1
    <3>3. combine[<<x, g[x - 1]>>] = g[x - 1] \o f[x]
      BY <1>4, <3>2
    <3> QED
      BY <1>5, <2>1, <2>3, <3>3 DEF Solves
  <2> QED
    BY <2>2, <2>3
<1>8. g = [x \in D |-> IF x = 1 THEN f[x] ELSE g[x - 1] \o f[x]]
  BY <1>6, <1>7, Zenon
<1> QED
  BY <1>8 DEF IsFlat

(***************************************************************************)
(* Two such values agree on the first sequences.                           *)
(***************************************************************************)
LEMMA FlatsAgree ==
    ASSUME NEW n \in Nat, NEW m \in 0..n, NEW f, NEW g, NEW h,
           IsFlat(g, f, n), IsFlat(h, f, m)
    PROVE  \A x \in 1..m : g[x] = h[x]
<1> DEFINE B == {x \in 1..m : g[x] # h[x]}
<1> SUFFICES ASSUME B # {} PROVE FALSE
  OBVIOUS
<1>1. PICK x \in B : \A y \in B : x <= y
  <2> B \subseteq Nat
    OBVIOUS
  <2> HIDE DEF B
  <2> QED
    BY SmallestNat
<1>2. x \in 1..m /\ x \in 1..n /\ g[x] # h[x]
  OBVIOUS
<1> HIDE DEF B
<1>3. /\ g[x] = IF x = 1 THEN f[x] ELSE g[x - 1] \o f[x]
      /\ h[x] = IF x = 1 THEN f[x] ELSE h[x - 1] \o f[x]
  BY <1>2 DEF IsFlat
<1>4. CASE x = 1
  BY <1>2, <1>3, <1>4
<1>5. CASE x # 1
  <2>1. x - 1 \in 1..m /\ x - 1 \notin B
    <3>1. x - 1 \in 1..m /\ ~(x <= x - 1)
      BY <1>2, <1>5
    <3> QED
      BY <1>1, <3>1
  <2>2. g[x - 1] = h[x - 1]
    BY <2>1 DEF B
  <2> QED
    BY <1>2, <1>3, <1>5, <2>2
<1> QED
  BY <1>4, <1>5

(***************************************************************************)
(* FlattenSeq takes one sequence more.                                     *)
(***************************************************************************)
LEMMA FlattenNext ==
    ASSUME NEW S, NEW n \in Nat, NEW f, \A x \in 1..n+1 : f[x] \in Seq(S)
    PROVE  FlattenSeq([x \in 1..n+1 |-> f[x]]) =
             FlattenSeq([x \in 1..n |-> f[x]]) \o f[n + 1]
<1> DEFINE s(m) == [x \in 1..m |-> f[x]]
           G(m) == CHOOSE g : IsFlat(g, f, m)
<1>1. ASSUME NEW m \in 0..n+1
      PROVE  /\ IsFlat(G(m), f, m)
             /\ FlattenSeq(s(m)) = IF m = 0 THEN <<>> ELSE G(m)[m]
  <2>1. \E g : IsFlat(g, f, m)
    <3>1. m \in Nat /\ \A x \in 1..m : f[x] \in Seq(S)
      OBVIOUS
    <3> QED
      BY <3>1, FlatExists
  <2>2. IsFlat(G(m), f, m)
    BY <2>1, Zenon
  <2>3. s(m) \in Seq(Seq(S)) /\ Len(s(m)) = m
    OBVIOUS
  <2>4. CASE m = 0
    <3>1. s(m) = <<>>
      BY <2>3, <2>4
    <3> QED
      BY <2>2, <2>3, <2>4, <3>1 DEF FlattenSeq
  <2>5. CASE m # 0
    <3> DEFINE F(g) == g = [x \in 1..Len(s(m)) |->
                              IF x = 1 THEN s(m)[x] ELSE g[x - 1] \o s(m)[x]]
    <3>1. FlattenSeq(s(m)) = (CHOOSE g : F(g))[Len(s(m))]
      <4>1. Len(s(m)) # 0
        BY <2>3, <2>5
      <4> HIDE DEF s
      <4> QED
        BY <4>1 DEF FlattenSeq
    <3>2. \A g : F(g) <=> IsFlat(g, f, m)
      <4> TAKE g
      <4>1. [x \in 1..Len(s(m)) |-> IF x = 1 THEN s(m)[x] ELSE g[x - 1] \o s(m)[x]] =
            [x \in 1..m |-> IF x = 1 THEN f[x] ELSE g[x - 1] \o f[x]]
        BY <2>3
      <4> QED
        BY <4>1, Zenon DEF IsFlat
    <3> HIDE DEF F
    <3>3. (CHOOSE g : F(g)) = G(m)
      BY <3>2
    <3> QED
      BY <2>2, <2>3, <2>5, <3>1, <3>3
  <2> QED
    BY <2>4, <2>5
<1> HIDE DEF G, s
<1>2. CASE n = 0
  <2>1. 0 \in 0..n+1 /\ 1 \in 0..n+1 /\ 1 # 0
    BY <1>2
  <2>2. FlattenSeq(s(0)) = <<>>
    BY <1>1, <2>1
  <2>3. FlattenSeq(s(1)) = f[1]
    <3>1. FlattenSeq(s(1)) = G(1)[1] /\ IsFlat(G(1), f, 1)
      BY <1>1, <2>1
    <3> HIDE DEF s
    <3> QED
      BY <3>1 DEF IsFlat
  <2>4. f[1] \in Seq(S)
    BY <1>2
  <2> QED
    BY <1>2, <2>2, <2>3, <2>4, ConcatEmptySeq DEF s
<1>3. CASE n # 0
  <2>1. n \in 0..n+1 /\ n + 1 \in 0..n+1 /\ n # 0 /\ n + 1 # 0
    BY <1>3
  <2>2. FlattenSeq(s(n)) = G(n)[n] /\ FlattenSeq(s(n + 1)) = G(n + 1)[n + 1]
    BY <1>1, <2>1
  <2>3. G(n + 1)[n + 1] = G(n + 1)[n] \o f[n + 1]
    <3>1. IsFlat(G(n + 1), f, n + 1)
      BY <1>1, <2>1
    <3>2. n + 1 \in 1..n+1 /\ n + 1 # 1 /\ (n + 1) - 1 = n
      BY <1>3
    <3> QED
      BY <3>1, <3>2 DEF IsFlat
  <2>4. G(n + 1)[n] = G(n)[n]
    <3>1. IsFlat(G(n + 1), f, n + 1) /\ IsFlat(G(n), f, n)
      BY <1>1, <2>1
    <3>2. n \in 0..n+1 /\ n \in 1..n /\ n + 1 \in Nat
      BY <1>3
    <3> QED
      BY <3>1, <3>2, FlatsAgree
  <2>5. FlattenSeq(s(n + 1)) = FlattenSeq(s(n)) \o f[n + 1]
    BY <2>2, <2>3, <2>4
  <2> QED
    BY <2>5 DEF s
<1> QED
  BY <1>2, <1>3

-----------------------------------------------------------------------------
(***************************************************************************)
(* Runs: the texts of consecutive elements.                                *)
(***************************************************************************)
Elements == {"number", "e1", "e2", "e12"} \X Nat

\* Elements are counted from 1, bytes of an element too; a bracket has zeros.
Byte == {"number", "e1", "e2", "e12", "[", "]"} \X Nat \X Nat

\* The plan of a request of the runs.
Writable(plan) ==
    /\ PlanOK(plan)
    /\ plan.n \in Nat \ {0}
    /\ plan.e1 \in Nat \ {0} /\ plan.e2 \in Nat \ {0} /\ plan.e12 \in Nat \ {0}

\* Elements u + 1 to u + v of the array.
Elems(plan, u, v) == [x \in 1..v |-> Element(plan, u + x)]

\* Their bytes.
Run(plan, u, v) == Text(plan, Elems(plan, u, v))

(***************************************************************************)
(* The reference elements have their type.                                 *)
(***************************************************************************)
LEMMA ElementTypes ==
    ASSUME NEW plan, NEW x \in Nat
    PROVE  Element(plan, x) \in Elements
BY DEF Element, Elements

(***************************************************************************)
(* An element has at least one byte.                                       *)
(***************************************************************************)
LEMMA BytesType ==
    ASSUME NEW plan, Writable(plan), NEW e \in Elements
    PROVE  /\ ElementBytes(plan, e) \in Nat \ {0}
           /\ Bytes(plan, e) \in Seq(Byte)
           /\ Len(Bytes(plan, e)) = ElementBytes(plan, e)
<1>1. /\ e[1] \in {"number", "e1", "e2", "e12"} /\ e[2] \in Nat
  BY DEF Elements
<1>2. Digits[e[2]] \in Nat
  BY <1>1, DigitsEquation
<1>3. ElementBytes(plan, e) \in Nat \ {0}
  BY <1>1, <1>2 DEF ElementBytes, Writable
<1>4. \A o \in 1..ElementBytes(plan, e) : <<e[1], e[2], o>> \in Byte
  BY <1>1, <1>3 DEF Byte
<1> DEFINE size == ElementBytes(plan, e)
<1> HIDE DEF size
<1>5. [o \in 1..size |-> <<e[1], e[2], o>>] \in Seq(Byte)
  BY <1>3, <1>4 DEF size
<1>6. Len([o \in 1..size |-> <<e[1], e[2], o>>]) = size
  BY <1>3 DEF size
<1> QED
  BY <1>3, <1>5, <1>6 DEF Bytes, size

(***************************************************************************)
(* One element more.                                                       *)
(***************************************************************************)
LEMMA TextNext ==
    ASSUME NEW plan, Writable(plan), NEW es \in Seq(Elements), NEW e \in Elements
    PROVE  Text(plan, Append(es, e)) = Text(plan, es) \o Bytes(plan, e)
<1> DEFINE n == Len(es)
           f == [x \in 1..n+1 |-> Bytes(plan, Append(es, e)[x])]
<1>1. n \in Nat /\ DOMAIN es = 1..n /\ DOMAIN Append(es, e) = 1..n+1
  OBVIOUS
<1>2. \A x \in 1..n+1 : Append(es, e)[x] \in Elements
  OBVIOUS
<1>3. \A x \in 1..n+1 : f[x] \in Seq(Byte)
  BY <1>2, BytesType
<1>4. FlattenSeq([x \in 1..n+1 |-> f[x]]) = FlattenSeq([x \in 1..n |-> f[x]]) \o f[n + 1]
  <2> HIDE DEF f, n
  <2> QED
    BY <1>1, <1>3, FlattenNext
<1>5. [x \in 1..n+1 |-> f[x]] =
        [x \in DOMAIN Append(es, e) |-> Bytes(plan, Append(es, e)[x])]
  BY <1>1
<1>6. [x \in 1..n |-> f[x]] = [x \in DOMAIN es |-> Bytes(plan, es[x])]
  <2>1. \A x \in 1..n : x \in 1..n+1 /\ Append(es, e)[x] = es[x]
    OBVIOUS
  <2> QED
    BY <1>1, <2>1
<1>7. f[n + 1] = Bytes(plan, e)
  <2>1. n + 1 \in 1..n+1 /\ Append(es, e)[n + 1] = e
    OBVIOUS
  <2> QED
    BY <2>1
<1> QED
  BY <1>4, <1>5, <1>6, <1>7 DEF Text

(***************************************************************************)
(* No element, no byte.                                                    *)
(***************************************************************************)
LEMMA TextOfNothing ==
    ASSUME NEW plan
    PROVE  Text(plan, <<>>) = <<>>
<1> DEFINE s == [x \in DOMAIN <<>> |-> Bytes(plan, <<>>[x])]
<1>1. s = <<>> /\ Len(s) = 0
  OBVIOUS
<1> HIDE DEF s
<1>2. FlattenSeq(s) = <<>>
  BY <1>1 DEF FlattenSeq
<1> QED
  BY <1>2 DEF Text, s

(***************************************************************************)
(* The elements of a run are a sequence, and it grows by the next element. *)
(***************************************************************************)
LEMMA ElemsNext ==
    ASSUME NEW plan, NEW u \in Nat, NEW v \in Nat
    PROVE  /\ Elems(plan, u, v) \in Seq(Elements)
           /\ Len(Elems(plan, u, v)) = v
           /\ Elems(plan, u, v + 1) = Append(Elems(plan, u, v), Element(plan, u + v + 1))
<1>1. \A x \in 1..v+1 : Element(plan, u + x) \in Elements
  BY ElementTypes
<1> DEFINE E == [x \in Nat |-> Element(plan, u + x)]
<1>2. \A x \in 1..v+1 : E[x] \in Elements
  BY <1>1
<1> HIDE DEF E
<1>3. /\ [x \in 1..v |-> E[x]] \in Seq(Elements)
      /\ Len([x \in 1..v |-> E[x]]) = v
      /\ [x \in 1..v+1 |-> E[x]] = Append([x \in 1..v |-> E[x]], E[v + 1])
  BY <1>2
<1>4. /\ Elems(plan, u, v) = [x \in 1..v |-> E[x]]
      /\ Elems(plan, u, v + 1) = [x \in 1..v+1 |-> E[x]]
      /\ E[v + 1] = Element(plan, u + v + 1)
  BY DEF Elems, E
<1> QED
  BY <1>3, <1>4

(***************************************************************************)
(* A run grows by the bytes of the next element.                           *)
(***************************************************************************)
LEMMA RunNext ==
    ASSUME NEW plan, Writable(plan), NEW u \in Nat, NEW v \in Nat
    PROVE  /\ Run(plan, u, 0) = <<>>
           /\ Run(plan, u, v + 1) =
                Run(plan, u, v) \o Bytes(plan, Element(plan, u + v + 1))
<1>1. Elems(plan, u, 0) = <<>>
  <2>1. Elems(plan, u, 0) \in Seq(Elements) /\ Len(Elems(plan, u, 0)) = 0
    BY ElemsNext
  <2> QED
    BY <2>1, EmptySeq
<1>2. Element(plan, u + v + 1) \in Elements
  BY ElementTypes
<1> QED
  BY <1>1, <1>2, TextOfNothing, ElemsNext, TextNext DEF Run

(***************************************************************************)
(* A run of v elements is a text, of v bytes or more.                      *)
(***************************************************************************)
LEMMA RunTypes ==
    ASSUME NEW plan, Writable(plan), NEW u \in Nat, NEW v \in Nat
    PROVE  /\ Run(plan, u, v) \in Seq(Byte)
           /\ v <= Len(Run(plan, u, v))
<1> DEFINE Good(x) == Run(plan, u, x) \in Seq(Byte) /\ x <= Len(Run(plan, u, x))
           B == {x \in Nat : ~Good(x)}
<1> SUFFICES ASSUME B # {} PROVE FALSE
  OBVIOUS
<1>1. B \subseteq Nat
  OBVIOUS
<1>2. PICK x \in B : \A y \in B : x <= y
  <2> HIDE DEF B
  <2> QED
    BY <1>1, SmallestNat
<1>3. x \in Nat /\ ~Good(x)
  OBVIOUS
<1>4. Good(0)
  <2>1. Run(plan, u, 0) = <<>>
    BY RunNext
  <2>2. <<>> \in Seq(Byte) /\ Len(<<>>) = 0
    OBVIOUS
  <2> HIDE DEF B
  <2>3. Run(plan, u, 0) \in Seq(Byte) /\ Len(Run(plan, u, 0)) = 0
    BY <2>1, <2>2, Zenon
  <2> QED
    BY <2>3
<1>5. x # 0
  BY <1>3, <1>4
<1>6. x - 1 \in Nat /\ (x - 1) + 1 = x /\ ~(x <= x - 1)
  BY <1>3, <1>5
<1>7. Good(x - 1)
  <2>1. x - 1 \notin B
    <3> HIDE DEF B
    <3> QED
      BY <1>2, <1>6
  <2> HIDE DEF Good
  <2> QED
    BY <1>6, <2>1
<1> DEFINE e == Element(plan, u + (x - 1) + 1)
<1>8. Run(plan, u, x) = Run(plan, u, x - 1) \o Bytes(plan, e)
  <2>1. Run(plan, u, (x - 1) + 1) = Run(plan, u, x - 1) \o Bytes(plan, e)
    <3> HIDE DEF B, Good
    <3> QED
      BY <1>6, RunNext
  <2> QED
    BY <1>6, <2>1
<1>9. Bytes(plan, e) \in Seq(Byte) /\ Len(Bytes(plan, e)) \in Nat \ {0}
  <2>1. e \in Elements
    BY <1>6, ElementTypes
  <2> HIDE DEF e
  <2> QED
    BY <2>1, BytesType
<1> HIDE DEF B, e
<1>10. Good(x)
  BY <1>6, <1>7, <1>8, <1>9
<1> QED
  BY <1>3, <1>10

\* v elements, then w more.
Splits(plan, u, v, w) == Run(plan, u, v + w) = Run(plan, u, v) \o Run(plan, u + v, w)

(***************************************************************************)
(* A run can be cut at any element.                                        *)
(***************************************************************************)
LEMMA RunSplits ==
    ASSUME NEW plan, Writable(plan), NEW u \in Nat, NEW v \in Nat, NEW w \in Nat
    PROVE  Splits(plan, u, v, w)
<1> DEFINE Good(x) == Run(plan, u, v + x) = Run(plan, u, v) \o Run(plan, u + v, x)
           B == {x \in Nat : ~Good(x)}
<1> SUFFICES ASSUME B # {} PROVE FALSE
  BY DEF Splits
<1>1. B \subseteq Nat
  OBVIOUS
<1>2. PICK x \in B : \A y \in B : x <= y
  <2> HIDE DEF B
  <2> QED
    BY <1>1, SmallestNat
<1>3. x \in Nat /\ ~Good(x)
  OBVIOUS
<1>4. Good(0)
  <2>1. Run(plan, u + v, 0) = <<>> /\ Run(plan, u, v) \in Seq(Byte) /\ v + 0 = v
    <3>1. u + v \in Nat
      OBVIOUS
    <3> QED
      BY <3>1, RunNext, RunTypes
  <2> QED
    BY <2>1, ConcatEmptySeq
<1>5. x # 0
  BY <1>3, <1>4
<1>6. /\ x - 1 \in Nat /\ (x - 1) + 1 = x /\ ~(x <= x - 1)
      /\ u + v \in Nat /\ v + (x - 1) \in Nat /\ (v + (x - 1)) + 1 = v + x
      /\ u + (v + (x - 1)) + 1 = (u + v) + (x - 1) + 1
  BY <1>3, <1>5
<1>7. Good(x - 1)
  <2>1. x - 1 \notin B
    <3> HIDE DEF B
    <3> QED
      BY <1>2, <1>6
  <2> HIDE DEF Good
  <2> QED
    BY <1>6, <2>1
<1> DEFINE e == Element(plan, (u + v) + (x - 1) + 1)
<1>8. Run(plan, u, v + x) = Run(plan, u, v + (x - 1)) \o Bytes(plan, e)
  <2>1. Run(plan, u, (v + (x - 1)) + 1) =
        Run(plan, u, v + (x - 1)) \o Bytes(plan, Element(plan, u + (v + (x - 1)) + 1))
    <3> HIDE DEF B, Good
    <3> QED
      BY <1>6, RunNext
  <2> QED
    BY <1>6, <2>1
<1>9. Run(plan, u + v, x) = Run(plan, u + v, x - 1) \o Bytes(plan, e)
  <2>1. Run(plan, u + v, (x - 1) + 1) = Run(plan, u + v, x - 1) \o Bytes(plan, e)
    <3> HIDE DEF B, Good
    <3> QED
      BY <1>6, RunNext
  <2> QED
    BY <1>6, <2>1
<1>10. Bytes(plan, e) \in Seq(Byte)
  <2>1. e \in Elements
    BY <1>6, ElementTypes
  <2> HIDE DEF e
  <2> QED
    BY <2>1, BytesType
<1>11. Run(plan, u, v) \in Seq(Byte) /\ Run(plan, u + v, x - 1) \in Seq(Byte)
  BY <1>6, RunTypes
<1> HIDE DEF B, e
<1>12. Good(x)
  <2> DEFINE r == Run(plan, u, v)
             s == Run(plan, u + v, x - 1)
             t == Bytes(plan, e)
  <2>1. Run(plan, u, v + x) = (r \o s) \o t
    BY <1>7, <1>8
  <2>2. r \o (s \o t) = (r \o s) \o t
    <3>1. r \in Seq(Byte) /\ s \in Seq(Byte) /\ t \in Seq(Byte)
      BY <1>10, <1>11
    <3> HIDE DEF r, s, t
    <3> QED
      BY <3>1, ConcatAssociative
  <2> QED
    BY <1>9, <2>1, <2>2
<1> QED
  BY <1>3, <1>12

(***************************************************************************)
(* The first v + w elements are the first v, and w more.                   *)
(***************************************************************************)
LEMMA FirstRun ==
    ASSUME NEW plan, Writable(plan), NEW v \in Nat, NEW w \in Nat, NEW s, s = v + w
    PROVE  Run(plan, 0, s) = Run(plan, 0, v) \o Run(plan, v, w)
<1>1. Splits(plan, 0, v, w)
  BY RunSplits
<1>2. 0 + v = v
  OBVIOUS
<1> QED
  BY <1>1, <1>2 DEF Splits

(***************************************************************************)
(* The first v elements have as many bytes as rangeBytes announces, so the *)
(* array has JSONSize bytes.                                               *)
(***************************************************************************)
LEMMA RunLength ==
    ASSUME MaxInt \in Nat \ {0}, NEW plan, Writable(plan), NEW v \in 1..plan.n
    PROVE  Len(Run(plan, 0, v)) = rangeBytes(plan, 1, v)
<1> DEFINE F == [x \in Nat |-> Len(Run(plan, 0, x))]
           f == [x \in Nat |-> ElementSize(plan, x)]
<1>1. v \in Nat /\ plan.n \in Nat
  BY DEF Writable
<1>2. \A x \in Nat : F[x] \in Nat
  BY RunTypes
<1>3. \A x \in 1..v : f[x] \in Nat /\ F[x] = F[x - 1] + f[x]
  <2> TAKE x \in 1..v
  <2>1. x \in Nat /\ x - 1 \in Nat /\ (x - 1) + 1 = x /\ 0 + (x - 1) + 1 = x /\ 0 \in Nat
    OBVIOUS
  <2> DEFINE e == Element(plan, x)
  <2>2. e \in Elements
    BY <2>1, ElementTypes
  <2>3. Run(plan, 0, x) = Run(plan, 0, x - 1) \o Bytes(plan, e)
    <3>1. Run(plan, 0, (x - 1) + 1) =
          Run(plan, 0, x - 1) \o Bytes(plan, Element(plan, 0 + (x - 1) + 1))
      BY <2>1, RunNext
    <3> QED
      BY <2>1, <3>1
  <2>4. Run(plan, 0, x - 1) \in Seq(Byte)
    BY <2>1, RunTypes
  <2> HIDE DEF e
  <2>5. /\ Bytes(plan, e) \in Seq(Byte) /\ ElementBytes(plan, e) \in Nat
        /\ Len(Bytes(plan, e)) = ElementBytes(plan, e)
    BY <2>2, BytesType
  <2>6. Len(Run(plan, 0, x)) = Len(Run(plan, 0, x - 1)) + ElementBytes(plan, e)
    BY <2>3, <2>4, <2>5
  <2>7. f[x] = ElementBytes(plan, e)
    BY <2>1 DEF ElementSize, e
  <2> QED
    BY <2>1, <2>5, <2>6, <2>7
<1>4. Telescopes(f, F, 1, v)
  <2> HIDE DEF f, F
  <2> QED
    BY <1>1, <1>2, <1>3 DEF Telescopes
<1>5. SumOver(f, 1..v) = F[v] - F[0]
  <2>1. 1 \in Nat \ {0} /\ 1 <= v + 1 /\ 1 - 1 = 0
    OBVIOUS
  <2> HIDE DEF f, F
  <2>2. SumOver(f, 1..v) = F[v] - F[1 - 1]
    BY <1>1, <1>4, <2>1, Telescope
  <2> QED
    BY <2>1, <2>2
<1>6. F[0] = 0 /\ F[v] = Len(Run(plan, 0, v))
  <2>1. Run(plan, 0, 0) = <<>>
    BY RunNext
  <2> QED
    BY <1>1, <2>1
<1>7. ListBytes(plan, 1, v) = SumOver(f, 1..v)
  BY <1>1, ListBytesSum
<1>8. rangeBytes(plan, 1, v) = ListBytes(plan, 1, v)
  BY RangeIsList DEF Writable
<1>9. F[v] \in Nat
  BY <1>1, <1>2
<1> HIDE DEF f, F
<1> QED
  BY <1>5, <1>6, <1>7, <1>8, <1>9

-----------------------------------------------------------------------------
(***************************************************************************)
(* The periods of an array whose elements repeat.                          *)
(***************************************************************************)
\* The period of writePeriodic.
Period(plan) == Min2(Max2(plan.a, plan.b), plan.n)

\* One divisor is 1.
Repeats(plan) == Min2(plan.a, plan.b) = 1

\* The first j periods.
Whole(plan, j) == Run(plan, 0, j * Period(plan))

(***************************************************************************)
(* A period is a run of the array.                                         *)
(***************************************************************************)
LEMMA PeriodType ==
    ASSUME NEW plan, Writable(plan)
    PROVE  /\ Period(plan) \in 1..plan.n
           /\ plan.n \in Nat
           /\ \A j \in Nat : j * Period(plan) \in Nat
BY DEF Period, Min2, Max2, Writable, PlanOK

(***************************************************************************)
(* Multiples of m do not change what m divides.                            *)
(***************************************************************************)
LEMMA SameRemainder ==
    ASSUME NEW m \in Nat \ {0}, NEW j \in Nat, NEW x \in Nat
    PROVE  (j * m + x) % m = 0 <=> x % m = 0
<1>1. j * m \in Nat /\ j * m + x \in Nat
  OBVIOUS
<1>2. Divides(m, j * m)
  <2>1. Divides(m, m)
    BY DEF Divides
  <2>2. m * j = j * m
    OBVIOUS
  <2>3. Divides(m, m * j)
    BY <2>1, DividesSums
  <2> QED
    BY <2>2, <2>3
<1> DEFINE y == j * m
<1>3. Divides(m, x) => Divides(m, y + x)
  <2> HIDE DEF y
  <2> QED
    BY <1>1, <1>2, DividesSums DEF y
<1>4. Divides(m, y + x) => Divides(m, x)
  <2>1. (y + x) - y = x /\ y + x \in Int /\ y \in Int
    BY <1>1
  <2> HIDE DEF y
  <2>2. ASSUME Divides(m, y + x) PROVE Divides(m, (y + x) - y)
    BY <1>2, <2>1, <2>2, DividesSums DEF y
  <2> QED
    BY <2>1, <2>2
<1> QED
  BY <1>1, <1>3, <1>4, DividesIff

(***************************************************************************)
(* If one divisor is 1, the elements repeat with the larger one.           *)
(***************************************************************************)
LEMMA ElementRepeats ==
    ASSUME NEW plan, Writable(plan), Repeats(plan),
           NEW j \in Nat, NEW x \in Nat, Period(plan) < plan.n
    PROVE  Element(plan, j * Period(plan) + x) = Element(plan, x)
<1>1. plan.a \in Nat \ {0} /\ plan.b \in Nat \ {0}
  BY DEF Writable, PlanOK
<1> DEFINE m == Period(plan)
<1>2. \/ plan.a = 1 /\ plan.b = m
      \/ plan.b = 1 /\ plan.a = m
  BY <1>1, PeriodType DEF Period, Repeats, Min2, Max2
<1>3. m \in Nat \ {0} /\ j * m + x \in Nat
  BY PeriodType
<1> HIDE DEF m
<1>4. (j * m + x) % m = 0 <=> x % m = 0
  BY <1>3, SameRemainder
<1>5. (j * m + x) % 1 = 0 /\ x % 1 = 0
  BY <1>3
<1>6. Element(plan, j * m + x) = Element(plan, x)
  BY <1>2, <1>4, <1>5 DEF Element
<1> QED
  BY <1>6 DEF m

(***************************************************************************)
(* So a run after j periods is the same run at the start.                  *)
(***************************************************************************)
LEMMA RunRepeats ==
    ASSUME NEW plan, Writable(plan), Repeats(plan), NEW j \in Nat, NEW t \in Nat,
           j * Period(plan) + t <= plan.n
    PROVE  Run(plan, j * Period(plan), t) = Run(plan, 0, t)
<1> DEFINE u == j * Period(plan)
<1>1. u \in Nat /\ Period(plan) \in 1..plan.n /\ plan.n \in Nat
  BY PeriodType
<1>2. CASE t = 0
  BY <1>1, <1>2, RunNext
<1>3. CASE j = 0
  <2>1. u = 0
    BY <1>1, <1>3
  <2> QED
    BY <2>1
<1>4. CASE t # 0 /\ j # 0
  <2>1. Period(plan) < plan.n
    <3>1. Period(plan) <= u
      BY <1>1, <1>4
    <3> HIDE DEF u
    <3> QED
      BY <1>1, <1>4, <3>1 DEF u
  <2>2. \A x \in 1..t : Element(plan, u + x) = Element(plan, 0 + x)
    BY <2>1, ElementRepeats
  <2> HIDE DEF u
  <2>3. Elems(plan, u, t) = Elems(plan, 0, t)
    BY <2>2 DEF Elems
  <2> QED
    BY <2>3 DEF Run, u
<1> QED
  BY <1>2, <1>3, <1>4

(***************************************************************************)
(* j periods, then t elements more, are one run.                           *)
(***************************************************************************)
LEMMA RunOfPeriods ==
    ASSUME NEW plan, Writable(plan), Repeats(plan), NEW j \in Nat, NEW t \in Nat,
           j * Period(plan) + t <= plan.n
    PROVE  Run(plan, 0, j * Period(plan) + t) = Whole(plan, j) \o Run(plan, 0, t)
<1> DEFINE u == j * Period(plan)
<1>1. u \in Nat
  BY PeriodType
<1>2. Run(plan, 0, u + t) = Run(plan, 0, u) \o Run(plan, u, t)
  <2> HIDE DEF u
  <2> QED
    BY <1>1, FirstRun
<1>3. Run(plan, u, t) = Run(plan, 0, t)
  BY RunRepeats
<1> HIDE DEF u
<1>4. Run(plan, 0, u + t) = Run(plan, 0, u) \o Run(plan, 0, t)
  BY <1>1, <1>2, <1>3
<1> QED
  BY <1>4 DEF Whole, u

(***************************************************************************)
(* j + 1 periods are j periods and one more.                               *)
(***************************************************************************)
LEMMA WholeNext ==
    ASSUME NEW plan, Writable(plan), Repeats(plan), NEW j \in Nat,
           (j + 1) * Period(plan) <= plan.n
    PROVE  Whole(plan, j + 1) = Whole(plan, j) \o Whole(plan, 1)
<1> DEFINE m == Period(plan)
<1>1. m \in Nat /\ (j + 1) * m = j * m + m /\ 1 * m = m
  BY PeriodType
<1>2. Run(plan, 0, j * m + m) = Whole(plan, j) \o Run(plan, 0, m)
  BY <1>1, RunOfPeriods
<1> HIDE DEF m
<1>3. Run(plan, 0, (j + 1) * m) = Whole(plan, j) \o Run(plan, 0, 1 * m)
  BY <1>1, <1>2
<1> QED
  BY <1>3 DEF Whole, m

\* The copies of MakeChunk.
Copies(text, j) == FlattenSeq([x \in 1..j |-> text])

(***************************************************************************)
(* Copies of the first period are as many periods of the array.            *)
(***************************************************************************)
LEMMA CopiesAreWhole ==
    ASSUME NEW plan, Writable(plan), Repeats(plan), NEW j \in Nat,
           j * Period(plan) <= plan.n
    PROVE  /\ Copies(Whole(plan, 1), j) = Whole(plan, j)
           /\ Len(Whole(plan, j)) = j * Len(Whole(plan, 1))
<1> DEFINE text == Whole(plan, 1)
           m == Period(plan)
           Good(x) == /\ Copies(text, x) = Whole(plan, x)
                      /\ Len(Whole(plan, x)) = x * Len(text)
           B == {x \in 0..j : ~Good(x)}
<1>1. \A x \in Nat : x * m \in Nat /\ Whole(plan, x) \in Seq(Byte)
  BY PeriodType, RunTypes DEF Whole
<1> SUFFICES ASSUME B # {} PROVE FALSE
  OBVIOUS
<1>2. B \subseteq Nat
  OBVIOUS
<1>3. PICK x \in B : \A y \in B : x <= y
  <2> HIDE DEF B
  <2> QED
    BY <1>2, SmallestNat
<1>4. x \in 0..j /\ ~Good(x)
  OBVIOUS
<1>5. Good(0)
  <2>1. Whole(plan, 0) = <<>>
    <3>1. 0 * m = 0
      BY PeriodType
    <3> QED
      BY <3>1, RunNext DEF Whole
  <2>2. Copies(text, 0) = <<>>
    <3>1. [y \in 1..0 |-> text] = <<>> /\ Len(<<>>) = 0
      OBVIOUS
    <3> DEFINE s == [y \in 1..0 |-> text]
    <3> HIDE DEF s
    <3>2. s = <<>> => FlattenSeq(s) = <<>>
      BY <3>1 DEF FlattenSeq
    <3> QED
      BY <3>1, <3>2 DEF Copies, s
  <2>3. Len(text) \in Nat
    BY <1>1
  <2> HIDE DEF text
  <2>4. 0 * Len(text) = 0 /\ Len(<<>>) = 0
    BY <2>3
  <2> QED
    BY <2>1, <2>2, <2>4
<1>6. x # 0
  BY <1>4, <1>5
<1>7. /\ x - 1 \in Nat /\ x - 1 \in 0..j /\ (x - 1) + 1 = x /\ ~(x <= x - 1)
  BY <1>4, <1>6
<1>8. Good(x - 1)
  <2>1. x - 1 \notin B
    <3> HIDE DEF B
    <3> QED
      BY <1>3, <1>7
  <2> HIDE DEF Good
  <2> QED
    BY <1>7, <2>1
<1> HIDE DEF B
<1>9. Whole(plan, x) = Whole(plan, x - 1) \o text
  <2>1. x * m <= j * m
    <3>1. j - x \in Nat /\ m \in Nat
      BY <1>4, PeriodType
    <3>2. (j - x) * m \in Nat
      BY <3>1
    <3>3. (j - x) * m = j * m - x * m
      BY <1>4, <3>1
    <3>4. j * m \in Nat /\ x * m \in Nat
      BY <1>1, <1>4
    <3> HIDE DEF m
    <3> QED
      BY <3>2, <3>3, <3>4
  <2>2. x * m <= plan.n
    <3>1. j * m \in Nat /\ x * m \in Nat
      BY <1>1, <1>4
    <3>2. j * m <= plan.n /\ plan.n \in Nat
      BY PeriodType
    <3> HIDE DEF m
    <3> QED
      BY <2>1, <3>1, <3>2
  <2>3. ((x - 1) + 1) * Period(plan) <= plan.n
    BY <1>7, <2>2
  <2>4. Whole(plan, (x - 1) + 1) = Whole(plan, x - 1) \o Whole(plan, 1)
    <3> HIDE DEF Good, text, m
    <3> QED
      BY <1>7, <2>3, WholeNext
  <2> QED
    BY <1>7, <2>4
<1>10. Copies(text, x) = Copies(text, x - 1) \o text
  <2> DEFINE f == [y \in Nat |-> text]
  <2>1. \A y \in 1..(x-1)+1 : f[y] \in Seq(Byte)
    BY <1>1, <1>7
  <2>2. FlattenSeq([y \in 1..(x-1)+1 |-> f[y]]) =
        FlattenSeq([y \in 1..x-1 |-> f[y]]) \o f[(x - 1) + 1]
    <3> HIDE DEF f, Good, text, m
    <3> QED
      BY <1>7, <2>1, FlattenNext
  <2>3. /\ [y \in 1..(x-1)+1 |-> f[y]] = [y \in 1..x |-> text]
        /\ [y \in 1..x-1 |-> f[y]] = [y \in 1..x-1 |-> text]
        /\ f[(x - 1) + 1] = text
    <3> HIDE DEF text
    <3> QED
      BY <1>7
  <2> QED
    BY <2>2, <2>3 DEF Copies
<1>11. Len(Whole(plan, x)) = x * Len(text)
  <2>1. Whole(plan, x - 1) \in Seq(Byte) /\ text \in Seq(Byte)
    BY <1>1, <1>7
  <2>2. Len(Whole(plan, x)) = Len(Whole(plan, x - 1)) + Len(text)
    <3> HIDE DEF text
    <3> QED
      BY <1>9, <2>1
  <2>3. Len(text) \in Nat
    BY <2>1
  <2>4. Len(Whole(plan, x)) = (x - 1) * Len(text) + Len(text)
    BY <1>8, <2>2
  <2> HIDE DEF text
  <2>5. (x - 1) * Len(text) + Len(text) = x * Len(text)
    BY <1>7, <2>3
  <2> QED
    BY <2>4, <2>5
<1>12. Good(x)
  <2> HIDE DEF text, m
  <2> QED
    BY <1>8, <1>9, <1>10, <1>11
<1> QED
  BY <1>4, <1>12

(***************************************************************************)
(* The first bytes of a run are a shorter run.                             *)
(***************************************************************************)
LEMMA RunIsPrefix ==
    ASSUME NEW plan, Writable(plan), NEW s \in Nat, NEW t \in Nat, s <= t
    PROVE  SubSeq(Run(plan, 0, t), 1, Len(Run(plan, 0, s))) = Run(plan, 0, s)
<1>1. t - s \in Nat /\ t = s + (t - s)
  OBVIOUS
<1> DEFINE x == Run(plan, 0, s)
           y == Run(plan, s, t - s)
<1>2. Run(plan, 0, t) = x \o y
  BY <1>1, FirstRun
<1>3. x \in Seq(Byte) /\ y \in Seq(Byte)
  BY <1>1, RunTypes
<1>4. SubSeq(x \o y, 1, Len(x)) = x
  <2> HIDE DEF x, y
  <2> QED
    BY <1>3
<1> QED
  BY <1>2, <1>4

-----------------------------------------------------------------------------
(***************************************************************************)
(* What was sent. The comma of the first element is the bracket.           *)
(***************************************************************************)
Regroup(x, y, z) == (x \o y) \o z = x \o (y \o z)

(***************************************************************************)
(* The parentheses of a concatenation do not matter.                       *)
(***************************************************************************)
LEMMA Associative ==
    ASSUME NEW x \in Seq(Byte), NEW y \in Seq(Byte), NEW z \in Seq(Byte)
    PROVE  Regroup(x, y, z)
BY ConcatAssociative DEF Regroup

(***************************************************************************)
(* The bracket changes one byte of a text that has one, and no length.     *)
(***************************************************************************)
LEMMA OpenedFacts ==
    ASSUME NEW text \in Seq(Byte), text # <<>>, NEW rest \in Seq(Byte)
    PROVE  /\ Opened(text) \in Seq(Byte)
           /\ Len(Opened(text)) = Len(text)
           /\ Opened(text \o rest) = Opened(text) \o rest
<1> DEFINE b == Bracket("[")
<1>1. b \in Byte
  BY DEF Bracket, Byte
<1>2. Len(text) \in Nat \ {0} /\ 1 \in 1..Len(text)
  BY EmptySeq
<1> HIDE DEF b
<1>3. /\ [text EXCEPT ![1] = b] \in Seq(Byte)
      /\ Len([text EXCEPT ![1] = b]) = Len(text)
  BY <1>1, <1>2
<1>4. [text \o rest EXCEPT ![1] = b] = [text EXCEPT ![1] = b] \o rest
  <2> DEFINE x == [text \o rest EXCEPT ![1] = b]
             y == [text EXCEPT ![1] = b] \o rest
  <2>1. /\ text \o rest \in Seq(Byte) /\ Len(text \o rest) = Len(text) + Len(rest)
        /\ 1 \in 1..Len(text \o rest)
    BY <1>2
  <2>2. /\ x \in Seq(Byte) /\ Len(x) = Len(text) + Len(rest)
        /\ \A j \in 1..Len(x) : x[j] = IF j = 1 THEN b ELSE (text \o rest)[j]
    <3> DEFINE z == text \o rest
    <3>1. z \in Seq(Byte) /\ 1 \in 1..Len(z) /\ Len(z) = Len(text) + Len(rest)
      BY <2>1
    <3> HIDE DEF z
    <3>2. /\ [z EXCEPT ![1] = b] \in Seq(Byte)
          /\ Len([z EXCEPT ![1] = b]) = Len(z)
          /\ \A j \in 1..Len(z) : [z EXCEPT ![1] = b][j] = IF j = 1 THEN b ELSE z[j]
      BY <1>1, <3>1
    <3> QED
      BY <3>1, <3>2 DEF z
  <2>3. /\ y \in Seq(Byte) /\ Len(y) = Len(text) + Len(rest)
    BY <1>3
  <2>4. \A j \in 1..Len(x) : x[j] = y[j]
    <3> TAKE j \in 1..Len(x)
    <3>1. j \in 1..Len(text) + Len(rest)
      BY <2>2
    <3>2. x[j] = IF j = 1 THEN b ELSE (text \o rest)[j]
      BY <2>2
    <3>3. CASE j = 1
      BY <1>2, <1>3, <3>2, <3>3
    <3>4. CASE j # 1
      BY <1>2, <1>3, <3>1, <3>2, <3>4
    <3> QED
      BY <3>3, <3>4
  <2> HIDE DEF x, y
  <2>5. x = y
    BY <2>2, <2>3, <2>4, SeqEqual
  <2> QED
    BY <2>5 DEF x, y
<1> QED
  BY <1>3, <1>4 DEF Opened, b

\* What the client has after m elements.
Sent(plan, m) == IF m = 0 THEN <<>> ELSE Opened(Run(plan, 0, m))

\* The bytes of a text after m elements.
Piece(m, text) == IF m = 0 THEN Opened(text) ELSE text

(***************************************************************************)
(* w elements more after m elements.                                       *)
(***************************************************************************)
LEMMA SentNext ==
    ASSUME NEW plan, Writable(plan), NEW m \in Nat, NEW w \in Nat \ {0}, NEW s, s = m + w
    PROVE  /\ Sent(plan, m) \in Seq(Byte)
           /\ Piece(m, Run(plan, m, w)) \in Seq(Byte)
           /\ Sent(plan, s) = Sent(plan, m) \o Piece(m, Run(plan, m, w))
<1> DEFINE x == Run(plan, 0, m)
           y == Run(plan, m, w)
<1>1. x \in Seq(Byte) /\ y \in Seq(Byte) /\ m <= Len(x) /\ w <= Len(y)
  BY RunTypes
<1>2. Run(plan, 0, s) = x \o y
  BY FirstRun
<1>3. s # 0
  OBVIOUS
<1>4. y # <<>> /\ (m # 0 => x # <<>>)
  <2> HIDE DEF x, y
  <2> QED
    BY <1>1, EmptySeq
<1>5. Sent(plan, s) = Opened(x \o y)
  BY <1>2, <1>3 DEF Sent
<1>6. CASE m = 0
  <2>1. x = <<>>
    BY <1>6, RunNext
  <2>2. Sent(plan, m) = <<>> /\ Piece(m, y) = Opened(y)
    BY <1>6 DEF Sent, Piece
  <2> HIDE DEF x, y
  <2>3. x \o y = y
    BY <1>1, <2>1, ConcatEmptySeq
  <2>4. Opened(y) \in Seq(Byte) /\ <<>> \in Seq(Byte)
    BY <1>1, <1>4, OpenedFacts
  <2>5. <<>> \o Opened(y) = Opened(y)
    BY <2>4, ConcatEmptySeq
  <2> QED
    BY <1>5, <2>2, <2>3, <2>4, <2>5 DEF y
<1>7. CASE m # 0
  <2>1. Sent(plan, m) = Opened(x) /\ Piece(m, y) = y
    BY <1>7 DEF Sent, Piece
  <2> HIDE DEF x, y
  <2>2. Opened(x) \in Seq(Byte) /\ Opened(x \o y) = Opened(x) \o y
    BY <1>1, <1>4, <1>7, OpenedFacts
  <2> QED
    BY <1>1, <1>5, <2>1, <2>2 DEF y
<1> QED
  BY <1>6, <1>7

(***************************************************************************)
(* The array is what is sent with all elements, and the bracket.           *)
(***************************************************************************)
LEMMA ArrayIsSent ==
    ASSUME NEW plan, Writable(plan)
    PROVE  /\ Sent(plan, plan.n) \in Seq(Byte)
           /\ Array(plan) = Sent(plan, plan.n) \o <<Bracket("]")>>
           /\ <<Bracket("]")>> \in Seq(Byte)
           /\ Len(Sent(plan, plan.n)) = Len(Run(plan, 0, plan.n))
<1>1. plan.n \in Nat \ {0}
  BY DEF Writable
<1> DEFINE x == Run(plan, 0, plan.n)
           b == Bracket("]")
<1>2. x \in Seq(Byte) /\ plan.n <= Len(x)
  BY <1>1, RunTypes
<1>3. b \in Byte
  BY DEF Byte, Bracket
<1>4. [y \in 1..plan.n |-> Element(plan, y)] = Elems(plan, 0, plan.n)
  <2>1. \A y \in 1..plan.n : 0 + y = y
    OBVIOUS
  <2> QED
    BY <2>1 DEF Elems
<1>5. Array(plan) = Append(Opened(x), b)
  BY <1>4 DEF Array, Run
<1>6. Sent(plan, plan.n) = Opened(x)
  BY <1>1 DEF Sent
<1> HIDE DEF x, b
<1>7. x # <<>>
  BY <1>1, <1>2, EmptySeq
<1>8. Opened(x) \in Seq(Byte) /\ Len(Opened(x)) = Len(x)
  BY <1>2, <1>7, OpenedFacts, EmptySeq
<1>9. Append(Opened(x), b) = Opened(x) \o <<b>> /\ <<b>> \in Seq(Byte)
  BY <1>3, <1>8, AppendIsConcat
<1> QED
  BY <1>5, <1>6, <1>8, <1>9 DEF b, x

(***************************************************************************)
(* What was sent begins the array.                                         *)
(***************************************************************************)
LEMMA ArraySplits ==
    ASSUME NEW plan, Writable(plan), NEW m \in Nat, m <= plan.n
    PROVE  /\ Sent(plan, m) \in Seq(Byte)
           /\ \E rest \in Seq(Byte) : Array(plan) = Sent(plan, m) \o rest
<1> DEFINE b == <<Bracket("]")>>
<1>1. plan.n \in Nat /\ b \in Seq(Byte) /\ Array(plan) = Sent(plan, plan.n) \o b
  BY ArrayIsSent DEF Writable
<1>2. CASE m = plan.n
  BY <1>1, <1>2, ArrayIsSent
<1>3. CASE m # plan.n
  <2> DEFINE w == plan.n - m
             x == Sent(plan, m)
             y == Piece(m, Run(plan, m, w))
  <2>1. w \in Nat \ {0} /\ plan.n = m + w
    BY <1>1, <1>3
  <2>2. x \in Seq(Byte) /\ y \in Seq(Byte) /\ Sent(plan, plan.n) = x \o y
    <3> HIDE DEF w
    <3> QED
      BY <2>1, SentNext
  <2> HIDE DEF x, y, b
  <2>3. (x \o y) \o b = x \o (y \o b)
    <3>1. x \in Seq(Byte) /\ y \in Seq(Byte) /\ b \in Seq(Byte)
      BY <1>1, <2>2
    <3> QED
      BY <3>1, Associative DEF Regroup
  <2>4. y \o b \in Seq(Byte)
    BY <1>1, <2>2
  <2> QED
    BY <1>1, <2>2, <2>3, <2>4 DEF x
<1> QED
  BY <1>2, <1>3

(***************************************************************************)
(* A write that the client gets m bytes of.                                *)
(***************************************************************************)
LEMMA WritePrefix ==
    ASSUME NEW had \in Seq(Byte), NEW text \in Seq(Byte), NEW rest \in Seq(Byte),
           NEW m \in 0..Len(text)
    PROVE  LET has == had \o SubSeq(text, 1, m)
           IN  /\ IsPrefix(had, has)
               /\ IsPrefix(has, (had \o text) \o rest)
               /\ Len(has) = Len(had) + m
<1> DEFINE t == SubSeq(text, 1, m)
           u == SubSeq(text, m + 1, Len(text))
<1>1. /\ t \in Seq(Byte) /\ Len(t) = m /\ u \in Seq(Byte)
  <2>1. \A j \in 1..m : text[j] \in Byte
    OBVIOUS
  <2>2. \A j \in (m+1)..Len(text) : text[j] \in Byte
    OBVIOUS
  <2> QED
    BY <2>1, <2>2, SubSeqProperties
<1>2. t \o u = text
  <2>1. /\ 1 \in 1..Len(text)+1 /\ m \in 1-1..Len(text)
        /\ Len(text) \in m..Len(text)
    OBVIOUS
  <2>2. t \o u = SubSeq(text, 1, Len(text))
    BY <2>1, ConcatAdjacentSubSeq
  <2> HIDE DEF t, u
  <2> QED
    BY <2>2, SubSeqFull
<1> HIDE DEF t, u
<1>3. ASSUME NEW x \in Seq(Byte), NEW y \in Seq(Byte)
      PROVE  IsPrefix(x, x \o y)
  <2>1. Len(x) \in Nat /\ Len(y) \in Nat /\ Len(x \o y) = Len(x) + Len(y)
    OBVIOUS
  <2>2. SubSeq(x \o y, 1, Len(x)) = x
    OBVIOUS
  <2>3. SubSeq(x, 1, Len(x)) = x
    OBVIOUS
  <2> QED
    BY <2>1, <2>2, <2>3 DEF IsPrefix
<1>4. IsPrefix(had, had \o t)
  BY <1>1, <1>3
<1>5. (had \o text) \o rest = (had \o t) \o (u \o rest)
  <2>1. t \in Seq(Byte) /\ u \in Seq(Byte)
    BY <1>1
  <2>2. had \o t \in Seq(Byte)
    BY <2>1, ConcatProperties
  <2>3. Regroup(had, t, u)
    BY <2>1, Associative
  <2>4. Regroup(had \o t, u, rest)
    BY <2>1, <2>2, Associative
  <2> QED
    BY <1>2, <2>3, <2>4 DEF Regroup
<1>6. IsPrefix(had \o t, (had \o t) \o (u \o rest))
  <2>1. had \o t \in Seq(Byte) /\ u \o rest \in Seq(Byte)
    BY <1>1
  <2> QED
    BY <1>3, <2>1
<1>7. Len(had \o t) = Len(had) + m
  <2>1. had \in Seq(Byte) /\ t \in Seq(Byte)
    BY <1>1
  <2> QED
    BY <1>1, <2>1, ConcatProperties
<1> QED
  BY <1>4, <1>5, <1>6, <1>7 DEF t

-----------------------------------------------------------------------------
(***************************************************************************)
(* The generator: the counters stay in step.                               *)
(***************************************************************************)
\* next is the first multiple of m at or after x.
IsNext(next, m, x) == next % m = 0 /\ x <= next /\ next < x + m

\* c is the place, and next1 and next2 are the next multiples.
GenInv ==
    /\ req \in Requests
    /\ i \in Nat \ {0}
    /\ c = i
    /\ next1 \in Nat /\ IsNext(next1, pl.a, i)
    /\ next2 \in Nat /\ IsNext(next2, pl.b, i)
    /\ line \in Seq(Elements)

\* The last element began at stop or before it.
BufInv ==
    /\ pos \in Nat
    /\ pos <= stop + maxElem

\* The invariant of the generator.
IInv == GenInv /\ ElementsAreRight /\ BufInv

-----------------------------------------------------------------------------
(***************************************************************************)
(* Facts about the remainder.                                              *)
(***************************************************************************)
LEMMA Quotient ==
    ASSUME NEW m \in Nat \ {0}, NEW x \in Nat, x % m = 0
    PROVE  \E q \in Nat : x = q * m
<1>1. x = m * (x \div m) + (x % m) /\ x \div m \in Nat
  BY SMT
<1>2. x = (x \div m) * m
  BY <1>1, SMT
<1> QED
  BY <1>1, <1>2

(***************************************************************************)
(* A multiple has no remainder.                                            *)
(***************************************************************************)
LEMMA MultipleOf ==
    ASSUME NEW m \in Nat \ {0}, NEW q \in Nat
    PROVE  (q * m) % m = 0
BY SMT

(***************************************************************************)
(* No multiple lies between 0 and m.                                       *)
(***************************************************************************)
LEMMA NoMultipleBetween ==
    ASSUME NEW m \in Nat \ {0}, NEW q \in Int, 0 < q * m, q * m < m
    PROVE  FALSE
<1>1. q >= 1
  BY SMT
<1>2. q * m >= m
  BY <1>1, SMT
<1> QED
  BY <1>2

(***************************************************************************)
(* From one multiple to the next.                                          *)
(***************************************************************************)
LEMMA NextMultiple ==
    ASSUME NEW m \in Nat \ {0}, NEW x \in Nat, NEW next \in Nat, IsNext(next, m, x)
    PROVE  /\ x % m = 0 <=> x = next
           /\ x = next => IsNext(next + m, m, x + 1)
           /\ x = next /\ 0 < x => m <= x
           /\ x # next => IsNext(next, m, x + 1)
<1>1. PICK q \in Nat : next = q * m
  BY Quotient DEF IsNext
<1>2. (next + m) % m = 0
  <2>1. next + m = (q + 1) * m
    BY <1>1, SMT
  <2> QED
    BY <2>1, MultipleOf
<1>3. ASSUME 0 < x, x = next, x < m PROVE FALSE
  BY <1>1, <1>3, NoMultipleBetween
<1>4. ASSUME x % m = 0, x # next PROVE FALSE
  <2>1. PICK r \in Nat : x = r * m
    BY <1>4, Quotient
  <2>2. next - x = (q - r) * m
    BY <1>1, <2>1, SMT
  <2>3. 0 < next - x /\ next - x < m
    BY <1>4 DEF IsNext
  <2> QED
    BY <2>2, <2>3, NoMultipleBetween
<1> QED
  BY <1>2, <1>3, <1>4 DEF IsNext

-----------------------------------------------------------------------------
(***************************************************************************)
(* What newPlan takes from a valid request.                                *)
(***************************************************************************)
LEMMA PlanFacts ==
    ASSUME req \in Requests
    PROVE  /\ pl.a \in Nat \ {0} /\ pl.b \in Nat \ {0}
           /\ pl.n \in 1..MaxInt /\ 2 * pl.n <= MaxInt
           /\ pl.a \in 0..MaxInt /\ pl.b \in 0..MaxInt
           /\ pl.e1 \in Nat /\ pl.e2 \in Nat /\ pl.e12 \in Nat
           /\ P \in Nat /\ hi \in Nat /\ hi <= pl.n
BY WriteAssumption DEF pl, newPlan, hi, P, Min2, Max2

(***************************************************************************)
(* No element is longer than maxElem.                                      *)
(***************************************************************************)
LEMMA MaxElemFacts ==
    ASSUME req \in Requests
    PROVE  /\ maxElem \in Nat
           /\ MaxNumElem <= maxElem
           /\ pl.e1 <= maxElem /\ pl.e2 <= maxElem /\ pl.e12 <= maxElem
           /\ BufLen \in Nat /\ StreamBuf + maxElem + 1 <= BufLen
<1>1. pl.e1 \in Nat /\ pl.e2 \in Nat /\ pl.e12 \in Nat
  BY PlanFacts
<1>2. MaxNumElem \in Nat /\ StreamBuf \in Nat /\ MaxReplElem \in Nat
  BY WriteAssumption
<1>3. /\ maxElem \in Nat
      /\ MaxNumElem <= maxElem
      /\ pl.e1 <= maxElem /\ pl.e2 <= maxElem /\ pl.e12 <= maxElem
  BY <1>1, <1>2 DEF maxElem, Max2
<1>4. BufLen \in Nat /\ StreamBuf + maxElem + 1 <= BufLen
  BY <1>2, <1>3 DEF BufLen, Max2
<1> QED
  BY <1>3, <1>4

(***************************************************************************)
(* The plan of each request is one that the facts about runs are about.    *)
(***************************************************************************)
LEMMA PlanWritable ==
    ASSUME req \in Requests
    PROVE  /\ Writable(pl)
           /\ MaxInt \in Nat \ {0}
           /\ P = Period(pl) /\ P \in 1..pl.n /\ pl.n \in Nat \ {0}
           /\ JSONSize(req) = rangeBytes(pl, 1, pl.n) + 1
<1>1. MaxInt \in Nat \ {0}
  BY WriteAssumption
<1>2. ValidParams(req)
  BY WriteAssumption DEF ValidParams
<1>3. PlanOK(pl)
  BY <1>1, <1>2, PlanIsOK DEF pl
<1>4. /\ pl.n = req.limit /\ pl.n \in Nat \ {0}
      /\ pl.e1 \in Nat \ {0} /\ pl.e2 \in Nat \ {0} /\ pl.e12 \in Nat \ {0}
  BY WriteAssumption DEF pl, newPlan
<1>5. Writable(pl)
  BY <1>3, <1>4 DEF Writable
<1>6. P = Period(pl)
  BY DEF P, Period
<1>7. JSONSize(req) = rangeBytes(pl, 1, pl.n) + 1
  BY <1>2, <1>4 DEF JSONSize, ValidParams, pl
<1> QED
  BY <1>1, <1>4, <1>5, <1>6, <1>7, PeriodType

(***************************************************************************)
(* stop is a number of bytes.                                              *)
(***************************************************************************)
LEMMA StopType ==
    ASSUME req \in Requests
    PROVE  stop \in Nat
<1>1. pb \in Nat
  <2>1. pb = Len(Run(pl, 0, P)) /\ Run(pl, 0, P) \in Seq(Byte)
    BY PlanWritable, RunLength, RunTypes DEF pb
  <2> QED
    BY <2>1
<1> QED
  BY <1>1, WriteAssumption DEF stop

(***************************************************************************)
(* What the invariant says of the generator.                               *)
(***************************************************************************)
LEMMA GenFacts ==
    ASSUME IInv
    PROVE  /\ req \in Requests
           /\ i \in Nat \ {0}
           /\ c = i
           /\ next1 \in Nat /\ IsNext(next1, pl.a, i)
           /\ next2 \in Nat /\ IsNext(next2, pl.b, i)
           /\ line \in Seq(Elements)
           /\ pos \in Nat
BY DEF IInv, GenInv, BufInv

(***************************************************************************)
(* The reference element, from the places of the next multiples.           *)
(***************************************************************************)
LEMMA ElementHere ==
    ASSUME GenInv
    PROVE  /\ i = next1 /\ i = next2 => Element(pl, i) = <<"e12", 0>>
           /\ i = next1 /\ i # next2 => Element(pl, i) = <<"e1", 0>>
           /\ i # next1 /\ i = next2 => Element(pl, i) = <<"e2", 0>>
           /\ i # next1 /\ i # next2 => Element(pl, i) = <<"number", i>>
<1>1. i % pl.a = 0 <=> i = next1
  BY PlanFacts, NextMultiple DEF GenInv
<1>2. i % pl.b = 0 <=> i = next2
  BY PlanFacts, NextMultiple DEF GenInv
<1> QED
  BY <1>1, <1>2 DEF Element

(***************************************************************************)
(* No element is longer than its plan says.                                *)
(***************************************************************************)
LEMMA ElementSizes ==
    ASSUME req \in Requests
    PROVE  /\ ElementBytes(pl, <<"e12", 0>>) = pl.e12
           /\ ElementBytes(pl, <<"e1", 0>>) = pl.e1
           /\ ElementBytes(pl, <<"e2", 0>>) = pl.e2
           /\ \A x \in 1..MaxInt : ElementBytes(pl, <<"number", x>>) \in 1..MaxNumElem
BY WriteAssumption DEF ElementBytes

-----------------------------------------------------------------------------
(***************************************************************************)
(* fill puts no element after the last one.                                *)
(***************************************************************************)
LEMMA FillingPlace ==
    ASSUME IInv, Filling
    PROVE  i <= pl.n
<1>1. req \in Requests /\ i \in Nat
  BY GenFacts
<1>2. hi \in Nat /\ hi <= pl.n /\ pl.n \in 1..MaxInt
  BY <1>1, PlanFacts
<1>3. i <= hi
  BY DEF Filling
<1>4. pl.n \in Int
  BY <1>2
<1> QED
  BY <1>1, <1>2, <1>3, <1>4

(***************************************************************************)
(* Put appends one element. It is the one of the reference, if it is the   *)
(* one for place i, and it fits, if it is not longer than maxElem.         *)
(***************************************************************************)
LEMMA PutKeeps ==
    ASSUME IInv, Filling, NEW e \in Elements, Put(e), e = Element(pl, i),
           ElementBytes(pl, e) \in 0..maxElem
    PROVE  /\ req' = req /\ pl' = pl /\ i' = i + 1 /\ c' = i'
           /\ line' \in Seq(Elements)
           /\ ElementsAreRight'
           /\ BufInv'
<1>1. req' = req /\ i' = i + 1 /\ c' = c + 1 /\ line' = Append(line, e)
  BY DEF Put
<1>2. pl' = pl
  BY <1>1 DEF pl
<1>3. line \in Seq(Elements) /\ i \in Nat /\ c = i
  BY GenFacts
<1>4. line' \in Seq(Elements)
  BY <1>1, <1>3
<1>5. Len(line) \in Nat /\ Len(line') = Len(line) + 1
  BY <1>1, <1>3
<1>6. line'[Len(line) + 1] = e /\ \A x \in 1..Len(line) : line'[x] = line[x]
  BY <1>1, <1>3
<1>7. \A x \in 1..Len(line) : line[x] = Element(pl, i - 1 - Len(line) + x)
  BY DEF IInv, ElementsAreRight
<1>8. ElementsAreRight'
  <2>1. SUFFICES ASSUME NEW x \in 1..Len(line')
                 PROVE  line'[x] = Element(pl, i' - 1 - Len(line') + x)
    BY <1>2 DEF ElementsAreRight
  <2>2. CASE x = Len(line) + 1
    <3>1. i' - 1 - Len(line') + x = i
      BY <1>1, <1>3, <1>5, <2>2
    <3> QED
      BY <1>6, <2>2, <3>1
  <2>3. CASE x \in 1..Len(line)
    <3>1. i' - 1 - Len(line') + x = i - 1 - Len(line) + x
      BY <1>1, <1>3, <1>5, <2>3
    <3> QED
      BY <1>6, <1>7, <2>3, <3>1
  <2> QED
    BY <1>5, <2>1, <2>2, <2>3
<1>9. BufInv'
  <2>1. pos' = pos + ElementBytes(pl, e)
    BY DEF Put
  <2>2. pos \in Nat /\ maxElem \in Nat /\ stop \in Nat
    BY GenFacts, MaxElemFacts, StopType
  <2>3. stop' = stop /\ maxElem' = maxElem
    BY <1>1 DEF stop, Periodic, pb, P, pl, maxElem
  <2>4. pos <= stop
    BY DEF Filling
  <2>5. pos' \in Nat /\ pos' <= stop + maxElem
    BY <2>1, <2>2, <2>4
  <2> QED
    BY <2>3, <2>5 DEF BufInv
<1> QED
  BY <1>1, <1>2, <1>3, <1>4, <1>8, <1>9

(***************************************************************************)
(* The other actions empty the buffer or leave the generator alone.        *)
(***************************************************************************)
LEMMA BufferEmptied ==
    ASSUME IInv, NextBuffer
    PROVE  IInv'
<1>1. /\ req' = req /\ i' = i /\ c' = c /\ next1' = next1 /\ next2' = next2
      /\ line' = <<>> /\ pos' = 0
  BY DEF NextBuffer
<1>2. pl' = pl
  BY <1>1 DEF pl
<1>3. GenInv'
  BY <1>1, <1>2 DEF IInv, GenInv
<1>4. ElementsAreRight'
  BY <1>1 DEF ElementsAreRight
<1>5. maxElem' = maxElem /\ stop' = stop
  BY <1>1 DEF maxElem, stop, Periodic, pb, P, pl
<1>6. maxElem \in Nat /\ stop \in Nat
  BY GenFacts, MaxElemFacts, StopType
<1>7. BufInv'
  BY <1>1, <1>5, <1>6 DEF BufInv
<1> QED
  BY <1>3, <1>4, <1>7 DEF IInv

(***************************************************************************)
(* The writes of writePeriodic leave the generator alone.                  *)
(***************************************************************************)
LEMMA GeneratorRests ==
    ASSUME IInv, UNCHANGED <<req, genVars>>
    PROVE  IInv'
BY DEF IInv, GenInv, ElementsAreRight, BufInv, genVars, pl, stop, Periodic, pb, P, maxElem

-----------------------------------------------------------------------------
(***************************************************************************)
(* The generator starts right.                                             *)
(***************************************************************************)
LEMMA InitInv == Init => IInv
<1> SUFFICES ASSUME Init PROVE IInv
  OBVIOUS
<1>1. pl.a \in Nat \ {0} /\ pl.b \in Nat \ {0}
  BY PlanFacts DEF Init
<1>2. pl.a % pl.a = 0 /\ pl.b % pl.b = 0
  <2>1. pl.a = 1 * pl.a /\ pl.b = 1 * pl.b
    BY <1>1
  <2> QED
    BY <1>1, <2>1, MultipleOf
<1>3. GenInv
  BY <1>1, <1>2 DEF Init, GenInv, IsNext
<1>4. ElementsAreRight
  BY DEF Init, ElementsAreRight
<1>5. BufInv
  BY MaxElemFacts, StopType DEF Init, BufInv
<1> QED
  BY <1>3, <1>4, <1>5 DEF IInv

(***************************************************************************)
(* A number is the right element.                                          *)
(***************************************************************************)
LEMMA NumberKeeps == ASSUME IInv, FillNumber PROVE IInv'
<1>1. Filling /\ Put(<<"number", c>>) /\ next1' = next1 /\ next2' = next2
  BY DEF FillNumber
<1>2. i # next1 /\ i # next2
  BY GenFacts DEF FillNumber, Min2
<1>3. GenInv /\ c = i /\ req \in Requests
  BY GenFacts DEF IInv
<1>4. <<"number", c>> = Element(pl, i)
  BY <1>2, <1>3, ElementHere
<1>5. ElementBytes(pl, <<"number", c>>) \in 0..maxElem
  <2>1. c \in 1..MaxInt
    <3>1. i <= pl.n
      BY <1>1, FillingPlace
    <3>2. pl.n \in 1..MaxInt /\ MaxInt \in Nat
      BY <1>3, PlanFacts, WriteAssumption
    <3>3. i \in Nat \ {0} /\ c = i
      BY GenFacts
    <3> QED
      BY <3>1, <3>2, <3>3
  <2>2. ElementBytes(pl, <<"number", c>>) \in 1..MaxNumElem
    BY <1>3, <2>1, ElementSizes
  <2> QED
    BY <1>3, <2>2, MaxElemFacts, WriteAssumption
<1>6. <<"number", c>> \in Elements
  BY GenFacts DEF Elements
<1>7. /\ req' = req /\ pl' = pl /\ i' = i + 1 /\ c' = i'
      /\ line' \in Seq(Elements) /\ ElementsAreRight' /\ BufInv'
  BY <1>1, <1>4, <1>5, <1>6, PutKeeps
<1>8. IsNext(next1, pl.a, i + 1)
  BY <1>2, GenFacts, PlanFacts, NextMultiple
<1>9. IsNext(next2, pl.b, i + 1)
  BY <1>2, GenFacts, PlanFacts, NextMultiple
<1>10. GenInv'
  BY <1>1, <1>7, <1>8, <1>9, GenFacts DEF GenInv
<1> QED
  BY <1>7, <1>10 DEF IInv

(***************************************************************************)
(* A sum of two numbers that are at most n fits, if 2 * n does.            *)
(***************************************************************************)
LEMMA DoubleFits ==
    ASSUME NEW x \in Nat, NEW m \in Nat, NEW n \in Nat,
           m <= x, x <= n, 2 * n <= MaxInt
    PROVE  Word(x + m) = x + m
<1>1. MaxInt \in Nat
  BY WriteAssumption
<1>2. PICK y \in Nat : y = x + m
  OBVIOUS
<1>3. y <= 2 * n
  BY <1>2
<1>4. y \in 0..MaxInt
  BY <1>1, <1>2, <1>3
<1> QED
  BY <1>1, <1>2, <1>4, WordFits

(***************************************************************************)
(* The next multiple after an event is at most twice the limit, so an int  *)
(* holds it (gen.event, write.go:89, 91, 97).                              *)
(***************************************************************************)
LEMMA NextFits ==
    ASSUME IInv, Filling
    PROVE  /\ i = next1 => Word(next1 + pl.a) = next1 + pl.a
           /\ i = next2 => Word(next2 + pl.b) = next2 + pl.b
<1>1. i \in Nat \ {0} /\ pl.n \in Nat
  <2>1. req \in Requests
    BY GenFacts
  <2>2. pl.n \in 1..MaxInt
    BY <2>1, PlanFacts
  <2> QED
    BY <2>2, GenFacts
<1>2. PICK x \in Nat \ {0}, n \in Nat : x = i /\ n = pl.n
  BY <1>1
<1>3. x <= n /\ 2 * n <= MaxInt
  <2>1. 2 * pl.n <= MaxInt
    BY GenFacts, PlanFacts
  <2>2. i <= pl.n
    BY FillingPlace
  <2> QED
    BY <1>2, <2>1, <2>2
<1>4. PICK a, b \in Nat \ {0} : a = pl.a /\ b = pl.b
  BY GenFacts, PlanFacts
<1>5. ASSUME x = next1 PROVE Word(next1 + a) = next1 + a
  <2>1. IsNext(x, a, x)
    BY <1>2, <1>4, <1>5, GenFacts
  <2>2. a <= x
    BY <2>1, NextMultiple
  <2> QED
    BY <1>3, <1>5, <2>2, DoubleFits
<1>6. ASSUME x = next2 PROVE Word(next2 + b) = next2 + b
  <2>1. IsNext(x, b, x)
    BY <1>2, <1>4, <1>6, GenFacts
  <2>2. b <= x
    BY <2>1, NextMultiple
  <2> QED
    BY <1>3, <1>6, <2>2, DoubleFits
<1> QED
  BY <1>2, <1>4, <1>5, <1>6

(***************************************************************************)
(* An event moves the next multiples that it serves past the new place.    *)
(***************************************************************************)
LEMMA NextAfterEvent ==
    ASSUME IInv, Filling
    PROVE  /\ i = next1 =>
                /\ Word(next1 + pl.a) \in Nat
                /\ IsNext(Word(next1 + pl.a), pl.a, i + 1)
           /\ i # next1 => IsNext(next1, pl.a, i + 1)
           /\ i = next2 =>
                /\ Word(next2 + pl.b) \in Nat
                /\ IsNext(Word(next2 + pl.b), pl.b, i + 1)
           /\ i # next2 => IsNext(next2, pl.b, i + 1)
<1>1. PICK x \in Nat, y \in Nat, z \in Nat : x = i /\ y = next1 /\ z = next2
  BY GenFacts
<1>2. PICK a, b \in Nat \ {0} : a = pl.a /\ b = pl.b
  BY GenFacts, PlanFacts
<1>3. IsNext(y, a, x) /\ IsNext(z, b, x)
  BY <1>1, <1>2, GenFacts
<1>4. /\ x = y => Word(y + a) = y + a
      /\ x = z => Word(z + b) = z + b
  BY <1>1, <1>2, NextFits
<1>5. /\ x = y => IsNext(y + a, a, x + 1)
      /\ x # y => IsNext(y, a, x + 1)
  BY <1>3, NextMultiple
<1>6. /\ x = z => IsNext(z + b, b, x + 1)
      /\ x # z => IsNext(z, b, x + 1)
  BY <1>3, NextMultiple
<1>7. y + a \in Nat /\ z + b \in Nat
  OBVIOUS
<1> QED
  BY <1>1, <1>2, <1>4, <1>5, <1>6, <1>7, Zenon

(***************************************************************************)
(* An event is the right element, and the next multiple is counted on.     *)
(***************************************************************************)
LEMMA EventKeeps == ASSUME IInv, Event PROVE IInv'
<1>1. Filling
  BY DEF Event
<1>2. i = next1 \/ i = next2
  BY GenFacts DEF Event, Min2, IsNext
<1>3. GenInv /\ req \in Requests
  BY GenFacts DEF IInv
<1>4. pl.e12 \in 0..maxElem /\ pl.e1 \in 0..maxElem /\ pl.e2 \in 0..maxElem
  BY <1>3, PlanFacts, MaxElemFacts
<1>5. SUFFICES ASSUME NEW e \in Elements, Put(e), e = Element(pl, i),
                      ElementBytes(pl, e) \in 0..maxElem,
                      next1' \in Nat, IsNext(next1', pl.a, i + 1),
                      next2' \in Nat, IsNext(next2', pl.b, i + 1)
               PROVE  IInv'
  <2>1. CASE i = next1 /\ i = next2
    <3>1. /\ Put(<<"e12", 0>>)
          /\ next1' = Word(next1 + pl.a) /\ next2' = Word(next2 + pl.b)
      BY <2>1 DEF Event
    <3>2. <<"e12", 0>> \in Elements /\ <<"e12", 0>> = Element(pl, i)
      BY <1>3, <2>1, ElementHere DEF Elements
    <3>3. ElementBytes(pl, <<"e12", 0>>) \in 0..maxElem
      BY <1>3, <1>4, ElementSizes
    <3> QED
      BY <1>1, <1>5, <2>1, <3>1, <3>2, <3>3, NextAfterEvent
  <2>2. CASE i = next1 /\ i # next2
    <3>1. /\ Put(<<"e1", 0>>)
          /\ next1' = Word(next1 + pl.a) /\ next2' = next2
      BY <2>2 DEF Event
    <3>2. <<"e1", 0>> \in Elements /\ <<"e1", 0>> = Element(pl, i)
      BY <1>3, <2>2, ElementHere DEF Elements
    <3>3. ElementBytes(pl, <<"e1", 0>>) \in 0..maxElem
      BY <1>3, <1>4, ElementSizes
    <3>4. next2 \in Nat
      BY GenFacts
    <3> QED
      BY <1>1, <1>5, <2>2, <3>1, <3>2, <3>3, <3>4, NextAfterEvent
  <2>3. CASE i # next1
    <3>1. /\ Put(<<"e2", 0>>)
          /\ next1' = next1 /\ next2' = Word(next2 + pl.b)
      BY <2>3 DEF Event
    <3>2. <<"e2", 0>> \in Elements /\ <<"e2", 0>> = Element(pl, i)
      BY <1>2, <1>3, <2>3, ElementHere DEF Elements
    <3>3. ElementBytes(pl, <<"e2", 0>>) \in 0..maxElem
      BY <1>3, <1>4, ElementSizes
    <3>4. next1 \in Nat
      BY GenFacts
    <3> QED
      BY <1>1, <1>2, <1>5, <2>3, <3>1, <3>2, <3>3, <3>4, NextAfterEvent
  <2> QED
    BY <2>1, <2>2, <2>3
<1>6. /\ req' = req /\ pl' = pl /\ i' = i + 1 /\ c' = i'
      /\ line' \in Seq(Elements) /\ ElementsAreRight' /\ BufInv'
  BY <1>1, <1>5, PutKeeps
<1>7. GenInv'
  BY <1>3, <1>5, <1>6, GenFacts DEF GenInv
<1> QED
  BY <1>6, <1>7 DEF IInv

(***************************************************************************)
(* No step of WriteJSON breaks the invariant of the generator.             *)
(***************************************************************************)
LEMMA NextInv == IInv /\ [Next]_vars => IInv'
<1> SUFFICES ASSUME IInv, [Next]_vars PROVE IInv'
  OBVIOUS
<1>1. CASE FillNumber
  BY <1>1, NumberKeeps
<1>2. CASE Event
  BY <1>2, EventKeeps
<1>3. CASE Write \/ WriteError
  BY <1>3, BufferEmptied DEF Write, WriteError
<1>4. CASE MakeChunk
  BY <1>4, GeneratorRests DEF MakeChunk
<1>5. CASE EmitChunk
  BY <1>5, GeneratorRests DEF EmitChunk, Emit, EmitFails
<1>6. CASE EmitPeriods
  BY <1>6, GeneratorRests DEF EmitPeriods, Emit, EmitFails
<1>7. CASE EmitTail
  BY <1>7, GeneratorRests DEF EmitTail, Emit, EmitFails
<1>8. CASE EmitEnd
  BY <1>8, GeneratorRests DEF EmitEnd
<1>9. CASE UNCHANGED vars
  BY <1>9, GeneratorRests DEF vars
<1> QED
  BY <1>1, <1>2, <1>3, <1>4, <1>5, <1>6, <1>7, <1>8, <1>9 DEF Next

(***************************************************************************)
(* So it holds in all states.                                              *)
(***************************************************************************)
LEMMA Invariance == Spec => []IInv
<1>1. Init => IInv
  BY InitInv
<1>2. IInv /\ [Next]_vars => IInv'
  BY NextInv
<1> QED
  BY <1>1, <1>2, PTL DEF Spec

(***************************************************************************)
(* gen puts the elements of the reference into the buffer, in order, for   *)
(* any divisors, limit and buffer size, and wherever a buffer ends         *)
(* (gen.fill and gen.event, write.go).                                     *)
(***************************************************************************)
THEOREM ElementsAlwaysRight == Spec => []ElementsAreRight
<1>1. IInv => ElementsAreRight
  BY DEF IInv
<1> QED
  BY <1>1, Invariance, PTL

-----------------------------------------------------------------------------
(***************************************************************************)
(* What the client has, at each place of the code.                         *)
(***************************************************************************)
Done == i - 1 - Len(line)

\* The client has m elements, and WriteJSON has not returned.
Sends(m) ==
    /\ got = Sent(pl, m)
    /\ first <=> (m = 0)
    /\ written = Len(got)
    /\ result = "writing"

\* fill goes on from what was sent; writePeriodic fills before it sends.
FillInv ==
    /\ i <= hi + 1 /\ Len(line) < i
    /\ line = <<>> => i <= hi
    /\ pos = Len(Text(pl, line))
    /\ Sends(Done)
    /\ Periodic => Done = 0

\* The periods of the array.
Turns == pl.n \div P

\* The chunk is made of whole periods.
ChunkInv == Periodic /\ chunk = Whole(pl, k)

\* What was sent at each place of the code.
SendInv ==
    /\ at \in {"fill", "chunks", "tail", "end", "returned"}
    /\ at = "fill" => FillInv
    /\ at = "chunks" => ChunkInv /\ periods \in 0..Turns /\ Sends((Turns - periods) * P)
    /\ at = "tail" => ChunkInv /\ Sends(Turns * P)
    /\ at = "end" => Sends(pl.n)
    /\ at = "returned" => result # "writing"

\* The inductive invariant of WriteJSON.
WriteInv == IInv /\ SendInv

(***************************************************************************)
(* JSONSize is the length of the array.                                    *)
(***************************************************************************)
LEMMA SizeOfArray ==
    ASSUME req \in Requests
    PROVE  /\ Array(pl) \in Seq(Byte)
           /\ Len(Array(pl)) = JSONSize(req)
           /\ JSONSize(req) \in Nat
<1>1. /\ Writable(pl) /\ MaxInt \in Nat \ {0} /\ pl.n \in 1..pl.n /\ pl.n \in Nat
      /\ JSONSize(req) = rangeBytes(pl, 1, pl.n) + 1
  BY PlanWritable
<1>2. Len(Run(pl, 0, pl.n)) = rangeBytes(pl, 1, pl.n)
  BY <1>1, RunLength
<1> DEFINE x == Sent(pl, pl.n)
           b == <<Bracket("]")>>
<1>3. /\ x \in Seq(Byte) /\ b \in Seq(Byte) /\ Array(pl) = x \o b
      /\ Len(x) = Len(Run(pl, 0, pl.n)) /\ Len(b) = 1
  BY <1>1, ArrayIsSent
<1> HIDE DEF x, b
<1>4. /\ Array(pl) \in Seq(Byte) /\ Len(Array(pl)) = Len(x) + 1
      /\ Len(x) \in Nat
  <2>1. x \o b \in Seq(Byte) /\ Len(x \o b) = Len(x) + Len(b) /\ Len(x) \in Nat
    <3>1. x \in Seq(Byte) /\ b \in Seq(Byte)
      BY <1>3
    <3> QED
      BY <3>1, ConcatProperties, LenProperties
  <2> QED
    BY <1>3, <2>1
<1> QED
  BY <1>1, <1>2, <1>3, <1>4

(***************************************************************************)
(* A write of text, after had and before rest, is a step of the contract,  *)
(* if all of the array is had, text and rest.                              *)
(***************************************************************************)
LEMMA WriteRefines ==
    ASSUME req \in Requests, req' = req,
           NEW had \in Seq(Byte), NEW text \in Seq(Byte), NEW rest \in Seq(Byte),
           got = had, written = Len(got), result = "writing",
           Array(pl) = (had \o text) \o rest
    PROVE  /\ WriteSucceeds(text) /\ at' # "returned" =>
                 /\ Contract!Send /\ result' = "writing"
                 /\ got' = had \o text /\ written' = Len(got')
           /\ WriteSucceeds(text) /\ at' = "returned" /\ rest = <<>> =>
                 Contract!Send /\ result' # "writing"
           /\ WriteFails(text) => Contract!Send /\ result' # "writing"
<1>1. Array(pl)' = Array(pl) /\ JSONSize(req)' = JSONSize(req)
  BY DEF pl
<1>2. Len(text) \in Nat /\ SubSeq(text, 1, Len(text)) = text
  BY SubSeqFull
<1>3. ASSUME NEW m \in 0..Len(text), got' = had \o SubSeq(text, 1, m),
             written' = written + m
      PROVE  IsPrefix(got, got') /\ IsPrefix(got', Array(pl)) /\ written' = Len(got')
  BY <1>3, WritePrefix
<1>4. ASSUME WriteSucceeds(text)
      PROVE  /\ IsPrefix(got, got') /\ IsPrefix(got', Array(pl)) /\ written' = Len(got')
             /\ got' = had \o text
             /\ result' = IF at' = "returned" THEN "complete" ELSE "writing"
  <2>1. /\ got' = had \o text /\ written' = written + Len(text)
        /\ result' = IF at' = "returned" THEN "complete" ELSE "writing"
    BY <1>4 DEF WriteSucceeds
  <2>2. Len(text) \in 0..Len(text)
    BY <1>2
  <2> QED
    BY <1>2, <1>3, <2>1, <2>2
<1>5. ASSUME WriteSucceeds(text), rest = <<>>
      PROVE  got' = Array(pl) /\ written' = JSONSize(req)
  <2>1. had \o text \in Seq(Byte)
    OBVIOUS
  <2>2. (had \o text) \o rest = had \o text
    BY <1>5, <2>1, ConcatEmptySeq
  <2> QED
    BY <1>4, <1>5, <2>2, SizeOfArray
<1>6. \A x, y : Contract!IsPrefix(x, y) <=> IsPrefix(x, y)
  BY DEF Contract!IsPrefix, IsPrefix
<1>7. ASSUME WriteFails(text) PROVE Contract!Send /\ result' # "writing"
  <2>1. PICK m \in 0..Len(text) :
           got' = had \o SubSeq(text, 1, m) /\ written' = written + m
    BY <1>7 DEF WriteFails
  <2>2. result' = "failed"
    BY <1>7 DEF WriteFails
  <2>3. IsPrefix(got, got') /\ IsPrefix(got', Array(pl)) /\ written' = Len(got')
    BY <1>3, <2>1
  <2> QED
    BY <1>1, <1>6, <2>2, <2>3 DEF Contract!Send
<1>8. ASSUME WriteSucceeds(text), at' # "returned"
      PROVE  Contract!Send /\ result' = "writing"
  BY <1>1, <1>4, <1>6, <1>8 DEF Contract!Send
<1>9. ASSUME WriteSucceeds(text), at' = "returned", rest = <<>>
      PROVE  Contract!Send /\ result' # "writing"
  BY <1>1, <1>4, <1>5, <1>6, <1>9 DEF Contract!Send
<1> QED
  BY <1>4, <1>7, <1>8, <1>9

-----------------------------------------------------------------------------
(***************************************************************************)
(* The loop of WriteJSON.                                                  *)
(***************************************************************************)
(***************************************************************************)
(* The text of the buffer is a run, because its elements are right.        *)
(***************************************************************************)
LEMMA LineIsRun ==
    ASSUME IInv, Len(line) < i
    PROVE  /\ Done \in Nat /\ Len(line) \in Nat /\ Done + Len(line) = i - 1
           /\ Text(pl, line) = Run(pl, Done, Len(line))
           /\ Text(pl, line) \in Seq(Byte)
<1>1. /\ line \in Seq(Elements) /\ i \in Nat /\ Len(line) \in Nat
      /\ Done \in Nat /\ Done + Len(line) = i - 1
  BY DEF IInv, GenInv, Done
<1>2. \A x \in 1..Len(line) : line[x] = Element(pl, Done + x)
  BY DEF IInv, ElementsAreRight, Done
<1>3. line = Elems(pl, Done, Len(line))
  <2> DEFINE m == Done
             w == Len(line)
  <2>1. line \in [1..w -> Elements]
    BY <1>1
  <2> HIDE DEF m
  <2>2. \A x \in 1..w : line[x] = Element(pl, m + x)
    BY <1>2 DEF m
  <2>3. line = [x \in 1..w |-> Element(pl, m + x)]
    BY <2>1, <2>2
  <2> QED
    BY <2>3 DEF Elems, m
<1>4. Run(pl, Done, Len(line)) \in Seq(Byte)
  BY <1>1, PlanWritable, RunTypes DEF IInv, GenInv
<1> QED
  BY <1>1, <1>3, <1>4 DEF Run

(***************************************************************************)
(* fill appends an element.                                                *)
(***************************************************************************)
LEMMA FillPuts ==
    ASSUME IInv, FillNumber \/ Event
    PROVE  Filling /\ \E e \in Elements : Put(e)
<1> USE DEF IInv, GenInv
<1>1. Filling
  BY DEF FillNumber, Event
<1>2. CASE FillNumber
  <2>1. <<"number", c>> \in Elements
    BY DEF Elements
  <2> QED
    BY <1>1, <1>2, <2>1 DEF FillNumber
<1>3. CASE Event
  <2>1. <<"e12", 0>> \in Elements /\ <<"e1", 0>> \in Elements /\ <<"e2", 0>> \in Elements
    BY DEF Elements
  <2> QED
    BY <1>1, <1>3, <2>1 DEF Event
<1> QED
  BY <1>2, <1>3

(***************************************************************************)
(* fill goes on: nothing is written, and the buffer is longer.             *)
(***************************************************************************)
LEMMA FillSends ==
    ASSUME WriteInv, FillNumber \/ Event
    PROVE  SendInv' /\ UNCHANGED Contract!vars
<1>1. /\ IInv /\ req \in Requests /\ i \in Nat /\ line \in Seq(Elements)
  BY DEF WriteInv, IInv, GenInv
<1>2. PICK e \in Elements : Filling /\ Put(e)
  BY <1>1, FillPuts
<1>3. /\ at = "fill" /\ FillInv /\ i <= hi
  BY <1>2 DEF Filling, WriteInv, SendInv
<1>4. /\ req' = req /\ at' = at /\ line' = Append(line, e) /\ i' = i + 1
      /\ pos' = pos + ElementBytes(pl, e)
      /\ first' = first /\ got' = got /\ written' = written /\ result' = result
  BY <1>2 DEF Put, outVars
<1>5. pl' = pl /\ hi' = hi /\ Periodic' = Periodic
  BY <1>4 DEF pl, hi, P, Periodic, pb
<1>6. /\ Len(line) \in Nat /\ Len(line') = Len(line) + 1 /\ line' # <<>>
      /\ Done' = Done
  BY <1>1, <1>4 DEF Done
<1>7. pos' = Len(Text(pl, line'))
  <2>1. Text(pl, line') = Text(pl, line) \o Bytes(pl, e)
    BY <1>1, <1>4, PlanWritable, TextNext
  <2>2. Text(pl, line) \in Seq(Byte)
    BY <1>1, <1>3, LineIsRun DEF FillInv
  <2>3. Bytes(pl, e) \in Seq(Byte) /\ Len(Bytes(pl, e)) = ElementBytes(pl, e)
    BY <1>1, PlanWritable, BytesType
  <2>4. Len(Text(pl, line')) = Len(Text(pl, line)) + Len(Bytes(pl, e))
    BY <2>1, <2>2, <2>3, ConcatProperties
  <2> QED
    BY <1>3, <1>4, <2>3, <2>4 DEF FillInv
<1>8. Sends(Done)'
  BY <1>3, <1>4, <1>5, <1>6 DEF FillInv, Sends
<1>9. hi \in Nat
  BY <1>1, PlanFacts
<1>10. FillInv'
  BY <1>1, <1>3, <1>4, <1>5, <1>6, <1>7, <1>8, <1>9 DEF FillInv
<1>11. SendInv'
  BY <1>3, <1>4, <1>10 DEF SendInv
<1>12. UNCHANGED Contract!vars
  BY <1>4, <1>5 DEF Contract!vars
<1> QED
  BY <1>11, <1>12

(***************************************************************************)
(* What a full buffer holds: at least one element.                         *)
(***************************************************************************)
LEMMA FullBuffer ==
    ASSUME WriteInv, Filled
    PROVE  /\ at = "fill" /\ FillInv /\ Done \in Nat /\ Len(line) \in Nat \ {0}
           /\ Done + Len(line) = i - 1 /\ i - 1 <= hi /\ hi <= pl.n
           /\ Text(pl, line) = Run(pl, Done, Len(line))
<1>1. /\ IInv /\ req \in Requests /\ i \in Nat \ {0} /\ line \in Seq(Elements)
  BY DEF WriteInv, IInv, GenInv
<1>2. at = "fill" /\ FillInv
  BY DEF Filled, WriteInv, SendInv
<1>3. hi \in Nat /\ hi <= pl.n
  BY <1>1, PlanFacts
<1>4. line # <<>>
  <2> SUFFICES ASSUME line = <<>> PROVE FALSE
    OBVIOUS
  <2>1. i <= hi
    BY <1>2 DEF FillInv
  <2>2. pos = 0
    BY <1>2, TextOfNothing DEF FillInv
  <2>3. 0 <= stop
    <3>1. Periodic => pb \in Nat
      <4>1. pb = Len(Run(pl, 0, P)) /\ Run(pl, 0, P) \in Seq(Byte)
        BY <1>1, PlanWritable, RunLength, RunTypes DEF pb
      <4> QED
        BY <4>1
    <3> QED
      BY <3>1, WriteAssumption DEF stop
  <2> QED
    BY <1>2, <2>1, <2>2, <2>3 DEF Filled, Filling
<1>5. Len(line) \in Nat \ {0}
  BY <1>1, <1>4, EmptySeq
<1> QED
  BY <1>1, <1>2, <1>3, <1>5, LineIsRun DEF FillInv

(***************************************************************************)
(* A buffer of the loop is sent, with the bracket after the last one.      *)
(***************************************************************************)
LEMMA BufferSends ==
    ASSUME WriteInv, Write \/ WriteError
    PROVE  SendInv' /\ Contract!Send
<1>1. /\ IInv /\ req \in Requests /\ i \in Nat \ {0} /\ Writable(pl) /\ pl.n \in Nat
  BY PlanWritable DEF WriteInv, IInv, GenInv
<1>2. NextBuffer /\ ~Periodic /\ Filled
  BY DEF Write, WriteError, NextBuffer
<1>3. PICK m \in Nat, w \in Nat \ {0} :
         /\ m = Done /\ w = Len(line) /\ m + w = i - 1 /\ i - 1 <= pl.n
         /\ Text(pl, line) = Run(pl, m, w)
  <2>1. hi = pl.n
    BY <1>2 DEF hi
  <2> QED
    BY <1>2, <2>1, FullBuffer
<1>4. at = "fill" /\ Sends(m)
  BY <1>2, <1>3, FullBuffer DEF FillInv
<1>5. /\ req' = req /\ i' = i /\ line' = <<>> /\ pos' = 0 /\ first' = FALSE
  BY <1>2 DEF NextBuffer
<1>6. pl' = pl /\ hi' = hi /\ Periodic' = Periodic /\ hi = pl.n
  BY <1>2, <1>5 DEF pl, hi, P, Periodic, pb
<1> DEFINE had == Sent(pl, m)
           piece == Piece(m, Run(pl, m, w))
           end == <<Bracket("]")>>
<1>7. /\ had \in Seq(Byte) /\ piece \in Seq(Byte)
      /\ Sent(pl, i - 1) = had \o piece
  <2>1. PICK s : s = i - 1 /\ s = m + w
    BY <1>3
  <2>2. /\ Sent(pl, m) \in Seq(Byte) /\ Piece(m, Run(pl, m, w)) \in Seq(Byte)
        /\ Sent(pl, s) = Sent(pl, m) \o Piece(m, Run(pl, m, w))
    BY <1>1, <2>1, SentNext
  <2> QED
    BY <2>1, <2>2
<1>8. /\ got = had /\ written = Len(got) /\ result = "writing"
  BY <1>4 DEF Sends
<1>9. BufferText = IF i > pl.n THEN Append(piece, Bracket("]")) ELSE piece
  BY <1>3, <1>4 DEF BufferText, Piece, Sends
<1>10. /\ Write => /\ WriteSucceeds(BufferText)
                    /\ at' = IF i > pl.n THEN "returned" ELSE "fill"
       /\ WriteError => WriteFails(BufferText) /\ at' = "returned"
  BY DEF Write, WriteError
<1>11. CASE i > pl.n
  <2>1. i - 1 = pl.n
    BY <1>1, <1>3, <1>11
  <2>2. /\ Array(pl) = (had \o piece) \o end /\ end \in Seq(Byte)
    <3>1. Array(pl) = Sent(pl, pl.n) \o end /\ end \in Seq(Byte)
      BY <1>1, ArrayIsSent
    <3> QED
      BY <1>7, <2>1, <3>1
  <2> HIDE DEF had, piece, end
  <2>3. PICK text : text = piece \o end
    OBVIOUS
  <2>4. BufferText = text /\ text \in Seq(Byte)
    <3>1. Append(piece, Bracket("]")) = piece \o end
      <4>1. Bracket("]") \in Byte
        BY DEF Bracket, Byte
      <4> QED
        BY <1>7, <4>1, AppendIsConcat DEF end
    <3> QED
      BY <1>7, <1>9, <1>11, <2>2, <2>3, <3>1, ConcatProperties
  <2>5. Array(pl) = (had \o text) \o <<>> /\ <<>> \in Seq(Byte)
    <3>1. (had \o piece) \o end = had \o text
      <4>1. had \in Seq(Byte) /\ piece \in Seq(Byte) /\ end \in Seq(Byte)
        BY <1>7, <2>2
      <4> QED
        BY <2>3, <4>1, Associative DEF Regroup
    <3>2. had \o text \in Seq(Byte)
      BY <1>7, <2>4, ConcatProperties
    <3> QED
      BY <2>2, <3>1, <3>2, ConcatEmptySeq, EmptySeq
  <2>6. at' = "returned"
    BY <1>10, <1>11
  <2>7. Contract!Send /\ result' # "writing"
    <3> DEFINE rest == <<>>
    <3>1. rest \in Seq(Byte) /\ rest = <<>> /\ Array(pl) = (had \o text) \o rest
      BY <2>5
    <3> HIDE DEF rest
    <3>2. WriteSucceeds(text) \/ WriteFails(text)
      BY <1>10, <2>4
    <3> QED
      BY <1>1, <1>5, <1>7, <1>8, <2>4, <2>6, <3>1, <3>2, WriteRefines
  <2>8. SendInv'
    BY <2>6, <2>7 DEF SendInv
  <2> QED
    BY <2>7, <2>8
<1>12. CASE ~(i > pl.n)
  <2>1. i - 1 \in Nat /\ i - 1 <= pl.n /\ i <= hi
    BY <1>1, <1>6, <1>12
  <2>2. PICK rest \in Seq(Byte) : Array(pl) = (had \o piece) \o rest
    <3>1. \E rest \in Seq(Byte) : Array(pl) = Sent(pl, i - 1) \o rest
      BY <1>1, <2>1, ArraySplits
    <3> HIDE DEF had, piece
    <3> QED
      BY <1>7, <3>1
  <2>3. BufferText = piece
    BY <1>9, <1>12
  <2>4. PICK h, t : h = had /\ t = piece
    OBVIOUS
  <2> HIDE DEF had, piece
  <2>5. /\ WriteSucceeds(t) /\ at' # "returned" =>
              /\ Contract!Send /\ result' = "writing"
              /\ got' = h \o t /\ written' = Len(got')
        /\ WriteFails(t) => Contract!Send /\ result' # "writing"
    BY <1>1, <1>5, <1>7, <1>8, <2>2, <2>4, WriteRefines
  <2>6. CASE Write
    <3>1. WriteSucceeds(t) /\ at' = "fill"
      BY <1>10, <1>12, <2>3, <2>4, <2>6
    <3>2. got' = Sent(pl, i - 1) /\ written' = Len(got') /\ result' = "writing"
      BY <1>7, <2>4, <2>5, <3>1
    <3>3. Done' = i - 1 /\ i - 1 # 0 /\ Len(line') = 0 /\ Len(line') < i'
      <4>1. i - 1 # 0
        BY <1>3
      <4> QED
        BY <1>1, <1>5, <4>1 DEF Done
    <3>4. Sends(Done)'
      BY <1>5, <1>6, <3>2, <3>3 DEF Sends
    <3>5. FillInv'
      <4>1. pos' = Len(Text(pl', line'))
        BY <1>5, TextOfNothing
      <4>2. i' <= hi' /\ i' <= hi' + 1
        BY <1>1, <1>5, <1>6, <2>1
      <4> QED
        BY <1>2, <1>6, <3>3, <3>4, <4>1, <4>2 DEF FillInv
    <3> QED
      BY <2>5, <3>1, <3>5 DEF SendInv
  <2>7. CASE WriteError
    <3>1. WriteFails(t) /\ at' = "returned"
      BY <1>10, <2>3, <2>4, <2>7
    <3> QED
      BY <2>5, <3>1 DEF SendInv
  <2> QED
    BY <2>6, <2>7
<1> QED
  BY <1>11, <1>12

-----------------------------------------------------------------------------
(***************************************************************************)
(* writePeriodic.                                                          *)
(***************************************************************************)
(***************************************************************************)
(* A product grows with its first factor.                                  *)
(***************************************************************************)
LEMMA Multiplied ==
    ASSUME NEW x \in Nat, NEW y \in Nat, x <= y, NEW m \in Nat
    PROVE  x * m \in Nat /\ y * m \in Nat /\ x * m <= y * m
<1>1. (y - x) * m \in Nat
  OBVIOUS
<1>2. (y - x) * m = y * m - x * m /\ x * m \in Nat /\ y * m \in Nat
  OBVIOUS
<1> DEFINE u == x * m
           v == y * m
           z == (y - x) * m
<1> HIDE DEF u, v, z
<1>3. u <= v
  BY <1>1, <1>2 DEF u, v, z
<1> QED
  BY <1>2, <1>3 DEF u, v

(***************************************************************************)
(* The numbers of writePeriodic: the chunk has a period or more, and no    *)
(* more than the array has.                                                *)
(***************************************************************************)
LEMMA ChunkFacts ==
    ASSUME req \in Requests, Periodic
    PROVE  /\ Repeats(pl) /\ Writable(pl) /\ P = Period(pl)
           /\ P \in Nat \ {0} /\ pl.n \in Nat
           /\ pb \in Nat \ {0} /\ pb = Len(Whole(pl, 1)) /\ Whole(pl, 1) = Run(pl, 0, P)
           /\ Turns \in Nat \ {0} /\ k \in Nat \ {0} /\ k <= Turns
           /\ pl.n = Turns * P + (pl.n % P) /\ pl.n % P \in Nat /\ pl.n % P < P
<1>1. /\ Writable(pl) /\ MaxInt \in Nat \ {0} /\ P = Period(pl)
      /\ P \in 1..pl.n /\ pl.n \in Nat \ {0}
  BY PlanWritable
<1>2. Repeats(pl) /\ pb <= StreamBuf /\ StreamBuf \in Nat
  BY WriteAssumption DEF Periodic, Repeats
<1>3. pb = Len(Run(pl, 0, P)) /\ Run(pl, 0, P) \in Seq(Byte) /\ P <= Len(Run(pl, 0, P))
  BY <1>1, RunLength, RunTypes DEF pb
<1>4. pb \in Nat \ {0}
  BY <1>1, <1>3
<1>5. Whole(pl, 1) = Run(pl, 0, P)
  <2>1. 1 * Period(pl) = P
    BY <1>1
  <2> QED
    BY <2>1 DEF Whole
<1>6. /\ pl.n = P * Turns + (pl.n % P) /\ Turns \in Nat
      /\ pl.n % P \in Nat /\ pl.n % P < P
  <2>1. pl.n \in Nat /\ P \in Nat \ {0}
    BY <1>1
  <2> DEFINE x == pl.n
  <2> HIDE DEF x
  <2>2. x = P * (x \div P) + (x % P) /\ x \div P \in Nat /\ x % P \in Nat /\ x % P < P
    BY <2>1, Division DEF x
  <2> QED
    BY <2>2 DEF Turns, x
<1>7. Turns # 0
  <2> SUFFICES ASSUME Turns = 0 PROVE FALSE
    OBVIOUS
  <2>1. P * Turns = 0
    BY <1>1
  <2> QED
    BY <1>1, <1>6, <2>1
<1>8. StreamBuf \div pb \in Nat \ {0}
  <2>1. /\ StreamBuf = pb * (StreamBuf \div pb) + (StreamBuf % pb)
        /\ StreamBuf \div pb \in Nat /\ StreamBuf % pb < pb
    BY <1>2, <1>4, Division
  <2>2. ASSUME StreamBuf \div pb = 0 PROVE FALSE
    <3>1. pb * (StreamBuf \div pb) = 0
      BY <1>4, <2>2
    <3> QED
      BY <1>2, <1>4, <2>1, <3>1
  <2> QED
    BY <2>1, <2>2
<1>9. k \in Nat \ {0} /\ k <= Turns
  BY <1>6, <1>7, <1>8 DEF k, Min2, Turns
<1>10. pl.n = Turns * P + (pl.n % P)
  <2>1. P \in Nat /\ Turns \in Nat
    BY <1>1, <1>6
  <2>2. P * Turns = Turns * P
    BY <2>1
  <2> QED
    BY <1>6, <2>2
<1>11. P \in Nat \ {0} /\ pl.n \in Nat /\ Turns \in Nat \ {0}
  BY <1>1, <1>6, <1>7
<1> QED
  BY <1>1, <1>2, <1>3, <1>4, <1>5, <1>6, <1>9, <1>10, <1>11

(***************************************************************************)
(* The parts of the chunk that are sent are runs.                          *)
(***************************************************************************)
LEMMA ChunkParts ==
    ASSUME req \in Requests, ChunkInv
    PROVE  /\ \A j \in 0..k : Part(j * pb) = Whole(pl, j)
           /\ Part(rangeBytes(pl, 1, pl.n % P)) = Run(pl, 0, pl.n % P)
<1>1. /\ Repeats(pl) /\ Writable(pl) /\ P = Period(pl)
      /\ P \in Nat \ {0} /\ pl.n \in Nat
      /\ pb \in Nat \ {0} /\ pb = Len(Whole(pl, 1))
      /\ Turns \in Nat \ {0} /\ k \in Nat \ {0} /\ k <= Turns
      /\ pl.n = Turns * P + (pl.n % P) /\ pl.n % P \in Nat /\ pl.n % P < P
  BY ChunkFacts DEF ChunkInv
<1>2. chunk = Run(pl, 0, k * P)
  BY <1>1 DEF ChunkInv, Whole
<1>3. k * P \in Nat /\ P <= k * P /\ Turns * P \in Nat /\ Turns * P <= pl.n
  <2>1. 1 <= k /\ 1 \in Nat
    BY <1>1
  <2>2. 1 * P <= k * P /\ k * P \in Nat
    BY <1>1, <2>1, Multiplied
  <2>3. P \in Nat /\ Turns \in Nat
    BY <1>1
  <2>4. 1 * P = P /\ Turns * P \in Nat
    BY <2>3
  <2>5. Turns * P <= pl.n
    <3> DEFINE u == Turns * P
               v == pl.n % P
    <3>1. pl.n = u + v /\ u \in Nat /\ v \in Nat
      BY <1>1, <2>4
    <3> HIDE DEF u, v
    <3>2. u <= pl.n
      BY <3>1
    <3> QED
      BY <3>2 DEF u
  <2> QED
    BY <2>2, <2>4, <2>5
<1>4. ASSUME NEW j \in 0..k PROVE Part(j * pb) = Whole(pl, j)
  <2>1. j \in Nat /\ j <= k /\ j <= Turns
    BY <1>1
  <2>2. j * P \in Nat /\ j * P <= k * P
    BY <1>1, <2>1, Multiplied
  <2>3. j * P <= Turns * P
    BY <1>1, <2>1, Multiplied
  <2>4. j * Period(pl) <= pl.n
    <3> DEFINE u == j * P
               v == Turns * P
    <3>1. u <= v /\ v <= pl.n /\ u \in Nat /\ v \in Nat /\ pl.n \in Nat
      BY <1>1, <1>3, <2>2, <2>3
    <3>2. j * Period(pl) = u
      BY <1>1
    <3> HIDE DEF u, v
    <3>3. u <= pl.n
      BY <3>1
    <3> QED
      BY <3>2, <3>3
  <2>5. Len(Whole(pl, j)) = j * pb
    BY <1>1, <2>1, <2>4, CopiesAreWhole
  <2>6. SubSeq(Run(pl, 0, k * P), 1, Len(Run(pl, 0, j * P))) = Run(pl, 0, j * P)
    BY <1>1, <1>3, <2>2, RunIsPrefix
  <2>7. Whole(pl, j) = Run(pl, 0, j * P)
    BY <1>1 DEF Whole
  <2> QED
    BY <1>2, <2>5, <2>6, <2>7 DEF Part
<1>5. Part(rangeBytes(pl, 1, pl.n % P)) = Run(pl, 0, pl.n % P)
  <2> DEFINE t == pl.n % P
  <2>1. t \in Nat /\ t <= k * P /\ t <= pl.n
    <3> DEFINE u == Turns * P
               v == k * P
    <3>1. t \in Nat /\ t < P /\ pl.n = u + t /\ P \in Nat
      BY <1>1
    <3>2. u \in Nat /\ v \in Nat /\ P <= v
      BY <1>3
    <3> HIDE DEF t, u, v
    <3>3. t <= v /\ t <= pl.n
      BY <3>1, <3>2
    <3> QED
      BY <3>1, <3>3 DEF v
  <2>2. SubSeq(Run(pl, 0, k * P), 1, Len(Run(pl, 0, t))) = Run(pl, 0, t)
    <3> HIDE DEF t
    <3> QED
      BY <1>1, <1>3, <2>1, RunIsPrefix
  <2>3. Len(Run(pl, 0, t)) = rangeBytes(pl, 1, t)
    <3> HIDE DEF t
    <3>1. CASE t = 0
      <4>1. Run(pl, 0, t) = <<>>
        BY <1>1, <3>1, RunNext
      <4>2. rangeBytes(pl, 1, t) = 0
        BY <3>1 DEF rangeBytes
      <4> QED
        BY <4>1, <4>2
    <3>2. CASE t # 0
      <4>1. t \in 1..pl.n /\ MaxInt \in Nat \ {0} /\ Writable(pl)
        BY <1>1, <2>1, <3>2, WriteAssumption
      <4> QED
        BY <4>1, RunLength
    <3> QED
      BY <3>1, <3>2
  <2> QED
    BY <1>2, <2>2, <2>3 DEF Part
<1> QED
  BY <1>4, <1>5

(***************************************************************************)
(* One emit of w elements after m elements. emit writes nothing if w is 0. *)
(***************************************************************************)
LEMMA EmitSends ==
    ASSUME WriteInv, at # "fill", NEW m \in Nat, NEW w \in Nat, m + w <= pl.n, Sends(m),
           NEW text, text = Run(pl, m, w)
    PROVE  /\ Emit(text) /\ at' # "returned" /\ m + w # 0 =>
                 /\ Sends(m + w)' /\ [Contract!Send]_(Contract!vars)
                 /\ chunk' = chunk /\ UNCHANGED <<req, genVars>>
           /\ EmitFails(text) =>
                 /\ Contract!Send /\ result' # "writing" /\ at' = "returned"
<1>1. /\ req \in Requests /\ Writable(pl) /\ pl.n \in Nat
  BY PlanWritable DEF WriteInv, IInv, GenInv
<1> DEFINE had == Sent(pl, m)
           out == IF first THEN Opened(text) ELSE text
<1>2. /\ got = had /\ written = Len(got) /\ result = "writing" /\ (first <=> m = 0)
  BY DEF Sends
<1>3. text \in Seq(Byte) /\ w <= Len(text)
  BY <1>1, RunTypes
<1>4. out = Piece(m, Run(pl, m, w))
  BY <1>2 DEF Piece
<1>5. CASE w = 0
  <2>1. text = <<>>
    BY <1>1, <1>5, RunNext
  <2>2. ~EmitFails(text)
    BY <2>1 DEF EmitFails
  <2>3. ASSUME Emit(text)
        PROVE  /\ req' = req /\ chunk' = chunk /\ first' = first /\ got' = got
               /\ written' = written /\ result' = result /\ UNCHANGED <<req, genVars>>
    BY <2>1, <2>3 DEF Emit, outVars
  <2>4. m + w = m
    BY <1>5
  <2>5. ASSUME Emit(text) PROVE Sends(m)' /\ UNCHANGED Contract!vars
    <3>1. pl' = pl
      BY <2>3, <2>5 DEF pl
    <3> QED
      BY <1>2, <2>3, <2>5, <3>1 DEF Sends, Contract!vars
  <2> QED
    BY <2>2, <2>3, <2>4, <2>5
<1>6. CASE w # 0
  <2>1. /\ had \in Seq(Byte) /\ out \in Seq(Byte) /\ Sent(pl, m + w) = had \o out
    <3>1. w \in Nat \ {0}
      BY <1>6
    <3>2. PICK s : s = m + w
      OBVIOUS
    <3>3. /\ Sent(pl, m) \in Seq(Byte)
          /\ Piece(m, Run(pl, m, w)) \in Seq(Byte)
          /\ Sent(pl, s) = Sent(pl, m) \o Piece(m, Run(pl, m, w))
      BY <1>1, <3>1, <3>2, SentNext
    <3> QED
      BY <1>4, <3>2, <3>3
  <2>2. PICK rest \in Seq(Byte) : Array(pl) = (had \o out) \o rest
    <3>1. \E rest \in Seq(Byte) : Array(pl) = Sent(pl, m + w) \o rest
      <4>1. PICK s \in Nat : s = m + w
        OBVIOUS
      <4>2. s <= pl.n
        BY <4>1
      <4>3. \E rest \in Seq(Byte) : Array(pl) = Sent(pl, s) \o rest
        BY <1>1, <4>2, ArraySplits
      <4> QED
        BY <4>1, <4>3
    <3> HIDE DEF had, out
    <3> QED
      BY <2>1, <3>1
  <2>3. text # <<>>
    BY <1>3, <1>6, EmptySeq
  <2>4. PICK h, t : h = had /\ t = out
    OBVIOUS
  <2>5. /\ Emit(text) => /\ WriteSucceeds(t) /\ first' = FALSE /\ chunk' = chunk
                         /\ UNCHANGED <<req, genVars>>
        /\ EmitFails(text) => WriteFails(t) /\ req' = req /\ at' = "returned"
    BY <2>3, <2>4 DEF Emit, EmitFails, RestoreComma
  <2> HIDE DEF had, out
  <2>6. ASSUME req' = req
        PROVE  /\ WriteSucceeds(t) /\ at' # "returned" =>
                     /\ Contract!Send /\ result' = "writing"
                     /\ got' = h \o t /\ written' = Len(got')
               /\ WriteFails(t) => Contract!Send /\ result' # "writing"
    BY <1>1, <1>2, <2>1, <2>2, <2>4, <2>6, WriteRefines
  <2>7. ASSUME Emit(text), at' # "returned" PROVE Sends(m + w)' /\ Contract!Send
    <3>1. /\ Contract!Send /\ result' = "writing" /\ got' = Sent(pl, m + w)
          /\ written' = Len(got') /\ first' = FALSE
      BY <2>1, <2>4, <2>5, <2>6, <2>7
    <3>2. pl' = pl /\ m + w # 0
      BY <1>6, <2>5, <2>7 DEF pl
    <3> QED
      BY <3>1, <3>2 DEF Sends
  <2> QED
    BY <2>5, <2>6, <2>7
<1> QED
  BY <1>5, <1>6

(***************************************************************************)
(* The chunk is made of one period, which fill has filled.                 *)
(***************************************************************************)
LEMMA ChunkMade ==
    ASSUME WriteInv, MakeChunk
    PROVE  SendInv' /\ UNCHANGED Contract!vars
<1>1. /\ IInv /\ req \in Requests /\ Periodic /\ Filled
  BY DEF WriteInv, IInv, GenInv, MakeChunk
<1>2. /\ at = "fill" /\ FillInv /\ Done = 0 /\ Len(line) \in Nat
      /\ Len(line) = i - 1 /\ i - 1 <= P /\ hi = P /\ i \in Nat
      /\ Text(pl, line) = Run(pl, 0, Len(line))
  <2>1. hi = P /\ i \in Nat
    BY <1>1 DEF hi, IInv, GenInv
  <2>2. Done = 0
    BY <1>1, FullBuffer DEF FillInv
  <2> QED
    BY <1>1, <2>1, <2>2, FullBuffer
<1>3. /\ Repeats(pl) /\ Writable(pl) /\ P = Period(pl) /\ P \in Nat
      /\ pb = Len(Whole(pl, 1)) /\ Whole(pl, 1) = Run(pl, 0, P)
      /\ Turns \in Nat /\ k \in Nat /\ k <= Turns
      /\ pl.n = Turns * P + (pl.n % P) /\ pl.n % P \in Nat
  BY <1>1, ChunkFacts
<1>4. Len(line) = P
  <2>1. pos = Len(Run(pl, 0, Len(line)))
    BY <1>2 DEF FillInv
  <2>2. ~(i <= P /\ pos <= pb)
    <3>1. stop = pb
      BY <1>1 DEF stop
    <3> QED
      BY <1>1, <1>2, <3>1 DEF Filled, Filling
  <2>3. pos <= pb
    <3> DEFINE x == Run(pl, 0, Len(line))
               y == Run(pl, 0, P)
    <3>1. SubSeq(y, 1, Len(x)) = x
      BY <1>2, <1>3, RunIsPrefix
    <3>2. x \in Seq(Byte) /\ y \in Seq(Byte)
      BY <1>2, <1>3, RunTypes
    <3>3. Len(x) <= Len(y)
      <4>1. PICK v \in Nat, s \in Nat : v = Len(line) /\ s = P
        BY <1>2, <1>3
      <4>2. v <= s
        BY <1>2, <4>1
      <4>3. PICK w \in Nat : s = v + w
        <5>1. s - v \in Nat /\ s = v + (s - v)
          BY <4>2
        <5> QED
          BY <5>1
      <4>4. Run(pl, 0, s) = Run(pl, 0, v) \o Run(pl, v, w)
        <5>1. Writable(pl) /\ v \in Nat /\ w \in Nat
          BY <1>3, <4>1
        <5> QED
          BY <4>3, <5>1, FirstRun
      <4>5. y = x \o Run(pl, v, w) /\ Run(pl, v, w) \in Seq(Byte)
        BY <1>3, <4>1, <4>4, RunTypes
      <4> HIDE DEF x, y
      <4> QED
        BY <3>2, <4>5
    <3> HIDE DEF x, y
    <3>4. Len(x) \in Nat /\ Len(y) \in Nat /\ pos = Len(x) /\ pb = Len(y)
      BY <1>3, <2>1, <3>2 DEF x, y
    <3> QED
      BY <3>3, <3>4
  <2> QED
    BY <1>2, <1>3, <2>2, <2>3
<1>5. /\ req' = req /\ at' = "chunks" /\ periods' = Turns
      /\ UNCHANGED <<genVars, outVars>>
      /\ chunk' = Copies(Whole(pl, 1), k)
  BY <1>2, <1>3, <1>4 DEF MakeChunk, Copies, Turns
<1>6. pl' = pl /\ P' = P /\ pb' = pb /\ k' = k /\ Turns' = Turns /\ Periodic' = Periodic
  BY <1>5 DEF pl, P, pb, k, Turns, Periodic
<1>7. Copies(Whole(pl, 1), k) = Whole(pl, k)
  <2>1. k * P <= Turns * P /\ k * P \in Nat /\ Turns * P \in Nat
    BY <1>3, Multiplied
  <2>2. k * P <= pl.n
    <3> DEFINE u == Turns * P
               v == k * P
               t == pl.n % P
    <3>1. pl.n = u + t /\ u \in Nat /\ v \in Nat /\ v <= u /\ t \in Nat
      BY <1>3, <2>1
    <3> HIDE DEF u, v, t
    <3>2. v <= pl.n
      BY <3>1
    <3> QED
      BY <3>2 DEF v
  <2> QED
    BY <1>3, <2>2, CopiesAreWhole
<1>8. ChunkInv'
  BY <1>1, <1>5, <1>6, <1>7 DEF ChunkInv
<1>9. Sends((Turns - periods) * P)'
  <2>1. (Turns - Turns) * P = 0
    BY <1>3
  <2>2. Sends(0)
    BY <1>2 DEF FillInv
  <2>3. Sends(0)'
    BY <1>5, <1>6, <2>2 DEF Sends, outVars
  <2>4. ((Turns - periods) * P)' = 0
    BY <1>5, <1>6, <2>1
  <2> QED
    BY <2>3, <2>4 DEF Sends
<1>10. periods' \in 0..Turns'
  BY <1>3, <1>5, <1>6
<1>11. SendInv'
  BY <1>5, <1>8, <1>9, <1>10 DEF SendInv
<1>12. UNCHANGED Contract!vars
  BY <1>5, <1>6 DEF Contract!vars, outVars
<1> QED
  BY <1>11, <1>12

(***************************************************************************)
(* j periods after m periods are the same bytes as the first j periods.    *)
(***************************************************************************)
LEMMA PeriodsSend ==
    ASSUME req \in Requests, ChunkInv, NEW m \in Nat, NEW j \in Nat, m + j <= Turns
    PROVE  /\ m * P \in Nat /\ j * P \in Nat /\ m * P + j * P = (m + j) * P
           /\ m * P + j * P <= pl.n
           /\ Whole(pl, j) = Run(pl, m * P, j * P)
<1>1. /\ Repeats(pl) /\ Writable(pl) /\ P = Period(pl) /\ P \in Nat
      /\ Turns \in Nat /\ pl.n = Turns * P + (pl.n % P) /\ pl.n % P \in Nat
  BY ChunkFacts DEF ChunkInv
<1>2. m + j \in Nat /\ (m + j) * P <= Turns * P /\ Turns * P \in Nat
  BY <1>1, Multiplied
<1>3. m * P \in Nat /\ j * P \in Nat /\ m * P + j * P = (m + j) * P
  <2>1. P \in Nat
    BY <1>1
  <2> QED
    BY <2>1
<1>4. m * P + j * P <= pl.n
  <2> DEFINE u == Turns * P
             v == m * P + j * P
             t == pl.n % P
  <2>1. pl.n = u + t /\ u \in Nat /\ v \in Nat /\ v <= u /\ t \in Nat
    BY <1>1, <1>2, <1>3
  <2> HIDE DEF u, v, t
  <2>2. v <= pl.n
    BY <2>1
  <2> QED
    BY <2>2 DEF v
<1>5. Run(pl, m * P, j * P) = Run(pl, 0, j * P)
  <2> DEFINE t == j * P
  <2>1. t \in Nat /\ m * Period(pl) + t <= pl.n
    BY <1>1, <1>3, <1>4
  <2> HIDE DEF t
  <2>2. Run(pl, m * Period(pl), t) = Run(pl, 0, t)
    BY <1>1, <2>1, RunRepeats
  <2> QED
    BY <1>1, <2>2 DEF t
<1>6. Whole(pl, j) = Run(pl, 0, j * P)
  BY <1>1 DEF Whole
<1> QED
  BY <1>3, <1>4, <1>5, <1>6

(***************************************************************************)
(* The numbers of a plan do not change.                                    *)
(***************************************************************************)
LEMMA SamePlan ==
    ASSUME req' = req
    PROVE  /\ pl' = pl /\ P' = P /\ pb' = pb /\ k' = k /\ Turns' = Turns
           /\ Periodic' = Periodic
BY DEF pl, P, pb, k, Turns, Periodic

(***************************************************************************)
(* A chunk is sent, while a chunk or more is left.                         *)
(***************************************************************************)
LEMMA ChunkSends ==
    ASSUME WriteInv, EmitChunk
    PROVE  SendInv' /\ [Contract!Send]_(Contract!vars)
<1>1. /\ req \in Requests /\ at = "chunks" /\ ChunkInv /\ periods \in 0..Turns
      /\ Sends((Turns - periods) * P) /\ k <= periods
  BY DEF WriteInv, IInv, GenInv, SendInv, EmitChunk, ChunkLeft
<1>2. /\ Turns \in Nat \ {0} /\ k \in Nat \ {0} /\ P \in Nat \ {0} /\ pl.n \in Nat
  BY <1>1, ChunkFacts DEF ChunkInv
<1>3. PICK u \in Nat : u = Turns - periods
  BY <1>1, <1>2
<1>4. PICK j \in Nat \ {0}, p \in Nat \ {0} : j = k /\ p = P
  BY <1>2
<1>5. /\ u * p \in Nat /\ j * p \in Nat /\ u * p + j * p = (u + j) * p
      /\ u * p + j * p <= pl.n
      /\ Whole(pl, j) = Run(pl, u * p, j * p)
  <2>1. u + j <= Turns
    BY <1>1, <1>2, <1>3, <1>4
  <2> QED
    BY <1>1, <1>4, <2>1, PeriodsSend
<1>6. PICK m \in Nat, w \in Nat : m = u * p /\ w = j * p
  BY <1>5
<1>7. Sends(m) /\ m + w <= pl.n /\ m + w # 0
  <2>1. j * p # 0
    BY <1>4
  <2> QED
    BY <1>1, <1>3, <1>4, <1>5, <1>6, <2>1
<1>8. PICK text : text = Part(k * pb)
  OBVIOUS
<1>9. text = Run(pl, m, w)
  <2>1. k \in 0..k
    BY <1>2
  <2>2. Part(k * pb) = Whole(pl, k)
    BY <1>1, <2>1, ChunkParts
  <2> QED
    BY <1>4, <1>5, <1>6, <1>8, <2>2
<1>10. /\ Emit(text) /\ at' # "returned" =>
             /\ Sends(m + w)' /\ [Contract!Send]_(Contract!vars)
             /\ chunk' = chunk /\ UNCHANGED <<req, genVars>>
       /\ EmitFails(text) =>
             /\ Contract!Send /\ result' # "writing" /\ at' = "returned"
  BY <1>1, <1>7, <1>9, EmitSends
<1>11. \/ at' = "chunks" /\ periods' = periods - k /\ Emit(text)
       \/ EmitFails(text)
  BY <1>1, <1>8 DEF EmitChunk
<1>12. CASE at' = "chunks" /\ periods' = periods - k /\ Emit(text)
  <2>1. /\ Sends(m + w)' /\ [Contract!Send]_(Contract!vars)
        /\ chunk' = chunk /\ req' = req
    BY <1>10, <1>12
  <2>2. pl' = pl /\ P' = P /\ pb' = pb /\ k' = k /\ Turns' = Turns /\ Periodic' = Periodic
    BY <2>1, SamePlan
  <2>3. ((Turns - periods) * P)' = m + w
    <3>1. Turns - (periods - k) = u + j
      BY <1>1, <1>2, <1>3, <1>4
    <3> QED
      BY <1>4, <1>5, <1>6, <1>12, <2>2, <3>1
  <2>4. Sends((Turns - periods) * P)'
    BY <2>1, <2>3 DEF Sends
  <2>5. ChunkInv'
    BY <1>1, <2>1, <2>2 DEF ChunkInv
  <2>6. periods' \in 0..Turns'
    BY <1>1, <1>2, <1>12, <2>2
  <2>7. at' = "chunks"
    BY <1>12
  <2>8. SendInv'
    BY <2>4, <2>5, <2>6, <2>7 DEF SendInv
  <2> QED
    BY <2>1, <2>8
<1>13. CASE EmitFails(text)
  BY <1>10, <1>13 DEF SendInv
<1> QED
  BY <1>11, <1>12, <1>13

(***************************************************************************)
(* The periods that are left are sent, fewer than a chunk.                 *)
(***************************************************************************)
LEMMA PeriodsSent ==
    ASSUME WriteInv, EmitPeriods
    PROVE  SendInv' /\ [Contract!Send]_(Contract!vars)
<1>1. /\ req \in Requests /\ at = "chunks" /\ ChunkInv /\ periods \in 0..Turns
      /\ Sends((Turns - periods) * P) /\ ~(k <= periods)
  BY DEF WriteInv, IInv, GenInv, SendInv, EmitPeriods, ChunkLeft
<1>2. /\ Turns \in Nat \ {0} /\ k \in Nat \ {0} /\ P \in Nat \ {0} /\ pl.n \in Nat
  BY <1>1, ChunkFacts DEF ChunkInv
<1>3. PICK u \in Nat : u = Turns - periods
  BY <1>1, <1>2
<1>4. PICK j \in Nat, p \in Nat \ {0} : j = periods /\ p = P
  BY <1>1, <1>2
<1>5. /\ u * p \in Nat /\ j * p \in Nat /\ u * p + j * p = (u + j) * p
      /\ u * p + j * p <= pl.n
      /\ Whole(pl, j) = Run(pl, u * p, j * p)
  <2>1. u + j <= Turns
    BY <1>1, <1>2, <1>3, <1>4
  <2> QED
    BY <1>1, <1>4, <2>1, PeriodsSend
<1>6. PICK m \in Nat, w \in Nat : m = u * p /\ w = j * p
  BY <1>5
<1>7. Sends(m) /\ m + w <= pl.n /\ m + w # 0 /\ m + w = Turns * P
  <2>1. u + j = Turns
    BY <1>1, <1>2, <1>3, <1>4
  <2>2. m + w = Turns * p
    BY <1>5, <1>6, <2>1
  <2>3. Turns * p # 0
    BY <1>2
  <2> QED
    BY <1>1, <1>3, <1>4, <1>5, <1>6, <2>2, <2>3
<1>8. PICK text : text = Part(periods * pb)
  OBVIOUS
<1>9. text = Run(pl, m, w)
  <2>1. periods \in 0..k
    BY <1>1, <1>2
  <2>2. Part(periods * pb) = Whole(pl, periods)
    BY <1>1, <2>1, ChunkParts
  <2> QED
    BY <1>4, <1>5, <1>6, <1>8, <2>2
<1>10. /\ Emit(text) /\ at' # "returned" =>
             /\ Sends(m + w)' /\ [Contract!Send]_(Contract!vars)
             /\ chunk' = chunk /\ UNCHANGED <<req, genVars>>
       /\ EmitFails(text) =>
             /\ Contract!Send /\ result' # "writing" /\ at' = "returned"
  BY <1>1, <1>7, <1>9, EmitSends
<1>11. \/ at' = "tail" /\ Emit(text)
       \/ EmitFails(text)
  BY <1>8 DEF EmitPeriods
<1>12. CASE at' = "tail" /\ Emit(text)
  <2>1. /\ Sends(m + w)' /\ [Contract!Send]_(Contract!vars)
        /\ chunk' = chunk /\ req' = req
    BY <1>10, <1>12
  <2>2. pl' = pl /\ P' = P /\ pb' = pb /\ k' = k /\ Turns' = Turns /\ Periodic' = Periodic
    BY <2>1, SamePlan
  <2>3. (Turns * P)' = m + w
    BY <1>7, <2>2
  <2>4. Sends(Turns * P)'
    BY <2>1, <2>3 DEF Sends
  <2>5. ChunkInv'
    BY <1>1, <2>1, <2>2 DEF ChunkInv
  <2>6. at' = "tail"
    BY <1>12
  <2>7. SendInv'
    BY <2>4, <2>5, <2>6 DEF SendInv
  <2> QED
    BY <2>1, <2>7
<1>13. CASE EmitFails(text)
  BY <1>10, <1>13 DEF SendInv
<1> QED
  BY <1>11, <1>12, <1>13

(***************************************************************************)
(* The part of a period that is left is sent.                              *)
(***************************************************************************)
LEMMA TailSends ==
    ASSUME WriteInv, EmitTail
    PROVE  SendInv' /\ [Contract!Send]_(Contract!vars)
<1>1. /\ req \in Requests /\ at = "tail" /\ ChunkInv /\ Sends(Turns * P)
  BY DEF WriteInv, IInv, GenInv, SendInv, EmitTail
<1>2. /\ Turns \in Nat \ {0} /\ P \in Nat \ {0} /\ pl.n \in Nat
      /\ pl.n = Turns * P + (pl.n % P) /\ pl.n % P \in Nat
      /\ Repeats(pl) /\ Writable(pl) /\ P = Period(pl)
  BY <1>1, ChunkFacts DEF ChunkInv
<1>3. PICK m \in Nat, w \in Nat : m = Turns * P /\ w = pl.n % P
  <2>1. Turns \in Nat /\ P \in Nat
    BY <1>2
  <2>2. Turns * P \in Nat
    BY <2>1
  <2> QED
    BY <1>2, <2>2
<1>4. m + w = pl.n /\ m + w <= pl.n /\ m + w # 0 /\ Sends(m)
  <2>1. pl.n \in Nat \ {0}
    BY <1>1, PlanWritable
  <2>2. m + w = pl.n
    BY <1>2, <1>3
  <2>3. Sends(m)
    BY <1>1, <1>3
  <2> QED
    BY <2>1, <2>2, <2>3
<1>5. PICK text : text = Part(rangeBytes(pl, 1, pl.n % P))
  OBVIOUS
<1>6. text = Run(pl, m, w)
  <2>1. text = Run(pl, 0, w)
    BY <1>1, <1>3, <1>5, ChunkParts
  <2>2. Run(pl, Turns * Period(pl), w) = Run(pl, 0, w)
    <3>1. Turns \in Nat /\ Turns * Period(pl) + w <= pl.n
      BY <1>2, <1>3, <1>4
    <3> QED
      BY <1>2, <3>1, RunRepeats
  <2> QED
    BY <1>2, <1>3, <2>1, <2>2
<1>7. /\ Emit(text) /\ at' # "returned" =>
             /\ Sends(m + w)' /\ [Contract!Send]_(Contract!vars)
             /\ chunk' = chunk /\ UNCHANGED <<req, genVars>>
      /\ EmitFails(text) =>
             /\ Contract!Send /\ result' # "writing" /\ at' = "returned"
  BY <1>1, <1>4, <1>6, EmitSends
<1>8. \/ at' = "end" /\ Emit(text)
      \/ EmitFails(text)
  BY <1>5 DEF EmitTail
<1>9. CASE at' = "end" /\ Emit(text)
  <2>1. /\ Sends(m + w)' /\ [Contract!Send]_(Contract!vars) /\ req' = req /\ at' = "end"
    BY <1>7, <1>9
  <2>2. pl.n' = m + w
    BY <1>4, <2>1, SamePlan
  <2>3. Sends(pl.n)'
    BY <2>1, <2>2 DEF Sends
  <2>4. SendInv'
    BY <2>1, <2>3 DEF SendInv
  <2> QED
    BY <2>1, <2>4
<1>10. CASE EmitFails(text)
  BY <1>7, <1>10 DEF SendInv
<1> QED
  BY <1>8, <1>9, <1>10

(***************************************************************************)
(* The closing bracket is sent.                                            *)
(***************************************************************************)
LEMMA EndSends ==
    ASSUME WriteInv, EmitEnd
    PROVE  SendInv' /\ Contract!Send
<1>1. /\ req \in Requests /\ at = "end" /\ Sends(pl.n) /\ req' = req /\ at' = "returned"
  BY DEF WriteInv, IInv, GenInv, SendInv, EmitEnd
<1>2. Writable(pl)
  BY <1>1, PlanWritable
<1>3. PICK had, text, rest :
         had = Sent(pl, pl.n) /\ text = <<Bracket("]")>> /\ rest = <<>>
  OBVIOUS
<1>4. /\ had \in Seq(Byte) /\ text \in Seq(Byte) /\ rest \in Seq(Byte)
      /\ Array(pl) = had \o text
  BY <1>2, <1>3, ArrayIsSent, EmptySeq
<1>5. Array(pl) = (had \o text) \o rest
  <2>1. had \o text \in Seq(Byte)
    BY <1>4, ConcatProperties
  <2> QED
    BY <1>3, <1>4, <2>1, ConcatEmptySeq
<1>6. got = had /\ written = Len(got) /\ result = "writing"
  BY <1>1, <1>3 DEF Sends
<1>7. WriteSucceeds(text) \/ WriteFails(text)
  BY <1>3 DEF EmitEnd
<1>8. Contract!Send /\ result' # "writing"
  BY <1>1, <1>3, <1>4, <1>5, <1>6, <1>7, WriteRefines
<1> QED
  BY <1>1, <1>8 DEF SendInv

-----------------------------------------------------------------------------
(***************************************************************************)
(* The contract.                                                           *)
(***************************************************************************)
(***************************************************************************)
(* At the start nothing is sent.                                           *)
(***************************************************************************)
LEMMA InitSends ==
    ASSUME Init
    PROVE  SendInv /\ Contract!Init
<1>1. req \in Requests /\ line = <<>> /\ Len(line) = 0 /\ Done = 0
  <2>1. req \in Requests /\ line = <<>> /\ i = 1
    BY DEF Init
  <2>2. Len(line) = 0
    BY <2>1
  <2>3. Done = 0
    <3>1. Done = 1 - 1 - 0
      BY <2>1, <2>2 DEF Done
    <3> QED
      BY <3>1
  <2> QED
    BY <2>1, <2>2, <2>3
<1>2. hi \in Nat \ {0}
  BY <1>1, PlanWritable DEF hi
<1>3. Sends(Done)
  BY <1>1 DEF Init, Sends, Sent
<1>4. pos = Len(Text(pl, line))
  BY <1>1, TextOfNothing DEF Init
<1>5. FillInv
  BY <1>1, <1>2, <1>3, <1>4 DEF Init, FillInv
<1>6. SendInv
  BY <1>5 DEF Init, SendInv
<1>7. Contract!Init
  BY <1>1, SizeOfArray DEF Init, Contract!Init, pl
<1> QED
  BY <1>6, <1>7

(***************************************************************************)
(* Each step of WriteJSON keeps its invariant, and is a step of the        *)
(* contract or changes nothing of it.                                      *)
(***************************************************************************)
LEMMA NextSends ==
    ASSUME WriteInv, [Next]_vars
    PROVE  WriteInv' /\ [Contract!Send]_(Contract!vars)
<1>1. IInv'
  BY NextInv DEF WriteInv
<1>2. SendInv' /\ [Contract!Send]_(Contract!vars)
  <2>1. CASE FillNumber \/ Event
    BY <2>1, FillSends
  <2>2. CASE Write \/ WriteError
    BY <2>2, BufferSends
  <2>3. CASE MakeChunk
    BY <2>3, ChunkMade
  <2>4. CASE EmitChunk
    BY <2>4, ChunkSends
  <2>5. CASE EmitPeriods
    BY <2>5, PeriodsSent
  <2>6. CASE EmitTail
    BY <2>6, TailSends
  <2>7. CASE EmitEnd
    BY <2>7, EndSends
  <2>8. CASE UNCHANGED vars
    <3>1. SendInv'
      BY <2>8 DEF WriteInv, SendInv, FillInv, ChunkInv, Sends, Done, Turns, hi, vars,
                  genVars, outVars, pl, P, pb, k, Periodic
    <3>2. UNCHANGED Contract!vars
      BY <2>8 DEF Contract!vars, vars, outVars, pl
    <3> QED
      BY <3>1, <3>2
  <2> QED
    BY <2>1, <2>2, <2>3, <2>4, <2>5, <2>6, <2>7, <2>8 DEF Next
<1> QED
  BY <1>1, <1>2 DEF WriteInv

(***************************************************************************)
(* WriteJSON implements its contract for any requests, buffer sizes and    *)
(* write errors: the client gets a prefix of the array, and without an     *)
(* error all of it, exactly JSONSize(p) bytes ("exactly JSONSize(p). It    *)
(* stops at the first write error.", write.go:110).                        *)
(***************************************************************************)
THEOREM AlwaysStreamsTheArray == Spec => StreamsTheArray
<1>1. Init => WriteInv /\ Contract!Init
  BY InitInv, InitSends DEF WriteInv
<1>2. WriteInv /\ [Next]_vars => WriteInv' /\ [Contract!Send]_(Contract!vars)
  BY NextSends
<1> QED
  BY <1>1, <1>2, PTL DEF Spec, StreamsTheArray, Contract!Spec

(***************************************************************************)
(* fill never writes past the end of the buffer of WriteJSON, nor past the *)
(* chunk of writePeriodic, for strings of any length (write.go:67, 122 and *)
(* 154).                                                                   *)
(***************************************************************************)
THEOREM AlwaysFitsBuffer == Spec => []FitsBuffer
<1>1. IInv => FitsBuffer
  <2> SUFFICES ASSUME IInv PROVE FitsBuffer
    OBVIOUS
  <2>1. req \in Requests /\ pos \in Nat /\ pos <= stop + maxElem
    BY DEF IInv, GenInv, BufInv
  <2>2. StreamBuf + maxElem + 1 <= BufLen /\ BufLen \in Nat /\ maxElem \in Nat
    BY <2>1, MaxElemFacts
  <2>3. CASE Periodic
    <3>1. stop = pb
      BY <2>3 DEF stop
    <3>2. pb \in Nat /\ k \in Nat /\ 1 <= k /\ 1 \in Nat
      BY <2>1, <2>3, ChunkFacts
    <3>3. 1 * pb <= k * pb /\ 1 * pb = pb /\ k * pb \in Nat
      BY <3>2, Multiplied
    <3> QED
      BY <2>1, <2>2, <2>3, <3>1, <3>2, <3>3 DEF FitsBuffer, ChunkLen
  <2>4. CASE ~Periodic
    <3>1. stop = StreamBuf /\ StreamBuf \in Nat
      BY <2>4, WriteAssumption DEF stop
    <3>2. (IF i > pl.n THEN 1 ELSE 0) \in 0..1
      OBVIOUS
    <3> QED
      BY <2>1, <2>2, <2>4, <3>1, <3>2 DEF FitsBuffer
  <2> QED
    BY <2>3, <2>4
<1> QED
  BY <1>1, Invariance, PTL

-----------------------------------------------------------------------------
(***************************************************************************)
(* dcounter: the digits of a number.                                       *)
(***************************************************************************)
Digit10 == 48..57

\* g satisfies the recursion of AppendInt.
AppendsDigits(g) ==
    g = [x \in Nat |-> IF x < 10 THEN <<48 + x>> ELSE Append(g[x \div 10], 48 + (x % 10))]

(***************************************************************************)
(* AppendInt has the value that its recursion describes: x \div 10 goes    *)
(* down.                                                                   *)
(***************************************************************************)
LEMMA AppendIntEquation ==
    /\ Counter!AppendInt \in [Nat -> Seq(Digit10)]
    /\ \A x \in Nat :
         Counter!AppendInt[x] = IF x < 10 THEN <<48 + x>>
                                ELSE Append(Counter!AppendInt[x \div 10], 48 + (x % 10))
<1> DEFINE V == Seq(Digit10)
           done == {x \in Nat : x < 10}
           base == [x \in Nat |-> IF x < 10 THEN <<48 + x>> ELSE <<>>]
           calls == [x \in Nat |-> x \div 10]
           combine == [z \in Nat \X V |-> Append(z[2], 48 + (z[1] % 10))]
           rank == [x \in Nat |-> x]
<1>1. \A x \in Nat : x \div 10 \in Nat /\ 48 + (x % 10) \in Digit10
  BY DEF Digit10
<1>2. base \in [Nat -> V] /\ calls \in [Nat -> Nat] /\ rank \in [Nat -> Nat]
  <2>1. \A x \in Nat : x < 10 => <<48 + x>> \in V
    <3> TAKE x \in Nat
    <3>1. x < 10 => 48 + x \in Digit10
      BY DEF Digit10
    <3> QED
      BY <3>1
  <2>2. <<>> \in V
    OBVIOUS
  <2> HIDE DEF V
  <2> QED
    BY <1>1, <2>1, <2>2
<1>3. combine \in [Nat \X V -> V]
  <2>1. \A z \in Nat \X V : Append(z[2], 48 + (z[1] % 10)) \in V
    BY <1>1
  <2> HIDE DEF V
  <2> QED
    BY <2>1
<1>4. \A x \in Nat \ done : rank[calls[x]] < rank[x]
  OBVIOUS
<1>5. \A z \in Nat \X V : combine[z] = Append(z[2], 48 + (z[1] % 10))
  OBVIOUS
<1>6. \A x \in Nat : /\ (x < 10 => base[x] = <<48 + x>>) /\ calls[x] = x \div 10
                     /\ (x \in done <=> x < 10)
  OBVIOUS
<1> HIDE DEF V, done, base, calls, combine, rank
<1>7. PICK g \in [Nat -> V] : \A x \in Nat : Solves(g, x, done, base, calls, combine)
  BY <1>2, <1>3, <1>4, Recursion
<1>8. \A x \in Nat :
         g[x] = IF x < 10 THEN <<48 + x>> ELSE Append(g[x \div 10], 48 + (x % 10))
  <2> TAKE x \in Nat
  <2>1. Solves(g, x, done, base, calls, combine)
    BY <1>7
  <2>2. <<x, g[x \div 10]>> \in Nat \X V
    BY <1>1, <1>7
  <2>3. combine[<<x, g[x \div 10]>>] = Append(g[x \div 10], 48 + (x % 10))
    BY <1>5, <2>2
  <2> QED
    BY <1>6, <2>1, <2>3 DEF Solves
<1>9. AppendsDigits(g)
  BY <1>7, <1>8, Zenon DEF AppendsDigits
<1>10. Counter!AppendInt = CHOOSE h : AppendsDigits(h)
  BY DEF Counter!AppendInt, Counter!Digit, AppendsDigits
<1> DEFINE h == Counter!AppendInt
<1>11. AppendsDigits(h)
  BY <1>9, <1>10, Zenon
<1> HIDE DEF h
<1>12. /\ h = [x \in Nat |-> h[x]]
       /\ \A x \in Nat : h[x] = IF x < 10 THEN <<48 + x>>
                                ELSE Append(h[x \div 10], 48 + (x % 10))
  BY <1>11 DEF AppendsDigits
<1>13. \A x \in Nat : h[x] \in V
  <2> DEFINE B == {x \in Nat : h[x] \notin V}
  <2> SUFFICES ASSUME B # {} PROVE FALSE
    OBVIOUS
  <2>1. B \subseteq Nat
    OBVIOUS
  <2>2. PICK x \in B : \A y \in B : x <= y
    <3> HIDE DEF B
    <3> QED
      BY <2>1, SmallestNat
  <2>3. x \in Nat /\ h[x] \notin V
    OBVIOUS
  <2> HIDE DEF B
  <2>4. CASE x < 10
    <3>1. 48 + x \in Digit10
      BY <2>3, <2>4 DEF Digit10
    <3>2. <<48 + x>> \in V
      BY <3>1 DEF V
    <3> QED
      BY <1>12, <2>3, <2>4, <3>2
  <2>5. CASE ~(x < 10)
    <3>1. x \div 10 \in Nat /\ ~(x <= x \div 10)
      BY <2>3, <2>5
    <3>2. h[x \div 10] \in V
      BY <2>2, <3>1 DEF B
    <3>3. Append(h[x \div 10], 48 + (x % 10)) \in V
      BY <1>1, <2>3, <3>2 DEF V
    <3> QED
      BY <1>12, <2>3, <2>5, <3>3
  <2> QED
    BY <2>4, <2>5
<1> QED
  BY <1>12, <1>13 DEF h, V

(***************************************************************************)
(* A number has as many digits as its size counts.                         *)
(***************************************************************************)
LEMMA WidthIsDigits ==
    ASSUME NEW x \in Nat
    PROVE  Len(Counter!AppendInt[x]) = Digits[x] /\ Digits[x] \in Nat \ {0}
<1> DEFINE Good(y) == Len(Counter!AppendInt[y]) = Digits[y] /\ Digits[y] \in Nat \ {0}
           B == {y \in Nat : ~Good(y)}
<1> SUFFICES ASSUME B # {} PROVE FALSE
  OBVIOUS
<1>1. B \subseteq Nat
  OBVIOUS
<1>2. PICK y \in B : \A z \in B : y <= z
  <2> HIDE DEF B
  <2> QED
    BY <1>1, SmallestNat
<1>3. y \in Nat /\ ~Good(y)
  OBVIOUS
<1> HIDE DEF B
<1>4. CASE y < 10
  <2>1. Counter!AppendInt[y] = <<48 + y>> /\ Digits[y] = 1
    BY <1>3, <1>4, AppendIntEquation, DigitsEquation
  <2>2. Len(<<48 + y>>) = 1
    OBVIOUS
  <2> QED
    BY <1>3, <2>1, <2>2
<1>5. CASE ~(y < 10)
  <2>1. y \div 10 \in Nat /\ ~(y <= y \div 10)
    BY <1>3, <1>5
  <2>2. Good(y \div 10)
    BY <1>2, <2>1 DEF B
  <2>3. /\ Counter!AppendInt[y] = Append(Counter!AppendInt[y \div 10], 48 + (y % 10))
        /\ Counter!AppendInt[y \div 10] \in Seq(Digit10)
        /\ Digits[y] = 1 + Digits[y \div 10]
    BY <1>3, <1>5, <2>1, AppendIntEquation, DigitsEquation
  <2>4. Len(Counter!AppendInt[y]) = Len(Counter!AppendInt[y \div 10]) + 1
    <3> DEFINE s == Counter!AppendInt[y \div 10]
    <3>1. s \in Seq(Digit10) /\ Counter!AppendInt[y] = Append(s, 48 + (y % 10))
      BY <2>3
    <3> HIDE DEF s
    <3>2. Len(Counter!AppendInt[y]) = Len(s) + 1
      BY <3>1
    <3> QED
      BY <3>2 DEF s
  <2> QED
    BY <1>3, <2>2, <2>3, <2>4
<1> QED
  BY <1>4, <1>5

-----------------------------------------------------------------------------
(***************************************************************************)
(* Counting digits up. The digit z takes the one, and the digits right of  *)
(* it are nines, which become zeros. If z is 0, all digits are nines, and  *)
(* a one is added on the left.                                             *)
(***************************************************************************)
CarriesTo(s, t, z) ==
    /\ z \in 0..Len(s)
    /\ \A j \in z+1..Len(s) : s[j] = 57
    /\ z = 0 => /\ Len(t) = Len(s) + 1
                /\ \A j \in 1..Len(t) : t[j] = IF j = 1 THEN 49 ELSE 48
    /\ z # 0 => /\ s[z] # 57
                /\ Len(t) = Len(s)
                /\ \A j \in 1..Len(s) :
                      t[j] = IF j < z THEN s[j] ELSE IF j = z THEN s[j] + 1 ELSE 48

(***************************************************************************)
(* A last digit below nine takes the one itself.                           *)
(***************************************************************************)
LEMMA LastDigitCarries ==
    ASSUME NEW s \in Seq(Digit10), NEW r \in 0..8
    PROVE  CarriesTo(Append(s, 48 + r), Append(s, 48 + (r + 1)), Len(s) + 1)
<1> DEFINE u == Append(s, 48 + r)
           w == Append(s, 48 + (r + 1))
           z == Len(s) + 1
<1>1. 48 + r \in Digit10 /\ 48 + (r + 1) \in Digit10
  BY DEF Digit10
<1>2. /\ Len(u) = z /\ Len(w) = z /\ u[z] = 48 + r /\ w[z] = 48 + (r + 1)
      /\ \A j \in 1..Len(s) : u[j] = s[j] /\ w[j] = s[j]
  BY <1>1, AppendProperties
<1>3. Len(s) \in Nat
  OBVIOUS
<1> HIDE DEF u, w
<1> QED
  BY <1>2, <1>3 DEF CarriesTo, u, w

(***************************************************************************)
(* A last nine becomes a zero, and the digits before it count one up.      *)
(***************************************************************************)
LEMMA NineCarries ==
    ASSUME NEW s \in Seq(Digit10), NEW t \in Seq(Digit10), NEW z, CarriesTo(s, t, z)
    PROVE  CarriesTo(Append(s, 57), Append(t, 48), z)
<1> DEFINE u == Append(s, 57)
           w == Append(t, 48)
<1>1. 57 \in Digit10 /\ 48 \in Digit10
  BY DEF Digit10
<1>2. /\ Len(u) = Len(s) + 1 /\ u[Len(s) + 1] = 57 /\ \A j \in 1..Len(s) : u[j] = s[j]
      /\ Len(w) = Len(t) + 1 /\ w[Len(t) + 1] = 48 /\ \A j \in 1..Len(t) : w[j] = t[j]
  BY <1>1, AppendProperties
<1>3. Len(s) \in Nat /\ Len(t) \in Nat
  OBVIOUS
<1> HIDE DEF u, w
<1>4. CASE z = 0
  <2>1. Len(t) = Len(s) + 1
    BY <1>4 DEF CarriesTo
  <2>2. \A j \in 1..Len(w) : w[j] = IF j = 1 THEN 49 ELSE 48
    <3> TAKE j \in 1..Len(w)
    <3>1. CASE j \in 1..Len(t)
      BY <1>2, <1>4, <3>1 DEF CarriesTo
    <3>2. CASE j = Len(t) + 1
      BY <1>2, <1>3, <2>1, <3>2
    <3> QED
      BY <1>2, <1>3, <3>1, <3>2
  <2>3. \A j \in z+1..Len(u) : u[j] = 57
    <3> TAKE j \in z+1..Len(u)
    <3>1. CASE j \in 1..Len(s)
      BY <1>2, <1>4, <3>1 DEF CarriesTo
    <3>2. CASE j = Len(s) + 1
      BY <1>2, <3>2
    <3> QED
      BY <1>2, <1>3, <1>4, <3>1, <3>2
  <2> QED
    BY <1>2, <1>3, <1>4, <2>1, <2>2, <2>3 DEF CarriesTo, u, w
<1>5. CASE z # 0
  <2>1. Len(t) = Len(s) /\ z \in 1..Len(s) /\ s[z] # 57
    BY <1>5 DEF CarriesTo
  <2>2. \A j \in z+1..Len(u) : u[j] = 57
    <3> TAKE j \in z+1..Len(u)
    <3>1. CASE j \in 1..Len(s)
      BY <1>2, <2>1, <3>1 DEF CarriesTo
    <3>2. CASE j = Len(s) + 1
      BY <1>2, <3>2
    <3> QED
      BY <1>2, <1>3, <2>1, <3>1, <3>2
  <2>3. \A j \in 1..Len(u) :
           w[j] = IF j < z THEN u[j] ELSE IF j = z THEN u[j] + 1 ELSE 48
    <3> TAKE j \in 1..Len(u)
    <3>1. CASE j \in 1..Len(s)
      <4>1. t[j] = IF j < z THEN s[j] ELSE IF j = z THEN s[j] + 1 ELSE 48
        BY <1>5, <3>1 DEF CarriesTo
      <4> QED
        BY <1>2, <2>1, <3>1, <4>1
    <3>2. CASE j = Len(s) + 1
      BY <1>2, <1>3, <2>1, <3>2
    <3> QED
      BY <1>2, <1>3, <3>1, <3>2
  <2>4. u[z] # 57 /\ z \in 0..Len(u) /\ Len(w) = Len(u)
    BY <1>2, <1>3, <2>1
  <2> QED
    BY <1>5, <2>2, <2>3, <2>4 DEF CarriesTo, u, w
<1> QED
  BY <1>4, <1>5

(***************************************************************************)
(* A one, and then a zero.                                                 *)
(***************************************************************************)
LEMMA ZeroAppended ==
    ASSUME NEW s \in Seq(Digit10), Len(s) = 1, s[1] = 49
    PROVE  Len(Append(s, 48)) = 2 /\ Append(s, 48)[1] = 49 /\ Append(s, 48)[2] = 48
<1>1. 48 \in Digit10
  BY DEF Digit10
<1>2. ASSUME NEW u \in Seq(Digit10)
      PROVE  /\ Len(Append(u, 48)) = Len(u) + 1
             /\ \A j \in 1..Len(u) : Append(u, 48)[j] = u[j]
             /\ Append(u, 48)[Len(u) + 1] = 48
  BY <1>1, AppendProperties
<1>3. /\ Len(Append(s, 48)) = Len(s) + 1
      /\ \A j \in 1..Len(s) : Append(s, 48)[j] = s[j]
      /\ Append(s, 48)[Len(s) + 1] = 48
  BY <1>2
<1> QED
  BY <1>3

(***************************************************************************)
(* The digits of x + 1, from the digits of x.                              *)
(***************************************************************************)
LEMMA CarryRule ==
    ASSUME NEW x \in Nat
    PROVE  \E z : CarriesTo(Counter!AppendInt[x], Counter!AppendInt[x + 1], z)
<1> DEFINE D(y) == Counter!AppendInt[y]
           Good(y) == \E z : CarriesTo(D(y), D(y + 1), z)
           B == {y \in Nat : ~Good(y)}
<1> SUFFICES ASSUME B # {} PROVE FALSE
  OBVIOUS
<1>1. B \subseteq Nat
  OBVIOUS
<1>2. PICK y \in B : \A z \in B : y <= z
  <2> HIDE DEF B
  <2> QED
    BY <1>1, SmallestNat
<1>3. y \in Nat /\ ~Good(y)
  OBVIOUS
<1> HIDE DEF B
<1>4. \A w \in Nat : /\ D(w) \in Seq(Digit10)
                     /\ w < 10 => D(w) = <<48 + w>>
                     /\ ~(w < 10) => D(w) = Append(D(w \div 10), 48 + (w % 10))
  BY AppendIntEquation
<1> HIDE DEF D
<1>5. CASE y < 9
  <2>1. PICK w \in Nat : w = y + 1 /\ w < 10
    BY <1>3, <1>5
  <2>2. D(y) = <<48 + y>> /\ D(y + 1) = <<48 + (y + 1)>>
    <3>1. D(w) = <<48 + w>>
      BY <1>4, <2>1
    <3>2. D(y) = <<48 + y>>
      BY <1>3, <1>4, <1>5
    <3> QED
      BY <2>1, <3>1, <3>2
  <2>3. <<48 + y>> = Append(<<>>, 48 + y) /\ <<48 + (y + 1)>> = Append(<<>>, 48 + (y + 1))
    OBVIOUS
  <2>4. CarriesTo(Append(<<>>, 48 + y), Append(<<>>, 48 + (y + 1)), Len(<<>>) + 1)
    <3>1. <<>> \in Seq(Digit10) /\ y \in 0..8
      BY <1>3, <1>5
    <3> DEFINE s == <<>>
    <3> HIDE DEF s
    <3>2. s \in Seq(Digit10) =>
             CarriesTo(Append(s, 48 + y), Append(s, 48 + (y + 1)), Len(s) + 1)
      BY <3>1, LastDigitCarries
    <3> QED
      BY <3>1, <3>2 DEF s
  <2>5. Good(y)
    <3>1. CarriesTo(D(y), D(y + 1), Len(<<>>) + 1)
      BY <2>2, <2>3, <2>4, Zenon
    <3> QED
      BY <3>1
  <2> QED
    BY <1>3, <2>5
<1>6. CASE y = 9
  <2>1. PICK one \in Nat, ten \in Nat : one = 1 /\ ten = 10
    OBVIOUS
  <2>2. D(y) = <<57>> /\ D(one) = <<49>> /\ D(ten) = Append(<<49>>, 48)
    <3>1. one = ten \div 10 /\ 48 + (ten % 10) = 48 /\ ~(ten < 10)
      BY <2>1
    <3>2. D(ten) = Append(D(ten \div 10), 48 + (ten % 10))
      BY <1>4, <3>1
    <3>3. D(y) = <<48 + y>> /\ D(one) = <<48 + one>>
      BY <1>3, <1>4, <1>6, <2>1
    <3>4. 48 + y = 57 /\ 48 + one = 49
      BY <1>6, <2>1
    <3> QED
      BY <3>1, <3>2, <3>3, <3>4
  <2>3. 49 \in Digit10 /\ 48 \in Digit10 /\ <<49>> \in Seq(Digit10)
    <3>1. 49 \in Digit10 /\ 48 \in Digit10
      BY DEF Digit10
    <3> QED
      BY <3>1
  <2>4. CarriesTo(<<57>>, Append(<<49>>, 48), 0)
    <3> DEFINE s == <<49>>
               t == Append(s, 48)
    <3>1. s \in Seq(Digit10) /\ Len(s) = 1 /\ s[1] = 49
      BY <2>3
    <3> HIDE DEF s
    <3>2. Len(t) = 2 /\ t[1] = 49 /\ t[2] = 48
      BY <2>3, <3>1, ZeroAppended
    <3> HIDE DEF t
    <3>3. CarriesTo(<<57>>, t, 0)
      BY <3>2 DEF CarriesTo
    <3> QED
      BY <3>3 DEF t, s
  <2>5. y + 1 = ten
    BY <1>6, <2>1
  <2>6. CarriesTo(D(y), D(y + 1), 0)
    BY <1>4, <2>1, <2>2, <2>4, <2>5
  <2>7. Good(y)
    BY <2>6
  <2> QED
    BY <1>3, <2>7
<1>7. CASE y > 9 /\ y % 10 # 9
  <2>1. (y + 1) \div 10 = y \div 10 /\ (y + 1) % 10 = (y % 10) + 1 /\ y % 10 \in 0..8
        /\ y \div 10 \in Nat /\ ~(y < 10) /\ ~(y + 1 < 10) /\ y + 1 \in Nat
    BY <1>3, <1>7
  <2>2. PICK s \in Seq(Digit10), r \in 0..8 : s = D(y \div 10) /\ r = y % 10
    BY <1>4, <2>1
  <2>3. D(y) = Append(s, 48 + r) /\ D(y + 1) = Append(s, 48 + (r + 1))
    BY <1>3, <1>4, <2>1, <2>2
  <2>4. CarriesTo(D(y), D(y + 1), Len(s) + 1)
    BY <2>3, LastDigitCarries
  <2> QED
    BY <1>3, <2>4
<1>8. CASE y > 9 /\ y % 10 = 9
  <2>1. (y + 1) \div 10 = (y \div 10) + 1 /\ (y + 1) % 10 = 0
        /\ y \div 10 \in Nat /\ ~(y < 10) /\ ~(y + 1 < 10) /\ y + 1 \in Nat
        /\ ~(y <= y \div 10)
    BY <1>3, <1>8
  <2>2. Good(y \div 10)
    BY <1>2, <2>1 DEF B
  <2>3. PICK z : CarriesTo(D(y \div 10), D((y \div 10) + 1), z)
    BY <2>2
  <2>4. D(y) = Append(D(y \div 10), 57) /\ D(y + 1) = Append(D((y \div 10) + 1), 48)
    <3>1. PICK w \in Nat : w = y + 1 /\ ~(w < 10)
      BY <2>1
    <3>2. /\ D(w) = Append(D(w \div 10), 48 + (w % 10))
          /\ D(y) = Append(D(y \div 10), 48 + (y % 10))
      BY <1>3, <1>4, <2>1, <3>1
    <3>3. 48 + (y % 10) = 57 /\ 48 + (w % 10) = 48 /\ w \div 10 = (y \div 10) + 1
      BY <1>8, <2>1, <3>1
    <3> QED
      BY <3>1, <3>2, <3>3
  <2>5. D(y \div 10) \in Seq(Digit10) /\ D((y \div 10) + 1) \in Seq(Digit10)
    <3>1. PICK q \in Nat : q = y \div 10
      BY <2>1
    <3>2. PICK p \in Nat : p = q + 1
      OBVIOUS
    <3>3. D(q) \in Seq(Digit10) /\ D(p) \in Seq(Digit10)
      BY <1>4
    <3> QED
      BY <3>1, <3>2, <3>3
  <2>6. CarriesTo(D(y), D(y + 1), z)
    BY <2>3, <2>4, <2>5, NineCarries
  <2> QED
    BY <1>3, <2>6
<1> QED
  BY <1>3, <1>5, <1>6, <1>7, <1>8

-----------------------------------------------------------------------------
(***************************************************************************)
(* inc, in the array.                                                      *)
(***************************************************************************)
\* The array dd shows the digits s, the most significant one at st.
Frame(dd, st, s) ==
    /\ dd \in [0..63 -> 0..127]
    /\ st \in Nat /\ 3 <= st /\ st <= dEnd
    /\ dEnd - st = Len(s)
    /\ dd[dEnd] = 34 /\ dd[st - 1] = 34 /\ dd[st - 2] = 44
    /\ \A j \in 1..Len(s) : dd[st - 1 + j] = s[j]

(***************************************************************************)
(* The digits of a number are bytes from "0" to "9".                       *)
(***************************************************************************)
LEMMA DigitFacts ==
    ASSUME NEW x \in Nat
    PROVE  /\ Counter!AppendInt[x] \in Seq(Digit10)
           /\ Len(Counter!AppendInt[x]) \in Nat \ {0}
           /\ \A j \in 1..Len(Counter!AppendInt[x]) : Counter!AppendInt[x][j] \in 48..57
<1>1. Counter!AppendInt[x] \in Seq(Digit10)
  BY AppendIntEquation
<1>2. Len(Counter!AppendInt[x]) \in Nat \ {0}
  BY WidthIsDigits
<1> DEFINE s == Counter!AppendInt[x]
<1> HIDE DEF s
<1>3. s \in Seq(Digit10) => \A j \in 1..Len(s) : s[j] \in 48..57
  BY DEF Digit10
<1> QED
  BY <1>1, <1>2, <1>3 DEF s

(***************************************************************************)
(* The closing quote is in the array.                                      *)
(***************************************************************************)
LEMMA EndIsSmall == dEnd \in Nat /\ dEnd <= 63
BY StreamAssumption, WriteAssumption

(***************************************************************************)
(* inc stops at the digit that takes the one, or at the quote: only nines  *)
(* are to the right of it.                                                 *)
(***************************************************************************)
LEMMA CarryPlace ==
    ASSUME NEW x \in Nat, NEW z, Frame(d, start, Counter!AppendInt[x]),
           CarriesTo(Counter!AppendInt[x], Counter!AppendInt[x + 1], z)
    PROVE  Counter!Carry = start - 1 + z
<1> DEFINE s == Counter!AppendInt[x]
           L == Len(s)
           S == {j \in 0 .. dEnd - 1 : d[j] # 57}
<1>1. PICK dd, st : dd = d /\ st = start
  OBVIOUS
<1> DEFINE m == st - 1 + z
<1>2. L \in Nat /\ dEnd \in Nat
  BY DigitFacts, EndIsSmall
<1>3. z \in 0..L
  BY DEF CarriesTo
<1>4. \A j \in z+1..L : s[j] = 57
  BY DEF CarriesTo
<1>5. z # 0 => s[z] # 57
  BY DEF CarriesTo
<1>6. Frame(dd, st, s)
  BY <1>1
<1>7. st \in Nat /\ 3 <= st /\ st <= dEnd /\ dEnd - st = L
  BY <1>6 DEF Frame
<1>8. \A j \in 1..L : dd[st - 1 + j] = s[j]
  BY <1>6 DEF Frame
<1>9. dd[st - 1] = 34
  BY <1>6 DEF Frame
<1>10. Counter!Carry = Counter!Max(S)
  BY DEF Counter!Carry, Counter!Nine, Counter!Digit
<1>11. S = {j \in 0 .. dEnd - 1 : dd[j] # 57}
  BY <1>1
<1> HIDE DEF s, L, S
<1>12. m \in Int /\ m >= 0 /\ m <= dEnd - 1
  BY <1>2, <1>3, <1>7
<1>13. dd[m] # 57
  <2>1. CASE z = 0
    <3>1. m = st - 1
      BY <1>7, <2>1
    <3> QED
      BY <1>9, <3>1
  <2>2. CASE z # 0
    <3>1. z \in 1..L
      BY <1>2, <1>3, <2>2
    <3> HIDE DEF m
    <3>2. dd[st - 1 + z] = s[z]
      BY <1>8, <3>1
    <3> QED
      BY <1>5, <2>2, <3>2 DEF m
  <2> QED
    BY <2>1, <2>2
<1>14. \A j \in S : m >= j
  <2> TAKE j \in S
  <2>1. j \in Int /\ j <= dEnd - 1 /\ dd[j] # 57
    BY <1>2, <1>11
  <2> SUFFICES ASSUME j > m PROVE FALSE
    BY <1>12, <2>1
  <2>2. PICK h \in Int : h = j - st + 1
    BY <1>7, <2>1
  <2>3. z < h /\ h <= L /\ 1 <= h /\ st - 1 + h = j
    BY <1>2, <1>3, <1>7, <2>1, <2>2
  <2>4. h \in z+1..L /\ h \in 1..L
    BY <1>2, <1>3, <2>3
  <2>5. dd[st - 1 + h] = 57
    BY <1>4, <1>8, <2>4
  <2> QED
    BY <2>1, <2>3, <2>5
<1>15. m \in S
  <2>1. m \in 0 .. dEnd - 1
    BY <1>2, <1>12
  <2> HIDE DEF m
  <2> QED
    BY <1>11, <1>13, <2>1
<1>16. \A j \in S : j \in Int
  BY <1>11
<1> HIDE DEF m
<1>17. Counter!Max(S) \in S /\ \A j \in S : Counter!Max(S) >= j
  BY <1>14, <1>15 DEF Counter!Max
<1>18. PICK w \in S : w = Counter!Max(S) /\ w >= m
  BY <1>15, <1>17
<1>19. w = m
  <2>1. w \in Int /\ m \in Int /\ m >= w
    BY <1>12, <1>14, <1>16, <1>18
  <2> QED
    BY <1>18, <2>1
<1> QED
  BY <1>1, <1>10, <1>18, <1>19 DEF m

\* The two arrays that inc makes, when the digit at cr takes the carry.
Shifted(dd, cr) ==
    [j \in 0..63 |->
        IF j > cr /\ j < dEnd THEN 48
        ELSE IF j = cr THEN 49
        ELSE IF j = cr - 1 THEN 34
        ELSE IF j = cr - 2 THEN 44
        ELSE dd[j]]

\* The digit at cr takes the one.
Stayed(dd, cr) ==
    [j \in 0..63 |->
        IF j > cr /\ j < dEnd THEN 48
        ELSE IF j = cr THEN dd[j] + 1
        ELSE dd[j]]

\* What Shifted is, byte by byte.
ShiftedAs(dd, ee, cr) ==
    /\ ee \in [0..63 -> 0..127]
    /\ ee[dEnd] = dd[dEnd]
    /\ \A y \in 0..63 : y > cr /\ y < dEnd => ee[y] = 48
    /\ ee[cr] = 49 /\ ee[cr - 1] = 34 /\ ee[cr - 2] = 44

\* What Stayed is, byte by byte.
StayedAs(dd, ee, cr) ==
    /\ ee \in [0..63 -> 0..127]
    /\ ee[dEnd] = dd[dEnd]
    /\ \A y \in 0..63 : y > cr /\ y < dEnd => ee[y] = 48
    /\ \A y \in 0..63 : y < cr => ee[y] = dd[y]
    /\ ee[cr] = dd[cr] + 1

(***************************************************************************)
(* The array after a carry through all digits.                             *)
(***************************************************************************)
LEMMA ShiftedAt ==
    ASSUME NEW dd \in [0..63 -> 0..127], NEW cr \in 3..dEnd, cr < dEnd
    PROVE  ShiftedAs(dd, Shifted(dd, cr), cr)
<1> DEFINE I == 0..63
           V == 0..127
           ee == Shifted(dd, cr)
           F(y) == IF y > cr /\ y < dEnd THEN 48
                   ELSE IF y = cr THEN 49
                   ELSE IF y = cr - 1 THEN 34
                   ELSE IF y = cr - 2 THEN 44
                   ELSE dd[y]
<1>1. dEnd \in Nat /\ dEnd <= 63 /\ cr \in Int
  BY EndIsSmall
<1>2. \A y \in I : F(y) \in V
  BY <1>1
<1>3. ee = [j \in I |-> F(j)]
  BY DEF Shifted
<1>4. F(dEnd) = dd[dEnd] /\ dEnd \in I
  BY <1>1
<1>5. \A y \in I : y > cr /\ y < dEnd => F(y) = 48
  BY <1>1
<1>6. F(cr) = 49 /\ cr \in I
  BY <1>1
<1>7. F(cr - 1) = 34 /\ cr - 1 \in I
  BY <1>1
<1>8. F(cr - 2) = 44 /\ cr - 2 \in I
  BY <1>1
<1> HIDE DEF F, ee, I, V
<1>9. \A y \in I : ee[y] = F(y)
  BY <1>3
<1>10. ee \in [I -> V]
  BY <1>2, <1>3
<1>11. ee[dEnd] = dd[dEnd]
  BY <1>4, <1>9
<1>12. ee[cr] = 49
  BY <1>6, <1>9
<1>13. ee[cr - 1] = 34
  BY <1>7, <1>9
<1>14. ee[cr - 2] = 44
  BY <1>8, <1>9
<1>15. \A y \in I : y > cr /\ y < dEnd => ee[y] = 48
  BY <1>5, <1>9
<1> QED
  BY <1>10, <1>11, <1>12, <1>13, <1>14, <1>15 DEF ShiftedAs, ee, I, V

(***************************************************************************)
(* The array after a carry that stops at a digit.                          *)
(***************************************************************************)
LEMMA StayedAt ==
    ASSUME NEW dd \in [0..63 -> 0..127], NEW cr \in 3..dEnd, cr < dEnd,
           dd[cr] \in 48..57
    PROVE  StayedAs(dd, Stayed(dd, cr), cr)
<1> DEFINE I == 0..63
           V == 0..127
           ee == Stayed(dd, cr)
           F(y) == IF y > cr /\ y < dEnd THEN 48 ELSE IF y = cr THEN dd[y] + 1 ELSE dd[y]
<1>1. dEnd \in Nat /\ dEnd <= 63 /\ cr \in Int
  BY EndIsSmall
<1>2. \A y \in I : F(y) \in V
  BY <1>1
<1>3. ee = [j \in I |-> F(j)]
  BY DEF Stayed
<1>4. F(dEnd) = dd[dEnd] /\ dEnd \in I
  BY <1>1
<1>5. \A y \in I : y > cr /\ y < dEnd => F(y) = 48
  BY <1>1
<1>6. F(cr) = dd[cr] + 1 /\ cr \in I
  BY <1>1
<1>7. \A y \in I : y < cr => F(y) = dd[y]
  BY <1>1
<1> HIDE DEF F, ee, I, V
<1>8. \A y \in I : ee[y] = F(y)
  BY <1>3
<1>9. ee \in [I -> V]
  BY <1>2, <1>3
<1>10. ee[dEnd] = dd[dEnd]
  BY <1>4, <1>8
<1>11. ee[cr] = dd[cr] + 1
  BY <1>6, <1>8
<1>12. \A y \in I : y > cr /\ y < dEnd => ee[y] = 48
  BY <1>5, <1>8
<1>13. \A y \in I : y < cr => ee[y] = dd[y]
  BY <1>7, <1>8
<1> QED
  BY <1>9, <1>10, <1>11, <1>12, <1>13 DEF StayedAs, ee, I, V

(***************************************************************************)
(* A carry through all digits: the quote becomes a one.                    *)
(***************************************************************************)
LEMMA LongerFrame ==
    ASSUME NEW dd, NEW st, NEW s, NEW t, Frame(dd, st, s),
           CarriesTo(s, t, 0), Len(s) \in Nat \ {0}, Len(t) + 3 <= dEnd
    PROVE  Frame(Shifted(dd, st - 1), st - 1, t)
<1>1. dEnd \in Nat /\ dEnd <= 63
  BY EndIsSmall
<1>2. Len(t) = Len(s) + 1
  BY DEF CarriesTo
<1>3. \A j \in 1..Len(t) : t[j] = IF j = 1 THEN 49 ELSE 48
  BY DEF CarriesTo
<1>4. st \in Nat /\ 3 <= st /\ st <= dEnd /\ dEnd - st = Len(s)
  BY DEF Frame
<1>5. dd \in [0..63 -> 0..127]
  BY DEF Frame
<1>6. dd[dEnd] = 34
  BY DEF Frame
<1>7. PICK cr \in Nat : cr = st - 1
  BY <1>4
<1>8. cr \in Nat /\ 3 <= cr /\ cr <= dEnd
  BY <1>1, <1>2, <1>4, <1>7
<1>9. dEnd - cr = Len(t)
  BY <1>1, <1>2, <1>4, <1>7
<1>10. cr < dEnd
  BY <1>1, <1>4, <1>7
<1> DEFINE ee == Shifted(dd, cr)
<1>11. ShiftedAs(dd, ee, cr)
  <2>1. cr \in 3..dEnd
    BY <1>1, <1>8
  <2> QED
    BY <1>5, <1>10, <2>1, ShiftedAt
<1> HIDE DEF ee
<1>12. ee \in [0..63 -> 0..127] /\ ee[dEnd] = dd[dEnd]
  BY <1>11 DEF ShiftedAs
<1>13. \A y \in 0..63 : y > cr /\ y < dEnd => ee[y] = 48
  BY <1>11 DEF ShiftedAs
<1>14. ee[cr] = 49
  BY <1>11 DEF ShiftedAs
<1>15. ee[cr - 1] = 34 /\ ee[cr - 2] = 44
  BY <1>11 DEF ShiftedAs
<1>16. \A j \in 1..Len(t) : ee[cr - 1 + j] = t[j]
  <2> TAKE j \in 1..Len(t)
  <2>1. j \in Int /\ j >= 1 /\ cr + j <= dEnd
    BY <1>1, <1>8, <1>9
  <2>2. CASE j = 1
    <3>1. cr - 1 + j = cr
      BY <1>8, <2>2
    <3>2. t[j] = 49
      BY <1>3, <2>2
    <3> QED
      BY <1>14, <3>1, <3>2
  <2>3. CASE j # 1
    <3>1. PICK y \in Int : y = cr - 1 + j
      BY <1>8, <2>1
    <3>2. y > cr /\ y < dEnd
      BY <1>1, <1>8, <2>1, <2>3, <3>1
    <3>3. y \in 0..63
      BY <1>1, <1>8, <3>2
    <3>4. ee[y] = 48
      BY <1>13, <3>2, <3>3
    <3>5. t[j] = 48
      BY <1>3, <2>3
    <3> QED
      BY <3>1, <3>4, <3>5
  <2> QED
    BY <2>2, <2>3
<1>17. Frame(ee, cr, t)
  BY <1>6, <1>8, <1>9, <1>12, <1>15, <1>16 DEF Frame
<1> QED
  BY <1>7, <1>17 DEF ee

(***************************************************************************)
(* A carry that stops at the digit z.                                      *)
(***************************************************************************)
LEMMA SameLengthFrame ==
    ASSUME NEW dd, NEW st, NEW z, NEW s, NEW t, Frame(dd, st, s),
           CarriesTo(s, t, z), z # 0, Len(s) \in Nat \ {0},
           \A j \in 1..Len(s) : s[j] \in 48..57
    PROVE  Frame(Stayed(dd, st - 1 + z), st, t)
<1>1. dEnd \in Nat /\ dEnd <= 63
  BY EndIsSmall
<1>2. Len(t) = Len(s)
  BY DEF CarriesTo
<1>3. z \in Int /\ 1 <= z /\ z <= Len(s)
  BY DEF CarriesTo
<1>4. \A j \in 1..Len(s) : t[j] = IF j < z THEN s[j] ELSE IF j = z THEN s[j] + 1 ELSE 48
  BY DEF CarriesTo
<1>5. st \in Nat /\ 3 <= st /\ st <= dEnd /\ dEnd - st = Len(s)
  BY DEF Frame
<1>6. dd \in [0..63 -> 0..127]
  BY DEF Frame
<1>7. dd[dEnd] = 34 /\ dd[st - 1] = 34 /\ dd[st - 2] = 44
  BY DEF Frame
<1>8. \A j \in 1..Len(s) : dd[st - 1 + j] = s[j]
  BY DEF Frame
<1>9. PICK m \in Int : m = st - 1 + z
  BY <1>3, <1>5
<1>10. m < dEnd /\ m >= st
  BY <1>1, <1>3, <1>5, <1>9
<1>11. dd[m] \in 48..57
  <2>1. z \in 1..Len(s)
    BY <1>3
  <2>2. dd[st - 1 + z] = s[z]
    BY <1>8, <2>1
  <2>3. s[z] \in 48..57
    BY <2>1
  <2> QED
    BY <1>9, <2>2, <2>3
<1> DEFINE ee == Stayed(dd, m)
<1>12. StayedAs(dd, ee, m)
  <2>1. m \in 3..dEnd
    BY <1>1, <1>5, <1>10
  <2> QED
    BY <1>6, <1>10, <1>11, <2>1, StayedAt
<1> HIDE DEF ee
<1>13. ee \in [0..63 -> 0..127] /\ ee[dEnd] = dd[dEnd]
  BY <1>12 DEF StayedAs
<1>14. \A y \in 0..63 : y > m /\ y < dEnd => ee[y] = 48
  BY <1>12 DEF StayedAs
<1>15. \A y \in 0..63 : y < m => ee[y] = dd[y]
  BY <1>12 DEF StayedAs
<1>16. ee[m] = dd[m] + 1
  BY <1>12 DEF StayedAs
<1>17. ee[st - 1] = 34
  <2>1. st - 1 \in 0..63 /\ st - 1 < m
    BY <1>1, <1>5, <1>10
  <2> QED
    BY <1>7, <1>15, <2>1
<1>18. ee[st - 2] = 44
  <2>1. st - 2 \in 0..63 /\ st - 2 < m
    BY <1>1, <1>5, <1>10
  <2> QED
    BY <1>7, <1>15, <2>1
<1>19. \A j \in 1..Len(t) : ee[st - 1 + j] = t[j]
  <2> TAKE j \in 1..Len(t)
  <2>1. j \in 1..Len(s)
    BY <1>2
  <2>2. j \in Int /\ j >= 1 /\ j <= Len(s)
    BY <2>1
  <2>3. PICK y \in Int : y = st - 1 + j
    BY <1>5, <2>2
  <2>4. y \in 0..63 /\ y < dEnd
    BY <1>1, <1>5, <2>2, <2>3
  <2>5. dd[y] = s[j]
    BY <1>8, <2>1, <2>3
  <2>6. CASE j < z
    <3>1. y < m
      BY <1>3, <1>5, <1>9, <2>2, <2>3, <2>6
    <3>2. ee[y] = dd[y]
      BY <1>15, <2>4, <3>1
    <3>3. t[j] = s[j]
      BY <1>4, <2>1, <2>6
    <3> QED
      BY <2>3, <2>5, <3>2, <3>3
  <2>7. CASE j = z
    <3>1. y = m
      BY <1>9, <2>3, <2>7
    <3>2. ~(j < z)
      BY <1>3, <2>7
    <3>3. t[j] = s[j] + 1
      BY <1>4, <2>1, <2>7, <3>2
    <3> QED
      BY <1>16, <2>3, <2>5, <3>1, <3>3
  <2>8. CASE j > z
    <3>1. y > m
      BY <1>3, <1>5, <1>9, <2>2, <2>3, <2>8
    <3>2. ee[y] = 48
      BY <1>14, <2>4, <3>1
    <3>3. ~(j < z) /\ j # z
      BY <1>3, <2>2, <2>8
    <3>4. t[j] = 48
      BY <1>4, <2>1, <3>3
    <3> QED
      BY <2>3, <3>2, <3>4
  <2> QED
    BY <1>3, <2>2, <2>6, <2>7, <2>8
<1>20. Frame(ee, st, t)
  BY <1>2, <1>5, <1>7, <1>13, <1>17, <1>18, <1>19 DEF Frame
<1> QED
  BY <1>9, <1>20 DEF ee

(***************************************************************************)
(* inc shows the next number, if it has room.                              *)
(***************************************************************************)
LEMMA FrameStep ==
    ASSUME NEW x \in Nat, c = x, Frame(d, start, Counter!AppendInt[x]), Counter!inc,
           Digits[x + 1] + 3 <= dEnd
    PROVE  Frame(d', start', Counter!AppendInt[x + 1])
<1>1. PICK z : CarriesTo(Counter!AppendInt[x], Counter!AppendInt[x + 1], z)
  BY CarryRule
<1>2. Counter!Carry = start - 1 + z
  BY <1>1, CarryPlace
<1>3. /\ Len(Counter!AppendInt[x]) \in Nat \ {0}
      /\ \A j \in 1..Len(Counter!AppendInt[x]) : Counter!AppendInt[x][j] \in 48..57
      /\ Len(Counter!AppendInt[x + 1]) + 3 <= dEnd
      /\ dEnd \in Nat
  <2>1. x + 1 \in Nat
    OBVIOUS
  <2> QED
    BY <2>1, DigitFacts, WidthIsDigits, EndIsSmall
<1>4. z \in 0..Len(Counter!AppendInt[x])
  BY <1>1 DEF CarriesTo
<1>5. PICK st \in Nat : 3 <= st /\ st <= dEnd /\ st = start
  BY DEF Frame
<1>6. PICK dd : dd = d
  OBVIOUS
<1>7. DOMAIN d = 0..63 /\ Frame(dd, st, Counter!AppendInt[x])
  BY <1>5, <1>6 DEF Frame
<1>8. CASE z = 0
  <2>1. Counter!Shifts
    BY <1>2, <1>3, <1>5, <1>8 DEF Counter!Shifts
  <2>2. PICK cr \in Int : cr = Counter!Carry /\ cr = st - 1
    BY <1>2, <1>3, <1>5, <1>8
  <2>3. /\ start' = cr
        /\ d' = [j \in 0..63 |->
                   IF j > cr /\ j < dEnd THEN 48
                   ELSE IF j = cr THEN 49
                   ELSE IF j = cr - 1 THEN 34
                   ELSE IF j = cr - 2 THEN 44
                   ELSE dd[j]]
    BY <1>6, <1>7, <2>1, <2>2
    DEF Counter!inc, Counter!Zeros, Counter!Digit, Counter!Quote, Counter!Comma
  <2>4. start' = st - 1 /\ d' = Shifted(dd, st - 1)
    BY <2>2, <2>3 DEF Shifted
  <2>5. Frame(d', st - 1, Counter!AppendInt[x + 1])
    BY <1>1, <1>3, <1>7, <1>8, <2>4, LongerFrame
  <2> QED
    BY <2>4, <2>5
<1>9. CASE z # 0
  <2>1. ~Counter!Shifts
    BY <1>2, <1>3, <1>4, <1>5, <1>9 DEF Counter!Shifts
  <2>2. PICK cr \in Int : cr = Counter!Carry /\ cr = st - 1 + z
    BY <1>2, <1>3, <1>4, <1>5
  <2>3. /\ start' = start
        /\ d' = [j \in 0..63 |->
                   IF j > cr /\ j < dEnd THEN 48
                   ELSE IF j = cr THEN dd[j] + 1
                   ELSE dd[j]]
    BY <1>6, <1>7, <2>1, <2>2
    DEF Counter!inc, Counter!Zeros, Counter!Digit
  <2>4. d' = Stayed(dd, st - 1 + z)
    BY <2>2, <2>3 DEF Stayed
  <2>5. Frame(d', st, Counter!AppendInt[x + 1])
    BY <1>1, <1>3, <1>7, <1>9, <2>4, SameLengthFrame
  <2> QED
    BY <1>5, <2>3, <2>5
<1> QED
  BY <1>8, <1>9

-----------------------------------------------------------------------------
(***************************************************************************)
(* What the array shows.                                                   *)
(***************************************************************************)
(***************************************************************************)
(* The counter starts with 1.                                              *)
(***************************************************************************)
LEMMA FrameInit ==
    ASSUME Init, Counter!Init
    PROVE  Frame(d, start, Counter!AppendInt[1])
<1> DEFINE s == Counter!AppendInt[1]
           F(j) == CASE j = dEnd -> Counter!Quote
                     [] j \in start .. dEnd - 1 -> Counter!AppendInt[c][j - start + 1]
                     [] j = start - 1 -> Counter!Quote
                     [] j = start - 2 -> Counter!Comma
                     [] OTHER -> 0
<1>1. s = <<49>> /\ Len(s) = 1
  <2>1. PICK one \in Nat : one = 1 /\ one < 10
    OBVIOUS
  <2>2. Counter!AppendInt[one] = <<48 + one>>
    BY <2>1, AppendIntEquation
  <2> QED
    BY <2>1, <2>2
<1>2. dEnd \in Nat /\ dEnd <= 63 /\ 4 <= dEnd
  <2>1. PICK one \in 1..MaxInt : one = 1 /\ one < 10
    BY WriteAssumption
  <2>2. 3 + Digits[one] \in 1..MaxNumElem /\ MaxNumElem \in Nat
    BY <2>1, WriteAssumption
  <2>3. Digits[one] = 1
    BY <2>1, DigitsEquation
  <2> QED
    BY <2>2, <2>3, EndIsSmall, StreamAssumption
<1>3. s[1] = 49
  BY <1>1
<1>4. start = dEnd - 1 /\ Counter!AppendInt[c] = s /\ d = [j \in 0..63 |-> F(j)]
  <2>1. c = 1
    BY DEF Init
  <2>2. start = dEnd - 1
    BY <1>1, <2>1 DEF Counter!Init
  <2>3. d = [j \in 0..63 |-> F(j)]
    BY DEF Counter!Init
  <2> QED
    BY <2>1, <2>2, <2>3
<1>5. Counter!Quote = 34 /\ Counter!Comma = 44
  BY DEF Counter!Quote, Counter!Comma
<1> HIDE DEF s
<1>6. F(dEnd) = 34
  BY <1>2, <1>4, <1>5
<1>7. F(dEnd - 1) = 49
  <2>1. dEnd - 1 - start + 1 = 1 /\ dEnd - 1 \in start .. dEnd - 1 /\ dEnd - 1 # dEnd
    BY <1>2, <1>4
  <2>2. F(dEnd - 1) = Counter!AppendInt[c][dEnd - 1 - start + 1]
    <3>1. dEnd - 1 # start - 1 /\ dEnd - 1 # start - 2
      BY <1>2, <1>4
    <3> DEFINE j == dEnd - 1
               r == Counter!AppendInt[c][j - start + 1]
    <3>2. j \in start .. dEnd - 1 /\ j # dEnd /\ j # start - 1 /\ j # start - 2
      BY <2>1, <3>1
    <3> HIDE DEF r, j
    <3>3. (CASE j = dEnd -> Counter!Quote
             [] j \in start .. dEnd - 1 -> r
             [] j = start - 1 -> Counter!Quote
             [] j = start - 2 -> Counter!Comma
             [] OTHER -> 0) = r
      BY <3>2
    <3> QED
      BY <3>3 DEF r, j
  <2> QED
    BY <1>3, <1>4, <2>1, <2>2
<1>8. F(dEnd - 1 - 1) = 34
  BY <1>2, <1>4, <1>5
<1>9. F(dEnd - 1 - 2) = 44
  BY <1>2, <1>4, <1>5
<1>10. \A j \in 0..63 : F(j) \in 0..127
  <2> TAKE j \in 0..63
  <2>1. CASE j = dEnd
    BY <1>6, <2>1
  <2>2. CASE j = dEnd - 1
    BY <1>2, <1>7, <2>2
  <2>3. CASE j = dEnd - 1 - 1
    BY <1>2, <1>8, <2>3
  <2>4. CASE j = dEnd - 1 - 2
    BY <1>2, <1>9, <2>4
  <2>5. CASE j # dEnd /\ j # dEnd - 1 /\ j # dEnd - 1 - 1 /\ j # dEnd - 1 - 2
    BY <1>2, <1>4, <2>5
  <2> QED
    BY <2>1, <2>2, <2>3, <2>4, <2>5
<1> HIDE DEF F
<1>11. \A j \in 0..63 : d[j] = F(j)
  BY <1>4
<1>12. d \in [0..63 -> 0..127]
  BY <1>4, <1>10
<1>13. d[dEnd] = 34
  <2>1. dEnd \in 0..63
    BY <1>2
  <2> QED
    BY <1>6, <1>11, <2>1
<1>14. d[dEnd - 1] = 49
  <2>1. dEnd - 1 \in 0..63
    BY <1>2
  <2> QED
    BY <1>7, <1>11, <2>1
<1>15. d[dEnd - 1 - 1] = 34
  <2>1. dEnd - 1 - 1 \in 0..63
    BY <1>2
  <2> QED
    BY <1>8, <1>11, <2>1
<1>16. d[dEnd - 1 - 2] = 44
  <2>1. dEnd - 1 - 2 \in 0..63
    BY <1>2
  <2> QED
    BY <1>9, <1>11, <2>1
<1>17. PICK st : st = start
  OBVIOUS
<1>18. st = dEnd - 1
  BY <1>4, <1>17
<1>19. st \in Nat /\ 3 <= st /\ st <= dEnd
  BY <1>2, <1>18
<1>20. dEnd - st = 1
  BY <1>2, <1>18
<1>21. \A j \in 1..Len(s) : d[st - 1 + j] = s[j]
  <2> TAKE j \in 1..Len(s)
  <2>1. j = 1
    BY <1>1
  <2>2. st - 1 + j = dEnd - 1
    BY <1>2, <1>18, <2>1
  <2> QED
    BY <1>3, <1>14, <2>1, <2>2
<1>22. dEnd - st = Len(s)
  BY <1>1, <1>20
<1>23. Frame(d, st, s)
  BY <1>12, <1>13, <1>15, <1>16, <1>18, <1>19, <1>21, <1>22 DEF Frame
<1> QED
  BY <1>17, <1>23 DEF s

(***************************************************************************)
(* The bytes of a framed number, one by one.                               *)
(***************************************************************************)
LEMMA FramedElements ==
    ASSUME NEW s \in Seq(Digit10)
    PROVE  /\ <<44, 34>> \o s \o <<34>> \in Seq(0..127)
           /\ Len(<<44, 34>> \o s \o <<34>>) = Len(s) + 3
           /\ \A j \in 1..Len(s) + 3 :
                (<<44, 34>> \o s \o <<34>>)[j] =
                    IF j = 1 THEN 44 ELSE IF j = 2 THEN 34
                    ELSE IF j <= Len(s) + 2 THEN s[j - 2] ELSE 34
<1> DEFINE f == <<44, 34>>
           g == <<34>>
           u == f \o s
<1>1. /\ f \in Seq(0..127) /\ g \in Seq(0..127)
      /\ Len(f) = 2 /\ f[1] = 44 /\ f[2] = 34 /\ Len(g) = 1 /\ g[1] = 34
  OBVIOUS
<1>2. s \in Seq(0..127) /\ Len(s) \in Nat
  BY DEF Digit10
<1> HIDE DEF f, g
<1>3. /\ u \in Seq(0..127) /\ Len(u) = Len(f) + Len(s)
      /\ \A j \in 1..Len(f) + Len(s) : u[j] = IF j <= Len(f) THEN f[j] ELSE s[j - Len(f)]
  <2>1. f \in Seq(0..127)
    BY <1>1
  <2>2. s \in Seq(0..127)
    BY <1>2
  <2> QED
    BY <2>1, <2>2, ConcatProperties
<1> HIDE DEF u
<1>4. /\ u \o g \in Seq(0..127) /\ Len(u \o g) = Len(u) + Len(g)
      /\ \A j \in 1..Len(u) + Len(g) :
            (u \o g)[j] = IF j <= Len(u) THEN u[j] ELSE g[j - Len(u)]
  <2>1. u \in Seq(0..127)
    BY <1>3
  <2>2. g \in Seq(0..127)
    BY <1>1
  <2> QED
    BY <2>1, <2>2, ConcatProperties
<1>5. Len(u) = Len(s) + 2 /\ Len(u \o g) = Len(s) + 3
  BY <1>1, <1>2, <1>3, <1>4
<1> DEFINE w == u \o g
<1>6. \A j \in 1..Len(s) + 3 :
         w[j] = IF j = 1 THEN 44 ELSE IF j = 2 THEN 34
                ELSE IF j <= Len(s) + 2 THEN s[j - 2] ELSE 34
  <2> TAKE j \in 1..Len(s) + 3
  <2>1. w[j] = IF j <= Len(s) + 2 THEN u[j] ELSE g[j - (Len(s) + 2)]
    BY <1>1, <1>4, <1>5
  <2> HIDE DEF w
  <2>2. CASE j <= Len(s) + 2
    <3>1. u[j] = IF j <= 2 THEN f[j] ELSE s[j - 2]
      BY <1>1, <1>2, <1>3, <2>2
    <3> QED
      BY <1>1, <1>2, <2>1, <2>2, <3>1
  <2>3. CASE j = Len(s) + 3
    <3>1. j - (Len(s) + 2) = 1
      BY <1>2, <2>3
    <3> QED
      BY <1>1, <1>2, <2>1, <2>3, <3>1
  <2> QED
    BY <1>2, <2>2, <2>3
<1> QED
  BY <1>4, <1>5, <1>6 DEF u, f, g

(***************************************************************************)
(* The bytes that fill copies are the number with its frame.               *)
(***************************************************************************)
LEMMA FrameIsShown ==
    ASSUME NEW x \in Nat, c = x, Frame(d, start, Counter!AppendInt[x])
    PROVE  Counter!TypeOK /\ Counter!FrameShows
<1>1. PICK s \in Seq(Digit10) : /\ s = Counter!AppendInt[x]
                                /\ Len(s) \in Nat \ {0}
                                /\ \A j \in 1..Len(s) : s[j] \in 48..57
  BY DigitFacts
<1>2. PICK dd, st : dd = d /\ st = start
  OBVIOUS
<1>3. Frame(dd, st, s)
  BY <1>1, <1>2
<1>4. st \in Nat /\ 3 <= st /\ st <= dEnd /\ dEnd - st = Len(s)
  BY <1>3 DEF Frame
<1>5. dd \in [0..63 -> 0..127]
  BY <1>3 DEF Frame
<1>6. dd[dEnd] = 34 /\ dd[st - 1] = 34 /\ dd[st - 2] = 44
  BY <1>3 DEF Frame
<1>7. \A j \in 1..Len(s) : dd[st - 1 + j] = s[j]
  BY <1>3 DEF Frame
<1>8. dEnd \in Nat /\ dEnd <= 63
  BY EndIsSmall
<1>9. PICK n \in Nat : n = Len(s) + 3
  BY <1>1
<1> DEFINE f == [j \in 1..n |-> dd[st - 3 + j]]
           g == <<44, 34>> \o s \o <<34>>
<1>10. g \in Seq(0..127) /\ Len(g) = n
  BY <1>9, FramedElements
<1>11. \A j \in 1..n : g[j] = IF j = 1 THEN 44 ELSE IF j = 2 THEN 34
                             ELSE IF j <= Len(s) + 2 THEN s[j - 2] ELSE 34
  BY <1>9, FramedElements
<1> HIDE DEF g
<1>12. \A j \in 1..n : st - 3 + j \in 0..63
  BY <1>4, <1>8, <1>9
<1>13. \A j \in 1..n : dd[st - 3 + j] \in 0..127
  BY <1>5, <1>12
<1>14. f \in Seq(0..127) /\ Len(f) = n
  BY <1>13
<1>15. \A j \in 1..n : f[j] = dd[st - 3 + j]
  OBVIOUS
<1> HIDE DEF f
<1>16. \A j \in 1..n : f[j] = g[j]
  <2> TAKE j \in 1..n
  <2>1. j \in Int /\ j >= 1 /\ j <= Len(s) + 3
    BY <1>9
  <2>2. PICK v : v = st - 3 + j
    OBVIOUS
  <2>3. f[j] = dd[v]
    BY <1>15, <2>2
  <2>4. CASE j = 1
    <3>1. v = st - 2
      BY <1>4, <2>2, <2>4
    <3> QED
      BY <1>6, <1>11, <2>3, <2>4, <3>1
  <2>5. CASE j = 2
    <3>1. v = st - 1
      BY <1>4, <2>2, <2>5
    <3>2. j # 1
      BY <2>5
    <3> QED
      BY <1>6, <1>11, <2>3, <2>5, <3>1, <3>2
  <2>6. CASE j > 2 /\ j <= Len(s) + 2
    <3>1. PICK h \in Int : h = j - 2
      BY <2>1
    <3>2. h \in 1..Len(s)
      BY <1>1, <2>1, <2>6, <3>1
    <3>3. v = st - 1 + h
      BY <1>4, <2>1, <2>2, <3>1
    <3>4. f[j] = s[h]
      BY <1>7, <2>3, <3>2, <3>3
    <3>5. j # 1 /\ j # 2
      BY <2>1, <2>6
    <3>6. g[j] = s[h]
      BY <1>11, <2>6, <3>1, <3>5
    <3> QED
      BY <3>4, <3>6
  <2>7. CASE j = Len(s) + 3
    <3>1. v = dEnd
      BY <1>1, <1>4, <1>8, <2>2, <2>7
    <3>2. j # 1 /\ j # 2 /\ ~(j <= Len(s) + 2)
      BY <1>1, <2>7
    <3>3. g[j] = 34
      BY <1>11, <3>2
    <3> QED
      BY <1>6, <2>3, <3>1, <3>3
  <2> QED
    BY <1>1, <2>1, <2>4, <2>5, <2>6, <2>7
<1>17. f = g
  BY <1>10, <1>14, <1>16, SeqEqual
<1>18. dEnd - st + 3 = n
  BY <1>4, <1>9
<1>19. Counter!FrameShows
  <2>1. [j \in 1 .. dEnd - start + 3 |-> d[start - 3 + j]] = f
    BY <1>2, <1>18 DEF f
  <2>2. Counter!Framed(c) = g
    BY <1>1 DEF g, Counter!Framed, Counter!Comma, Counter!Quote
  <2> QED
    BY <1>17, <2>1, <2>2 DEF Counter!FrameShows
<1>20. Counter!TypeOK
  <2>1. st \in 2..dEnd
    BY <1>4, <1>8
  <2> QED
    BY <1>2, <1>5, <2>1 DEF Counter!TypeOK
<1> QED
  BY <1>19, <1>20

-----------------------------------------------------------------------------
(***************************************************************************)
(* The types of WriteJSON, and its counter.                                *)
(***************************************************************************)
\* The types that the other parts of the invariant say nothing of.
OutTypes ==
    /\ periods \in Nat
    /\ first \in BOOLEAN
    /\ written \in Nat
    /\ result \in {"writing", "complete", "failed"}

(***************************************************************************)
(* Types after a write.                                                    *)
(***************************************************************************)
LEMMA WriteTypes ==
    ASSUME written \in Nat, NEW text \in Seq(Byte),
           WriteSucceeds(text) \/ WriteFails(text)
    PROVE  written' \in Nat /\ result' \in {"writing", "complete", "failed"}
<1>1. Len(text) \in Nat
  OBVIOUS
<1>2. CASE WriteSucceeds(text)
  <2>1. written' = written + Len(text)
    BY <1>2 DEF WriteSucceeds
  <2>2. result' \in {"writing", "complete", "failed"}
    BY <1>2 DEF WriteSucceeds
  <2> QED
    BY <1>1, <2>1, <2>2
<1>3. CASE WriteFails(text)
  <2>1. PICK m \in 0..Len(text) : written' = written + m
    BY <1>3 DEF WriteFails
  <2>2. result' = "failed"
    BY <1>3 DEF WriteFails
  <2> QED
    BY <1>1, <2>1, <2>2
<1> QED
  BY <1>2, <1>3

(***************************************************************************)
(* The buffer of the loop is a text.                                       *)
(***************************************************************************)
LEMMA BufferTextTypes ==
    ASSUME WriteInv, Filled
    PROVE  BufferText \in Seq(Byte)
<1>1. /\ IInv /\ FillInv /\ Done \in Nat /\ Len(line) \in Nat \ {0} /\ Writable(pl)
      /\ Text(pl, line) = Run(pl, Done, Len(line)) /\ Len(line) < i
  BY FullBuffer, PlanWritable DEF WriteInv, IInv, GenInv, FillInv
<1> DEFINE text == Text(pl, line)
           b == Bracket("]")
           head == IF first THEN Opened(text) ELSE text
<1>2. text \in Seq(Byte)
  BY <1>1, LineIsRun
<1>3. text # <<>>
  <2>1. Len(line) <= Len(text)
    <3>1. PICK m \in Nat, w \in Nat : m = Done /\ w = Len(line)
      BY <1>1
    <3>2. w <= Len(Run(pl, m, w))
      BY <1>1, RunTypes
    <3> QED
      BY <1>1, <3>1, <3>2
  <2> QED
    BY <1>1, <2>1
<1>4. b \in Byte
  BY DEF Bracket, Byte
<1> HIDE DEF text, b
<1>5. head \in Seq(Byte)
  <2>1. <<>> \in Seq(Byte)
    OBVIOUS
  <2>2. Opened(text) \in Seq(Byte)
    BY <1>2, <1>3, <2>1, OpenedFacts
  <2> QED
    BY <1>2, <2>2
<1> HIDE DEF head
<1>6. Append(head, b) \in Seq(Byte)
  BY <1>4, <1>5
<1>7. BufferText = IF i > pl.n THEN Append(head, b) ELSE head
  BY DEF BufferText, head, text, b
<1> QED
  BY <1>5, <1>6, <1>7

(***************************************************************************)
(* Types after an emit.                                                    *)
(***************************************************************************)
LEMMA EmitTypes ==
    ASSUME OutTypes, NEW text \in Seq(Byte), Emit(text) \/ EmitFails(text)
    PROVE  /\ first' \in BOOLEAN /\ written' \in Nat
           /\ result' \in {"writing", "complete", "failed"}
<1>1. first \in BOOLEAN /\ written \in Nat /\ result \in {"writing", "complete", "failed"}
  BY DEF OutTypes
<1>2. CASE text = <<>>
  BY <1>1, <1>2 DEF Emit, EmitFails, outVars
<1>3. CASE text # <<>>
  <2> DEFINE out == IF first THEN Opened(text) ELSE text
  <2>1. out \in Seq(Byte)
    <3>1. <<>> \in Seq(Byte)
      OBVIOUS
    <3>2. Opened(text) \in Seq(Byte)
      BY <1>3, <3>1, OpenedFacts
    <3> QED
      BY <3>2
  <2>2. first' = FALSE /\ (WriteSucceeds(out) \/ WriteFails(out))
    BY <1>3 DEF Emit, EmitFails
  <2> HIDE DEF out
  <2> QED
    BY <1>1, <2>1, <2>2, WriteTypes
<1> QED
  BY <1>2, <1>3

(***************************************************************************)
(* The parts of the chunk are texts.                                       *)
(***************************************************************************)
LEMMA ChunkTypes ==
    ASSUME req \in Requests, ChunkInv, periods \in Nat
    PROVE  /\ k \in Nat
           /\ Part(k * pb) \in Seq(Byte)
           /\ periods <= k => Part(periods * pb) \in Seq(Byte)
           /\ Part(rangeBytes(pl, 1, pl.n % P)) \in Seq(Byte)
<1>1. /\ Writable(pl) /\ P \in Nat /\ P = Period(pl) /\ k \in Nat /\ pl.n % P \in Nat
  BY ChunkFacts DEF ChunkInv
<1>2. /\ \A j \in 0..k : Part(j * pb) = Whole(pl, j)
      /\ Part(rangeBytes(pl, 1, pl.n % P)) = Run(pl, 0, pl.n % P)
  BY ChunkParts
<1>3. \A j \in Nat : Whole(pl, j) \in Seq(Byte)
  <2> TAKE j \in Nat
  <2>1. PICK m \in Nat : m = j * Period(pl)
    BY <1>1
  <2>2. Run(pl, 0, m) \in Seq(Byte)
    BY <1>1, RunTypes
  <2> QED
    BY <2>1, <2>2 DEF Whole
<1>4. Part(k * pb) \in Seq(Byte)
  <2>1. k \in 0..k
    BY <1>1
  <2> QED
    BY <1>1, <1>2, <1>3, <2>1
<1>5. periods <= k => Part(periods * pb) \in Seq(Byte)
  <2> SUFFICES ASSUME periods <= k PROVE Part(periods * pb) \in Seq(Byte)
    OBVIOUS
  <2>1. periods \in 0..k
    BY <1>1
  <2> QED
    BY <1>2, <1>3, <2>1
<1>6. Run(pl, 0, pl.n % P) \in Seq(Byte)
  <2>1. PICK w \in Nat : w = pl.n % P
    BY <1>1
  <2>2. Run(pl, 0, w) \in Seq(Byte)
    BY <1>1, RunTypes
  <2> QED
    BY <2>1, <2>2
<1> QED
  BY <1>1, <1>2, <1>4, <1>5, <1>6

(***************************************************************************)
(* Each step keeps the types of what WriteJSON returns and counts.         *)
(***************************************************************************)
LEMMA TypesKept ==
    ASSUME WriteInv, OutTypes, [Next]_vars
    PROVE  OutTypes'
<1>1. req \in Requests /\ periods \in Nat /\ written \in Nat /\ first \in BOOLEAN
  BY DEF WriteInv, IInv, GenInv, OutTypes
<1>2. CASE FillNumber \/ Event
  BY <1>2 DEF FillNumber, Event, Put, outVars, OutTypes
<1>3. CASE Write \/ WriteError
  <2>1. BufferText \in Seq(Byte)
    BY <1>3, BufferTextTypes DEF Write, WriteError, NextBuffer
  <2>2. /\ first' = FALSE /\ periods' = periods
        /\ WriteSucceeds(BufferText) \/ WriteFails(BufferText)
    BY <1>3 DEF Write, WriteError, NextBuffer
  <2>3. written' \in Nat /\ result' \in {"writing", "complete", "failed"}
    BY <1>1, <2>1, <2>2, WriteTypes
  <2> QED
    BY <1>1, <2>2, <2>3 DEF OutTypes
<1>4. CASE MakeChunk
  <2>1. Periodic /\ periods' = Turns /\ UNCHANGED outVars
    BY <1>4 DEF MakeChunk, Turns
  <2>2. Turns \in Nat
    BY <1>1, <2>1, ChunkFacts
  <2> QED
    BY <2>1, <2>2 DEF OutTypes, outVars
<1>5. CASE EmitChunk
  <2>1. at = "chunks" /\ k <= periods
    BY <1>5 DEF EmitChunk, ChunkLeft
  <2>2. ChunkInv
    BY <2>1 DEF WriteInv, SendInv
  <2>3. k \in Nat /\ Part(k * pb) \in Seq(Byte)
    BY <1>1, <2>2, ChunkTypes
  <2>4. /\ Emit(Part(k * pb)) \/ EmitFails(Part(k * pb))
        /\ periods' = periods - k \/ periods' = periods
    BY <1>5 DEF EmitChunk, EmitFails
  <2>5. periods' \in Nat
    BY <1>1, <2>1, <2>3, <2>4
  <2> QED
    BY <2>3, <2>4, <2>5, EmitTypes DEF OutTypes
<1>6. CASE EmitPeriods
  <2>1. at = "chunks" /\ ~(k <= periods)
    BY <1>6 DEF EmitPeriods, ChunkLeft
  <2>2. ChunkInv
    BY <2>1 DEF WriteInv, SendInv
  <2>3. Part(periods * pb) \in Seq(Byte)
    <3>1. k \in Nat
      BY <1>1, <2>2, ChunkTypes
    <3>2. periods <= k
      BY <1>1, <2>1, <3>1
    <3> QED
      BY <1>1, <2>2, <3>2, ChunkTypes
  <2>4. /\ Emit(Part(periods * pb)) \/ EmitFails(Part(periods * pb))
        /\ periods' = periods
    BY <1>6 DEF EmitPeriods, EmitFails
  <2> QED
    BY <1>1, <2>3, <2>4, EmitTypes DEF OutTypes
<1>7. CASE EmitTail
  <2> DEFINE text == Part(rangeBytes(pl, 1, pl.n % P))
  <2>1. ChunkInv
    BY <1>7 DEF WriteInv, SendInv, EmitTail
  <2>2. text \in Seq(Byte)
    BY <1>1, <2>1, ChunkTypes
  <2>3. (Emit(text) \/ EmitFails(text)) /\ periods' = periods
    BY <1>7 DEF EmitTail, EmitFails
  <2> HIDE DEF text
  <2> QED
    BY <1>1, <2>2, <2>3, EmitTypes DEF OutTypes
<1>8. CASE EmitEnd
  <2>1. <<Bracket("]")>> \in Seq(Byte)
    <3>1. Bracket("]") \in Byte
      BY DEF Bracket, Byte
    <3> QED
      BY <3>1
  <2>2. /\ periods' = periods /\ first' = first
        /\ WriteSucceeds(<<Bracket("]")>>) \/ WriteFails(<<Bracket("]")>>)
    BY <1>8 DEF EmitEnd
  <2> DEFINE text == <<Bracket("]")>>
  <2> HIDE DEF text
  <2>3. written' \in Nat /\ result' \in {"writing", "complete", "failed"}
    BY <1>1, <2>1, <2>2, WriteTypes DEF text
  <2> QED
    BY <1>1, <2>2, <2>3 DEF OutTypes
<1>9. CASE UNCHANGED vars
  BY <1>9 DEF vars, outVars, OutTypes
<1> QED
  BY <1>2, <1>3, <1>4, <1>5, <1>6, <1>7, <1>8, <1>9 DEF Next

\* The inductive invariant of WriteJSON with its counter.
StreamInv ==
    /\ WriteInv
    /\ OutTypes
    /\ Frame(d, start, Counter!AppendInt[c])

(***************************************************************************)
(* The other types follow from the invariant.                              *)
(***************************************************************************)
LEMMA TypesHold ==
    ASSUME WriteInv, OutTypes
    PROVE  TypeOK
<1>1. /\ req \in Requests /\ i \in Nat \ {0} /\ c = i
      /\ line \in Seq(Elements) /\ pos \in Nat
      /\ next1 \in Nat /\ IsNext(next1, pl.a, i)
      /\ next2 \in Nat /\ IsNext(next2, pl.b, i)
      /\ at \in {"fill", "chunks", "tail", "end", "returned"}
  BY DEF WriteInv, IInv, GenInv, BufInv, SendInv
<1>2. next1 \in Nat \ {0} /\ next2 \in Nat \ {0}
  BY <1>1 DEF IsNext
<1> QED
  BY <1>1, <1>2 DEF TypeOK, OutTypes, Elements

(***************************************************************************)
(* WriteJSON and its counter start together.                               *)
(***************************************************************************)
LEMMA StreamStarts == StreamInit => StreamInv
<1> SUFFICES ASSUME StreamInit PROVE StreamInv
  OBVIOUS
<1>1. Init /\ Counter!Init /\ c = 1
  BY DEF StreamInit, Init
<1>2. WriteInv
  BY <1>1, InitInv, InitSends DEF WriteInv
<1>3. OutTypes
  BY <1>1 DEF Init, OutTypes
<1>4. Frame(d, start, Counter!AppendInt[1])
  BY <1>1, FrameInit
<1> QED
  BY <1>1, <1>2, <1>3, <1>4 DEF StreamInv

(***************************************************************************)
(* They go on together: an element counts one up. The next number has room *)
(* in the array, because each number up to MaxInt has.                     *)
(***************************************************************************)
LEMMA StreamGoesOn == StreamInv /\ [StreamNext]_streamVars => StreamInv'
<1> SUFFICES ASSUME StreamInv, [StreamNext]_streamVars PROVE StreamInv'
  OBVIOUS
<1>1. WriteInv /\ OutTypes /\ [Next]_vars /\ c \in Nat
  BY DEF StreamInv, StreamNext, streamVars, WriteInv, IInv, GenInv
<1>2. WriteInv' /\ OutTypes'
  BY <1>1, NextSends, TypesKept
<1>3. PICK x \in Nat : x = c
  BY <1>1
<1>4. Frame(d, start, Counter!AppendInt[x])
  BY <1>3 DEF StreamInv
<1>5. CASE Counter!inc
  <2>1. c' = x + 1 /\ x < MaxInt
    BY <1>3, <1>5 DEF Counter!inc
  <2>2. x + 1 \in 1..MaxInt
    BY <2>1, WriteAssumption
  <2>3. Digits[x + 1] + 3 <= dEnd
    <3>1. PICK y \in 1..MaxInt : y = x + 1
      BY <2>2
    <3>2. 3 + Digits[y] \in 1..MaxNumElem /\ MaxNumElem \in Nat
      BY WriteAssumption
    <3>3. Digits[y] \in Nat
      BY <3>1, WidthIsDigits
    <3> QED
      BY <3>1, <3>2, <3>3, EndIsSmall, StreamAssumption
  <2>4. Frame(d', start', Counter!AppendInt[x + 1])
    BY <1>3, <1>4, <1>5, <2>3, FrameStep
  <2> QED
    BY <1>2, <2>1, <2>4 DEF StreamInv
<1>6. CASE UNCHANGED <<c, d, start>>
  BY <1>2, <1>6 DEF StreamInv
<1> QED
  BY <1>5, <1>6 DEF StreamNext, streamVars, vars, genVars

(***************************************************************************)
(* The bytes that fill copies for a number are the number with its comma   *)
(* and quotes, after any number of carries and longer numbers, and the     *)
(* digits never leave their array (write.go:32-46, 73). All variables of   *)
(* WriteJSON keep their types.                                             *)
(***************************************************************************)
THEOREM AlwaysShowsTheNumber == FairStream => []ShowsTheNumber
<1>1. StreamInv => ShowsTheNumber
  <2> SUFFICES ASSUME StreamInv PROVE ShowsTheNumber
    OBVIOUS
  <2>1. TypeOK
    BY TypesHold DEF StreamInv
  <2>2. PICK x \in Nat : c = x /\ Frame(d, start, Counter!AppendInt[x])
    BY DEF StreamInv, WriteInv, IInv, GenInv
  <2>3. Counter!TypeOK /\ Counter!FrameShows
    BY <2>2, FrameIsShown
  <2> QED
    BY <2>1, <2>3 DEF ShowsTheNumber, StreamTypeOK
<1> QED
  BY <1>1, StreamStarts, StreamGoesOn, PTL DEF FairStream

=============================================================================
