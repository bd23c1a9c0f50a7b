---------------------------- MODULE SizeProofs -----------------------------
(***************************************************************************)
(* Proofs about ResponseSize: the closed formula of JSONSize is the sum of *)
(* the sizes of the elements, for each width of an int and each valid      *)
(* request. The parts are those of size.go: Euclid and the least common    *)
(* multiple, the events by inclusion and exclusion, and the plain numbers  *)
(* in bands of one width each.                                             *)
(***************************************************************************)
EXTENDS ResponseSize, SumProofs

\* The equation at x of a recursion that ends in the set done.
Solves(g, x, done, base, calls, combine) ==
    g[x] = IF x \in done THEN base[x] ELSE combine[<<x, g[calls[x]]>>]

(***************************************************************************)
(* A recursion that gets smaller has a solution. (A function of the model  *)
(* is defined as CHOOSE of one, so without a solution nothing is known of  *)
(* it.) The solution is put together of the solutions up to each rank.     *)
(***************************************************************************)
LEMMA Recursion ==
    ASSUME NEW S, NEW V, NEW done, NEW base \in [S -> V], NEW calls \in [S -> S],
           NEW combine \in [S \X V -> V], NEW rank \in [S -> Nat],
           \A x \in S \ done : rank[calls[x]] < rank[x]
    PROVE  \E g \in [S -> V] : \A x \in S : Solves(g, x, done, base, calls, combine)
<1> DEFINE Below(n) == {x \in S : rank[x] < n}
           Eq(g, x) == Solves(g, x, done, base, calls, combine)
           Sol(g, n) == g \in [S -> V] /\ \A x \in Below(n) : Eq(g, x)
<1>1. ASSUME NEW n \in Nat, \E g : Sol(g, n)
      PROVE  \E g : Sol(g, n + 1)
  <2>1. PICK g : Sol(g, n)
    BY <1>1
  <2> DEFINE h == [x \in S |-> IF x \in Below(n) THEN g[x]
                               ELSE IF x \in done THEN base[x]
                               ELSE combine[<<x, g[calls[x]]>>]]
  <2>2. g \in [S -> V] /\ h \in [S -> V]
    BY <2>1
  <2>3. ASSUME NEW x \in Below(n + 1) PROVE Eq(h, x)
    <3>1. CASE x \in done
      <4>1. x \in Below(n) => g[x] = base[x]
        BY <2>1, <3>1 DEF Solves
      <4> QED
        BY <3>1, <4>1 DEF Solves
    <3>2. CASE x \notin done
      <4>1. calls[x] \in Below(n)
        BY <3>2
      <4>2. h[calls[x]] = g[calls[x]]
        BY <4>1
      <4>3. x \in Below(n) => g[x] = combine[<<x, g[calls[x]]>>]
        BY <2>1, <3>2 DEF Solves
      <4>4. h[x] = combine[<<x, g[calls[x]]>>]
        BY <3>2, <4>3
      <4> HIDE DEF h
      <4> QED
        BY <3>2, <4>2, <4>4 DEF Solves
    <3> QED
      BY <3>1, <3>2
  <2> HIDE DEF h
  <2> QED
    BY <2>2, <2>3
<1>2. \E g : Sol(g, 0)
  <2>1. Below(0) = {}
    OBVIOUS
  <2> QED
    BY <2>1
<1> HIDE DEF Sol
<1>3. \A n \in Nat : \E g : Sol(g, n)
  <2> DEFINE B == {n \in Nat : ~ \E g : Sol(g, n)}
  <2> SUFFICES ASSUME B # {} PROVE FALSE
    OBVIOUS
  <2>1. PICK m \in B : \A n \in B : m <= n
    <3> B \subseteq Nat
      OBVIOUS
    <3> HIDE DEF B
    <3> QED
      BY SmallestNat
  <2>2. m # 0
    BY <1>2
  <2>3. m - 1 \in Nat /\ m - 1 \notin B
    BY <2>1, <2>2
  <2> QED
    BY <1>1, <2>3
<1> USE DEF Sol
<1>4. ASSUME NEW m \in Nat, NEW n \in Nat, NEW g, NEW h, Sol(g, m), Sol(h, n)
      PROVE  \A x \in Below(m) \cap Below(n) : g[x] = h[x]
  <2> DEFINE B == {rank[x] : x \in {y \in Below(m) \cap Below(n) : g[y] # h[y]}}
  <2> SUFFICES ASSUME B # {} PROVE FALSE
    OBVIOUS
  <2>1. PICK r \in B : \A s \in B : r <= s
    <3> B \subseteq Nat
      OBVIOUS
    <3> HIDE DEF B
    <3> QED
      BY SmallestNat
  <2>2. PICK x \in Below(m) \cap Below(n) : g[x] # h[x] /\ r = rank[x]
    OBVIOUS
  <2>3. Eq(g, x) /\ Eq(h, x)
    BY <1>4
  <2>4. x \notin done
    BY <2>2, <2>3 DEF Solves
  <2>5. calls[x] \in Below(m) \cap Below(n) /\ rank[calls[x]] < rank[x]
    BY <2>4
  <2>6. g[calls[x]] = h[calls[x]]
    <3>1. rank[calls[x]] \in Nat /\ rank[x] \in Nat
      BY <2>5
    <3>2. ~(r <= rank[calls[x]])
      BY <2>2, <2>5, <3>1
    <3>3. rank[calls[x]] \notin B
      BY <2>1, <3>2
    <3> QED
      BY <2>5, <3>3
  <2> QED
    BY <2>2, <2>3, <2>4, <2>6 DEF Solves
<1> DEFINE G(n) == CHOOSE g : Sol(g, n)
           f == [x \in S |-> G(rank[x] + 1)[x]]
<1>5. \A n \in Nat : Sol(G(n), n)
  BY <1>3, Zenon
<1> HIDE DEF G
<1>6. f \in [S -> V]
  BY <1>5
<1>7. ASSUME NEW x \in S PROVE Eq(f, x)
  <2> DEFINE g == G(rank[x] + 1)
  <2>1. Sol(g, rank[x] + 1) /\ x \in Below(rank[x] + 1)
    BY <1>5
  <2>2. Eq(g, x) /\ f[x] = g[x]
    BY <2>1
  <2>3. ASSUME x \notin done PROVE f[calls[x]] = g[calls[x]]
    <3>1. /\ calls[x] \in Below(rank[x] + 1)
          /\ calls[x] \in Below(rank[calls[x]] + 1)
      BY <2>3
    <3>2. Sol(G(rank[calls[x]] + 1), rank[calls[x]] + 1)
      BY <1>5
    <3>3. f[calls[x]] = G(rank[calls[x]] + 1)[calls[x]]
      OBVIOUS
    <3> HIDE DEF f, g, Sol, Below
    <3> QED
      BY <1>4, <2>1, <3>1, <3>2, <3>3
  <2> HIDE DEF f, g
  <2> QED
    BY <2>2, <2>3 DEF Solves
<1> HIDE DEF f
<1> QED
  BY <1>6, <1>7

-----------------------------------------------------------------------------
(***************************************************************************)
(*                        The least common multiple                        *)
(***************************************************************************)

\* x is a multiple of d.
Divides(d, x) == \E q \in Int : x = d * q

(***************************************************************************)
(* Quotient and remainder (the / and % of Go for numbers that are not      *)
(* negative).                                                              *)
(***************************************************************************)
LEMMA Division ==
    ASSUME NEW x \in Nat, NEW m \in Nat \ {0}
    PROVE  /\ x = m * (x \div m) + (x % m)
           /\ x \div m \in Nat /\ x % m \in Nat /\ x % m < m
BY SMT

(***************************************************************************)
(* The remainder is 0 for the multiples only.                              *)
(***************************************************************************)
LEMMA DividesIff ==
    ASSUME NEW x \in Nat, NEW m \in Nat \ {0}
    PROVE  x % m = 0 <=> Divides(m, x)
<1>1. ASSUME x % m = 0 PROVE Divides(m, x)
  <2>1. x = m * (x \div m) + 0 /\ x \div m \in Int
    BY <1>1, Division
  <2>2. x = m * (x \div m)
    BY <2>1, SMT
  <2> QED
    BY <2>1, <2>2 DEF Divides
<1>2. ASSUME NEW q \in Int, x = m * q PROVE x % m = 0
  <2>1. (m * q) % m = 0
    BY SMT
  <2> QED
    BY <1>2, <2>1
<1> QED
  BY <1>1, <1>2 DEF Divides

(***************************************************************************)
(* A divisor of two numbers divides their sum and difference, and the      *)
(* multiples of one.                                                       *)
(***************************************************************************)
LEMMA DividesSums ==
    ASSUME NEW d \in Nat, NEW x \in Int, NEW y \in Int, Divides(d, x), Divides(d, y),
           NEW t \in Int
    PROVE  Divides(d, x * t) /\ Divides(d, x + y) /\ Divides(d, x - y)
<1>1. PICK q \in Int : x = d * q
  BY DEF Divides
<1>2. PICK r \in Int : y = d * r
  BY DEF Divides
<1>3. x * t = d * (q * t) /\ q * t \in Int
  BY <1>1, SMT
<1>4. x + y = d * (q + r) /\ x - y = d * (q - r)
  BY <1>1, <1>2, SMT
<1>5. q + r \in Int /\ q - r \in Int
  OBVIOUS
<1> QED
  BY <1>3, <1>4, <1>5 DEF Divides

(***************************************************************************)
(* One step of Euclid: a and a % b have the same divisors in common with   *)
(* b.                                                                      *)
(***************************************************************************)
LEMMA DividesRemainder ==
    ASSUME NEW d \in Nat, NEW a \in Nat, NEW b \in Nat \ {0}, Divides(d, b)
    PROVE  Divides(d, a) <=> Divides(d, a % b)
<1>1. a = b * (a \div b) + (a % b) /\ a \div b \in Int /\ a % b \in Int
  BY Division
<1> DEFINE y == b * (a \div b)
           r == a % b
<1>2. y \in Int /\ r \in Int /\ a = y + r
  BY <1>1
<1>6. Divides(d, y)
  <2>1. b \in Int /\ a \div b \in Int
    BY <1>1
  <2> QED
    BY <2>1, DividesSums, Zenon
<1> HIDE DEF y, r
<1>3. Divides(d, r) => Divides(d, y + r)
  BY <1>2, <1>6, DividesSums
<1>4. Divides(d, a) => Divides(d, a - y)
  BY <1>2, <1>6, DividesSums
<1>5. a - y = r
  BY <1>2
<1> QED
  BY <1>2, <1>3, <1>4, <1>5 DEF r

(***************************************************************************)
(* gcd (size.go) satisfies its recursion, for all numbers: the second      *)
(* argument gets smaller in each round of its loop.                        *)
(***************************************************************************)
LEMMA GcdEquation ==
    /\ gcd \in [Nat \X Nat -> Nat]
    /\ \A a, b \in Nat : gcd[<<a, b>>] = IF b = 0 THEN a ELSE gcd[<<b, a % b>>]
<1> DEFINE S == Nat \X Nat
           done == {x \in S : x[2] = 0}
           base == [x \in S |-> x[1]]
           calls == [x \in S |-> IF x \in done THEN x ELSE <<x[2], x[1] % x[2]>>]
           combine == [z \in S \X Nat |-> z[2]]
           rank == [x \in S |-> x[2]]
           IsGcd(g) ==
               g = [x \in S |-> IF x[2] = 0 THEN x[1] ELSE g[<<x[2], x[1] % x[2]>>]]
<1>1. PICK g \in [S -> Nat] : \A x \in S : Solves(g, x, done, base, calls, combine)
  <2>0. \A x \in S \ done : x[1] % x[2] \in Nat /\ x[1] % x[2] < x[2]
    BY Division
  <2>1. \A x \in S \ done : calls[x] \in S /\ rank[calls[x]] < rank[x]
    BY <2>0
  <2>2. base \in [S -> Nat] /\ combine \in [S \X Nat -> Nat] /\ rank \in [S -> Nat]
    OBVIOUS
  <2>3. calls \in [S -> S]
    BY <2>1
  <2> HIDE DEF S, done, base, calls, combine, rank
  <2> QED
    BY <2>1, <2>2, <2>3, Recursion
<1>2. \A x \in S : g[x] = IF x[2] = 0 THEN x[1] ELSE g[<<x[2], x[1] % x[2]>>]
  <2> TAKE x \in S
  <2>1. Solves(g, x, done, base, calls, combine)
    BY <1>1
  <2>2. CASE x[2] = 0
    BY <2>1, <2>2 DEF Solves
  <2>3. CASE x[2] # 0
    <3>1. x \notin done /\ calls[x] = <<x[2], x[1] % x[2]>> /\ calls[x] \in S
      BY <2>3, Division
    <3>2. g[x] = combine[<<x, g[calls[x]]>>]
      BY <2>1, <3>1 DEF Solves
    <3>3. g[calls[x]] \in Nat
      BY <1>1, <3>1
    <3> QED
      BY <2>3, <3>1, <3>2, <3>3
  <2> QED
    BY <2>2, <2>3
<1>3. IsGcd(g)
  BY <1>1, <1>2, Zenon
<1>4. gcd = CHOOSE h : IsGcd(h)
  BY DEF gcd
<1>5. IsGcd(gcd)
  BY <1>3, <1>4, Zenon
<1>6. \A x \in S : gcd[x] = IF x[2] = 0 THEN x[1] ELSE gcd[<<x[2], x[1] % x[2]>>]
  BY <1>5, Zenon
<1>7. gcd = [x \in S |-> gcd[x]]
  BY <1>5, Zenon
<1>8. \A a, b \in Nat : gcd[<<a, b>>] = IF b = 0 THEN a ELSE gcd[<<b, a % b>>]
  BY <1>6
<1>9. \A b \in Nat : \A a \in Nat : gcd[<<a, b>>] \in Nat
  <2> DEFINE B == {b \in Nat : \E a \in Nat : gcd[<<a, b>>] \notin Nat}
  <2> SUFFICES ASSUME B # {} PROVE FALSE
    OBVIOUS
  <2>1. PICK b \in B : \A y \in B : b <= y
    <3> B \subseteq Nat
      OBVIOUS
    <3> HIDE DEF B
    <3> QED
      BY SmallestNat
  <2>2. PICK a \in Nat : gcd[<<a, b>>] \notin Nat
    OBVIOUS
  <2>3. b # 0
    BY <1>8, <2>2
  <2>4. gcd[<<b, a % b>>] \notin Nat /\ a % b \in Nat /\ a % b < b
    BY <1>8, <2>2, <2>3, Division
  <2>5. a % b \in B
    BY <2>4
  <2> HIDE DEF B
  <2>6. b <= a % b
    BY <2>1, <2>5
  <2>7. b \in Nat
    BY <2>1 DEF B
  <2> QED
    BY <2>4, <2>6, <2>7
<1>10. \A x \in S : gcd[x] \in Nat
  <2> TAKE x \in S
  <2>1. x = <<x[1], x[2]>> /\ x[1] \in Nat /\ x[2] \in Nat
    OBVIOUS
  <2> QED
    BY <1>9, <2>1
<1>11. gcd \in [S -> Nat]
  BY <1>7, <1>10
<1> QED
  BY <1>8, <1>11

(***************************************************************************)
(* gcd returns a common divisor, and each other common divisor divides it. *)
(***************************************************************************)
LEMMA GcdDivides ==
    \A b \in Nat : \A a \in Nat :
        /\ Divides(gcd[<<a, b>>], a) /\ Divides(gcd[<<a, b>>], b)
        /\ \A d \in Nat : Divides(d, a) /\ Divides(d, b) => Divides(d, gcd[<<a, b>>])
<1> DEFINE Good(a, b) ==
        /\ Divides(gcd[<<a, b>>], a) /\ Divides(gcd[<<a, b>>], b)
        /\ \A d \in Nat : Divides(d, a) /\ Divides(d, b) => Divides(d, gcd[<<a, b>>])
      B == {b \in Nat : \E a \in Nat : ~Good(a, b)}
<1> SUFFICES ASSUME B # {} PROVE FALSE
  OBVIOUS
<1>1. PICK b \in B : \A y \in B : b <= y
  <2> B \subseteq Nat
    OBVIOUS
  <2> HIDE DEF B
  <2> QED
    BY SmallestNat
<1>2. PICK a \in Nat : ~Good(a, b)
  OBVIOUS
<1>3. CASE b = 0
  <2>1. gcd[<<a, b>>] = a
    BY <1>3, GcdEquation
  <2>2. a = a * 1 /\ b = a * 0 /\ 1 \in Int /\ 0 \in Int
    BY <1>3
  <2>3. Divides(a, a) /\ Divides(a, b)
    BY <2>2 DEF Divides
  <2> QED
    BY <1>2, <2>1, <2>3
<1>4. CASE b # 0
  <2>1. a % b \in Nat /\ a % b < b
    BY <1>4, Division
  <2>2. Good(b, a % b)
    <3>1. a % b \notin B
      <4> HIDE DEF B
      <4>1. b \in Nat
        BY <1>1 DEF B
      <4> QED
        BY <1>1, <2>1, <4>1
    <3> QED
      BY <2>1, <3>1
  <2>3. gcd[<<a, b>>] = gcd[<<b, a % b>>] /\ gcd[<<a, b>>] \in Nat
    BY <1>4, GcdEquation
  <2>4. Divides(gcd[<<a, b>>], b) /\ Divides(gcd[<<a, b>>], a % b)
    BY <2>2, <2>3
  <2>5. Divides(gcd[<<a, b>>], a)
    BY <1>4, <2>3, <2>4, DividesRemainder
  <2>6. ASSUME NEW d \in Nat, Divides(d, a), Divides(d, b)
        PROVE  Divides(d, gcd[<<a, b>>])
    <3>1. Divides(d, a % b)
      BY <1>4, <2>6, DividesRemainder
    <3> QED
      BY <2>2, <2>3, <2>6, <3>1
  <2> QED
    BY <1>2, <2>4, <2>5, <2>6
<1> QED
  BY <1>3, <1>4

(***************************************************************************)
(* The factor of two equal products.                                       *)
(***************************************************************************)
LEMMA Cancel ==
    ASSUME NEW x \in Int, NEW y \in Int, NEW z \in Int, z # 0, x * z = y * z
    PROVE  x = y
BY SMT

(***************************************************************************)
(* A multiple of g that divides g is g.                                    *)
(***************************************************************************)
LEMMA FactorOne ==
    ASSUME NEW t \in Nat \ {0}, NEW g \in Nat \ {0}, Divides(g * t, g)
    PROVE  t = 1
<1>1. PICK q \in Int : g = (g * t) * q
  BY DEF Divides
<1>2. (t * q) * g = 1 * g
  BY <1>1, SMT
<1>3. t * q \in Int /\ t * q = 1
  BY <1>2, Cancel
<1>4. q > 0
  BY <1>3, SMT
<1>5. q >= 1 /\ t >= 1
  BY <1>4
<1>6. t * q >= t
  BY <1>5, SMT
<1> QED
  BY <1>3, <1>5, <1>6

(***************************************************************************)
(* (a / gcd) * b is the least common multiple: what lcmCapped (size.go)    *)
(* computes when it does not overflow. If a smaller common multiple m      *)
(* existed, (a / gcd) * b would be m * t, and gcd * t would be a common    *)
(* divisor.                                                                *)
(***************************************************************************)
LEMMA CommonMultiples ==
    ASSUME NEW a \in Nat \ {0}, NEW b \in Nat \ {0}
    PROVE  LET q == a \div gcd[<<a, b>>]
           IN  /\ q \in Nat \ {0}
               /\ \A x \in Nat : Divides(a, x) /\ Divides(b, x) <=> Divides(q * b, x)
<1> DEFINE g == gcd[<<a, b>>]
           q == a \div g
           L == q * b
<1>1. /\ g \in Nat /\ Divides(g, a) /\ Divides(g, b)
      /\ \A d \in Nat : Divides(d, a) /\ Divides(d, b) => Divides(d, g)
  BY GcdDivides, GcdEquation
<1> HIDE DEF g
<1>2. g # 0
  BY <1>1 DEF Divides
<1>3. PICK u \in Int : b = g * u
  BY <1>1 DEF Divides
<1>4. a % g = 0 /\ a = g * q /\ q \in Nat
  <2>1. a % g = 0
    BY <1>1, <1>2, DividesIff
  <2>2. a = g * q + (a % g) /\ q \in Nat
    BY <1>1, <1>2, Division
  <2> HIDE DEF q
  <2>3. a = g * q
    BY <1>1, <2>1, <2>2, SMT
  <2> QED
    BY <2>1, <2>2, <2>3
<1> HIDE DEF q
<1>5. q # 0
  BY <1>1, <1>4, SMT
<1>6. L \in Nat \ {0}
  BY <1>4, <1>5, SMT
<1>7. g * L = a * b
  BY <1>1, <1>4, SMT
<1>8. L = a * u
  BY <1>1, <1>3, <1>4, SMT
<1>9. Divides(a, L) /\ Divides(b, L)
  <2>1. L = b * q
    BY <1>4, SMT
  <2> QED
    BY <1>4, <1>8, <2>1 DEF Divides
<1> HIDE DEF L
<1>10. ASSUME NEW x \in Nat, Divides(L, x) PROVE Divides(a, x) /\ Divides(b, x)
  <2>1. PICK t \in Int : x = L * t
    BY <1>10 DEF Divides
  <2>2. Divides(a, L * t) /\ Divides(b, L * t)
    <3>1. a \in Nat /\ b \in Nat /\ L \in Int
      BY <1>6
    <3> QED
      BY <3>1, <1>9, DividesSums, Zenon
  <2> QED
    BY <2>1, <2>2
<1> DEFINE C == {x \in Nat \ {0} : Divides(a, x) /\ Divides(b, x)}
<1>11. PICK m \in C : \A x \in C : m <= x
  <2>1. L \in C /\ C \subseteq Nat
    BY <1>6, <1>9
  <2> HIDE DEF C
  <2> QED
    BY <2>1, SmallestNat
<1>12. ASSUME NEW x \in Nat, Divides(a, x), Divides(b, x) PROVE Divides(m, x)
  <2>1. /\ x = m * (x \div m) + (x % m)
        /\ x \div m \in Int /\ x % m \in Nat /\ x % m < m
    BY Division
  <2> DEFINE y == m * (x \div m)
             r == x % m
  <2>2. y \in Int /\ x = y + r /\ r \in Nat /\ r < m
    BY <2>1
  <2>3. Divides(a, y) /\ Divides(b, y)
    <3>1. a \in Nat /\ b \in Nat /\ m \in Int
      OBVIOUS
    <3>2. Divides(a, m) /\ Divides(b, m)
      BY <1>11
    <3> HIDE DEF C
    <3> QED
      BY <2>1, <3>1, <3>2, DividesSums, Zenon
  <2> HIDE DEF y, r
  <2>4. Divides(a, x - y) /\ Divides(b, x - y)
    BY <2>2, <2>3, <1>12, DividesSums
  <2>5. x - y = r
    BY <2>2
  <2>6. r = 0
    BY <1>11, <2>2, <2>4, <2>5
  <2> QED
    BY <2>6, DividesIff DEF r
<1>13. m \in Nat \ {0} /\ Divides(a, m) /\ Divides(b, m) /\ Divides(m, L)
  BY <1>6, <1>9, <1>12
<1> HIDE DEF C
<1>14. PICK t \in Int : L = m * t
  BY <1>13 DEF Divides
<1>15. t \in Nat \ {0}
  BY <1>6, <1>13, <1>14, SMT
<1>16. PICK v \in Int : m = a * v
  BY <1>13 DEF Divides
<1>17. PICK w \in Int : m = b * w
  BY <1>13 DEF Divides
<1>18. Divides(g * t, a)
  <2>1. ((g * t) * w) * b = a * b
    BY <1>1, <1>7, <1>14, <1>17, SMT
  <2>2. (g * t) * w \in Int
    BY <1>1
  <2>3. a = (g * t) * w
    BY <2>1, <2>2, Cancel
  <2> QED
    BY <2>3 DEF Divides
<1>19. Divides(g * t, b)
  <2>1. ((g * t) * v) * a = b * a
    BY <1>1, <1>7, <1>14, <1>16, SMT
  <2>2. (g * t) * v \in Int
    BY <1>1
  <2>3. b = (g * t) * v
    BY <2>1, <2>2, Cancel
  <2> QED
    BY <2>3 DEF Divides
<1>20. t = 1
  <2>1. g * t \in Nat
    BY <1>1, <1>15, SMT
  <2>2. Divides(g * t, g)
    BY <1>1, <1>18, <1>19, <2>1
  <2> QED
    BY <1>1, <1>2, <1>15, <2>2, FactorOne
<1>21. L = m
  BY <1>13, <1>14, <1>20
<1> QED
  BY <1>4, <1>5, <1>10, <1>12, <1>21 DEF L, q, g

(***************************************************************************)
(* A result that fits an int is kept.                                      *)
(***************************************************************************)
LEMMA WordFits ==
    ASSUME MaxInt \in Nat, NEW x \in 0..MaxInt
    PROVE  Word(x) = x
<1> DEFINE m == 2 * (MaxInt + 1)
           y == x + MaxInt + 1
<1>1. y \in Nat /\ m \in Nat \ {0} /\ y < m
  BY SMT
<1> HIDE DEF m, y
<1>2. y % m = y
  BY <1>1, SMT
<1>3. Word(x) = (y % m) - (MaxInt + 1)
  BY DEF Word, m, y
<1> QED
  BY <1>2, <1>3 DEF y

(***************************************************************************)
(* lcmCapped (size.go) finds the common multiples up to the limit,         *)
(* although its product is computed with ints: it returns 0 if there is    *)
(* none up to the limit, and then only, and a product that it computes     *)
(* does not overflow.                                                      *)
(***************************************************************************)
LEMMA LcmIsRight ==
    ASSUME MaxInt \in Nat, NEW a \in Nat \ {0}, NEW b \in Nat \ {0}, NEW n \in 1..MaxInt
    PROVE  /\ lcmCapped(a, b, n) \in Nat
           /\ \A x \in 1..n : (x % a = 0 /\ x % b = 0) <=>
                  (lcmCapped(a, b, n) # 0 /\ x % lcmCapped(a, b, n) = 0)
<1> DEFINE q == a \div gcd[<<a, b>>]
           l == lcmCapped(a, b, n)
           L == q * b
<1>1. /\ q \in Nat \ {0}
      /\ \A x \in Nat : Divides(a, x) /\ Divides(b, x) <=> Divides(q * b, x)
  BY CommonMultiples
<1>2. l = IF q > n \div b THEN 0 ELSE Word(q * b)
  BY DEF lcmCapped
<1>3. n = b * (n \div b) + (n % b) /\ n \div b \in Nat /\ n % b \in Nat /\ n % b < b
  BY Division
<1> HIDE DEF q, l
<1>4. L \in Nat \ {0}
  BY <1>1, SMT
<1>5. \A x \in 1..n : (x % a = 0 /\ x % b = 0) <=> Divides(L, x)
  BY <1>1, DividesIff
<1>6. CASE q > n \div b
  <2>1. L >= b * (n \div b) + b
    <3> DEFINE z == n \div b
    <3>1. z \in Nat /\ q > z
      BY <1>3, <1>6
    <3> HIDE DEF z
    <3>2. q >= z + 1
      BY <1>1, <3>1
    <3>3. q * b >= (z + 1) * b
      BY <1>1, <3>1, <3>2, SMT
    <3>4. (z + 1) * b = b * z + b
      BY <3>1, SMT
    <3> QED
      BY <3>3, <3>4 DEF z
  <2>2. L > n
    <3> DEFINE y == b * (n \div b)
               r == n % b
    <3>1. y \in Int /\ r \in Int /\ n = y + r /\ r < b /\ L >= y + b
      BY <1>3, <2>1
    <3> HIDE DEF y, r, L
    <3> QED
      BY <1>4, <3>1
  <2>3. ASSUME NEW x \in 1..n, Divides(L, x) PROVE FALSE
    <3>1. PICK t \in Int : x = L * t
      BY <2>3 DEF Divides
    <3> HIDE DEF L
    <3>2. t >= 1
      BY <1>4, <3>1, SMT
    <3>3. L * t >= L
      BY <1>4, <3>2, SMT
    <3> QED
      BY <1>4, <2>2, <3>1, <3>3
  <2>4. l = 0
    BY <1>2, <1>6
  <2> QED
    BY <1>5, <2>3, <2>4 DEF l
<1>7. CASE ~(q > n \div b)
  <2>1. L <= n
    <3> DEFINE z == n \div b
               r == n % b
    <3>1. z \in Nat /\ q <= z /\ r \in Nat /\ n = b * z + r
      BY <1>1, <1>3, <1>7
    <3> HIDE DEF z, r
    <3>2. q * b <= z * b
      BY <1>1, <3>1, SMT
    <3>3. z * b = b * z /\ z * b \in Nat
      BY <3>1, SMT
    <3> QED
      BY <3>1, <3>2, <3>3, <1>4
  <2>2. l = L
    <3>1. L \in 0..MaxInt
      BY <1>4, <2>1
    <3>2. Word(L) = L
      BY <3>1, WordFits
    <3> QED
      BY <1>2, <1>7, <3>2
  <2> HIDE DEF L
  <2>3. \A x \in 1..n : x % L = 0 <=> Divides(L, x)
    BY <1>4, DividesIff
  <2> QED
    BY <1>4, <1>5, <2>2, <2>3 DEF l
<1> QED
  BY <1>6, <1>7

-----------------------------------------------------------------------------
(***************************************************************************)
(*                         The plan and its events                         *)
(***************************************************************************)

\* A request without a fault before its size (params.go:38-54).
ValidParams(p) ==
    /\ p.int1 \in Nat \ {0} /\ p.int2 \in Nat \ {0} /\ p.limit \in 1..MaxInt
    /\ p.str1.code \in Nat /\ p.str2.code \in Nat

\* The plan of a valid request. l finds the common multiples of a and b up to n.
PlanOK(pl) ==
    /\ pl.a \in Nat \ {0} /\ pl.b \in Nat \ {0} /\ pl.n \in 0..MaxInt /\ pl.l \in Nat
    /\ pl.e1 \in Nat /\ pl.e2 \in Nat /\ pl.e12 \in Nat
    /\ \A x \in 1..pl.n : (x % pl.a = 0 /\ x % pl.b = 0) <=> (pl.l # 0 /\ x % pl.l = 0)

(***************************************************************************)
(* newPlan (size.go) of a valid request.                                   *)
(***************************************************************************)
LEMMA PlanIsOK ==
    ASSUME MaxInt \in Nat, NEW p, ValidParams(p)
    PROVE  PlanOK(newPlan(p))
<1>1. /\ p.int1 \in Nat \ {0} /\ p.int2 \in Nat \ {0} /\ p.limit \in 1..MaxInt
      /\ p.str1.code \in Nat /\ p.str2.code \in Nat
  BY DEF ValidParams
<1> DEFINE l == lcmCapped(p.int1, p.int2, p.limit)
<1>2. /\ l \in Nat
      /\ \A x \in 1..p.limit : (x % p.int1 = 0 /\ x % p.int2 = 0) <=> (l # 0 /\ x % l = 0)
  BY <1>1, LcmIsRight
<1> HIDE DEF l
<1>3. newPlan(p).l = l
  BY DEF newPlan, l
<1> DEFINE pl == newPlan(p)
<1>4. /\ pl.a = p.int1 /\ pl.b = p.int2 /\ pl.n = p.limit
      /\ pl.e1 \in Nat /\ pl.e2 \in Nat /\ pl.e12 \in Nat
  BY <1>1 DEF newPlan
<1> HIDE DEF pl
<1>5. pl.l = l
  BY <1>3 DEF pl
<1> QED
  BY <1>1, <1>2, <1>4, <1>5 DEF PlanOK, pl

\* The bytes of element x if it is a multiple, of the others 0.
EventSize(pl, x) ==
    IF x % pl.a = 0 THEN IF x % pl.b = 0 THEN pl.e12 ELSE pl.e1
    ELSE IF x % pl.b = 0 THEN pl.e2 ELSE 0

\* Element x is the number x itself.
IsPlain(pl, x) == x % pl.a # 0 /\ x % pl.b # 0

\* x counts as a multiple of m.
One(x, m) == IF m # 0 /\ x % m = 0 THEN 1 ELSE 0

(***************************************************************************)
(* The multiples of m up to x: one more than up to x - 1 if x is one.      *)
(***************************************************************************)
LEMMA MultiplesStep ==
    ASSUME NEW x \in Nat \ {0}, NEW m \in Nat
    PROVE  /\ multiples(x, m) \in Nat /\ multiples(x - 1, m) \in Nat
           /\ multiples(x, m) =
                multiples(x - 1, m) + (IF m # 0 /\ x % m = 0 THEN 1 ELSE 0)
<1>1. CASE m = 0
  BY <1>1 DEF multiples
<1>2. CASE m # 0
  <2> DEFINE y == x - 1
             q == y \div m
             r == y % m
  <2>1. y = m * q + r /\ q \in Nat /\ r \in Nat /\ r < m /\ y \in Nat
    BY <1>2, Division
  <2>2. multiples(x, m) = x \div m
    BY <1>2 DEF multiples
  <2>3. multiples(y, m) = q
    <3>1. CASE y = 0
      <4>1. 0 \div m = 0
        BY <1>2, SMT
      <4> QED
        BY <1>2, <3>1, <4>1 DEF multiples
    <3>2. CASE y # 0
      BY <1>2, <3>2 DEF multiples
    <3> QED
      BY <3>1, <3>2
  <2> HIDE DEF q, r
  <2>4. x = m * q + (r + 1)
    BY <2>1
  <2>5. CASE r + 1 < m
    <3>1. x \div m = q /\ x % m = r + 1
      BY <1>2, <2>1, <2>4, <2>5, SMT
    <3> QED
      BY <1>2, <2>1, <2>2, <2>3, <3>1
  <2>6. CASE r + 1 = m
    <3>1. x = m * (q + 1)
      BY <2>1, <2>4, <2>6, SMT
    <3>2. x \div m = q + 1 /\ x % m = 0
      BY <1>2, <2>1, <3>1, SMT
    <3> QED
      BY <1>2, <2>1, <2>2, <2>3, <3>2
  <2> QED
    BY <2>1, <2>5, <2>6
<1> QED
  BY <1>1, <1>2

(***************************************************************************)
(* The multiples of m in lo..x, when x grows by one.                       *)
(***************************************************************************)
LEMMA CountStep ==
    ASSUME NEW lo \in Nat \ {0}, NEW x \in Nat \ {0}, lo <= x, NEW m \in Nat
    PROVE  /\ Count(lo, x, m) \in Int /\ Count(lo, x - 1, m) \in Int
           /\ Count(lo, x, m) = Count(lo, x - 1, m) + One(x, m)
           /\ Count(lo, lo - 1, m) = 0
<1> DEFINE l == lo - 1
<1>1. /\ multiples(x, m) \in Nat /\ multiples(x - 1, m) \in Nat
      /\ multiples(x, m) = multiples(x - 1, m) + One(x, m)
  BY MultiplesStep DEF One
<1>2. multiples(l, m) \in Nat
  <2>1. l + 1 \in Nat \ {0} /\ l = lo - 1
    OBVIOUS
  <2> HIDE DEF l
  <2>2. multiples((l + 1) - 1, m) \in Nat
    BY <2>1, MultiplesStep
  <2>3. (l + 1) - 1 = l
    BY <2>1
  <2> QED
    BY <2>2, <2>3
<1>3. One(x, m) \in Nat
  BY DEF One
<1> QED
  BY <1>1, <1>2, <1>3 DEF Count

(***************************************************************************)
(* eventBytes (size.go) by inclusion and exclusion is the sum over the     *)
(* elements: the multiples of a and of b, without those of both, and those *)
(* of both with their own size.                                            *)
(***************************************************************************)
LEMMA EventBytesSum ==
    ASSUME MaxInt \in Nat, NEW pl, PlanOK(pl), NEW hi \in 1..pl.n
    PROVE  EventBytes(pl, 1, hi) = SumOver([x \in Nat |-> EventSize(pl, x)], 1..hi)
<1>0. /\ pl.a \in Nat \ {0} /\ pl.b \in Nat \ {0} /\ pl.n \in Nat /\ pl.l \in Nat
      /\ pl.e1 \in Nat /\ pl.e2 \in Nat /\ pl.e12 \in Nat
      /\ \A x \in 1..pl.n : (x % pl.a = 0 /\ x % pl.b = 0) <=>
                            (pl.l # 0 /\ x % pl.l = 0)
  BY DEF PlanOK
<1> DEFINE f == [x \in Nat |-> EventSize(pl, x)]
           F == [x \in Nat |-> EventBytes(pl, 1, x)]
           C(x, m) == Count(1, x, m)
<1>1. \A x \in 1..hi : f[x] \in Nat
  BY <1>0 DEF EventSize
<1>2. ASSUME NEW x \in 1..hi
      PROVE  F[x] \in Int /\ F[x - 1] \in Int /\ F[x] = F[x - 1] + f[x]
  <2> DEFINE ca == C(x - 1, pl.a)
             cb == C(x - 1, pl.b)
             cl == C(x - 1, pl.l)
             da == One(x, pl.a)
             db == One(x, pl.b)
             dl == One(x, pl.l)
  <2>1. \A m \in Nat : C(x - 1, m) \in Int /\ C(x, m) = C(x - 1, m) + One(x, m)
    <3>1. x \in Nat \ {0} /\ 1 \in Nat \ {0} /\ 1 <= x
      BY <1>0
    <3> QED
      BY <3>1, CountStep
  <2> HIDE DEF C
  <2>2. /\ ca \in Int /\ cb \in Int /\ cl \in Int
        /\ C(x, pl.a) = ca + da /\ C(x, pl.b) = cb + db /\ C(x, pl.l) = cl + dl
    BY <1>0, <2>1
  <2>5. da \in {0, 1} /\ db \in {0, 1} /\ dl = IF da = 1 /\ db = 1 THEN 1 ELSE 0
    <3>1. x \in 1..pl.n
      BY <1>0
    <3> QED
      BY <1>0, <3>1 DEF One
  <2>3. F[x] = (ca + da - (cl + dl)) * pl.e1 + (cb + db - (cl + dl)) * pl.e2
               + (cl + dl) * pl.e12
    <3>1. F[x] = (C(x, pl.a) - C(x, pl.l)) * pl.e1 + (C(x, pl.b) - C(x, pl.l)) * pl.e2
                 + C(x, pl.l) * pl.e12
      BY <1>0 DEF EventBytes, C
    <3> HIDE DEF ca, cb, cl, da, db, dl, F
    <3> QED
      BY <1>0, <3>1, <2>2, <2>5
  <2>4. F[x - 1] = (ca - cl) * pl.e1 + (cb - cl) * pl.e2 + cl * pl.e12
    BY <1>0 DEF EventBytes, C
  <2>6. f[x] = (da - dl) * pl.e1 + (db - dl) * pl.e2 + dl * pl.e12
    <3>1. f[x] = IF da = 1 THEN IF db = 1 THEN pl.e12 ELSE pl.e1
                 ELSE IF db = 1 THEN pl.e2 ELSE 0
      BY <1>0 DEF EventSize, One
    <3> HIDE DEF f, da, db, dl
    <3>2. CASE da = 1 /\ db = 1
      BY <1>0, <2>5, <3>1, <3>2
    <3>3. CASE da = 1 /\ db = 0
      BY <1>0, <2>5, <3>1, <3>3
    <3>4. CASE da = 0 /\ db = 1
      BY <1>0, <2>5, <3>1, <3>4
    <3>5. CASE da = 0 /\ db = 0
      BY <1>0, <2>5, <3>1, <3>5
    <3> QED
      BY <2>5, <3>2, <3>3, <3>4, <3>5
  <2> DEFINE e1 == pl.e1
             e2 == pl.e2
             e12 == pl.e12
  <2>7. e1 \in Int /\ e2 \in Int /\ e12 \in Int /\ da \in Int /\ db \in Int /\ dl \in Int
    BY <1>0, <2>5
  <2>8. F[x] \in Int /\ F[x - 1] \in Int
    <3> HIDE DEF F, ca, cb, cl, da, db, dl, e1, e2, e12
    <3> QED
      BY <2>2, <2>3, <2>4, <2>7 DEF e1, e2, e12
  <2> HIDE DEF F, f, ca, cb, cl, da, db, dl
  <2>9. (ca + da - (cl + dl)) * e1 = (ca - cl) * e1 + (da - dl) * e1
    <3> HIDE DEF e1
    <3> QED
      BY <2>2, <2>7, SMT
  <2>10. (cb + db - (cl + dl)) * e2 = (cb - cl) * e2 + (db - dl) * e2
    <3> HIDE DEF e2
    <3> QED
      BY <2>2, <2>7, SMT
  <2>11. (cl + dl) * e12 = cl * e12 + dl * e12
    <3> HIDE DEF e12
    <3> QED
      BY <2>2, <2>7, SMT
  <2>12. F[x] = F[x - 1] + f[x]
    BY <2>2, <2>3, <2>4, <2>6, <2>7, <2>9, <2>10, <2>11
  <2> QED
    BY <2>8, <2>12
<1>3. F[0] = 0
  <2>1. \A m \in Nat : C(0, m) = 0
    <3> TAKE m \in Nat
    <3>1. Count(1, 1 - 1, m) = 0
      BY CountStep
    <3> QED
      BY <3>1
  <2> HIDE DEF C
  <2>2. F[0] = (0 - 0) * pl.e1 + (0 - 0) * pl.e2 + 0 * pl.e12
    BY <1>0, <2>1 DEF EventBytes, C
  <2> QED
    BY <1>0, <2>2
<1> HIDE DEF f, F
<1>4. SumOver(f, 1..hi) = F[hi] - F[1 - 1]
  <2>1. Telescopes(f, F, 1, hi)
    BY <1>1, <1>2, <1>3 DEF Telescopes
  <2>2. hi \in Nat /\ 1 \in Nat \ {0} /\ 1 <= hi + 1
    BY <1>0
  <2> QED
    BY <2>1, <2>2, Telescope
<1>5. F[hi] \in Int /\ hi \in Nat
  BY <1>0, <1>2
<1> QED
  BY <1>3, <1>4, <1>5 DEF f, F

-----------------------------------------------------------------------------
(***************************************************************************)
(*                     The plain numbers, band by band                     *)
(***************************************************************************)

(***************************************************************************)
(* The reference Digits satisfies its recursion.                           *)
(***************************************************************************)
LEMMA DigitsEquation ==
    /\ Digits \in [Nat -> Nat]
    /\ \A x \in Nat : Digits[x] = IF x < 10 THEN 1 ELSE 1 + Digits[x \div 10]
<1> DEFINE done == 0..9
           base == [x \in Nat |-> 1]
           calls == [x \in Nat |-> x \div 10]
           combine == [z \in Nat \X Nat |-> 1 + z[2]]
           rank == [x \in Nat |-> x]
           IsDigits(g) == g = [x \in Nat |-> IF x < 10 THEN 1 ELSE 1 + g[x \div 10]]
<1>0. \A x \in Nat : x \div 10 \in Nat /\ (x >= 10 => x \div 10 < x)
  BY SMT
<1>1. PICK g \in [Nat -> Nat] : \A x \in Nat : Solves(g, x, done, base, calls, combine)
  <2>1. \A x \in Nat \ done : rank[calls[x]] < rank[x]
    BY <1>0
  <2>2. /\ base \in [Nat -> Nat] /\ combine \in [Nat \X Nat -> Nat]
        /\ rank \in [Nat -> Nat] /\ calls \in [Nat -> Nat]
    BY <1>0
  <2> HIDE DEF done, base, calls, combine, rank
  <2> QED
    BY <2>1, <2>2, Recursion
<1>2. \A x \in Nat : g[x] = IF x < 10 THEN 1 ELSE 1 + g[x \div 10]
  <2> TAKE x \in Nat
  <2>1. Solves(g, x, done, base, calls, combine) /\ g[x \div 10] \in Nat
    BY <1>0, <1>1
  <2>2. g[x] = IF x \in done THEN 1 ELSE combine[<<x, g[x \div 10]>>]
    BY <2>1 DEF Solves
  <2>3. combine[<<x, g[x \div 10]>>] = 1 + g[x \div 10]
    BY <2>1
  <2>4. x \in done <=> x < 10
    OBVIOUS
  <2> HIDE DEF done, combine
  <2> QED
    BY <2>2, <2>3, <2>4
<1>3. IsDigits(g)
  BY <1>1, <1>2, Zenon
<1>4. Digits = CHOOSE h : IsDigits(h)
  BY DEF Digits
<1>5. IsDigits(Digits)
  BY <1>3, <1>4, Zenon
<1>6. \A x \in Nat : Digits[x] = IF x < 10 THEN 1 ELSE 1 + Digits[x \div 10]
  BY <1>5, Zenon
<1>7. \A x \in Nat : Digits[x] \in Nat
  <2> DEFINE B == {x \in Nat : Digits[x] \notin Nat}
  <2> SUFFICES ASSUME B # {} PROVE FALSE
    OBVIOUS
  <2>1. PICK x \in B : \A y \in B : x <= y
    <3> B \subseteq Nat
      OBVIOUS
    <3> HIDE DEF B
    <3> QED
      BY SmallestNat
  <2>2. x >= 10 /\ Digits[x] = 1 + Digits[x \div 10]
    BY <1>6
  <2>3. x \div 10 \in Nat /\ x \div 10 < x
    BY <1>0, <2>2
  <2>4. x \div 10 \notin B
    <3> x \in Nat
      OBVIOUS
    <3> HIDE DEF B
    <3> QED
      BY <2>1, <2>3
  <2> QED
    BY <2>2, <2>3, <2>4
<1>8. Digits = [x \in Nat |-> Digits[x]]
  BY <1>5, Zenon
<1> QED
  BY <1>6, <1>7, <1>8

\* The bytes of element x if it is a plain number.
NumberSize(pl, x) == IF IsPlain(pl, x) THEN 3 + Digits[x] ELSE 0

(***************************************************************************)
(* The size of an element is a number.                                     *)
(***************************************************************************)
LEMMA NumberSizeType ==
    ASSUME NEW pl, NEW x \in Nat
    PROVE  NumberSize(pl, x) \in Nat
BY DigitsEquation DEF NumberSize

(***************************************************************************)
(* The plain numbers of a range are a number.                              *)
(***************************************************************************)
LEMMA PlainType ==
    ASSUME MaxInt \in Nat, NEW pl, PlanOK(pl), NEW lo \in Int, NEW hi \in Int
    PROVE  Plain(pl, lo, hi) \in Int
<1>1. pl.a \in Nat /\ pl.b \in Nat /\ pl.l \in Nat
  BY DEF PlanOK
<1>2. \A x \in Int, m \in Nat : multiples(x, m) \in Int
  BY DEF multiples
<1>3. \A m \in Nat : Count(lo, hi, m) \in Int
  BY <1>2 DEF Count
<1> QED
  BY <1>1, <1>3 DEF Plain

(***************************************************************************)
(* The plain numbers of lo..x (size.go, plain), when x grows by one.       *)
(***************************************************************************)
LEMMA PlainStep ==
    ASSUME MaxInt \in Nat, NEW pl, PlanOK(pl), NEW lo \in Nat \ {0}, NEW x \in lo..pl.n
    PROVE  Plain(pl, lo, x) = Plain(pl, lo, x - 1) + (IF IsPlain(pl, x) THEN 1 ELSE 0)
<1>1. /\ pl.a \in Nat \ {0} /\ pl.b \in Nat \ {0} /\ pl.l \in Nat /\ pl.n \in Nat
      /\ \A y \in 1..pl.n : (y % pl.a = 0 /\ y % pl.b = 0) <=>
                            (pl.l # 0 /\ y % pl.l = 0)
  BY DEF PlanOK
<1> DEFINE C(y, m) == Count(lo, y, m)
           Formula(y) == (y - lo + 1) - C(y, pl.a) - C(y, pl.b) + C(y, pl.l)
<1>2. \A m \in Nat : /\ C(x - 1, m) \in Int
                     /\ C(x, m) = C(x - 1, m) + One(x, m)
                     /\ C(lo - 1, m) = 0
  <2>1. x \in Nat \ {0} /\ lo <= x
    BY <1>1
  <2> QED
    BY <2>1, CountStep
<1> HIDE DEF C
<1>3. One(x, pl.a) \in {0, 1} /\ One(x, pl.b) \in {0, 1}
  BY DEF One
<1>4. /\ One(x, pl.l) = (IF One(x, pl.a) = 1 /\ One(x, pl.b) = 1 THEN 1 ELSE 0)
      /\ IsPlain(pl, x) <=> One(x, pl.a) = 0 /\ One(x, pl.b) = 0
  <2>1. x \in 1..pl.n
    BY <1>1
  <2> QED
    BY <1>1, <2>1 DEF One, IsPlain
<1>5. Formula(x) = Formula(x - 1) + (IF IsPlain(pl, x) THEN 1 ELSE 0)
  <2>1. /\ C(x, pl.a) = C(x - 1, pl.a) + One(x, pl.a)
        /\ C(x, pl.b) = C(x - 1, pl.b) + One(x, pl.b)
        /\ C(x, pl.l) = C(x - 1, pl.l) + One(x, pl.l)
        /\ C(x - 1, pl.a) \in Int /\ C(x - 1, pl.b) \in Int /\ C(x - 1, pl.l) \in Int
    BY <1>1, <1>2
  <2> QED
    BY <1>1, <1>3, <1>4, <2>1
<1>6. Plain(pl, lo, x) = Formula(x)
  BY <1>1 DEF Plain, C
<1>7. Plain(pl, lo, x - 1) = Formula(x - 1)
  <2>1. CASE x = lo
    <3>1. Plain(pl, lo, x - 1) = 0
      BY <1>1, <2>1 DEF Plain
    <3>2. Formula(x - 1) = 0
      BY <1>1, <1>2, <2>1
    <3> QED
      BY <3>1, <3>2
  <2>2. CASE x # lo
    BY <1>1, <2>2 DEF Plain, C
  <2> QED
    BY <2>1, <2>2
<1> QED
  BY <1>5, <1>6, <1>7

(***************************************************************************)
(* The plain numbers of one width, times their size.                       *)
(***************************************************************************)
LEMMA BandSum ==
    ASSUME MaxInt \in Nat, NEW pl, PlanOK(pl), NEW lo \in Nat \ {0}, NEW hi \in lo..pl.n,
           NEW d \in Nat, \A x \in lo..hi : Digits[x] = d
    PROVE  Plain(pl, lo, hi) * (d + 3) =
               SumOver([x \in Nat |-> NumberSize(pl, x)], lo..hi)
<1>1. pl.n \in Nat
  BY DEF PlanOK
<1> DEFINE f == [x \in Nat |-> NumberSize(pl, x)]
           F == [x \in Nat |-> Plain(pl, lo, x) * (d + 3)]
<1>2. ASSUME NEW x \in lo..hi
      PROVE  F[x] \in Int /\ F[x - 1] \in Int /\ f[x] \in Nat /\ F[x] = F[x - 1] + f[x]
  <2> DEFINE k == Plain(pl, lo, x - 1)
             e == IF IsPlain(pl, x) THEN 1 ELSE 0
             w == d + 3
  <2>1. x \in Nat /\ x - 1 \in Nat /\ x \in lo..pl.n
    BY <1>1
  <2>2. k \in Int /\ Plain(pl, lo, x) = k + e
    BY <2>1, PlainType, PlainStep
  <2>3. f[x] = e * w
    <3>1. f[x] = IF IsPlain(pl, x) THEN 3 + d ELSE 0
      BY <2>1 DEF NumberSize
    <3> QED
      BY <3>1
  <2>4. F[x] = (k + e) * w /\ F[x - 1] = k * w
    BY <2>1, <2>2
  <2>5. e \in Nat /\ w \in Nat
    OBVIOUS
  <2> HIDE DEF f, F, k, e, w
  <2>6. (k + e) * w = k * w + e * w
    BY <2>2, <2>5, SMT
  <2> QED
    BY <2>2, <2>3, <2>4, <2>5, <2>6
<1>3. F[lo - 1] = 0
  <2>1. Plain(pl, lo, lo - 1) = 0
    BY DEF Plain
  <2> QED
    BY <2>1
<1> HIDE DEF f, F
<1>4. Telescopes(f, F, lo, hi)
  BY <1>2, <1>3 DEF Telescopes
<1>5. SumOver(f, lo..hi) = F[hi] - F[lo - 1]
  <2>1. hi \in Nat /\ lo <= hi + 1
    BY <1>1
  <2> QED
    BY <1>4, <2>1, Telescope
<1>6. F[hi] \in Int /\ hi \in Nat
  BY <1>1, <1>2
<1> QED
  BY <1>3, <1>5, <1>6 DEF f, F

(***************************************************************************)
(* The largest number of a band (size.go:90): the last with as many digits *)
(* as the first, or MaxInt. It is computed without overflow.               *)
(***************************************************************************)
LEMMA BandTop ==
    ASSUME MaxInt \in Nat, NEW bandLo \in 1..MaxInt
    PROVE  /\ BandHi(bandLo) \in bandLo..MaxInt
           /\ BandHi(bandLo) <= 10 * bandLo - 1
           /\ BandHi(bandLo) # MaxInt => BandHi(bandLo) = 10 * bandLo - 1
<1>1. CASE bandLo <= MaxInt \div 10
  <2>1. bandLo * 10 - 1 \in 0..MaxInt
    BY <1>1, SMT
  <2>2. BandHi(bandLo) = bandLo * 10 - 1
    BY <1>1, <2>1, WordFits DEF BandHi
  <2> QED
    BY <2>1, <2>2
<1>2. CASE ~(bandLo <= MaxInt \div 10)
  <2>1. BandHi(bandLo) = MaxInt
    BY <1>2 DEF BandHi
  <2>2. MaxInt <= 10 * bandLo - 1
    BY <1>2, SMT
  <2> QED
    BY <2>1, <2>2
<1> QED
  BY <1>1, <1>2

\* What numberBytes adds for the band of d digits that begins at bandLo.
BandBytes(pl, hi, bandLo, d) ==
    IF bandLo > hi THEN 0
    ELSE Plain(pl, Max2(1, bandLo), Min2(hi, BandHi(bandLo))) * (d + 3)

\* The loop ends in this band, or before it.
LastBand(hi, bandLo) == bandLo > hi \/ BandHi(bandLo) = MaxInt

\* The loop of numberBytes: bands[<<bandLo, d>>] is what it adds from bandLo on.
CountsBands(bands, pl, hi) ==
    /\ NumberBytes(pl, 1, hi) = bands[<<1, 1>>]
    /\ \A bandLo \in 1..MaxInt, d \in Nat :
          bands[<<bandLo, d>>] =
             IF LastBand(hi, bandLo) THEN BandBytes(pl, hi, bandLo, d)
             ELSE BandBytes(pl, hi, bandLo, d) + bands[<<BandHi(bandLo) + 1, d + 1>>]

(***************************************************************************)
(* The loop of numberBytes (size.go) ends, since each band begins above    *)
(* the band before, so the function that models it has a solution, and one *)
(* only.                                                                   *)
(***************************************************************************)
LEMMA BandsEquation ==
    ASSUME MaxInt \in Nat \ {0}, NEW pl, PlanOK(pl), NEW hi \in Int
    PROVE  \E bands \in [(1..MaxInt) \X Nat -> Int] : CountsBands(bands, pl, hi)
<1> DEFINE S == (1..MaxInt) \X Nat
           done == {x \in S : LastBand(hi, x[1])}
           base == [x \in S |-> BandBytes(pl, hi, x[1], x[2])]
           calls == [x \in S |-> IF x \in done THEN x ELSE <<BandHi(x[1]) + 1, x[2] + 1>>]
           combine == [z \in S \X Int |-> BandBytes(pl, hi, z[1][1], z[1][2]) + z[2]]
           rank == [x \in S |-> MaxInt - x[1]]
           IsBands(g) ==
               g = [x \in S |->
                     IF x[1] > hi THEN 0
                     ELSE Plain(pl, Max2(1, x[1]), Min2(hi, BandHi(x[1]))) * (x[2] + 3)
                          + IF BandHi(x[1]) = MaxInt THEN 0
                            ELSE g[<<BandHi(x[1]) + 1, x[2] + 1>>]]
<1>1. \A x \in S : BandHi(x[1]) \in x[1]..MaxInt
  BY BandTop
<1>2. \A x \in S : BandBytes(pl, hi, x[1], x[2]) \in Int
  <2> TAKE x \in S
  <2> DEFINE lo == Max2(1, x[1])
             top == Min2(hi, BandHi(x[1]))
  <2>1. lo \in Int /\ top \in Int /\ x[2] + 3 \in Int
    BY <1>1 DEF Max2, Min2
  <2> HIDE DEF lo, top
  <2>2. Plain(pl, lo, top) \in Int
    BY <2>1, PlainType
  <2>3. Plain(pl, lo, top) * (x[2] + 3) \in Int
    BY <2>1, <2>2
  <2> QED
    BY <2>3 DEF BandBytes, lo, top
<1>3. \A x \in S \ done : /\ BandHi(x[1]) + 1 \in 1..MaxInt
                          /\ BandHi(x[1]) + 1 > x[1]
                          /\ <<BandHi(x[1]) + 1, x[2] + 1>> \in S
  BY <1>1 DEF LastBand
<1>4. PICK g \in [S -> Int] : \A x \in S : Solves(g, x, done, base, calls, combine)
  <2>1. \A x \in S : calls[x] \in S /\ rank[x] \in Nat
    BY <1>3
  <2>2. \A x \in S \ done : rank[calls[x]] < rank[x]
    BY <1>3
  <2>3. base \in [S -> Int]
    BY <1>2
  <2>4. combine \in [S \X Int -> Int]
    BY <1>2
  <2>5. calls \in [S -> S] /\ rank \in [S -> Nat]
    BY <2>1
  <2> HIDE DEF S, done, base, calls, combine, rank
  <2> QED
    BY <2>2, <2>3, <2>4, <2>5, Recursion
<1>5. ASSUME NEW x \in S
      PROVE  g[x] = IF x \in done THEN BandBytes(pl, hi, x[1], x[2])
                    ELSE BandBytes(pl, hi, x[1], x[2]) + g[<<BandHi(x[1]) + 1, x[2] + 1>>]
  <2>1. Solves(g, x, done, base, calls, combine)
    BY <1>4
  <2>2. CASE x \in done
    <3>1. g[x] = base[x]
      BY <2>1, <2>2 DEF Solves
    <3> QED
      BY <2>2, <3>1
  <2>3. CASE x \notin done
    <3>1. g[x] = combine[<<x, g[calls[x]]>>]
      BY <2>1, <2>3 DEF Solves
    <3>2. calls[x] = <<BandHi(x[1]) + 1, x[2] + 1>> /\ calls[x] \in S
      BY <1>3, <2>3
    <3>3. g[calls[x]] \in Int
      BY <1>4, <3>2
    <3> DEFINE y == g[calls[x]]
    <3>4. combine[<<x, y>>] = BandBytes(pl, hi, x[1], x[2]) + y
      BY <3>3
    <3> QED
      BY <2>3, <3>1, <3>2, <3>4
  <2> QED
    BY <2>2, <2>3
<1>6. ASSUME NEW x \in S
      PROVE  g[x] = IF x[1] > hi THEN 0
                    ELSE Plain(pl, Max2(1, x[1]), Min2(hi, BandHi(x[1]))) * (x[2] + 3)
                         + IF BandHi(x[1]) = MaxInt THEN 0
                           ELSE g[<<BandHi(x[1]) + 1, x[2] + 1>>]
  <2>1. CASE x[1] > hi
    BY <1>5, <2>1 DEF LastBand, BandBytes
  <2>2. CASE ~(x[1] > hi)
    <3> DEFINE w == Plain(pl, Max2(1, x[1]), Min2(hi, BandHi(x[1]))) * (x[2] + 3)
    <3>1. BandBytes(pl, hi, x[1], x[2]) = w
      BY <2>2 DEF BandBytes
    <3>2. w \in Int
      BY <1>2, <3>1
    <3>3. x \in done <=> BandHi(x[1]) = MaxInt
      BY <2>2 DEF LastBand
    <3> HIDE DEF w, done
    <3>4. CASE BandHi(x[1]) = MaxInt
      <4>1. g[x] = w
        BY <1>5, <3>1, <3>3, <3>4
      <4>2. w = w + 0
        BY <3>2
      <4>3. g[x] = w + 0
        BY <4>1, <4>2
      <4> QED
        BY <2>2, <3>4, <4>3, Zenon DEF w
    <3>5. CASE BandHi(x[1]) # MaxInt
      <4>1. g[x] = w + g[<<BandHi(x[1]) + 1, x[2] + 1>>]
        BY <1>5, <3>1, <3>3, <3>5
      <4> QED
        BY <2>2, <3>5, <4>1, Zenon DEF w
    <3> QED
      BY <3>4, <3>5
  <2> QED
    BY <2>1, <2>2
<1>7. IsBands(g)
  BY <1>4, <1>6, Zenon
<1> DEFINE Bands == CHOOSE h : IsBands(h)
<1>8. NumberBytes(pl, 1, hi) = Bands[<<1, 1>>]
  BY DEF NumberBytes
<1>9. IsBands(Bands)
  BY <1>7, Zenon
<1> HIDE DEF IsBands, Bands
<1>10. \A x \in S : Bands[x] = g[x]
  <2> DEFINE B == {rank[x] : x \in {y \in S : Bands[y] # g[y]}}
  <2> SUFFICES ASSUME B # {} PROVE FALSE
    OBVIOUS
  <2>1. PICK r \in B : \A s \in B : r <= s
    <3> B \subseteq Nat
      OBVIOUS
    <3> HIDE DEF B
    <3> QED
      BY SmallestNat
  <2>2. PICK x \in S : Bands[x] # g[x] /\ r = MaxInt - x[1]
    OBVIOUS
  <2> DEFINE y == <<BandHi(x[1]) + 1, x[2] + 1>>
  <2>3. x[1] <= hi /\ BandHi(x[1]) # MaxInt /\ Bands[y] # g[y]
    <3> DEFINE Value(f, z) ==
                 IF z[1] > hi THEN 0
                 ELSE Plain(pl, Max2(1, z[1]), Min2(hi, BandHi(z[1]))) * (z[2] + 3)
                      + IF BandHi(z[1]) = MaxInt THEN 0
                        ELSE f[<<BandHi(z[1]) + 1, z[2] + 1>>]
    <3>1. \A z \in S : g[z] = Value(g, z)
      BY <1>7, Zenon DEF IsBands
    <3>2. \A z \in S : Bands[z] = Value(Bands, z)
      BY <1>9, Zenon DEF IsBands
    <3>3. x[1] > hi \/ BandHi(x[1]) = MaxInt \/ Bands[y] = g[y]
          => Value(Bands, x) = Value(g, x)
      <4>1. CASE x[1] > hi
        BY <4>1
      <4>2. CASE BandHi(x[1]) = MaxInt
        BY <4>2
      <4>3. CASE Bands[y] = g[y]
        BY <4>3, Zenon
      <4> QED
        BY <4>1, <4>2, <4>3
    <3> HIDE DEF Value, y
    <3> QED
      BY <2>2, <3>1, <3>2, <3>3
  <2>4. x \notin done
    BY <2>3 DEF LastBand
  <2>5. y \in S /\ rank[y] < rank[x] /\ rank[y] \in Nat /\ rank[x] \in Nat
    BY <1>3, <2>4
  <2>6. rank[y] \in B
    <3> HIDE DEF y, rank
    <3> QED
      BY <2>3, <2>5
  <2>7. r <= rank[y] /\ r = rank[x]
    <3>1. r = rank[x]
      BY <2>2
    <3> HIDE DEF B, rank, y
    <3> QED
      BY <2>1, <2>6, <3>1
  <2> HIDE DEF rank, y
  <2> QED
    BY <2>5, <2>7
<1>11. <<1, 1>> \in S
  OBVIOUS
<1>12. NumberBytes(pl, 1, hi) = g[<<1, 1>>]
  BY <1>8, <1>10, <1>11
<1>13. ASSUME NEW bandLo \in 1..MaxInt, NEW d \in Nat
       PROVE  g[<<bandLo, d>>] =
                IF LastBand(hi, bandLo) THEN BandBytes(pl, hi, bandLo, d)
                ELSE BandBytes(pl, hi, bandLo, d) + g[<<BandHi(bandLo) + 1, d + 1>>]
  <2> DEFINE x == <<bandLo, d>>
  <2>1. x \in S /\ x[1] = bandLo /\ x[2] = d
    OBVIOUS
  <2>2. x \in done <=> LastBand(hi, bandLo)
    BY <2>1
  <2> HIDE DEF S, x, done
  <2>3. g[x] = IF x \in done THEN BandBytes(pl, hi, x[1], x[2])
               ELSE BandBytes(pl, hi, x[1], x[2]) + g[<<BandHi(x[1]) + 1, x[2] + 1>>]
    BY <1>5, <2>1
  <2>4. g[x] = IF LastBand(hi, bandLo) THEN BandBytes(pl, hi, bandLo, d)
               ELSE BandBytes(pl, hi, bandLo, d) + g[<<BandHi(bandLo) + 1, d + 1>>]
    BY <2>1, <2>2, <2>3, Zenon
  <2> QED
    BY <2>4 DEF x
<1>14. CountsBands(g, pl, hi)
  BY <1>12, <1>13 DEF CountsBands
<1> QED
  BY <1>4, <1>14

(***************************************************************************)
(* numberBytes is the sum over the plain numbers: the bands cover 1..hi    *)
(* without a gap, and the numbers of band d have d digits.                 *)
(***************************************************************************)
LEMMA NumberBytesSum ==
    ASSUME MaxInt \in Nat \ {0}, NEW pl, PlanOK(pl), NEW hi \in 1..pl.n
    PROVE  NumberBytes(pl, 1, hi) = SumOver([x \in Nat |-> NumberSize(pl, x)], 1..hi)
<1> DEFINE f == [x \in Nat |-> NumberSize(pl, x)]
<1>0. pl.n \in 0..MaxInt /\ hi \in Nat /\ hi <= MaxInt /\ hi >= 1
  BY DEF PlanOK
<1>10. PICK Bands \in [(1..MaxInt) \X Nat -> Int] : CountsBands(Bands, pl, hi)
  <2>1. hi \in Int
    BY <1>0
  <2> QED
    BY <2>1, BandsEquation
<1>1. /\ NumberBytes(pl, 1, hi) = Bands[<<1, 1>>]
      /\ \A bandLo \in 1..MaxInt, d \in Nat :
           Bands[<<bandLo, d>>] =
             IF LastBand(hi, bandLo) THEN BandBytes(pl, hi, bandLo, d)
             ELSE BandBytes(pl, hi, bandLo, d)
                  + Bands[<<BandHi(bandLo) + 1, d + 1>>]
  BY <1>10 DEF CountsBands
<1>2. \A x \in Nat : f[x] \in Nat
  BY NumberSizeType
<1> HIDE DEF f
<1> DEFINE IsBand(lo, d) == \A x \in lo .. 10 * lo - 1 : Digits[x] = d
           Good(lo, d) == Bands[<<lo, d>>] = SumOver(f, lo..hi)
           Bad == {y \in 1..MaxInt : \E d \in Nat : IsBand(y, d) /\ ~Good(y, d)}
           B == {MaxInt - lo : lo \in Bad}
<1>3. ASSUME NEW lo \in 1..MaxInt, NEW d \in Nat, IsBand(lo, d), lo <= hi
      PROVE  BandBytes(pl, hi, lo, d) = SumOver(f, lo .. Min2(hi, BandHi(lo)))
  <2> DEFINE top == Min2(hi, BandHi(lo))
  <2>1. BandHi(lo) \in lo..MaxInt /\ BandHi(lo) <= 10 * lo - 1
    BY BandTop
  <2>2. top \in lo..pl.n /\ top <= 10 * lo - 1 /\ top \in Nat
    BY <1>0, <1>3, <2>1 DEF Min2
  <2>3. Max2(1, lo) = lo
    BY DEF Max2
  <2>4. BandBytes(pl, hi, lo, d) = Plain(pl, lo, top) * (d + 3)
    BY <1>0, <1>3, <2>3 DEF BandBytes
  <2> HIDE DEF top
  <2>5. \A x \in lo..top : Digits[x] = d
    BY <1>3, <2>2
  <2>6. Plain(pl, lo, top) * (d + 3) = SumOver([x \in Nat |-> NumberSize(pl, x)], lo..top)
    BY <2>2, <2>5, BandSum
  <2> QED
    BY <2>4, <2>6 DEF f, top
<1>4. ASSUME NEW lo \in Nat, lo > hi PROVE SumOver(f, lo..hi) = 0
  <2>1. lo..hi = {}
    BY <1>0, <1>4
  <2> QED
    BY <2>1, SumStep, FS_EmptySet
<1>5. ASSUME NEW lo \in 1..MaxInt, NEW d \in Nat, IsBand(lo, d),
             ~LastBand(hi, lo) => Good(BandHi(lo) + 1, d + 1)
      PROVE  Good(lo, d)
  <2> DEFINE b == BandBytes(pl, hi, lo, d)
             top == BandHi(lo)
  <2>1. Bands[<<lo, d>>] = IF LastBand(hi, lo) THEN b ELSE b + Bands[<<top + 1, d + 1>>]
    BY <1>1
  <2>2. top \in lo..MaxInt
    BY BandTop
  <2> HIDE DEF b, top
  <2>3. CASE lo > hi
    <3>1. b = 0
      BY <2>3 DEF b, BandBytes
    <3>2. LastBand(hi, lo)
      BY <2>3 DEF LastBand
    <3> QED
      BY <1>4, <2>1, <2>3, <3>1, <3>2
  <2>4. CASE lo <= hi /\ top >= hi
    <3>1. Min2(hi, top) = hi
      BY <1>0, <2>2, <2>4 DEF Min2
    <3>2. b = SumOver(f, lo..hi)
      BY <1>3, <1>5, <2>4, <3>1 DEF b, top
    <3>3. CASE LastBand(hi, lo)
      BY <2>1, <3>2, <3>3
    <3>4. CASE ~LastBand(hi, lo)
      <4>1. Bands[<<top + 1, d + 1>>] = SumOver(f, top + 1 .. hi)
        BY <1>5, <3>4 DEF top
      <4>2. SumOver(f, top + 1 .. hi) = 0
        BY <1>0, <1>4, <2>2, <2>4
      <4>3. SumOver(f, lo..hi) \in Nat
        <5>1. IsFiniteSet(lo..hi) /\ \A x \in lo..hi : f[x] \in Nat
          <6>1. lo \in Int /\ hi \in Int /\ \A x \in lo..hi : x \in Nat
            BY <1>0
          <6> QED
            BY <1>2, <6>1, FS_Interval
        <5> QED
          BY <5>1, SumIsNat
      <4> QED
        BY <2>1, <3>2, <3>4, <4>1, <4>2, <4>3
    <3> QED
      BY <3>3, <3>4
  <2>5. CASE lo <= hi /\ top < hi
    <3>1. Min2(hi, top) = top /\ ~LastBand(hi, lo)
      BY <1>0, <2>2, <2>5 DEF Min2, LastBand, top
    <3>2. b = SumOver(f, lo..top)
      BY <1>3, <1>5, <2>5, <3>1 DEF b, top
    <3>3. Bands[<<top + 1, d + 1>>] = SumOver(f, top + 1 .. hi)
      BY <1>5, <3>1 DEF top
    <3>4. SumOver(f, (lo..top) \cup (top + 1 .. hi)) =
            SumOver(f, lo..top) + SumOver(f, top + 1 .. hi)
      <4>1. IsFiniteSet(lo..top) /\ IsFiniteSet(top + 1 .. hi)
        <5>1. lo \in Int /\ top \in Int /\ top + 1 \in Int /\ hi \in Int
          BY <1>0, <2>2
        <5> QED
          BY <5>1, FS_Interval
      <4>2. (lo..top) \cap (top + 1 .. hi) = {}
        BY <1>0, <2>2
      <4>3. \A x \in (lo..top) \cup (top + 1 .. hi) : f[x] \in Nat
        <5>1. \A x \in (lo..top) \cup (top + 1 .. hi) : x \in Nat
          BY <1>0, <2>2
        <5> QED
          BY <1>2, <5>1
      <4> QED
        BY <4>1, <4>2, <4>3, SumOfParts
    <3>5. (lo..top) \cup (top + 1 .. hi) = lo..hi
      BY <1>0, <2>2, <2>5
    <3> QED
      BY <2>1, <3>1, <3>2, <3>3, <3>4, <3>5
  <2> QED
    BY <1>0, <2>2, <2>3, <2>4, <2>5
<1>6. ASSUME NEW lo \in 1..MaxInt, NEW d \in Nat, IsBand(lo, d), ~LastBand(hi, lo)
      PROVE  BandHi(lo) + 1 = 10 * lo /\ IsBand(BandHi(lo) + 1, d + 1)
  <2>1. BandHi(lo) = 10 * lo - 1
    BY <1>6, BandTop DEF LastBand
  <2>2. BandHi(lo) + 1 = 10 * lo
    BY <2>1
  <2>3. ASSUME NEW x \in 10 * lo .. 10 * (10 * lo) - 1 PROVE Digits[x] = d + 1
    <3>1. x \in Nat /\ x >= 10 /\ x \div 10 \in lo .. 10 * lo - 1
      BY SMT
    <3>2. Digits[x \div 10] = d
      BY <1>6, <3>1
    <3>3. Digits[x] = 1 + Digits[x \div 10]
      BY <3>1, DigitsEquation
    <3> QED
      BY <3>2, <3>3
  <2>4. IsBand(10 * lo, d + 1)
    BY <2>3
  <2> QED
    BY <2>2, <2>4
<1>7. B = {}
  <2> SUFFICES ASSUME B # {} PROVE FALSE
    OBVIOUS
  <2>1. PICK r \in B : \A s \in B : r <= s
    <3> B \subseteq Nat
      OBVIOUS
    <3> HIDE DEF B
    <3> QED
      BY SmallestNat
  <2>2. PICK lo \in 1..MaxInt :
          r = MaxInt - lo /\ \E d \in Nat : IsBand(lo, d) /\ ~Good(lo, d)
    <3> HIDE DEF IsBand, Good
    <3> QED
      OBVIOUS
  <2>3. PICK d \in Nat : IsBand(lo, d) /\ ~Good(lo, d)
    BY <2>2
  <2> HIDE DEF Good, IsBand
  <2>4. ~LastBand(hi, lo) /\ ~Good(BandHi(lo) + 1, d + 1)
    BY <1>5, <2>3
  <2> DEFINE z == BandHi(lo) + 1
  <2>5. z = 10 * lo /\ IsBand(z, d + 1)
    BY <1>6, <2>3, <2>4
  <2>6. z \in 1..MaxInt
    BY BandTop, <2>4 DEF LastBand
  <2> HIDE DEF z
  <2>7. MaxInt - z \in B
    <3>1. \E e \in Nat : IsBand(z, e) /\ ~Good(z, e)
      BY <2>4, <2>5 DEF z
    <3> QED
      BY <2>6, <3>1
  <2>8. r <= MaxInt - z
    <3> HIDE DEF B
    <3> QED
      BY <2>1, <2>7
  <2> QED
    BY <2>2, <2>5, <2>6, <2>8
<1>8. IsBand(1, 1)
  BY DigitsEquation
<1>9. Good(1, 1)
  <2>1. ~Good(1, 1) => MaxInt - 1 \in B
    <3> HIDE DEF Good, IsBand
    <3>1. 1 \in 1..MaxInt /\ 1 \in Nat
      OBVIOUS
    <3> QED
      BY <1>8, <3>1
  <2> HIDE DEF B
  <2> QED
    BY <1>7, <2>1
<1> QED
  BY <1>1, <1>9 DEF f

-----------------------------------------------------------------------------
(***************************************************************************)
(*                         The size of the response                        *)
(***************************************************************************)

\* The bytes of element x in the reference.
ElementSize(pl, x) == ElementBytes(pl, Element(pl, x))

(***************************************************************************)
(* The sum of the reference as a sum over a function.                      *)
(***************************************************************************)
LEMMA ListBytesSum ==
    ASSUME NEW pl, NEW hi \in Nat
    PROVE  ListBytes(pl, 1, hi) = SumOver([x \in Nat |-> ElementSize(pl, x)], 1..hi)
<1> DEFINE S == 1..hi
           f == [x \in Nat |-> ElementSize(pl, x)]
           IsList(g) ==
               g = [s \in SUBSET S |->
                      IF s = {} THEN 0
                      ELSE ElementSize(pl, Pick(s)) + g[s \ {Pick(s)}]]
           G == CHOOSE g : IsList(g)
<1>1. ListBytes(pl, 1, hi) = G[S]
  BY DEF ListBytes, MapThenSumSet, MapThenFoldSet, Pick, ElementSize
<1>2. \A s \in SUBSET S : s # {} => f[Pick(s)] = ElementSize(pl, Pick(s))
  <2> TAKE s \in SUBSET S
  <2> HAVE s # {}
  <2>1. Pick(s) \in s
    BY DEF Pick
  <2>2. Pick(s) \in S
    BY <2>1
  <2>3. \A x \in S : x \in Nat
    OBVIOUS
  <2>4. Pick(s) \in Nat
    BY <2>2, <2>3
  <2> HIDE DEF S
  <2> QED
    BY <2>4
<1> HIDE DEF f
<1>3. \A g : IsList(g) <=> IsSum(g, f, S)
  <2> TAKE g
  <2> DEFINE v(s) == IF s = {} THEN 0 ELSE ElementSize(pl, Pick(s)) + g[s \ {Pick(s)}]
             w(s) == IF s = {} THEN 0 ELSE f[Pick(s)] + g[s \ {Pick(s)}]
  <2>1. \A s \in SUBSET S : v(s) = w(s)
    <3> HIDE DEF S
    <3> QED
      BY <1>2, Zenon
  <2> HIDE DEF v, w, S
  <2>2. [s \in SUBSET S |-> v(s)] = [s \in SUBSET S |-> w(s)]
    BY <2>1
  <2> QED
    BY <2>2, Zenon DEF v, w, IsSum
<1>4. IsFiniteSet(S)
  BY FS_Interval
<1> HIDE DEF IsList, S
<1>5. PICK h : IsSum(h, f, S)
  BY <1>4, SumExists
<1>6. IsList(G) /\ IsSum(G, f, S)
  <2>1. IsList(G)
    BY <1>3, <1>5, Zenon
  <2> QED
    BY <1>3, <2>1
<1> HIDE DEF G
<1>7. G[S] = SumOver(f, S)
  <2> DEFINE k == CHOOSE g : IsSum(g, f, S)
  <2>1. IsSum(k, f, S)
    BY <1>5, Zenon
  <2>2. SumOver(f, S) = k[S]
    BY DEF SumOver
  <2> HIDE DEF k
  <2>3. G[S] = k[S]
    BY <1>4, <1>6, <2>1, SumsAgree
  <2> QED
    BY <2>2, <2>3
<1> QED
  BY <1>1, <1>7 DEF f, S

(***************************************************************************)
(* The element of the reference is an event or a plain number.             *)
(***************************************************************************)
LEMMA ElementSplits ==
    ASSUME NEW pl, PlanOK(pl), NEW x \in Nat
    PROVE  ElementSize(pl, x) = EventSize(pl, x) + NumberSize(pl, x)
<1> DEFINE a == x % pl.a = 0
           b == x % pl.b = 0
<1>1. pl.e1 \in Nat /\ pl.e2 \in Nat /\ pl.e12 \in Nat /\ Digits[x] \in Nat
  BY DigitsEquation DEF PlanOK
<1>2. CASE x % pl.a = 0 /\ x % pl.b = 0
  <2>1. Element(pl, x) = <<"e12", 0>>
    BY <1>2 DEF Element
  <2>2. ElementSize(pl, x) = pl.e12
    BY <2>1 DEF ElementSize, ElementBytes
  <2>3. EventSize(pl, x) = pl.e12 /\ NumberSize(pl, x) = 0
    BY <1>2 DEF EventSize, NumberSize, IsPlain
  <2> QED
    BY <1>1, <2>2, <2>3
<1>3. CASE x % pl.a = 0 /\ x % pl.b # 0
  <2>1. Element(pl, x) = <<"e1", 0>>
    BY <1>3 DEF Element
  <2>2. ElementSize(pl, x) = pl.e1
    BY <2>1 DEF ElementSize, ElementBytes
  <2>3. EventSize(pl, x) = pl.e1 /\ NumberSize(pl, x) = 0
    BY <1>3 DEF EventSize, NumberSize, IsPlain
  <2> QED
    BY <1>1, <2>2, <2>3
<1>4. CASE x % pl.a # 0 /\ x % pl.b = 0
  <2>1. Element(pl, x) = <<"e2", 0>>
    BY <1>4 DEF Element
  <2>2. ElementSize(pl, x) = pl.e2
    BY <2>1 DEF ElementSize, ElementBytes
  <2>3. EventSize(pl, x) = pl.e2 /\ NumberSize(pl, x) = 0
    BY <1>4 DEF EventSize, NumberSize, IsPlain
  <2> QED
    BY <1>1, <2>2, <2>3
<1>5. CASE x % pl.a # 0 /\ x % pl.b # 0
  <2>1. Element(pl, x) = <<"number", x>>
    BY <1>5 DEF Element
  <2>2. ElementSize(pl, x) = 3 + Digits[x]
    BY <2>1 DEF ElementSize, ElementBytes
  <2>3. EventSize(pl, x) = 0 /\ NumberSize(pl, x) = 3 + Digits[x]
    BY <1>5 DEF EventSize, NumberSize, IsPlain
  <2> QED
    BY <1>1, <2>2, <2>3
<1> QED
  BY <1>2, <1>3, <1>4, <1>5

(***************************************************************************)
(* rangeBytes (size.go), the closed formula, is the sum over the elements. *)
(***************************************************************************)
LEMMA RangeIsList ==
    ASSUME MaxInt \in Nat \ {0}, NEW pl, PlanOK(pl), NEW hi \in 1..pl.n
    PROVE  rangeBytes(pl, 1, hi) = ListBytes(pl, 1, hi)
<1> DEFINE S == 1..hi
           ev == [x \in Nat |-> EventSize(pl, x)]
           nu == [x \in Nat |-> NumberSize(pl, x)]
           el == [x \in Nat |-> ElementSize(pl, x)]
<1>0. hi \in Nat /\ hi >= 1
  BY DEF PlanOK
<1>1. rangeBytes(pl, 1, hi) = EventBytes(pl, 1, hi) + NumberBytes(pl, 1, hi)
  BY <1>0 DEF rangeBytes
<1>2. EventBytes(pl, 1, hi) = SumOver(ev, S) /\ NumberBytes(pl, 1, hi) = SumOver(nu, S)
  BY EventBytesSum, NumberBytesSum
<1>3. SumOver(el, S) = SumOver(ev, S) + SumOver(nu, S)
  <2>1. \A x \in S : ev[x] \in Nat /\ nu[x] \in Nat /\ el[x] = ev[x] + nu[x]
    <3> TAKE x \in S
    <3>1. EventSize(pl, x) \in Nat
      BY DEF EventSize, PlanOK
    <3> QED
      BY <1>0, <3>1, NumberSizeType, ElementSplits
  <2>2. IsFiniteSet(S)
    BY <1>0, FS_Interval
  <2> HIDE DEF S, ev, nu, el
  <2> QED
    BY <2>1, <2>2, SumPlus
<1>4. ListBytes(pl, 1, hi) = SumOver(el, S)
  BY <1>0, ListBytesSum
<1> HIDE DEF S, ev, nu, el
<1> QED
  BY <1>1, <1>2, <1>3, <1>4

(***************************************************************************)
(* JSONSize is exact for each valid request, of any width and any limit:   *)
(* "exactly JSONSize(p)" (write.go:111).                                   *)
(***************************************************************************)
THEOREM JSONSizeIsExact ==
    ASSUME MaxInt \in Nat \ {0}, NEW p, ValidParams(p)
    PROVE  JSONSize(p) = ListBytes(newPlan(p), 1, p.limit) + 1
<1>1. p.limit \in 1..MaxInt /\ newPlan(p).n = p.limit
  BY DEF ValidParams, newPlan
<1>2. rangeBytes(newPlan(p), 1, p.limit) = ListBytes(newPlan(p), 1, p.limit)
  BY <1>1, PlanIsOK, RangeIsList
<1> QED
  BY <1>1, <1>2 DEF JSONSize

(***************************************************************************)
(* The size of a response is a number.                                     *)
(***************************************************************************)
LEMMA JSONSizeIsNat ==
    ASSUME MaxInt \in Nat \ {0}, NEW p, ValidParams(p)
    PROVE  JSONSize(p) \in Nat
<1> DEFINE pl == newPlan(p)
           f == [x \in Nat |-> ElementSize(pl, x)]
<1>1. p.limit \in Nat
  BY DEF ValidParams
<1>2. JSONSize(p) = SumOver(f, 1..p.limit) + 1
  BY <1>1, JSONSizeIsExact, ListBytesSum
<1>3. PlanOK(pl)
  BY PlanIsOK
<1> HIDE DEF pl
<1>4. \A x \in Nat : f[x] \in Nat
  <2> TAKE x \in Nat
  <2>1. EventSize(pl, x) \in Nat
    BY <1>3 DEF EventSize, PlanOK
  <2> QED
    BY <1>3, <2>1, NumberSizeType, ElementSplits
<1>5. IsFiniteSet(1..p.limit)
  BY <1>1, FS_Interval
<1> HIDE DEF f
<1>6. SumOver(f, 1..p.limit) \in Nat
  BY <1>1, <1>4, <1>5, SumIsNat
<1> QED
  BY <1>2, <1>6

(***************************************************************************)
(* A request with a smaller limit has no larger response. (largestLimit    *)
(* relies on it: sort.Search needs a monotone function, params.go:66.)     *)
(***************************************************************************)
THEOREM JSONSizeGrows ==
    ASSUME MaxInt \in Nat \ {0}, NEW p, ValidParams(p), NEW q, ValidParams(q),
           q.int1 = p.int1, q.int2 = p.int2, q.str1 = p.str1, q.str2 = p.str2,
           q.limit <= p.limit
    PROVE  JSONSize(q) <= JSONSize(p)
<1> DEFINE f == [x \in Nat |-> ElementSize(newPlan(p), x)]
           g == [x \in Nat |-> ElementSize(newPlan(q), x)]
           n == p.limit
           m == q.limit
<1>1. n \in Nat /\ m \in Nat /\ m <= n
  BY DEF ValidParams
<1>2. JSONSize(p) = SumOver(f, 1..n) + 1 /\ JSONSize(q) = SumOver(g, 1..m) + 1
  BY <1>1, JSONSizeIsExact, ListBytesSum
<1>3. \A x \in Nat : f[x] \in Nat /\ f[x] = g[x]
  <2> TAKE x \in Nat
  <2>1. /\ newPlan(p).a = newPlan(q).a /\ newPlan(p).b = newPlan(q).b
        /\ newPlan(p).e1 = newPlan(q).e1 /\ newPlan(p).e2 = newPlan(q).e2
        /\ newPlan(p).e12 = newPlan(q).e12
    BY DEF newPlan
  <2>2. PlanOK(newPlan(p)) /\ PlanOK(newPlan(q))
    BY PlanIsOK
  <2> DEFINE pl == newPlan(p)
             ql == newPlan(q)
  <2>3. EventSize(pl, x) = EventSize(ql, x) /\ NumberSize(pl, x) = NumberSize(ql, x)
    BY <2>1 DEF EventSize, NumberSize, IsPlain
  <2>4. EventSize(pl, x) \in Nat
    BY <2>2 DEF EventSize, PlanOK
  <2>5. NumberSize(pl, x) \in Nat
    BY NumberSizeType
  <2> HIDE DEF pl, ql
  <2>6. PlanOK(pl) /\ PlanOK(ql)
    BY <2>2 DEF pl, ql
  <2>7. /\ ElementSize(pl, x) = EventSize(pl, x) + NumberSize(pl, x)
        /\ ElementSize(ql, x) = EventSize(ql, x) + NumberSize(ql, x)
    BY <2>6, ElementSplits
  <2> QED
    BY <2>3, <2>4, <2>5, <2>7 DEF pl, ql
<1> HIDE DEF f, g, n, m
<1>4. (1..m) \cup (m + 1 .. n) = 1..n /\ (1..m) \cap (m + 1 .. n) = {}
  BY <1>1
<1>5. IsFiniteSet(1..m) /\ IsFiniteSet(m + 1 .. n)
  BY <1>1, FS_Interval
<1>6. \A x \in 1..n : f[x] \in Nat
  BY <1>3
<1>7. SumOver(f, 1..n) = SumOver(f, 1..m) + SumOver(f, m + 1 .. n)
  <2> DEFINE S == 1..m
             T == m + 1 .. n
  <2>1. /\ IsFiniteSet(S) /\ IsFiniteSet(T) /\ S \cap T = {}
        /\ \A x \in S \cup T : f[x] \in Nat
    BY <1>4, <1>5, <1>6
  <2> HIDE DEF S, T
  <2>2. SumOver(f, S \cup T) = SumOver(f, S) + SumOver(f, T)
    BY <2>1, SumOfParts
  <2> QED
    BY <1>4, <2>2 DEF S, T
<1>8. SumOver(f, 1..m) \in Nat /\ SumOver(f, m + 1 .. n) \in Nat
  BY <1>1, <1>3, <1>5, SumIsNat
<1>9. SumOver(g, 1..m) = SumOver(f, 1..m)
  BY <1>1, <1>3, <1>5, SumSame
<1>10. PICK u \in Nat, w \in Nat :
           u = SumOver(f, 1..m) /\ w = SumOver(f, m + 1 .. n)
  BY <1>8
<1>11. JSONSize(q) = u + 1 /\ JSONSize(p) = (u + w) + 1
  BY <1>2, <1>7, <1>9, <1>10
<1>12. u + 1 <= (u + w) + 1
  OBVIOUS
<1> QED
  BY <1>11, <1>12

=============================================================================
