----------------------------- MODULE SumProofs ------------------------------
(***************************************************************************)
(* Sums over finite sets, for the counters of bytes and hits: MapThenSumSet*)
(* of the community modules satisfies its recursion, so that one can reason*)
(* about the elements. Induction is by a smallest counterexample (Descent),*)
(* because a set, unlike a predicate, can be given to the theorems about   *)
(* well-founded orderings.                                                 *)
(***************************************************************************)
EXTENDS FiniteSetsExt, Integers, FiniteSetTheorems, WellFoundedInduction, TLAPS

Pick(s) == CHOOSE x \in s : TRUE

\* The local function of MapThenFoldSet, for the sum of the values of f.
IsSum(g, f, S) ==
    g = [s \in SUBSET S |-> IF s = {} THEN 0 ELSE f[Pick(s)] + g[s \ {Pick(s)}]]

SumOver(f, S) == (CHOOSE g : IsSum(g, f, S))[S]

LEMMA SumIsFold ==
    ASSUME NEW f, NEW S
    PROVE  MapThenSumSet(LAMBDA x : f[x], S) = SumOver(f, S)
BY DEF MapThenSumSet, MapThenFoldSet, SumOver, IsSum, Pick

(***************************************************************************)
(* A set of subsets of a finite set has a smallest member.                 *)
(***************************************************************************)
LEMMA Descent ==
    ASSUME NEW S, IsFiniteSet(S), NEW B, B \subseteq SUBSET S, B # {}
    PROVE  \E m \in B : \A x \in m : m \ {x} \notin B
<1> DEFINE R == StrictSubsetOrdering(S)
<1>1. IsWellFoundedOn(R, FiniteSubsetsOf(S))
  BY FS_StrictSubsetOrderingWellFounded
<1>2. B \subseteq FiniteSubsetsOf(S)
  BY FS_Subset DEF FiniteSubsetsOf
<1> HIDE DEF R
<1>3. PICK m \in B : \A y \in B : <<y, m>> \notin R
  BY <1>1, <1>2, WFMin
<1>4. ASSUME NEW x \in m, m \ {x} \in B PROVE <<m \ {x}, m>> \in R
  BY <1>3, <1>4 DEF R, StrictSubsetOrdering
<1> QED
  BY <1>3, <1>4

(***************************************************************************)
(* The recursion has one solution, also on a smaller set.                  *)
(***************************************************************************)
LEMMA SumsAgree ==
    ASSUME NEW f, NEW S, IsFiniteSet(S), NEW T, T \subseteq S,
           NEW g, NEW h, IsSum(g, f, S), IsSum(h, f, T)
    PROVE  \A s \in SUBSET T : g[s] = h[s]
<1> DEFINE B == {s \in SUBSET T : g[s] # h[s]}
<1> SUFFICES ASSUME B # {} PROVE FALSE
  OBVIOUS
<1>1. PICK m \in B : \A x \in m : m \ {x} \notin B
  <2> IsFiniteSet(T) /\ B \subseteq SUBSET T
    BY FS_Subset
  <2> HIDE DEF B
  <2> QED
    BY Descent
<1>2. m \in SUBSET T /\ m \in SUBSET S
  OBVIOUS
<1>3. CASE m = {}
  BY <1>2, <1>3 DEF IsSum
<1>4. CASE m # {}
  <2>1. Pick(m) \in m
    BY <1>4 DEF Pick
  <2>2. g[m \ {Pick(m)}] = h[m \ {Pick(m)}]
    BY <1>1, <2>1
  <2> QED
    BY <1>2, <1>4, <2>2 DEF IsSum
<1> QED
  BY <1>3, <1>4

(***************************************************************************)
(* It has a solution: put together the solutions on all smaller sets.      *)
(***************************************************************************)
LEMMA SumExists ==
    ASSUME NEW f, NEW S, IsFiniteSet(S)
    PROVE  \E g : IsSum(g, f, S)
<1> DEFINE B == {s \in SUBSET S : ~ \E g : IsSum(g, f, s)}
<1> SUFFICES ASSUME B # {} PROVE FALSE
  OBVIOUS
<1>1. PICK m \in B : \A x \in m : m \ {x} \notin B
  <2> B \subseteq SUBSET S
    OBVIOUS
  <2> HIDE DEF B
  <2> QED
    BY Descent
<1>2. IsFiniteSet(m) /\ m \subseteq S
  BY FS_Subset
<1> DEFINE G(s) == CHOOSE g : IsSum(g, f, s)
           h == [s \in SUBSET m |->
                    IF s = {} THEN 0 ELSE f[Pick(s)] + G(s \ {Pick(s)})[s \ {Pick(s)}]]
<1>3. \A x \in m : \E g : IsSum(g, f, m \ {x})
  BY <1>1
<1>4. \A s \in SUBSET m : s # m => IsSum(G(s), f, s)
  <2> TAKE s \in SUBSET m
  <2> HAVE s # m
  <2>1. PICK x \in m : s \subseteq m \ {x}
    OBVIOUS
  <2>2. PICK g : IsSum(g, f, m \ {x})
    BY <1>3
  <2>3. IsSum([t \in SUBSET s |-> g[t]], f, s)
    <3> DEFINE k == [t \in SUBSET s |-> g[t]]
    <3>1. \A t \in SUBSET s : k[t] = IF t = {} THEN 0 ELSE f[Pick(t)] + k[t \ {Pick(t)}]
      BY <2>1, <2>2 DEF IsSum
    <3> QED
      BY <3>1, Zenon DEF IsSum
  <2> QED
    BY <2>3
<1>5. \A s \in SUBSET m : s # {} => Pick(s) \in s
  BY DEF Pick
<1>6. ASSUME NEW u \in SUBSET m, u # m PROVE G(u)[u] = h[u]
  <2>1. IsSum(G(u), f, u)
    BY <1>4, <1>6
  <2>2. CASE u = {}
    BY <2>1, <2>2 DEF IsSum
  <2>3. CASE u # {}
    <3> DEFINE v == u \ {Pick(u)}
    <3>1. IsSum(G(v), f, v) /\ v \subseteq u /\ v # m
      BY <1>4, <1>5, <2>3
    <3>2. IsFiniteSet(u)
      BY <1>2, FS_Subset
    <3> HIDE DEF G
    <3>3. G(u)[v] = G(v)[v]
      BY <2>1, <3>1, <3>2, SumsAgree
    <3>4. G(u)[u] = f[Pick(u)] + G(u)[v]
      BY <2>1, <2>3 DEF IsSum
    <3> QED
      BY <2>3, <3>3, <3>4
  <2> QED
    BY <2>2, <2>3
<1> HIDE DEF G
<1>7. \A s \in SUBSET m : h[s] = IF s = {} THEN 0 ELSE f[Pick(s)] + h[s \ {Pick(s)}]
  <2> TAKE s \in SUBSET m
  <2>1. CASE s = {}
    BY <2>1
  <2>2. CASE s # {}
    <3>1. s \ {Pick(s)} \in SUBSET m /\ s \ {Pick(s)} # m
      BY <1>5, <2>2
    <3>2. G(s \ {Pick(s)})[s \ {Pick(s)}] = h[s \ {Pick(s)}]
      BY <1>6, <3>1
    <3> QED
      BY <2>2, <3>2
  <2> QED
    BY <2>1, <2>2
<1>8. IsSum(h, f, m)
  BY <1>7, Zenon DEF IsSum
<1> QED
  BY <1>1, <1>8

(***************************************************************************)
(* The sum of a set from the sum of all but one element.                   *)
(***************************************************************************)
LEMMA SumStep ==
    ASSUME NEW f, NEW S, IsFiniteSet(S)
    PROVE  /\ SumOver(f, {}) = 0
           /\ S # {} => /\ Pick(S) \in S
                        /\ SumOver(f, S) = f[Pick(S)] + SumOver(f, S \ {Pick(S)})
<1> DEFINE G(s) == CHOOSE g : IsSum(g, f, s)
<1>1. \A s : IsFiniteSet(s) => IsSum(G(s), f, s)
  BY SumExists
<1>2. \A s : SumOver(f, s) = G(s)[s]
  BY DEF SumOver
<1> HIDE DEF G
<1>3. SumOver(f, {}) = 0
  <2>1. IsSum(G({}), f, {})
    BY <1>1, FS_EmptySet
  <2> QED
    BY <1>2, <2>1 DEF IsSum
<1>4. ASSUME S # {}
      PROVE  Pick(S) \in S /\ SumOver(f, S) = f[Pick(S)] + SumOver(f, S \ {Pick(S)})
  <2> DEFINE T == S \ {Pick(S)}
  <2>1. Pick(S) \in S
    BY <1>4 DEF Pick
  <2>2. IsFiniteSet(T) /\ T \subseteq S /\ T \in SUBSET S
    BY FS_Subset
  <2>3. IsSum(G(S), f, S) /\ IsSum(G(T), f, T)
    BY <1>1, <2>2
  <2>4. G(S)[S] = f[Pick(S)] + G(S)[T]
    BY <1>4, <2>3 DEF IsSum
  <2> HIDE DEF T
  <2>5. G(S)[T] = G(T)[T]
    BY <2>2, <2>3, SumsAgree
  <2> QED
    BY <1>2, <2>1, <2>4, <2>5 DEF T
<1> QED
  BY <1>3, <1>4

(***************************************************************************)
(* A sum of natural numbers is a natural number.                           *)
(***************************************************************************)
LEMMA SumIsNat ==
    ASSUME NEW S, IsFiniteSet(S), NEW f, \A x \in S : f[x] \in Nat
    PROVE  SumOver(f, S) \in Nat
<1> DEFINE B == {s \in SUBSET S : SumOver(f, s) \notin Nat}
<1>1. CASE B # {}
  <2>1. PICK m \in B : \A x \in m : m \ {x} \notin B
    <3> B \subseteq SUBSET S
      OBVIOUS
    <3> HIDE DEF B
    <3> QED
      BY <1>1, Descent
  <2>2. IsFiniteSet(m)
    BY FS_Subset
  <2>3. SumOver(f, {}) = 0
    BY <2>2, SumStep
  <2>4. m # {}
    BY <2>3
  <2>5. Pick(m) \in m /\ SumOver(f, m) = f[Pick(m)] + SumOver(f, m \ {Pick(m)})
    BY <2>2, <2>4, SumStep
  <2>6. SumOver(f, m \ {Pick(m)}) \in Nat
    BY <2>1, <2>5
  <2> QED
    BY <2>5, <2>6
<1> QED
  BY <1>1

(***************************************************************************)
(* A sum depends only on the values in the set.                            *)
(***************************************************************************)
LEMMA SumSame ==
    ASSUME NEW S, IsFiniteSet(S), NEW f, NEW g, \A x \in S : f[x] = g[x]
    PROVE  SumOver(f, S) = SumOver(g, S)
<1> DEFINE B == {s \in SUBSET S : SumOver(f, s) # SumOver(g, s)}
<1>1. CASE B # {}
  <2>1. PICK m \in B : \A x \in m : m \ {x} \notin B
    <3> B \subseteq SUBSET S
      OBVIOUS
    <3> HIDE DEF B
    <3> QED
      BY <1>1, Descent
  <2>2. IsFiniteSet(m)
    BY FS_Subset
  <2>3. /\ SumOver(f, {}) = SumOver(g, {})
        /\ m # {} => /\ Pick(m) \in m
                     /\ SumOver(f, m) = f[Pick(m)] + SumOver(f, m \ {Pick(m)})
                     /\ SumOver(g, m) = g[Pick(m)] + SumOver(g, m \ {Pick(m)})
    BY <2>2, SumStep
  <2>4. m # {}
    BY <2>3
  <2>5. SumOver(f, m \ {Pick(m)}) = SumOver(g, m \ {Pick(m)})
    BY <2>1, <2>3, <2>4
  <2> QED
    BY <2>3, <2>4, <2>5
<1> QED
  BY <1>1

(***************************************************************************)
(* The order does not matter: any element can be the last one.             *)
(***************************************************************************)
LEMMA SumWithout ==
    ASSUME NEW S, IsFiniteSet(S), NEW f, \A x \in S : f[x] \in Nat, NEW x \in S
    PROVE  SumOver(f, S) = f[x] + SumOver(f, S \ {x})
<1> DEFINE Good(s) == \A y \in s : SumOver(f, s) = f[y] + SumOver(f, s \ {y})
           B == {s \in SUBSET S : ~Good(s)}
<1>1. CASE B # {}
  <2>1. PICK m \in B : \A y \in m : m \ {y} \notin B
    <3> B \subseteq SUBSET S
      OBVIOUS
    <3> HIDE DEF B
    <3> QED
      BY <1>1, Descent
  <2>2. \A s \in SUBSET S : IsFiniteSet(s) /\ SumOver(f, s) \in Nat
    BY FS_Subset, SumIsNat
  <2>3. PICK y \in m : SumOver(f, m) # f[y] + SumOver(f, m \ {y})
    OBVIOUS
  <2> DEFINE z == Pick(m)
  <2>4. z \in m /\ SumOver(f, m) = f[z] + SumOver(f, m \ {z})
    BY <2>2, <2>3, SumStep
  <2> HIDE DEF z
  <2>5. y # z
    BY <2>3, <2>4
  <2>6. SumOver(f, m \ {z}) = f[y] + SumOver(f, (m \ {z}) \ {y})
    BY <2>1, <2>3, <2>4, <2>5
  <2>7. SumOver(f, m \ {y}) = f[z] + SumOver(f, (m \ {y}) \ {z})
    BY <2>1, <2>3, <2>4, <2>5
  <2>8. (m \ {y}) \ {z} = (m \ {z}) \ {y}
    OBVIOUS
  <2>9. SumOver(f, (m \ {z}) \ {y}) \in Nat /\ f[y] \in Nat /\ f[z] \in Nat
    BY <2>2, <2>3, <2>4
  <2>10. SumOver(f, m) = f[y] + (f[z] + SumOver(f, (m \ {z}) \ {y}))
    BY <2>4, <2>6, <2>9
  <2> QED
    BY <2>3, <2>7, <2>8, <2>10
<1> QED
  BY <1>1

(***************************************************************************)
(* A part of a set has at most the sum of the set.                         *)
(***************************************************************************)
LEMMA SumOfPart ==
    ASSUME NEW S, IsFiniteSet(S), NEW f, \A x \in S : f[x] \in Nat, NEW T, T \subseteq S
    PROVE  SumOver(f, T) <= SumOver(f, S)
<1> DEFINE B == {s \in SUBSET S : T \subseteq s /\ ~(SumOver(f, T) <= SumOver(f, s))}
<1>1. CASE B # {}
  <2>1. PICK m \in B : \A x \in m : m \ {x} \notin B
    <3> B \subseteq SUBSET S
      OBVIOUS
    <3> HIDE DEF B
    <3> QED
      BY <1>1, Descent
  <2>2. \A s \in SUBSET S : IsFiniteSet(s) /\ SumOver(f, s) \in Nat
    BY FS_Subset, SumIsNat
  <2>3. m # T
    BY <2>2
  <2>4. PICK x \in m : x \notin T
    BY <2>3
  <2>5. SumOver(f, T) <= SumOver(f, m \ {x})
    BY <2>1, <2>4
  <2>6. SumOver(f, m) = f[x] + SumOver(f, m \ {x})
    BY <2>2, SumWithout
  <2>7. f[x] \in Nat /\ SumOver(f, T) \in Nat /\ SumOver(f, m \ {x}) \in Nat
    BY <2>2
  <2> QED
    BY <2>5, <2>6, <2>7
<1> QED
  BY <1>1

(***************************************************************************)
(* The sum of zeros.                                                       *)
(***************************************************************************)
LEMMA SumOfZeros ==
    ASSUME NEW S, IsFiniteSet(S), NEW f, \A x \in S : f[x] = 0
    PROVE  SumOver(f, S) = 0
<1> DEFINE B == {s \in SUBSET S : SumOver(f, s) # 0}
<1>1. CASE B # {}
  <2>1. PICK m \in B : \A x \in m : m \ {x} \notin B
    <3> B \subseteq SUBSET S
      OBVIOUS
    <3> HIDE DEF B
    <3> QED
      BY <1>1, Descent
  <2>2. IsFiniteSet(m)
    BY FS_Subset
  <2>3. m # {} /\ Pick(m) \in m /\ SumOver(f, m) = f[Pick(m)] + SumOver(f, m \ {Pick(m)})
    BY <2>2, SumStep
  <2>4. SumOver(f, m \ {Pick(m)}) = 0
    BY <2>1, <2>3
  <2> QED
    BY <2>3, <2>4
<1> QED
  BY <1>1

(***************************************************************************)
(* One value changes.                                                      *)
(***************************************************************************)
LEMMA SumChange ==
    ASSUME NEW S, IsFiniteSet(S), NEW x \in S,
           NEW f, \A y \in S : f[y] \in Nat,
           NEW g, \A y \in S : g[y] \in Nat,
           \A y \in S \ {x} : g[y] = f[y]
    PROVE  SumOver(g, S) = (SumOver(f, S) - f[x]) + g[x]
<1>1. IsFiniteSet(S \ {x})
  BY FS_Subset
<1>2. SumOver(g, S \ {x}) = SumOver(f, S \ {x})
  BY <1>1, SumSame
<1>3. SumOver(g, S) = g[x] + SumOver(g, S \ {x})
  BY SumWithout
<1>4. SumOver(f, S) = f[x] + SumOver(f, S \ {x})
  BY SumWithout
<1>5. SumOver(f, S \ {x}) \in Nat
  BY <1>1, SumIsNat
<1> QED
  BY <1>2, <1>3, <1>4, <1>5

(***************************************************************************)
(* The set gets one more element.                                          *)
(***************************************************************************)
LEMMA SumWith ==
    ASSUME NEW S, IsFiniteSet(S), NEW x, x \notin S,
           NEW f, \A y \in S \cup {x} : f[y] \in Nat
    PROVE  SumOver(f, S \cup {x}) = f[x] + SumOver(f, S)
<1>1. IsFiniteSet(S \cup {x})
  BY FS_AddElement
<1>2. (S \cup {x}) \ {x} = S
  OBVIOUS
<1> QED
  BY <1>1, <1>2, SumWithout

(***************************************************************************)
(* Two parts that have no element in common.                               *)
(***************************************************************************)
LEMMA SumOfParts ==
    ASSUME NEW S, IsFiniteSet(S), NEW T, IsFiniteSet(T), S \cap T = {},
           NEW f, \A x \in S \cup T : f[x] \in Nat
    PROVE  SumOver(f, S \cup T) = SumOver(f, S) + SumOver(f, T)
<1> DEFINE B == {t \in SUBSET T : SumOver(f, S \cup t) # SumOver(f, S) + SumOver(f, t)}
<1>1. CASE B # {}
  <2>1. PICK m \in B : \A x \in m : m \ {x} \notin B
    <3> B \subseteq SUBSET T
      OBVIOUS
    <3> HIDE DEF B
    <3> QED
      BY <1>1, Descent
  <2>2. m \in SUBSET T /\ SumOver(f, S \cup m) # SumOver(f, S) + SumOver(f, m)
    OBVIOUS
  <2>3. IsFiniteSet(m) /\ SumOver(f, S) \in Nat
    BY <2>2, FS_Subset, SumIsNat
  <2>4. m # {}
    <3>1. SumOver(f, {}) = 0
      BY <2>3, SumStep
    <3>2. SumOver(f, S) = SumOver(f, S) + SumOver(f, {})
      BY <2>3, <3>1
    <3>3. S \cup {} = S
      OBVIOUS
    <3> SUFFICES ASSUME m = {} PROVE FALSE
      OBVIOUS
    <3>4. SumOver(f, S \cup {}) # SumOver(f, S) + SumOver(f, {})
      BY <2>2
    <3> QED
      BY <3>2, <3>3, <3>4
  <2>5. PICK x \in m : TRUE
    BY <2>4
  <2> DEFINE k == m \ {x}
  <2>6. SumOver(f, S \cup k) = SumOver(f, S) + SumOver(f, k)
    BY <2>1, <2>2, <2>5
  <2>7. /\ IsFiniteSet(S \cup m) /\ x \in S \cup m
        /\ \A y \in S \cup m : f[y] \in Nat
        /\ (S \cup m) \ {x} = S \cup k
        /\ f[x] \in Nat
    BY <2>2, <2>3, <2>5, FS_Union
  <2>8. IsFiniteSet(k) /\ \A y \in k : f[y] \in Nat
    BY <2>2, <2>3, FS_Subset
  <2> HIDE DEF B, k
  <2>9. SumOver(f, S \cup m) = f[x] + SumOver(f, S \cup k)
    BY <2>7, SumWithout
  <2>10. SumOver(f, m) = f[x] + SumOver(f, k)
    BY <2>2, <2>3, <2>5, SumWithout DEF k
  <2>11. SumOver(f, k) \in Nat
    BY <2>8, SumIsNat
  <2> QED
    BY <2>2, <2>3, <2>6, <2>7, <2>9, <2>10, <2>11
<1>2. CASE B = {}
  BY <1>2
<1> QED
  BY <1>1, <1>2

(***************************************************************************)
(* Larger values have a larger sum.                                        *)
(***************************************************************************)
LEMMA SumGrows ==
    ASSUME NEW S, IsFiniteSet(S),
           NEW f, \A x \in S : f[x] \in Nat,
           NEW g, \A x \in S : g[x] \in Nat,
           \A x \in S : f[x] <= g[x]
    PROVE  SumOver(f, S) <= SumOver(g, S)
<1> DEFINE B == {s \in SUBSET S : ~(SumOver(f, s) <= SumOver(g, s))}
<1>1. CASE B # {}
  <2>1. PICK m \in B : \A x \in m : m \ {x} \notin B
    <3> B \subseteq SUBSET S
      OBVIOUS
    <3> HIDE DEF B
    <3> QED
      BY <1>1, Descent
  <2>2. m \in SUBSET S /\ ~(SumOver(f, m) <= SumOver(g, m))
    OBVIOUS
  <2>3. IsFiniteSet(m)
    BY <2>2, FS_Subset
  <2>4. SumOver(f, {}) = 0 /\ SumOver(g, {}) = 0
    BY <2>3, SumStep
  <2>5. m # {}
    BY <2>2, <2>4
  <2>6. PICK x \in m : TRUE
    BY <2>5
  <2>7. SumOver(f, m \ {x}) <= SumOver(g, m \ {x})
    BY <2>1, <2>2, <2>6
  <2>8. IsFiniteSet(m \ {x}) /\ f[x] \in Nat /\ g[x] \in Nat /\ f[x] <= g[x]
    BY <2>2, <2>3, FS_Subset
  <2> HIDE DEF B
  <2>9. SumOver(f, m) = f[x] + SumOver(f, m \ {x})
    BY <2>2, <2>3, SumWithout
  <2>10. SumOver(g, m) = g[x] + SumOver(g, m \ {x})
    BY <2>2, <2>3, SumWithout
  <2>11. SumOver(f, m \ {x}) \in Nat /\ SumOver(g, m \ {x}) \in Nat
    BY <2>2, <2>8, SumIsNat
  <2> QED
    BY <2>2, <2>7, <2>8, <2>9, <2>10, <2>11
<1> QED
  BY <1>1

(***************************************************************************)
(* A set of numbers that is not empty has a smallest one. This is the      *)
(* induction over the numbers of these proofs: look at the smallest        *)
(* counterexample.                                                         *)
(***************************************************************************)
LEMMA SmallestNat ==
    ASSUME NEW B, B \subseteq Nat, B # {}
    PROVE  \E m \in B : \A n \in B : m <= n
<1> PICK z \in B : TRUE
  OBVIOUS
<1> DEFINE R == StrictSubsetOrdering(0..z)
           C == {0..n : n \in {x \in B : x <= z}}
<1>1. IsWellFoundedOn(R, FiniteSubsetsOf(0..z))
  BY FS_StrictSubsetOrderingWellFounded
<1>2. C \subseteq FiniteSubsetsOf(0..z) /\ C # {}
  <2>1. \A n \in Nat : IsFiniteSet(0..n)
    BY FS_Interval
  <2> QED
    BY <2>1 DEF FiniteSubsetsOf
<1> HIDE DEF R, C
<1>3. PICK s \in C : \A y \in C : <<y, s>> \notin R
  BY <1>1, <1>2, WFMin
<1>4. PICK m \in B : s = 0..m /\ m <= z
  BY DEF C
<1>5. ASSUME NEW n \in B, n < m PROVE FALSE
  <2>1. 0..n \in C
    BY <1>4, <1>5 DEF C
  <2>2. <<0..n, s>> \in R
    BY <1>4, <1>5 DEF R, StrictSubsetOrdering
  <2> QED
    BY <1>3, <2>1, <2>2
<1> QED
  BY <1>5

(***************************************************************************)
(* The sum of sums.                                                        *)
(***************************************************************************)
LEMMA SumPlus ==
    ASSUME NEW S, IsFiniteSet(S), NEW f, NEW g, NEW h,
           \A x \in S : f[x] \in Nat /\ g[x] \in Nat /\ h[x] = f[x] + g[x]
    PROVE  SumOver(h, S) = SumOver(f, S) + SumOver(g, S)
<1> DEFINE B == {s \in SUBSET S : SumOver(h, s) # SumOver(f, s) + SumOver(g, s)}
<1>1. CASE B # {}
  <2>1. PICK m \in B : \A x \in m : m \ {x} \notin B
    <3> B \subseteq SUBSET S
      OBVIOUS
    <3> HIDE DEF B
    <3> QED
      BY <1>1, Descent
  <2>2. IsFiniteSet(m) /\ m \subseteq S
    BY FS_Subset
  <2>3. /\ SumOver(f, {}) = 0 /\ SumOver(g, {}) = 0 /\ SumOver(h, {}) = 0
        /\ m # {} => /\ Pick(m) \in m
                     /\ SumOver(f, m) = f[Pick(m)] + SumOver(f, m \ {Pick(m)})
                     /\ SumOver(g, m) = g[Pick(m)] + SumOver(g, m \ {Pick(m)})
                     /\ SumOver(h, m) = h[Pick(m)] + SumOver(h, m \ {Pick(m)})
    BY <2>2, SumStep
  <2>4. m # {}
    <3> SUFFICES ASSUME m = {} PROVE FALSE
      OBVIOUS
    <3>1. SumOver(h, {}) # SumOver(f, {}) + SumOver(g, {})
      OBVIOUS
    <3> HIDE DEF B
    <3> QED
      BY <2>3, <3>1
  <2> DEFINE k == m \ {Pick(m)}
  <2>5. SumOver(h, k) = SumOver(f, k) + SumOver(g, k)
    BY <2>1, <2>2, <2>3, <2>4
  <2>6. SumOver(f, k) \in Nat /\ SumOver(g, k) \in Nat
    <3>1. IsFiniteSet(k) /\ \A x \in k : f[x] \in Nat /\ g[x] \in Nat
      BY <2>2, FS_Subset
    <3> HIDE DEF k
    <3> QED
      BY <3>1, SumIsNat
  <2>7. f[Pick(m)] \in Nat /\ g[Pick(m)] \in Nat /\ h[Pick(m)] = f[Pick(m)] + g[Pick(m)]
    BY <2>2, <2>3, <2>4
  <2>8. SumOver(h, m) # SumOver(f, m) + SumOver(g, m)
    OBVIOUS
  <2> HIDE DEF k, B
  <2> QED
    BY <2>3, <2>4, <2>5, <2>6, <2>7, <2>8 DEF k
<1> QED
  BY <1>1

\* F is a running total of f on lo .. hi.
Telescopes(f, F, lo, hi) ==
    /\ F[lo - 1] \in Int
    /\ \A x \in lo .. hi :
          F[x] \in Int /\ F[x - 1] \in Int /\ f[x] \in Nat /\ F[x] = F[x - 1] + f[x]

(***************************************************************************)
(* A running total F is the sum of its steps f.                            *)
(***************************************************************************)
LEMMA Telescope ==
    ASSUME NEW lo \in Nat \ {0}, NEW hi \in Nat, lo <= hi + 1, NEW f, NEW F,
           Telescopes(f, F, lo, hi)
    PROVE  SumOver(f, lo .. hi) = F[hi] - F[lo - 1]
<1>0. /\ F[lo - 1] \in Int
      /\ \A x \in lo .. hi :
            F[x] \in Int /\ F[x - 1] \in Int /\ f[x] \in Nat /\ F[x] = F[x - 1] + f[x]
  BY DEF Telescopes
<1> DEFINE B == {h \in lo - 1 .. hi : SumOver(f, lo .. h) # F[h] - F[lo - 1]}
<1> SUFFICES ASSUME B # {} PROVE FALSE
  BY DEF B
<1>1. PICK h \in B : \A y \in B : h <= y
  <2> B \subseteq Nat
    OBVIOUS
  <2> HIDE DEF B
  <2> QED
    BY SmallestNat
<1>2. h \in lo - 1 .. hi /\ SumOver(f, lo .. h) # F[h] - F[lo - 1]
  OBVIOUS
<1>3. h # lo - 1
  <2>1. lo .. lo - 1 = {}
    OBVIOUS
  <2>2. SumOver(f, {}) = 0
    BY SumStep, FS_EmptySet
  <2>3. F[lo - 1] \in Int
    BY <1>0
  <2> QED
    BY <1>2, <2>1, <2>2, <2>3
<1>4. h - 1 \in lo - 1 .. hi /\ h - 1 \notin B /\ h \in lo .. hi
  <2>1. h - 1 \in lo - 1 .. hi /\ h \in lo .. hi
    BY <1>2, <1>3
  <2> HIDE DEF B
  <2> QED
    BY <1>1, <2>1
<1>5. SumOver(f, lo .. h - 1) = F[h - 1] - F[lo - 1]
  BY <1>4
<1>6. SumOver(f, (lo .. h - 1) \cup {h}) = f[h] + SumOver(f, lo .. h - 1)
  <2>1. IsFiniteSet(lo .. h - 1) /\ h \notin lo .. h - 1
    BY <1>2, FS_Interval
  <2>2. \A y \in (lo .. h - 1) \cup {h} : f[y] \in Nat
    BY <1>0, <1>2, <1>4
  <2> QED
    BY <2>1, <2>2, SumWith
<1>7. (lo .. h - 1) \cup {h} = lo .. h
  BY <1>4
<1>8. F[h] = F[h - 1] + f[h] /\ F[h - 1] \in Int /\ F[lo - 1] \in Int /\ f[h] \in Nat
  BY <1>0, <1>4
<1>9. SumOver(f, lo .. h) = f[h] + (F[h - 1] - F[lo - 1])
  BY <1>5, <1>6, <1>7
<1>10. f[h] + (F[h - 1] - F[lo - 1]) = (F[h - 1] + f[h]) - F[lo - 1]
  BY <1>8
<1> HIDE DEF B
<1> QED
  BY <1>2, <1>8, <1>9, <1>10, Zenon

=============================================================================
