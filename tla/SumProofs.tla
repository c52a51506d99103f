------------------------------ MODULE SumProofs ------------------------------
(***************************************************************************)
(* Sums over finite sets as FiniteSetsExt folds them, for the proofs about *)
(* totals and counts.  The fold chooses one element after the other; what  *)
(* holds whatever it chooses is shown for the smallest set for which it    *)
(* would not hold, since induction theorems are out of the provers' reach. *)
(***************************************************************************)
EXTENDS Naturals, FiniteSets, FiniteSetsExt, FiniteSetTheorems, TLAPS

\* A set of numbers has a least one.
LEMMA LeastNumber ==
  ASSUME NEW T, T \subseteq Nat, T # {}
  PROVE  \E n \in T : \A k \in T : n <= k
<1> DEFINE Below(n) == {k \in T : k < n}
           Family == {Below(n) : n \in T}
<1>1. Family \subseteq FiniteSubsetsOf(T)
  <2>1. ASSUME NEW n \in T PROVE IsFiniteSet(Below(n))
    <3>1. n \in Nat /\ Below(n) \in SUBSET Nat
      OBVIOUS
    <3>2. \A k \in Below(n) : k <= n
      BY <3>1
    <3> HIDE DEF Below
    <3>3. QED
      BY <3>1, <3>2, FS_BoundedSetOfNaturals
  <2>2. \A n \in T : Below(n) \in SUBSET T
    OBVIOUS
  <2> HIDE DEF Below
  <2>3. QED
    BY <2>1, <2>2 DEF FiniteSubsetsOf
<1>2. PICK A \in Family : \A B \in Family : <<B, A>> \notin StrictSubsetOrdering(T)
  <2>1. Family # {} /\ IsWellFoundedOn(StrictSubsetOrdering(T), FiniteSubsetsOf(T))
    BY FS_StrictSubsetOrderingWellFounded
  <2> HIDE DEF Family
  <2>2. QED
    BY <1>1, <2>1, WFMin
<1>3. PICK n \in T : A = Below(n)
  OBVIOUS
<1>4. ASSUME NEW k \in T, k < n PROVE FALSE
  <2>1. Below(k) \subseteq Below(n) /\ k \in Below(n) /\ k \notin Below(k)
    <3>1. k \in Nat /\ n \in Nat /\ \A j \in T : j \in Nat /\ (j < k => j < n) /\ ~(k < k)
      BY <1>4
    <3>2. QED
      BY <1>4, <3>1
  <2>2. Below(k) \in Family
    OBVIOUS
  <2>3. <<Below(k), Below(n)>> \in StrictSubsetOrdering(T)
    BY <2>1 DEF StrictSubsetOrdering
  <2>4. QED
    BY <1>2, <1>3, <2>2, <2>3
<1>5. QED
  BY <1>4

\* The fold of a finite set, as FiniteSetsExt defines it, one element at a time.
Level(S, n) == {s \in SUBSET S : Cardinality(s) <= n}
Chosen(s) == CHOOSE x \in s : TRUE
Adds(g, f, s) == g[s] = IF s = {} THEN 0 ELSE f[Chosen(s)] + g[s \ {Chosen(s)}]

LEMMA Removal ==
  ASSUME NEW S, IsFiniteSet(S), NEW s \in SUBSET S, s # {}
  PROVE  /\ Chosen(s) \in s /\ s \ {Chosen(s)} \in SUBSET S
         /\ Cardinality(s) \in Nat /\ Cardinality(s \ {Chosen(s)}) = Cardinality(s) - 1
         /\ Cardinality(s \ {Chosen(s)}) \in Nat
<1>1. IsFiniteSet(s) /\ Chosen(s) \in s
  BY FS_Subset DEF Chosen
<1>2. QED
  BY <1>1, FS_RemoveElement, FS_CardinalityType

LEMMA LevelsAdd ==
  ASSUME NEW S, IsFiniteSet(S), NEW f \in [S -> Nat]
  PROVE  \A n \in Nat : \E g \in [Level(S, n) -> Nat] : \A s \in Level(S, n) : Adds(g, f, s)
<1> DEFINE Good(n) == \E g \in [Level(S, n) -> Nat] : \A s \in Level(S, n) : Adds(g, f, s)
           Bad == {n \in Nat : ~Good(n)}
<1>1. SUFFICES ASSUME Bad # {} PROVE FALSE
  OBVIOUS
<1>2. PICK n \in Bad : \A k \in Bad : n <= k
  <2>1. Bad \subseteq Nat
    OBVIOUS
  <2> HIDE DEF Bad
  <2>2. QED
    BY <1>1, <2>1, LeastNumber
<1>3. n # 0
  <2>1. \A s \in Level(S, 0) : s = {}
    <3>1. TAKE s \in Level(S, 0)
    <3>2. IsFiniteSet(s) /\ Cardinality(s) <= 0
      BY FS_Subset DEF Level
    <3>3. QED
      BY <3>2, FS_CardinalityType, FS_EmptySet
  <2>2. Good(0)
    <3>1. [s \in Level(S, 0) |-> 0] \in [Level(S, 0) -> Nat]
      OBVIOUS
    <3>2. QED
      BY <2>1, <3>1 DEF Adds
  <2>3. QED
    BY <2>2
<1>4. n - 1 \in Nat /\ Good(n - 1)
  <2>1. n \in Nat /\ n - 1 \in Nat /\ ~(n <= n - 1)
    BY <1>3
  <2>2. n - 1 \notin Bad
    BY <1>2, <2>1
  <2>3. QED
    BY <2>1, <2>2
<1>5. PICK g \in [Level(S, n - 1) -> Nat] : \A s \in Level(S, n - 1) : Adds(g, f, s)
  BY <1>4
<1> DEFINE h == [s \in Level(S, n) |-> IF s = {} THEN 0 ELSE f[Chosen(s)] + g[s \ {Chosen(s)}]]
<1>6. \A s \in Level(S, n) : s # {} => /\ s \ {Chosen(s)} \in Level(S, n - 1)
                                       /\ s \ {Chosen(s)} \in Level(S, n)
                                       /\ Chosen(s) \in S
  <2>1. SUFFICES ASSUME NEW s \in Level(S, n), s # {}
                 PROVE  /\ s \ {Chosen(s)} \in Level(S, n - 1)
                        /\ s \ {Chosen(s)} \in Level(S, n) /\ Chosen(s) \in S
    OBVIOUS
  <2>2. s \in SUBSET S /\ Cardinality(s) <= n /\ n \in Nat
    BY DEF Level
  <2> DEFINE c == Cardinality(s)
             d == Cardinality(s \ {Chosen(s)})
  <2>3. d = c - 1 /\ c \in Nat /\ d \in Nat /\ s \ {Chosen(s)} \in SUBSET S /\ Chosen(s) \in S
    BY <2>1, <2>2, Removal
  <2>4. c <= n
    BY <2>2
  <2> HIDE DEF c, d
  <2>5. d <= n - 1 /\ d <= n
    BY <2>2, <2>3, <2>4
  <2> USE DEF d
  <2>6. QED
    BY <2>3, <2>5 DEF Level
<1>7. h \in [Level(S, n) -> Nat]
  BY <1>6
<1>8. \A s \in Level(S, n - 1) : s \in Level(S, n) /\ h[s] = g[s]
  <2>1. TAKE s \in Level(S, n - 1)
  <2>2. s \in Level(S, n)
    <3>1. IsFiniteSet(s) /\ Cardinality(s) <= n - 1 /\ n \in Nat
      BY FS_Subset DEF Level
    <3>2. Cardinality(s) \in Nat
      BY <3>1, FS_CardinalityType
    <3>3. QED
      BY <3>1, <3>2 DEF Level
  <2>3. QED
    BY <1>5, <2>2 DEF Adds
<1>9. \A s \in Level(S, n) : Adds(h, f, s)
  BY <1>6, <1>8 DEF Adds
<1>10. Good(n)
  BY <1>7, <1>9
<1>11. QED
  BY <1>10

LEMMA FoldExists ==
  ASSUME NEW S, IsFiniteSet(S), NEW f \in [S -> Nat]
  PROVE  \E g \in [SUBSET S -> Nat] : \A s \in SUBSET S : Adds(g, f, s)
<1>1. Cardinality(S) \in Nat
  BY FS_CardinalityType
<1>2. Level(S, Cardinality(S)) = SUBSET S
  BY FS_Subset DEF Level
<1>3. QED
  BY <1>1, <1>2, LevelsAdd

\* Whatever function adds up the points of every subset, it adds up numbers.
LEMMA FoldType ==
  ASSUME NEW S, IsFiniteSet(S), NEW f \in [S -> Nat], NEW g,
         \A s \in SUBSET S : Adds(g, f, s)
  PROVE  \A s \in SUBSET S : g[s] \in Nat
<1> DEFINE Bad == {n \in Nat : \E s \in SUBSET S : Cardinality(s) = n /\ g[s] \notin Nat}
<1>1. SUFFICES ASSUME NEW t \in SUBSET S, g[t] \notin Nat PROVE FALSE
  OBVIOUS
<1>2. Cardinality(t) \in Bad
  <2>1. IsFiniteSet(t)
    BY FS_Subset
  <2>2. QED
    BY <1>1, <2>1, FS_CardinalityType
<1>3. PICK n \in Bad : \A k \in Bad : n <= k
  <2>1. Bad \subseteq Nat /\ Bad # {}
    BY <1>2
  <2> HIDE DEF Bad
  <2>2. QED
    BY <2>1, LeastNumber
<1>4. PICK s \in SUBSET S : Cardinality(s) = n /\ g[s] \notin Nat
  BY <1>3
<1>5. s # {}
  BY <1>4 DEF Adds
<1>6. /\ Chosen(s) \in S /\ s \ {Chosen(s)} \in SUBSET S
      /\ Cardinality(s \ {Chosen(s)}) = n - 1 /\ n - 1 \in Nat /\ n \in Nat
  BY <1>4, <1>5, Removal
<1>7. g[s] = f[Chosen(s)] + g[s \ {Chosen(s)}] /\ f[Chosen(s)] \in Nat
  BY <1>5, <1>6 DEF Adds
<1>8. g[s \ {Chosen(s)}] \notin Nat
  BY <1>4, <1>7
<1>9. n - 1 \in Bad
  BY <1>6, <1>8
<1>10. QED
  BY <1>3, <1>6, <1>9

LEMMA TwoParts ==
  ASSUME NEW A, NEW B, IsFiniteSet(A \cup B), A \cap B = {}
  PROVE  /\ IsFiniteSet(A) /\ IsFiniteSet(B)
         /\ Cardinality(A) \in Nat /\ Cardinality(B) \in Nat
         /\ Cardinality(A \cup B) = Cardinality(A) + Cardinality(B)
         /\ Cardinality(A \cup B) - Cardinality(A) = Cardinality(B)
<1>1. IsFiniteSet(A) /\ IsFiniteSet(B)
  BY FS_Subset
<1>2. PICK m \in Nat : m = Cardinality(A)
  BY <1>1, FS_CardinalityType
<1>3. PICK k \in Nat : k = Cardinality(B)
  BY <1>1, FS_CardinalityType
<1>4. Cardinality(A \cup B) = m + k - Cardinality(A \cap B)
  BY <1>1, <1>2, <1>3, FS_Union
<1>5. Cardinality(A \cap B) = 0
  BY FS_EmptySet
<1>6. Cardinality(A \cup B) = m + k
  BY <1>4, <1>5
<1>7. m + k - m = k
  OBVIOUS
<1> QED BY <1>1, <1>2, <1>3, <1>6, <1>7

HowMany(R, key, k) == Cardinality({r \in R : key[r] = k})
Among(R, key, S) == Cardinality({r \in R : key[r] \in S})

\* What a key maps to the elements of s, s in S, are together those of S.
LEMMA SumOfParts ==
  ASSUME NEW R, IsFiniteSet(R), NEW key, NEW S, IsFiniteSet(S), NEW f, NEW g,
         \A k \in S : f[k] = HowMany(R, key, k),
         \A s \in SUBSET S : Adds(g, f, s)
  PROVE  g[S] = Among(R, key, S)
<1> DEFINE Part(s) == {r \in R : key[r] \in s}
           Bad == {n \in Nat : \E s \in SUBSET S : Cardinality(s) = n /\ g[s] # Cardinality(Part(s))}
<1>1. \A s : IsFiniteSet(Part(s)) /\ Cardinality(Part(s)) \in Nat
  <2>1. \A s : Part(s) \in SUBSET R
    OBVIOUS
  <2> HIDE DEF Part
  <2> QED BY <2>1, FS_Subset, FS_CardinalityType
<1>2. SUFFICES ASSUME g[S] # Cardinality(Part(S)) PROVE FALSE
  BY DEF Among
<1>3. PICK n \in Bad : \A k \in Bad : n <= k
  <2>1. Bad \subseteq Nat
    OBVIOUS
  <2>2. Cardinality(S) \in Bad
    BY <1>2, FS_CardinalityType
  <2> HIDE DEF Bad
  <2> QED BY <2>1, <2>2, LeastNumber
<1>4. PICK s \in SUBSET S : Cardinality(s) = n /\ g[s] # Cardinality(Part(s))
  BY <1>3
<1>5. s # {}
  <2>1. Part({}) = {}
    OBVIOUS
  <2>2. Cardinality(Part({})) = 0
    BY <2>1, FS_EmptySet
  <2> HIDE DEF Part
  <2> QED BY <1>4, <2>2 DEF Adds
<1> DEFINE x == Chosen(s)
           rest == s \ {x}
<1>6. /\ x \in s /\ x \in S /\ rest \in SUBSET S /\ Cardinality(rest) = n - 1 /\ n - 1 \in Nat /\ n \in Nat
  <2>1. /\ Chosen(s) \in s /\ s \ {Chosen(s)} \in SUBSET S /\ Cardinality(s) \in Nat
        /\ Cardinality(s \ {Chosen(s)}) = Cardinality(s) - 1 /\ Cardinality(s \ {Chosen(s)}) \in Nat
    BY <1>5, Removal
  <2> HIDE DEF x
  <2> QED BY <1>4, <2>1 DEF x
<1>7. g[s] = Cardinality({r \in R : key[r] = x}) + g[rest]
  BY <1>4, <1>5, <1>6 DEF Adds, HowMany
<1>8. g[rest] = Cardinality(Part(rest))
  <2>1. n - 1 \notin Bad
    BY <1>3, <1>6
  <2> QED BY <1>6, <2>1
<1>9. Cardinality(Part(s)) = Cardinality(Part({x})) + Cardinality(Part(rest))
  <2>1. Part(s) = Part({x}) \cup Part(rest) /\ Part({x}) \cap Part(rest) = {}
    <3> HIDE DEF x
    <3> QED BY <1>6
  <2> HIDE DEF Part, x, rest
  <2>2. IsFiniteSet(Part(s))
    BY <1>1
  <2>3. IsFiniteSet(Part({x}) \cup Part(rest))
    BY <2>1, <2>2
  <2>4. Cardinality(Part({x}) \cup Part(rest)) = Cardinality(Part({x})) + Cardinality(Part(rest))
    BY <2>1, <2>3, TwoParts
  <2> QED BY <2>1, <2>4
<1>10. Part({x}) = {r \in R : key[r] = x}
  <2> HIDE DEF x
  <2> QED OBVIOUS
<1> HIDE DEF Part, x, rest
<1> QED BY <1>4, <1>7, <1>8, <1>9, <1>10

\* A sum over no element, one and two.
LEMMA NoneSum ==
  ASSUME NEW S, NEW f, NEW g, \A s \in SUBSET S : Adds(g, f, s) PROVE g[{}] = 0
BY DEF Adds

AddsOne(g, f, a) == g[{a}] = f[a]

LEMMA OneSum ==
  ASSUME NEW S, NEW f \in [S -> Nat], NEW g, \A s \in SUBSET S : Adds(g, f, s), NEW a \in S
  PROVE  AddsOne(g, f, a)
<1>1. Chosen({a}) = a /\ {a} \ {a} = {} /\ {a} # {} /\ g[{}] = 0
  BY NoneSum DEF Chosen
<1>2. g[{a}] = f[a] + 0 /\ f[a] \in Nat
  BY <1>1 DEF Adds
<1> QED BY <1>2 DEF AddsOne

LEMMA TwoSum ==
  ASSUME NEW S, NEW f \in [S -> Nat], NEW g, \A s \in SUBSET S : Adds(g, f, s),
         NEW a \in S, NEW b \in S, a # b
  PROVE  g[{a, b}] = f[a] + f[b]
<1>1. g[{a, b}] = f[Chosen({a, b})] + g[{a, b} \ {Chosen({a, b})}] /\ {a, b} \in SUBSET S
  BY DEF Adds
<1>2. Chosen({a, b}) = a \/ Chosen({a, b}) = b
  BY DEF Chosen
<1>3. {a, b} \ {a} = {b} /\ {a, b} \ {b} = {a} /\ g[{a}] = f[a] /\ g[{b}] = f[b]
  <2>1. AddsOne(g, f, a) /\ AddsOne(g, f, b)
    BY OneSum
  <2> QED BY <2>1 DEF AddsOne
<1>4. PICK m \in Nat, k \in Nat : m = f[a] /\ k = f[b]
  OBVIOUS
<1>5. CASE Chosen({a, b}) = a
  <2>1. {a, b} \ {Chosen({a, b})} = {b}
    BY <1>3, <1>5
  <2>2. g[{a, b}] = m + k
    BY <1>1, <1>3, <1>4, <1>5, <2>1
  <2> QED BY <1>4, <2>2
<1>6. CASE Chosen({a, b}) = b
  <2>1. {a, b} \ {Chosen({a, b})} = {a}
    BY <1>3, <1>6
  <2>2. g[{a, b}] = k + m
    BY <1>1, <1>3, <1>4, <1>6, <2>1
  <2> QED BY <1>4, <2>2
<1> QED BY <1>2, <1>5, <1>6

\* The elements by which of four keys they have.
LEMMA FourParts ==
  ASSUME NEW R, IsFiniteSet(R), NEW key, NEW a, NEW b, NEW c, NEW d,
         \A r \in R : key[r] \in {a, b, c, d},
         a # b, a # c, a # d, b # c, b # d, c # d
  PROVE  /\ HowMany(R, key, a) \in Nat /\ HowMany(R, key, b) \in Nat
         /\ HowMany(R, key, c) \in Nat /\ HowMany(R, key, d) \in Nat
         /\ Cardinality(R) = HowMany(R, key, a) + HowMany(R, key, b) + HowMany(R, key, c)
                             + HowMany(R, key, d)
<1> DEFINE Part(k) == {r \in R : key[r] = k}
           CD == Part(c) \cup Part(d)
           BCD == Part(b) \cup CD
<1>1. /\ R = Part(a) \cup BCD /\ Part(a) \cap BCD = {} /\ Part(b) \cap CD = {}
      /\ Part(c) \cap Part(d) = {}
  OBVIOUS
<1> HIDE DEF Part
<1>2. /\ IsFiniteSet(BCD) /\ Cardinality(Part(a)) \in Nat /\ Cardinality(BCD) \in Nat
      /\ Cardinality(R) = Cardinality(Part(a)) + Cardinality(BCD)
  <2> HIDE DEF BCD
  <2> QED BY <1>1, TwoParts
<1>3. /\ IsFiniteSet(CD) /\ Cardinality(Part(b)) \in Nat /\ Cardinality(CD) \in Nat
      /\ Cardinality(BCD) = Cardinality(Part(b)) + Cardinality(CD)
  <2> HIDE DEF CD
  <2> QED BY <1>1, <1>2, TwoParts
<1>4. /\ Cardinality(Part(c)) \in Nat /\ Cardinality(Part(d)) \in Nat
      /\ Cardinality(CD) = Cardinality(Part(c)) + Cardinality(Part(d))
  BY <1>1, <1>3, TwoParts
<1>5. Cardinality(R) = Cardinality(Part(a)) + Cardinality(Part(b)) + Cardinality(Part(c))
                       + Cardinality(Part(d))
  <2> HIDE DEF BCD, CD
  <2> QED BY <1>2, <1>3, <1>4
<1> QED BY <1>2, <1>3, <1>4, <1>5 DEF Part, HowMany

=============================================================================
