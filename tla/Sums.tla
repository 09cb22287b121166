-------------------------------- MODULE Sums --------------------------------
(***************************************************************************)
(* Facts about the sums of FiniteSetsExt and Functions over finite sets,   *)
(* for the proofs about models that add things up.  The library's folds    *)
(* are recursive functions over the subsets of a set; the lemmas show that *)
(* these functions exist, by induction on the size of the subset.          *)
(***************************************************************************)
EXTENDS FiniteSetsExt, NaturalsInduction, FiniteSetTheorems, TLAPS

\* A nonempty set of natural numbers has a least element: induction without a
\* predicate as a parameter.
LEMMA LeastElement ==
    ASSUME NEW T \in SUBSET Nat, T # {}
    PROVE  \E x \in T : \A y \in T : x <= y
  <1>1. \A x, y \in Nat : <<y, x>> \in OpToRel(<, Nat) <=> y < x
    BY DEF OpToRel
  <1>2. \E R : /\ IsWellFoundedOn(R, Nat)
               /\ \A x, y \in Nat : <<y, x>> \in R <=> y < x
    BY <1>1, NatLessThanWellFounded, Zenon
  <1>3. PICK R : /\ IsWellFoundedOn(R, Nat)
                 /\ \A x, y \in Nat : <<y, x>> \in R <=> y < x
    BY <1>2
  <1>4. PICK x \in T : \A y \in T : ~ (<<y, x>> \in R)
    BY <1>3, WFMin
  <1>5. \A y \in T : y \in Nat /\ x \in Nat /\ ~ (y < x)
    BY <1>3, <1>4
  <1> QED BY <1>5

\* Of the finite sets that fail at something, one has nothing smaller to fail:
\* whatever holds of a set when it holds of the set without any one element
\* holds of every set.
LEMMA SmallestSet ==
    ASSUME NEW S, IsFiniteSet(S), NEW F \in SUBSET SUBSET S, F # {}
    PROVE  \E A \in F : \A x \in A : A \ {x} \notin F
  <1> DEFINE N == {Cardinality(A) : A \in F}
  <1>1. \A A \in SUBSET S : IsFiniteSet(A) /\ Cardinality(A) \in Nat
    BY FS_Subset, FS_CardinalityType
  <1>2. N \in SUBSET Nat /\ N # {}
    BY <1>1
  <1>3. PICK n \in N : \A m \in N : n <= m
    BY <1>2, LeastElement
  <1>4. PICK A \in F : Cardinality(A) = n
    BY <1>3
  <1>5. ASSUME NEW x \in A, A \ {x} \in F PROVE FALSE
    <2>1. Cardinality(A \ {x}) = Cardinality(A) - 1
      BY <1>1, FS_RemoveElement
    <2>2. Cardinality(A) <= Cardinality(A \ {x})
      BY <1>3, <1>4, <1>5
    <2> QED BY <1>1, <2>1, <2>2
  <1> QED BY <1>4, <1>5

-----------------------------------------------------------------------------
\* The sum of the values of f over S.
SumOver(f, S) == MapThenSumSet(LAMBDA x : f[x], S)

\* The element a sum takes first, the others, and the function that adds up the
\* subsets of S.
Summand(s) == CHOOSE x \in s : TRUE
Others(s) == s \ {Summand(s)}
AddsUp(g, f, S) ==
    g = [s \in SUBSET S |-> IF s = {} THEN 0 ELSE f[Summand(s)] + g[Others(s)]]

LEMMA SumIsChosen ==
    ASSUME NEW f, NEW S
    PROVE  SumOver(f, S) = (CHOOSE g : AddsUp(g, f, S))[S]
  BY DEF SumOver, MapThenSumSet, MapThenFoldSet, AddsUp, Summand, Others

\* SumFunction adds up the whole domain.
LEMMA SumFunctionIsSum ==
    ASSUME NEW f
    PROVE  SumFunction(f) = SumOver(f, DOMAIN f)
  BY DEF SumOver, MapThenSumSet, MapThenFoldSet, SumFunction, SumFunctionOnSet,
         FoldFunctionOnSet

LEMMA SummandIn ==
    ASSUME NEW s, s # {}
    PROVE  Summand(s) \in s /\ Others(s) \subseteq s /\ Others(s) # s
  BY DEF Summand, Others

\* The recursive function exists.
LEMMA AddsUpExists ==
    ASSUME NEW f, NEW S, IsFiniteSet(S)
    PROVE  \E g : AddsUp(g, f, S)
  <1> DEFINE Small(n) == {s \in SUBSET S : Cardinality(s) <= n}
             Good(n, g) == g = [s \in Small(n) |->
                                  IF s = {} THEN 0 ELSE f[Summand(s)] + g[Others(s)]]
             Bad == {n \in Nat : ~ \E g : Good(n, g)}
  <1>1. \A s \in SUBSET S : IsFiniteSet(s) /\ Cardinality(s) \in Nat
    BY FS_Subset, FS_CardinalityType
  <1>2. \A s \in SUBSET S : s # {} =>
           /\ Others(s) \in SUBSET S
           /\ Cardinality(Others(s)) = Cardinality(s) - 1
    BY <1>1, SummandIn, FS_RemoveElement DEF Others
  <1>3. \A s \in SUBSET S : Cardinality(s) = 0 <=> s = {}
    BY <1>1, FS_EmptySet
  <1>4. Good(0, [s \in Small(0) |-> 0])
    <2>1. \A s \in Small(0) : s = {}
      BY <1>1, <1>3
    <2> QED BY <2>1
  <1>5. ASSUME NEW n \in Nat, NEW g, Good(n, g)
        PROVE  \E h : Good(n + 1, h)
    <2> DEFINE h == [s \in Small(n + 1) |->
                       IF s = {} THEN 0 ELSE f[Summand(s)] + g[Others(s)]]
    <2>1. \A s \in Small(n) : s # {} => Others(s) \in Small(n)
      BY <1>1, <1>2
    <2>2. \A s \in Small(n) : g[s] = h[s]
      <3>1. \A s \in Small(n) : s \in Small(n + 1)
        BY <1>1
      <3>2. \A s \in Small(n) :
               g[s] = IF s = {} THEN 0 ELSE f[Summand(s)] + g[Others(s)]
        BY <1>5
      <3> QED BY <3>1, <3>2
    <2>3. \A s \in Small(n + 1) : s # {} => Others(s) \in Small(n)
      BY <1>1, <1>2
    <2>4. \A s \in Small(n + 1) :
             h[s] = IF s = {} THEN 0 ELSE f[Summand(s)] + h[Others(s)]
      BY <2>2, <2>3
    <2>5. h = [s \in Small(n + 1) |->
                 IF s = {} THEN 0 ELSE f[Summand(s)] + h[Others(s)]]
      <3> HIDE DEF h, Small
      <3>1. h = [s \in Small(n + 1) |-> h[s]]
        BY DEF h
      <3> QED BY <2>4, <3>1
    <2> QED BY <2>5
  <1>6. Bad = {}
    <2> SUFFICES ASSUME Bad # {} PROVE FALSE
      OBVIOUS
    <2> HIDE DEF Good
    <2>1. PICK n \in Bad : \A m \in Bad : n <= m
      BY LeastElement
    <2>2. n # 0
      BY <1>4, <2>1
    <2>3. n - 1 \in Nat /\ n - 1 \notin Bad /\ (n - 1) + 1 = n
      BY <2>1, <2>2
    <2>4. \E g : Good(n - 1, g)
      BY <2>3
    <2>5. \E g : Good((n - 1) + 1, g)
      BY <1>5, <2>3, <2>4
    <2> QED BY <2>1, <2>3, <2>5
  <1>7. PICK g : Good(Cardinality(S), g)
    <2> HIDE DEF Good
    <2>1. Cardinality(S) \in Nat
      BY <1>1
    <2> QED BY <1>6, <2>1
  <1>8. Small(Cardinality(S)) = SUBSET S
    BY <1>1, FS_Subset
  <1> QED BY <1>7, <1>8 DEF AddsUp
\* It is the only one, and on a subset it is the same.
LEMMA AddsUpUnique ==
    ASSUME NEW f, NEW S, IsFiniteSet(S), NEW T \in SUBSET S,
           NEW g, AddsUp(g, f, S), NEW h, AddsUp(h, f, T)
    PROVE  \A A \in SUBSET T : g[A] = h[A]
  <1> DEFINE F == {A \in SUBSET T : g[A] # h[A]}
  <1>1. IsFiniteSet(T)
    BY FS_Subset
  <1>2. F = {}
    <2> SUFFICES ASSUME F # {} PROVE FALSE
      OBVIOUS
    <2>1. PICK A \in F : \A x \in A : A \ {x} \notin F
      BY <1>1, SmallestSet
    <2>2. A \in SUBSET T /\ A \in SUBSET S
      OBVIOUS
    <2>3. /\ g[A] = IF A = {} THEN 0 ELSE f[Summand(A)] + g[Others(A)]
          /\ h[A] = IF A = {} THEN 0 ELSE f[Summand(A)] + h[Others(A)]
      BY <2>2 DEF AddsUp
    <2>4. A # {}
      BY <2>1, <2>3
    <2>5. Others(A) \in SUBSET T /\ Others(A) \notin F
      BY <2>1, <2>2, <2>4, SummandIn DEF Others
    <2> QED BY <2>1, <2>3, <2>4, <2>5
  <1> QED BY <1>2

\* How a sum is computed.
LEMMA SumRecursion ==
    ASSUME NEW f, NEW S, IsFiniteSet(S)
    PROVE  SumOver(f, S) = IF S = {} THEN 0
                           ELSE f[Summand(S)] + SumOver(f, Others(S))
  <1>1. PICK g : g = CHOOSE h : AddsUp(h, f, S)
    OBVIOUS
  <1>2. AddsUp(g, f, S) /\ SumOver(f, S) = g[S]
    BY <1>1, AddsUpExists, SumIsChosen
  <1>3. g[S] = IF S = {} THEN 0 ELSE f[Summand(S)] + g[Others(S)]
    BY <1>2 DEF AddsUp
  <1>4. ASSUME S # {} PROVE g[Others(S)] = SumOver(f, Others(S))
    <2>1. Others(S) \in SUBSET S /\ IsFiniteSet(Others(S))
      BY <1>4, SummandIn, FS_Subset
    <2>2. PICK k : k = CHOOSE h : AddsUp(h, f, Others(S))
      OBVIOUS
    <2>3. AddsUp(k, f, Others(S)) /\ SumOver(f, Others(S)) = k[Others(S)]
      BY <2>1, <2>2, AddsUpExists, SumIsChosen
    <2> QED BY <1>2, <2>1, <2>3, AddsUpUnique
  <1> QED BY <1>2, <1>3, <1>4

\* A sum of natural numbers is one.
LEMMA SumType ==
    ASSUME NEW S, IsFiniteSet(S), NEW f, \A x \in S : f[x] \in Nat
    PROVE  SumOver(f, S) \in Nat
  <1> DEFINE F == {A \in SUBSET S : SumOver(f, A) \notin Nat}
  <1> SUFFICES ASSUME F # {} PROVE FALSE
    OBVIOUS
  <1>1. PICK A \in F : \A x \in A : A \ {x} \notin F
    BY SmallestSet
  <1>2. IsFiniteSet(A) /\ A \subseteq S
    BY FS_Subset
  <1>3. A # {} /\ SumOver(f, A) = f[Summand(A)] + SumOver(f, Others(A))
    BY <1>1, <1>2, SumRecursion
  <1>4. Others(A) \notin F /\ Others(A) \subseteq S /\ Summand(A) \in S
    BY <1>1, <1>2, <1>3, SummandIn DEF Others
  <1> QED BY <1>1, <1>3, <1>4

\* Sums respect what their summands do, one by one: a sum of sums, multiples and
\* differences, given by what happens at each element.
LEMMA SumLinear ==
    ASSUME NEW S, IsFiniteSet(S), NEW a \in Int, NEW b \in Int,
           NEW f, NEW g, NEW h,
           \A x \in S : f[x] \in Int /\ g[x] \in Int /\ h[x] = a * f[x] + b * g[x]
    PROVE  /\ SumOver(f, S) \in Int /\ SumOver(g, S) \in Int
           /\ SumOver(h, S) = a * SumOver(f, S) + b * SumOver(g, S)
  <1> DEFINE F == {A \in SUBSET S :
                     ~ /\ SumOver(f, A) \in Int /\ SumOver(g, A) \in Int
                       /\ SumOver(h, A) = a * SumOver(f, A) + b * SumOver(g, A)}
  <1> SUFFICES ASSUME F # {} PROVE FALSE
    OBVIOUS
  <1>1. PICK A \in F : \A x \in A : A \ {x} \notin F
    BY SmallestSet
  <1>2. IsFiniteSet(A) /\ A \subseteq S
    BY FS_Subset
  <1>3. CASE A = {}
    <2>1. SumOver(f, A) = 0 /\ SumOver(g, A) = 0 /\ SumOver(h, A) = 0
      BY <1>2, <1>3, SumRecursion
    <2> QED BY <1>1, <2>1
  <1>4. CASE A # {}
    <2>1. PICK x \in A, B \in SUBSET S : x = Summand(A) /\ B = Others(A)
      BY <1>2, <1>4, SummandIn
    <2>2. /\ SumOver(f, A) = f[x] + SumOver(f, B)
          /\ SumOver(g, A) = g[x] + SumOver(g, B)
          /\ SumOver(h, A) = h[x] + SumOver(h, B)
      BY <1>2, <1>4, <2>1, SumRecursion
    <2>3. B \notin F
      BY <1>1, <2>1 DEF Others
    <2>4. /\ SumOver(f, B) \in Int /\ SumOver(g, B) \in Int
          /\ SumOver(h, B) = a * SumOver(f, B) + b * SumOver(g, B)
      BY <2>3
    <2>5. /\ f[x] \in Int /\ g[x] \in Int /\ h[x] = a * f[x] + b * g[x]
      BY <1>2
    <2>6. a * (f[x] + SumOver(f, B)) = a * f[x] + a * SumOver(f, B)
      BY <2>4, <2>5
    <2>7. b * (g[x] + SumOver(g, B)) = b * g[x] + b * SumOver(g, B)
      BY <2>4, <2>5
    <2> QED BY <1>1, <2>2, <2>4, <2>5, <2>6, <2>7
  <1> QED BY <1>3, <1>4

\* Smaller summands, smaller sum; and if one is really smaller, so is the sum.
LEMMA SumMonotone ==
    ASSUME NEW S, IsFiniteSet(S), NEW f, NEW g,
           \A x \in S : f[x] \in Int /\ g[x] \in Int /\ f[x] <= g[x]
    PROVE  /\ SumOver(f, S) \in Int /\ SumOver(g, S) \in Int
           /\ SumOver(f, S) <= SumOver(g, S)
           /\ (\E x \in S : f[x] < g[x]) => SumOver(f, S) < SumOver(g, S)
  <1> DEFINE OK(A) == /\ SumOver(f, A) \in Int /\ SumOver(g, A) \in Int
                      /\ SumOver(f, A) <= SumOver(g, A)
                      /\ (\E x \in A : f[x] < g[x])
                            => SumOver(f, A) < SumOver(g, A)
             F == {A \in SUBSET S : ~OK(A)}
  <1> SUFFICES ASSUME F # {} PROVE FALSE
    OBVIOUS
  <1>1. PICK A \in F : \A x \in A : A \ {x} \notin F
    BY SmallestSet
  <1>2. IsFiniteSet(A) /\ A \subseteq S
    BY FS_Subset
  <1>3. CASE A = {}
    <2>1. SumOver(f, A) = 0 /\ SumOver(g, A) = 0
      BY <1>2, <1>3, SumRecursion
    <2> QED BY <1>1, <1>3, <2>1
  <1>4. CASE A # {}
    <2>1. PICK x \in A, B \in SUBSET S : x = Summand(A) /\ B = Others(A)
      BY <1>2, <1>4, SummandIn
    <2>2. /\ SumOver(f, A) = f[x] + SumOver(f, B)
          /\ SumOver(g, A) = g[x] + SumOver(g, B)
      BY <1>2, <1>4, <2>1, SumRecursion
    <2>3. B \notin F /\ A = B \cup {x}
      BY <1>1, <2>1 DEF Others
    <2>4. OK(B)
      BY <2>3
    <2>5. f[x] \in Int /\ g[x] \in Int /\ f[x] <= g[x]
      BY <1>2
    <2> QED BY <1>1, <2>2, <2>3, <2>4, <2>5
  <1> QED BY <1>3, <1>4

\* Equal summands, equal sum.
LEMMA SumEqual ==
    ASSUME NEW S, IsFiniteSet(S), NEW f, NEW g, \A x \in S : f[x] = g[x]
    PROVE  SumOver(f, S) = SumOver(g, S)
  <1> DEFINE F == {A \in SUBSET S : SumOver(f, A) # SumOver(g, A)}
  <1> SUFFICES ASSUME F # {} PROVE FALSE
    OBVIOUS
  <1>1. PICK A \in F : \A x \in A : A \ {x} \notin F
    BY SmallestSet
  <1>2. IsFiniteSet(A) /\ A \subseteq S
    BY FS_Subset
  <1>3. /\ A = {} => SumOver(f, A) = 0 /\ SumOver(g, A) = 0
        /\ A # {} => /\ SumOver(f, A) = f[Summand(A)] + SumOver(f, Others(A))
                     /\ SumOver(g, A) = g[Summand(A)] + SumOver(g, Others(A))
    BY <1>2, SumRecursion
  <1>4. A # {}
    BY <1>1, <1>3
  <1>5. Others(A) \notin F /\ Others(A) \subseteq S /\ Summand(A) \in S
    BY <1>1, <1>2, <1>4, SummandIn DEF Others
  <1> QED BY <1>1, <1>3, <1>4, <1>5

\* One summand changes by d, and the sum does.
LEMMA SumChange ==
    ASSUME NEW S, IsFiniteSet(S), NEW f, NEW g, NEW x \in S, NEW d \in Int,
           \A y \in S : f[y] \in Int /\ g[y] = IF y = x THEN f[y] + d ELSE f[y]
    PROVE  SumOver(g, S) = SumOver(f, S) + d
  <1> DEFINE OK(A) == /\ SumOver(f, A) \in Int
                      /\ SumOver(g, A) = IF x \in A THEN SumOver(f, A) + d
                                         ELSE SumOver(f, A)
             F == {A \in SUBSET S : ~OK(A)}
  <1> SUFFICES ASSUME F # {} PROVE FALSE
    OBVIOUS
  <1>1. PICK A \in F : \A y \in A : A \ {y} \notin F
    BY SmallestSet
  <1>2. IsFiniteSet(A) /\ A \subseteq S
    BY FS_Subset
  <1>3. CASE A = {}
    <2>1. SumOver(f, A) = 0 /\ SumOver(g, A) = 0
      BY <1>2, <1>3, SumRecursion
    <2> QED BY <1>1, <1>3, <2>1
  <1>4. CASE A # {}
    <2>1. PICK y \in A, B \in SUBSET S : y = Summand(A) /\ B = Others(A)
      BY <1>2, <1>4, SummandIn
    <2>2. /\ SumOver(f, A) = f[y] + SumOver(f, B)
          /\ SumOver(g, A) = g[y] + SumOver(g, B)
      BY <1>2, <1>4, <2>1, SumRecursion
    <2>3. B \notin F /\ A = B \cup {y} /\ y \notin B
      BY <1>1, <2>1 DEF Others
    <2>4. OK(B)
      BY <2>3
    <2>5. f[y] \in Int /\ g[y] = IF y = x THEN f[y] + d ELSE f[y]
      BY <1>2
    <2> QED BY <1>1, <2>2, <2>3, <2>4, <2>5
  <1> QED BY <1>3, <1>4
\* Nothing adds up to nothing.
LEMMA SumZero ==
    ASSUME NEW S, IsFiniteSet(S), NEW f, \A x \in S : f[x] = 0
    PROVE  SumOver(f, S) = 0
  <1>1. \A x \in S : f[x] \in Int /\ f[x] = 0 * f[x] + 0 * f[x]
    OBVIOUS
  <1>2. /\ SumOver(f, S) \in Int
        /\ SumOver(f, S) = 0 * SumOver(f, S) + 0 * SumOver(f, S)
    BY <1>1, SumLinear, 0 \in Int
  <1> QED BY <1>2

\* Whichever element is taken first, the sum is the same.
LEMMA SumWithout ==
    ASSUME NEW S, IsFiniteSet(S), NEW f, \A x \in S : f[x] \in Int, NEW a \in S
    PROVE  /\ SumOver(f, S) \in Int /\ SumOver(f, S \ {a}) \in Int
           /\ SumOver(f, S) = f[a] + SumOver(f, S \ {a})
  <1> DEFINE F == {A \in SUBSET S :
                     \E x \in A : SumOver(f, A) # f[x] + SumOver(f, A \ {x})}
  <1>1. \A A \in SUBSET S : IsFiniteSet(A) /\ SumOver(f, A) \in Int
    <2> TAKE A \in SUBSET S
    <2>1. IsFiniteSet(A)
      BY FS_Subset
    <2>2. \A x \in A : f[x] \in Int /\ f[x] <= f[x]
      OBVIOUS
    <2>3. SumOver(f, A) \in Int
      BY <2>1, <2>2, SumMonotone
    <2> QED BY <2>1, <2>3
  <1>2. ASSUME F # {} PROVE FALSE
    <2>1. PICK A \in F : \A x \in A : A \ {x} \notin F
      BY <1>2, SmallestSet
    <2>2. PICK x \in A : SumOver(f, A) # f[x] + SumOver(f, A \ {x})
      BY <2>1
    <2>3. PICK t : t = Summand(A)
      OBVIOUS
    <2>4. t \in A /\ SumOver(f, A) = f[t] + SumOver(f, A \ {t})
      BY <1>1, <2>2, <2>3, SumRecursion, SummandIn DEF Others
    <2>5. x # t
      BY <2>2, <2>4
    <2>6. A \in SUBSET S /\ A \ {t} \in SUBSET S /\ A \ {x} \in SUBSET S
      BY <2>1
    <2>7. SumOver(f, A \ {t}) = f[x] + SumOver(f, (A \ {t}) \ {x})
      BY <2>1, <2>4, <2>5, <2>6
    <2>8. SumOver(f, A \ {x}) = f[t] + SumOver(f, (A \ {x}) \ {t})
      BY <2>1, <2>2, <2>4, <2>5, <2>6
    <2>9. (A \ {t}) \ {x} = (A \ {x}) \ {t} /\ (A \ {x}) \ {t} \in SUBSET S
      BY <2>6
    <2>10. f[x] \in Int /\ f[t] \in Int
      BY <2>2, <2>4, <2>6
    <2>11. PICK rest \in Int : rest = SumOver(f, (A \ {x}) \ {t})
      BY <1>1, <2>9
    <2>12. SumOver(f, A \ {t}) = f[x] + rest /\ SumOver(f, A \ {x}) = f[t] + rest
      BY <2>7, <2>8, <2>9, <2>11
    <2>13. SumOver(f, A) = f[t] + (f[x] + rest) /\ SumOver(f, A) # f[x] + (f[t] + rest)
      BY <2>2, <2>4, <2>12
    <2> QED BY <2>10, <2>11, <2>13
  <1>3. S \in SUBSET S /\ S \ {a} \in SUBSET S
    OBVIOUS
  <1>4. S \notin F
    BY <1>2
  <1> QED BY <1>1, <1>3, <1>4

\* Nor does the order in which the elements are named matter.
LEMMA SumPermuted ==
    ASSUME NEW S, IsFiniteSet(S), NEW f, \A x \in S : f[x] \in Int,
           NEW pi \in [S -> S], \A x, y \in S : pi[x] = pi[y] => x = y,
           \A y \in S : \E x \in S : pi[x] = y,
           NEW g, \A x \in S : g[x] = f[pi[x]]
    PROVE  SumOver(g, S) = SumOver(f, S)
  <1> DEFINE Image(A) == {pi[x] : x \in A}
             F == {A \in SUBSET S : SumOver(g, A) # SumOver(f, Image(A))}
  <1>1. \A A \in SUBSET S : IsFiniteSet(A) /\ IsFiniteSet(Image(A)) /\ Image(A) \in SUBSET S
    <2> TAKE A \in SUBSET S
    <2>1. Image(A) \in SUBSET S
      OBVIOUS
    <2> QED BY <2>1, FS_Subset
  <1>2. \A x \in S : g[x] \in Int
    OBVIOUS
  <1>3. ASSUME F # {} PROVE FALSE
    <2>1. PICK A \in F : \A x \in A : A \ {x} \notin F
      BY <1>3, SmallestSet
    <2>2. A \in SUBSET S /\ SumOver(g, A) # SumOver(f, Image(A))
      BY <2>1
    <2>3. CASE A = {}
      <3>1. Image(A) = {} /\ \A x \in {} : g[x] = 0 /\ f[x] = 0
        BY <2>3
      <3>2. IsFiniteSet({})
        BY FS_EmptySet
      <3>3. SumOver(g, {}) = 0 /\ SumOver(f, {}) = 0
        BY <3>1, <3>2, SumZero
      <3> QED BY <2>2, <2>3, <3>1, <3>3
    <2>4. CASE A # {}
      <3>1. PICK x \in A : TRUE
        BY <2>4
      <3>2. /\ x \in S /\ pi[x] \in Image(A) /\ Image(A) \in SUBSET S
            /\ IsFiniteSet(A) /\ IsFiniteSet(Image(A))
        BY <1>1, <2>2, <3>1
      <3>3. Image(A \ {x}) = Image(A) \ {pi[x]}
        BY <2>2, <3>1
      <3>4. SumOver(g, A) = g[x] + SumOver(g, A \ {x})
        BY <1>2, <2>2, <3>1, <3>2, SumWithout
      <3>5. SumOver(f, Image(A)) = f[pi[x]] + SumOver(f, Image(A) \ {pi[x]})
        BY <3>2, SumWithout
      <3>6. SumOver(g, A \ {x}) = SumOver(f, Image(A \ {x}))
        BY <2>1, <2>2, <3>1
      <3> QED BY <2>2, <3>2, <3>3, <3>4, <3>5, <3>6
    <2> QED BY <2>3, <2>4
  <1>4. S \in SUBSET S /\ S \notin F
    BY <1>3
  <1>5. Image(S) = S
    OBVIOUS
  <1> QED BY <1>4, <1>5

\* A finite nonempty set of numbers has a greatest element.
LEMMA GreatestElement ==
    ASSUME NEW S \in SUBSET Nat, IsFiniteSet(S), S # {}
    PROVE  \E x \in S : \A y \in S : y <= x
  <1> DEFINE HasGreatest(A) == \E x \in A : \A y \in A : y <= x
             F == {A \in SUBSET S : A # {} /\ ~HasGreatest(A)}
  <1> SUFFICES ASSUME F # {} PROVE FALSE
    OBVIOUS
  <1>1. PICK A \in F : \A x \in A : A \ {x} \notin F
    BY SmallestSet
  <1>2. PICK x \in A : TRUE
    BY <1>1
  <1>3. A \ {x} = {} \/ HasGreatest(A \ {x})
    BY <1>1, <1>2
  <1>4. x \in Nat /\ \A y \in A : y \in Nat
    BY <1>1, <1>2
  <1>5. CASE A \ {x} = {}
    <2>1. \A y \in A : y = x
      BY <1>5
    <2> QED BY <1>1, <1>2, <1>4, <2>1
  <1>6. CASE HasGreatest(A \ {x})
    <2>1. PICK z \in A \ {x} : \A y \in A \ {x} : y <= z
      BY <1>6
    <2>2. CASE x <= z
      BY <1>1, <1>2, <1>4, <2>1, <2>2
    <2>3. CASE z <= x
      <3>1. \A y \in A : y <= x
        BY <1>4, <2>1, <2>3
      <3> QED BY <1>1, <1>2, <3>1
    <2> QED BY <1>4, <2>1, <2>2, <2>3
  <1> QED BY <1>3, <1>5, <1>6

\* A sum over some of the elements is at most the sum over all of them.
LEMMA SumSubset ==
    ASSUME NEW S, IsFiniteSet(S), NEW f, \A x \in S : f[x] \in Nat,
           NEW A \in SUBSET S
    PROVE  SumOver(f, A) \in Nat /\ SumOver(f, S) \in Nat /\ SumOver(f, A) <= SumOver(f, S)
  <1> DEFINE F == {B \in SUBSET S : A \subseteq B /\ ~(SumOver(f, A) <= SumOver(f, B))}
  <1>1. \A B \in SUBSET S : IsFiniteSet(B) /\ SumOver(f, B) \in Nat
    <2> TAKE B \in SUBSET S
    <2>1. IsFiniteSet(B) /\ \A x \in B : f[x] \in Nat
      BY FS_Subset
    <2> QED BY <2>1, SumType
  <1>2. ASSUME F # {} PROVE FALSE
    <2>1. PICK B \in F : \A x \in B : B \ {x} \notin F
      <3>1. F \in SUBSET SUBSET S
        OBVIOUS
      <3> HIDE DEF F
      <3> QED BY <1>2, <3>1, SmallestSet
    <2>2. CASE B = A
      BY <1>1, <2>1, <2>2
    <2>3. CASE B # A
      <3>1. PICK x \in B : x \notin A
        BY <2>1, <2>3
      <3>2. B \ {x} \in SUBSET S /\ A \subseteq B \ {x}
        BY <2>1, <3>1
      <3>3. SumOver(f, A) <= SumOver(f, B \ {x})
        BY <2>1, <3>1, <3>2
      <3>4. SumOver(f, B) = f[x] + SumOver(f, B \ {x})
        <4>1. IsFiniteSet(B) /\ \A y \in B : f[y] \in Int
          BY <1>1, <2>1
        <4> QED BY <3>1, <4>1, SumWithout
      <3>5. f[x] \in Nat /\ SumOver(f, A) \in Nat /\ SumOver(f, B \ {x}) \in Nat
        BY <1>1, <2>1, <3>1, <3>2
      <3>6. SumOver(f, A) <= SumOver(f, B)
        BY <3>3, <3>4, <3>5
      <3> QED BY <2>1, <3>6
    <2> QED BY <2>2, <2>3
  <1>3. S \in SUBSET S /\ S \notin F
    BY <1>2
  <1> QED BY <1>1, <1>3

=============================================================================
