---------------------------- MODULE RoutingProofs ----------------------------
(***************************************************************************)
(* The audit's permutations for batches of every size, what the audit      *)
(* promises in every evaluation, and what the allocation a public router   *)
(* makes is worth for every batch, budget and number of search steps; then *)
(* that the two validators agree, and that the report scores what the      *)
(* files decide and gives a public router its points.                      *)
(***************************************************************************)
EXTENDS RoutingEvaluation, Sums, FunctionTheorems

\* A sort of n places has every one of them: an injection of a finite set into
\* itself.
LEMMA SortedIsOnto ==
    ASSUME NEW n \in Nat, NEW s \in Sorted(n), NEW i \in 1..n
    PROVE  \E k \in 1..n : s[k] = i
  <1>1. s \in [1..n -> 1..n] /\ \A j, k \in 1..n : s[j] = s[k] => j = k
    BY DEF Sorted
  <1>2. s \in Injection(1..n, 1..n)
    BY <1>1, Fun_IsInj
  <1>3. IsFiniteSet(1..n)
    BY FS_Interval
  <1>4. s \in Surjection(1..n, 1..n)
    BY <1>2, <1>3, FS_Injection
  <1>5. \A t \in 1..n : \E k \in 1..n : s[k] = t
    BY <1>4 DEF Surjection
  <1> QED BY <1>5

\* So every episode has its place in a sort.
LEMMA PlaceOfIs ==
    ASSUME NEW n \in Nat, NEW s \in Sorted(n), NEW i \in 1..n
    PROVE  PlaceOf(s, n, i) \in 1..n /\ s[PlaceOf(s, n, i)] = i
  BY SortedIsOnto DEF PlaceOf

\* And it is the one the sort gives it.
LEMMA PlaceOfSorted ==
    ASSUME NEW n \in Nat, NEW s \in Sorted(n), NEW k \in 1..n
    PROVE  PlaceOf(s, n, s[k]) = k
  <1>1. s[k] \in 1..n /\ \A i, j \in 1..n : s[i] = s[j] => i = j
    BY DEF Sorted
  <1> QED BY <1>1, PlaceOfIs

\* Going round a cycle of more than one place leads to another place.
LEMMA SuccessorMoves ==
    ASSUME NEW n \in Nat, n > 1, NEW k \in 1..n
    PROVE  /\ Successor(k, n) = IF k = n THEN 1 ELSE k + 1
           /\ Successor(k, n) \in 1..n /\ Successor(k, n) # k
  <1>1. CASE k = n
    <2>1. k % n = 0 BY <1>1
    <2> QED BY <1>1, <2>1 DEF Successor
  <1>2. CASE k # n
    <2>1. k % n = k BY <1>2
    <2> QED BY <1>2, <2>1 DEF Successor
  <1> QED BY <1>1, <1>2

-----------------------------------------------------------------------------
\* The episode at a place of the sort gets the ID of the next one.
LEMMA AssignIs ==
    ASSUME NEW n \in Nat, n > 1, NEW s \in Sorted(n), NEW k \in 1..n
    PROVE  /\ DOMAIN Assign(s, n) = 1..n
           /\ Assign(s, n)[s[k]] = s[Successor(k, n)]
  <1>1. s[k] \in 1..n BY DEF Sorted
  <1> QED BY <1>1, PlaceOfSorted DEF Assign

\* Nobody is the next of two places.
LEMMA SuccessorInjective ==
    ASSUME NEW n \in Nat, n > 1, NEW j \in 1..n, NEW k \in 1..n,
           Successor(j, n) = Successor(k, n)
    PROVE  j = k
  BY SuccessorMoves

\* Of more than one episode, every one gets an ID, no ID is used twice and none
\* stays where it was (_make_audit_variant's assignment of the audit IDs).
LEMMA AssignSorted ==
    ASSUME NEW n \in Nat, n > 1, NEW s \in Sorted(n)
    PROVE  /\ Assign(s, n) \in Sorted(n)
           /\ \A i \in 1..n : Assign(s, n)[i] # i
  <1> DEFINE A == Assign(s, n)
  <1>1. \A i \in 1..n : \E k \in 1..n : i = s[k] /\ A[i] = s[Successor(k, n)]
    <2> TAKE i \in 1..n
    <2>1. PICK k \in 1..n : s[k] = i BY SortedIsOnto
    <2>2. A[s[k]] = s[Successor(k, n)] BY AssignIs
    <2> QED BY <2>1, <2>2
  <1>2. s \in [1..n -> 1..n] /\ \A i, j \in 1..n : s[i] = s[j] => i = j
    BY DEF Sorted
  <1>3. \A k \in 1..n : Successor(k, n) \in 1..n /\ Successor(k, n) # k
    BY SuccessorMoves
  <1>4. \A i \in 1..n : A[i] \in 1..n /\ A[i] # i
    <2> TAKE i \in 1..n
    <2>1. PICK k \in 1..n : i = s[k] /\ A[i] = s[Successor(k, n)] BY <1>1
    <2>2. Successor(k, n) \in 1..n /\ Successor(k, n) # k BY <1>3
    <2> QED BY <2>1, <2>2, <1>2
  <1>5. \A i, j \in 1..n : A[i] = A[j] => i = j
    <2> TAKE i, j \in 1..n
    <2>1. PICK k \in 1..n : i = s[k] /\ A[i] = s[Successor(k, n)] BY <1>1
    <2>2. PICK l \in 1..n : j = s[l] /\ A[j] = s[Successor(l, n)] BY <1>1
    <2>3. A[i] = A[j] => Successor(k, n) = Successor(l, n)
      BY <2>1, <2>2, <1>2, <1>3
    <2> QED BY <2>1, <2>2, <2>3, SuccessorInjective
  <1>6. A = [i \in 1..n |-> s[Successor(PlaceOf(s, n, i), n)]]
    BY DEF Assign
  <1>7. A \in [1..n -> 1..n]
    BY <1>4, <1>6
  <1> QED BY <1>4, <1>5, <1>7 DEF Sorted

\* A batch of one keeps its ID: there is no other.
LEMMA AssignOfOne ==
    ASSUME NEW n \in Nat, n <= 1, NEW s \in Sorted(n)
    PROVE  Assign(s, n) = [i \in 1..n |-> i] /\ Assign(s, n) \in Sorted(n)
  <1>1. Assign(s, n) = [i \in 1..n |-> i]
    BY DEF Assign
  <1>2. [i \in 1..n |-> i] \in [1..n -> 1..n]
    OBVIOUS
  <1> QED BY <1>1, <1>2 DEF Sorted

\* The order of the variant is a sort, and of more than one episode it is not
\* the order of the input (the rotation when the HMAC sort happens to agree).
LEMMA ReorderedSorted ==
    ASSUME NEW n \in Nat, NEW s \in Sorted(n)
    PROVE  /\ Reordered(s, n) \in Sorted(n)
           /\ n > 1 => \E k \in 1..n : Reordered(s, n)[k] # k
  <1>1. s \in [1..n -> 1..n] /\ \A i, j \in 1..n : s[i] = s[j] => i = j
    BY DEF Sorted
  <1>2. CASE n > 1 /\ s = [i \in 1..n |-> i]
    <2>1. Reordered(s, n) = [k \in 1..n |-> s[Successor(k, n)]]
      BY <1>2 DEF Reordered
    <2>2. \A k \in 1..n : Successor(k, n) \in 1..n /\ Successor(k, n) # k
      BY <1>2, SuccessorMoves
    <2>3. Reordered(s, n) = [k \in 1..n |-> Successor(k, n)]
      BY <1>2, <2>1, <2>2
    <2>4. \A j, k \in 1..n : Successor(j, n) = Successor(k, n) => j = k
      BY <1>2, SuccessorInjective
    <2>5. 1 \in 1..n BY <1>2
    <2>6. Reordered(s, n) \in [1..n -> 1..n]
      BY <2>2, <2>3
    <2>7. \A k \in 1..n : Reordered(s, n)[k] = Successor(k, n)
      BY <2>3
    <2>8. Reordered(s, n) \in Sorted(n)
      BY <2>4, <2>6, <2>7 DEF Sorted
    <2>9. Reordered(s, n)[1] # 1
      BY <2>2, <2>5, <2>7
    <2> QED BY <2>5, <2>8, <2>9
  <1>3. CASE ~ (n > 1 /\ s = [i \in 1..n |-> i])
    <2>1. Reordered(s, n) = s BY <1>3 DEF Reordered
    <2>2. n > 1 => \E k \in 1..n : s[k] # k BY <1>1, <1>3
    <2> QED BY <2>1, <2>2
  <1> QED BY <1>2, <1>3

\* The cycle has no second part: what is the same for every episode and the one
\* whose ID it gets is the same for all.  By the least place where it differs.
LEMMA OneCycle ==
    ASSUME NEW n \in Nat, n > 1, NEW s \in Sorted(n), NEW f,
           \A i \in 1..n : f[i] = f[Assign(s, n)[i]]
    PROVE  \A i, j \in 1..n : f[i] = f[j]
  <1> DEFINE T == {k \in 1..n : f[s[k]] # f[s[1]]}
  <1>1. \A k \in 1..n : s[k] \in 1..n
    BY DEF Sorted
  <1>2. \A k \in 1..n : k # n => f[s[k]] = f[s[k + 1]]
    <2> TAKE k \in 1..n
    <2> HAVE k # n
    <2>1. f[s[k]] = f[Assign(s, n)[s[k]]] BY <1>1
    <2>2. Assign(s, n)[s[k]] = s[Successor(k, n)] BY AssignIs
    <2>3. Successor(k, n) = k + 1 BY SuccessorMoves
    <2> QED BY <2>1, <2>2, <2>3
  <1>3. T = {}
    <2>1. SUFFICES ASSUME T # {} PROVE FALSE
      OBVIOUS
    <2>2. T \in SUBSET Nat
      OBVIOUS
    <2>3. PICK k \in T : \A l \in T : k <= l
      BY <2>1, <2>2, LeastElement
    <2>4. k \in 1..n /\ k # 1 /\ f[s[k]] # f[s[1]]
      BY <2>3
    <2>5. k - 1 \in 1..n /\ k - 1 # n /\ ~ (k <= k - 1) /\ k = (k - 1) + 1
      BY <2>4
    <2>6. k - 1 \notin T
      BY <2>3, <2>5
    <2>7. f[s[k - 1]] = f[s[1]]
      BY <2>5, <2>6
    <2>8. f[s[k - 1]] = f[s[k]]
      BY <2>5, <1>2
    <2> QED BY <2>4, <2>7, <2>8
  <1>4. \A i \in 1..n : f[i] = f[s[1]]
    <2> TAKE i \in 1..n
    <2>1. PICK k \in 1..n : s[k] = i BY SortedIsOnto
    <2>2. k \notin T BY <1>3
    <2> QED BY <2>1, <2>2
  <1> QED BY <1>4

-----------------------------------------------------------------------------
\* The decision for an ID in the first run is the one for the row at its place.
LEMMA AnswerForOriginal ==
    ASSUME NEW asked, Len(asked) \in Nat, NEW answered,
           NEW i \in 1..Len(asked)
    PROVE  AnswerFor(Batch(asked), answered, i) = answered[i]
  BY DEF AnswerFor, Batch

\* In the run on the variant it is the one for the row that was given that ID.
LEMMA AnswerForVariant ==
    ASSUME NEW asked, Len(asked) \in Nat, NEW answered,
           NEW ids \in Sorted(Len(asked)), NEW order \in Sorted(Len(asked)),
           NEW k \in 1..Len(asked)
    PROVE  AnswerFor(Variant(asked, ids, order), answered,
                     ids[order[k]]) = answered[k]
  <1> DEFINE n == Len(asked)
             batch == Variant(asked, ids, order)
  <1>1. /\ ids \in [1..n -> 1..n] /\ order \in [1..n -> 1..n]
        /\ \A i, j \in 1..n : ids[i] = ids[j] => i = j
        /\ \A i, j \in 1..n : order[i] = order[j] => i = j
    BY DEF Sorted
  <1>2. DOMAIN batch = 1..n /\ \A l \in 1..n : batch[l].id = ids[order[l]]
    BY DEF Variant
  <1>3. \A l \in DOMAIN batch : batch[l].id = ids[order[k]] => l = k
    BY <1>1, <1>2
  <1>4. (CHOOSE l \in DOMAIN batch : batch[l].id = ids[order[k]]) = k
    BY <1>2, <1>3
  <1> QED BY <1>4 DEF AnswerFor

-----------------------------------------------------------------------------
\* The batch never changes, and what an audit runs on was made from two sorts.
AuditInv ==
    /\ content \in Seq(Rows)
    /\ stage \in {"reroute", "audited"} =>
           \E cycle, order \in Sorted(Size) :
               assigned = Assign(cycle, Size) /\ place = Reordered(order, Size)

\* A batch is read, and nothing audited.
LEMMA AuditInit == Init => AuditInv
  <1> SUFFICES ASSUME Init PROVE AuditInv
    OBVIOUS
  <1>1. stage = "route"
    BY DEF Init
  <1>2. PICK n \in 1..MaxEpisodes :
            content \in [1..n -> IF n < 4 THEN Rows ELSE AuditedRows]
    BY DEF Init
  <1>3. n \in Nat /\ AuditedRows \subseteq Rows
    BY EvaluationAssumption DEF EvaluationAssumption
  <1>4. content \in [1..n -> Rows]
    BY <1>2, <1>3
  <1>5. content \in Seq(Rows)
    BY <1>3, <1>4
  <1> QED BY <1>1, <1>5 DEF AuditInv

\* No step changes the batch, and only MakeVariant makes a variant.
LEMMA AuditStep == AuditInv /\ [Next]_vars => AuditInv'
  <1> SUFFICES ASSUME AuditInv, [Next]_vars PROVE AuditInv'
    OBVIOUS
  <1> USE DEF AuditInv, Size
  <1>1. CASE RefuseToRoute
    BY <1>1 DEF RefuseToRoute, evalVars, auditVars
  <1>2. CASE Allocate
    BY <1>2 DEF Allocate, evalVars, auditVars
  <1>3. CASE WriteSubmission
    BY <1>3 DEF WriteSubmission, evalVars, auditVars
  <1>4. CASE OtherSubmission
    BY <1>4 DEF OtherSubmission, evalVars, auditVars
  <1>5. CASE Validate
    BY <1>5 DEF Validate, evalVars, auditVars
  <1>6. CASE MakeVariant
    BY <1>6 DEF MakeVariant, evalVars
  <1>7. CASE WriteVariant
    BY <1>7 DEF WriteVariant, evalVars, auditVars
  <1>8. CASE SelfCheck
    BY <1>8 DEF SelfCheck, evalVars, auditVars
  <1>9. CASE UNCHANGED vars
    BY <1>9 DEF vars, evalVars, auditVars
  <1> QED
    BY <1>1, <1>2, <1>3, <1>4, <1>5, <1>6, <1>7, <1>8, <1>9 DEF Next

\* What an audit compares was made from two sorts of the batch it was given.
THEOREM AuditInvariance == Spec => []AuditInv
  BY AuditInit, AuditStep, PTL DEF Spec

-----------------------------------------------------------------------------
\* So the IDs of an audited batch and its order are permutations that move.
LEMMA AuditedBatch ==
    ASSUME AuditInv, stage = "audited"
    PROVE  /\ Size \in Nat /\ Len(content) = Size
           /\ assigned \in Sorted(Size) /\ place \in Sorted(Size)
           /\ Size > 1 =>
                  /\ \A i \in 1..Size : assigned[i] # i
                  /\ \E k \in 1..Size : place[k] # k
                  /\ \E cycle \in Sorted(Size) : assigned = Assign(cycle, Size)
  <1>1. Size \in Nat /\ Len(content) = Size
    BY DEF AuditInv, Size
  <1>2. PICK cycle, order \in Sorted(Size) :
            assigned = Assign(cycle, Size) /\ place = Reordered(order, Size)
    BY DEF AuditInv
  <1>3. place \in Sorted(Size) /\ (Size > 1 => \E k \in 1..Size : place[k] # k)
    BY <1>1, <1>2, ReorderedSorted
  <1>4. CASE Size > 1
    <2>1. /\ assigned \in Sorted(Size)
          /\ \A i \in 1..Size : assigned[i] # i
      BY <1>1, <1>2, <1>4, AssignSorted
    <2> QED BY <1>1, <1>2, <1>3, <1>4, <2>1
  <1>5. CASE ~ (Size > 1)
    <2>1. assigned \in Sorted(Size)
      BY <1>1, <1>2, <1>5, AssignOfOne
    <2> QED BY <1>1, <1>3, <1>5, <2>1
  <1> QED BY <1>4, <1>5

\* No ID stays with its episode.
LEMMA MovesEveryId == AuditInv => EveryIdMoves
  BY AuditedBatch DEF EveryIdMoves

\* The two runs of a router agree on an episode exactly if the answers to its two
\* rows are the same.
LEMMA MismatchesAre ==
    ASSUME AuditInv, stage = "audited", NEW first, NEW second,
           Mismatches(content, assigned, place, first, second) = {},
           NEW k \in 1..Size
    PROVE  first[place[k]] = second[k]
  <1>1. /\ Size \in Nat /\ Len(content) = Size
        /\ assigned \in Sorted(Size) /\ place \in Sorted(Size)
    BY AuditedBatch
  <1>2. place[k] \in 1..Size
    BY <1>1 DEF Sorted
  <1>3. AnswerFor(Batch(content), first, place[k])
            = AnswerFor(Variant(content, assigned, place), second,
                        assigned[place[k]])
    BY <1>1, <1>2 DEF Mismatches
  <1>4. AnswerFor(Batch(content), first, place[k]) = first[place[k]]
    BY <1>1, <1>2, AnswerForOriginal
  <1>5. AnswerFor(Variant(content, assigned, place), second, assigned[place[k]])
            = second[k]
    BY <1>1, AnswerForVariant
  <1> QED BY <1>3, <1>4, <1>5

\* A router that decides by ID and not the same for all: were nothing noticed, its
\* choice would be the same along the one cycle of the IDs, and so for all.
LEMMA CatchesIdRouter ==
    ASSUME AuditInv, stage = "audited",
           NEW choice \in [1..Size -> {Light, Ax31}],
           NEW a \in 1..Size, NEW b \in 1..Size, choice[a] # choice[b]
    PROVE  Mismatches(content, assigned, place, ById(choice, Batch(content)),
                      ById(choice, Variant(content, assigned, place))) # {}
  <1> DEFINE first == ById(choice, Batch(content))
             second == ById(choice, Variant(content, assigned, place))
  <1>1. SUFFICES ASSUME Mismatches(content, assigned, place, first, second) = {}
                 PROVE  FALSE
    OBVIOUS
  <1>2. /\ Size \in Nat /\ Len(content) = Size
        /\ assigned \in Sorted(Size) /\ place \in Sorted(Size)
    BY AuditedBatch
  <1>3. Size > 1
    BY <1>2
  <1>4. \A i \in 1..Size : choice[i] = choice[assigned[i]]
    <2> TAKE i \in 1..Size
    <2>1. PICK k \in 1..Size : place[k] = i
      BY <1>2, SortedIsOnto
    <2>2. first[place[k]] = second[k]
      BY <1>1, MismatchesAre
    <2>3. first[i] = choice[i]
      BY <1>2 DEF ById, Batch
    <2>4. second[k] = choice[assigned[place[k]]]
      BY <1>2 DEF ById, Variant
    <2> QED BY <2>1, <2>2, <2>3, <2>4
  <1>5. PICK cycle \in Sorted(Size) : assigned = Assign(cycle, Size)
    BY <1>3, AuditedBatch
  <1>6. \A i, j \in 1..Size : choice[i] = choice[j]
    BY <1>2, <1>3, <1>4, <1>5, OneCycle
  <1> QED BY <1>6

\* And that is every router of the property.
LEMMA CatchesIdRouters == AuditInv => IdRouterCaught
  BY CatchesIdRouter DEF IdRouterCaught, Caught

\* A router that decides by content answers for an episode what it answered before,
\* whatever its ID and place.
LEMMA PassesContentRouter ==
    ASSUME AuditInv, stage = "audited",
           NEW choice \in [{content[i] : i \in 1..Size} -> {Light, Ax31}]
    PROVE  Mismatches(content, assigned, place, ByContent(choice, Batch(content)),
                      ByContent(choice, Variant(content, assigned, place))) = {}
  <1> DEFINE first == ByContent(choice, Batch(content))
             second == ByContent(choice, Variant(content, assigned, place))
  <1>1. /\ Size \in Nat /\ Len(content) = Size
        /\ assigned \in Sorted(Size) /\ place \in Sorted(Size)
    BY AuditedBatch
  <1>2. ASSUME NEW i \in 1..Size
        PROVE  AnswerFor(Batch(content), first, i)
                   = AnswerFor(Variant(content, assigned, place), second, assigned[i])
    <2>1. PICK k \in 1..Size : place[k] = i
      BY <1>1, SortedIsOnto
    <2>2. AnswerFor(Batch(content), first, i) = first[i]
      BY <1>1, AnswerForOriginal
    <2>3. AnswerFor(Variant(content, assigned, place), second, assigned[place[k]])
              = second[k]
      BY <1>1, AnswerForVariant
    <2>4. first[i] = choice[content[i]]
      BY <1>1 DEF ByContent, Batch
    <2>5. second[k] = choice[content[place[k]]]
      BY <1>1 DEF ByContent, Variant
    <2> QED BY <2>1, <2>2, <2>3, <2>4, <2>5
  <1> QED BY <1>1, <1>2 DEF Mismatches

\* And that is every router of the property.
LEMMA PassesContentRouters ==
    AuditInv /\ stage = "audited" => ContentRouterPasses
  BY PassesContentRouter DEF ContentRouterPasses, Caught

-----------------------------------------------------------------------------
\* An audited batch of more than one episode, however large and however its two
\* HMAC sorts turn out, has every ID on another episode and is in another order.
THEOREM EveryIdAlwaysMoves == Spec => []EveryIdMoves
  BY AuditInvariance, MovesEveryId, PTL

\* The audit never lets a router pass that decides by ID and does not treat all
\* episodes alike.
THEOREM IdRoutersAreCaught == Spec => []IdRouterCaught
  BY AuditInvariance, CatchesIdRouters, PTL

\* It never rejects a router that looks at nothing but the content.
THEOREM ContentRoutersPass ==
    Spec => [](stage = "audited" => ContentRouterPasses)
  BY AuditInvariance, PassesContentRouters, PTL

-----------------------------------------------------------------------------
(* Powers of two.                                                          *)

IsPower(g, n) == g = [k \in 0..n |-> IF k = 0 THEN 1 ELSE 2 * g[k - 1]]

LEMMA PowerExists == ASSUME NEW n \in Nat PROVE \E g : IsPower(g, n)
  <1> DEFINE Bad == {m \in Nat : ~ \E g : IsPower(g, m)}
  <1> SUFFICES ASSUME Bad # {} PROVE FALSE
    OBVIOUS
  <1>1. PICK m \in Bad : \A k \in Bad : m <= k
    BY LeastElement
  <1>2. CASE m = 0
    <2> DEFINE g == [k \in 0..0 |-> 1]
    <2>1. \A k \in 0..0 : k = 0
      OBVIOUS
    <2>2. g = [k \in 0..0 |-> IF k = 0 THEN 1 ELSE 2 * g[k - 1]]
      BY <2>1
    <2> QED BY <1>2, <2>2 DEF IsPower
  <1>3. CASE m # 0
    <2>1. m \in Nat /\ m - 1 \in Nat /\ m - 1 \notin Bad
      BY <1>1, <1>3
    <2>2. PICK g : IsPower(g, m - 1)
      BY <2>1
    <2> DEFINE h == [k \in 0..m |-> IF k = 0 THEN 1 ELSE 2 * g[k - 1]]
    <2>3. ASSUME NEW k \in 0..m, k # 0 PROVE h[k - 1] = g[k - 1]
      <3>1. k - 1 \in 0..(m - 1) /\ k - 1 \in 0..m
        BY <2>1, <2>3
      <3>2. g[k - 1] = IF k - 1 = 0 THEN 1 ELSE 2 * g[(k - 1) - 1]
        BY <2>2, <3>1 DEF IsPower
      <3> QED BY <3>1, <3>2
    <2>4. h = [k \in 0..m |-> IF k = 0 THEN 1 ELSE 2 * h[k - 1]]
      BY <2>3
    <2>5. IsPower(h, m)
      BY <2>4 DEF IsPower
    <2> QED BY <2>5
  <1> QED BY <1>2, <1>3

LEMMA PowerUnique ==
    ASSUME NEW m \in Nat, NEW n \in Nat, NEW g, IsPower(g, m), NEW h, IsPower(h, n)
    PROVE  \A k \in Nat : k <= m /\ k <= n => g[k] = h[k]
  <1> DEFINE Bad == {k \in Nat : k <= m /\ k <= n /\ g[k] # h[k]}
  <1> SUFFICES ASSUME Bad # {} PROVE FALSE
    OBVIOUS
  <1>1. PICK k \in Bad : \A l \in Bad : k <= l
    BY LeastElement
  <1>2. /\ g[k] = IF k = 0 THEN 1 ELSE 2 * g[k - 1]
        /\ h[k] = IF k = 0 THEN 1 ELSE 2 * h[k - 1]
    <2>1. k \in 0..m /\ k \in 0..n
      OBVIOUS
    <2> QED BY <2>1 DEF IsPower
  <1>3. k # 0
    BY <1>2
  <1>4. k - 1 \in Nat /\ k - 1 \notin Bad /\ k - 1 <= m /\ k - 1 <= n
    BY <1>1, <1>3
  <1>5. g[k - 1] = h[k - 1]
    BY <1>4
  <1> QED BY <1>2, <1>3, <1>5

LEMMA PowerRecursion ==
    \A n \in Nat : PowerOfTwo[n] = IF n = 0 THEN 1 ELSE 2 * PowerOfTwo[n - 1]
  <1> DEFINE G(n) == CHOOSE g : IsPower(g, n)
             f == [n \in Nat |-> G(n)[n]]
  <1>1. \A n \in Nat : IsPower(G(n), n)
    BY PowerExists
  <1> HIDE DEF G
  <1>2. ASSUME NEW n \in Nat PROVE f[n] = IF n = 0 THEN 1 ELSE 2 * f[n - 1]
    <2>1. G(n)[n] = IF n = 0 THEN 1 ELSE 2 * G(n)[n - 1]
      <3>1. n \in 0..n
        OBVIOUS
      <3> QED BY <1>1, <3>1 DEF IsPower
    <2>2. CASE n = 0
      BY <2>1, <2>2
    <2>3. CASE n # 0
      <3>1. n - 1 \in Nat /\ n - 1 <= n
        BY <2>3
      <3>2. G(n)[n - 1] = G(n - 1)[n - 1]
        BY <1>1, <3>1, PowerUnique
      <3> QED BY <2>1, <2>3, <3>1, <3>2
    <2> QED BY <2>2, <2>3
  <1>3. f = [n \in Nat |-> IF n = 0 THEN 1 ELSE 2 * f[n - 1]]
    BY <1>2
  <1> HIDE DEF f
  <1>4. PowerOfTwo = [n \in Nat |-> IF n = 0 THEN 1 ELSE 2 * PowerOfTwo[n - 1]]
    BY <1>3 DEF PowerOfTwo
  <1> QED BY <1>4

LEMMA PowerType ==
    \A n \in Nat : PowerOfTwo[n] \in Nat \ {0}
  <1> DEFINE Bad == {n \in Nat : PowerOfTwo[n] \notin Nat \ {0}}
  <1> SUFFICES ASSUME Bad # {} PROVE FALSE
    OBVIOUS
  <1>1. PICK n \in Bad : \A k \in Bad : n <= k
    BY LeastElement
  <1>2. PowerOfTwo[n] = IF n = 0 THEN 1 ELSE 2 * PowerOfTwo[n - 1]
    BY PowerRecursion
  <1>3. n # 0
    BY <1>2
  <1>4. n - 1 \in Nat /\ n - 1 \notin Bad
    BY <1>1, <1>3
  <1> QED BY <1>2, <1>3, <1>4
-----------------------------------------------------------------------------
(* The invariant.                                                          *)

Phases == {"select", "fill"}
Places == {"start", "double", "bisect", "settle", "done"}

\* Every batch has its predictions, and the tier its limits.
BatchOK ==
    /\ IsFiniteSet(Episodes) /\ Episodes # {}
    /\ \A i \in Episodes : rows[i] \in Rows
    /\ phase \in Phases /\ base \in Selections
    /\ phase = "select" => base = AllLight
    /\ low \in Nat /\ high \in Nat /\ step \in Nat

IsOffered(s) == s \in Selections /\ \A i \in Episodes : s[i] \in Offered(i)

\* What a phase falls back to, and what it leaves, is affordable.
SelectionOK ==
    /\ pc \in Places
    /\ IsOffered(selected)
    /\ phase = "fill" =>
          /\ Premium
          /\ 10000 * Cost(base)
                 <= LightTotal * AtLeast(10000, tier.multiplier * tier.safety)
    /\ pc \in {"double", "bisect", "settle"} =>
          \E p \in Nat : selected = Choose(p)
    /\ pc = "done" => WithinBudget /\ BestForItsCost /\ (Premium => phase = "fill")

\* The bracket: every penalty up to low is too small; it has the width of g of
\* the intervals that the bisection ends with.
Bracket(g, halvings) ==
    /\ high = low + g * PowerOfTwo[halvings]
    /\ g \in Nat /\ (g = 1 \/ g * Unit <= low)
Chosen == selected = Choose(high)
TooSmall == \A p \in 0..low : Over(Choose(p))
SearchOK ==
    /\ pc = "double" =>
          /\ Chosen /\ TooSmall /\ step = 0
          /\ \E g \in Nat : Bracket(g, Iterations)
          /\ \E m \in Nat : high = m * Unit
    /\ pc = "bisect" =>
          /\ Chosen /\ TooSmall /\ step < Iterations
          /\ \E g \in Nat : Bracket(g, Iterations - step)
    /\ pc = "settle" /\ high > 0 =>
          /\ Chosen /\ TooSmall
          /\ \E g \in Nat : Bracket(g, 0)

\* A public router reads a valid policy and an artifact with safety ratios.
LimitsOK ==
    /\ content \in Seq(Rows) /\ Len(content) > 0
    /\ router = "public" => tier.multiplier \in Nat /\ tier.safety \in Nat
    /\ router # "public" => pc = "start"

AllocInv == BatchOK /\ SelectionOK /\ SearchOK /\ LimitsOK
-----------------------------------------------------------------------------
(* Sums over a batch.                                                      *)

\* What RowsAssumption and SearchAssumption say, for the provers.
LEMMA RowFacts ==
    ASSUME BatchOK, NEW i \in Episodes
    PROVE  /\ \A k \in Models : rows[i].score[k] \in Nat /\ rows[i].cost[k] \in Nat
           /\ rows[i].cost[Light] > 0
           /\ rows[i].cost[1] < rows[i].cost[2] /\ rows[i].cost[2] < rows[i].cost[3]
  <1>1. rows[i] \in Rows
    BY DEF BatchOK
  <1>2. PICK r : r = rows[i] /\ r \in Rows
    BY <1>1
  <1>3. /\ r.score \in [Models -> Nat] /\ r.cost \in [Models -> Nat \ {0}]
        /\ r.cost[1] < r.cost[2] /\ r.cost[2] < r.cost[3]
    BY <1>2, RowsAssumption DEF RowsAssumption
  <1>4. Light \in Models
    BY DEF Light, Models
  <1>5. \A k \in Models : r.score[k] \in Nat /\ r.cost[k] \in Nat \ {0}
    BY <1>3
  <1> QED BY <1>2, <1>3, <1>4, <1>5

LEMMA UnitPositive == Unit \in Nat \ {0} /\ ScoreScale \in Nat \ {0}
  BY PowerType, SearchAssumption DEF Unit, SearchAssumption

\* The costs and scores of a selection, row by row.
CostRow(s) == [i \in Episodes |-> rows[i].cost[s[i]]]
ScoreRow(s) == [i \in Episodes |-> rows[i].score[s[i]]]
WorthRow(s, p) == [i \in Episodes |-> Worth(i, s[i], p)]

LEMMA SumsOverRows ==
    ASSUME BatchOK, NEW s \in Selections
    PROVE  /\ Cost(s) = SumOver(CostRow(s), Episodes)
           /\ Score(s) = SumOver(ScoreRow(s), Episodes)
           /\ \A i \in Episodes : /\ CostRow(s)[i] = rows[i].cost[s[i]]
                                  /\ ScoreRow(s)[i] = rows[i].score[s[i]]
                                  /\ CostRow(s)[i] \in Nat /\ ScoreRow(s)[i] \in Nat
           /\ Cost(s) \in Nat /\ Score(s) \in Nat
  <1>1. Cost(s) = SumFunction(CostRow(s)) /\ Score(s) = SumFunction(ScoreRow(s))
    BY DEF Cost, Score, CostRow, ScoreRow
  <1>2. DOMAIN CostRow(s) = Episodes /\ DOMAIN ScoreRow(s) = Episodes
    BY DEF CostRow, ScoreRow
  <1>3. /\ Cost(s) = SumOver(CostRow(s), Episodes)
        /\ Score(s) = SumOver(ScoreRow(s), Episodes)
    BY <1>1, <1>2, SumFunctionIsSum
  <1>4. ASSUME NEW i \in Episodes
        PROVE  /\ CostRow(s)[i] = rows[i].cost[s[i]]
               /\ ScoreRow(s)[i] = rows[i].score[s[i]]
               /\ CostRow(s)[i] \in Nat /\ ScoreRow(s)[i] \in Nat
    <2>1. s[i] \in Models
      BY DEF Selections
    <2> QED BY <2>1, RowFacts DEF CostRow, ScoreRow
  <1>5. IsFiniteSet(Episodes)
    BY DEF BatchOK
  <1>6. SumOver(CostRow(s), Episodes) \in Nat /\ SumOver(ScoreRow(s), Episodes) \in Nat
    BY <1>4, <1>5, SumType
  <1> QED BY <1>3, <1>4, <1>6

LEMMA AllLightSelects == AllLight \in Selections /\ \A i \in Episodes : AllLight[i] = Light
  BY DEF AllLight, Selections, Light, Models

LEMMA LightTotalPositive == ASSUME BatchOK PROVE LightTotal \in Nat \ {0}
  <1> DEFINE zero == [i \in Episodes |-> 0]
  <1>1. IsFiniteSet(Episodes) /\ Episodes # {}
    BY DEF BatchOK
  <1>2. SumOver(zero, Episodes) = 0
    BY <1>1, SumZero
  <1>3. PICK f : f = CostRow(AllLight)
    OBVIOUS
  <1>4. /\ LightTotal = SumOver(f, Episodes)
        /\ \A i \in Episodes : f[i] = rows[i].cost[Light] /\ f[i] \in Nat
    BY <1>3, AllLightSelects, SumsOverRows DEF LightTotal
  <1>5. \A i \in Episodes : zero[i] \in Int /\ f[i] \in Int /\ zero[i] < f[i]
    BY <1>4, RowFacts
  <1>6. \A i \in Episodes : zero[i] \in Int /\ f[i] \in Int /\ zero[i] <= f[i]
    BY <1>5
  <1> HIDE DEF zero
  <1>7. SumOver(f, Episodes) \in Int /\ SumOver(zero, Episodes) < SumOver(f, Episodes)
    BY <1>1, <1>5, <1>6, SumMonotone
  <1> QED BY <1>2, <1>4, <1>7

\* The worth of a selection weighs its score against its cost.
LEMMA WorthOfSelection ==
    ASSUME BatchOK, NEW s \in Selections, NEW p \in Nat
    PROVE  /\ \A i \in Episodes : WorthRow(s, p)[i] = Worth(i, s[i], p)
                                  /\ WorthRow(s, p)[i] \in Int
           /\ SumOver(WorthRow(s, p), Episodes)
                 = (LightTotal * Unit) * Score(s) - (ScoreScale * p) * Cost(s)
  <1>0. LightTotal * Unit \in Int /\ ScoreScale * p \in Int /\ -(ScoreScale * p) \in Int
    BY LightTotalPositive, UnitPositive
  <1>1. PICK a \in Int, b \in Int : a = LightTotal * Unit /\ b = ScoreScale * p
    BY <1>0
  <1>2. ASSUME NEW i \in Episodes
        PROVE  /\ WorthRow(s, p)[i] = Worth(i, s[i], p)
               /\ WorthRow(s, p)[i] = a * ScoreRow(s)[i] + (-b) * CostRow(s)[i]
               /\ WorthRow(s, p)[i] \in Int
    <2>1. PICK v \in Nat, c \in Nat : /\ v = ScoreRow(s)[i] /\ c = CostRow(s)[i]
                                      /\ v = rows[i].score[s[i]]
                                      /\ c = rows[i].cost[s[i]]
      BY SumsOverRows
    <2>2. WorthRow(s, p)[i] = Worth(i, s[i], p)
      BY DEF WorthRow
    <2>3. Worth(i, s[i], p) = v * LightTotal * Unit - ScoreScale * p * c
      BY <2>1 DEF Worth
    <2>4. v * LightTotal * Unit = a * v /\ ScoreScale * p * c = b * c
      BY <1>1, <2>1, LightTotalPositive, UnitPositive
    <2>5. a * v - b * c = a * v + (-b) * c /\ a * v - b * c \in Int
      OBVIOUS
    <2> QED BY <2>1, <2>2, <2>3, <2>4, <2>5
  <1>3. PICK f, g, h : f = ScoreRow(s) /\ g = CostRow(s) /\ h = WorthRow(s, p)
    OBVIOUS
  <1>4. \A i \in Episodes :
           f[i] \in Int /\ g[i] \in Int /\ h[i] = a * f[i] + (-b) * g[i]
    BY <1>2, <1>3, SumsOverRows
  <1>5. SumOver(h, Episodes) = a * SumOver(f, Episodes) + (-b) * SumOver(g, Episodes)
    <2>1. IsFiniteSet(Episodes)
      BY DEF BatchOK
    <2>2. PICK m \in Int : m = -b
      OBVIOUS
    <2>3. \A i \in Episodes :
             f[i] \in Int /\ g[i] \in Int /\ h[i] = a * f[i] + m * g[i]
      BY <1>4, <2>2
    <2>4. SumOver(h, Episodes) = a * SumOver(f, Episodes) + m * SumOver(g, Episodes)
      BY <2>1, <2>3, SumLinear
    <2> QED BY <2>2, <2>4
  <1>6. Score(s) = SumOver(f, Episodes) /\ Cost(s) = SumOver(g, Episodes)
        /\ Score(s) \in Nat /\ Cost(s) \in Nat
    BY <1>3, SumsOverRows
  <1>7. SumOver(h, Episodes) = a * Score(s) - b * Cost(s)
    BY <1>5, <1>6
  <1> QED BY <1>1, <1>2, <1>3, <1>7

-----------------------------------------------------------------------------
(* The choice for a penalty.                                               *)

\* The best of a few models, the cheaper one of two that are equally good.
LEMMA BestModel ==
    ASSUME NEW O \in SUBSET Models, O # {}, NEW w, \A k \in Models : w[k] \in Int
    PROVE  \E k \in O : \A j \in O : w[k] > w[j] \/ (w[k] = w[j] /\ k <= j)
  <1>1. PICK x \in Int, y \in Int, z \in Int : x = w[1] /\ y = w[2] /\ z = w[3]
    BY DEF Models
  <1>2. \A k \in O : k = 1 \/ k = 2 \/ k = 3
    BY DEF Models
  <1>3. \/ /\ 1 \in O /\ (2 \in O => x >= y) /\ (3 \in O => x >= z)
        \/ /\ 2 \in O /\ (1 \in O => y > x) /\ (3 \in O => y >= z)
        \/ /\ 3 \in O /\ (1 \in O => z > x) /\ (2 \in O => z > y)
    BY <1>2
  <1> QED BY <1>1, <1>2, <1>3

LEMMA OffersModels ==
    ASSUME BatchOK, NEW i \in Episodes
    PROVE  Offered(i) \in SUBSET Models /\ Offered(i) # {} /\ base[i] \in Offered(i)
  <1>1. base[i] \in Models
    BY DEF BatchOK, Selections
  <1> QED BY <1>1 DEF Offered, Models, Light, Ax31

LEMMA ChooseBest ==
    ASSUME BatchOK, NEW p \in Nat
    PROVE  /\ IsOffered(Choose(p))
           /\ \A i \in Episodes : \A j \in Offered(i) :
                 Worth(i, j, p) <= Worth(i, Choose(p)[i], p)
  <1>1. ASSUME NEW i \in Episodes
        PROVE  /\ Choose(p)[i] \in Offered(i)
               /\ \A j \in Offered(i) : /\ Worth(i, j, p) <= Worth(i, Choose(p)[i], p)
    <2> DEFINE w == [k \in Models |-> Worth(i, k, p)]
    <2>1. \A k \in Models : w[k] = Worth(i, k, p) /\ w[k] \in Int
      <3> TAKE k \in Models
      <3>1. rows[i].score[k] \in Nat /\ rows[i].cost[k] \in Nat
        BY RowFacts
      <3> QED BY <3>1, LightTotalPositive, UnitPositive DEF Worth
    <2> HIDE DEF w
    <2>2. PICK O : O = Offered(i) /\ O \in SUBSET Models /\ O # {}
      BY OffersModels
    <2>3. \E k \in O : \A j \in O : w[k] > w[j] \/ (w[k] = w[j] /\ k <= j)
      BY <2>1, <2>2, BestModel
    <2>4. \E k \in O : \A j \in O :
             \/ Worth(i, k, p) > Worth(i, j, p)
             \/ Worth(i, k, p) = Worth(i, j, p) /\ k <= j
      BY <2>1, <2>2, <2>3
    <2>5. Choose(p)[i] = CHOOSE k \in O : \A j \in O :
                            \/ Worth(i, k, p) > Worth(i, j, p)
                            \/ Worth(i, k, p) = Worth(i, j, p) /\ k <= j
      BY <2>2 DEF Choose
    <2>6. /\ Choose(p)[i] \in O
          /\ \A j \in O : \/ Worth(i, Choose(p)[i], p) > Worth(i, j, p)
                          \/ Worth(i, Choose(p)[i], p) = Worth(i, j, p)
      BY <2>4, <2>5
    <2>7. \A j \in O : Worth(i, j, p) \in Int
      BY <2>1, <2>2
    <2> QED BY <2>2, <2>6, <2>7
  <1>2. Choose(p) \in Selections
    <2>1. \A i \in Episodes : Choose(p)[i] \in Models
      BY <1>1, OffersModels
    <2> QED BY <2>1 DEF Choose, Selections
  <1> QED BY <1>1, <1>2 DEF IsOffered

-----------------------------------------------------------------------------
(* What the penalty does.                                                  *)

LEMMA Products ==
    ASSUME NEW a \in Int, NEW b \in Int, NEW c \in Int
    PROVE  a * (b - c) = a * b - a * c /\ a * b \in Int /\ a * c \in Int
  OBVIOUS

LEMMA PositiveFactor ==
    ASSUME NEW a \in Int, a > 0, NEW b \in Int
    PROVE  /\ a * b >= 0 => b >= 0
           /\ b >= 0 => a * b >= 0
  OBVIOUS

\* A higher penalty never makes a dearer choice.
LEMMA DearerForLess ==
    ASSUME BatchOK, NEW p \in Nat, NEW q \in Nat, p < q
    PROVE  Cost(Choose(q)) <= Cost(Choose(p))
  <1>1. /\ Choose(p) \in Selections /\ Choose(q) \in Selections
        /\ \A i \in Episodes : Choose(p)[i] \in Offered(i) /\ Choose(q)[i] \in Offered(i)
    BY ChooseBest DEF IsOffered
  <1>2. ASSUME NEW i \in Episodes
        PROVE  rows[i].cost[Choose(q)[i]] <= rows[i].cost[Choose(p)[i]]
    <2>1. PICK k, m : /\ k = Choose(p)[i] /\ m = Choose(q)[i]
                      /\ k \in Models /\ m \in Models
      BY <1>1 DEF Selections
    <2>2. PICK ck \in Nat, cm \in Nat, sk \in Nat, sm \in Nat :
             /\ ck = rows[i].cost[k] /\ cm = rows[i].cost[m]
             /\ sk = rows[i].score[k] /\ sm = rows[i].score[m]
      BY <2>1, RowFacts
    <2>3. PICK A \in Int, B \in Int, C \in Int, D \in Int :
             /\ A = sk * LightTotal * Unit /\ B = sm * LightTotal * Unit
             /\ C = ScoreScale * p /\ D = ScoreScale * q
      BY LightTotalPositive, UnitPositive
    <2>4. /\ Worth(i, k, p) = A - C * ck /\ Worth(i, m, p) = B - C * cm
          /\ Worth(i, k, q) = A - D * ck /\ Worth(i, m, q) = B - D * cm
      BY <2>2, <2>3 DEF Worth
    <2>5. Worth(i, m, p) <= Worth(i, k, p) /\ Worth(i, k, q) <= Worth(i, m, q)
      BY <1>1, <2>1, ChooseBest
    <2>6. /\ C * (ck - cm) = C * ck - C * cm /\ C * ck \in Int /\ C * cm \in Int
          /\ D * (ck - cm) = D * ck - D * cm /\ D * ck \in Int /\ D * cm \in Int
      BY Products
    <2>7. C * (ck - cm) <= D * (ck - cm)
      BY <2>4, <2>5, <2>6
    <2>8. D - C > 0 /\ D - C \in Int
      <3>1. D - C = ScoreScale * (q - p)
        BY <2>3, UnitPositive
      <3>2. ScoreScale * (q - p) > 0
        BY UnitPositive
      <3> QED BY <3>1, <3>2
    <2>9. (D - C) * (ck - cm) = D * (ck - cm) - C * (ck - cm)
          /\ D * (ck - cm) \in Int /\ C * (ck - cm) \in Int
      OBVIOUS
    <2>10. (D - C) * (ck - cm) >= 0
      BY <2>7, <2>9
    <2>11. ck - cm >= 0
      BY <2>8, <2>10, PositiveFactor
    <2> QED BY <2>1, <2>2, <2>11
  <1>3. PICK f, g : f = CostRow(Choose(q)) /\ g = CostRow(Choose(p))
    OBVIOUS
  <1>4. /\ \A i \in Episodes : f[i] \in Int /\ g[i] \in Int /\ f[i] <= g[i]
        /\ Cost(Choose(q)) = SumOver(f, Episodes)
        /\ Cost(Choose(p)) = SumOver(g, Episodes)
    BY <1>1, <1>2, <1>3, SumsOverRows
  <1>5. IsFiniteSet(Episodes)
    BY DEF BatchOK
  <1> QED BY <1>4, <1>5, SumMonotone

LEMMA CapType ==
    ASSUME BatchOK, tier.multiplier \in Nat, tier.safety \in Nat
    PROVE  Cap \in Nat
  <1>1. LightTotal \in Nat /\ Cost(base) \in Nat
    BY LightTotalPositive, SumsOverRows DEF BatchOK
  <1>2. PICK x \in Nat, y \in Nat :
           x = tier.multiplier * tier.safety /\ y = tier.multiplier * FillSafety
    BY DEF FillSafety
  <1> QED BY <1>1, <1>2 DEF Cap, AtLeast

\* When a penalty is too small, so are the smaller ones.
LEMMA TooSmallBelow ==
    ASSUME BatchOK, tier.multiplier \in Nat, tier.safety \in Nat,
           NEW q \in Nat, Over(Choose(q)), NEW p \in 0..q
    PROVE  Over(Choose(p))
  <1>1. p = q \/ p < q
    OBVIOUS
  <1>2. CASE p < q
    <2>1. Cost(Choose(q)) <= Cost(Choose(p))
      BY <1>2, DearerForLess
    <2>2. Cost(Choose(q)) \in Nat /\ Cost(Choose(p)) \in Nat
      BY ChooseBest, SumsOverRows DEF IsOffered
    <2> QED BY <2>1, <2>2, CapType DEF Over
  <1> QED BY <1>1, <1>2

-----------------------------------------------------------------------------
(* What is returned is the best for its cost.                              *)

\* A choice for a penalty is: what costs no more is worth no more.
LEMMA ChoiceIsBest ==
    ASSUME BatchOK, NEW p \in Nat, NEW s, IsOffered(s), Cost(s) <= Cost(Choose(p))
    PROVE  Score(s) <= Score(Choose(p))
  <1>1. s \in Selections /\ Choose(p) \in Selections
    BY ChooseBest DEF IsOffered
  <1>2. PICK t : t = Choose(p)
    OBVIOUS
  <1>3. PICK f, g : f = WorthRow(s, p) /\ g = WorthRow(t, p)
    OBVIOUS
  <1>4. \A i \in Episodes : f[i] \in Int /\ g[i] \in Int /\ f[i] <= g[i]
    BY <1>1, <1>2, <1>3, WorthOfSelection, ChooseBest DEF IsOffered
  <1>5. SumOver(f, Episodes) <= SumOver(g, Episodes)
    BY <1>4, SumMonotone DEF BatchOK
  <1>6. PICK A \in Int, B \in Int : /\ A = LightTotal * Unit /\ A > 0
                                    /\ B = ScoreScale * p /\ B >= 0
    BY LightTotalPositive, UnitPositive
  <1>7. PICK vs \in Nat, vt \in Nat, cs \in Nat, ct \in Nat :
           vs = Score(s) /\ vt = Score(t) /\ cs = Cost(s) /\ ct = Cost(t)
    BY <1>1, <1>2, SumsOverRows
  <1>8. A * vs - B * cs <= A * vt - B * ct
    BY <1>1, <1>2, <1>3, <1>5, <1>6, <1>7, WorthOfSelection
  <1>9. /\ A * (vt - vs) = A * vt - A * vs /\ A * vt \in Int /\ A * vs \in Int
        /\ B * (ct - cs) = B * ct - B * cs /\ B * ct \in Int /\ B * cs \in Int
    BY Products
  <1>10. B * (ct - cs) >= 0
    <2>1. ct - cs >= 0
      BY <1>2, <1>7
    <2> QED BY <1>6, <2>1
  <1>11. A * (vt - vs) >= 0
    BY <1>8, <1>9, <1>10
  <1>12. vt - vs >= 0
    BY <1>6, <1>11, PositiveFactor
  <1> QED BY <1>2, <1>7, <1>12

\* So is what the phase falls back to: nothing else offered costs no more.
LEMMA BaseIsBest ==
    ASSUME BatchOK, NEW s, IsOffered(s), Cost(s) <= Cost(base)
    PROVE  Score(s) <= Score(base)
  <1>1. s \in Selections /\ base \in Selections
    BY DEF IsOffered, BatchOK
  <1>2. ASSUME NEW i \in Episodes
        PROVE  s[i] = base[i] \/ rows[i].cost[base[i]] < rows[i].cost[s[i]]
    <2>1. s[i] \in Offered(i) /\ base[i] \in Models
      BY <1>1 DEF IsOffered, Selections
    <2>2. /\ rows[i].cost[1] < rows[i].cost[2] /\ rows[i].cost[2] < rows[i].cost[3]
          /\ rows[i].cost[1] \in Nat /\ rows[i].cost[2] \in Nat /\ rows[i].cost[3] \in Nat
      BY RowFacts DEF Models
    <2>3. base[i] = 1 \/ s[i] = base[i]
      BY <2>1, AllLightSelects DEF Offered, Light, BatchOK, Phases
    <2>4. base[i] = 1 => s[i] = 1 \/ s[i] = 2 \/ s[i] = 3
      BY <2>1 DEF Offered, Models, Light, Ax31
    <2> QED BY <2>2, <2>3, <2>4
  <1>3. PICK f, g : f = CostRow(base) /\ g = CostRow(s)
    OBVIOUS
  <1>4. \A i \in Episodes : /\ f[i] \in Int /\ g[i] \in Int /\ f[i] <= g[i]
                            /\ s[i] = base[i] \/ f[i] < g[i]
    BY <1>1, <1>2, <1>3, SumsOverRows
  <1>5. /\ SumOver(f, Episodes) \in Int /\ SumOver(g, Episodes) \in Int
        /\ (\E i \in Episodes : f[i] < g[i]) => SumOver(f, Episodes) < SumOver(g, Episodes)
    BY <1>4, SumMonotone DEF BatchOK
  <1>6. Cost(base) = SumOver(f, Episodes) /\ Cost(s) = SumOver(g, Episodes)
    BY <1>1, <1>3, SumsOverRows
  <1>7. \A i \in Episodes : s[i] = base[i]
    BY <1>4, <1>5, <1>6
  <1>8. s = base
    BY <1>1, <1>7 DEF Selections
  <1> QED BY <1>1, <1>8, SumsOverRows

\* Whichever the phase returns is, and it keeps the budget of the phase.
LEMMA SettledIsBest ==
    ASSUME BatchOK, NEW p \in Nat, NEW s, IsOffered(s),
           Cost(s) <= Cost(Settled(Choose(p)))
    PROVE  Score(s) <= Score(Settled(Choose(p)))
  BY ChoiceIsBest, BaseIsBest DEF Settled

LEMMA BaseIsOffered == ASSUME BatchOK PROVE IsOffered(base)
  BY OffersModels DEF IsOffered, BatchOK

LEMMA SettledIsOffered ==
    ASSUME BatchOK, NEW s, IsOffered(s) PROVE IsOffered(Settled(s))
  BY BaseIsOffered DEF Settled

Limits == tier.multiplier \in Nat /\ tier.safety \in Nat

LEMMA Growth ==
    ASSUME NEW a \in Nat, NEW x \in Int, NEW y \in Int, x <= y
    PROVE  a * x <= a * y /\ a * x \in Int /\ a * y \in Int
  <1>1. a * (y - x) = a * y - a * x /\ a * y \in Int /\ a * x \in Int
    BY Products
  <1>2. a * (y - x) >= 0
    OBVIOUS
  <1> QED BY <1>1, <1>2

LEMMA SelectAffords ==
    ASSUME BatchOK, Limits, phase = "select", NEW s, IsOffered(s)
    PROVE  10000 * Cost(Settled(s))
              <= LightTotal * AtLeast(10000, tier.multiplier * tier.safety)
  <1>1. PICK x \in Int, a \in Nat : x = tier.multiplier * tier.safety /\ a = LightTotal
    BY LightTotalPositive DEF Limits
  <1>2. AtLeast(10000, x) \in Int /\ 10000 <= AtLeast(10000, x)
    BY DEF AtLeast
  <1>3. a * 10000 <= a * AtLeast(10000, x) /\ a * AtLeast(10000, x) \in Int
    BY <1>2, Growth
  <1>4. Cap = a * AtLeast(10000, x)
    BY <1>1 DEF Cap
  <1>5. Cost(s) \in Nat
    BY SumsOverRows DEF IsOffered
  <1>6. CASE Over(s)
    <2>1. Settled(s) = AllLight
      BY <1>6 DEF Settled, BatchOK
    <2>2. Cost(Settled(s)) = a
      BY <1>1, <2>1 DEF LightTotal
    <2> QED BY <1>1, <1>3, <2>2
  <1>7. CASE ~Over(s)
    <2>1. Settled(s) = s
      BY <1>7 DEF Settled
    <2>2. ~(10000 * Cost(s) > Cap)
      BY <1>7 DEF Over
    <2> QED BY <1>1, <1>3, <1>4, <1>5, <2>1, <2>2
  <1> QED BY <1>6, <1>7

LEMMA FillAffords ==
    ASSUME BatchOK, Limits, phase = "fill", NEW s, IsOffered(s),
           10000 * Cost(base)
              <= LightTotal * AtLeast(10000, tier.multiplier * tier.safety)
    PROVE  10000 * Cost(Settled(s))
              <= LightTotal * AtLeast(10000,
                                 tier.multiplier * AtLeast(FillSafety, tier.safety))
  <1>1. PICK m \in Nat, f \in Nat, a \in Nat :
           m = tier.multiplier /\ f = tier.safety /\ a = LightTotal
    BY LightTotalPositive DEF Limits
  <1>2. PICK h \in Nat : h = AtLeast(FillSafety, f) /\ f <= h /\ 65 <= h
    BY DEF AtLeast, FillSafety
  <1>3. PICK x \in Int, y \in Int, z \in Int :
           x = m * f /\ y = m * 65 /\ z = m * h /\ x <= z /\ y <= z
    BY <1>2, Growth
  <1>4. PICK u \in Int, v \in Int, w \in Int :
           /\ u = AtLeast(10000, x) /\ v = AtLeast(10000, y) /\ w = AtLeast(10000, z)
           /\ u <= w /\ v <= w
    BY <1>3 DEF AtLeast
  <1>5. a * u <= a * w /\ a * v <= a * w /\ a * w \in Int /\ a * v \in Int /\ a * u \in Int
    BY <1>4, Growth
  <1>6. Cost(s) \in Nat /\ Cost(base) \in Nat
    BY SumsOverRows DEF IsOffered, BatchOK
  <1>7. 10000 * Cost(base) <= a * u
    BY <1>1, <1>3, <1>4
  <1>8. Cap = AtLeast(10000 * Cost(base), a * v)
    BY <1>1, <1>3, <1>4 DEF Cap, FillSafety
  <1>9. 10000 * Cost(Settled(s)) <= a * w
    <2>1. CASE Over(s)
      BY <1>5, <1>6, <1>7, <2>1 DEF Settled
    <2>2. CASE ~Over(s)
      <3>1. ~(10000 * Cost(s) > Cap)
        BY <2>2 DEF Over
      <3>2. 10000 * Cost(s) <= a * w
        BY <1>5, <1>6, <1>7, <1>8, <3>1 DEF AtLeast
      <3> QED BY <2>2, <3>2 DEF Settled
    <2> QED BY <2>1, <2>2
  <1> QED BY <1>1, <1>2, <1>3, <1>4, <1>9

-----------------------------------------------------------------------------
(* The steps of the allocator.                                             *)

\* Nothing that is computed changes while the batch and the phase do not.
LEMMA SameBatch ==
    ASSUME UNCHANGED <<rows, tier>>
    PROVE  /\ Episodes' = Episodes /\ Selections' = Selections
           /\ Premium' = Premium /\ LightTotal' = LightTotal /\ AllLight' = AllLight
           /\ \A s : Cost(s)' = Cost(s) /\ Score(s)' = Score(s)
  <1>1. Episodes' = Episodes /\ Premium' = Premium
    BY DEF Episodes, Premium
  <1>2. Selections' = Selections /\ AllLight' = AllLight
    BY <1>1 DEF Selections, AllLight
  <1>3. \A s : Cost(s)' = Cost(s) /\ Score(s)' = Score(s)
    BY <1>1 DEF Cost, Score
  <1>4. LightTotal' = LightTotal
    BY <1>2, <1>3 DEF LightTotal
  <1> QED BY <1>1, <1>2, <1>3, <1>4

LEMMA SamePhase ==
    ASSUME UNCHANGED <<rows, tier, phase, base>>
    PROVE  /\ \A s : (Over(s)' <=> Over(s)) /\ (IsOffered(s)' <=> IsOffered(s))
           /\ \A p : Choose(p)' = Choose(p)
           /\ \A s : Settled(s)' = Settled(s)
  <1>1. /\ Episodes' = Episodes /\ Selections' = Selections
        /\ LightTotal' = LightTotal
        /\ \A s : Cost(s)' = Cost(s)
    BY SameBatch
  <1>2. Cap' = Cap
    BY <1>1 DEF Cap
  <1>3. \A s : Over(s)' <=> Over(s)
    BY <1>1, <1>2 DEF Over
  <1>4. \A i : Offered(i)' = Offered(i)
    BY DEF Offered
  <1>5. \A s : IsOffered(s)' <=> IsOffered(s)
    BY <1>1, <1>4 DEF IsOffered
  <1>6. \A i, k, p : Worth(i, k, p)' = Worth(i, k, p)
    BY <1>1 DEF Worth
  <1>7. \A p : Choose(p)' = Choose(p)
    BY <1>1, <1>4, <1>6 DEF Choose
  <1>8. \A s : Settled(s)' = Settled(s)
    BY <1>3 DEF Settled
  <1> QED BY <1>3, <1>5, <1>7, <1>8

\* The steps of a search keep the batch, the phase and what it falls back to.
LEMMA SearchStep ==
    ASSUME BatchOK, SelectionOK, UNCHANGED <<rows, tier, phase, base>>,
           pc' \in {"double", "bisect", "settle"},
           low' \in Nat, high' \in Nat, step' \in Nat,
           \E p \in Nat : selected' = Choose(p)
    PROVE  BatchOK' /\ SelectionOK'
  <1>1. BatchOK'
    <2>1. Episodes' = Episodes /\ Selections' = Selections /\ AllLight' = AllLight
      BY SameBatch
    <2> QED BY <2>1 DEF BatchOK
  <1>2. PICK p \in Nat : selected' = Choose(p)
    OBVIOUS
  <1>3. IsOffered(selected)'
    <2>1. IsOffered(Choose(p))
      BY ChooseBest
    <2> QED BY <1>2, <2>1, SamePhase
  <1>4. selected' = Choose(p)'
    BY <1>2, SamePhase
  <1>5. phase' = "fill" => /\ Premium'
           /\ 10000 * Cost(base)'
                 <= LightTotal' * AtLeast(10000, tier'.multiplier * tier'.safety)
    BY SameBatch DEF SelectionOK
  <1> QED BY <1>1, <1>3, <1>4, <1>5 DEF SelectionOK, Places, AtLeast

LEMMA StartWithinKeeps ==
    ASSUME AllocInv, Limits, StartWithin PROVE BatchOK' /\ SelectionOK' /\ SearchOK'
  <1>1. /\ UNCHANGED <<rows, tier, phase, base>> /\ pc' = "settle"
        /\ selected' = Choose(0) /\ low' = 0 /\ high' = 0 /\ step' = 0
    BY DEF StartWithin, Goto
  <1>2. BatchOK' /\ SelectionOK'
    BY <1>1, SearchStep DEF AllocInv
  <1>3. SearchOK'
    BY <1>1 DEF SearchOK
  <1> QED BY <1>2, <1>3

LEMMA StartSearchKeeps ==
    ASSUME AllocInv, Limits, StartSearch PROVE BatchOK' /\ SelectionOK' /\ SearchOK'
  <1>1. /\ UNCHANGED <<rows, tier, phase, base>> /\ pc' = "double"
        /\ selected' = Choose(Unit) /\ low' = 0 /\ high' = Unit /\ step' = 0
        /\ Over(Choose(0))
    BY DEF StartSearch, Goto
  <1>2. BatchOK' /\ SelectionOK'
    BY <1>1, UnitPositive, SearchStep DEF AllocInv
  <1>3. SearchOK'
    <2>1. Chosen' /\ TooSmall'
      BY <1>1, SamePhase DEF Chosen, TooSmall
    <2>2. /\ high' = low' + 1 * PowerOfTwo[Iterations] /\ 1 \in Nat
          /\ high' = 1 * Unit
      BY <1>1, UnitPositive DEF Unit
    <2>3. \E g \in Nat : Bracket(g, Iterations)'
      BY <2>2 DEF Bracket
    <2> QED BY <1>1, <2>1, <2>2, <2>3 DEF SearchOK
  <1> QED BY <1>2, <1>3

LEMMA DoubleKeeps ==
    ASSUME AllocInv, Limits, Double PROVE BatchOK' /\ SelectionOK' /\ SearchOK'
  <1>1. /\ UNCHANGED <<rows, tier, phase, base>> /\ pc = "double" /\ pc' = "double"
        /\ selected' = Choose(2 * high) /\ low' = high /\ high' = 2 * high
        /\ step' = step /\ Over(selected)
    BY DEF Double, Goto, MayDouble
  <1>2. /\ low \in Nat /\ high \in Nat /\ step \in Nat /\ step = 0
        /\ selected = Choose(high)
    BY <1>1 DEF AllocInv, BatchOK, SearchOK, Chosen, TooSmall
  <1>3. PICK m \in Nat : high = m * Unit
    BY <1>1 DEF AllocInv, SearchOK
  <1>4. BatchOK' /\ SelectionOK'
    BY <1>1, <1>2, SearchStep DEF AllocInv
  <1>5. \A p \in 0..high : Over(Choose(p))
    BY <1>1, <1>2, TooSmallBelow DEF AllocInv, Limits
  <1>6. SearchOK'
    <2>1. Chosen' /\ TooSmall'
      BY <1>1, <1>5, SamePhase DEF Chosen, TooSmall
    <2>2. /\ high' = low' + m * PowerOfTwo[Iterations] /\ m * Unit <= low'
          /\ high' = (2 * m) * Unit /\ 2 * m \in Nat
      BY <1>1, <1>2, <1>3, UnitPositive DEF Unit
    <2>3. \E g \in Nat : Bracket(g, Iterations)'
      BY <2>2 DEF Bracket
    <2> QED BY <1>1, <1>2, <2>1, <2>2, <2>3 DEF SearchOK
  <1> QED BY <1>4, <1>6

LEMMA DoubleEndsKeeps ==
    ASSUME AllocInv, Limits, DoubleEnds PROVE BatchOK' /\ SelectionOK' /\ SearchOK'
  <1>1. /\ UNCHANGED <<rows, tier, phase, base, selected, low, high, step>>
        /\ pc = "double" /\ pc' = "bisect"
    BY DEF DoubleEnds, Goto
  <1>2. /\ low \in Nat /\ high \in Nat /\ step = 0
        /\ selected = Choose(high) /\ \A p \in 0..low : Over(Choose(p))
        /\ \E g \in Nat : Bracket(g, Iterations)
    BY <1>1 DEF AllocInv, BatchOK, SearchOK, Chosen, TooSmall
  <1>3. BatchOK' /\ SelectionOK'
    BY <1>1, <1>2, SearchStep DEF AllocInv
  <1>4. SearchOK'
    <2>1. Chosen' /\ TooSmall'
      BY <1>1, <1>2, SamePhase DEF Chosen, TooSmall
    <2>2. step' < Iterations /\ Iterations - step' = Iterations
      BY <1>1, <1>2, SearchAssumption DEF SearchAssumption
    <2>3. \E g \in Nat : Bracket(g, Iterations - step)'
      BY <1>1, <1>2, <2>2 DEF Bracket
    <2> QED BY <1>1, <2>1, <2>2, <2>3 DEF SearchOK
  <1> QED BY <1>3, <1>4

\* The middle of the bracket halves it exactly.
LEMMA Halved ==
    ASSUME NEW l \in Nat, NEW g \in Nat, NEW n \in Nat \ {0}
    PROVE  \E x \in Nat : /\ x = g * PowerOfTwo[n - 1]
                          /\ l + g * PowerOfTwo[n] = l + 2 * x
                          /\ (l + (l + g * PowerOfTwo[n])) \div 2 = l + x
  <1>1. n - 1 \in Nat /\ PowerOfTwo[n] = 2 * PowerOfTwo[n - 1]
    BY PowerRecursion
  <1>2. PICK y \in Nat : y = PowerOfTwo[n - 1]
    BY <1>1, PowerType
  <1>3. PICK x \in Nat : x = g * y
    OBVIOUS
  <1>4. g * PowerOfTwo[n] = 2 * x
    <2>1. g * (2 * y) = 2 * (g * y)
      OBVIOUS
    <2> QED BY <1>1, <1>2, <1>3, <2>1
  <1>5. (l + (l + 2 * x)) \div 2 = l + x
    OBVIOUS
  <1> QED BY <1>2, <1>3, <1>4, <1>5

LEMMA BisectKeeps ==
    ASSUME AllocInv, Limits, Bisect PROVE BatchOK' /\ SelectionOK' /\ SearchOK'
  <1>1. /\ UNCHANGED <<rows, tier, phase, base>> /\ pc = "bisect"
        /\ step' = step + 1
        /\ pc' = IF step + 1 = Iterations THEN "settle" ELSE "bisect"
    BY DEF Bisect, Goto
  <1>2. /\ low \in Nat /\ high \in Nat /\ step \in Nat /\ step < Iterations
        /\ selected = Choose(high) /\ \A p \in 0..low : Over(Choose(p))
        /\ Iterations \in Nat
    BY <1>1, SearchAssumption DEF AllocInv, BatchOK, SearchOK, Chosen, TooSmall, SearchAssumption
  <1>3. PICK g \in Nat : Bracket(g, Iterations - step)
    BY <1>1 DEF AllocInv, SearchOK
  <1>4. PICK n \in Nat \ {0} : n = Iterations - step
    BY <1>2
  <1>5. high = low + g * PowerOfTwo[n] /\ (g = 1 \/ g * Unit <= low)
    BY <1>3, <1>4 DEF Bracket
  <1>6. PICK x \in Nat : /\ x = g * PowerOfTwo[n - 1]
                         /\ high = low + 2 * x
                         /\ (low + high) \div 2 = low + x
    <2>1. PICK x \in Nat :
             /\ x = g * PowerOfTwo[n - 1]
             /\ low + g * PowerOfTwo[n] = low + 2 * x
             /\ (low + (low + g * PowerOfTwo[n])) \div 2 = low + x
      BY <1>2, Halved
    <2> QED BY <1>5, <2>1
  <1>7. PICK middle \in Nat : middle = low + x
    BY <1>2
  <1>8. /\ low' = Narrowed(middle).low /\ high' = Narrowed(middle).high
        /\ selected' = Narrowed(middle).to
    BY <1>6, <1>7 DEF Bisect
  <1>9. /\ low' \in Nat /\ high' \in Nat /\ low <= low' /\ high' = low' + x
        /\ selected' = Choose(high') /\ \A p \in 0..low' : Over(Choose(p))
    <2>1. CASE Over(Choose(middle))
      <3>1. low' = middle /\ high' = high /\ selected' = selected
        BY <1>8, <2>1 DEF Narrowed
      <3>2. \A p \in 0..middle : Over(Choose(p))
        BY <2>1, TooSmallBelow DEF AllocInv, Limits
      <3> QED BY <1>2, <1>6, <1>7, <3>1, <3>2
    <2>2. CASE ~Over(Choose(middle))
      <3>1. low' = low /\ high' = middle /\ selected' = Choose(middle)
        BY <1>8, <2>2 DEF Narrowed
      <3> QED BY <1>2, <1>6, <1>7, <3>1
    <2> QED BY <2>1, <2>2
  <1>10. BatchOK' /\ SelectionOK'
    <2>1. pc' \in {"double", "bisect", "settle"} /\ step' \in Nat
      BY <1>1, <1>2
    <2> QED BY <1>1, <1>9, <2>1, SearchStep DEF AllocInv
  <1>11. SearchOK'
    <2>1. Chosen' /\ TooSmall'
      BY <1>1, <1>9, SamePhase DEF Chosen, TooSmall
    <2>2. n - 1 = Iterations - step'
      BY <1>1, <1>2, <1>4
    <2>3. g = 1 \/ g * Unit <= low'
      <3>1. g * Unit \in Int
        BY UnitPositive
      <3> QED BY <1>2, <1>5, <1>9, <3>1
    <2>4. Bracket(g, n - 1)'
      BY <1>6, <1>9, <2>3 DEF Bracket
    <2>5. CASE step + 1 = Iterations
      <3>1. pc' = "settle" /\ n - 1 = 0
        BY <1>1, <1>2, <1>4, <2>5
      <3>2. \E h \in Nat : Bracket(h, 0)'
        BY <2>4, <3>1
      <3> QED BY <2>1, <3>1, <3>2 DEF SearchOK
    <2>6. CASE step + 1 # Iterations
      <3>1. pc' = "bisect" /\ step' < Iterations
        BY <1>1, <1>2, <2>6
      <3>2. \E h \in Nat : Bracket(h, Iterations - step)'
        BY <2>2, <2>4
      <3> QED BY <2>1, <3>1, <3>2 DEF SearchOK
    <2> QED BY <2>5, <2>6
  <1> QED BY <1>10, <1>11

\* What a phase returns as its best is the best of the state it leaves.
LEMMA Returned ==
    ASSUME UNCHANGED <<rows, tier, phase, base>>, NEW t, selected' = t,
           \A s : IsOffered(s) /\ Cost(s) <= Cost(t) => Score(s) <= Score(t)
    PROVE  BestForItsCost'
  <1>1. /\ Episodes' = Episodes /\ Selections' = Selections
        /\ \A s : Cost(s)' = Cost(s) /\ Score(s)' = Score(s)
    BY SameBatch
  <1>2. \A i : Offered(i)' = Offered(i)
    BY DEF Offered
  <1>3. Cost(selected)' = Cost(t) /\ Score(selected)' = Score(t)
    BY <1>1
  <1>4. \A s \in Selections :
           (\A i \in Episodes : s[i] \in Offered(i)) /\ Cost(s) <= Cost(t)
              => Score(s) <= Score(t)
    BY DEF IsOffered
  <1> QED BY <1>1, <1>2, <1>3, <1>4 DEF BestForItsCost

LEMMA SelectReturnsKeeps ==
    ASSUME AllocInv, Limits, SelectReturns PROVE BatchOK' /\ SelectionOK' /\ SearchOK'
  <1>1. /\ UNCHANGED <<rows, tier>> /\ pc = "settle" /\ phase = "select"
        /\ selected' = Settled(selected) /\ BatchOK /\ SelectionOK
    BY DEF SelectReturns, AllocInv
  <1>2. PICK p \in Nat : selected = Choose(p)
    BY <1>1 DEF SelectionOK
  <1>3. PICK t : t = Settled(selected) /\ IsOffered(t) /\ selected' = t
    BY <1>1, <1>2, ChooseBest, SettledIsOffered
  <1>4. 10000 * Cost(t) <= LightTotal * AtLeast(10000, tier.multiplier * tier.safety)
    BY <1>1, <1>2, <1>3, ChooseBest, SelectAffords
  <1>5. CASE Premium
    <2>1. /\ phase' = "fill" /\ pc' = "start" /\ base' = t
          /\ low' = 0 /\ high' = 0 /\ step' = 0
      BY <1>3, <1>5 DEF SelectReturns
    <2>2. BatchOK'
      <3>1. Episodes' = Episodes /\ Selections' = Selections
        BY <1>1, SameBatch
      <3> QED BY <1>1, <1>3, <2>1, <3>1 DEF BatchOK, IsOffered, Phases
    <2>3. IsOffered(selected)'
      <3>1. Episodes' = Episodes /\ Selections' = Selections
        BY <1>1, SameBatch
      <3>2. \A i \in Episodes : t[i] \in Offered(i)'
        BY <2>1 DEF Offered
      <3> QED BY <1>3, <3>1, <3>2 DEF IsOffered
    <2>4. Premium' /\ 10000 * Cost(base)'
                         <= LightTotal' * AtLeast(10000, tier'.multiplier * tier'.safety)
      BY <1>1, <1>4, <1>5, <2>1, SameBatch DEF Cost
    <2>5. SelectionOK'
      BY <2>1, <2>3, <2>4 DEF SelectionOK, Places, AtLeast
    <2>6. SearchOK'
      BY <2>1 DEF SearchOK
    <2> QED BY <2>2, <2>5, <2>6
  <1>6. CASE ~Premium
    <2>1. /\ pc' = "done" /\ UNCHANGED <<phase, base, low, high, step>>
      BY <1>6 DEF SelectReturns
    <2>2. BatchOK'
      <3>1. Episodes' = Episodes /\ Selections' = Selections /\ AllLight' = AllLight
        BY <1>1, SameBatch
      <3> QED BY <1>1, <2>1, <3>1 DEF BatchOK
    <2>3. IsOffered(selected)'
      BY <1>1, <1>3, <2>1, SamePhase
    <2>4. WithinBudget'
      BY <1>1, <1>3, <1>4, <1>6, <2>1, SameBatch DEF WithinBudget
    <2>5. \A s : IsOffered(s) /\ Cost(s) <= Cost(t) => Score(s) <= Score(t)
      BY <1>1, <1>2, <1>3, SettledIsBest
    <2>6. BestForItsCost'
      BY <1>1, <1>3, <2>1, <2>5, Returned
    <2>7. SelectionOK'
      BY <1>1, <1>6, <2>1, <2>3, <2>4, <2>6, SameBatch DEF SelectionOK, Places
    <2>8. SearchOK'
      BY <2>1 DEF SearchOK
    <2> QED BY <2>2, <2>7, <2>8
  <1> QED BY <1>5, <1>6

LEMMA FillReturnsKeeps ==
    ASSUME AllocInv, Limits, FillReturns PROVE BatchOK' /\ SelectionOK' /\ SearchOK'
  <1>1. /\ UNCHANGED <<rows, tier, phase, base, low, high, step>>
        /\ pc = "settle" /\ phase = "fill" /\ pc' = "done"
        /\ selected' = Settled(selected) /\ BatchOK /\ SelectionOK
    BY DEF FillReturns, Goto, AllocInv
  <1>2. PICK p \in Nat : selected = Choose(p)
    BY <1>1 DEF SelectionOK
  <1>3. PICK t : t = Settled(selected) /\ IsOffered(t) /\ selected' = t
    BY <1>1, <1>2, ChooseBest, SettledIsOffered
  <1>4. Premium /\ 10000 * Cost(t)
                      <= LightTotal * AtLeast(10000,
                            tier.multiplier * AtLeast(FillSafety, tier.safety))
    BY <1>1, <1>2, <1>3, ChooseBest, FillAffords DEF SelectionOK
  <1>5. BatchOK'
    <2>1. Episodes' = Episodes /\ Selections' = Selections /\ AllLight' = AllLight
      BY <1>1, SameBatch
    <2> QED BY <1>1, <2>1 DEF BatchOK
  <1>6. IsOffered(selected)'
    BY <1>1, <1>3, SamePhase
  <1>7. WithinBudget'
    BY <1>1, <1>3, <1>4, SameBatch DEF WithinBudget, AtLeast, FillSafety
  <1>8. \A s : IsOffered(s) /\ Cost(s) <= Cost(t) => Score(s) <= Score(t)
    BY <1>1, <1>2, <1>3, SettledIsBest
  <1>9. BestForItsCost'
    BY <1>1, <1>3, <1>8, Returned
  <1>10. phase' = "fill" => /\ Premium'
           /\ 10000 * Cost(base)'
                 <= LightTotal' * AtLeast(10000, tier'.multiplier * tier'.safety)
    BY <1>1, SameBatch DEF SelectionOK
  <1>11. SelectionOK'
    BY <1>1, <1>6, <1>7, <1>9, <1>10 DEF SelectionOK, Places, AtLeast
  <1>12. SearchOK'
    BY <1>1 DEF SearchOK
  <1> QED BY <1>5, <1>11, <1>12
-----------------------------------------------------------------------------
(* The invariant of the allocator in every evaluation.                     *)

\* A batch of predictions is as the allocator needs it.
LEMMA BatchBegins ==
    ASSUME NEW n \in Nat \ {0}, NEW r, r \in [1..n -> Rows]
    PROVE  IsFiniteSet(DOMAIN r) /\ DOMAIN r # {} /\ \A i \in DOMAIN r : r[i] \in Rows
  <1>1. IsFiniteSet(1..n)
    BY FS_Interval
  <1>2. 1 \in 1..n
    OBVIOUS
  <1> QED BY <1>1, <1>2

\* A percentage that a valid policy allows is a number.
LEMMA MultiplierType ==
    ASSUME NEW root, ParsesPolicy(root), NEW name \in KnownTiers
    PROVE  root.tiers[name].budget_multiplier \in Nat
  <1>1. IsDecimal(root.tiers[name].budget_multiplier, 1)
    BY DEF ParsesPolicy, ParsesTier
  <1> QED BY <1>1 DEF IsDecimal

\* A multiple that fits goes into the quotient.
LEMMA Quotient ==
    ASSUME NEW u \in Nat \ {0}, NEW g \in Nat, NEW h \in Nat, g * u <= h
    PROVE  g <= h \div u
  <1>1. PICK d \in Int, r \in Int : d = h \div u /\ h = u * d + r /\ r < u
    <2>1. h = u * (h \div u) + (h % u) /\ h % u \in 0..(u - 1) /\ h \div u \in Int
      OBVIOUS
    <2> QED BY <2>1
  <1>2. SUFFICES ASSUME d + 1 <= g PROVE FALSE
    BY <1>1
  <1>3. u * (d + 1) <= u * g /\ u * g = g * u
    BY <1>2, Growth
  <1>4. u * (d + 1) = u * d + u /\ u * d \in Int
    OBVIOUS
  <1> QED BY <1>1, <1>3, <1>4

LEMMA AllocInit == Init => AllocInv
  <1> SUFFICES ASSUME Init PROVE AllocInv
    OBVIOUS
  <1>1. PICK n \in 1..MaxEpisodes :
            content \in [1..n -> IF n < 4 THEN Rows ELSE AuditedRows]
    BY DEF Init
  <1>2. n \in Nat \ {0} /\ content \in [1..n -> Rows]
    BY <1>1, EvaluationAssumption DEF EvaluationAssumption
  <1>3. content \in Seq(Rows) /\ Len(content) > 0
    BY <1>2
  <1>4. /\ rows = content /\ phase = "select" /\ pc = "start"
        /\ base = [i \in DOMAIN content |-> Light]
        /\ selected = [i \in DOMAIN content |-> Light]
        /\ low = 0 /\ high = 0 /\ step = 0
    BY DEF Init, Begun
  <1>5. base = AllLight /\ selected = base
    BY <1>4 DEF AllLight, Episodes
  <1>6. BatchOK
    BY <1>2, <1>4, <1>5, BatchBegins, AllLightSelects
    DEF BatchOK, Phases, Episodes
  <1>7. SelectionOK
    BY <1>4, <1>5, <1>6, BaseIsOffered DEF SelectionOK, Places
  <1>8. SearchOK
    BY <1>4 DEF SearchOK
  <1>9. router = "public" => tier.multiplier \in Nat /\ tier.safety \in Nat
    <2> SUFFICES ASSUME router = "public"
                 PROVE  tier.multiplier \in Nat /\ tier.safety \in Nat
      OBVIOUS
    <2>1. PICK p \in Policies : policy = File(p)
      BY DEF Init
    <2>2. ParsesPolicy(p) /\ policy.root = p /\ policy.reads
      BY <2>1, EvaluationAssumption DEF EvaluationAssumption, File
    <2>3. artifact \in Artifacts
      BY DEF Init
    <2>4. PICK name \in KnownTiers :
              tier = [name |-> name, safety |-> artifact.safety[name],
                      multiplier |-> IF PolicyLoads THEN Multiplier(name) ELSE 0]
      BY DEF Init
    <2>5. artifact.safety[name] \in 1..100
      BY <2>3, EvaluationAssumption DEF EvaluationAssumption
    <2>6. PolicyLoads /\ Multiplier(name) = p.tiers[name].budget_multiplier
      BY <2>2 DEF PolicyLoads, Loads, Multiplier, Rules, ParsedPolicy
    <2>7. Multiplier(name) \in Nat
      BY <2>2, <2>6, MultiplierType
    <2> QED BY <2>4, <2>5, <2>6, <2>7
  <1> QED BY <1>3, <1>4, <1>6, <1>7, <1>8, <1>9 DEF AllocInv, LimitsOK

\* Every step of the allocator keeps it.
LEMMA AllocateKeeps == ASSUME AllocInv, Allocate PROVE AllocInv'
  <1>1. router = "public" /\ AllocateTier /\ UNCHANGED <<evalVars, stage>>
    BY DEF Allocate
  <1>2. Limits
    BY <1>1 DEF AllocInv, LimitsOK, Limits
  <1>3. BatchOK' /\ SelectionOK' /\ SearchOK'
    BY <1>1, <1>2, StartWithinKeeps, StartSearchKeeps, DoubleKeeps, DoubleEndsKeeps,
       BisectKeeps, SelectReturnsKeeps, FillReturnsKeeps
    DEF AllocateTier
  <1>4. tier' = tier
    BY <1>1 DEF AllocateTier, StartWithin, StartSearch, Double, DoubleEnds, Bisect,
                SelectReturns, FillReturns, Goto
  <1>5. LimitsOK'
    BY <1>1, <1>4 DEF AllocInv, LimitsOK, evalVars
  <1> QED BY <1>3, <1>5 DEF AllocInv

\* The variant of a batch is a batch; the search begins again.
LEMMA VariantKeeps == ASSUME AllocInv, MakeVariant PROVE AllocInv'
  <1>1. PICK order \in Sorted(Size) :
            Begin([k \in 1..Size |-> content[Reordered(order, Size)[k]]])
    BY DEF MakeVariant
  <1>2. PICK r : r = [k \in 1..Size |-> content[Reordered(order, Size)[k]]]
    OBVIOUS
  <1>3. Size \in Nat \ {0} /\ content \in [1..Size -> Rows]
    BY DEF AllocInv, LimitsOK, Size
  <1>4. Reordered(order, Size) \in [1..Size -> 1..Size]
    BY <1>3, ReorderedSorted DEF Sorted
  <1>5. r \in [1..Size -> Rows]
    BY <1>2, <1>3, <1>4
  <1>6. /\ rows' = r /\ phase' = "select" /\ pc' = "start"
        /\ base' = [i \in DOMAIN r |-> Light]
        /\ selected' = [i \in DOMAIN r |-> Light]
        /\ low' = 0 /\ high' = 0 /\ step' = 0 /\ tier' = tier
    BY <1>1, <1>2 DEF Begin
  <1>7. /\ base' = AllLight' /\ selected' = base' /\ Episodes' = DOMAIN r
        /\ base' \in Selections'
    BY <1>6 DEF AllLight, Episodes, Selections, Light, Models
  <1>8. BatchOK'
    <2>1. IsFiniteSet(DOMAIN r) /\ DOMAIN r # {} /\ \A i \in DOMAIN r : r[i] \in Rows
      BY <1>3, <1>5, BatchBegins
    <2> QED BY <1>6, <1>7, <2>1 DEF BatchOK, Phases
  <1>9. SelectionOK'
    <2>1. \A i \in DOMAIN r : selected'[i] \in Offered(i)'
      BY <1>6 DEF Offered, Light, Models
    <2> QED BY <1>6, <1>7, <2>1 DEF SelectionOK, Places, IsOffered
  <1>10. SearchOK'
    BY <1>6 DEF SearchOK
  <1>11. LimitsOK'
    BY <1>6 DEF AllocInv, LimitsOK, MakeVariant, evalVars
  <1> QED BY <1>8, <1>9, <1>10, <1>11 DEF AllocInv

\* The others leave the allocator alone.
LEMMA AllocatorUntouched ==
    ASSUME AllocInv, UNCHANGED allocatorVars, UNCHANGED evalVars PROVE AllocInv'
  <1>1. UNCHANGED <<rows, tier, phase, pc, base, selected, low, high, step>>
        /\ router' = router /\ content' = content
    BY DEF allocatorVars, evalVars
  <1>2. BatchOK'
    BY <1>1, SameBatch DEF AllocInv, BatchOK
  <1>3. \A g, h : Bracket(g, h)' <=> Bracket(g, h)
    BY <1>1 DEF Bracket
  <1>4. (Chosen' <=> Chosen) /\ (TooSmall' <=> TooSmall)
    BY <1>1, SamePhase DEF Chosen, TooSmall
  <1>5. SearchOK'
    BY <1>1, <1>3, <1>4 DEF AllocInv, SearchOK
  <1>6. (WithinBudget' <=> WithinBudget) /\ (BestForItsCost' <=> BestForItsCost)
    <2>1. \A i : Offered(i)' = Offered(i)
      BY <1>1 DEF Offered
    <2> QED BY <1>1, <2>1, SameBatch DEF WithinBudget, BestForItsCost
  <1>7. SelectionOK'
    BY <1>1, <1>6, SameBatch, SamePhase DEF AllocInv, SelectionOK
  <1>8. LimitsOK'
    BY <1>1 DEF AllocInv, LimitsOK
  <1> QED BY <1>2, <1>5, <1>7, <1>8 DEF AllocInv

LEMMA AllocStep == AllocInv /\ [Next]_vars => AllocInv'
  <1> SUFFICES ASSUME AllocInv, [Next]_vars PROVE AllocInv'
    OBVIOUS
  <1>1. CASE Allocate
    BY <1>1, AllocateKeeps
  <1>2. CASE MakeVariant
    BY <1>2, VariantKeeps
  <1>3. ASSUME UNCHANGED allocatorVars, UNCHANGED evalVars PROVE AllocInv'
    BY <1>3, AllocatorUntouched
  <1>4. CASE RefuseToRoute
    BY <1>3, <1>4 DEF RefuseToRoute
  <1>5. CASE WriteSubmission
    BY <1>3, <1>5 DEF WriteSubmission
  <1>6. CASE OtherSubmission
    BY <1>3, <1>6 DEF OtherSubmission
  <1>7. CASE Validate
    BY <1>3, <1>7 DEF Validate
  <1>8. CASE WriteVariant
    BY <1>3, <1>8 DEF WriteVariant
  <1>9. CASE SelfCheck
    BY <1>3, <1>9 DEF SelfCheck
  <1>10. CASE UNCHANGED vars
    BY <1>3, <1>10 DEF vars
  <1> QED
    BY <1>1, <1>2, <1>4, <1>5, <1>6, <1>7, <1>8, <1>9, <1>10 DEF Next

-----------------------------------------------------------------------------
\* What the search knows at every step: the choice it holds is that of the upper
\* penalty, no penalty up to the lower one is enough, and the bracket has the
\* width that is left after the halvings.
THEOREM AllocatorInvariance == Spec => []AllocInv
  BY AllocInit, AllocStep, PTL DEF Spec

\* The allocation a public router writes keeps its budget and is the best of
\* those that cost no more, for every batch, budget and number of search steps.
THEOREM AllocationsAreBestWithinBudget == Spec => []BestWithinBudget
  <1>1. AllocInv => BestWithinBudget
    BY DEF AllocInv, SelectionOK, BestWithinBudget
  <1> QED BY <1>1, AllocatorInvariance, PTL

\* The search does not stop at a penalty that is higher than needed by more than
\* the last halving of its bracket.
THEOREM PenaltiesAreLeast == Spec => []LeastPenalty
  <1>1. ASSUME AllocInv PROVE LeastPenalty
    <2> SUFFICES ASSUME pc = "settle", high > 0
                 PROVE  /\ selected = Choose(high)
                        /\ \A p \in 0..(high - AtLeast(1, high \div Unit)) :
                              Over(Choose(p))
      BY DEF LeastPenalty
    <2>1. /\ selected = Choose(high) /\ \A p \in 0..low : Over(Choose(p))
          /\ low \in Nat /\ high \in Nat
      BY <1>1 DEF AllocInv, SearchOK, BatchOK, Chosen, TooSmall
    <2>2. PICK g \in Nat : Bracket(g, 0)
      BY <1>1 DEF AllocInv, SearchOK
    <2>3. PowerOfTwo[0] = 1
      BY PowerRecursion
    <2>4. high = low + g /\ (g = 1 \/ g * Unit <= low)
      BY <2>2, <2>3 DEF Bracket
    <2>5. PICK u \in Nat \ {0} : u = Unit
      BY UnitPositive
    <2>6. PICK d \in Int : d = high \div u
      BY <2>1, <2>5
    <2>7. g = 1 \/ g <= d
      <3>1. ASSUME g * u <= high PROVE g <= d
        BY <2>1, <2>5, <2>6, <3>1, Quotient
      <3> QED BY <2>1, <2>4, <2>5, <3>1
    <2>8. g <= AtLeast(1, d)
      BY <2>7, <2>6 DEF AtLeast
    <2>9. AtLeast(1, d) \in Int
      BY <2>6 DEF AtLeast
    <2>10. \A p \in 0..(high - AtLeast(1, d)) : p \in 0..low
      BY <2>1, <2>4, <2>8, <2>9
    <2> QED BY <2>1, <2>5, <2>6, <2>10
  <1> QED BY <1>1, AllocatorInvariance, PTL

-----------------------------------------------------------------------------
(* The search as a run of its own: the states it may be in for the rows rs, *)
(* and its steps, without the variables of the model.                      *)

SearchStates(rs) ==
    [phase : Phases, pc : Places, base : [DOMAIN rs -> Models],
     selected : [DOMAIN rs -> Models], low : Nat, high : Nat, step : Nat]

CostIn(rs, s) == SumOver([i \in DOMAIN rs |-> rs[i].cost[s[i]]], DOMAIN rs)
LightIn(rs) == CostIn(rs, [i \in DOMAIN rs |-> Light])
CapIn(lim, rs, x) ==
    IF x.phase = "select"
    THEN LightIn(rs) * AtLeast(10000, lim.multiplier * lim.safety)
    ELSE AtLeast(10000 * CostIn(rs, x.base),
                 LightIn(rs) * AtLeast(10000, lim.multiplier * FillSafety))
OverIn(lim, rs, x, s) == 10000 * CostIn(rs, s) > CapIn(lim, rs, x)
OfferedIn(x, i) ==
    IF x.phase = "select" THEN Models
    ELSE IF x.base[i] = Light THEN {Light, Ax31} ELSE {x.base[i]}
WorthIn(rs, i, p) ==
    [k \in Models |-> rs[i].score[k] * LightIn(rs) * Unit
                          - ScoreScale * p * rs[i].cost[k]]
IsBest(O, w, k) ==
    /\ k \in O
    /\ \A j \in O : w[k] > w[j] \/ (w[k] = w[j] /\ k <= j)
Best(O, w) == CHOOSE k : IsBest(O, w, k)
ChooseIn(rs, x, p) == [i \in DOMAIN rs |-> Best(OfferedIn(x, i), WorthIn(rs, i, p))]
SettledIn(lim, rs, x) == IF OverIn(lim, rs, x, x.selected) THEN x.base ELSE x.selected

Begins(rs, x) ==
    /\ x.phase = "select" /\ x.pc = "start"
    /\ x.base = [i \in DOMAIN rs |-> Light] /\ x.selected = x.base
    /\ x.low = 0 /\ x.high = 0 /\ x.step = 0

SearchesOn(x, y, l) == y.pc = l /\ y.phase = x.phase /\ y.base = x.base
Bracketed(y, from, to, n) == y.low = from /\ y.high = to /\ y.step = n
Steps(lim, rs, x, y) ==
    \/ /\ x.pc = "start" /\ ~OverIn(lim, rs, x, ChooseIn(rs, x, 0))
       /\ SearchesOn(x, y, "settle")
       /\ y.selected = ChooseIn(rs, x, 0) /\ Bracketed(y, 0, 0, 0)
    \/ /\ x.pc = "start" /\ OverIn(lim, rs, x, ChooseIn(rs, x, 0))
       /\ SearchesOn(x, y, "double")
       /\ y.selected = ChooseIn(rs, x, Unit) /\ Bracketed(y, 0, Unit, 0)
    \/ /\ x.pc = "double" /\ OverIn(lim, rs, x, x.selected) /\ x.high < MaxHigh
       /\ SearchesOn(x, y, "double")
       /\ y.selected = ChooseIn(rs, x, 2 * x.high)
       /\ Bracketed(y, x.high, 2 * x.high, x.step)
    \/ /\ x.pc = "double" /\ ~ (OverIn(lim, rs, x, x.selected) /\ x.high < MaxHigh)
       /\ SearchesOn(x, y, "bisect")
       /\ y.selected = x.selected /\ Bracketed(y, x.low, x.high, x.step)
    \/ /\ x.pc = "bisect"
       /\ SearchesOn(x, y, IF x.step + 1 = Iterations THEN "settle" ELSE "bisect")
       /\ LET middle == (x.low + x.high) \div 2
          IN IF OverIn(lim, rs, x, ChooseIn(rs, x, middle))
             THEN /\ y.selected = x.selected
                  /\ Bracketed(y, middle, x.high, x.step + 1)
             ELSE /\ y.selected = ChooseIn(rs, x, middle)
                  /\ Bracketed(y, x.low, middle, x.step + 1)
    \/ /\ x.pc = "settle" /\ x.phase = "select" /\ lim.name = "premium"
       /\ y.phase = "fill" /\ y.pc = "start"
       /\ y.base = SettledIn(lim, rs, x) /\ y.selected = SettledIn(lim, rs, x)
       /\ Bracketed(y, 0, 0, 0)
    \/ /\ x.pc = "settle" /\ ~ (x.phase = "select" /\ lim.name = "premium")
       /\ SearchesOn(x, y, "done")
       /\ y.selected = SettledIn(lim, rs, x) /\ Bracketed(y, x.low, x.high, x.step)

\* A run of the search that has come to x.
IsRun(lim, rs, g, n) ==
    /\ n \in Nat /\ \A k \in 0..n : g[k] \in SearchStates(rs)
    /\ Begins(rs, g[0])
    /\ \A k \in 0..n : k # n => Steps(lim, rs, g[k], g[k + 1])
Reaches(lim, rs, x) == \E g, n : IsRun(lim, rs, g, n) /\ g[n] = x

-----------------------------------------------------------------------------
\* The best offer is one model.
LEMMA BestIs ==
    ASSUME NEW O \in SUBSET Models, O # {}, NEW w, \A k \in Models : w[k] \in Int
    PROVE  /\ Best(O, w) \in Models /\ IsBest(O, w, Best(O, w))
           /\ \A k : IsBest(O, w, k) => k = Best(O, w)
  <1>1. \E k : IsBest(O, w, k)
    BY BestModel DEF IsBest
  <1>2. IsBest(O, w, Best(O, w))
    BY <1>1 DEF Best
  <1>3. ASSUME NEW k, IsBest(O, w, k), NEW j, IsBest(O, w, j) PROVE k = j
    <2>1. k \in Models /\ j \in Models /\ k \in O /\ j \in O
      BY <1>3 DEF IsBest
    <2>2. k \in Int /\ j \in Int /\ w[k] \in Int /\ w[j] \in Int
      BY <2>1 DEF Models
    <2>3. /\ w[k] > w[j] \/ (w[k] = w[j] /\ k <= j)
          /\ w[j] > w[k] \/ (w[j] = w[k] /\ j <= k)
      BY <1>3, <2>1 DEF IsBest
    <2> QED BY <2>2, <2>3
  <1> QED BY <1>2, <1>3 DEF IsBest

\* What rows cost, one by one.
LEMMA RowTypes ==
    ASSUME NEW r \in Rows, NEW k \in Models
    PROVE  r.score[k] \in Nat /\ r.cost[k] \in Nat
  <1>1. r.score \in [Models -> Nat] /\ r.cost \in [Models -> Nat \ {0}]
    BY RowsAssumption DEF RowsAssumption
  <1> QED BY <1>1

LEMMA CostInType ==
    ASSUME NEW rs, IsFiniteSet(DOMAIN rs), \A i \in DOMAIN rs : rs[i] \in Rows,
           NEW s, \A i \in DOMAIN rs : s[i] \in Models
    PROVE  CostIn(rs, s) \in Nat
  <1> DEFINE f == [i \in DOMAIN rs |-> rs[i].cost[s[i]]]
  <1>1. \A i \in DOMAIN rs : f[i] \in Nat
    BY RowTypes
  <1>2. SumOver(f, DOMAIN rs) \in Nat
    BY <1>1, SumType
  <1> QED BY <1>2 DEF CostIn

LEMMA LightInType ==
    ASSUME NEW rs, IsFiniteSet(DOMAIN rs), \A i \in DOMAIN rs : rs[i] \in Rows
    PROVE  LightIn(rs) \in Nat
  BY CostInType DEF LightIn, Light, Models

LEMMA WorthInType ==
    ASSUME NEW rs, IsFiniteSet(DOMAIN rs), \A i \in DOMAIN rs : rs[i] \in Rows,
           NEW i \in DOMAIN rs, NEW p \in Nat
    PROVE  \A k \in Models : WorthIn(rs, i, p)[k] \in Int
  <1> TAKE k \in Models
  <1>1. PICK l \in Nat : l = LightIn(rs)
    BY LightInType
  <1>2. PICK s \in Nat, c \in Nat : s = rs[i].score[k] /\ c = rs[i].cost[k]
    BY RowTypes
  <1>3. PICK u \in Nat, q \in Nat : u = Unit /\ q = ScoreScale
    BY UnitPositive
  <1>4. s * l * u - q * p * c \in Int
    OBVIOUS
  <1>5. WorthIn(rs, i, p)[k] = s * l * u - q * p * c
    BY <1>1, <1>2, <1>3 DEF WorthIn
  <1> QED BY <1>4, <1>5

LEMMA OfferedInType ==
    ASSUME NEW rs, NEW x \in SearchStates(rs), NEW i \in DOMAIN rs
    PROVE  OfferedIn(x, i) \in SUBSET Models /\ OfferedIn(x, i) # {}
  <1>1. x.base[i] \in Models
    BY DEF SearchStates
  <1> QED BY <1>1 DEF OfferedIn, Models, Light, Ax31

LEMMA ChooseInType ==
    ASSUME NEW rs, IsFiniteSet(DOMAIN rs), \A i \in DOMAIN rs : rs[i] \in Rows,
           NEW x \in SearchStates(rs), NEW p \in Nat
    PROVE  ChooseIn(rs, x, p) \in [DOMAIN rs -> Models]
  <1>1. \A i \in DOMAIN rs : Best(OfferedIn(x, i), WorthIn(rs, i, p)) \in Models
    BY WorthInType, OfferedInType, BestIs
  <1> QED BY <1>1 DEF ChooseIn

-----------------------------------------------------------------------------
(* The same rows in another order.                                         *)

IsTwin(n, order, rs, rp) ==
    /\ n \in Nat /\ order \in Sorted(n) /\ rs \in [1..n -> Rows]
    /\ rp = [k \in 1..n |-> rs[order[k]]]
Alike(n, order, s, t) == \A k \in 1..n : t[k] = s[order[k]]
Mirrors(n, order, x, y) ==
    /\ y.phase = x.phase /\ y.pc = x.pc
    /\ y.low = x.low /\ y.high = x.high /\ y.step = x.step
    /\ Alike(n, order, x.base, y.base)
    /\ Alike(n, order, x.selected, y.selected)

LEMMA TwinTypes ==
    ASSUME NEW n, NEW order, NEW rs, NEW rp, IsTwin(n, order, rs, rp)
    PROVE  /\ n \in Nat /\ DOMAIN rs = 1..n /\ DOMAIN rp = 1..n
           /\ IsFiniteSet(1..n)
           /\ \A i \in 1..n : rs[i] \in Rows
           /\ \A k \in 1..n : order[k] \in 1..n /\ rp[k] = rs[order[k]]
           /\ \A i \in 1..n : rp[i] \in Rows
           /\ order \in [1..n -> 1..n]
           /\ \A j, k \in 1..n : order[j] = order[k] => j = k
           /\ \A i \in 1..n : \E k \in 1..n : order[k] = i
  <1>1. n \in Nat /\ order \in Sorted(n) /\ rs \in [1..n -> Rows]
        /\ rp = [k \in 1..n |-> rs[order[k]]]
    BY DEF IsTwin
  <1>2. /\ order \in [1..n -> 1..n]
        /\ \A j, k \in 1..n : order[j] = order[k] => j = k
    BY <1>1 DEF Sorted
  <1>3. \A i \in 1..n : \E k \in 1..n : order[k] = i
    BY <1>1, SortedIsOnto
  <1>4. IsFiniteSet(1..n)
    BY <1>1, FS_Interval
  <1> QED BY <1>1, <1>2, <1>3, <1>4

\* The order does not matter to what the rows cost.
LEMMA CostTwin ==
    ASSUME NEW n, NEW order, NEW rs, NEW rp, IsTwin(n, order, rs, rp),
           NEW s, NEW t, \A i \in 1..n : s[i] \in Models, Alike(n, order, s, t)
    PROVE  /\ CostIn(rp, t) = CostIn(rs, s) /\ CostIn(rs, s) \in Nat
           /\ \A k \in 1..n : t[k] \in Models
  <1> DEFINE f == [i \in 1..n |-> rs[i].cost[s[i]]]
             g == [i \in 1..n |-> rp[i].cost[t[i]]]
  <1>1. CostIn(rs, s) = SumOver(f, 1..n) /\ CostIn(rp, t) = SumOver(g, 1..n)
    BY TwinTypes DEF CostIn
  <1>0. /\ IsFiniteSet(1..n) /\ \A i \in 1..n : rs[i] \in Rows
        /\ DOMAIN rs = 1..n
        /\ order \in [1..n -> 1..n]
        /\ \A j, k \in 1..n : order[j] = order[k] => j = k
        /\ \A i \in 1..n : \E k \in 1..n : order[k] = i
    BY TwinTypes
  <1>2. \A k \in 1..n : order[k] \in 1..n /\ t[k] = s[order[k]] /\ rp[k] = rs[order[k]]
    <2>1. \A k \in 1..n : order[k] \in 1..n /\ rp[k] = rs[order[k]]
      BY TwinTypes
    <2> QED BY <2>1 DEF Alike
  <1>3. \A i \in 1..n : f[i] \in Int
    <2> TAKE i \in 1..n
    <2>1. rs[i].cost[s[i]] \in Nat
      BY <1>0, RowTypes
    <2> QED BY <2>1
  <1>4. \A k \in 1..n : g[k] = f[order[k]]
    BY <1>2
  <1> HIDE DEF f, g
  <1>5. SumOver(g, 1..n) = SumOver(f, 1..n)
    <2>1. PICK S : S = 1..n
      OBVIOUS
    <2>2. /\ IsFiniteSet(S) /\ order \in [S -> S] /\ \A i \in S : f[i] \in Int
          /\ \A j, k \in S : order[j] = order[k] => j = k
          /\ \A i \in S : \E k \in S : order[k] = i
          /\ \A k \in S : g[k] = f[order[k]]
      BY <1>0, <1>3, <1>4, <2>1
    <2>3. SumOver(g, S) = SumOver(f, S)
      BY <2>2, SumPermuted
    <2> QED BY <2>1, <2>3
  <1>6. CostIn(rs, s) \in Nat
    BY <1>0, CostInType
  <1> QED BY <1>1, <1>2, <1>5, <1>6

LEMMA LightTwin ==
    ASSUME NEW n, NEW order, NEW rs, NEW rp, IsTwin(n, order, rs, rp)
    PROVE  LightIn(rp) = LightIn(rs) /\ LightIn(rs) \in Nat
  <1> DEFINE light == [i \in 1..n |-> Light]
  <1>0. \A k \in 1..n : order[k] \in 1..n
    BY TwinTypes
  <1>1. Alike(n, order, light, light) /\ \A i \in 1..n : light[i] \in Models
    BY <1>0 DEF Alike, Models, Light
  <1> HIDE DEF light
  <1>2. CostIn(rp, light) = CostIn(rs, light) /\ CostIn(rs, light) \in Nat
    BY <1>1, CostTwin
  <1>3. DOMAIN rs = 1..n /\ DOMAIN rp = 1..n
    BY TwinTypes
  <1> QED BY <1>2, <1>3 DEF LightIn, light

LEMMA StateTypes ==
    ASSUME NEW n, NEW rs, DOMAIN rs = 1..n, NEW x \in SearchStates(rs)
    PROVE  /\ \A i \in 1..n : x.base[i] \in Models /\ x.selected[i] \in Models
           /\ x.low \in Nat /\ x.high \in Nat /\ x.step \in Nat
           /\ x.phase \in Phases /\ x.pc \in Places
  BY DEF SearchStates

LEMMA OverTwin ==
    ASSUME NEW lim, NEW n, NEW order, NEW rs, NEW rp, IsTwin(n, order, rs, rp),
           NEW x \in SearchStates(rs), NEW y, Mirrors(n, order, x, y),
           NEW s, NEW t, \A i \in 1..n : s[i] \in Models, Alike(n, order, s, t)
    PROVE  OverIn(lim, rp, y, t) <=> OverIn(lim, rs, x, s)
  <1>1. CostIn(rp, t) = CostIn(rs, s)
    BY CostTwin
  <1>2. \A i \in 1..n : x.base[i] \in Models
    BY TwinTypes, StateTypes
  <1>3. CostIn(rp, y.base) = CostIn(rs, x.base) /\ y.phase = x.phase
    BY <1>2, CostTwin DEF Mirrors
  <1>4. LightIn(rp) = LightIn(rs)
    BY LightTwin
  <1>5. CapIn(lim, rp, y) = CapIn(lim, rs, x)
    BY <1>3, <1>4 DEF CapIn
  <1> QED BY <1>1, <1>5 DEF OverIn

LEMMA ChooseTwin ==
    ASSUME NEW n, NEW order, NEW rs, NEW rp, IsTwin(n, order, rs, rp),
           NEW x \in SearchStates(rs), NEW y, Mirrors(n, order, x, y),
           NEW p \in Nat
    PROVE  /\ Alike(n, order, ChooseIn(rs, x, p), ChooseIn(rp, y, p))
           /\ \A i \in 1..n : ChooseIn(rs, x, p)[i] \in Models
  <1>1. ASSUME NEW k \in 1..n
        PROVE  ChooseIn(rp, y, p)[k] = ChooseIn(rs, x, p)[order[k]]
    <2>1. order[k] \in 1..n /\ rp[k] = rs[order[k]] /\ DOMAIN rp = 1..n /\ DOMAIN rs = 1..n
      BY TwinTypes
    <2>2. WorthIn(rp, k, p) = WorthIn(rs, order[k], p)
      BY <2>1, LightTwin DEF WorthIn
    <2>3. OfferedIn(y, k) = OfferedIn(x, order[k])
      BY DEF Mirrors, Alike, OfferedIn
    <2>4. /\ ChooseIn(rp, y, p)[k] = Best(OfferedIn(y, k), WorthIn(rp, k, p))
          /\ ChooseIn(rs, x, p)[order[k]]
                = Best(OfferedIn(x, order[k]), WorthIn(rs, order[k], p))
      BY <2>1 DEF ChooseIn
    <2> QED BY <2>2, <2>3, <2>4
  <1>2. DOMAIN rs = 1..n /\ IsFiniteSet(DOMAIN rs) /\ \A i \in DOMAIN rs : rs[i] \in Rows
    BY TwinTypes
  <1>3. ChooseIn(rs, x, p) \in [DOMAIN rs -> Models]
    BY <1>2, ChooseInType
  <1> QED BY <1>1, <1>2, <1>3 DEF Alike

LEMMA SettledTwin ==
    ASSUME NEW lim, NEW n, NEW order, NEW rs, NEW rp, IsTwin(n, order, rs, rp),
           NEW x \in SearchStates(rs), NEW y, Mirrors(n, order, x, y)
    PROVE  Alike(n, order, SettledIn(lim, rs, x), SettledIn(lim, rp, y))
  <1>1. \A i \in 1..n : x.selected[i] \in Models
    BY TwinTypes, StateTypes
  <1>2. OverIn(lim, rp, y, y.selected) <=> OverIn(lim, rs, x, x.selected)
    BY <1>1, OverTwin DEF Mirrors
  <1> QED BY <1>2 DEF SettledIn, Mirrors

LEMMA SettleTwin ==
    ASSUME NEW lim, NEW n, NEW order, NEW rs, NEW rp, IsTwin(n, order, rs, rp),
           NEW x \in SearchStates(rs), NEW y, Mirrors(n, order, x, y)
    PROVE  OverIn(lim, rp, y, y.selected) <=> OverIn(lim, rs, x, x.selected)
  <1>1. \A i \in 1..n : x.selected[i] \in Models
    BY TwinTypes, StateTypes
  <1> QED BY <1>1, OverTwin DEF Mirrors

\* At a penalty, the two are over budget or within it together.
LEMMA PenaltyTwin ==
    ASSUME NEW lim, NEW n, NEW order, NEW rs, NEW rp, IsTwin(n, order, rs, rp),
           NEW x \in SearchStates(rs), NEW y, Mirrors(n, order, x, y),
           NEW p \in Nat
    PROVE  /\ Alike(n, order, ChooseIn(rs, x, p), ChooseIn(rp, y, p))
           /\ OverIn(lim, rp, y, ChooseIn(rp, y, p)) <=> OverIn(lim, rs, x, ChooseIn(rs, x, p))
  BY ChooseTwin, OverTwin

LEMMA StepTwin ==
    ASSUME NEW lim, NEW n, NEW order, NEW rs, NEW rp, IsTwin(n, order, rs, rp),
           NEW x \in SearchStates(rs), NEW y, Mirrors(n, order, x, y),
           NEW u, NEW v, Steps(lim, rs, x, u), Steps(lim, rp, y, v)
    PROVE  Mirrors(n, order, u, v)
  <1>0. x.low \in Nat /\ x.high \in Nat /\ x.step \in Nat
    BY TwinTypes, StateTypes
  <1>1. /\ y.phase = x.phase /\ y.pc = x.pc
        /\ y.low = x.low /\ y.high = x.high /\ y.step = x.step
        /\ Alike(n, order, x.base, y.base)
        /\ Alike(n, order, x.selected, y.selected)
    BY DEF Mirrors
  <1>2. OverIn(lim, rp, y, y.selected) <=> OverIn(lim, rs, x, x.selected)
    BY SettleTwin
  <1>3. Alike(n, order, SettledIn(lim, rs, x), SettledIn(lim, rp, y))
    BY SettledTwin
  <1> DEFINE mid == (x.low + x.high) \div 2
  <1>4. 0 \in Nat /\ Unit \in Nat /\ 2 * x.high \in Nat /\ mid \in Nat
    BY <1>0, UnitPositive
  <1>5. PICK z : z = 0
    OBVIOUS
  <1>6. CASE x.pc = "start"
    <2>1. /\ Alike(n, order, ChooseIn(rs, x, 0), ChooseIn(rp, y, 0))
          /\ OverIn(lim, rp, y, ChooseIn(rp, y, 0)) <=> OverIn(lim, rs, x, ChooseIn(rs, x, 0))
          /\ Alike(n, order, ChooseIn(rs, x, Unit), ChooseIn(rp, y, Unit))
      BY <1>4, PenaltyTwin
    <2>2. CASE OverIn(lim, rs, x, ChooseIn(rs, x, 0))
      <3>1. /\ SearchesOn(x, u, "double") /\ u.selected = ChooseIn(rs, x, Unit)
            /\ Bracketed(u, 0, Unit, 0)
        BY <1>6, <2>2 DEF Steps
      <3>2. /\ SearchesOn(y, v, "double") /\ v.selected = ChooseIn(rp, y, Unit)
            /\ Bracketed(v, 0, Unit, 0)
        BY <1>1, <1>6, <2>1, <2>2 DEF Steps
      <3> QED BY <1>1, <2>1, <3>1, <3>2 DEF Mirrors, SearchesOn, Bracketed
    <2>3. CASE ~ OverIn(lim, rs, x, ChooseIn(rs, x, 0))
      <3>1. /\ SearchesOn(x, u, "settle") /\ u.selected = ChooseIn(rs, x, 0)
            /\ Bracketed(u, 0, 0, 0)
        BY <1>6, <2>3 DEF Steps
      <3>2. /\ SearchesOn(y, v, "settle") /\ v.selected = ChooseIn(rp, y, 0)
            /\ Bracketed(v, 0, 0, 0)
        BY <1>1, <1>6, <2>1, <2>3 DEF Steps
      <3> QED BY <1>1, <2>1, <3>1, <3>2 DEF Mirrors, SearchesOn, Bracketed
    <2> QED BY <2>2, <2>3
  <1>7. CASE x.pc = "double"
    <2>1. Alike(n, order, ChooseIn(rs, x, 2 * x.high), ChooseIn(rp, y, 2 * x.high))
      BY <1>4, PenaltyTwin
    <2>2. CASE OverIn(lim, rs, x, x.selected) /\ x.high < MaxHigh
      <3>1. /\ SearchesOn(x, u, "double") /\ u.selected = ChooseIn(rs, x, 2 * x.high)
            /\ Bracketed(u, x.high, 2 * x.high, x.step)
        BY <1>7, <2>2 DEF Steps
      <3>2. /\ SearchesOn(y, v, "double") /\ v.selected = ChooseIn(rp, y, 2 * x.high)
            /\ Bracketed(v, x.high, 2 * x.high, x.step)
        BY <1>1, <1>2, <1>7, <2>2 DEF Steps
      <3> QED BY <1>1, <2>1, <3>1, <3>2 DEF Mirrors, SearchesOn, Bracketed
    <2>3. CASE ~ (OverIn(lim, rs, x, x.selected) /\ x.high < MaxHigh)
      <3>1. /\ SearchesOn(x, u, "bisect") /\ u.selected = x.selected
            /\ Bracketed(u, x.low, x.high, x.step)
        BY <1>7, <2>3 DEF Steps
      <3>2. /\ SearchesOn(y, v, "bisect") /\ v.selected = y.selected
            /\ Bracketed(v, x.low, x.high, x.step)
        BY <1>1, <1>2, <1>7, <2>3 DEF Steps
      <3> QED BY <1>1, <3>1, <3>2 DEF Mirrors, SearchesOn, Bracketed
    <2> QED BY <2>2, <2>3
  <1>8. CASE x.pc = "bisect"
    <2> DEFINE next == IF x.step + 1 = Iterations THEN "settle" ELSE "bisect"
    <2>0. PICK m \in Nat : m = mid
      BY <1>4
    <2>1. /\ Alike(n, order, ChooseIn(rs, x, mid), ChooseIn(rp, y, mid))
          /\ OverIn(lim, rp, y, ChooseIn(rp, y, mid))
                <=> OverIn(lim, rs, x, ChooseIn(rs, x, mid))
      <3>1. /\ Alike(n, order, ChooseIn(rs, x, m), ChooseIn(rp, y, m))
            /\ OverIn(lim, rp, y, ChooseIn(rp, y, m))
                  <=> OverIn(lim, rs, x, ChooseIn(rs, x, m))
        BY PenaltyTwin
      <3> QED BY <2>0, <3>1
    <2>2. /\ SearchesOn(x, u, next)
          /\ IF OverIn(lim, rs, x, ChooseIn(rs, x, mid))
             THEN u.selected = x.selected /\ Bracketed(u, mid, x.high, x.step + 1)
             ELSE /\ u.selected = ChooseIn(rs, x, mid)
                  /\ Bracketed(u, x.low, mid, x.step + 1)
      BY <1>8 DEF Steps
    <2>3. /\ SearchesOn(y, v, next)
          /\ IF OverIn(lim, rp, y, ChooseIn(rp, y, mid))
             THEN v.selected = y.selected /\ Bracketed(v, mid, x.high, x.step + 1)
             ELSE /\ v.selected = ChooseIn(rp, y, mid)
                  /\ Bracketed(v, x.low, mid, x.step + 1)
      BY <1>1, <1>8 DEF Steps
    <2> HIDE DEF next, mid
    <2> QED BY <1>1, <2>1, <2>2, <2>3 DEF Mirrors, SearchesOn, Bracketed
  <1>9. CASE x.pc = "settle"
    <2>1. CASE x.phase = "select" /\ lim.name = "premium"
      <3>1. /\ u.phase = "fill" /\ u.pc = "start" /\ u.base = SettledIn(lim, rs, x)
            /\ u.selected = SettledIn(lim, rs, x) /\ Bracketed(u, 0, 0, 0)
        BY <1>9, <2>1 DEF Steps
      <3>2. /\ v.phase = "fill" /\ v.pc = "start" /\ v.base = SettledIn(lim, rp, y)
            /\ v.selected = SettledIn(lim, rp, y) /\ Bracketed(v, 0, 0, 0)
        BY <1>1, <1>9, <2>1 DEF Steps
      <3> QED BY <1>3, <3>1, <3>2 DEF Mirrors, Bracketed
    <2>2. CASE ~ (x.phase = "select" /\ lim.name = "premium")
      <3>1. /\ SearchesOn(x, u, "done") /\ u.selected = SettledIn(lim, rs, x)
            /\ Bracketed(u, x.low, x.high, x.step)
        BY <1>9, <2>2 DEF Steps
      <3>2. /\ SearchesOn(y, v, "done") /\ v.selected = SettledIn(lim, rp, y)
            /\ Bracketed(v, x.low, x.high, x.step)
        BY <1>1, <1>9, <2>2 DEF Steps
      <3> QED BY <1>1, <1>3, <3>1, <3>2 DEF Mirrors, SearchesOn, Bracketed
    <2> QED BY <2>1, <2>2
  <1>10. x.pc \in {"start", "double", "bisect", "settle"}
    BY DEF Steps
  <1> QED BY <1>6, <1>7, <1>8, <1>9, <1>10

\* Two runs, on the same rows in two orders, mirror each other all along, and end
\* together.
LEMMA RunTwin ==
    ASSUME NEW lim, NEW n, NEW order, NEW rs, NEW rp, IsTwin(n, order, rs, rp),
           NEW g, NEW a, IsRun(lim, rs, g, a), NEW h, NEW b, IsRun(lim, rp, h, b)
    PROVE  \A k \in Nat : k <= a /\ k <= b => Mirrors(n, order, g[k], h[k])
  <1> DEFINE Bad == {k \in Nat : k <= a /\ k <= b /\ ~ Mirrors(n, order, g[k], h[k])}
  <1> SUFFICES ASSUME Bad # {} PROVE FALSE
    OBVIOUS
  <1>1. PICK k \in Bad : \A l \in Bad : k <= l
    BY LeastElement
  <1>2. a \in Nat /\ b \in Nat
    BY DEF IsRun
  <1>3. CASE k = 0
    <2>1. Begins(rs, g[0]) /\ Begins(rp, h[0])
      BY DEF IsRun
    <2>2. Mirrors(n, order, g[0], h[0])
      <3>1. /\ DOMAIN rs = 1..n /\ DOMAIN rp = 1..n
            /\ \A j \in 1..n : order[j] \in 1..n
        BY TwinTypes
      <3> QED BY <2>1, <3>1 DEF Begins, Mirrors, Alike
    <2> QED BY <1>1, <1>3, <2>2
  <1>4. CASE k # 0
    <2>1. /\ k - 1 \in Nat /\ k - 1 \in 0..a /\ k - 1 \in 0..b
          /\ k - 1 # a /\ k - 1 # b /\ (k - 1) + 1 = k
      BY <1>1, <1>2, <1>4
    <2>2. k - 1 \notin Bad
      BY <1>1, <2>1
    <2>3. Mirrors(n, order, g[k - 1], h[k - 1])
      BY <1>2, <2>1, <2>2
    <2>4. /\ Steps(lim, rs, g[k - 1], g[(k - 1) + 1]) /\ g[k - 1] \in SearchStates(rs)
          /\ Steps(lim, rp, h[k - 1], h[(k - 1) + 1])
      BY <2>1 DEF IsRun
    <2>5. Steps(lim, rs, g[k - 1], g[k]) /\ Steps(lim, rp, h[k - 1], h[k])
      BY <2>1, <2>4
    <2>6. Mirrors(n, order, g[k], h[k])
      BY <2>3, <2>4, <2>5, StepTwin
    <2> QED BY <1>1, <2>6
  <1> QED BY <1>3, <1>4

LEMMA DoneStays == ASSUME NEW lim, NEW rs, NEW x, x.pc = "done", NEW y PROVE ~ Steps(lim, rs, x, y)
  BY DEF Steps

\* So does what the two return.
LEMMA ResultTwin ==
    ASSUME NEW lim, NEW n, NEW order, NEW rs, NEW rp, IsTwin(n, order, rs, rp),
           NEW x, Reaches(lim, rs, x), x.pc = "done",
           NEW y, Reaches(lim, rp, y), y.pc = "done"
    PROVE  \A k \in 1..n : y.selected[k] = x.selected[order[k]]
  <1>1. PICK g, a : IsRun(lim, rs, g, a) /\ g[a] = x
    BY DEF Reaches
  <1>2. PICK h, b : IsRun(lim, rp, h, b) /\ h[b] = y
    BY DEF Reaches
  <1>3. a \in Nat /\ b \in Nat
    BY <1>1, <1>2 DEF IsRun
  <1>4. \A k \in Nat : k <= a /\ k <= b => Mirrors(n, order, g[k], h[k])
    BY <1>1, <1>2, RunTwin
  <1>5. CASE a = b
    <2>1. Mirrors(n, order, x, y)
      BY <1>1, <1>2, <1>3, <1>4, <1>5
    <2> QED BY <2>1 DEF Mirrors, Alike
  <1>6. CASE a < b
    <2>1. Mirrors(n, order, x, h[a])
      BY <1>1, <1>3, <1>4, <1>6
    <2>2. Steps(lim, rp, h[a], h[a + 1])
      <3>1. a \in 0..b /\ a # b
        BY <1>3, <1>6
      <3> QED BY <1>2, <3>1 DEF IsRun
    <2> QED BY <2>1, <2>2, DoneStays DEF Mirrors
  <1>7. CASE b < a
    <2>1. Mirrors(n, order, g[b], y)
      BY <1>2, <1>3, <1>4, <1>7
    <2>2. Steps(lim, rs, g[b], g[b + 1])
      <3>1. b \in 0..a /\ b # a
        BY <1>3, <1>7
      <3> QED BY <1>1, <3>1 DEF IsRun
    <2> QED BY <2>1, <2>2, DoneStays DEF Mirrors
  <1> QED BY <1>3, <1>5, <1>6, <1>7

-----------------------------------------------------------------------------
(* The search of the model is such a run.                                  *)

Now == [phase |-> phase, pc |-> pc, base |-> base, selected |-> selected,
        low |-> low, high |-> high, step |-> step]

LEMMA NowIs ==
    ASSUME AllocInv
    PROVE  /\ IsFiniteSet(DOMAIN rows) /\ \A i \in DOMAIN rows : rows[i] \in Rows
           /\ Now \in SearchStates(rows)
  BY DEF AllocInv, BatchOK, SelectionOK, IsOffered, Selections, Episodes,
         SearchStates, Now

LEMMA CostIs == ASSUME NEW s PROVE Cost(s) = CostIn(rows, s)
  <1> DEFINE f == [i \in DOMAIN rows |-> rows[i].cost[s[i]]]
  <1>1. SumFunction(f) = SumOver(f, DOMAIN f) /\ DOMAIN f = DOMAIN rows
    BY SumFunctionIsSum
  <1> QED BY <1>1 DEF Cost, CostIn, Episodes

LEMMA OverIs == ASSUME NEW s PROVE Over(s) <=> OverIn(tier, rows, Now, s)
  <1>1. LightTotal = LightIn(rows)
    BY CostIs DEF LightTotal, LightIn, AllLight, Episodes
  <1>2. Cost(s) = CostIn(rows, s) /\ Cost(base) = CostIn(rows, base)
    BY CostIs
  <1>3. Now.phase = phase /\ Now.base = base
    BY DEF Now
  <1>4. Cap = CapIn(tier, rows, Now)
    BY <1>1, <1>2, <1>3 DEF Cap, CapIn
  <1> QED BY <1>2, <1>4 DEF Over, OverIn

LEMMA ChooseIs ==
    ASSUME AllocInv, NEW p \in Nat
    PROVE  Choose(p) = ChooseIn(rows, Now, p)
  <1>1. ASSUME NEW i \in DOMAIN rows
        PROVE  (CHOOSE k \in Offered(i) : \A j \in Offered(i) :
                    \/ Worth(i, k, p) > Worth(i, j, p)
                    \/ Worth(i, k, p) = Worth(i, j, p) /\ k <= j)
                   = Best(OfferedIn(Now, i), WorthIn(rows, i, p))
    <2>1. PICK O : O = OfferedIn(Now, i)
      OBVIOUS
    <2>2. PICK w : w = WorthIn(rows, i, p)
      OBVIOUS
    <2>3. Offered(i) = O
      BY <2>1 DEF Now, Offered, OfferedIn
    <2>4. \A k \in Models : Worth(i, k, p) = w[k]
      <3>1. LightTotal = LightIn(rows)
        BY CostIs DEF LightTotal, LightIn, AllLight, Episodes
      <3> QED BY <2>2, <3>1 DEF Worth, WorthIn
    <2>5. O \in SUBSET Models /\ O # {} /\ \A k \in Models : w[k] \in Int
      BY <2>1, <2>2, NowIs, OfferedInType, WorthInType
    <2>6. /\ IsBest(O, w, Best(O, w))
          /\ \A k : IsBest(O, w, k) => k = Best(O, w)
      BY <2>5, BestIs
    <2> DEFINE P(k) == \A j \in O : \/ Worth(i, k, p) > Worth(i, j, p)
                                    \/ Worth(i, k, p) = Worth(i, j, p) /\ k <= j
    <2>7. \A k \in O : P(k) <=> IsBest(O, w, k)
      BY <2>4, <2>5 DEF IsBest
    <2>8. \A k : k \in O /\ P(k) <=> k = Best(O, w)
      BY <2>6, <2>7 DEF IsBest
    <2>9. (CHOOSE k \in O : P(k)) = Best(O, w)
      <3> HIDE DEF P
      <3> QED BY <2>8
    <2> QED BY <2>1, <2>2, <2>3, <2>9
  <1> QED BY <1>1 DEF Choose, ChooseIn, Episodes

LEMMA SettledIs == Settled(selected) = SettledIn(tier, rows, Now)
  BY OverIs DEF Settled, SettledIn, Now

\* Its actions are the steps.
LEMMA AllocateSteps ==
    ASSUME AllocInv, AllocateTier
    PROVE  Steps(tier, rows, Now, Now') /\ rows' = rows /\ tier' = tier
  <1>1. /\ low \in Nat /\ high \in Nat /\ step \in Nat
        /\ Unit \in Nat
    BY UnitPositive DEF AllocInv, BatchOK
  <1>2. \A p \in Nat : Choose(p) = ChooseIn(rows, Now, p)
    BY ChooseIs
  <1>3. \A p \in Nat : Over(Choose(p)) <=> OverIn(tier, rows, Now, ChooseIn(rows, Now, p))
    BY <1>2, OverIs
  <1>4. Over(selected) <=> OverIn(tier, rows, Now, selected)
    BY OverIs
  <1>5. /\ Now.phase = phase /\ Now.pc = pc /\ Now.base = base
        /\ Now.selected = selected /\ Now.low = low /\ Now.high = high
        /\ Now.step = step
    BY DEF Now
  <1>6. /\ Now'.phase = phase' /\ Now'.pc = pc' /\ Now'.base = base'
        /\ Now'.selected = selected' /\ Now'.low = low' /\ Now'.high = high'
        /\ Now'.step = step'
    BY DEF Now
  <1>7. PICK x, y : x = Now /\ y = Now'
    OBVIOUS
  <1>8. CASE StartWithin
    <2>1. 0 \in Nat
      OBVIOUS
    <2> QED BY <1>2, <1>3, <1>5, <1>6, <1>8, <2>1
            DEF StartWithin, Goto, Steps, SearchesOn, Bracketed
  <1>9. CASE StartSearch
    <2>1. 0 \in Nat
      OBVIOUS
    <2> QED BY <1>1, <1>2, <1>3, <1>5, <1>6, <1>9, <2>1
            DEF StartSearch, Goto, Steps, SearchesOn, Bracketed
  <1>10. CASE Double
    <2>1. 2 * high \in Nat
      BY <1>1
    <2> QED BY <1>2, <1>4, <1>5, <1>6, <1>10, <2>1
            DEF Double, MayDouble, Goto, Steps, SearchesOn, Bracketed
  <1>11. CASE DoubleEnds
    BY <1>4, <1>5, <1>6, <1>11
       DEF DoubleEnds, MayDouble, Goto, Steps, SearchesOn, Bracketed
  <1>12. CASE Bisect
    <2>1. (low + high) \div 2 \in Nat
      BY <1>1
    <2>2. PICK m \in Nat : m = (low + high) \div 2
      BY <2>1
    <2>3. /\ Choose(m) = ChooseIn(rows, Now, m)
          /\ Over(Choose(m)) <=> OverIn(tier, rows, Now, ChooseIn(rows, Now, m))
      BY <1>2, <1>3
    <2>4. /\ pc = "bisect" /\ step' = step + 1
          /\ low' = Narrowed(m).low /\ high' = Narrowed(m).high
          /\ selected' = Narrowed(m).to
          /\ Goto(IF step + 1 = Iterations THEN "settle" ELSE "bisect")
      BY <1>12, <2>2 DEF Bisect
    <2>5. IF OverIn(tier, rows, Now, ChooseIn(rows, Now, m))
          THEN Now'.selected = Now.selected /\ Bracketed(Now', m, Now.high, Now.step + 1)
          ELSE /\ Now'.selected = ChooseIn(rows, Now, m)
               /\ Bracketed(Now', Now.low, m, Now.step + 1)
      BY <1>5, <1>6, <2>3, <2>4 DEF Narrowed, Bracketed
    <2>6. /\ Now.pc = "bisect"
          /\ SearchesOn(Now, Now',
                 IF Now.step + 1 = Iterations THEN "settle" ELSE "bisect")
          /\ m = (Now.low + Now.high) \div 2
      BY <1>5, <1>6, <2>2, <2>4 DEF Goto, SearchesOn
    <2>7. Steps(tier, rows, Now, Now')
      BY <2>5, <2>6 DEF Steps
    <2> QED BY <2>4, <2>7 DEF Goto
  <1>13. CASE SelectReturns
    BY <1>5, <1>6, <1>13, SettledIs
       DEF SelectReturns, Premium, Steps, SearchesOn, Bracketed
  <1>14. CASE FillReturns
    BY <1>5, <1>6, <1>14, SettledIs
       DEF FillReturns, Goto, Premium, Steps, SearchesOn, Bracketed
  <1> QED BY <1>8, <1>9, <1>10, <1>11, <1>12, <1>13, <1>14 DEF AllocateTier

\* A run goes on.
LEMMA ReachesOn ==
    ASSUME NEW lim, NEW rs, NEW x, NEW y \in SearchStates(rs),
           Reaches(lim, rs, x), Steps(lim, rs, x, y)
    PROVE  Reaches(lim, rs, y)
  <1>1. PICK g, n : IsRun(lim, rs, g, n) /\ g[n] = x
    BY DEF Reaches
  <1>2. n \in Nat
    BY <1>1 DEF IsRun
  <1> DEFINE h == [k \in 0..(n + 1) |-> IF k = n + 1 THEN y ELSE g[k]]
  <1>3. \A k \in 0..n : h[k] = g[k]
    BY <1>2
  <1>4. h[n + 1] = y
    BY <1>2
  <1> HIDE DEF h
  <1>5. \A k \in 0..(n + 1) : h[k] \in SearchStates(rs)
    <2> TAKE k \in 0..(n + 1)
    <2>1. k \in 0..n \/ k = n + 1
      BY <1>2
    <2> QED BY <1>1, <1>3, <1>4, <2>1 DEF IsRun
  <1>6. Begins(rs, h[0])
    <2>1. 0 \in 0..n
      BY <1>2
    <2> QED BY <1>1, <1>3, <2>1 DEF IsRun
  <1>7. ASSUME NEW k \in 0..(n + 1), k # n + 1
        PROVE  Steps(lim, rs, h[k], h[k + 1])
    <2>1. k \in 0..n
      BY <1>2, <1>7
    <2>2. CASE k = n
      BY <1>1, <1>3, <1>4, <2>1, <2>2
    <2>3. CASE k # n
      <3>1. k + 1 \in 0..n
        BY <1>2, <2>1, <2>3
      <3>2. Steps(lim, rs, g[k], g[k + 1])
        BY <1>1, <2>1, <2>3 DEF IsRun
      <3> QED BY <1>3, <2>1, <3>1, <3>2
    <2> QED BY <2>2, <2>3
  <1>8. IsRun(lim, rs, h, n + 1)
    BY <1>2, <1>5, <1>6, <1>7 DEF IsRun
  <1> QED BY <1>4, <1>8 DEF Reaches

\* And starts.
LEMMA ReachesFirst ==
    ASSUME NEW lim, NEW rs, NEW x \in SearchStates(rs), Begins(rs, x)
    PROVE  Reaches(lim, rs, x)
  <1> DEFINE h == [k \in 0..0 |-> x]
  <1>1. h[0] = x /\ \A k \in 0..0 : k = 0
    OBVIOUS
  <1> HIDE DEF h
  <1>2. IsRun(lim, rs, h, 0)
    BY <1>1 DEF IsRun
  <1> QED BY <1>1, <1>2 DEF Reaches

LEMMA BegunReaches ==
    ASSUME AllocInv, Begun(rows)
    PROVE  Reaches(tier, rows, Now)
  <1>1. Begins(rows, Now)
    BY DEF Begun, Begins, Now
  <1> QED BY <1>1, NowIs, ReachesFirst

-----------------------------------------------------------------------------
(* What the repository's own routers answer.                               *)

\* The models in the order of the batch, and the file that has them.
ModelsReturned == [k \in 1..Size |-> IF router = "public" THEN ModelIds[selected[k]]
                               ELSE SelectModel(rows[k], tier.name)]
Written ==
    RouteDone /\ files[tier.name].root.decisions = Decisions(ModelsReturned)

\* The first run's answers are those of a finished search, or of the heuristic.
Finishes(lim, rs, x) == x \in SearchStates(rs) /\ Reaches(lim, rs, x) /\ x.pc = "done"
Answered ==
    IF router = "public"
    THEN \E x : /\ Finishes(tier, content, x)
                /\ \A i \in 1..Size : answers[i] = x.selected[i]
    ELSE \A i \in 1..Size :
            answers[i] = ModelNumber(SelectModel(content[i], tier.name))

BatchesOK ==
    /\ Size \in 1..MaxEpisodes /\ tier.name \in KnownTiers /\ DOMAIN files = KnownTiers
    /\ router = "public" => Reaches(tier, rows, Now)
    /\ stage \in {"route", "written", "accepted"} => rows = content /\ answers = <<>>
    /\ stage \in {"reroute", "audited"} =>
          /\ rows = [k \in 1..Size |-> content[place[k]]]
          /\ answers # <<>> /\ router # "other"
FilesOK ==
    /\ stage \in {"reroute", "audited"} => Answered
    /\ stage \in {"written", "accepted"} /\ router # "other" => Written
    /\ stage = "audited" => Written
OwnInv == BatchesOK /\ FilesOK

\* Every episode has an ID of its own.
LEMMA IdsDiffer == \A i, j \in 1..MaxEpisodes : Ids[i] = Ids[j] => i = j
  BY EvaluationAssumption DEF EvaluationAssumption

LEMMA ModelNumberIs == \A k \in Models : ModelNumber(ModelIds[k]) = k
  BY DEF ModelNumber, ModelIds, Models

\* In a file with one decision for every ID, that is the one for it.
DecidesEach(d, n, ids, m) ==
    d = [k \in 1..n |-> [episode_id |-> Ids[ids[k]], model_id |-> m[k]]]

LEMMA DecidedIs ==
    ASSUME NEW n, NEW ids, NEW m, NEW s, DecidesEach(s.decisions, n, ids, m),
           NEW batch, NEW k \in 1..n, n \in Nat, n <= MaxEpisodes, ids \in Sorted(n)
    PROVE  Decided(batch, s, Ids[ids[k]]) = m[k]
  <1>1. PICK d : d = s.decisions
    OBVIOUS
  <1>2. /\ DOMAIN d = 1..n
        /\ \A i \in 1..n : d[i].episode_id = Ids[ids[i]] /\ d[i].model_id = m[i]
    BY <1>1 DEF DecidesEach
  <1>3. \A i \in 1..n : ids[i] \in 1..MaxEpisodes
    <2>1. ids \in [1..n -> 1..n] /\ \A i \in 1..n : i \in 1..MaxEpisodes
      BY EvaluationAssumption DEF Sorted, EvaluationAssumption
    <2> QED BY <2>1
  <1>4. \A i \in 1..n : Ids[ids[i]] = Ids[ids[k]] => i = k
    <2>1. \A i \in 1..n : ids[i] = ids[k] => i = k
      BY DEF Sorted
    <2> QED BY <1>3, <2>1, IdsDiffer
  <1>5. k \in Int /\ k <= k
    OBVIOUS
  <1> DEFINE P(i) == /\ d[i].episode_id = Ids[ids[k]]
                     /\ \A j \in DOMAIN d : d[j].episode_id = Ids[ids[k]] => j <= i
  <1>6. \A i : i \in DOMAIN d /\ P(i) <=> i = k
    BY <1>2, <1>4, <1>5
  <1>7. (CHOOSE i \in DOMAIN d : P(i)) = k
    <2> HIDE DEF P
    <2> QED BY <1>6
  <1>8. Decided(batch, s, Ids[ids[k]]) = d[CHOOSE i \in DOMAIN d : P(i)].model_id
    BY <1>1 DEF Decided
  <1> QED BY <1>2, <1>7, <1>8

\* The IDs of the rows, in either run.
LEMMA RowIdsSorted ==
    ASSUME AuditInv, BatchesOK,
           stage \in {"route", "written", "accepted", "reroute", "audited"}
    PROVE  /\ RowIds \in Sorted(Size)
           /\ stage \in {"route", "written", "accepted"} =>
                  RowIds = [i \in 1..Size |-> i]
           /\ stage \in {"reroute", "audited"} =>
                  /\ RowIds = [k \in 1..Size |-> assigned[place[k]]]
                  /\ assigned \in Sorted(Size) /\ place \in Sorted(Size)
  <1>1. Size \in Nat
    BY DEF BatchesOK
  <1>2. CASE stage \in {"route", "written", "accepted"}
    <2>1. RowIds = [i \in 1..Size |-> i]
      BY <1>2 DEF RowIds, BatchesOK
    <2>2. RowIds \in Sorted(Size)
      BY <1>1, <2>1 DEF Sorted
    <2> QED BY <1>2, <2>1, <2>2
  <1>3. CASE stage \in {"reroute", "audited"}
    <2>1. RowIds = [k \in 1..Size |-> assigned[place[k]]]
      BY <1>3 DEF RowIds, BatchesOK
    <2>2. PICK cycle, order \in Sorted(Size) :
              assigned = Assign(cycle, Size) /\ place = Reordered(order, Size)
      BY <1>3 DEF AuditInv
    <2>3. place \in Sorted(Size)
      BY <1>1, <2>2, ReorderedSorted
    <2>4. assigned \in Sorted(Size)
      BY <1>1, <2>2, AssignSorted, AssignOfOne
    <2>5. /\ place \in [1..Size -> 1..Size] /\ assigned \in [1..Size -> 1..Size]
          /\ \A i, j \in 1..Size : place[i] = place[j] => i = j
          /\ \A i, j \in 1..Size : assigned[i] = assigned[j] => i = j
      BY <2>3, <2>4 DEF Sorted
    <2>6. RowIds \in [1..Size -> 1..Size]
      BY <2>1, <2>5
    <2>7. \A i, j \in 1..Size : RowIds[i] = RowIds[j] => i = j
      BY <2>1, <2>5
    <2>8. RowIds \in Sorted(Size)
      BY <2>6, <2>7 DEF Sorted
    <2> QED BY <1>3, <2>1, <2>3, <2>4, <2>8
  <1> QED BY <1>2, <1>3

\* So what a file says of an ID is what was returned for its row.
LEMMA FileAnswers ==
    ASSUME AuditInv, AllocInv, BatchesOK, Written,
           stage \in {"written", "accepted", "audited"},
           NEW k \in 1..Size
    PROVE  DecidedFor(files[tier.name].root, RowIds[k])
              = IF router = "public" THEN selected[k]
                ELSE ModelNumber(SelectModel(rows[k], tier.name))
  <1>1. RowIds \in Sorted(Size) /\ Size \in 1..MaxEpisodes
    BY RowIdsSorted DEF BatchesOK
  <1>2. PICK s : s = files[tier.name].root
    OBVIOUS
  <1>3. s.decisions = [j \in 1..Size |-> [episode_id |-> Ids[RowIds[j]],
                                          model_id |-> ModelsReturned[j]]]
    BY <1>2 DEF Written, Decisions
  <1>4. Decided(inputs.root, s, Ids[RowIds[k]]) = ModelsReturned[k]
    <2>1. PICK n, ids, m : n = Size /\ ids = RowIds /\ m = ModelsReturned
      OBVIOUS
    <2>2. n \in Nat /\ n <= MaxEpisodes /\ ids \in Sorted(n) /\ k \in 1..n
      BY <1>1, <2>1, EvaluationAssumption DEF EvaluationAssumption
    <2>3. DecidesEach(s.decisions, n, ids, m)
      BY <1>3, <2>1 DEF DecidesEach
    <2>4. Decided(inputs.root, s, Ids[ids[k]]) = m[k]
      BY <2>2, <2>3, DecidedIs
    <2> QED BY <2>1, <2>4
  <1>5. DecidedFor(s, RowIds[k]) = ModelNumber(ModelsReturned[k])
    BY <1>4 DEF DecidedFor
  <1>6. CASE router = "public"
    <2>1. DOMAIN rows = 1..Size
      BY DEF AuditInv, BatchesOK, Size
    <2>2. selected[k] \in Models
      BY <2>1 DEF AllocInv, SelectionOK, IsOffered, Selections, Episodes
    <2> QED BY <1>2, <1>5, <1>6, <2>2, ModelNumberIs DEF ModelsReturned
  <1>7. CASE router # "public"
    BY <1>2, <1>5, <1>7 DEF ModelsReturned
  <1> QED BY <1>6, <1>7

\* The second run of a router answers for a row what the first one did.
LEMMA PassesOwnRouter ==
    ASSUME AuditInv, AllocInv, OwnInv, stage = "audited"
    PROVE  OwnRouterPasses
  <1> USE DEF OwnInv, FilesOK
  <1>1. /\ Size \in Nat /\ Len(content) = Size
        /\ assigned \in Sorted(Size) /\ place \in Sorted(Size)
    BY AuditedBatch
  <1>2. PICK second : second = [k \in 1..Size |->
                          DecidedFor(files[tier.name].root, RowIds[k])]
    OBVIOUS
  <1>3. \A k \in 1..Size :
           second[k] = IF router = "public" THEN selected[k]
                       ELSE ModelNumber(SelectModel(rows[k], tier.name))
    BY <1>2, FileAnswers
  <1>4. rows = [k \in 1..Size |-> content[place[k]]] /\ router # "other"
    BY DEF BatchesOK
  <1>5. \A k \in 1..Size : place[k] \in 1..Size
    BY <1>1 DEF Sorted
  <1>6. ASSUME NEW k \in 1..Size PROVE second[k] = answers[place[k]]
    <2>1. CASE router = "public"
      <3>1. PICK x : /\ Finishes(tier, content, x)
                     /\ \A i \in 1..Size : answers[i] = x.selected[i]
        BY <2>1 DEF Answered
      <3>2. Reaches(tier, rows, Now) /\ Now.pc = "done" /\ Now.selected = selected
        BY <2>1 DEF BatchesOK, Written, RouteDone, Now
      <3>3. IsTwin(Size, place, content, rows)
        <4>1. content \in [1..Size -> Rows]
          BY <1>1 DEF AuditInv, Size
        <4> QED BY <1>1, <1>4, <4>1 DEF IsTwin
      <3>4. Now.selected[k] = x.selected[place[k]]
        BY <3>1, <3>2, <3>3, ResultTwin DEF Finishes
      <3> QED BY <1>3, <1>5, <2>1, <3>1, <3>2, <3>4
    <2>2. CASE router # "public"
      BY <1>3, <1>4, <1>5, <2>2 DEF Answered
    <2> QED BY <2>1, <2>2
  <1>7. ASSUME NEW i \in 1..Size
        PROVE  AnswerFor(Batch(content), answers, i)
                   = AnswerFor(Variant(content, assigned, place), second, assigned[i])
    <2>1. PICK k \in 1..Size : place[k] = i
      <3>1. Size \in Nat /\ place \in Sorted(Size)
        BY <1>1
      <3>2. \E k \in 1..Size : place[k] = i
        BY <3>1, SortedIsOnto
      <3> QED BY <3>2
    <2>2. AnswerFor(Batch(content), answers, i) = answers[i]
      BY <1>1, AnswerForOriginal
    <2>3. AnswerFor(Variant(content, assigned, place), second, assigned[place[k]])
              = second[k]
      BY <1>1, AnswerForVariant
    <2> QED BY <1>6, <2>1, <2>2, <2>3
  <1>8. Mismatches(content, assigned, place, answers, second) = {}
    BY <1>1, <1>7 DEF Mismatches
  <1> QED BY <1>2, <1>8 DEF OwnRouterPasses

LEMMA OwnInit == Init => OwnInv
  <1> SUFFICES ASSUME Init PROVE OwnInv
    OBVIOUS
  <1>1. PICK n \in 1..MaxEpisodes :
            content \in [1..n -> IF n < 4 THEN Rows ELSE AuditedRows]
    BY DEF Init
  <1>2. n \in 1..MaxEpisodes /\ MaxEpisodes \in Nat
    BY EvaluationAssumption DEF EvaluationAssumption
  <1>3. Size \in 1..MaxEpisodes
    <2>1. content \in Seq(IF n < 4 THEN Rows ELSE AuditedRows) /\ Len(content) = n
      BY <1>1, <1>2
    <2> QED BY <1>2, <2>1 DEF Size
  <1>4. tier.name \in KnownTiers
    BY DEF Init
  <1>5. DOMAIN files = KnownTiers
    BY DEF Init, Missing
  <1>6. /\ Begun(content) /\ rows = content
    BY DEF Init, Begun
  <1>7. Reaches(tier, rows, Now)
    BY <1>6, AllocInit, BegunReaches
  <1>8. stage = "route" /\ answers = <<>>
    BY DEF Init
  <1> QED BY <1>3, <1>4, <1>5, <1>6, <1>7, <1>8 DEF OwnInv, BatchesOK, FilesOK

\* The router searches.
LEMMA AllocateOwn == ASSUME AllocInv, OwnInv, Allocate PROVE OwnInv'
  <1>1. /\ stage \in {"route", "reroute"} /\ router = "public" /\ AllocateTier
        /\ UNCHANGED <<router, content, assigned, place, answers, stage, files>>
    BY DEF Allocate, evalVars, auditVars
  <1>2. Steps(tier, rows, Now, Now') /\ rows' = rows /\ tier' = tier
    BY <1>1, AllocateSteps
  <1>3. AllocInv'
    BY AllocateKeeps
  <1>4. Now' \in SearchStates(rows')
    BY <1>3 DEF AllocInv, BatchOK, SelectionOK, IsOffered, Selections, Episodes,
                SearchStates, Now
  <1>5. Reaches(tier, rows, Now)
    BY <1>1 DEF OwnInv, BatchesOK
  <1>6. Reaches(tier, rows, Now')
    BY <1>2, <1>4, <1>5, ReachesOn
  <1>7. Size' = Size
    BY <1>1 DEF Size
  <1>8. BatchesOK'
    BY <1>1, <1>2, <1>6, <1>7 DEF OwnInv, BatchesOK
  <1>9. stage = "reroute" => Answered'
    BY <1>1, <1>2, <1>7 DEF OwnInv, FilesOK, Answered
  <1>10. FilesOK'
    BY <1>1, <1>9 DEF FilesOK
  <1> QED BY <1>8, <1>10 DEF OwnInv

\* Nothing the files are compared with changes.
Settles == UNCHANGED <<allocatorVars, evalVars, auditVars>>

LEMMA BatchesSettle ==
    ASSUME BatchesOK, Settles, DOMAIN files' = KnownTiers,
           \/ stage' = stage
           \/ stage' \notin {"route", "written", "accepted", "reroute", "audited"}
           \/ /\ stage \in {"route", "written", "accepted"}
              /\ stage' \in {"route", "written", "accepted"}
           \/ stage \in {"reroute", "audited"} /\ stage' \in {"reroute", "audited"}
    PROVE  BatchesOK'
  <1>1. /\ UNCHANGED <<rows, tier, phase, pc, base, selected, low, high, step>>
        /\ UNCHANGED <<router, content, assigned, place, answers>>
    BY DEF Settles, allocatorVars, evalVars, auditVars
  <1>2. Size' = Size /\ Now' = Now
    BY <1>1 DEF Size, Now
  <1> QED BY <1>1, <1>2 DEF BatchesOK

LEMMA SettlesKeeps ==
    ASSUME Settles
    PROVE  /\ Answered' <=> Answered
           /\ files' = files => (Written' <=> Written)
           /\ router' = router /\ tier' = tier /\ pc' = pc
           /\ Routed' = Routed /\ (RouteDone' <=> RouteDone)
           /\ Decisions(ModelsReturned)' = Decisions(ModelsReturned)
  <1>1. /\ UNCHANGED <<rows, tier, phase, pc, base, selected, low, high, step>>
        /\ UNCHANGED <<router, content, assigned, place, answers, policy, inputs>>
    BY DEF Settles, allocatorVars, evalVars, auditVars
  <1>2. Size' = Size /\ ModelsReturned' = ModelsReturned
    BY <1>1 DEF Size, ModelsReturned
  <1>3. RowIds' = RowIds
    BY <1>1, <1>2 DEF RowIds
  <1>4. Decisions(ModelsReturned)' = Decisions(ModelsReturned)
    BY <1>2, <1>3 DEF Decisions
  <1>5. RouteDone' <=> RouteDone
    BY <1>1 DEF RouteDone
  <1>6. Routed' = Routed
    BY <1>1, <1>2, <1>3 DEF Routed, Rules, Decisions
  <1>7. Answered' <=> Answered
    BY <1>1, <1>2 DEF Answered
  <1>8. files' = files => (Written' <=> Written)
    BY <1>1, <1>4, <1>5 DEF Written
  <1> QED BY <1>1, <1>4, <1>5, <1>6, <1>7, <1>8

\* A router's file has what it returned.
LEMMA WritesOwn ==
    ASSUME BatchesOK, Settles, RouteDone,
           files' = [files EXCEPT ![tier.name] = File(Routed)]
    PROVE  Written' /\ DOMAIN files' = KnownTiers
  <1>1. Decisions(ModelsReturned)' = Decisions(ModelsReturned) /\ RouteDone' /\ tier' = tier
    BY SettlesKeeps
  <1>2. tier.name \in DOMAIN files
    BY DEF BatchesOK
  <1>3. files'[tier.name].root.decisions = Decisions(ModelsReturned)
    BY <1>2 DEF File, Routed, SubmissionOf, ModelsReturned
  <1> QED BY <1>1, <1>2, <1>3 DEF Written, BatchesOK

\* The audit takes the answers from the first file.
LEMMA VariantOwn ==
    ASSUME AuditInv, AllocInv, OwnInv, MakeVariant PROVE OwnInv'
  <1>1. /\ stage = "accepted" /\ router # "other" /\ stage' = "reroute"
        /\ UNCHANGED <<router, content, files>>
        /\ answers' = [i \in 1..Size |-> DecidedFor(files[tier.name].root, i)]
    BY DEF MakeVariant, evalVars
  <1>2. PICK order \in Sorted(Size) :
            /\ place' = Reordered(order, Size)
            /\ Begin([k \in 1..Size |-> content[Reordered(order, Size)[k]]])
    BY DEF MakeVariant
  <1>3. PICK r : r = [k \in 1..Size |-> content[place'[k]]]
    OBVIOUS
  <1>4. /\ rows' = r /\ phase' = "select" /\ pc' = "start"
        /\ base' = [i \in DOMAIN r |-> Light]
        /\ selected' = [i \in DOMAIN r |-> Light]
        /\ low' = 0 /\ high' = 0 /\ step' = 0 /\ tier' = tier
    BY <1>2, <1>3 DEF Begin
  <1>5. Size' = Size /\ Size \in 1..MaxEpisodes /\ tier.name \in KnownTiers
        /\ DOMAIN files = KnownTiers
    BY <1>1 DEF OwnInv, BatchesOK, Size
  <1>6. Reaches(tier', rows', Now')
    <2>1. AllocInv'
      BY VariantKeeps
    <2>2. Now' \in SearchStates(rows')
      BY <2>1 DEF AllocInv, BatchOK, SelectionOK, IsOffered, Selections, Episodes,
                  SearchStates, Now
    <2>3. Begins(rows', Now')
      BY <1>4 DEF Begins, Now
    <2> QED BY <2>2, <2>3, ReachesFirst
  <1>7. answers' # <<>>
    <2>1. 1 \in DOMAIN answers'
      BY <1>1, <1>5
    <2> QED BY <2>1
  <1>8. BatchesOK'
    BY <1>1, <1>3, <1>4, <1>5, <1>6, <1>7 DEF BatchesOK
  <1>9. rows = content /\ Written
    BY <1>1 DEF OwnInv, BatchesOK, FilesOK
  <1>10. \A i \in 1..Size :
            answers'[i] = IF router = "public" THEN selected[i]
                          ELSE ModelNumber(SelectModel(content[i], tier.name))
    <2> TAKE i \in 1..Size
    <2>1. RowIds[i] = i
      <3>1. RowIds = [j \in 1..Size |-> j]
        BY <1>1, RowIdsSorted DEF OwnInv
      <3> QED BY <3>1
    <2>2. DecidedFor(files[tier.name].root, RowIds[i])
             = IF router = "public" THEN selected[i]
               ELSE ModelNumber(SelectModel(rows[i], tier.name))
      BY <1>1, <1>9, FileAnswers DEF OwnInv
    <2> QED BY <1>1, <1>9, <2>1, <2>2
  <1>11. Answered'
    <2>1. CASE router = "public"
      <3>1. Finishes(tier, content, Now)
        BY <1>9, <2>1, NowIs
           DEF OwnInv, BatchesOK, Finishes, Written, RouteDone, Now
      <3>2. \A i \in 1..Size : answers'[i] = Now.selected[i]
        BY <1>10, <2>1 DEF Now
      <3>3. PICK x : /\ Finishes(tier, content, x)
                     /\ \A i \in 1..Size : answers'[i] = x.selected[i]
        BY <3>1, <3>2
      <3> QED BY <1>1, <1>4, <1>5, <2>1, <3>3 DEF Answered
    <2>2. CASE router # "public"
      BY <1>1, <1>4, <1>5, <1>10, <2>2 DEF Answered
    <2> QED BY <2>1, <2>2
  <1>12. FilesOK'
    BY <1>1, <1>11 DEF FilesOK
  <1> QED BY <1>8, <1>12 DEF OwnInv

LEMMA OwnStep ==
    AuditInv /\ AllocInv /\ OwnInv /\ [Next]_vars => OwnInv'
  <1> SUFFICES ASSUME AuditInv, AllocInv, OwnInv, [Next]_vars PROVE OwnInv'
    OBVIOUS
  <1>0. DOMAIN files = KnownTiers /\ BatchesOK /\ FilesOK
    BY DEF OwnInv, BatchesOK
  <1>1. CASE RefuseToRoute
    <2>1. Settles /\ files' = files /\ stage' = "refused"
      BY <1>1 DEF RefuseToRoute, Settles
    <2> QED BY <1>0, <2>1, BatchesSettle DEF OwnInv, FilesOK
  <1>2. CASE Allocate
    BY <1>2, AllocateOwn
  <1>3. CASE WriteSubmission
    <2>1. /\ Settles /\ stage = "route" /\ stage' = "written" /\ RouteDone
          /\ files' = [files EXCEPT ![tier.name] = File(Routed)]
      BY <1>3 DEF WriteSubmission, Settles
    <2>2. Written' /\ DOMAIN files' = KnownTiers
      BY <1>0, <2>1, WritesOwn
    <2> QED BY <1>0, <2>1, <2>2, BatchesSettle DEF OwnInv, FilesOK
  <1>4. CASE OtherSubmission
    <2>1. /\ Settles /\ stage = "route" /\ stage' = "written" /\ router = "other"
          /\ router' = router
      BY <1>4 DEF OtherSubmission, Settles, evalVars
    <2>2. DOMAIN files' = DOMAIN files
      BY <1>4 DEF OtherSubmission
    <2> QED BY <1>0, <2>1, <2>2, BatchesSettle DEF OwnInv, FilesOK
  <1>5. CASE Validate
    <2>1. /\ Settles /\ files' = files /\ stage = "written"
          /\ stage' \in {"accepted", "rejected"}
      BY <1>5 DEF Validate, Settles
    <2>2. (Written' <=> Written) /\ router' = router
      BY <2>1, SettlesKeeps
    <2> QED BY <1>0, <2>1, <2>2, BatchesSettle DEF OwnInv, FilesOK
  <1>6. CASE MakeVariant
    BY <1>6, VariantOwn
  <1>7. CASE WriteVariant
    <2>1. /\ Settles /\ stage = "reroute" /\ stage' = "audited" /\ RouteDone
          /\ files' = [files EXCEPT ![tier.name] = File(Routed)]
      BY <1>7 DEF WriteVariant, Settles
    <2>2. Written' /\ DOMAIN files' = KnownTiers
      BY <1>0, <2>1, WritesOwn
    <2>3. Answered' <=> Answered
      BY <2>1, SettlesKeeps
    <2> QED BY <1>0, <2>1, <2>2, <2>3, BatchesSettle DEF OwnInv, FilesOK
  <1>8. CASE SelfCheck
    <2>1. /\ Settles /\ files' = files
          /\ stage' \in {"accepted and checked", "rejected and checked",
                         "checked with bad outcomes"}
      BY <1>8 DEF SelfCheck, Settles
    <2> QED BY <1>0, <2>1, BatchesSettle DEF OwnInv, FilesOK
  <1>9. CASE UNCHANGED vars
    <2>1. Settles /\ files' = files /\ stage' = stage
      BY <1>9 DEF vars, Settles
    <2>2. /\ Answered' <=> Answered
          /\ Written' <=> Written
          /\ router' = router
      BY <2>1, SettlesKeeps
    <2> QED BY <1>0, <2>1, <2>2, BatchesSettle DEF OwnInv, FilesOK
  <1> QED
    BY <1>1, <1>2, <1>3, <1>4, <1>5, <1>6, <1>7, <1>8, <1>9 DEF Next

-----------------------------------------------------------------------------
\* What a router's file says is what its search ended with, and the answers an
\* audit compares it with are those of a search that ended on the same rows.
THEOREM FilesHaveTheAnswers == Spec => []OwnInv
  BY OwnInit, OwnStep, AuditInvariance, AllocatorInvariance, PTL DEF Spec

\* The audit rejects no router that looks at nothing but the content, nor one of
\* the repository's own: on the rows of any batch in any order and under any names
\* the allocation comes to the same model for every row.
THEOREM NoFalseAlarms == Spec => []NoFalseAlarm
  <1>1. AuditInv /\ AllocInv /\ OwnInv => NoFalseAlarm
    BY PassesContentRouters, PassesOwnRouter DEF NoFalseAlarm
  <1> QED BY <1>1, AuditInvariance, AllocatorInvariance, FilesHaveTheAnswers, PTL

-----------------------------------------------------------------------------
(* The files of an evaluation.                                             *)

\* An evaluation asks at least one row.
IsBatch == content \in Seq(Rows) /\ Size \in 1..MaxEpisodes

\* The episodes are numbered from 1, and there are finitely many.
LEMMA BatchFacts ==
    ASSUME IsBatch
    PROVE  /\ DOMAIN content = 1..Size /\ content \in [1..Size -> Rows]
           /\ Size \in Nat /\ Size > 0 /\ Size <= MaxEpisodes /\ 1 \in 1..Size
           /\ \A i \in 1..Size : i \in 1..MaxEpisodes
           /\ IsFiniteSet(1..Size)
  <1>1. Size \in Nat /\ Size > 0 /\ Size <= MaxEpisodes /\ MaxEpisodes \in Nat
    BY EvaluationAssumption DEF IsBatch, EvaluationAssumption
  <1>2. IsFiniteSet(1..Size)
    BY <1>1, FS_Interval
  <1> QED BY <1>1, <1>2 DEF IsBatch, Size

\* The IDs are texts of their own.
LEMMA IdsAreIds ==
    /\ \A i \in 1..MaxEpisodes : IsId(Ids[i])
    /\ \A i, j \in 1..MaxEpisodes : Ids[i] = Ids[j] => i = j
  BY EvaluationAssumption DEF EvaluationAssumption

\* What the input of the batch says.
LEMMA InputIs ==
    ASSUME IsBatch, NEW good, good = InputOf(content)
    PROVE  /\ DOMAIN good = {"schema_version", "challenge_id", "split", "episodes"}
           /\ good.schema_version = 1 /\ good.challenge_id = "challenge"
           /\ good.split = "dev"
           /\ DOMAIN good.episodes = 1..Size /\ Len(good.episodes) = Size
           /\ \A i \in 1..Size : good.episodes[i].episode_id = Ids[i]
           /\ \A i \in 1..Size : ParsesEpisode(good.episodes[i])
           /\ \E T : good.episodes \in Seq(T)
           /\ good.episodes[1] = [episode_id |-> Ids[1],
                 messages |-> <<[role |-> "user", content |-> "text"]>>]
  <1>1. PICK e : e = [i \in DOMAIN content |-> IF i = 1
                     THEN [episode_id |-> Ids[i],
                           messages |-> <<[role |-> "user", content |-> "text"]>>]
                     ELSE [episode_id |-> Ids[i], prompt |-> "text"]]
    OBVIOUS
  <1>2. good = [schema_version |-> 1, challenge_id |-> "challenge", split |-> "dev",
                episodes |-> e]
    BY <1>1 DEF InputOf
  <1>3. DOMAIN e = 1..Size /\ Len(e) = Size
    BY <1>1, BatchFacts
  <1>4. ASSUME NEW i \in 1..Size
        PROVE  e[i].episode_id = Ids[i] /\ ParsesEpisode(e[i])
    <2>1. IsId(Ids[i])
      BY BatchFacts, IdsAreIds
    <2>2. CASE i = 1
      <3>1. PICK m : m = <<[role |-> "user", content |-> "text"]>>
        OBVIOUS
      <3>2. e[i] = [episode_id |-> Ids[i], messages |-> m]
        BY <1>1, <2>2, <3>1, BatchFacts
      <3>3. m # <<>> /\ \A j \in DOMAIN m : ParsesMessage(m[j])
        <4>1. PICK r : r = [role |-> "user", content |-> "text"]
          OBVIOUS
        <4>2. ParsesMessage(r)
          BY <4>1 DEF ParsesMessage, HasKeys, Roles, IsText, Blank
        <4>3. m = <<r>>
          BY <3>1, <4>1
        <4>4. m # <<>> /\ DOMAIN m = 1..1 /\ m[1] = r
          BY <4>3
        <4> QED BY <4>2, <4>4
      <3> QED BY <2>1, <3>2, <3>3 DEF ParsesEpisode, HasKeys
    <2>3. CASE i # 1
      <3>1. e[i] = [episode_id |-> Ids[i], prompt |-> "text"]
        BY <1>1, <2>3, BatchFacts
      <3> QED BY <2>1, <3>1 DEF ParsesEpisode, HasKeys, IsText, Blank
    <2> QED BY <2>2, <2>3
  <1>5. e \in Seq({e[i] : i \in 1..Size})
    <2>1. e \in [1..Size -> {e[i] : i \in 1..Size}]
      BY <1>1, <1>3
    <2> QED BY <2>1, BatchFacts
  <1>6. e[1] = [episode_id |-> Ids[1],
                messages |-> <<[role |-> "user", content |-> "text"]>>]
    BY <1>1, BatchFacts
  <1> QED BY <1>2, <1>3, <1>4, <1>5, <1>6

\* The written input is one that loads, with the IDs of its episodes.
LEMMA InputParses ==
    ASSUME IsBatch
    PROVE  /\ ParsesInput(InputOf(content))
           /\ EpisodeIds(InputOf(content)) = {Ids[i] : i \in 1..Size}
  <1>1. PICK good : good = InputOf(content)
    OBVIOUS
  <1>2. PICK e : e = good.episodes
    OBVIOUS
  <1>3. /\ DOMAIN e = 1..Size /\ \A i \in 1..Size : e[i].episode_id = Ids[i]
        /\ \A i \in 1..Size : ParsesEpisode(e[i])
    BY <1>1, <1>2, InputIs
  <1>4. AllDiffer(e, "episode_id")
    BY <1>3, BatchFacts, IdsAreIds DEF AllDiffer
  <1>5. e # <<>>
    BY <1>3, BatchFacts
  <1>6. CommonHeader(good) /\ HasKeys(good,
            {"schema_version", "challenge_id", "split", "episodes"}, {})
    BY <1>1, InputIs DEF CommonHeader, HasKeys, SchemaVersion, IsText, Blank
  <1> QED BY <1>1, <1>2, <1>3, <1>4, <1>5, <1>6 DEF ParsesInput, EpisodeIds

\* With one thing wrong it is refused.
LEMMA BadInputFails ==
    ASSUME IsBatch, NEW bad \in BadInputs(InputOf(content))
    PROVE  ~ Loads(bad, ParsesInput(bad.root))
  <1>1. PICK g : g = InputOf(content)
    OBVIOUS
  <1>2. PICK e : e = g.episodes
    OBVIOUS
  <1>3. /\ DOMAIN g = {"schema_version", "challenge_id", "split", "episodes"}
        /\ DOMAIN e = 1..Size /\ Len(e) = Size
        /\ \E T : e \in Seq(T)
        /\ e[1] = [episode_id |-> Ids[1],
                   messages |-> <<[role |-> "user", content |-> "text"]>>]
    BY <1>1, <1>2, InputIs
  <1>4. SUFFICES ASSUME NEW root, bad = File(root), ParsesInput(root)
                 PROVE  FALSE
    <2>1. bad = Unreadable \/ \E root : bad = File(root)
      BY DEF BadInputs
    <2>2. ~ Unreadable.reads /\ \A root : File(root).root = root
      BY DEF Unreadable, File
    <2> QED BY <1>4, <2>1, <2>2 DEF Loads
  <1>5. root = bad.root
    BY <1>4 DEF File
  <1>6. PICK f : f = root.episodes
    OBVIOUS
  <1>7. /\ f # <<>> /\ AllDiffer(f, "episode_id")
        /\ \A i \in DOMAIN f : ParsesEpisode(f[i])
    BY <1>4, <1>6 DEF ParsesInput
  <1>8. 1 \in DOMAIN e /\ Size \in Nat /\ Size > 0
    BY <1>3, BatchFacts
  <1>9. ASSUME DOMAIN f = DOMAIN e, ~ ParsesEpisode(f[1]) PROVE FALSE
    BY <1>7, <1>8, <1>9
  <1>10. CASE bad = File([g EXCEPT !.episodes = <<>>])
    <2>1. root = [g EXCEPT !.episodes = <<>>]
      BY <1>5, <1>10 DEF File
    <2> QED BY <1>3, <1>6, <1>7, <2>1
  <1>11. CASE bad = File([g EXCEPT !.episodes = Append(@, @[1])])
    <2>1. root = [g EXCEPT !.episodes = Append(e, e[1])]
      BY <1>2, <1>5, <1>11 DEF File
    <2>2. f = Append(e, e[1])
      BY <1>3, <1>6, <2>1
    <2>3. /\ 1 \in DOMAIN f /\ Size + 1 \in DOMAIN f /\ f[1] = f[Size + 1]
      BY <1>3, <1>8, <2>2
    <2> QED BY <1>7, <1>8, <2>3 DEF AllDiffer
  <1>12. CASE bad = File([g EXCEPT !.episodes[1] = With(@, "prompt", "text")])
    <2>1. root = [g EXCEPT !.episodes = [e EXCEPT ![1] = With(e[1], "prompt", "text")]]
      BY <1>2, <1>5, <1>12 DEF File
    <2>2. f = [e EXCEPT ![1] = With(e[1], "prompt", "text")]
      BY <1>3, <1>6, <2>1
    <2>3. DOMAIN f = DOMAIN e /\ f[1] = With(e[1], "prompt", "text")
      BY <1>8, <2>2
    <2>4. "prompt" \in DOMAIN f[1] /\ "messages" \in DOMAIN f[1]
      BY <1>3, <2>3 DEF With
    <2> QED BY <1>9, <2>3, <2>4 DEF ParsesEpisode
  <1>13. CASE bad = File([g EXCEPT !.episodes[1].messages[1].role = "tool"])
    <2>1. root = [g EXCEPT !.episodes = [e EXCEPT ![1].messages[1].role = "tool"]]
      BY <1>2, <1>5, <1>13 DEF File
    <2>2. f = [e EXCEPT ![1].messages[1].role = "tool"]
      BY <1>3, <1>6, <2>1
    <2>3. PICK m : m = <<[role |-> "user", content |-> "text"]>>
      OBVIOUS
    <2>4. DOMAIN f = DOMAIN e /\ f[1] = [e[1] EXCEPT !.messages[1].role = "tool"]
      BY <1>8, <2>2
    <2>5. f[1].messages = [m EXCEPT ![1].role = "tool"] /\ "messages" \in DOMAIN f[1]
      BY <1>3, <2>3, <2>4
    <2>6. 1 \in DOMAIN m /\ m[1] = [role |-> "user", content |-> "text"]
      BY <2>3
    <2>7. 1 \in DOMAIN f[1].messages /\ f[1].messages[1].role = "tool"
      BY <2>5, <2>6
    <2>8. ~ ParsesMessage(f[1].messages[1])
      BY <2>7 DEF ParsesMessage, Roles
    <2> QED BY <1>9, <2>4, <2>5, <2>7, <2>8 DEF ParsesEpisode
  <1>14. CASE bad = File([g EXCEPT !.episodes[1].messages = <<>>])
    <2>1. root = [g EXCEPT !.episodes = [e EXCEPT ![1].messages = <<>>]]
      BY <1>2, <1>5, <1>14 DEF File
    <2>2. f = [e EXCEPT ![1].messages = <<>>]
      BY <1>3, <1>6, <2>1
    <2>3. DOMAIN f = DOMAIN e /\ f[1] = [e[1] EXCEPT !.messages = <<>>]
      BY <1>8, <2>2
    <2>4. f[1].messages = <<>> /\ "messages" \in DOMAIN f[1]
      BY <1>3, <2>3
    <2> QED BY <1>9, <2>3, <2>4 DEF ParsesEpisode
  <1>15. CASE bad = File([g EXCEPT !.episodes[1].episode_id = TooLong])
    <2>1. root = [g EXCEPT !.episodes = [e EXCEPT ![1].episode_id = TooLong]]
      BY <1>2, <1>5, <1>15 DEF File
    <2>2. f = [e EXCEPT ![1].episode_id = TooLong]
      BY <1>3, <1>6, <2>1
    <2>3. DOMAIN f = DOMAIN e /\ f[1] = [e[1] EXCEPT !.episode_id = TooLong]
      BY <1>8, <2>2
    <2>4. f[1].episode_id = TooLong
      BY <1>3, <2>3
    <2> QED BY <1>9, <2>3, <2>4 DEF ParsesEpisode, IsId
  <1>16. CASE \E v : bad = File(v) /\ ~ ParsesInput(v)
    BY <1>4, <1>5, <1>16 DEF File
  <1>17. bad # Unreadable
    BY <1>4 DEF File, Unreadable
  <1> QED
    BY <1>1, <1>10, <1>11, <1>12, <1>13, <1>14, <1>15, <1>16, <1>17 DEF BadInputs
-----------------------------------------------------------------------------
(* The outcomes of a batch.                                                *)

\* The outcome of a row with a model.
Outcome(r, m) ==
    [score |-> r.score[ModelNumber(m)], num_generations |-> 1,
     input_tokens |-> 1, output_tokens |-> r.cost[ModelNumber(m)] - 1]

\* Models have names, and names models.
LEMMA KnownModelsAre ==
    /\ \A k \in Models : ModelIds[k] \in KnownModels
    /\ \A m \in KnownModels : ModelNumber(m) \in Models /\ ModelIds[ModelNumber(m)] = m
  <1>1. \A k \in Models : ModelIds[k] \in KnownModels
    BY DEF Models, ModelIds, KnownModels
  <1>2. \A m \in KnownModels : \E k \in Models : ModelIds[k] = m
    <2>1. /\ 1 \in Models /\ 2 \in Models /\ 3 \in Models
          /\ ModelIds[1] = "ax31-light" /\ ModelIds[2] = "ax31"
          /\ ModelIds[3] = "axk1-think"
      BY DEF Models, ModelIds
    <2> QED BY <2>1 DEF KnownModels
  <1> QED BY <1>1, <1>2, ModelNumberIs

\* A row's outcome for a model is one that loads.
LEMMA OutcomeParses ==
    ASSUME NEW r \in Rows, NEW m \in KnownModels
    PROVE  ParsesOutcome(Outcome(r, m))
  <1>1. PICK k \in Models : k = ModelNumber(m)
    BY KnownModelsAre
  <1>2. /\ r.score[k] \in Nat /\ r.score[k] <= ScoreOne
        /\ r.cost[k] \in Nat /\ r.cost[k] > 0
    <2>1. r.score \in [Models -> Nat] /\ r.cost \in [Models -> Nat \ {0}]
      BY RowsAssumption DEF RowsAssumption
    <2>2. r.score[k] <= ScoreOne
      BY ExactPredictions DEF ExactPredictions
    <2> QED BY <2>1, <2>2
  <1>3. Outcome(r, m) = [score |-> r.score[k], num_generations |-> 1,
                         input_tokens |-> 1, output_tokens |-> r.cost[k] - 1]
    BY <1>1 DEF Outcome
  <1> QED
    BY <1>2, <1>3 DEF ParsesOutcome, HasKeys, IsInteger, IsDecimal

\* What the outcomes of the batch say.
LEMMA OutcomesAre ==
    ASSUME IsBatch, NEW good, good = OutcomesOf(content)
    PROVE  /\ DOMAIN good = {"schema_version", "challenge_id", "split", "episodes"}
           /\ good.schema_version = 1 /\ good.challenge_id = "challenge"
           /\ good.split = "dev"
           /\ DOMAIN good.episodes = 1..Size /\ Len(good.episodes) = Size
           /\ \E T : good.episodes \in Seq(T)
           /\ \A i \in 1..Size :
                 good.episodes[i] = [episode_id |-> Ids[i],
                    models |-> [m \in KnownModels |-> Outcome(content[i], m)]]
  <1>1. PICK e : e = [i \in DOMAIN content |->
                        [episode_id |-> Ids[i],
                         models |-> [m \in KnownModels |-> Outcome(content[i], m)]]]
    OBVIOUS
  <1>2. good = [schema_version |-> 1, challenge_id |-> "challenge", split |-> "dev",
                episodes |-> e]
    BY <1>1 DEF OutcomesOf, Outcome, ModelNumber
  <1>3. DOMAIN e = 1..Size /\ Len(e) = Size
    BY <1>1, BatchFacts
  <1>4. e \in Seq({e[i] : i \in 1..Size})
    <2>1. e \in [1..Size -> {e[i] : i \in 1..Size}]
      BY <1>1, <1>3
    <2> QED BY <2>1, BatchFacts
  <1>5. \A i \in 1..Size :
           e[i] = [episode_id |-> Ids[i],
                   models |-> [m \in KnownModels |-> Outcome(content[i], m)]]
    BY <1>1, BatchFacts
  <1>6. good.episodes = e
    BY <1>2
  <1>7. /\ DOMAIN good = {"schema_version", "challenge_id", "split", "episodes"}
        /\ good.schema_version = 1 /\ good.challenge_id = "challenge"
        /\ good.split = "dev"
    BY <1>2
  <1> QED BY <1>3, <1>4, <1>5, <1>6, <1>7

\* So are the outcomes of a batch, under the same IDs.
LEMMA OutcomesParse ==
    ASSUME IsBatch
    PROVE  /\ ParsesOutcomes(OutcomesOf(content))
           /\ EpisodeIds(OutcomesOf(content)) = {Ids[i] : i \in 1..Size}
  <1>1. PICK good : good = OutcomesOf(content)
    OBVIOUS
  <1>2. PICK e : e = good.episodes
    OBVIOUS
  <1>3. /\ DOMAIN e = 1..Size
        /\ \A i \in 1..Size :
              e[i] = [episode_id |-> Ids[i],
                      models |-> [m \in KnownModels |-> Outcome(content[i], m)]]
    BY <1>1, <1>2, OutcomesAre
  <1>4. AllDiffer(e, "episode_id")
    BY <1>3, BatchFacts, IdsAreIds DEF AllDiffer
  <1>5. e # <<>>
    BY <1>3, BatchFacts
  <1>6. CommonHeader(good) /\ HasKeys(good,
            {"schema_version", "challenge_id", "split", "episodes"}, {})
    BY <1>1, OutcomesAre DEF CommonHeader, HasKeys, SchemaVersion, IsText, Blank
  <1>7. ASSUME NEW i \in 1..Size
        PROVE  /\ HasKeys(e[i], {"episode_id", "models"}, {})
               /\ IsId(e[i].episode_id)
               /\ DOMAIN e[i].models = KnownModels
               /\ \A m \in KnownModels : ParsesOutcome(e[i].models[m])
    <2>1. IsId(Ids[i]) /\ content[i] \in Rows
      BY BatchFacts, IdsAreIds
    <2>2. \A m \in KnownModels : ParsesOutcome(Outcome(content[i], m))
      BY <2>1, OutcomeParses
    <2> QED BY <1>3, <2>1, <2>2 DEF HasKeys
  <1>8. ParsesOutcomes(good)
    BY <1>2, <1>3, <1>4, <1>5, <1>6, <1>7 DEF ParsesOutcomes
  <1>9. EpisodeIds(good) = {Ids[i] : i \in 1..Size}
    <2>1. \A i \in 1..Size : e[i].episode_id = Ids[i]
      BY <1>3
    <2> QED BY <1>2, <1>3, <2>1 DEF EpisodeIds
  <1> QED BY <1>1, <1>8, <1>9

\* The matrix has for an ID and a model the outcome of the row.
LEMMA OutcomeIs ==
    ASSUME IsBatch, NEW i \in 1..Size, NEW m \in KnownModels
    PROVE  OutcomeOf(OutcomesOf(content), Ids[i], m) = Outcome(content[i], m)
  <1>0. PICK o : o = OutcomesOf(content)
    OBVIOUS
  <1>1. PICK e : e = o.episodes
    OBVIOUS
  <1>2. /\ DOMAIN e = 1..Size
        /\ \A j \in 1..Size :
              e[j] = [episode_id |-> Ids[j],
                      models |-> [l \in KnownModels |-> Outcome(content[j], l)]]
    BY <1>0, <1>1, OutcomesAre
  <1>3. \A j \in 1..Size : e[j].episode_id = Ids[i] <=> j = i
    BY <1>2, BatchFacts, IdsAreIds
  <1>4. (CHOOSE j \in DOMAIN e : e[j].episode_id = Ids[i]) = i
    BY <1>2, <1>3
  <1>5. OutcomeOf(o, Ids[i], m)
           = e[CHOOSE j \in DOMAIN e : e[j].episode_id = Ids[i]].models[m]
    BY <1>1 DEF OutcomeOf
  <1>6. OutcomeOf(o, Ids[i], m) = e[i].models[m]
    BY <1>4, <1>5
  <1>7. e[i].models = [l \in KnownModels |-> Outcome(content[i], l)]
    BY <1>2
  <1> QED BY <1>0, <1>6, <1>7

\* The scorer's cost of it is what the policy makes of the tokens.
LEMMA CostOfOutcome ==
    ASSUME IsBatch, NEW i \in 1..Size, NEW k \in Models, PolicyLoads
    PROVE  /\ OutcomeCost(Outcome(content[i], ModelIds[k]), Rules.models[ModelIds[k]])
                  = TrueCost(content[i], k)
           /\ TrueCost(content[i], k) \in Nat
           /\ Outcome(content[i], ModelIds[k]).score = content[i].score[k]
           /\ content[i].score[k] \in Nat
  <1>1. PICK rates : rates = Rules.models[ModelIds[k]]
    OBVIOUS
  <1>2. /\ rates.fixed_cost \in Nat /\ rates.input_token_rate \in Nat
        /\ rates.output_token_rate \in Nat
    <2>1. PICK root : root = policy.root
      OBVIOUS
    <2>2. ModelIds[k] \in KnownModels /\ ParsesPolicy(root)
      BY <2>1, KnownModelsAre DEF PolicyLoads, Loads
    <2>3. PICK raw : raw = root.models[ModelIds[k]]
      OBVIOUS
    <2>4. ParsesRates(raw)
      BY <2>2, <2>3 DEF ParsesPolicy
    <2>5. \A key \in DOMAIN raw : raw[key] \in Nat
      BY <2>4 DEF ParsesRates, IsDecimal
    <2>6. "input_token_rate" \in DOMAIN raw /\ "output_token_rate" \in DOMAIN raw
      BY <2>4 DEF ParsesRates, HasKeys
    <2>7. rates = [fixed_cost |-> IF "fixed_cost" \in DOMAIN raw
                                  THEN raw.fixed_cost ELSE 0,
                   input_token_rate |-> raw.input_token_rate,
                   output_token_rate |-> raw.output_token_rate]
      BY <1>1, <2>1, <2>2, <2>3 DEF Rules, ParsedPolicy
    <2> QED BY <2>5, <2>6, <2>7
  <1>3. PICK c, s : c = content[i].cost[k] /\ s = content[i].score[k]
    OBVIOUS
  <1>4. c \in Nat /\ c > 0 /\ s \in Nat
    <2>1. content[i] \in Rows
      BY BatchFacts
    <2>2. PICK r \in Rows : r = content[i]
      BY <2>1
    <2>3. r.score \in [Models -> Nat] /\ r.cost \in [Models -> Nat \ {0}]
      BY RowsAssumption DEF RowsAssumption
    <2> QED BY <1>3, <2>2, <2>3
  <1>5. ModelNumber(ModelIds[k]) = k
    BY ModelNumberIs
  <1>6. Outcome(content[i], ModelIds[k]) = [score |-> s, num_generations |-> 1,
                         input_tokens |-> 1, output_tokens |-> c - 1]
    BY <1>3, <1>5 DEF Outcome
  <1>7. TrueCost(content[i], k) = rates.fixed_cost + rates.input_token_rate
                                      + (c - 1) * rates.output_token_rate
    BY <1>1, <1>3 DEF TrueCost
  <1>8. OutcomeCost(Outcome(content[i], ModelIds[k]), rates)
           = rates.fixed_cost + 1 * rates.input_token_rate
                 + (c - 1) * rates.output_token_rate
    BY <1>6 DEF OutcomeCost
  <1>9. (c - 1) * rates.output_token_rate \in Nat
    BY <1>2, <1>4
  <1> QED BY <1>1, <1>2, <1>3, <1>4, <1>6, <1>7, <1>8, <1>9
\* With one thing wrong they are refused, or are not those of the batch.
LEMMA BadOutcomeFails ==
    ASSUME IsBatch, NEW bad \in BadOutcomes(OutcomesOf(content))
    PROVE  ~ /\ Loads(bad, ParsesOutcomes(bad.root))
             /\ Shares(InputOf(content), bad.root)
             /\ OutcomeMatrix(InputOf(content), bad.root)
  <1>1. PICK g : g = OutcomesOf(content)
    OBVIOUS
  <1>2. PICK e : e = g.episodes
    OBVIOUS
  <1>3. /\ DOMAIN g = {"schema_version", "challenge_id", "split", "episodes"}
        /\ DOMAIN e = 1..Size /\ Len(e) = Size
        /\ \E T : e \in Seq(T)
        /\ \A i \in 1..Size :
              e[i] = [episode_id |-> Ids[i],
                      models |-> [m \in KnownModels |-> Outcome(content[i], m)]]
    BY <1>1, <1>2, OutcomesAre
  <1>4. SUFFICES ASSUME NEW root, bad = File(root), ParsesOutcomes(root),
                        Shares(InputOf(content), root),
                        EpisodeIds(root) = {Ids[i] : i \in 1..Size}
                 PROVE  FALSE
    <2>1. bad = Unreadable \/ \E root : bad = File(root)
      BY DEF BadOutcomes
    <2>2. ~ Unreadable.reads /\ \A root : File(root).root = root
      BY DEF Unreadable, File
    <2>3. EpisodeIds(InputOf(content)) = {Ids[i] : i \in 1..Size}
      BY InputParses
    <2> QED BY <1>4, <2>1, <2>2, <2>3 DEF Loads, OutcomeMatrix
  <1>5. root = bad.root
    BY <1>4 DEF File
  <1>6. PICK f : f = root.episodes
    OBVIOUS
  <1>7. /\ f # <<>> /\ AllDiffer(f, "episode_id")
        /\ \A i \in DOMAIN f :
              /\ DOMAIN f[i].models = KnownModels
              /\ \A m \in KnownModels : ParsesOutcome(f[i].models[m])
    BY <1>4, <1>6 DEF ParsesOutcomes
  <1>8. /\ 1 \in DOMAIN e /\ Size \in Nat /\ Size > 0 /\ 1 \in 1..Size
        /\ "ax31" \in KnownModels /\ "ax31-light" \in KnownModels
    BY <1>3, BatchFacts DEF KnownModels
  <1>9. /\ \A i \in DOMAIN f : \E j \in 1..Size : f[i].episode_id = Ids[j]
        /\ \A j \in 1..Size : \E i \in DOMAIN f : f[i].episode_id = Ids[j]
    BY <1>4, <1>6 DEF EpisodeIds
  <1>10. CASE bad = File([g EXCEPT !.episodes = Tail(@)])
    <2>1. root = [g EXCEPT !.episodes = Tail(e)]
      BY <1>2, <1>5, <1>10 DEF File
    <2>2. f = Tail(e)
      BY <1>3, <1>6, <2>1
    <2>3. /\ DOMAIN f = 1..(Size - 1)
          /\ \A i \in 1..(Size - 1) : f[i] = e[i + 1]
      BY <1>3, <1>8, <2>2
    <2>4. PICK i \in DOMAIN f : f[i].episode_id = Ids[1]
      BY <1>8, <1>9
    <2>5. i + 1 \in 1..Size /\ i + 1 # 1
      BY <1>8, <2>3, <2>4
    <2>6. f[i].episode_id = Ids[i + 1]
      BY <1>3, <2>3, <2>4, <2>5
    <2> QED BY <1>8, <2>4, <2>5, <2>6, BatchFacts, IdsAreIds
  <1>11. CASE bad = File([g EXCEPT !.episodes = Append(@, @[1])])
    <2>1. root = [g EXCEPT !.episodes = Append(e, e[1])]
      BY <1>2, <1>5, <1>11 DEF File
    <2>2. f = Append(e, e[1])
      BY <1>3, <1>6, <2>1
    <2>3. /\ 1 \in DOMAIN f /\ Size + 1 \in DOMAIN f /\ f[1] = f[Size + 1]
      BY <1>3, <1>8, <2>2
    <2> QED BY <1>7, <1>8, <2>3 DEF AllDiffer
  <1>12. CASE bad = File([g EXCEPT !.episodes = Append(@, [@[1] EXCEPT !.episode_id = "z"])])
    <2>0. PICK z : z = [e[1] EXCEPT !.episode_id = "z"]
      OBVIOUS
    <2>1. root = [g EXCEPT !.episodes = Append(e, z)]
      BY <1>2, <1>5, <1>12, <2>0 DEF File
    <2>2. f = Append(e, z)
      BY <1>3, <1>6, <2>1
    <2>3. Size + 1 \in DOMAIN f /\ f[Size + 1] = z
      BY <1>3, <1>8, <2>2
    <2>4. z.episode_id = "z"
      BY <1>3, <1>8, <2>0
    <2>5. \A j \in 1..MaxEpisodes : Ids[j] # "z"
      BY EvaluationAssumption DEF EvaluationAssumption
    <2> QED BY <1>9, <2>3, <2>4, <2>5, BatchFacts
  <1>13. ASSUME NEW h, root = [g EXCEPT !.episodes = [e EXCEPT ![1] = h]],
                ParsesOutcomes(root)
         PROVE  /\ DOMAIN h.models = KnownModels
                /\ \A m \in KnownModels : ParsesOutcome(h.models[m])
    <2>1. f = [e EXCEPT ![1] = h]
      BY <1>3, <1>6, <1>13
    <2>2. 1 \in DOMAIN f /\ f[1] = h
      BY <1>8, <2>1
    <2> QED BY <1>7, <2>2
  <1>14. CASE bad = File([g EXCEPT !.episodes[1].models = [m \in {"ax31"} |-> @[m]]])
    <2>1. PICK a : a = [m \in {"ax31"} |-> e[1].models[m]]
      OBVIOUS
    <2>2. PICK h : h = [e[1] EXCEPT !.models = a]
      OBVIOUS
    <2>3. root = [g EXCEPT !.episodes = [e EXCEPT ![1] = h]]
      BY <1>2, <1>5, <1>14, <2>1, <2>2 DEF File
    <2>4. h.models = a
      BY <1>3, <1>8, <2>2
    <2>5. DOMAIN h.models = KnownModels
      BY <1>4, <1>13, <2>3
    <2> QED BY <2>1, <2>4, <2>5 DEF KnownModels
  <1>15. ASSUME NEW o, ~ ParsesOutcome(o), NEW h,
                h = [e[1] EXCEPT !.models["ax31"] = o],
                root = [g EXCEPT !.episodes = [e EXCEPT ![1] = h]]
         PROVE  FALSE
    <2>1. h.models["ax31"] = o
      BY <1>3, <1>8, <1>15
    <2>2. ParsesOutcome(h.models["ax31"])
      BY <1>4, <1>8, <1>13, <1>15
    <2> QED BY <1>15, <2>1, <2>2
  <1>16. PICK u : u = e[1].models["ax31"]
    OBVIOUS
  <1>17. u = Outcome(content[1], "ax31")
    BY <1>3, <1>8, <1>16
  <1>18. DOMAIN u = {"score", "num_generations", "input_tokens", "output_tokens"}
    BY <1>17 DEF Outcome
  <1>19. CASE bad = File([g EXCEPT !.episodes[1].models["ax31"].score = ScoreOne + 1])
    <2>1. PICK o : o = [u EXCEPT !.score = ScoreOne + 1]
      OBVIOUS
    <2>2. PICK h : h = [e[1] EXCEPT !.models["ax31"] = o]
      OBVIOUS
    <2>3. root = [g EXCEPT !.episodes = [e EXCEPT ![1] = h]]
      BY <1>2, <1>5, <1>16, <1>19, <2>1, <2>2 DEF File
    <2>4. o.score = ScoreOne + 1 /\ ScoreOne \in Nat
      BY <1>18, <2>1 DEF ScoreOne
    <2>5. ~ ParsesOutcome(o)
      BY <2>4 DEF ParsesOutcome
    <2> QED BY <1>15, <2>2, <2>3, <2>5
  <1>20. CASE bad = File([g EXCEPT !.episodes[1].models["ax31"].input_tokens = 0])
    <2>1. PICK o : o = [u EXCEPT !.input_tokens = 0]
      OBVIOUS
    <2>2. PICK h : h = [e[1] EXCEPT !.models["ax31"] = o]
      OBVIOUS
    <2>3. root = [g EXCEPT !.episodes = [e EXCEPT ![1] = h]]
      BY <1>2, <1>5, <1>16, <1>20, <2>1, <2>2 DEF File
    <2>4. o.input_tokens = 0
      BY <1>18, <2>1
    <2>5. ~ ParsesOutcome(o)
      BY <2>4 DEF ParsesOutcome, IsInteger
    <2> QED BY <1>15, <2>2, <2>3, <2>5
  <1>21. CASE bad = File([g EXCEPT !.episodes[1].models["ax31"].num_generations = 0])
    <2>1. PICK o : o = [u EXCEPT !.num_generations = 0]
      OBVIOUS
    <2>2. PICK h : h = [e[1] EXCEPT !.models["ax31"] = o]
      OBVIOUS
    <2>3. root = [g EXCEPT !.episodes = [e EXCEPT ![1] = h]]
      BY <1>2, <1>5, <1>16, <1>21, <2>1, <2>2 DEF File
    <2>4. o.num_generations = 0
      BY <1>18, <2>1
    <2>5. ~ ParsesOutcome(o)
      BY <2>4 DEF ParsesOutcome, IsInteger
    <2> QED BY <1>15, <2>2, <2>3, <2>5
  <1>22. CASE bad = File([g EXCEPT !.episodes[1].models["ax31"].output_tokens = Malformed])
    <2>1. PICK o : o = [u EXCEPT !.output_tokens = Malformed]
      OBVIOUS
    <2>2. PICK h : h = [e[1] EXCEPT !.models["ax31"] = o]
      OBVIOUS
    <2>3. root = [g EXCEPT !.episodes = [e EXCEPT ![1] = h]]
      BY <1>2, <1>5, <1>16, <1>22, <2>1, <2>2 DEF File
    <2>4. o.output_tokens = -1
      BY <1>18, <2>1 DEF Malformed
    <2>5. ~ ParsesOutcome(o)
      BY <2>4 DEF ParsesOutcome, IsInteger
    <2> QED BY <1>15, <2>2, <2>3, <2>5
  <1>23. CASE \E v \in Variants(g) : bad = File(v)
    <2>1. root \in Variants(g)
      BY <1>5, <1>23 DEF File
    <2>2. /\ root.schema_version = 1 /\ root.challenge_id = "challenge"
          /\ root.split = "dev"
      BY <1>4, InputIs DEF Shares
    <2>3. DOMAIN root = {"schema_version", "challenge_id", "split", "episodes"}
      <3>1. HasKeys(root, {"schema_version", "challenge_id", "split", "episodes"}, {})
        BY <1>4 DEF ParsesOutcomes
      <3> QED BY <3>1 DEF HasKeys
    <2>4. root # [g EXCEPT !.schema_version = 2]
      BY <1>3, <2>2
    <2>5. root # [g EXCEPT !.challenge_id = Blank]
      BY <1>3, <2>2 DEF Blank
    <2>6. root # [g EXCEPT !.challenge_id = "other"]
      BY <1>3, <2>2
    <2>7. root # [g EXCEPT !.split = "other"]
      BY <1>3, <2>2
    <2>8. root # [k \in DOMAIN g \ {"split"} |-> g[k]]
      BY <2>3
    <2>9. root # With(g, "extra", 0)
      BY <2>3 DEF With
    <2> QED BY <2>1, <2>4, <2>5, <2>6, <2>7, <2>8, <2>9 DEF Variants
  <1>24. bad # Unreadable
    BY <1>4 DEF File, Unreadable
  <1> QED
    BY <1>1, <1>10, <1>11, <1>12, <1>14, <1>19, <1>20, <1>21, <1>22, <1>23, <1>24
       DEF BadOutcomes

\* So self-check reports nothing on them.
LEMMA BadOutcomesUnscored ==
    ASSUME IsBatch, NEW bad \in BadOutcomes(OutcomesOf(content)),
           InputLoads => inputs = File(InputOf(content))
    PROVE  SelfCheckReport(bad) = NoReport
  <1> SUFFICES ASSUME InputLoads, Loads(bad, ParsesOutcomes(bad.root))
               PROVE  ScoreSubmissions(inputs.root, bad.root, Submissions, Rules)
                          = NoReport
    BY DEF SelfCheckReport
  <1>1. inputs.root = InputOf(content)
    BY DEF File
  <1>2. ~ (/\ Shares(inputs.root, bad.root)
           /\ OutcomeMatrix(inputs.root, bad.root))
    BY <1>1, BadOutcomeFails
  <1>3. ~ (/\ SharedMetadata(inputs.root, bad.root, Submissions, Rules)
           /\ OutcomeMatrix(inputs.root, bad.root))
    BY <1>2 DEF SharedMetadata
  <1> QED BY <1>3 DEF ScoreSubmissions
-----------------------------------------------------------------------------
(* What a submission decides.                                              *)

\* Its decisions are objects in an array.
Formed(s) ==
    \E n \in Nat :
        /\ DOMAIN s.decisions = 1..n /\ Len(s.decisions) = n
        /\ \A k \in 1..n :
              s.decisions[k] = [key \in DOMAIN s.decisions[k] |-> s.decisions[k][key]]

\* It has one decision for every row, for the row's model.
Says(s, m) ==
    /\ DOMAIN s.decisions = 1..Size /\ Len(s.decisions) = Size
    /\ m \in [1..Size -> Models]
    /\ \A k \in 1..Size : \E i \in 1..Size :
          s.decisions[k] = [episode_id |-> Ids[i], model_id |-> ModelIds[m[i]]]
    /\ \A i \in 1..Size : \E k \in 1..Size : s.decisions[k].episode_id = Ids[i]
    /\ AllDiffer(s.decisions, "episode_id")

\* As many as it, when they are the same IDs and none comes twice.
LEMMA AsManyDecisions ==
    ASSUME IsBatch, NEW n \in Nat, NEW d, DOMAIN d = 1..n,
           AllDiffer(d, "episode_id"),
           {d[k].episode_id : k \in DOMAIN d} = {Ids[i] : i \in 1..Size}
    PROVE  n = Size
  <1>1. /\ \A k \in 1..n : \E i \in 1..Size : d[k].episode_id = Ids[i]
        /\ \A i \in 1..Size : \E k \in 1..n : d[k].episode_id = Ids[i]
    OBVIOUS
  <1>2. PICK f : f = [k \in 1..n |-> CHOOSE i \in 1..Size : d[k].episode_id = Ids[i]]
    OBVIOUS
  <1>3. \A k \in 1..n : f[k] \in 1..Size /\ d[k].episode_id = Ids[f[k]]
    BY <1>1, <1>2
  <1>4. f \in [1..n -> 1..Size]
    BY <1>2, <1>3
  <1>5. \A j, k \in 1..n : f[j] = f[k] => j = k
    <2> SUFFICES ASSUME NEW j \in 1..n, NEW k \in 1..n, f[j] = f[k] PROVE j = k
      OBVIOUS
    <2>1. d[j].episode_id = d[k].episode_id
      BY <1>3
    <2> QED BY <2>1 DEF AllDiffer
  <1>6. \A i \in 1..Size : \E k \in 1..n : f[k] = i
    <2> SUFFICES ASSUME NEW i \in 1..Size PROVE \E k \in 1..n : f[k] = i
      OBVIOUS
    <2>1. PICK k \in 1..n : d[k].episode_id = Ids[i]
      BY <1>1
    <2>2. Ids[f[k]] = Ids[i] /\ f[k] \in 1..MaxEpisodes /\ i \in 1..MaxEpisodes
      BY <1>3, <2>1, BatchFacts
    <2> QED BY <2>2, IdsAreIds
  <1>7. ExistsBijection(1..n, 1..Size)
    BY <1>4, <1>5, <1>6 DEF ExistsBijection, Bijection, Injection, Surjection, IsInjective
  <1>8. Size \in Nat /\ IsFiniteSet(1..n) /\ Cardinality(1..n) = n
        /\ Cardinality(1..Size) = Size
    BY BatchFacts, FS_Interval
  <1> QED BY <1>7, <1>8, FS_Bijection

\* A submission that parses and has the IDs of the batch says so.
LEMMA SubmissionSays ==
    ASSUME IsBatch, NEW s, Formed(s), ParsesSubmission(s),
           DecisionIds(s) = {Ids[i] : i \in 1..Size}
    PROVE  \E m : Says(s, m)
  <1>1. PICK d : d = s.decisions
    OBVIOUS
  <1>2. AllDiffer(d, "episode_id") /\ \A k \in DOMAIN d : ParsesDecision(d[k])
    BY <1>1 DEF ParsesSubmission
  <1>3. {d[k].episode_id : k \in DOMAIN d} = {Ids[i] : i \in 1..Size}
    BY <1>1 DEF DecisionIds
  <1>4. /\ DOMAIN d = 1..Size /\ Len(d) = Size
        /\ \A k \in 1..Size : d[k] = [key \in DOMAIN d[k] |-> d[k][key]]
    <2>1. PICK n \in Nat :
              /\ DOMAIN d = 1..n /\ Len(d) = n
              /\ \A k \in 1..n : d[k] = [key \in DOMAIN d[k] |-> d[k][key]]
      BY <1>1 DEF Formed
    <2>2. n = Size
      BY <1>2, <1>3, <2>1, AsManyDecisions
    <2> QED BY <2>1, <2>2
  <1>5. \A k \in 1..Size : /\ d[k].model_id \in KnownModels
                           /\ DOMAIN d[k] = {"episode_id", "model_id"}
    <2> SUFFICES ASSUME NEW k \in 1..Size
                 PROVE  /\ d[k].model_id \in KnownModels
                        /\ DOMAIN d[k] = {"episode_id", "model_id"}
      OBVIOUS
    <2>1. ParsesDecision(d[k])
      BY <1>2, <1>4
    <2>2. HasKeys(d[k], {"episode_id", "model_id"}, {})
      BY <2>1 DEF ParsesDecision
    <2>3. DOMAIN d[k] = {"episode_id", "model_id"}
      BY <2>2 DEF HasKeys
    <2> QED BY <2>1, <2>3 DEF ParsesDecision
  <1>6. /\ \A k \in 1..Size : \E i \in 1..Size : d[k].episode_id = Ids[i]
        /\ \A i \in 1..Size : \E k \in 1..Size : d[k].episode_id = Ids[i]
    <2>1. DOMAIN d = 1..Size
      BY <1>4
    <2>2. {d[k].episode_id : k \in 1..Size} = {Ids[i] : i \in 1..Size}
      BY <1>3, <2>1
    <2> QED BY <2>2
  <1>7. PICK at : at = [i \in 1..Size |-> CHOOSE k \in 1..Size : d[k].episode_id = Ids[i]]
    OBVIOUS
  <1>8. \A i \in 1..Size : at[i] \in 1..Size /\ d[at[i]].episode_id = Ids[i]
    BY <1>6, <1>7
  <1>9. PICK m : m = [i \in 1..Size |-> ModelNumber(d[at[i]].model_id)]
    OBVIOUS
  <1>10. \A i \in 1..Size : m[i] \in Models /\ ModelIds[m[i]] = d[at[i]].model_id
    BY <1>5, <1>8, <1>9, KnownModelsAre
  <1>11. m \in [1..Size -> Models]
    BY <1>9, <1>10
  <1>12. ASSUME NEW k \in 1..Size
         PROVE  \E i \in 1..Size :
                    d[k] = [episode_id |-> Ids[i], model_id |-> ModelIds[m[i]]]
    <2>1. PICK i \in 1..Size : d[k].episode_id = Ids[i]
      BY <1>6
    <2>2. at[i] = k
      BY <1>2, <1>4, <1>8, <2>1 DEF AllDiffer
    <2>3. d[k].model_id = ModelIds[m[i]]
      BY <1>10, <2>2
    <2>4. d[k] = [key \in {"episode_id", "model_id"} |-> d[k][key]]
      BY <1>4, <1>5
    <2>5. d[k] = [episode_id |-> d[k].episode_id, model_id |-> d[k].model_id]
      BY <2>4
    <2> QED BY <2>1, <2>3, <2>5
  <1>13. DOMAIN d = 1..Size /\ Len(d) = Size
    BY <1>4
  <1>14. AllDiffer(d, "episode_id")
    BY <1>2
  <1>15. \A k \in 1..Size : \E i \in 1..Size :
            s.decisions[k] = [episode_id |-> Ids[i], model_id |-> ModelIds[m[i]]]
    BY <1>1, <1>12
  <1>16. \A i \in 1..Size : \E k \in 1..Size : s.decisions[k].episode_id = Ids[i]
    BY <1>1, <1>6
  <1>17. Says(s, m)
    BY <1>1, <1>11, <1>13, <1>14, <1>15, <1>16 DEF Says
  <1> QED BY <1>17

\* One decision is for the row, and that model.
LEMMA SaidOnce ==
    ASSUME IsBatch, NEW s, NEW m, Says(s, m), NEW i \in 1..Size
    PROVE  /\ m[i] \in Models
           /\ \E k \in 1..Size :
                 /\ s.decisions[k] = [episode_id |-> Ids[i], model_id |-> ModelIds[m[i]]]
                 /\ \A j \in 1..Size : s.decisions[j].episode_id = Ids[i] => j = k
  <1>1. PICK d : d = s.decisions
    OBVIOUS
  <1>2. /\ DOMAIN d = 1..Size /\ m \in [1..Size -> Models]
        /\ \A k \in 1..Size : \E j \in 1..Size :
              d[k] = [episode_id |-> Ids[j], model_id |-> ModelIds[m[j]]]
        /\ \A j \in 1..Size : \E k \in 1..Size : d[k].episode_id = Ids[j]
        /\ AllDiffer(d, "episode_id")
    BY <1>1 DEF Says
  <1>3. PICK k \in 1..Size : d[k].episode_id = Ids[i]
    BY <1>2
  <1>4. d[k] = [episode_id |-> Ids[i], model_id |-> ModelIds[m[i]]]
    <2>1. PICK j \in 1..Size :
              d[k] = [episode_id |-> Ids[j], model_id |-> ModelIds[m[j]]]
      BY <1>2
    <2>2. Ids[j] = Ids[i]
      BY <1>3, <2>1
    <2>3. j = i
      BY <2>2, BatchFacts, IdsAreIds
    <2> QED BY <2>1, <2>3
  <1>5. \A j \in 1..Size : d[j].episode_id = Ids[i] => j = k
    BY <1>2, <1>3 DEF AllDiffer
  <1>6. m[i] \in Models
    BY <1>2
  <1> QED BY <1>1, <1>4, <1>5, <1>6

\* The scorer takes it.
LEMMA DecidedIsSaid ==
    ASSUME IsBatch, NEW s, NEW m, Says(s, m), NEW i \in 1..Size, NEW batch
    PROVE  Decided(batch, s, Ids[i]) = ModelIds[m[i]] /\ m[i] \in Models
  <1>1. PICK d : d = s.decisions
    OBVIOUS
  <1>2. PICK k \in 1..Size :
            /\ d[k] = [episode_id |-> Ids[i], model_id |-> ModelIds[m[i]]]
            /\ \A j \in 1..Size : d[j].episode_id = Ids[i] => j = k
    BY <1>1, SaidOnce
  <1>3. DOMAIN d = 1..Size /\ m[i] \in Models
    BY <1>1, SaidOnce DEF Says
  <1> DEFINE P(j) == /\ d[j].episode_id = Ids[i]
                     /\ \A l \in DOMAIN d : d[l].episode_id = Ids[i] => l <= j
  <1>4. k \in Int /\ k <= k /\ d[k].episode_id = Ids[i]
    BY <1>2, BatchFacts
  <1>5. \A j : j \in DOMAIN d /\ P(j) <=> j = k
    BY <1>2, <1>3, <1>4
  <1>6. (CHOOSE j \in DOMAIN d : P(j)) = k
    <2> HIDE DEF P
    <2> QED BY <1>5
  <1>7. Decided(batch, s, Ids[i]) = d[CHOOSE j \in DOMAIN d : P(j)].model_id
    BY <1>1 DEF Decided
  <1>8. d[k].model_id = ModelIds[m[i]]
    BY <1>2
  <1> QED BY <1>3, <1>6, <1>7, <1>8

\* And no other model is said.
LEMMA OnlyOneIsSaid ==
    ASSUME IsBatch, NEW s, NEW m, Says(s, m), NEW i \in 1..Size
    PROVE  (CHOOSE l \in Models :
               \E k \in DOMAIN s.decisions :
                   s.decisions[k] = [episode_id |-> Ids[i],
                                     model_id |-> ModelIds[l]]) = m[i]
  <1>1. PICK d : d = s.decisions
    OBVIOUS
  <1>2. DOMAIN d = 1..Size
    BY <1>1 DEF Says
  <1>3. PICK k \in 1..Size :
            /\ d[k] = [episode_id |-> Ids[i], model_id |-> ModelIds[m[i]]]
            /\ \A j \in 1..Size : d[j].episode_id = Ids[i] => j = k
    BY <1>1, SaidOnce
  <1>4. \A j \in 1..Size : d[j].episode_id = Ids[i] => j = k
    BY <1>3
  <1>5. m[i] \in Models
    BY SaidOnce
  <1>6. ASSUME NEW l \in Models, NEW j \in DOMAIN d,
               d[j] = [episode_id |-> Ids[i], model_id |-> ModelIds[l]]
        PROVE  l = m[i]
    <2>1. d[j].episode_id = Ids[i] /\ d[j].model_id = ModelIds[l]
      BY <1>6
    <2>2. j = k
      BY <1>2, <1>4, <2>1
    <2>3. ModelIds[l] = ModelIds[m[i]]
      BY <1>3, <2>1, <2>2
    <2>4. ModelNumber(ModelIds[l]) = l /\ ModelNumber(ModelIds[m[i]]) = m[i]
      BY <1>5, ModelNumberIs
    <2> QED BY <2>3, <2>4
  <1> DEFINE Q(l) == \E j \in DOMAIN d :
                         d[j] = [episode_id |-> Ids[i], model_id |-> ModelIds[l]]
  <1>7. (CHOOSE l \in Models : Q(l)) = m[i]
    <2>1. \A l \in Models : Q(l) <=> l = m[i]
      BY <1>2, <1>3, <1>5, <1>6
    <2> HIDE DEF Q
    <2> QED BY <1>5, <2>1
  <1> QED BY <1>1, <1>7

-----------------------------------------------------------------------------
(* What a tier scores.                                                     *)

\* The two names of a sum.
LEMMA SumIsFunction == ASSUME NEW f PROVE Sum(f) = SumFunction(f)
  BY DEF Sum, FoldSeq, FoldFunction, FoldFunctionOnSet, SumFunction, SumFunctionOnSet

\* The same numbers have the same sum.
LEMMA SumsAgree ==
    ASSUME IsBatch, NEW f, NEW g, DOMAIN f = 1..Size, DOMAIN g = 1..Size,
           \A i \in 1..Size : f[i] = g[i]
    PROVE  Sum(f) = SumFunction(g)
  <1>1. SumFunction(f) = SumOver(f, 1..Size) /\ SumFunction(g) = SumOver(g, 1..Size)
    BY SumFunctionIsSum
  <1>2. IsFiniteSet(1..Size)
    BY BatchFacts
  <1>3. SumOver(f, 1..Size) = SumOver(g, 1..Size)
    BY <1>2, SumEqual
  <1> QED BY <1>1, <1>3, SumIsFunction

\* The totals of ScoreTier, over the episodes of the input.
ChosenCosts(batch, s, outcomes, rules) ==
    [i \in DOMAIN batch.episodes |->
        OutcomeCost(OutcomeOf(outcomes, batch.episodes[i].episode_id,
                              Decided(batch, s, batch.episodes[i].episode_id)),
                    rules.models[Decided(batch, s, batch.episodes[i].episode_id)])]
\* The cost of each episode with the light model of the policy.
LightCosts(batch, outcomes, rules) ==
    [i \in DOMAIN batch.episodes |->
        OutcomeCost(OutcomeOf(outcomes, batch.episodes[i].episode_id,
                              rules.light_model_id),
                    rules.models[rules.light_model_id])]
\* The score of each decision.
ChosenScores(batch, s, outcomes) ==
    [i \in DOMAIN batch.episodes |->
        OutcomeOf(outcomes, batch.episodes[i].episode_id,
                  Decided(batch, s, batch.episodes[i].episode_id)).score]

\* What the score of a tier says, by its three totals.
LEMMA ScoreTierTotals ==
    ASSUME NEW batch, NEW s, NEW outcomes, NEW rules,
           NEW total, NEW light, NEW quality,
           total = Sum(ChosenCosts(batch, s, outcomes, rules)),
           light = Sum(LightCosts(batch, outcomes, rules)),
           quality = Sum(ChosenScores(batch, s, outcomes)),
           NEW x, x = ScoreTier(batch, s, outcomes, rules)
    PROVE  /\ x.light_baseline_cost = light
           /\ x.budget_passed <=>
                 BudgetPassed(total, light, rules.tiers[s.tier].budget_multiplier)
           /\ x.tier_points =
                 IF BudgetPassed(total, light, rules.tiers[s.tier].budget_multiplier)
                 THEN quality ELSE 0
  BY DEF ScoreTier, ChosenCosts, LightCosts, ChosenScores

\* What the decisions cost under the policy, and what they are worth.
CostOf(m) == SumFunction([i \in 1..Size |-> TrueCost(content[i], m[i])])
QualityOf(m) == SumFunction([i \in 1..Size |-> content[i].score[m[i]]])
WithinTier(m, t) == 100 * CostOf(m) <= Multiplier(t) * LightBaseline

\* A loaded policy's light model is one of the models.
LEMMA LightModelIs ==
    ASSUME PolicyLoads
    PROVE  /\ ModelNumber(Rules.light_model_id) \in Models
           /\ ModelIds[ModelNumber(Rules.light_model_id)] = Rules.light_model_id
  <1>1. Rules.light_model_id = policy.root.light_model_id
    BY DEF Rules, ParsedPolicy
  <1>2. policy.root.light_model_id \in KnownModels
    BY DEF PolicyLoads, Loads, ParsesPolicy
  <1> QED BY <1>1, <1>2, KnownModelsAre

\* Sums of costs are numbers.
LEMMA CostOfType ==
    ASSUME IsBatch, PolicyLoads, NEW m \in [1..Size -> Models]
    PROVE  /\ CostOf(m) \in Nat /\ LightBaseline \in Nat
           /\ CostOf(m) = SumOver([i \in 1..Size |-> TrueCost(content[i], m[i])], 1..Size)
           /\ LightBaseline = CostOf([i \in 1..Size |-> ModelNumber(Rules.light_model_id)])
  <1>1. ASSUME NEW k \in [1..Size -> Models]
        PROVE  /\ CostOf(k) = SumOver([i \in 1..Size |-> TrueCost(content[i], k[i])], 1..Size)
               /\ CostOf(k) \in Nat
    <2>1. PICK f : f = [i \in 1..Size |-> TrueCost(content[i], k[i])]
      OBVIOUS
    <2>2. \A i \in 1..Size : f[i] \in Nat
      BY <2>1, CostOfOutcome
    <2>3. SumFunction(f) = SumOver(f, 1..Size)
      BY <2>1, SumFunctionIsSum
    <2>4. SumOver(f, 1..Size) \in Nat
      BY <2>2, BatchFacts, SumType
    <2> QED BY <2>1, <2>3, <2>4 DEF CostOf
  <1>2. PICK light : light = ModelNumber(Rules.light_model_id)
    OBVIOUS
  <1>3. PICK k : k = [i \in 1..Size |-> light]
    OBVIOUS
  <1>4. k \in [1..Size -> Models]
    BY <1>2, <1>3, LightModelIs
  <1>5. CostOf(k) = LightBaseline
    <2>1. [i \in 1..Size |-> TrueCost(content[i], k[i])]
             = [i \in 1..Size |-> TrueCost(content[i], light)]
      BY <1>3
    <2> QED BY <1>2, <2>1 DEF CostOf, LightBaseline
  <1> QED BY <1>1, <1>2, <1>3, <1>4, <1>5

\* The totals of a tier are those of the rows with the models said.
LEMMA ScoreTierIs ==
    ASSUME IsBatch, PolicyLoads, NEW batch, batch = InputOf(content),
           NEW s, NEW m, Says(s, m), s.tier \in KnownTiers,
           NEW x, x = ScoreTier(batch, s, OutcomesOf(content), Rules)
    PROVE  /\ x.light_baseline_cost = LightBaseline
           /\ x.budget_passed <=> WithinTier(m, s.tier)
           /\ x.tier_points = IF WithinTier(m, s.tier) THEN QualityOf(m) ELSE 0
  <1>1. PICK outcomes : outcomes = OutcomesOf(content)
    OBVIOUS
  <1>2. PICK e : e = batch.episodes
    OBVIOUS
  <1>3. DOMAIN e = 1..Size /\ \A i \in 1..Size : e[i].episode_id = Ids[i]
    BY <1>2, InputIs
  <1>4. m \in [1..Size -> Models]
    BY DEF Says
  <1>5. PICK total, light, quality :
           /\ total = Sum(ChosenCosts(batch, s, outcomes, Rules))
           /\ light = Sum(LightCosts(batch, outcomes, Rules))
           /\ quality = Sum(ChosenScores(batch, s, outcomes))
    OBVIOUS
  <1>6. total = CostOf(m)
    <2>1. PICK f : f = ChosenCosts(batch, s, outcomes, Rules)
      OBVIOUS
    <2>2. PICK g : g = [i \in 1..Size |-> TrueCost(content[i], m[i])]
      OBVIOUS
    <2>3. f = [i \in DOMAIN e |->
                  OutcomeCost(OutcomeOf(outcomes, e[i].episode_id,
                                        Decided(batch, s, e[i].episode_id)),
                              Rules.models[Decided(batch, s, e[i].episode_id)])]
      BY <1>2, <2>1 DEF ChosenCosts
    <2>4. DOMAIN f = 1..Size
      BY <1>3, <2>3
    <2>5. ASSUME NEW i \in 1..Size PROVE f[i] = g[i]
      <3>1. f[i] = OutcomeCost(OutcomeOf(outcomes, Ids[i], Decided(batch, s, Ids[i])),
                               Rules.models[Decided(batch, s, Ids[i])])
        BY <1>3, <2>3
      <3>2. Decided(batch, s, Ids[i]) = ModelIds[m[i]] /\ m[i] \in Models
        BY DecidedIsSaid
      <3>3. ModelIds[m[i]] \in KnownModels
        BY <3>2, KnownModelsAre
      <3>4. OutcomeOf(outcomes, Ids[i], ModelIds[m[i]]) = Outcome(content[i], ModelIds[m[i]])
        BY <1>1, <3>3, OutcomeIs
      <3>5. OutcomeCost(Outcome(content[i], ModelIds[m[i]]), Rules.models[ModelIds[m[i]]])
               = TrueCost(content[i], m[i])
        BY <3>2, CostOfOutcome
      <3> QED BY <2>2, <3>1, <3>2, <3>4, <3>5
    <2>6. DOMAIN g = 1..Size
      BY <2>2
    <2>7. Sum(f) = SumFunction(g)
      BY <2>4, <2>5, <2>6, SumsAgree
    <2> QED BY <1>5, <2>1, <2>2, <2>7 DEF CostOf
  <1>7. light = LightBaseline
    <2>1. PICK f : f = LightCosts(batch, outcomes, Rules)
      OBVIOUS
    <2>2. PICK k : k = ModelNumber(Rules.light_model_id)
      OBVIOUS
    <2>3. k \in Models /\ ModelIds[k] = Rules.light_model_id /\ ModelIds[k] \in KnownModels
      BY <2>2, LightModelIs, KnownModelsAre
    <2>4. PICK g : g = [i \in 1..Size |-> TrueCost(content[i], k)]
      OBVIOUS
    <2>5. f = [i \in DOMAIN e |->
                  OutcomeCost(OutcomeOf(outcomes, e[i].episode_id, ModelIds[k]),
                              Rules.models[ModelIds[k]])]
      BY <1>2, <2>1, <2>3 DEF LightCosts
    <2>6. DOMAIN f = 1..Size /\ DOMAIN g = 1..Size
      BY <1>3, <2>4, <2>5
    <2>7. ASSUME NEW i \in 1..Size PROVE f[i] = g[i]
      <3>1. f[i] = OutcomeCost(OutcomeOf(outcomes, Ids[i], ModelIds[k]),
                               Rules.models[ModelIds[k]])
        BY <1>3, <2>5
      <3>2. OutcomeOf(outcomes, Ids[i], ModelIds[k]) = Outcome(content[i], ModelIds[k])
        BY <1>1, <2>3, OutcomeIs
      <3>3. OutcomeCost(Outcome(content[i], ModelIds[k]), Rules.models[ModelIds[k]])
               = TrueCost(content[i], k)
        BY <2>3, CostOfOutcome
      <3> QED BY <2>4, <3>1, <3>2, <3>3
    <2>8. Sum(f) = SumFunction(g)
      BY <2>6, <2>7, SumsAgree
    <2> QED BY <1>5, <2>1, <2>2, <2>4, <2>8 DEF LightBaseline
  <1>8. quality = QualityOf(m)
    <2>1. PICK f : f = ChosenScores(batch, s, outcomes)
      OBVIOUS
    <2>2. PICK g : g = [i \in 1..Size |-> content[i].score[m[i]]]
      OBVIOUS
    <2>3. f = [i \in DOMAIN e |->
                  OutcomeOf(outcomes, e[i].episode_id,
                            Decided(batch, s, e[i].episode_id)).score]
      BY <1>2, <2>1 DEF ChosenScores
    <2>4. DOMAIN f = 1..Size /\ DOMAIN g = 1..Size
      BY <1>3, <2>2, <2>3
    <2>5. ASSUME NEW i \in 1..Size PROVE f[i] = g[i]
      <3>1. f[i] = OutcomeOf(outcomes, Ids[i], Decided(batch, s, Ids[i])).score
        BY <1>3, <2>3
      <3>2. Decided(batch, s, Ids[i]) = ModelIds[m[i]] /\ m[i] \in Models
        BY DecidedIsSaid
      <3>3. ModelIds[m[i]] \in KnownModels
        BY <3>2, KnownModelsAre
      <3>4. OutcomeOf(outcomes, Ids[i], ModelIds[m[i]]) = Outcome(content[i], ModelIds[m[i]])
        BY <1>1, <3>3, OutcomeIs
      <3>5. Outcome(content[i], ModelIds[m[i]]).score = content[i].score[m[i]]
        BY <3>2, CostOfOutcome
      <3> QED BY <2>2, <3>1, <3>2, <3>4, <3>5
    <2>6. Sum(f) = SumFunction(g)
      BY <2>4, <2>5, SumsAgree
    <2> QED BY <1>5, <2>1, <2>2, <2>6 DEF QualityOf
  <1>9. PICK multiplier : multiplier = Rules.tiers[s.tier].budget_multiplier
    OBVIOUS
  <1>10. /\ x.light_baseline_cost = light
         /\ x.budget_passed <=> BudgetPassed(total, light, multiplier)
         /\ x.tier_points = IF BudgetPassed(total, light, multiplier)
                            THEN quality ELSE 0
    BY <1>1, <1>5, <1>9, ScoreTierTotals
  <1>11. BudgetPassed(total, light, multiplier) <=> WithinTier(m, s.tier)
    <2>1. LightBaseline \in Nat /\ multiplier \in Nat
      <3>1. Rules.tiers = policy.root.tiers
        BY DEF Rules, ParsedPolicy
      <3>2. ParsesPolicy(policy.root)
        BY DEF PolicyLoads, Loads
      <3>3. multiplier \in Nat
        BY <1>9, <3>1, <3>2, MultiplierType
      <3> QED BY <1>4, <3>3, CostOfType
    <2>2. LightBaseline * multiplier = multiplier * LightBaseline
      BY <2>1
    <2> QED BY <1>6, <1>7, <1>9, <2>2 DEF BudgetPassed, WithinTier, Whole, Multiplier
  <1> QED BY <1>7, <1>8, <1>10, <1>11
-----------------------------------------------------------------------------
(* What self-check reports.                                                *)

\* Every tier has its place in their order.
LEMMA TierNamesAre ==
    /\ \A k \in 1..3 : TierNames[k] \in KnownTiers
    /\ \A t \in KnownTiers : \E k \in 1..3 : TierNames[k] = t
    /\ \A j, k \in 1..3 : TierNames[j] = TierNames[k] => j = k
  <1>1. /\ TierNames[1] = "fast" /\ TierNames[2] = "balanced" /\ TierNames[3] = "premium"
        /\ 1 \in 1..3 /\ 2 \in 1..3 /\ 3 \in 1..3
    BY DEF TierNames
  <1>2. \A t \in KnownTiers : \E k \in 1..3 : TierNames[k] = t
    BY <1>1 DEF KnownTiers
  <1>3. ASSUME NEW k \in 1..3 PROVE k = 1 \/ k = 2 \/ k = 3
    OBVIOUS
  <1>4. \A k \in 1..3 : TierNames[k] \in KnownTiers
    BY <1>1, <1>3 DEF KnownTiers
  <1>5. \A j, k \in 1..3 : TierNames[j] = TierNames[k] => j = k
    BY <1>1, <1>3
  <1> QED BY <1>2, <1>4, <1>5

\* The file for a tier is the one that claims it.
LEMMA OfTierIs ==
    ASSUME OnePerTier(Submissions), NEW t \in KnownTiers
    PROVE  \E u \in KnownTiers :
              /\ OfTier(Submissions, t) = files[u].root /\ files[u].root.tier = t
              /\ \A w \in KnownTiers : files[w].root.tier = t => w = u
  <1>1. PICK subs : subs = Submissions
    OBVIOUS
  <1>2. DOMAIN subs = 1..3 /\ \A k \in 1..3 : subs[k] = files[TierNames[k]].root
    BY <1>1 DEF Submissions
  <1>3. /\ \A k \in 1..3 : TierNames[k] \in KnownTiers
        /\ \A w \in KnownTiers : \E k \in 1..3 : TierNames[k] = w
    BY TierNamesAre
  <1>4. /\ \A i, j \in 1..3 : subs[i].tier = subs[j].tier => i = j
        /\ {subs[i].tier : i \in 1..3} = KnownTiers
    BY <1>1, <1>2 DEF OnePerTier, AllDiffer
  <1>5. PICK k \in 1..3 : subs[k].tier = t
    BY <1>4
  <1>6. (CHOOSE i \in DOMAIN subs : subs[i].tier = t) = k
    BY <1>2, <1>4, <1>5
  <1>7. OfTier(subs, t) = subs[k]
    BY <1>6 DEF OfTier
  <1>8. PICK u \in KnownTiers : u = TierNames[k]
    BY <1>3
  <1>9. OfTier(Submissions, t) = files[u].root /\ files[u].root.tier = t
    BY <1>1, <1>2, <1>5, <1>7, <1>8
  <1>10. ASSUME NEW w \in KnownTiers, files[w].root.tier = t PROVE w = u
    <2>1. PICK j \in 1..3 : TierNames[j] = w
      BY <1>3
    <2>2. subs[j].tier = subs[k].tier
      BY <1>2, <1>5, <1>10, <2>1
    <2> QED BY <1>4, <1>8, <2>1, <2>2
  <1> QED BY <1>9, <1>10

\* A report says what it scores, or that nothing is scored.
Comparable(batch, outcomes, subs, rules) ==
    /\ OnePerTier(subs) /\ SharedMetadata(batch, outcomes, subs, rules)
    /\ OutcomeMatrix(batch, outcomes)
    /\ \A i \in DOMAIN subs : DecisionIndex(batch, subs[i])

\* When a report is scored, and its entry for each tier.
LEMMA ScoreSubmissionsIs ==
    ASSUME NEW batch, NEW outcomes, NEW subs, NEW rules,
           NEW r, r = ScoreSubmissions(batch, outcomes, subs, rules)
    PROVE  /\ r.scored <=>
                 /\ Comparable(batch, outcomes, subs, rules)
                 /\ \A t \in KnownTiers :
                       ~ ScoreTier(batch, OfTier(subs, t), outcomes, rules)
                             .light_baseline_cost <= 0
           /\ r.scored => \A t \in KnownTiers :
                 r.tiers[t] = ScoreTier(batch, OfTier(subs, t), outcomes, rules)
  <1>1. PICK of : of = [t \in KnownTiers |->
                           ScoreTier(batch, OfTier(subs, t), outcomes, rules)]
    OBVIOUS
  <1>2. PICK points : points =
            Sum([k \in 1..3 |-> of[TierNames[k]].tier_points
                                    * rules.tiers[TierNames[k]].weight])
    OBVIOUS
  <1>3. r = IF ~ Comparable(batch, outcomes, subs, rules) THEN NoReport
            ELSE IF \E t \in KnownTiers : of[t].light_baseline_cost <= 0 THEN NoReport
            ELSE [scored |-> TRUE, tiers |-> of, final_points |-> points]
    BY <1>1, <1>2 DEF ScoreSubmissions, Comparable
  <1>4. NoReport.scored = FALSE
    BY DEF NoReport
  <1>5. \A t \in KnownTiers : of[t] = ScoreTier(batch, OfTier(subs, t), outcomes, rules)
    BY <1>1
  <1> QED BY <1>3, <1>4, <1>5

\* What all files are for a report to score them.
FilesLoad == \A t \in KnownTiers : Loads(files[t], ParsesSubmission(files[t].root))
\* A submission that belongs to the input and decides its episodes.
Complete(s) ==
    /\ Shares(inputs.root, s) /\ s.policy_id = Rules.policy_id
    /\ DecisionIds(s) = EpisodeIds(inputs.root)
AllComplete == \A t \in KnownTiers : Complete(files[t].root)
AllFormed == \A t \in KnownTiers : files[t].reads => Formed(files[t].root)

LEMMA ComparableIs ==
    ASSUME IsBatch, PolicyLoads, inputs = File(InputOf(content))
    PROVE  Comparable(inputs.root, OutcomesOf(content), Submissions, Rules)
               <=> OnePerTier(Submissions) /\ AllComplete
  <1>1. PICK subs : subs = Submissions
    OBVIOUS
  <1>2. DOMAIN subs = 1..3 /\ \A k \in 1..3 : subs[k] = files[TierNames[k]].root
    BY <1>1 DEF Submissions
  <1>3. /\ \A k \in 1..3 : TierNames[k] \in KnownTiers
        /\ \A w \in KnownTiers : \E k \in 1..3 : TierNames[k] = w
    BY TierNamesAre
  <1>4. PICK batch, outcomes : batch = InputOf(content) /\ outcomes = OutcomesOf(content)
    OBVIOUS
  <1>5. inputs.root = batch
    BY <1>4 DEF File
  <1>6. Shares(batch, outcomes)
    BY <1>4, InputIs, OutcomesAre DEF Shares
  <1>7. OutcomeMatrix(batch, outcomes)
    BY <1>4, InputParses, OutcomesParse DEF OutcomeMatrix
  <1>8. batch.schema_version = Rules.schema_version
    <2>1. Rules.schema_version = policy.root.schema_version
      BY DEF Rules, ParsedPolicy
    <2>2. policy.root.schema_version = 1
      BY DEF PolicyLoads, Loads, ParsesPolicy, SchemaVersion
    <2> QED BY <1>4, <2>1, <2>2, InputIs
  <1>9. Comparable(batch, outcomes, subs, Rules)
            <=> OnePerTier(subs) /\ \A i \in 1..3 : Complete(subs[i])
    BY <1>2, <1>5, <1>6, <1>7, <1>8 DEF Comparable, SharedMetadata, Complete, DecisionIndex
  <1>10. (\A i \in 1..3 : Complete(subs[i])) <=> AllComplete
    <2>1. ASSUME \A i \in 1..3 : Complete(subs[i]), NEW t \in KnownTiers
          PROVE  Complete(files[t].root)
      BY <1>2, <1>3, <2>1
    <2>2. ASSUME AllComplete, NEW i \in 1..3 PROVE Complete(subs[i])
      BY <1>2, <1>3, <2>2 DEF AllComplete
    <2> QED BY <2>1, <2>2 DEF AllComplete
  <1> QED BY <1>1, <1>4, <1>5, <1>9, <1>10

\* So every tier's file has a model for every row, and no other.
LEMMA FilesSay ==
    ASSUME IsBatch, inputs = File(InputOf(content)), AllFormed, FilesLoad, AllComplete,
           NEW u \in KnownTiers
    PROVE  \E m : Says(files[u].root, m)
  <1>1. PICK s : s = files[u].root
    OBVIOUS
  <1>2. ParsesSubmission(s) /\ Formed(s)
    BY <1>1 DEF FilesLoad, Loads, AllFormed
  <1>3. DecisionIds(s) = {Ids[i] : i \in 1..Size}
    <2>1. DecisionIds(s) = EpisodeIds(inputs.root)
      BY <1>1 DEF AllComplete, Complete
    <2>2. inputs.root = InputOf(content)
      BY DEF File
    <2> QED BY <2>1, <2>2, InputParses
  <1> QED BY <1>1, <1>2, <1>3, SubmissionSays

\* A tier's result is that of the file that claims it.
LEMMA TierResult ==
    ASSUME IsBatch, PolicyLoads, inputs = File(InputOf(content)), AllFormed, FilesLoad,
           OnePerTier(Submissions), AllComplete, NEW t \in KnownTiers,
           NEW x, x = ScoreTier(inputs.root, OfTier(Submissions, t),
                                OutcomesOf(content), Rules)
    PROVE  \E u \in KnownTiers : \E m :
              /\ files[u].root.tier = t
              /\ \A w \in KnownTiers : files[w].root.tier = t => w = u
              /\ Says(files[u].root, m)
              /\ x.light_baseline_cost = LightBaseline
              /\ x.budget_passed <=> WithinTier(m, t)
              /\ x.tier_points = IF WithinTier(m, t) THEN QualityOf(m) ELSE 0
  <1>1. PICK u \in KnownTiers :
              /\ OfTier(Submissions, t) = files[u].root /\ files[u].root.tier = t
              /\ \A w \in KnownTiers : files[w].root.tier = t => w = u
    BY OfTierIs
  <1>2. PICK m : Says(files[u].root, m)
    BY FilesSay
  <1>3. PICK s, batch : s = files[u].root /\ batch = inputs.root
    OBVIOUS
  <1>4. batch = InputOf(content)
    BY <1>3 DEF File
  <1>5. x = ScoreTier(batch, s, OutcomesOf(content), Rules)
    BY <1>1, <1>3
  <1>6. Says(s, m) /\ s.tier = t
    BY <1>1, <1>2, <1>3
  <1>7. /\ x.light_baseline_cost = LightBaseline
        /\ x.budget_passed <=> WithinTier(m, s.tier)
        /\ x.tier_points = IF WithinTier(m, s.tier) THEN QualityOf(m) ELSE 0
    BY <1>4, <1>5, <1>6, ScoreTierIs
  <1> QED BY <1>1, <1>2, <1>6, <1>7
\* The report says of a tier what its file decides.
Reports(r, t, u, m) ==
    /\ files[u].root.tier = t
    /\ \A w \in KnownTiers : files[w].root.tier = t => w = u
    /\ Says(files[u].root, m)
    /\ r.tiers[t].budget_passed <=> WithinTier(m, t)
    /\ r.tiers[t].tier_points = IF WithinTier(m, t) THEN QualityOf(m) ELSE 0

\* When self-check scores, and that every entry is about a file that says a
\* model of every episode.
LEMMA ReportIs ==
    ASSUME IsBatch, InputLoads => inputs = File(InputOf(content)), AllFormed,
           NEW r, r = SelfCheckReport(File(OutcomesOf(content)))
    PROVE  /\ r.scored <=>
                 /\ InputLoads /\ PolicyLoads /\ FilesLoad
                 /\ OnePerTier(Submissions) /\ AllComplete
                 /\ LightBaseline > 0
           /\ r.scored => \A t \in KnownTiers :
                 \E u \in KnownTiers : \E m : Reports(r, t, u, m)
  <1>0. NoReport.scored = FALSE
    BY DEF NoReport
  <1>1. Loads(File(OutcomesOf(content)), ParsesOutcomes(File(OutcomesOf(content)).root))
    BY OutcomesParse DEF File, Loads
  <1>2. CASE ~ (InputLoads /\ PolicyLoads /\ FilesLoad)
    <2>1. r = NoReport
      BY <1>2 DEF SelfCheckReport, FilesLoad
    <2> QED BY <1>0, <1>2, <2>1
  <1>3. CASE InputLoads /\ PolicyLoads /\ FilesLoad
    <2>1. PICK outcomes, batch : outcomes = OutcomesOf(content) /\ batch = inputs.root
      OBVIOUS
    <2>2. r = ScoreSubmissions(batch, outcomes, Submissions, Rules)
      <3>1. File(outcomes).root = outcomes
        BY DEF File
      <3> QED BY <1>1, <1>3, <2>1, <3>1 DEF SelfCheckReport, FilesLoad
    <2>3. inputs = File(InputOf(content))
      BY <1>3
    <2>4. Comparable(batch, outcomes, Submissions, Rules)
              <=> OnePerTier(Submissions) /\ AllComplete
      BY <1>3, <2>1, <2>3, ComparableIs
    <2> DEFINE Of(t) == ScoreTier(batch, OfTier(Submissions, t), outcomes, Rules)
    <2>5. /\ r.scored <=> /\ Comparable(batch, outcomes, Submissions, Rules)
                          /\ \A t \in KnownTiers : ~ Of(t).light_baseline_cost <= 0
          /\ r.scored => \A t \in KnownTiers : r.tiers[t] = Of(t)
      <3>1. PICK subs, rules : subs = Submissions /\ rules = Rules
        OBVIOUS
      <3>2. r = ScoreSubmissions(batch, outcomes, subs, rules)
        BY <2>2, <3>1
      <3>3. /\ r.scored <=>
                 /\ Comparable(batch, outcomes, subs, rules)
                 /\ \A t \in KnownTiers :
                       ~ ScoreTier(batch, OfTier(subs, t), outcomes, rules)
                             .light_baseline_cost <= 0
            /\ r.scored => \A t \in KnownTiers :
                 r.tiers[t] = ScoreTier(batch, OfTier(subs, t), outcomes, rules)
        BY <3>2, ScoreSubmissionsIs
      <3> QED BY <3>1, <3>3
    <2> HIDE DEF Of
    <2>6. CASE ~ (OnePerTier(Submissions) /\ AllComplete)
      BY <1>3, <2>4, <2>5, <2>6
    <2>7. CASE OnePerTier(Submissions) /\ AllComplete
      <3>1. ASSUME NEW t \in KnownTiers,
                   NEW x, x = ScoreTier(batch, OfTier(Submissions, t), outcomes, Rules)
            PROVE  \E u \in KnownTiers : \E m :
                      /\ files[u].root.tier = t
                      /\ \A w \in KnownTiers : files[w].root.tier = t => w = u
                      /\ Says(files[u].root, m)
                      /\ x.light_baseline_cost = LightBaseline
                      /\ x.budget_passed <=> WithinTier(m, t)
                      /\ x.tier_points = IF WithinTier(m, t) THEN QualityOf(m) ELSE 0
        BY <1>3, <2>1, <2>3, <2>7, <3>1, TierResult
      <3>2. ASSUME NEW t \in KnownTiers
            PROVE  Of(t).light_baseline_cost = LightBaseline
        <4>1. PICK x : x = ScoreTier(batch, OfTier(Submissions, t), outcomes, Rules)
          OBVIOUS
        <4>2. x.light_baseline_cost = LightBaseline
          BY <3>1, <4>1
        <4> QED BY <4>1, <4>2 DEF Of
      <3>3. LightBaseline \in Nat
        <4>1. PICK m : m = [i \in 1..Size |-> Light]
          OBVIOUS
        <4>2. m \in [1..Size -> Models]
          BY <4>1 DEF Light, Models
        <4> QED BY <1>3, <4>2, CostOfType
      <3>4. r.scored <=> LightBaseline > 0
        <4>1. "fast" \in KnownTiers
          BY DEF KnownTiers
        <4>2. (\A t \in KnownTiers : ~ Of(t).light_baseline_cost <= 0)
                  <=> ~ LightBaseline <= 0
          BY <3>2, <4>1
        <4> QED BY <2>4, <2>5, <2>7, <3>3, <4>2
      <3>5. ASSUME r.scored, NEW t \in KnownTiers
            PROVE  \E u \in KnownTiers : \E m : Reports(r, t, u, m)
        <4>1. PICK x : x = ScoreTier(batch, OfTier(Submissions, t), outcomes, Rules)
          OBVIOUS
        <4>2. r.tiers[t] = x
          BY <2>5, <3>5, <4>1 DEF Of
        <4>3. PICK u, m :
                      /\ u \in KnownTiers
                      /\ files[u].root.tier = t
                      /\ \A w \in KnownTiers : files[w].root.tier = t => w = u
                      /\ Says(files[u].root, m)
                      /\ x.budget_passed <=> WithinTier(m, t)
                      /\ x.tier_points = IF WithinTier(m, t) THEN QualityOf(m) ELSE 0
          BY <3>1, <4>1
        <4>4. Reports(r, t, u, m)
          BY <4>2, <4>3 DEF Reports
        <4> QED BY <4>3, <4>4
      <3> QED BY <1>3, <2>7, <3>4, <3>5
    <2> QED BY <2>6, <2>7
  <1> QED BY <1>2, <1>3

\* All of it is about what does not change after the files are made.
Checked == {"accepted and checked", "rejected and checked"}

-----------------------------------------------------------------------------
(* The invariant of an evaluation.                                         *)

\* What is read is one batch under one policy, and the tier has its limits.
ReadOK ==
    /\ InputLoads => inputs = File(InputOf(content))
    /\ artifact \in Artifacts
    /\ router = "public" =>
          /\ tier.safety \in 1..100 /\ tier.multiplier = Multiplier(tier.name)
    /\ tier.name \in KnownTiers /\ DOMAIN files = KnownTiers

\* The files of the other tiers are always-light, unless one has changed places
\* with the tier's.
OthersLight == \A t \in KnownTiers : t # tier.name => files[t] = AlwaysLight(t)
\* Another router may have written two files for each other.
Swapped ==
    \E u \in KnownTiers :
        /\ u # tier.name
        /\ files[tier.name] = AlwaysLight(u) /\ files[u] = AlwaysLight(tier.name)
        /\ \A t \in KnownTiers : t \notin {u, tier.name} => files[t] = AlwaysLight(t)
\* The files that there are, before and after the tier is routed.
FilesMade ==
    IF InputLoads /\ PolicyLoads
    THEN /\ AllFormed
         /\ OthersLight \/ (router = "other" /\ Swapped)
         /\ stage = "route" => \A t \in KnownTiers : files[t] = AlwaysLight(t)
    ELSE files = Missing

\* The verdict of the operator is about the files as they are.
VerdictOK ==
    /\ stage \in {"accepted", "accepted and checked"} => Acceptable
    /\ stage \in {"rejected", "rejected and checked"} => ~ Acceptable
    /\ stage = "reroute" => InputLoads /\ PolicyLoads

\* The report is about the files as they are.
ReportOK ==
    IF stage \in Checked THEN report = SelfCheckReport(File(OutcomesOf(content)))
    ELSE report = NoReport

\* The public router's file has what its finished search selected.
PublicOK ==
    router = "public" /\ stage \in {"written", "accepted", "rejected"} \cup Checked =>
        /\ CanRoute /\ pc = "done" /\ rows = content
        /\ files[tier.name].root.tier = tier.name
        /\ files[tier.name].root.decisions =
               [k \in 1..Size |-> [episode_id |-> Ids[k],
                                   model_id |-> ModelIds[selected[k]]]]

\* The inductive invariant of the reports.
EvalInv == ReadOK /\ FilesMade /\ VerdictOK /\ ReportOK /\ PublicOK
-----------------------------------------------------------------------------
(* The files of an evaluation are arrays of objects.                       *)

\* The contents are a batch in every evaluation.
LEMMA BatchIs == ASSUME AuditInv, BatchesOK PROVE IsBatch
  BY DEF AuditInv, BatchesOK, IsBatch

\* A list of decisions.
DecidesBy(d, n, a, b) == d = [k \in 1..n |-> [episode_id |-> a[k], model_id |-> b[k]]]

\* Decisions made one by one are an array of objects.
LEMMA DecisionsFormed ==
    ASSUME NEW n \in Nat, NEW a, NEW b, NEW s, DecidesBy(s.decisions, n, a, b)
    PROVE  Formed(s)
  <1>1. PICK d : d = s.decisions
    OBVIOUS
  <1>2. d = [k \in 1..n |-> [episode_id |-> a[k], model_id |-> b[k]]]
    BY <1>1 DEF DecidesBy
  <1>3. DOMAIN d = 1..n /\ Len(d) = n
    BY <1>2
  <1>4. \A k \in 1..n : d[k] = [key \in DOMAIN d[k] |-> d[k][key]]
    BY <1>2
  <1> QED BY <1>1, <1>3, <1>4 DEF Formed

\* What an always-light file says.
LEMMA AlwaysLightIs ==
    ASSUME IsBatch, inputs = File(InputOf(content)), NEW t,
           NEW s, s = AlwaysLight(t).root
    PROVE  /\ AlwaysLight(t).reads
           /\ DOMAIN s = {"schema_version", "challenge_id", "policy_id", "split",
                          "tier", "decisions"}
           /\ s.schema_version = 1 /\ s.challenge_id = "challenge" /\ s.split = "dev"
           /\ s.tier = t /\ s.policy_id = Rules.policy_id
           /\ s.decisions = [i \in 1..Size |-> [episode_id |-> Ids[i],
                                                model_id |-> Rules.light_model_id]]
           /\ Formed(s)
  <1>1. PICK batch : batch = InputOf(content)
    OBVIOUS
  <1>2. inputs.root = batch
    BY <1>1 DEF File
  <1>3. PICK d : d = [i \in DOMAIN batch.episodes |->
                        [episode_id |-> batch.episodes[i].episode_id,
                         model_id |-> Rules.light_model_id]]
    OBVIOUS
  <1>4. d = [i \in 1..Size |-> [episode_id |-> Ids[i],
                                model_id |-> Rules.light_model_id]]
    BY <1>1, <1>3, InputIs
  <1>5. s = SubmissionOf(batch, Rules, t, d) /\ AlwaysLight(t).reads
    BY <1>2, <1>3 DEF AlwaysLight, File
  <1>6. s = [schema_version |-> 1, challenge_id |-> "challenge",
             policy_id |-> Rules.policy_id, split |-> "dev", tier |-> t,
             decisions |-> d]
    BY <1>1, <1>5, InputIs DEF SubmissionOf
  <1>7. Formed(s)
    <2>1. PICK b : b = [i \in 1..Size |-> Rules.light_model_id]
      OBVIOUS
    <2>2. PICK a : a = Ids
      OBVIOUS
    <2>3. DecidesBy(s.decisions, Size, a, b)
      BY <1>4, <1>6, <2>1, <2>2 DEF DecidesBy
    <2> QED BY <2>3, BatchFacts, DecisionsFormed
  <1>8. DOMAIN s = {"schema_version", "challenge_id", "policy_id", "split",
                    "tier", "decisions"}
    BY <1>6
  <1>9. /\ s.schema_version = 1 /\ s.challenge_id = "challenge" /\ s.split = "dev"
        /\ s.tier = t /\ s.policy_id = Rules.policy_id /\ s.decisions = d
    BY <1>6
  <1>10. AlwaysLight(t).reads
    BY <1>5
  <1> QED BY <1>4, <1>7, <1>8, <1>9, <1>10

\* It is accepted wherever it is read.
LEMMA AlwaysLightLoads ==
    ASSUME IsBatch, PolicyLoads, inputs = File(InputOf(content)), NEW t \in KnownTiers
    PROVE  /\ Loads(AlwaysLight(t), ParsesSubmission(AlwaysLight(t).root))
           /\ Complete(AlwaysLight(t).root)
  <1>1. PICK s : s = AlwaysLight(t).root
    OBVIOUS
  <1>2. /\ AlwaysLight(t).reads
        /\ DOMAIN s = {"schema_version", "challenge_id", "policy_id", "split",
                       "tier", "decisions"}
        /\ s.schema_version = 1 /\ s.challenge_id = "challenge" /\ s.split = "dev"
        /\ s.tier = t /\ s.policy_id = Rules.policy_id
        /\ s.decisions = [i \in 1..Size |-> [episode_id |-> Ids[i],
                                             model_id |-> Rules.light_model_id]]
    BY <1>1, AlwaysLightIs
  <1>3. PICK d : d = s.decisions
    OBVIOUS
  <1>4. /\ DOMAIN d = 1..Size
        /\ \A i \in 1..Size : d[i] = [episode_id |-> Ids[i],
                                      model_id |-> Rules.light_model_id]
    BY <1>2, <1>3
  <1>5. Rules.policy_id = PolicyId /\ Rules.light_model_id \in KnownModels
    <2>1. /\ Rules.policy_id = policy.root.policy_id
          /\ Rules.light_model_id = policy.root.light_model_id
      BY DEF Rules, ParsedPolicy
    <2> QED BY <2>1 DEF PolicyLoads, Loads, ParsesPolicy
  <1>6. \A i \in 1..Size : ParsesDecision(d[i])
    <2> SUFFICES ASSUME NEW i \in 1..Size PROVE ParsesDecision(d[i])
      OBVIOUS
    <2>1. IsId(Ids[i])
      BY BatchFacts, IdsAreIds
    <2>2. d[i] = [episode_id |-> Ids[i], model_id |-> Rules.light_model_id]
      BY <1>4
    <2> QED BY <1>5, <2>1, <2>2 DEF ParsesDecision, HasKeys
  <1>7. AllDiffer(d, "episode_id")
    BY <1>4, BatchFacts, IdsAreIds DEF AllDiffer
  <1>8. d # <<>>
    BY <1>4, BatchFacts
  <1>9. HasKeys(s, {"schema_version", "challenge_id", "policy_id", "split",
                    "tier", "decisions"}, {}) /\ CommonHeader(s)
        /\ IsText(s.policy_id)
    BY <1>2, <1>5 DEF HasKeys, CommonHeader, SchemaVersion, IsText, Blank, PolicyId
  <1>10. ParsesSubmission(s)
    BY <1>2, <1>3, <1>4, <1>6, <1>7, <1>8, <1>9 DEF ParsesSubmission
  <1>11. DecisionIds(s) = {Ids[i] : i \in 1..Size}
    <2>1. \A i \in 1..Size : d[i].episode_id = Ids[i]
      BY <1>4
    <2> QED BY <1>3, <1>4, <2>1 DEF DecisionIds
  <1>12. PICK batch : batch = InputOf(content)
    OBVIOUS
  <1>13. Complete(s)
    <2>1. inputs.root = batch
      BY <1>12 DEF File
    <2>2. Shares(batch, s)
      BY <1>2, <1>12, InputIs DEF Shares
    <2>3. EpisodeIds(batch) = {Ids[i] : i \in 1..Size}
      BY <1>12, InputParses
    <2> QED BY <1>2, <1>11, <2>1, <2>2, <2>3 DEF Complete
  <1> QED BY <1>1, <1>2, <1>10, <1>13 DEF Loads

\* A list of objects, with one thing changed, is one.
IsObject(o) == o = [key \in DOMAIN o |-> o[key]]
\* A submission with one thing wrong still is one.
LEMMA BadSubmissionFormed ==
    ASSUME IsBatch, inputs = File(InputOf(content)), NEW t, NEW good,
           good = AlwaysLight(t).root, NEW bad \in BadSubmissions(good)
    PROVE  bad.reads => Formed(bad.root)
  <1>1. PICK d : d = good.decisions
    OBVIOUS
  <1>2. /\ d = [i \in 1..Size |-> [episode_id |-> Ids[i],
                                   model_id |-> Rules.light_model_id]]
        /\ DOMAIN good = {"schema_version", "challenge_id", "policy_id", "split",
                          "tier", "decisions"}
        /\ Formed(good)
    BY <1>1, AlwaysLightIs
  <1>3. DOMAIN d = 1..Size /\ Len(d) = Size /\ 1 \in DOMAIN d
        /\ Size \in Nat /\ Size > 0
    BY <1>2, BatchFacts
  <1>4. \A i \in 1..Size : IsObject(d[i])
    BY <1>2 DEF IsObject
  <1>5. d \in Seq({d[i] : i \in 1..Size})
    <2>1. d \in [1..Size -> {d[i] : i \in 1..Size}]
      BY <1>2, <1>3
    <2> QED BY <1>3, <2>1
  <1>6. PICK root : root = bad.root
    OBVIOUS
  <1>7. ASSUME NEW n \in Nat, NEW e, DOMAIN e = 1..n, Len(e) = n,
               \A k \in 1..n : IsObject(e[k]), root.decisions = e
        PROVE  Formed(root)
    BY <1>7 DEF Formed, IsObject
  <1>8. ASSUME root.decisions = d PROVE Formed(root)
    BY <1>3, <1>4, <1>7, <1>8
  <1>9. ASSUME NEW h, IsObject(h), root = [good EXCEPT !.decisions = [d EXCEPT ![1] = h]]
        PROVE  Formed(root)
    <2>1. PICK e : e = [d EXCEPT ![1] = h]
      OBVIOUS
    <2>2. root.decisions = e
      BY <1>2, <1>9, <2>1
    <2>3. DOMAIN e = 1..Size /\ Len(e) = Size
      BY <1>3, <2>1
    <2>4. \A k \in 1..Size : e[k] = IF k = 1 THEN h ELSE d[k]
      BY <1>3, <2>1
    <2>5. \A k \in 1..Size : IsObject(e[k])
      BY <1>4, <1>9, <2>4
    <2> QED BY <1>3, <1>7, <2>2, <2>3, <2>5
  <1>10. ASSUME NEW h, IsObject(h), root = [good EXCEPT !.decisions = Append(d, h)]
         PROVE  Formed(root)
    <2>1. PICK e : e = Append(d, h)
      OBVIOUS
    <2>2. root.decisions = e
      BY <1>2, <1>10, <2>1
    <2>3. DOMAIN e = 1..(Size + 1) /\ Len(e) = Size + 1 /\ Size + 1 \in Nat
      BY <1>3, <1>5, <2>1
    <2>4. \A k \in 1..(Size + 1) : e[k] = IF k = Size + 1 THEN h ELSE d[k]
      BY <1>3, <1>5, <2>1
    <2>5. \A k \in 1..(Size + 1) : k # Size + 1 => k \in 1..Size
      BY <1>3
    <2>6. \A k \in 1..(Size + 1) : IsObject(e[k])
      BY <1>4, <1>10, <2>4, <2>5
    <2> QED BY <1>7, <2>2, <2>3, <2>6
  <1>11. IsObject(d[1]) /\ \A x : IsObject([d[1] EXCEPT !.model_id = x])
                        /\ IsObject([d[1] EXCEPT !.episode_id = x])
                        /\ IsObject(With(d[1], "why", ""))
    <2>1. d[1] = [episode_id |-> Ids[1], model_id |-> Rules.light_model_id]
      BY <1>2, <1>3
    <2>2. IsObject(d[1])
      BY <2>1 DEF IsObject
    <2>3. \A x : IsObject([d[1] EXCEPT !.model_id = x])
      BY <2>1 DEF IsObject
    <2>4. \A x : IsObject([d[1] EXCEPT !.episode_id = x])
      BY <2>1 DEF IsObject
    <2>5. IsObject(With(d[1], "why", ""))
      BY DEF IsObject, With
    <2> QED BY <2>2, <2>3, <2>4, <2>5
  <1>12. CASE bad = Unreadable
    BY <1>12 DEF Unreadable
  <1>13. CASE bad = File([good EXCEPT !.decisions = <<>>])
    <2>1. root.decisions = <<>>
      BY <1>2, <1>6, <1>13 DEF File
    <2>2. PICK e : e = <<>>
      OBVIOUS
    <2>3. PICK n \in Nat : n = 0
      OBVIOUS
    <2>4. DOMAIN e = 1..n /\ Len(e) = n
      BY <2>2, <2>3
    <2>5. \A k \in 1..n : IsObject(e[k])
      BY <2>3
    <2> QED BY <1>6, <1>7, <2>1, <2>2, <2>4, <2>5
  <1>14. CASE bad = File([good EXCEPT !.decisions = Tail(@)])
    <2>1. PICK e : e = Tail(d)
      OBVIOUS
    <2>2. root.decisions = e
      BY <1>1, <1>2, <1>6, <1>14, <2>1 DEF File
    <2>3. PICK n \in Nat : n = Size - 1
      BY <1>3
    <2>4. DOMAIN e = 1..n /\ Len(e) = n /\ \A k \in 1..n : e[k] = d[k + 1]
      BY <1>3, <1>5, <2>1, <2>3
    <2>5. \A k \in 1..n : k + 1 \in 1..Size
      BY <1>3, <2>3
    <2>6. \A k \in 1..n : IsObject(e[k])
      BY <1>4, <2>4, <2>5
    <2> QED BY <1>6, <1>7, <2>2, <2>4, <2>6
  <1>15. CASE bad = File([good EXCEPT !.decisions = Append(@, [@[1] EXCEPT !.model_id = "ax31"])])
    BY <1>1, <1>6, <1>10, <1>11, <1>15 DEF File
  <1>16. CASE bad = File([good EXCEPT !.decisions = Append(@, [@[1] EXCEPT !.episode_id = "z"])])
    BY <1>1, <1>6, <1>10, <1>11, <1>16 DEF File
  <1>17. CASE bad = File([good EXCEPT !.decisions[1].episode_id = TooLong])
    BY <1>1, <1>6, <1>9, <1>11, <1>17 DEF File
  <1>18. CASE bad = File([good EXCEPT !.decisions[1].model_id = "gpt"])
    BY <1>1, <1>6, <1>9, <1>11, <1>18 DEF File
  <1>19. CASE bad = File([good EXCEPT !.decisions[1] = With(@, "why", "")])
    BY <1>1, <1>6, <1>9, <1>11, <1>19 DEF File
  <1>20. CASE \E v : bad = File([good EXCEPT !.policy_id = v])
                     \/ bad = File([good EXCEPT !.tier = v])
    <2>0. PICK v : \/ bad = File([good EXCEPT !.policy_id = v])
                   \/ bad = File([good EXCEPT !.tier = v])
      BY <1>20
    <2>1. root = [good EXCEPT !.policy_id = v] \/ root = [good EXCEPT !.tier = v]
      BY <1>6, <2>0 DEF File
    <2>2. root.decisions = d
      BY <1>1, <1>2, <2>1
    <2> QED BY <1>6, <1>8, <2>2
  <1>21. CASE \E v \in Variants(good) : bad = File(v)
    <2>1. root \in Variants(good)
      BY <1>6, <1>21 DEF File
    <2>2. root = [k \in DOMAIN good \ {"split"} |-> good[k]] => root.decisions = d
      BY <1>1, <1>2
    <2>3. root = With(good, "extra", 0) => root.decisions = d
      BY <1>1, <1>2 DEF With
    <2>4. root.decisions = d
      BY <1>1, <1>2, <2>1, <2>2, <2>3 DEF Variants
    <2> QED BY <1>6, <1>8, <2>4
  <1> QED
    BY <1>12, <1>13, <1>14, <1>15, <1>16, <1>17, <1>18, <1>19, <1>20, <1>21
       DEF BadSubmissions
-----------------------------------------------------------------------------
\* It holds when an evaluation begins,
LEMMA EvalInit == Init => EvalInv
  <1> SUFFICES ASSUME Init PROVE EvalInv
    OBVIOUS
  <1>1. IsBatch
    BY AuditInit, OwnInit, BatchIs DEF OwnInv
  <1>2. InputLoads => inputs = File(InputOf(content))
    <2>1. inputs = File(InputOf(content)) \/ inputs \in BadInputs(InputOf(content))
      BY DEF Init
    <2>2. inputs \in BadInputs(InputOf(content)) => ~ InputLoads
      BY <1>1, BadInputFails DEF InputLoads
    <2> QED BY <2>1, <2>2
  <1>3. PICK name \in KnownTiers :
            tier = [name |-> name, safety |-> artifact.safety[name],
                    multiplier |-> IF PolicyLoads THEN Multiplier(name) ELSE 0]
    BY DEF Init
  <1>4. tier.name = name /\ tier.safety = artifact.safety[name]
        /\ tier.multiplier = IF PolicyLoads THEN Multiplier(name) ELSE 0
    BY <1>3
  <1>5. artifact \in Artifacts
    BY DEF Init
  <1>6. tier.safety \in 1..100
    <2>1. artifact.safety \in [KnownTiers -> 1..100]
      BY <1>5, EvaluationAssumption DEF EvaluationAssumption
    <2> QED BY <1>4, <2>1
  <1>7. router = "public" => PolicyLoads
    <2> SUFFICES ASSUME router = "public" PROVE PolicyLoads
      OBVIOUS
    <2>1. policy \in {File(p) : p \in Policies}
      BY DEF Init
    <2>2. PICK p \in Policies : policy = File(p)
      BY <2>1
    <2>3. ParsesPolicy(p)
      BY EvaluationAssumption DEF EvaluationAssumption
    <2> QED BY <2>2, <2>3 DEF PolicyLoads, Loads, File
  <1>8. ReadOK
    <2>1. DOMAIN files = KnownTiers
      BY OwnInit DEF OwnInv, BatchesOK
    <2> QED BY <1>2, <1>4, <1>5, <1>6, <1>7, <2>1 DEF ReadOK
  <1>9. FilesMade
    <2>1. CASE ~ (InputLoads /\ PolicyLoads)
      <3>1. files = Missing
        BY <2>1 DEF Init
      <3> QED BY <2>1, <3>1 DEF FilesMade
    <2>2. CASE InputLoads /\ PolicyLoads
      <3>1. files = [t \in KnownTiers |-> AlwaysLight(t)]
        BY <2>2 DEF Init
      <3>2. \A t \in KnownTiers : files[t] = AlwaysLight(t)
        BY <3>1
      <3>3. OthersLight
        BY <3>2 DEF OthersLight
      <3>4. AllFormed
        <4> SUFFICES ASSUME NEW t \in KnownTiers PROVE Formed(files[t].root)
          BY DEF AllFormed
        <4>1. PICK s : s = AlwaysLight(t).root
          OBVIOUS
        <4>2. Formed(s)
          BY <1>1, <1>2, <2>2, <4>1, AlwaysLightIs
        <4> QED BY <3>2, <4>1, <4>2
      <3> QED BY <2>2, <3>2, <3>3, <3>4 DEF FilesMade
    <2> QED BY <2>1, <2>2
  <1>10. stage = "route" /\ report = NoReport
    BY DEF Init
  <1>11. VerdictOK /\ ReportOK /\ PublicOK
    BY <1>10 DEF VerdictOK, ReportOK, PublicOK, Checked
  <1> QED BY <1>8, <1>9, <1>11 DEF EvalInv

\* The same files, batch, policy and tier.
Same == UNCHANGED <<evalVars, tier>>

\* What is read depends on what was there when the evaluation began.
LEMMA SameReads ==
    ASSUME Same
    PROVE  /\ (InputLoads' <=> InputLoads) /\ (PolicyLoads' <=> PolicyLoads)
           /\ (CanRoute' <=> CanRoute) /\ Size' = Size /\ Rules' = Rules
           /\ inputs' = inputs /\ content' = content /\ router' = router
           /\ artifact' = artifact /\ tier' = tier
           /\ \A t : AlwaysLight(t)' = AlwaysLight(t)
           /\ \A t : Multiplier(t)' = Multiplier(t)
  <1>1. UNCHANGED <<router, policy, artifact, content, inputs, tier>>
    BY DEF Same, evalVars
  <1>2. (InputLoads' <=> InputLoads) /\ (PolicyLoads' <=> PolicyLoads)
    BY <1>1 DEF InputLoads, PolicyLoads
  <1>3. Size' = Size /\ Rules' = Rules
    BY <1>1 DEF Size, Rules
  <1>4. CanRoute' <=> CanRoute
    BY <1>1, <1>2, <1>3 DEF CanRoute, ValidComponents
  <1>5. \A t : AlwaysLight(t)' = AlwaysLight(t)
    BY <1>1, <1>3 DEF AlwaysLight
  <1>6. \A t : Multiplier(t)' = Multiplier(t)
    BY <1>3 DEF Multiplier
  <1> QED BY <1>1, <1>2, <1>3, <1>4, <1>5, <1>6

\* So do the verdict and the report, if no file changes.
LEMMA SameFiles ==
    ASSUME Same, files' = files
    PROVE  /\ (Acceptable' <=> Acceptable)
           /\ (AllFormed' <=> AllFormed) /\ (OthersLight' <=> OthersLight)
           /\ (Swapped' <=> Swapped)
           /\ SelfCheckReport(File(OutcomesOf(content)))'
                  = SelfCheckReport(File(OutcomesOf(content)))
  <1>1. /\ (InputLoads' <=> InputLoads) /\ (PolicyLoads' <=> PolicyLoads)
        /\ Rules' = Rules /\ inputs' = inputs /\ content' = content /\ tier' = tier
        /\ \A t : AlwaysLight(t)' = AlwaysLight(t)
    BY SameReads
  <1>2. Acceptable' <=> Acceptable
    BY <1>1 DEF Acceptable
  <1>3. AllFormed' <=> AllFormed
    BY DEF AllFormed
  <1>4. OthersLight' <=> OthersLight
    BY <1>1 DEF OthersLight
  <1>5. Swapped' <=> Swapped
    BY <1>1 DEF Swapped
  <1>6. Submissions' = Submissions
    BY DEF Submissions
  <1>7. SelfCheckReport(File(OutcomesOf(content)))'
            = SelfCheckReport(File(OutcomesOf(content)))
    BY <1>1, <1>6 DEF SelfCheckReport
  <1> QED BY <1>2, <1>3, <1>4, <1>5, <1>7

\* What is read stays read.
LEMMA ReadKeeps ==
    ASSUME ReadOK, Same, DOMAIN files' = KnownTiers
    PROVE  ReadOK'
  BY SameReads DEF ReadOK

\* Files that nobody touches stay made, once the route is left.
LEMMA FilesKeep ==
    ASSUME FilesMade, Same, files' = files, stage' = stage \/ stage' # "route"
    PROVE  FilesMade'
  <1>1. /\ (InputLoads' <=> InputLoads) /\ (PolicyLoads' <=> PolicyLoads)
        /\ router' = router /\ \A t : AlwaysLight(t)' = AlwaysLight(t)
    BY SameReads
  <1>2. /\ (AllFormed' <=> AllFormed) /\ (OthersLight' <=> OthersLight)
        /\ (Swapped' <=> Swapped)
    BY SameFiles
  <1>3. Missing' = Missing
    BY DEF Missing
  <1>4. stage' = "route" => stage = "route"
    OBVIOUS
  <1> QED BY <1>1, <1>2, <1>3, <1>4 DEF FilesMade
\* A file written in the tier's place leaves the others alone.
LEMMA WriteKeeps ==
    ASSUME FilesMade, Same, InputLoads, PolicyLoads, router # "other" \/ stage = "route",
           DOMAIN files = KnownTiers, tier.name \in KnownTiers, NEW f,
           files' = [files EXCEPT ![tier.name] = f], f.reads => Formed(f.root),
           stage' # "route"
    PROVE  FilesMade'
  <1>1. /\ (InputLoads' <=> InputLoads) /\ (PolicyLoads' <=> PolicyLoads)
        /\ router' = router /\ tier' = tier /\ \A t : AlwaysLight(t)' = AlwaysLight(t)
    BY SameReads
  <1>2. AllFormed /\ OthersLight
    BY DEF FilesMade, OthersLight
  <1>3. \A t \in KnownTiers : files'[t] = IF t = tier.name THEN f ELSE files[t]
    OBVIOUS
  <1>4. AllFormed'
    BY <1>2, <1>3 DEF AllFormed
  <1>5. OthersLight'
    BY <1>1, <1>2, <1>3 DEF OthersLight
  <1> QED BY <1>1, <1>4, <1>5 DEF FilesMade

\* A router's file is an array of its decisions.
LEMMA RoutedFormed ==
    ASSUME IsBatch
    PROVE  /\ Formed(Routed) /\ Routed.tier = tier.name
           /\ Routed.decisions = Decisions([k \in 1..Size |->
                  IF router = "public" THEN ModelIds[selected[k]]
                  ELSE SelectModel(rows[k], tier.name)])
  <1>1. PICK m : m = [k \in 1..Size |->
                  IF router = "public" THEN ModelIds[selected[k]]
                  ELSE SelectModel(rows[k], tier.name)]
    OBVIOUS
  <1>2. PICK a : a = [k \in 1..Size |-> Ids[RowIds[k]]]
    OBVIOUS
  <1>3. PICK s : s = Routed
    OBVIOUS
  <1>4. s.decisions = Decisions(m) /\ s.tier = tier.name
    BY <1>1, <1>3 DEF Routed, SubmissionOf
  <1>5. Decisions(m) = [k \in 1..Size |-> [episode_id |-> a[k], model_id |-> m[k]]]
    BY <1>2 DEF Decisions
  <1>6. DecidesBy(s.decisions, Size, a, m)
    BY <1>4, <1>5 DEF DecidesBy
  <1>7. Formed(s)
    BY <1>6, BatchFacts, DecisionsFormed
  <1> QED BY <1>1, <1>3, <1>4, <1>7

\* Anybody's file takes the tier's place, or changes it with another's.
LEMMA OtherKeeps ==
    ASSUME IsBatch, ReadOK, FilesMade, OtherSubmission PROVE FilesMade' /\ DOMAIN files' = KnownTiers
  <1>1. /\ Same /\ stage = "route" /\ stage' = "written" /\ router = "other"
    BY DEF OtherSubmission, Same, allocatorVars
  <1>2. /\ DOMAIN files = KnownTiers /\ tier.name \in KnownTiers
        /\ InputLoads => inputs = File(InputOf(content))
    BY DEF ReadOK
  <1>3. CASE ~ CanRoute
    <2>1. files' = files
      BY <1>3 DEF OtherSubmission
    <2> QED BY <1>1, <1>2, <2>1, FilesKeep
  <1>4. CASE CanRoute
    <2>1. InputLoads /\ PolicyLoads
      BY <1>4 DEF CanRoute
    <2>2. /\ AllFormed /\ \A t \in KnownTiers : files[t] = AlwaysLight(t)
      BY <1>1, <2>1 DEF FilesMade
    <2>3. inputs = File(InputOf(content))
      BY <1>2, <2>1
    <2>4. ASSUME NEW f, files' = [files EXCEPT ![tier.name] = f],
                 f.reads => Formed(f.root)
          PROVE  FilesMade' /\ DOMAIN files' = KnownTiers
      <3>1. FilesMade'
        BY <1>1, <1>2, <2>1, <2>4, WriteKeeps
      <3> QED BY <1>2, <2>4, <3>1
    <2>5. CASE \E order \in Sorted(Size), models \in [1..Size -> KnownModels] :
                   files' = [files EXCEPT ![tier.name].root.decisions =
                       [k \in 1..Size |-> [episode_id |-> Ids[order[k]],
                                           model_id |-> models[order[k]]]]]
      <3>1. PICK order \in Sorted(Size), models \in [1..Size -> KnownModels] :
                   files' = [files EXCEPT ![tier.name].root.decisions =
                       [k \in 1..Size |-> [episode_id |-> Ids[order[k]],
                                           model_id |-> models[order[k]]]]]
        BY <2>5
      <3>2. PICK d : d = [k \in 1..Size |-> [episode_id |-> Ids[order[k]],
                                             model_id |-> models[order[k]]]]
        OBVIOUS
      <3>3. PICK f : f = [files[tier.name] EXCEPT !.root.decisions = d]
        OBVIOUS
      <3>4. files' = [files EXCEPT ![tier.name] = f]
        BY <1>2, <3>1, <3>2, <3>3
      <3>5. f.root.decisions = d
        <4>1. PICK s : s = AlwaysLight(tier.name).root
          OBVIOUS
        <4>2. "decisions" \in DOMAIN s
          <5>1. PICK t : t = tier.name
            OBVIOUS
          <5>2. s = AlwaysLight(t).root
            BY <4>1, <5>1
          <5>3. DOMAIN s = {"schema_version", "challenge_id", "policy_id", "split",
                            "tier", "decisions"}
            BY <2>3, <5>2, AlwaysLightIs
          <5> QED BY <5>3
        <4>3. files[tier.name] = AlwaysLight(tier.name)
          BY <1>2, <2>2
        <4>4. files[tier.name] = [reads |-> TRUE, root |-> s]
          BY <4>1, <4>3 DEF AlwaysLight, File
        <4>5. f.root = [s EXCEPT !.decisions = d]
          <5>1. PICK g : g = files[tier.name]
            OBVIOUS
          <5>2. g = [reads |-> TRUE, root |-> s]
            BY <4>4, <5>1
          <5>3. f = [g EXCEPT !.root = [g.root EXCEPT !.decisions = d]]
            BY <3>3, <5>1
          <5> QED BY <5>2, <5>3
        <4> QED BY <4>2, <4>5
      <3>6. Formed(f.root)
        <4>1. PICK s : s = f.root
          OBVIOUS
        <4>2. PICK a, b : /\ a = [k \in 1..Size |-> Ids[order[k]]]
                          /\ b = [k \in 1..Size |-> models[order[k]]]
          OBVIOUS
        <4>3. DecidesBy(s.decisions, Size, a, b)
          BY <3>2, <3>5, <4>1, <4>2 DEF DecidesBy
        <4>4. Formed(s)
          BY <4>3, BatchFacts, DecisionsFormed
        <4> QED BY <4>1, <4>4
      <3> QED BY <2>4, <3>4, <3>6
    <2>6. CASE \E bad \in BadSubmissions(files[tier.name].root) :
                   files' = [files EXCEPT ![tier.name] = bad]
      <3>1. PICK bad \in BadSubmissions(files[tier.name].root) :
                   files' = [files EXCEPT ![tier.name] = bad]
        BY <2>6
      <3>2. files[tier.name] = AlwaysLight(tier.name)
        BY <1>2, <2>2
      <3>3. PICK good : good = AlwaysLight(tier.name).root
        OBVIOUS
      <3>4. bad \in BadSubmissions(good)
        BY <3>1, <3>2, <3>3
      <3>5. bad.reads => Formed(bad.root)
        BY <2>3, <3>3, <3>4, BadSubmissionFormed
      <3> QED BY <2>4, <3>1, <3>5
    <2>7. CASE \E t \in KnownTiers \ {tier.name} :
                   files' = [files EXCEPT ![tier.name] = files[t],
                                          ![t] = files[tier.name]]
      <3>1. PICK u \in KnownTiers \ {tier.name} :
                   files' = [files EXCEPT ![tier.name] = files[u],
                                          ![u] = files[tier.name]]
        BY <2>7
      <3>2. DOMAIN files' = KnownTiers
        BY <1>2, <3>1
      <3>3. \A t \in KnownTiers :
               files'[t] = IF t = u THEN files[tier.name]
                           ELSE IF t = tier.name THEN files[u] ELSE files[t]
        BY <1>2, <3>1
      <3>4. /\ (InputLoads' <=> InputLoads) /\ (PolicyLoads' <=> PolicyLoads)
            /\ router' = router /\ tier' = tier
            /\ \A t : AlwaysLight(t)' = AlwaysLight(t)
        BY <1>1, SameReads
      <3>5. u \in KnownTiers /\ u # tier.name
        OBVIOUS
      <3>6. AllFormed'
        BY <1>2, <2>2, <3>3, <3>5 DEF AllFormed
      <3>7. /\ files'[tier.name] = AlwaysLight(u) /\ files'[u] = AlwaysLight(tier.name)
            /\ \A t \in KnownTiers : t \notin {u, tier.name} => files'[t] = AlwaysLight(t)
        BY <1>2, <2>2, <3>3, <3>5
      <3>8. Swapped'
        BY <3>4, <3>5, <3>7 DEF Swapped
      <3> QED BY <1>1, <2>1, <3>2, <3>4, <3>6, <3>8 DEF FilesMade
    <2> QED BY <1>4, <2>5, <2>6, <2>7 DEF OtherSubmission
  <1> QED BY <1>3, <1>4
\* So does what is reported.
LEMMA RestKeeps ==
    ASSUME ReportOK, stage \notin Checked, report' = report, stage' \notin Checked
    PROVE  ReportOK'
  <1>1. Checked' = Checked
    BY DEF Checked
  <1> QED BY <1>1 DEF ReportOK

\* The public router's file.
LEMMA PublicKeeps ==
    ASSUME PublicOK, UNCHANGED allocatorVars, UNCHANGED evalVars, files' = files,
           stage \in {"written", "accepted", "rejected"} \cup Checked
    PROVE  PublicOK'
  <1>1. Same /\ rows' = rows /\ pc' = pc /\ selected' = selected
    BY DEF allocatorVars, Same
  <1>2. /\ (CanRoute' <=> CanRoute) /\ Size' = Size /\ content' = content
        /\ router' = router /\ tier' = tier
    BY <1>1, SameReads
  <1> QED BY <1>1, <1>2 DEF PublicOK

\* The public router writes what it selected.
LEMMA PublicWrites ==
    ASSUME IsBatch, BatchesOK, ReadOK, WriteSubmission PROVE PublicOK'
  <1> SUFFICES ASSUME router = "public" PROVE PublicOK'
    BY DEF PublicOK, WriteSubmission, evalVars
  <1>1. /\ CanRoute /\ RouteDone /\ stage = "route" /\ UNCHANGED allocatorVars
        /\ UNCHANGED evalVars
        /\ files' = [files EXCEPT ![tier.name] = File(Routed)]
    BY DEF WriteSubmission
  <1>2. Same /\ rows' = rows /\ pc' = pc /\ selected' = selected
    BY <1>1 DEF allocatorVars, Same
  <1>3. /\ (CanRoute' <=> CanRoute) /\ Size' = Size /\ content' = content
        /\ router' = router /\ tier' = tier
    BY <1>2, SameReads
  <1>4. pc = "done" /\ rows = content /\ answers = <<>>
    BY <1>1 DEF RouteDone, BatchesOK
  <1>5. files'[tier.name] = File(Routed)
    BY <1>1 DEF ReadOK
  <1>6. PICK s : s = Routed
    OBVIOUS
  <1>7. files'[tier.name].root = s
    BY <1>5, <1>6 DEF File
  <1>8. PICK m : m = [k \in 1..Size |-> ModelIds[selected[k]]]
    OBVIOUS
  <1>9. s.tier = tier.name /\ s.decisions = Decisions(m)
    BY <1>6, <1>8, RoutedFormed
  <1>10. Decisions(m) = [k \in 1..Size |-> [episode_id |-> Ids[k],
                                           model_id |-> ModelIds[selected[k]]]]
    <2>1. RowIds = [i \in 1..Size |-> i]
      BY <1>4 DEF RowIds
    <2> QED BY <1>8, <2>1 DEF Decisions
  <1> QED BY <1>1, <1>2, <1>3, <1>4, <1>7, <1>9, <1>10 DEF PublicOK

\* and every step keeps it.
LEMMA EvalStep ==
    AuditInv /\ AllocInv /\ OwnInv /\ EvalInv /\ [Next]_vars => EvalInv'
  <1> SUFFICES ASSUME AuditInv, AllocInv, OwnInv, EvalInv, [Next]_vars PROVE EvalInv'
    OBVIOUS
  <1>0. /\ IsBatch /\ BatchesOK
        /\ ReadOK /\ FilesMade /\ VerdictOK /\ ReportOK /\ PublicOK
        /\ DOMAIN files = KnownTiers /\ tier.name \in KnownTiers
    BY BatchIs DEF OwnInv, EvalInv, ReadOK
  <1>1. CASE RefuseToRoute
    <2>1. /\ Same /\ files' = files /\ report' = report
          /\ stage = "route" /\ stage' = "refused"
      BY <1>1 DEF RefuseToRoute, Same, allocatorVars
    <2>2. ReadOK' /\ FilesMade'
      BY <1>0, <2>1, ReadKeeps, FilesKeep
    <2>3. VerdictOK' /\ PublicOK'
      BY <2>1 DEF VerdictOK, PublicOK, Checked
    <2>4. ReportOK'
      BY <1>0, <2>1, RestKeeps DEF Checked
    <2> QED BY <2>2, <2>3, <2>4 DEF EvalInv
  <1>2. CASE Allocate
    <2>1. /\ Same /\ files' = files /\ report' = report
          /\ stage \in {"route", "reroute"} /\ stage' = stage
      <3>1. tier' = tier
        BY <1>2, AllocateSteps DEF Allocate
      <3> QED BY <1>2, <3>1 DEF Allocate, Same
    <2>2. ReadOK' /\ FilesMade'
      BY <1>0, <2>1, ReadKeeps, FilesKeep
    <2>3. PublicOK'
      BY <2>1 DEF PublicOK, Checked
    <2>4. VerdictOK'
      BY <1>0, <2>1, SameReads DEF VerdictOK
    <2>5. ReportOK'
      BY <1>0, <2>1, RestKeeps DEF Checked
    <2> QED BY <2>2, <2>3, <2>4, <2>5 DEF EvalInv
  <1>3. CASE WriteSubmission
    <2>1. /\ Same /\ report' = report /\ stage = "route" /\ stage' = "written"
          /\ files' = [files EXCEPT ![tier.name] = File(Routed)]
          /\ InputLoads /\ PolicyLoads
      BY <1>3 DEF WriteSubmission, Same, allocatorVars, CanRoute
    <2>2. DOMAIN files' = KnownTiers
      BY <1>0, <2>1
    <2>3. ReadOK'
      BY <1>0, <2>1, <2>2, ReadKeeps
    <2>4. FilesMade'
      <3>1. PICK f : f = File(Routed)
        OBVIOUS
      <3>2. Formed(f.root)
        BY <1>0, <3>1, RoutedFormed DEF File
      <3> QED BY <1>0, <2>1, <3>1, <3>2, WriteKeeps
    <2>5. VerdictOK'
      BY <2>1 DEF VerdictOK
    <2>6. ReportOK'
      BY <1>0, <2>1, RestKeeps DEF Checked
    <2>7. PublicOK'
      BY <1>0, <1>3, PublicWrites
    <2> QED BY <2>3, <2>4, <2>5, <2>6, <2>7 DEF EvalInv
  <1>4. CASE OtherSubmission
    <2>1. /\ Same /\ report' = report /\ stage = "route" /\ stage' = "written"
          /\ router = "other" /\ router' = router
      BY <1>4 DEF OtherSubmission, Same, allocatorVars, evalVars
    <2>2. FilesMade' /\ DOMAIN files' = KnownTiers
      BY <1>0, <1>4, OtherKeeps
    <2>3. ReadOK'
      BY <1>0, <2>1, <2>2, ReadKeeps
    <2>4. VerdictOK' /\ PublicOK'
      BY <2>1 DEF VerdictOK, PublicOK
    <2>5. ReportOK'
      BY <1>0, <2>1, RestKeeps DEF Checked
    <2> QED BY <2>2, <2>3, <2>4, <2>5 DEF EvalInv
  <1>5. CASE Validate
    <2>1. /\ Same /\ files' = files /\ report' = report /\ stage = "written"
          /\ stage' = IF Acceptable THEN "accepted" ELSE "rejected"
          /\ UNCHANGED allocatorVars /\ UNCHANGED evalVars
      BY <1>5 DEF Validate, Same, allocatorVars
    <2>2. stage' \in {"accepted", "rejected"}
      BY <2>1
    <2>3. ReadOK' /\ FilesMade'
      BY <1>0, <2>1, <2>2, ReadKeeps, FilesKeep
    <2>4. VerdictOK'
      BY <2>1, SameFiles DEF VerdictOK
    <2>5. ReportOK'
      BY <1>0, <2>1, <2>2, RestKeeps DEF Checked
    <2>6. PublicOK'
      BY <1>0, <2>1, PublicKeeps
    <2> QED BY <2>3, <2>4, <2>5, <2>6 DEF EvalInv
  <1>6. CASE MakeVariant
    <2>1. /\ Same /\ files' = files /\ report' = report
          /\ stage = "accepted" /\ stage' = "reroute"
      BY <1>6 DEF MakeVariant, Same, Begin
    <2>2. ReadOK' /\ FilesMade'
      BY <1>0, <2>1, ReadKeeps, FilesKeep
    <2>3. VerdictOK'
      <3>1. InputLoads /\ PolicyLoads
        BY <1>0, <2>1 DEF VerdictOK, Acceptable
      <3> QED BY <2>1, <3>1, SameReads DEF VerdictOK
    <2>4. PublicOK'
      BY <2>1 DEF PublicOK, Checked
    <2>5. ReportOK'
      BY <1>0, <2>1, RestKeeps DEF Checked
    <2> QED BY <2>2, <2>3, <2>4, <2>5 DEF EvalInv
  <1>7. CASE WriteVariant
    <2>1. /\ Same /\ report' = report /\ stage = "reroute" /\ stage' = "audited"
          /\ files' = [files EXCEPT ![tier.name] = File(Routed)]
      BY <1>7 DEF WriteVariant, Same, allocatorVars
    <2>2. InputLoads /\ PolicyLoads /\ router # "other"
      BY <1>0, <2>1 DEF VerdictOK, BatchesOK
    <2>3. DOMAIN files' = KnownTiers
      BY <1>0, <2>1
    <2>4. ReadOK'
      BY <1>0, <2>1, <2>3, ReadKeeps
    <2>5. FilesMade'
      <3>1. PICK f : f = File(Routed)
        OBVIOUS
      <3>2. Formed(f.root)
        BY <1>0, <3>1, RoutedFormed DEF File
      <3> QED BY <1>0, <2>1, <2>2, <3>1, <3>2, WriteKeeps
    <2>6. VerdictOK' /\ PublicOK'
      BY <2>1 DEF VerdictOK, PublicOK, Checked
    <2>7. ReportOK'
      BY <1>0, <2>1, RestKeeps DEF Checked
    <2> QED BY <2>4, <2>5, <2>6, <2>7 DEF EvalInv
  <1>8. CASE SelfCheck
    <2>1. /\ Same /\ files' = files /\ stage \in {"accepted", "rejected"}
          /\ UNCHANGED allocatorVars /\ UNCHANGED evalVars
      BY <1>8 DEF SelfCheck, Same, allocatorVars
    <2>2. CASE /\ report' = SelfCheckReport(File(OutcomesOf(content)))
               /\ stage' = IF stage = "accepted" THEN "accepted and checked"
                           ELSE "rejected and checked"
      <3>1. stage' \in {"accepted and checked", "rejected and checked"}
        BY <2>2
      <3>2. ReadOK' /\ FilesMade'
        BY <1>0, <2>1, <3>1, ReadKeeps, FilesKeep
      <3>3. VerdictOK'
        BY <1>0, <2>1, <2>2, SameFiles DEF VerdictOK
      <3>4. ReportOK'
        BY <2>1, <2>2, <3>1, SameFiles DEF ReportOK, Checked
      <3>5. PublicOK'
        BY <1>0, <2>1, PublicKeeps
      <3> QED BY <3>2, <3>3, <3>4, <3>5 DEF EvalInv
    <2>3. CASE \E bad \in BadOutcomes(OutcomesOf(content)) :
                  /\ report' = SelfCheckReport(bad)
                  /\ stage' = "checked with bad outcomes"
      <3>1. report' = NoReport /\ stage' = "checked with bad outcomes"
        BY <1>0, <2>3, BadOutcomesUnscored DEF ReadOK
      <3>2. ReadOK' /\ FilesMade'
        BY <1>0, <2>1, <3>1, ReadKeeps, FilesKeep
      <3>3. VerdictOK' /\ PublicOK'
        BY <3>1 DEF VerdictOK, PublicOK, Checked
      <3>4. ReportOK'
        BY <3>1 DEF ReportOK, Checked, NoReport
      <3> QED BY <3>2, <3>3, <3>4 DEF EvalInv
    <2> QED BY <1>8, <2>2, <2>3 DEF SelfCheck
  <1>9. CASE UNCHANGED vars
    <2>1. /\ Same /\ files' = files /\ report' = report /\ stage' = stage
          /\ UNCHANGED allocatorVars /\ UNCHANGED evalVars
      BY <1>9 DEF vars, Same, allocatorVars
    <2>2. ReadOK' /\ FilesMade'
      BY <1>0, <2>1, ReadKeeps, FilesKeep
    <2>3. VerdictOK'
      BY <1>0, <2>1, SameFiles, SameReads DEF VerdictOK
    <2>4. ReportOK'
      BY <1>0, <2>1, SameFiles DEF ReportOK, Checked, NoReport
    <2>5. PublicOK'
      <3>1. CASE stage \in {"written", "accepted", "rejected"} \cup Checked
        BY <1>0, <2>1, <3>1, PublicKeeps
      <3>2. CASE stage \notin {"written", "accepted", "rejected"} \cup Checked
        BY <2>1, <3>2 DEF PublicOK, Checked
      <3> QED BY <3>1, <3>2
    <2> QED BY <2>2, <2>3, <2>4, <2>5 DEF EvalInv
  <1> QED
    BY <1>1, <1>2, <1>3, <1>4, <1>5, <1>6, <1>7, <1>8, <1>9 DEF Next

\* What self-check reports is about the files the operator judged, which are
\* always-light but for the tier's, or have changed places.
THEOREM EvaluationInvariance == Spec => []EvalInv
  BY EvalInit, EvalStep, AuditInvariance, AllocatorInvariance, FilesHaveTheAnswers,
     PTL DEF Spec
-----------------------------------------------------------------------------
(* The report and the decisions.                                           *)

\* The files that load are arrays of objects.
LEMMA AlwaysFormed == ASSUME EvalInv PROVE AllFormed
  <1>1. CASE InputLoads /\ PolicyLoads
    BY <1>1 DEF EvalInv, FilesMade
  <1>2. CASE ~ (InputLoads /\ PolicyLoads)
    BY <1>2 DEF EvalInv, FilesMade, AllFormed, Missing, Unreadable
  <1> QED BY <1>1, <1>2

\* What is scored was checked, and is complete.
LEMMA ScoredIs ==
    ASSUME IsBatch, EvalInv, report.scored
    PROVE  /\ stage \in Checked
           /\ InputLoads /\ PolicyLoads /\ inputs = File(InputOf(content))
           /\ FilesLoad /\ OnePerTier(Submissions) /\ AllComplete /\ LightBaseline > 0
           /\ \A t \in KnownTiers : \E u \in KnownTiers : \E m : Reports(report, t, u, m)
  <1>1. stage \in Checked /\ report = SelfCheckReport(File(OutcomesOf(content)))
    BY DEF EvalInv, ReportOK, NoReport
  <1>2. InputLoads => inputs = File(InputOf(content))
    BY DEF EvalInv, ReadOK
  <1>3. AllFormed
    BY AlwaysFormed
  <1> QED BY <1>1, <1>2, <1>3, ReportIs

\* The report scores what the files decide.
LEMMA ScoresDecisions ==
    ASSUME IsBatch, EvalInv PROVE ScoredAsDecided
  <1> DEFINE s(t) == files[CHOOSE u \in KnownTiers : files[u].root.tier = t].root
             model(t, i) == CHOOSE m \in Models :
                    \E k \in DOMAIN s(t).decisions :
                        s(t).decisions[k] = [episode_id |-> Ids[i],
                                             model_id |-> ModelIds[m]]
             quality(t) == SumFunction([i \in 1..Size |-> content[i].score[model(t, i)]])
             cost(t) == SumFunction([i \in 1..Size |-> TrueCost(content[i], model(t, i))])
  <1>1. SUFFICES ASSUME report.scored, NEW t \in KnownTiers
                 PROVE  /\ Len(s(t).decisions) = Size /\ Len(inputs.root.episodes) = Size
                        /\ \A i \in 1..Size : \E k \in DOMAIN s(t).decisions :
                              s(t).decisions[k].episode_id = Ids[i]
                        /\ s(t).split = inputs.root.split
                        /\ report.tiers[t].tier_points =
                               IF 100 * cost(t) <= Multiplier(t) * LightBaseline
                               THEN quality(t) ELSE 0
    BY DEF ScoredAsDecided
  <1>2. PICK u, m : u \in KnownTiers /\ Reports(report, t, u, m)
    BY <1>1, ScoredIs
  <1>3. (CHOOSE w \in KnownTiers : files[w].root.tier = t) = u
    BY <1>2 DEF Reports
  <1>4. s(t) = files[u].root
    BY <1>3
  <1>5. PICK x : x = s(t)
    OBVIOUS
  <1>6. Says(x, m)
    BY <1>2, <1>4, <1>5 DEF Reports
  <1>7. \A i \in 1..Size : model(t, i) = m[i]
    <2> SUFFICES ASSUME NEW i \in 1..Size PROVE model(t, i) = m[i]
      OBVIOUS
    <2>1. (CHOOSE l \in Models :
               \E k \in DOMAIN x.decisions :
                   x.decisions[k] = [episode_id |-> Ids[i],
                                     model_id |-> ModelIds[l]]) = m[i]
      BY <1>6, OnlyOneIsSaid
    <2> QED BY <1>5, <2>1
  <1> HIDE DEF s, model
  <1>8. quality(t) = QualityOf(m)
    <2>1. [i \in 1..Size |-> content[i].score[model(t, i)]]
             = [i \in 1..Size |-> content[i].score[m[i]]]
      BY <1>7
    <2> QED BY <2>1 DEF QualityOf
  <1>9. cost(t) = CostOf(m)
    <2>1. [i \in 1..Size |-> TrueCost(content[i], model(t, i))]
             = [i \in 1..Size |-> TrueCost(content[i], m[i])]
      BY <1>7
    <2> QED BY <2>1 DEF CostOf
  <1>10. report.tiers[t].tier_points =
            IF 100 * CostOf(m) <= Multiplier(t) * LightBaseline THEN QualityOf(m) ELSE 0
    BY <1>2 DEF Reports, WithinTier
  <1> HIDE DEF quality, cost
  <1>11. report.tiers[t].tier_points =
            IF 100 * cost(t) <= Multiplier(t) * LightBaseline THEN quality(t) ELSE 0
    BY <1>8, <1>9, <1>10
  <1>12. x.split = inputs.root.split
    <2>1. u \in KnownTiers /\ AllComplete
      BY <1>1, <1>2, ScoredIs
    <2>2. Complete(files[u].root)
      BY <2>1 DEF AllComplete
    <2> QED BY <1>4, <1>5, <2>2 DEF Complete, Shares
  <1>13. Len(inputs.root.episodes) = Size
    <2>1. PICK batch : batch = InputOf(content)
      OBVIOUS
    <2>2. inputs.root = batch
      BY <1>1, <2>1, ScoredIs DEF File
    <2> QED BY <2>1, <2>2, InputIs
  <1>14. /\ Len(x.decisions) = Size
         /\ \A i \in 1..Size : \E k \in DOMAIN x.decisions :
               x.decisions[k].episode_id = Ids[i]
    BY <1>6 DEF Says
  <1> QED BY <1>5, <1>11, <1>12, <1>13, <1>14

\* For every batch, submissions, outcomes and policy, the points a report gives a
\* tier are those of the models its file decides for the rows, and nothing when
\* these cost more than the budget.
THEOREM ReportsSayWhatWasDecided == Spec => []ScoredAsDecided
  <1>1. AuditInv /\ OwnInv /\ EvalInv => ScoredAsDecided
    BY BatchIs, ScoresDecisions DEF OwnInv
  <1> QED
    BY <1>1, AuditInvariance, FilesHaveTheAnswers, EvaluationInvariance, PTL

\* A file the operator accepts has not changed places with another tier's, so
\* the others are always-light and are accepted too.
LEMMA AcceptedScores ==
    ASSUME IsBatch, EvalInv, stage = "accepted and checked"
    PROVE  report.scored <=> LightBaseline > 0
  <1>1. Acceptable
    BY DEF EvalInv, VerdictOK
  <1>2. /\ InputLoads /\ PolicyLoads /\ inputs = File(InputOf(content))
        /\ tier.name \in KnownTiers
    BY <1>1 DEF Acceptable, EvalInv, ReadOK
  <1>3. PICK f : f = files[tier.name]
    OBVIOUS
  <1>4. /\ Loads(f, ParsesSubmission(f.root)) /\ f.root.tier = tier.name
        /\ Complete(f.root)
    BY <1>1, <1>3 DEF Acceptable, ValidateRuntimeSubmission, Complete, Shares
  <1>5. OthersLight
    <2> SUFFICES ASSUME Swapped PROVE FALSE
      BY <1>2 DEF EvalInv, FilesMade
    <2>1. PICK u \in KnownTiers : u # tier.name /\ f = AlwaysLight(u)
      BY <1>3 DEF Swapped
    <2>2. PICK s : s = AlwaysLight(u).root
      OBVIOUS
    <2>3. s.tier = u
      BY <1>2, <2>2, AlwaysLightIs
    <2> QED BY <1>4, <2>1, <2>2, <2>3
  <1>6. ASSUME NEW t \in KnownTiers
        PROVE  /\ Loads(files[t], ParsesSubmission(files[t].root))
               /\ files[t].root.tier = t /\ Complete(files[t].root)
    <2>1. CASE t = tier.name
      BY <1>3, <1>4, <2>1
    <2>2. CASE t # tier.name
      <3>1. files[t] = AlwaysLight(t)
        BY <1>5, <2>2 DEF OthersLight
      <3>2. PICK s : s = AlwaysLight(t).root
        OBVIOUS
      <3>3. s.tier = t
        BY <1>2, <3>2, AlwaysLightIs
      <3>4. Loads(AlwaysLight(t), ParsesSubmission(AlwaysLight(t).root))
            /\ Complete(AlwaysLight(t).root)
        BY <1>2, AlwaysLightLoads
      <3> QED BY <3>1, <3>2, <3>3, <3>4
    <2> QED BY <2>1, <2>2
  <1>7. FilesLoad /\ AllComplete
    BY <1>6 DEF FilesLoad, AllComplete
  <1>8. OnePerTier(Submissions)
    <2>1. PICK subs : subs = Submissions
      OBVIOUS
    <2>2. DOMAIN subs = 1..3 /\ \A k \in 1..3 : subs[k] = files[TierNames[k]].root
      BY <2>1 DEF Submissions
    <2>3. /\ \A k \in 1..3 : TierNames[k] \in KnownTiers
          /\ \A t \in KnownTiers : \E k \in 1..3 : TierNames[k] = t
          /\ \A j, k \in 1..3 : TierNames[j] = TierNames[k] => j = k
      BY TierNamesAre
    <2>4. \A k \in 1..3 : subs[k].tier = TierNames[k]
      BY <1>6, <2>2, <2>3
    <2>5. AllDiffer(subs, "tier")
      <3> SUFFICES ASSUME NEW j \in 1..3, NEW k \in 1..3, subs[j].tier = subs[k].tier
                   PROVE  j = k
        BY <2>2 DEF AllDiffer
      <3>1. TierNames[j] = TierNames[k]
        BY <2>4
      <3> QED BY <2>3, <3>1
    <2>6. {subs[k].tier : k \in 1..3} = KnownTiers
      <3>1. \A k \in 1..3 : subs[k].tier \in KnownTiers
        BY <2>3, <2>4
      <3>2. \A t \in KnownTiers : \E k \in 1..3 : subs[k].tier = t
        BY <2>3, <2>4
      <3> QED BY <3>1, <3>2
    <2> QED BY <2>1, <2>2, <2>5, <2>6 DEF OnePerTier
  <1>9. PICK r : r = SelfCheckReport(File(OutcomesOf(content)))
    OBVIOUS
  <1>10. report = r
    BY <1>9 DEF EvalInv, ReportOK, Checked
  <1>11. AllFormed
    BY AlwaysFormed
  <1>12. r.scored <=> /\ InputLoads /\ PolicyLoads /\ FilesLoad
                      /\ OnePerTier(Submissions) /\ AllComplete
                      /\ LightBaseline > 0
    BY <1>2, <1>9, <1>11, ReportIs
  <1> QED BY <1>2, <1>7, <1>8, <1>10, <1>12

\* What self-check scores, with every file named after its tier, the operator
\* would have accepted.
LEMMA ScoredIsAcceptable ==
    ASSUME IsBatch, EvalInv, report.scored,
           \A t \in KnownTiers : files[t].root.tier = t
    PROVE  Acceptable
  <1>1. /\ InputLoads /\ PolicyLoads /\ FilesLoad /\ AllComplete
    BY ScoredIs
  <1>2. tier.name \in KnownTiers
    BY DEF EvalInv, ReadOK
  <1>3. /\ Loads(files[tier.name], ParsesSubmission(files[tier.name].root))
        /\ Complete(files[tier.name].root) /\ files[tier.name].root.tier = tier.name
    BY <1>1, <1>2 DEF FilesLoad, AllComplete
  <1> QED BY <1>1, <1>3 DEF Acceptable, ValidateRuntimeSubmission, Complete, Shares

\* The operator and self-check, whose validations are two pieces of code, come to
\* the same verdict on every submission.
THEOREM BothValidatorsAgree == Spec => []ValidatorsAgree
  <1>1. AuditInv /\ OwnInv /\ EvalInv => ValidatorsAgree
    <2> SUFFICES ASSUME AuditInv, OwnInv, EvalInv PROVE ValidatorsAgree
      OBVIOUS
    <2>1. IsBatch
      BY BatchIs DEF OwnInv
    <2>2. stage = "accepted and checked" => (report.scored <=> LightBaseline > 0)
      BY <2>1, AcceptedScores
    <2>3. ASSUME stage = "rejected and checked", report.scored,
                 \A t \in KnownTiers : files[t].root.tier = t
          PROVE  FALSE
      <3>1. Acceptable
        BY <2>1, <2>3, ScoredIsAcceptable
      <3> QED BY <2>3, <3>1 DEF EvalInv, VerdictOK
    <2> QED BY <2>2, <2>3 DEF ValidatorsAgree
  <1> QED
    BY <1>1, AuditInvariance, FilesHaveTheAnswers, EvaluationInvariance, PTL
\* With exact predictions a row costs what was predicted.
LEMMA PredictedIsTrue ==
    ASSUME IsBatch, artifact \in Artifacts, ValidComponents,
           NEW i \in 1..Size, NEW k \in Models
    PROVE  TrueCost(content[i], k) = content[i].cost[k]
  <1>1. artifact.digest = Rules
    BY DEF ValidComponents, PolicyDigest
  <1>2. ModelIds[k] \in KnownModels
    BY KnownModelsAre
  <1>3. Rules.models[ModelIds[k]] = [fixed_cost |-> 0, input_token_rate |-> 1,
                                     output_token_rate |-> 1]
    <2>1. PICK a \in Artifacts : a = artifact
      OBVIOUS
    <2>2. \A m \in KnownModels :
             a.digest.models[m] = [fixed_cost |-> 0, input_token_rate |-> 1,
                                   output_token_rate |-> 1]
      BY ExactPredictions DEF ExactPredictions
    <2> QED BY <1>1, <1>2, <2>1, <2>2
  <1>4. PICK c : c = content[i].cost[k]
    OBVIOUS
  <1>5. c \in Nat
    <2>1. content[i] \in Rows
      BY BatchFacts
    <2> QED BY <1>4, <2>1, RowTypes
  <1>6. TrueCost(content[i], k) = 0 + 1 + (c - 1) * 1
    BY <1>3, <1>4 DEF TrueCost
  <1> QED BY <1>4, <1>5, <1>6

\* What the search selected is what the file says.
LEMMA SelectedIsSaid ==
    ASSUME IsBatch, NEW s, NEW m, Says(s, m),
           s.decisions = [k \in 1..Size |-> [episode_id |-> Ids[k],
                                             model_id |-> ModelIds[selected[k]]]],
           \A k \in 1..Size : selected[k] \in Models
    PROVE  \A i \in 1..Size : m[i] = selected[i]
  <1> SUFFICES ASSUME NEW i \in 1..Size PROVE m[i] = selected[i]
    OBVIOUS
  <1>1. PICK d : d = s.decisions
    OBVIOUS
  <1>2. PICK k \in 1..Size :
            d[k] = [episode_id |-> Ids[i], model_id |-> ModelIds[m[i]]]
    <2>1. \A j \in 1..Size : \E k \in 1..Size :
              /\ s.decisions[k] = [episode_id |-> Ids[j], model_id |-> ModelIds[m[j]]]
              /\ \A l \in 1..Size : s.decisions[l].episode_id = Ids[j] => l = k
      BY ONLY IsBatch, Says(s, m), SaidOnce
    <2> QED BY <1>1, <2>1
  <1>3. d[k] = [episode_id |-> Ids[k], model_id |-> ModelIds[selected[k]]]
    BY <1>1
  <1>4. Ids[k] = Ids[i] /\ ModelIds[selected[k]] = ModelIds[m[i]]
    BY <1>2, <1>3
  <1>5. k = i
    BY <1>4, BatchFacts, IdsAreIds
  <1>6. m[i] \in Models /\ selected[i] \in Models
    BY SaidOnce
  <1>7. ModelNumber(ModelIds[m[i]]) = m[i]
        /\ ModelNumber(ModelIds[selected[i]]) = selected[i]
    BY <1>6, ModelNumberIs
  <1> QED BY <1>4, <1>5, <1>7

\* The allocator's sums are the scorer's.
LEMMA SameSums ==
    ASSUME IsBatch, AllocInv, PolicyLoads, artifact \in Artifacts, ValidComponents,
           rows = content, NEW m \in [1..Size -> Models]
    PROVE  CostOf(m) = Cost(m) /\ m \in Selections /\ Cost(m) \in Nat
  <1>1. Episodes = 1..Size
    BY BatchFacts DEF Episodes
  <1>2. m \in Selections
    BY <1>1 DEF Selections
  <1>3. BatchOK
    BY DEF AllocInv
  <1>4. Cost(m) = SumOver(CostRow(m), 1..Size) /\ Cost(m) \in Nat
        /\ \A i \in 1..Size : CostRow(m)[i] = content[i].cost[m[i]]
    BY <1>1, <1>2, <1>3, SumsOverRows
  <1>5. PICK f, g : f = CostRow(m) /\ g = [i \in 1..Size |-> TrueCost(content[i], m[i])]
    OBVIOUS
  <1>6. \A i \in 1..Size : f[i] = g[i]
    BY <1>4, <1>5, PredictedIsTrue
  <1>7. SumOver(f, 1..Size) = SumOver(g, 1..Size)
    BY <1>6, BatchFacts, SumEqual
  <1>8. CostOf(m) = SumOver(g, 1..Size)
    BY <1>5, CostOfType
  <1> QED BY <1>2, <1>4, <1>5, <1>7, <1>8

\* The scorer's baseline is the allocator's.
LEMMA SameBaseline ==
    ASSUME IsBatch, AllocInv, PolicyLoads, artifact \in Artifacts, ValidComponents,
           rows = content
    PROVE  LightBaseline = LightTotal /\ LightTotal \in Nat
  <1>1. PICK light : light = ModelNumber(Rules.light_model_id)
    OBVIOUS
  <1>2. light = Light /\ Light \in Models
    <2>1. Rules = artifact.digest
      BY DEF ValidComponents, PolicyDigest
    <2>2. Rules.light_model_id = ModelIds[Light]
      BY <2>1, ExactPredictions DEF ExactPredictions
    <2>3. Light \in Models
      BY DEF Light, Models
    <2> QED BY <1>1, <2>2, <2>3, ModelNumberIs
  <1>3. PICK m : m = [i \in 1..Size |-> light]
    OBVIOUS
  <1>4. m \in [1..Size -> Models]
    BY <1>2, <1>3
  <1>5. LightBaseline = CostOf(m)
    BY <1>1, <1>3, <1>4, CostOfType
  <1>6. m = AllLight
    BY <1>2, <1>3, BatchFacts DEF AllLight, Episodes
  <1>7. CostOf(m) = Cost(m) /\ Cost(m) \in Nat
    BY <1>4, SameSums
  <1> QED BY <1>5, <1>6, <1>7 DEF LightTotal

\* The safety margin of the allocator is within the budget of the scorer.
LEMMA MarginIsWithin ==
    ASSUME NEW cost \in Nat, NEW light \in Nat, NEW multiplier \in Nat,
           NEW cap \in Int, cap <= 100 * multiplier, 10000 * cost <= light * cap
    PROVE  100 * cost <= multiplier * light
  <1>1. light * cap <= light * (100 * multiplier) /\ light * cap \in Int
    BY Growth
  <1>2. PICK p : p = light * multiplier
    OBVIOUS
  <1>3. p \in Int /\ light * (100 * multiplier) = 100 * p /\ multiplier * light = p
    BY <1>2
  <1>4. 10000 * cost <= 100 * p
    BY <1>1, <1>3
  <1> QED BY <1>3, <1>4

\* The public router's file keeps the budget.
LEMMA PublicKeepsBudget ==
    ASSUME IsBatch, AllocInv, EvalInv, router = "public", report.scored
    PROVE  report.tiers[tier.name].budget_passed
  <1>1. /\ stage \in Checked /\ PolicyLoads
        /\ \A t \in KnownTiers : \E u \in KnownTiers : \E m : Reports(report, t, u, m)
    BY ScoredIs
  <1>2. /\ tier.name \in KnownTiers /\ artifact \in Artifacts
        /\ tier.safety \in 1..100 /\ tier.multiplier = Multiplier(tier.name)
    BY DEF EvalInv, ReadOK
  <1>3. /\ ValidComponents /\ pc = "done" /\ rows = content
        /\ files[tier.name].root.tier = tier.name
        /\ files[tier.name].root.decisions =
               [k \in 1..Size |-> [episode_id |-> Ids[k],
                                   model_id |-> ModelIds[selected[k]]]]
    BY <1>1 DEF EvalInv, PublicOK, CanRoute
  <1>4. PICK u, m : u \in KnownTiers /\ Reports(report, tier.name, u, m)
    BY <1>1, <1>2
  <1>5. u = tier.name
    BY <1>2, <1>3, <1>4 DEF Reports
  <1>6. PICK s : s = files[tier.name].root
    OBVIOUS
  <1>7. Says(s, m)
    BY <1>4, <1>5, <1>6 DEF Reports
  <1>8. Episodes = 1..Size
    BY <1>3, BatchFacts DEF Episodes
  <1>9. selected \in Selections /\ WithinBudget
    BY <1>3 DEF AllocInv, SelectionOK, IsOffered
  <1>10. selected \in [1..Size -> Models]
    BY <1>8, <1>9 DEF Selections
  <1>11. \A i \in 1..Size : m[i] = selected[i]
    BY <1>3, <1>6, <1>7, <1>10, SelectedIsSaid
  <1>12. m \in [1..Size -> Models]
    BY <1>7 DEF Says
  <1>13. m = selected
    <2>1. m = [i \in 1..Size |-> m[i]] /\ selected = [i \in 1..Size |-> selected[i]]
      BY <1>10, <1>12
    <2>2. [i \in 1..Size |-> m[i]] = [i \in 1..Size |-> selected[i]]
      BY <1>11
    <2> QED BY <2>1, <2>2
  <1>14. CostOf(m) = Cost(selected) /\ Cost(selected) \in Nat
    BY <1>1, <1>2, <1>3, <1>12, <1>13, SameSums
  <1>15. LightBaseline = LightTotal /\ LightTotal \in Nat
    BY <1>1, <1>2, <1>3, SameBaseline
  <1>16. Multiplier(tier.name) \in Nat /\ Multiplier(tier.name) >= 100
    <2>1. Rules = artifact.digest
      BY <1>3 DEF ValidComponents, PolicyDigest
    <2>2. Multiplier(tier.name) >= 100
      BY <1>2, <2>1, ExactPredictions DEF ExactPredictions, Multiplier
    <2>3. Rules.tiers = policy.root.tiers
      BY DEF Rules, ParsedPolicy
    <2>4. ParsesPolicy(policy.root)
      BY <1>1 DEF PolicyLoads, Loads
    <2>5. Multiplier(tier.name) \in Nat
      BY <1>2, <2>3, <2>4, MultiplierType DEF Multiplier
    <2> QED BY <2>2, <2>5
  <1>17. PICK safety : safety = IF Premium THEN AtLeast(FillSafety, tier.safety)
                                ELSE tier.safety
    OBVIOUS
  <1>18. safety \in 0..100
    BY <1>2, <1>17 DEF AtLeast, FillSafety
  <1>19. 10000 * Cost(selected)
            <= LightTotal * AtLeast(10000, Multiplier(tier.name) * safety)
    BY <1>2, <1>9, <1>17 DEF WithinBudget
  <1>20. 100 * Cost(selected) <= Multiplier(tier.name) * LightTotal
    <2>1. PICK cost, light, multiplier :
              /\ cost = Cost(selected) /\ light = LightTotal
              /\ multiplier = Multiplier(tier.name)
      OBVIOUS
    <2>2. cost \in Nat /\ light \in Nat /\ multiplier \in Nat /\ multiplier >= 100
      BY <1>14, <1>15, <1>16, <2>1
    <2>3. PICK cap : cap = AtLeast(10000, multiplier * safety)
      OBVIOUS
    <2>4. cap \in Int /\ cap <= 100 * multiplier
      <3>1. PICK p : p = multiplier * safety
        OBVIOUS
      <3>2. p \in Int /\ p <= multiplier * 100
        BY <1>18, <2>2, <3>1, Growth
      <3> QED BY <2>2, <2>3, <3>1, <3>2 DEF AtLeast
    <2>5. 10000 * cost <= light * cap
      BY <1>19, <2>1, <2>3
    <2>6. 100 * cost <= multiplier * light
      BY <2>2, <2>4, <2>5, MarginIsWithin
    <2> QED BY <2>1, <2>6
  <1>21. WithinTier(m, tier.name)
    BY <1>14, <1>15, <1>20 DEF WithinTier
  <1> QED BY <1>4, <1>21 DEF Reports

\* With exact predictions the public router's file never loses its points to the
\* budget, for every batch, safety margin and number of search steps.
THEOREM PublicRoutersKeepTheirPoints == Spec => []PublicRouterKeepsItsPoints
  <1>1. AuditInv /\ AllocInv /\ OwnInv /\ EvalInv => PublicRouterKeepsItsPoints
    <2> SUFFICES ASSUME AuditInv, AllocInv, OwnInv, EvalInv,
                        router = "public", report.scored
                 PROVE  report.tiers[tier.name].budget_passed
      BY DEF PublicRouterKeepsItsPoints
    <2>1. IsBatch
      BY BatchIs DEF OwnInv
    <2> QED BY <2>1, PublicKeepsBudget
  <1> QED
    BY <1>1, AuditInvariance, AllocatorInvariance, FilesHaveTheAnswers,
       EvaluationInvariance, PTL

=============================================================================
