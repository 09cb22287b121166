------------------------------ MODULE Allocator ------------------------------
(***************************************************************************)
(* allocate_tier: one model per episode under a predicted batch budget, by *)
(* doubling and then bisecting a cost penalty, and for the premium tier a  *)
(* second search of the same shape that spends what is left on AX31.       *)
(* Numbers are exact: scores and costs are integers, a penalty is a        *)
(* multiple of 1/Unit, a ratio counts percent.  The code computes in       *)
(* floating point; what its rounding may do to these comparisons is not    *)
(* modelled.                                                               *)
(***************************************************************************)
EXTENDS Integers, Functions

CONSTANTS
    Rows,        \* predictions: [score, cost : [Models -> Nat]]
    ScoreScale,  \* scores are in 1/ScoreScale
    Iterations,  \* bisection steps; 80 in the code
    Doublings    \* the largest penalty is 2^Doublings; 60 in the code

\* MODEL_IDS: Light, AX31, the premium model
Models == 1..3
Light == 1
Ax31 == 2

\* predict_costs_from_features returns positive, strictly increasing costs
ASSUME RowsAssumption ==
    \A r \in Rows :
        /\ r.score \in [Models -> Nat] /\ r.cost \in [Models -> Nat \ {0}]
        /\ r.cost[1] < r.cost[2] /\ r.cost[2] < r.cost[3]

ASSUME SearchAssumption ==
    /\ Iterations \in Nat \ {0} /\ Doublings \in Nat /\ ScoreScale \in Nat \ {0}

VARIABLES
    rows,      \* predicted_scores and predicted_costs
    tier,      \* [name, and in percent: multiplier, safety]
    phase,     \* "select" (select_models) or "fill" (fill_ax31_upgrades)
    pc,
    base,      \* what the phase falls back to
    selected,
    low, high, \* penalties that bracket the answer, times Unit
    step       \* bisection steps taken

allocatorVars == <<rows, tier, phase, pc, base, selected, low, high, step>>

-----------------------------------------------------------------------------
PowerOfTwo[n \in Nat] == IF n = 0 THEN 1 ELSE 2 * PowerOfTwo[n - 1]
Unit == PowerOfTwo[Iterations]
MaxHigh == PowerOfTwo[Doublings] * Unit
FillSafety == 65

Episodes == DOMAIN rows
Selections == [Episodes -> Models]
Premium == tier.name = "premium"
AllLight == [i \in Episodes |-> Light]
Cost(s) == SumFunction([i \in Episodes |-> rows[i].cost[s[i]]])
Score(s) == SumFunction([i \in Episodes |-> rows[i].score[s[i]]])
LightTotal == Cost(AllLight)
AtLeast(a, b) == IF a >= b THEN a ELSE b

\* The budget of a phase, in percent of a percent of the cost unit.
Cap ==
    IF phase = "select"
    THEN LightTotal * AtLeast(10000, tier.multiplier * tier.safety)
    ELSE AtLeast(10000 * Cost(base),
                 LightTotal * AtLeast(10000, tier.multiplier * FillSafety))
Over(s) == 10000 * Cost(s) > Cap

\* The fill keeps every choice but Light, which it may raise to AX31.
Offered(i) ==
    IF phase = "select" THEN Models
    ELSE IF base[i] = Light THEN {Light, Ax31} ELSE {base[i]}

\* scores[m] - penalty * costs[m] / light_total, times light_total and units.
\* (A bug of the code: each row is measured by its own Light cost.)
WorthByOwnRow(i, k, penalty) ==
    rows[i].score[k] * rows[i].cost[Light] * Unit
        - ScoreScale * penalty * rows[i].cost[k]
Worth(i, k, penalty) ==
    rows[i].score[k] * LightTotal * Unit - ScoreScale * penalty * rows[i].cost[k]

\* The best offer for every row; the cheaper model wins a tie.
Choose(penalty) ==
    [i \in Episodes |->
        CHOOSE k \in Offered(i) :
            \A j \in Offered(i) :
                \/ Worth(i, k, penalty) > Worth(i, j, penalty)
                \/ Worth(i, k, penalty) = Worth(i, j, penalty) /\ k <= j]

-----------------------------------------------------------------------------
\* The search begins, for predictions r.
Begun(r) ==
    /\ rows = r
    /\ phase = "select" /\ pc = "start"
    /\ base = [i \in DOMAIN r |-> Light] /\ selected = [i \in DOMAIN r |-> Light]
    /\ low = 0 /\ high = 0 /\ step = 0

Begin(r) ==
    /\ rows' = r
    /\ phase' = "select" /\ pc' = "start"
    /\ base' = [i \in DOMAIN r |-> Light] /\ selected' = [i \in DOMAIN r |-> Light]
    /\ low' = 0 /\ high' = 0 /\ step' = 0
    /\ UNCHANGED tier

Goto(l) == pc' = l /\ UNCHANGED <<rows, tier, phase, base>>

\* Without a penalty the choice is within budget: no search.
StartWithin ==
    /\ pc = "start" /\ ~Over(Choose(0))
    /\ selected' = Choose(0)
    /\ low' = 0 /\ high' = 0 /\ step' = 0
    /\ Goto("settle")

StartSearch ==
    /\ pc = "start" /\ Over(Choose(0))
    /\ low' = 0 /\ high' = Unit /\ step' = 0
    /\ selected' = Choose(Unit)
    /\ Goto("double")

MayDouble(s) == Over(s) /\ high < MaxHigh

Double ==
    /\ pc = "double" /\ MayDouble(selected)
    /\ low' = high /\ high' = 2 * high
    /\ selected' = Choose(2 * high)
    /\ UNCHANGED step
    /\ Goto("double")

DoubleEnds ==
    /\ pc = "double" /\ ~MayDouble(selected)
    /\ UNCHANGED <<selected, low, high, step>>
    /\ Goto("bisect")

\* The bracket after the middle was tried.
\* (A bug of the code: the lower end is never raised.)
NarrowedFromAbove(middle) ==
    IF Over(Choose(middle)) THEN [low |-> low, high |-> high, to |-> selected]
    ELSE [low |-> low, high |-> middle, to |-> Choose(middle)]
Narrowed(middle) ==
    IF Over(Choose(middle)) THEN [low |-> middle, high |-> high, to |-> selected]
    ELSE [low |-> low, high |-> middle, to |-> Choose(middle)]

Bisect ==
    /\ pc = "bisect"
    /\ LET n == Narrowed((low + high) \div 2)
       IN low' = n.low /\ high' = n.high /\ selected' = n.to
    /\ step' = step + 1
    /\ Goto(IF step + 1 = Iterations THEN "settle" ELSE "bisect")

Settled(s) == IF Over(s) THEN base ELSE s

SelectReturns ==
    /\ pc = "settle" /\ phase = "select"
    /\ selected' = Settled(selected)
    /\ IF Premium
       THEN /\ phase' = "fill" /\ pc' = "start" /\ base' = Settled(selected)
            /\ low' = 0 /\ high' = 0 /\ step' = 0
       ELSE pc' = "done" /\ UNCHANGED <<phase, base, low, high, step>>
    /\ UNCHANGED <<rows, tier>>

FillReturns ==
    /\ pc = "settle" /\ phase = "fill"
    /\ selected' = Settled(selected)
    /\ UNCHANGED <<low, high, step>>
    /\ Goto("done")

AllocateTier ==
    \/ StartWithin \/ StartSearch
    \/ Double \/ DoubleEnds
    \/ Bisect
    \/ SelectReturns \/ FillReturns

-----------------------------------------------------------------------------
\* What is returned keeps the safety margin of its tier (the fill has a margin
\* of its own), and among the selections the last phase may make none that costs
\* no more scores more.
WithinBudget ==
    10000 * Cost(selected) <=
        LightTotal * AtLeast(10000, tier.multiplier *
               (IF Premium THEN AtLeast(FillSafety, tier.safety)
                ELSE tier.safety))
BestForItsCost ==
    \A s \in Selections :
        (\A i \in Episodes : s[i] \in Offered(i)) /\ Cost(s) <= Cost(selected)
            => Score(s) <= Score(selected)
BestWithinBudget == pc = "done" => WithinBudget /\ BestForItsCost

\* Budget is not left unused by the search: no penalty that is smaller than the
\* one used by more than the last halving of the bracket stays within budget.
LeastPenalty ==
    pc = "settle" /\ high > 0 =>
        \/ Over(selected)
        \/ /\ selected = Choose(high)
           /\ \A p \in 0..(high - AtLeast(1, high \div Unit)) : Over(Choose(p))
=============================================================================
