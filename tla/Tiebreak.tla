------------------------------ MODULE Tiebreak ------------------------------
(***************************************************************************)
(* measure_tiebreak_latency: every tied candidate runs once to warm up and *)
(* then Runs times in every tier, in an order that rotates; an operator    *)
(* failure is discarded and the same condition is run again; the totals of *)
(* the tiers' medians, rounded to the timer's resolution, make the ranking.*)
(* Candidates and tiers are numbered from 0 in the order of the lists.     *)
(*                                                                         *)
(* Left out: the check that a valid result carries a clock reading, since  *)
(* the real runner always gives one, and the order of the measurements of  *)
(* a candidate in its record, of which only the counts matter here.        *)
(***************************************************************************)
EXTENDS Integers, Sequences, FiniteSets, SequencesExt, FiniteSetsExt

CONSTANTS
    Candidates,   \* how many; at least 2
    TierCount,    \* 3 in the code
    Runs,         \* MEASURED_RUNS_PER_TIER, odd; 5 in the code
    MaxFailures,  \* max_infrastructure_failures; 3 by default
    Times,        \* what a valid run may take, extraction and validation too
    Limit,        \* wall_time_seconds, the time a failed run is given
    Resolution,   \* timer_resolution_ns
    MaxFaults     \* bound: operator failures in a behaviour

ASSUME TiebreakAssumption ==
    /\ Candidates \in Nat /\ Candidates >= 2
    /\ TierCount \in Nat \ {0} /\ MaxFailures \in Nat \ {0} /\ MaxFaults \in Nat
    /\ Runs \in Nat /\ Runs % 2 = 1
    /\ Times \subseteq Nat /\ IsFiniteSet(Times)
    /\ Limit \in Nat /\ Resolution \in Nat \ {0}

VARIABLES
    pc,         \* "prepare", "run", "report", "exit"
    tier, round, place,  \* the next run; round 0 is the warm-up
    failures,   \* infrastructure failures of this condition so far
    samples,    \* samples[c][t][v]: measurements of v recorded
    discarded,  \* discarded[c][t]: discarded_infrastructure_attempts
    record,     \* the published ranking, or NoRecord
    exit,       \* exit code, or Running
    launched,   \* history: launched[c][t], containers started
    position,   \* history: position[c][t][k], measured runs made in place k
    faults      \* bound

vars == <<pc, tier, round, place, failures, samples, discarded, record, exit,
          launched, position, faults>>

Cands == 0..(Candidates - 1)
TierSet == 0..(TierCount - 1)
Samples == Times \cup {Limit}
NoRecord == <<>>
Running == -1

\* The list of candidates starting at a rotating offset.
\* (A bug of the code: the repetitions are not rotated.)
OffsetByTier == tier % Candidates
Offset == IF round = 0 THEN tier % Candidates ELSE (round - 1) % Candidates
Turn == (Offset + place) % Candidates

-----------------------------------------------------------------------------
Init ==
    /\ pc = "prepare"
    /\ tier = 0 /\ round = 0 /\ place = 0 /\ failures = 0
    /\ samples = [c \in Cands |-> [t \in TierSet |-> [v \in Samples |-> 0]]]
    /\ discarded = [c \in Cands |-> [t \in TierSet |-> 0]]
    /\ launched = [c \in Cands |-> [t \in TierSet |-> 0]]
    /\ position = [c \in Cands |-> [t \in TierSet |-> [k \in Cands |-> 0]]]
    /\ record = NoRecord /\ exit = Running /\ faults = 0

Exit(code) == pc' = "exit" /\ exit' = code

\* A rejected image (6), a resolver that fails or a journal that was left in a
\* candidate's directory (4), an error of the configuration (2).
Prepare ==
    /\ pc = "prepare"
    /\ \/ pc' = "run" /\ UNCHANGED exit
       \/ \E code \in {2, 4, 6} : Exit(code)
    /\ UNCHANGED <<tier, round, place, failures, samples, discarded, record,
                   launched, position, faults>>

Launched == launched' = [launched EXCEPT ![Turn][tier] = @ + 1]

\* The discarded runs of a condition are added to those of the tier.
\* (A bug of the code: the last condition's count replaces them.)
DiscardedLast == [discarded EXCEPT ![Turn][tier] = failures]
Discarded == [discarded EXCEPT ![Turn][tier] = @ + failures]

\* The loops over candidates, repetitions and tiers.
NextCondition ==
    /\ failures' = 0
    /\ discarded' = Discarded
    /\ IF place < Candidates - 1
       THEN place' = place + 1 /\ UNCHANGED <<round, tier, pc>>
       ELSE /\ place' = 0
            /\ IF round < Runs
               THEN round' = round + 1 /\ UNCHANGED <<tier, pc>>
               ELSE IF tier < TierCount - 1
               THEN round' = 0 /\ tier' = tier + 1 /\ UNCHANGED pc
               ELSE pc' = "report" /\ UNCHANGED <<round, tier>>

WarmedUp ==
    /\ pc = "run" /\ round = 0
    /\ Launched /\ NextCondition
    /\ UNCHANGED <<samples, record, exit, position, faults>>

\* A valid run counts with its own time, a participant's failure with the limit.
Measured(elapsed) ==
    /\ pc = "run" /\ round > 0
    /\ samples' = [samples EXCEPT ![Turn][tier][elapsed] = @ + 1]
    /\ position' = [position EXCEPT ![Turn][tier][place] = @ + 1]
    /\ Launched /\ NextCondition
    /\ UNCHANGED <<record, exit, faults>>

GivesUp(pending) == pending \/ failures + 1 >= MaxFailures

OperatorFailure(pending) ==
    /\ pc = "run" /\ faults < MaxFaults
    /\ faults' = faults + 1
    /\ failures' = failures + 1
    /\ Launched
    /\ IF GivesUp(pending) THEN Exit(4) ELSE UNCHANGED <<pc, exit>>
    /\ UNCHANGED <<tier, round, place, samples, discarded, record, position>>

\* A forbidden strategy needs a review: the measurement ends (with 4 when the
\* input snapshot cannot be removed on the way out).
FairnessViolation ==
    /\ pc = "run"
    /\ Launched
    /\ \E code \in {2, 4} : Exit(code)
    /\ UNCHANGED <<tier, round, place, failures, samples, discarded, record,
                   position, faults>>

-----------------------------------------------------------------------------
\* sorted(values): the samples in order, each as often as it was measured.
SortedSamples(c, t) ==
    CHOOSE s \in [1..Runs -> Samples] :
        /\ \A i, j \in 1..Runs : i < j => s[i] <= s[j]
        /\ \A v \in Samples : Cardinality({i \in 1..Runs : s[i] = v}) = samples[c][t][v]
Median(c, t) == SortedSamples(c, t)[Runs \div 2 + 1]

Total(c) == SumFunction([t \in TierSet |-> Median(c, t)])

\* Rounded to the nearest tick of the timer.
ComparisonTime(ns) == ((ns + Resolution \div 2) \div Resolution) * Resolution

\* rows.sort by comparison time, then by submission ID
Before(time, c, d) == time[c] < time[d] \/ (time[c] = time[d] /\ c < d)
Listed(time) ==
    CHOOSE rows \in [1..Candidates -> Cands] :
        \A i, j \in 1..Candidates : i < j => Before(time, rows[i], rows[j])

\* A row gets the position of the first row with the same comparison time.
\* (A bug of the code: a joint rank takes one position, not several.)
RankDense(time, rows, c) ==
    Cardinality({time[d] : d \in {e \in Cands : time[e] <= time[c]}})
Rank(time, rows, c) == SelectInSeq(rows, LAMBDA d : time[d] = time[c])

Ranking(time) ==
    LET rows == Listed(time) IN [c \in Cands |-> Rank(time, rows, c)]

\* The snapshot is removed and the record written; either may fail, the latter
\* before or after os.replace.
Report ==
    /\ pc = "report"
    /\ \/ /\ \E time \in {[c \in Cands |-> ComparisonTime(Total(c))]} :
                record' = Ranking(time)
          /\ \E code \in {0, 4} : Exit(code)
       \/ UNCHANGED record /\ Exit(4)
    /\ UNCHANGED <<tier, round, place, failures, samples, discarded, launched,
                   position, faults>>

Next ==
    \/ Prepare
    \/ WarmedUp
    \/ \E elapsed \in Samples : Measured(elapsed)
    \/ \E pending \in BOOLEAN : OperatorFailure(pending)
    \/ FairnessViolation
    \/ Report

Spec == Init /\ [][Next]_vars

-----------------------------------------------------------------------------
Count(c, t, S) == MapThenSumSet(LAMBDA v : samples[c][t][v], S)
MeasuredAll(t) == pc = "report" \/ exit = 0 \/ tier > t

\* No candidate is favoured by the order: in a tier, over its repetitions, each
\* one runs in every place equally often, give or take one.
PositionsBalanced ==
    \A t \in TierSet : MeasuredAll(t) =>
        \A c, k, l \in Cands : position[c][t][k] <= position[c][t][l] + 1

\* Every container that was started is accounted for when the record is made:
\* one warm-up, Runs samples, and the rest is reported as discarded, each of them
\* one of fewer than MaxFailures in a row under its condition.
EveryRunAccounted ==
    pc = "report" \/ exit = 0 =>
        \A c \in Cands, t \in TierSet :
            /\ Count(c, t, Samples) = Runs
            /\ launched[c][t] = 1 + Runs + discarded[c][t]
            /\ discarded[c][t] <= (1 + Runs) * (MaxFailures - 1)

\* The value that a majority of samples is not above and a majority not below.
MiddleSample(c, t) ==
    CHOOSE m \in Samples :
        /\ 2 * Count(c, t, {v \in Samples : v <= m}) > Runs
        /\ 2 * Count(c, t, {v \in Samples : v >= m}) > Runs
MiddleTotal(c) == SumFunction([t \in TierSet |-> MiddleSample(c, t)])

\* A rank counts the candidates ranked better, a better rank is earned by a
\* lower total of medians, and totals apart by a tick or more are told apart.
RankingJustified ==
    record # NoRecord =>
        \A c \in Cands :
            /\ record[c] = 1 + Cardinality({d \in Cands : record[d] < record[c]})
            /\ \A d \in Cands :
                /\ record[c] < record[d] => MiddleTotal(c) < MiddleTotal(d)
                /\ MiddleTotal(d) - MiddleTotal(c) >= Resolution
                       => record[c] < record[d]
=============================================================================
