------------------------------ MODULE Scoring -------------------------------
(***************************************************************************)
(* score_submissions: the report of one batch from its input, its outcome  *)
(* matrix, one submission for each tier and the policy.  Costs are exact   *)
(* decimals at the scorer's precision of 160 digits; here they count the   *)
(* smallest unit.  A ScoringError is NoReport.                             *)
(***************************************************************************)
EXTENDS Protocol, SequencesExt

NoReport == [scored |-> FALSE]

Sum(seq) == FoldSeq(LAMBDA x, y : x + y, 0, seq)

-----------------------------------------------------------------------------
\* _cost, in token units
OutcomeCost(outcome, rates) ==
    rates.fixed_cost + outcome.input_tokens * rates.input_token_rate
        + outcome.output_tokens * rates.output_token_rate

\* (A bug of the code: the split is not compared.)
SharesButSplit(inputs, other) ==
    /\ other.schema_version = inputs.schema_version
    /\ other.challenge_id = inputs.challenge_id
Shares(inputs, other) ==
    /\ other.schema_version = inputs.schema_version
    /\ other.challenge_id = inputs.challenge_id
    /\ other.split = inputs.split

SharedMetadata(inputs, outcomes, submissions, policy) ==
    /\ inputs.schema_version = policy.schema_version
    /\ Shares(inputs, outcomes)
    /\ \A i \in DOMAIN submissions :
          /\ Shares(inputs, submissions[i])
          /\ submissions[i].policy_id = policy.policy_id

\* The parser has checked that every episode of the matrix has every model, so
\* it is complete and has nothing else when it has the same episodes.
OutcomeMatrix(inputs, outcomes) == EpisodeIds(outcomes) = EpisodeIds(inputs)

OutcomeOf(outcomes, id, m) ==
    outcomes.episodes[CHOOSE i \in DOMAIN outcomes.episodes :
                          outcomes.episodes[i].episode_id = id].models[m]

DecisionIndex(inputs, s) == DecisionIds(s) = EpisodeIds(inputs)

\* The model a submission chooses for an episode: the last entry, as in a dict.
\* (A bug of the code: the decisions are taken in the order of the input.)
DecidedInOrder(inputs, s, id) ==
    s.decisions[CHOOSE i \in DOMAIN inputs.episodes :
                    inputs.episodes[i].episode_id = id].model_id
Decided(inputs, s, id) ==
    s.decisions[CHOOSE i \in DOMAIN s.decisions :
                    /\ s.decisions[i].episode_id = id
                    /\ \A j \in DOMAIN s.decisions :
                          s.decisions[j].episode_id = id => j <= i].model_id

BudgetPassed(cost, light, multiplier) == Whole * cost <= light * multiplier

\* quality and baseline over the batch; a tier over budget has no points.
ScoreTier(inputs, s, outcomes, policy) ==
    LET chosen(i) == Decided(inputs, s, inputs.episodes[i].episode_id)
        outcome(i, m) == OutcomeOf(outcomes, inputs.episodes[i].episode_id, m)
        cost(i, m) == OutcomeCost(outcome(i, m), policy.models[m])
        Total(f(_)) == Sum([i \in DOMAIN inputs.episodes |-> f(i)])
        total == Total(LAMBDA i : cost(i, chosen(i)))
        light == Total(LAMBDA i : cost(i, policy.light_model_id))
        quality == Total(LAMBDA i : outcome(i, chosen(i)).score)
        tier == policy.tiers[s.tier]
        passed == BudgetPassed(total, light, tier.budget_multiplier)
    IN [total_cost |-> total, light_baseline_cost |-> light,
        budget_passed |-> passed,
        near_budget |-> Whole * Whole * total
                            >= light * tier.budget_multiplier
                                   * policy.budget_warning_ratio,
        quality_points |-> quality,
        tier_points |-> IF passed THEN quality ELSE 0]

\* Each tier has exactly one submission; which file it came from is not asked.
OnePerTier(submissions) ==
    /\ AllDiffer(submissions, "tier")
    /\ {submissions[i].tier : i \in DOMAIN submissions} = KnownTiers

OfTier(submissions, t) ==
    submissions[CHOOSE i \in DOMAIN submissions : submissions[i].tier = t]

\* Points are weighted, in hundredths; the report divides by the episodes.
ScoreSubmissions(inputs, outcomes, submissions, policy) ==
    IF ~ /\ OnePerTier(submissions)
         /\ SharedMetadata(inputs, outcomes, submissions, policy)
         /\ OutcomeMatrix(inputs, outcomes)
         /\ \A i \in DOMAIN submissions : DecisionIndex(inputs, submissions[i])
    THEN NoReport
    ELSE LET of == [t \in KnownTiers |->
                       ScoreTier(inputs, OfTier(submissions, t), outcomes, policy)]
         IN IF \E t \in KnownTiers : of[t].light_baseline_cost <= 0
            THEN NoReport
            ELSE [scored |-> TRUE, tiers |-> of,
                  final_points |->
                      Sum([k \in 1..3 |-> of[TierNames[k]].tier_points
                                              * policy.tiers[TierNames[k]].weight])]
=============================================================================
