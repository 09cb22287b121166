------------------------------ MODULE Protocol ------------------------------
(***************************************************************************)
(* The v1 files: which ones the parsers accept, and what they make of      *)
(* them.  A JSON object is a record, an array a sequence, a decimal a      *)
(* number of its smallest unit; percentages count 1/100.  A refusal is not *)
(* told from another, so a parser is a predicate: most are ProtocolErrors, *)
(* but loads_json lets the ValueError of an integer with thousands of      *)
(* digits and a RecursionError pass as they are.  A value of the wrong type or form is Blank where a text is  *)
(* expected, Malformed where a number is, and empty where an object or an  *)
(* array is.                                                               *)
(***************************************************************************)
EXTENDS Integers, Sequences, FiniteSets

SchemaVersion == 1
PolicyId == "ossp-2026-prompt-router-v1"
ModelIds == <<"ax31-light", "ax31", "axk1-think">>
TierNames == <<"fast", "balanced", "premium">>
Roles == {"system", "user", "assistant"}
KnownModels == {"ax31-light", "ax31", "axk1-think"}
KnownTiers == {"fast", "balanced", "premium"}

Blank == ""
TooLong == "more than 128 characters"
Malformed == -1
ScoreOne == 4   \* a score of 1, in quarters
Whole == 100    \* the weight of all tiers together

-----------------------------------------------------------------------------
HasKeys(object, required, optional) ==
    /\ required \subseteq DOMAIN object
    /\ DOMAIN object \subseteq required \cup optional

IsText(value) == value # Blank
IsId(value) == IsText(value) /\ value # TooLong
IsInteger(value, minimum) == value \in Int /\ value >= minimum
IsDecimal(value, minimum) == value \in Int /\ value >= minimum

\* The members of an array differ in what key names.
AllDiffer(array, key) ==
    \A i, j \in DOMAIN array : array[i][key] = array[j][key] => i = j

CommonHeader(root) ==
    /\ root.schema_version = SchemaVersion
    /\ IsText(root.challenge_id) /\ IsText(root.split)

\* load_json: the file is there, it is UTF-8 and JSON, no key comes twice in an
\* object, and then it has the form.
Loads(file, parses) == file.reads /\ parses

-----------------------------------------------------------------------------
ParsesMessage(message) ==
    /\ HasKeys(message, {"role", "content"}, {})
    /\ message.role \in Roles /\ IsText(message.content)

\* An episode has a prompt or messages, and not both.
ParsesEpisode(episode) ==
    /\ HasKeys(episode, {"episode_id"}, {"prompt", "messages"})
    /\ IsId(episode.episode_id)
    /\ ("prompt" \in DOMAIN episode) # ("messages" \in DOMAIN episode)
    /\ "prompt" \in DOMAIN episode => IsText(episode.prompt)
    /\ "messages" \in DOMAIN episode =>
           /\ episode.messages # <<>>
           /\ \A i \in DOMAIN episode.messages : ParsesMessage(episode.messages[i])

ParsesInput(root) ==
    /\ HasKeys(root, {"schema_version", "challenge_id", "split", "episodes"}, {})
    /\ CommonHeader(root)
    /\ root.episodes # <<>>
    /\ \A i \in DOMAIN root.episodes : ParsesEpisode(root.episodes[i])
    /\ AllDiffer(root.episodes, "episode_id")

-----------------------------------------------------------------------------
ParsesOutcome(outcome) ==
    /\ HasKeys(outcome,
               {"score", "num_generations", "input_tokens", "output_tokens"}, {})
    /\ IsInteger(outcome.num_generations, 1)
    /\ IsDecimal(outcome.score, 0) /\ outcome.score <= ScoreOne
    /\ IsInteger(outcome.input_tokens, 1) /\ IsInteger(outcome.output_tokens, 0)

ParsesOutcomes(root) ==
    /\ HasKeys(root, {"schema_version", "challenge_id", "split", "episodes"}, {})
    /\ CommonHeader(root)
    /\ root.episodes # <<>>
    /\ \A i \in DOMAIN root.episodes :
          LET episode == root.episodes[i]
          IN /\ HasKeys(episode, {"episode_id", "models"}, {})
             /\ IsId(episode.episode_id)
             /\ DOMAIN episode.models = KnownModels
             /\ \A m \in KnownModels : ParsesOutcome(episode.models[m])
    /\ AllDiffer(root.episodes, "episode_id")

-----------------------------------------------------------------------------
ParsesDecision(decision) ==
    /\ HasKeys(decision, {"episode_id", "model_id"}, {})
    /\ IsId(decision.episode_id)
    /\ decision.model_id \in KnownModels

\* The parser does not compare policy_id, challenge_id or split with anything.
ParsesSubmission(root) ==
    /\ HasKeys(root, {"schema_version", "challenge_id", "policy_id", "split",
                      "tier", "decisions"}, {})
    /\ CommonHeader(root)
    /\ IsText(root.policy_id)
    /\ root.tier \in KnownTiers
    /\ root.decisions # <<>>
    /\ \A i \in DOMAIN root.decisions : ParsesDecision(root.decisions[i])
    /\ AllDiffer(root.decisions, "episode_id")

-----------------------------------------------------------------------------
ParsesRates(rates) ==
    /\ HasKeys(rates, {"input_token_rate", "output_token_rate"}, {"fixed_cost"})
    /\ \A key \in DOMAIN rates : IsDecimal(rates[key], 0)

ParsesTier(tier) ==
    /\ HasKeys(tier, {"budget_multiplier", "weight"}, {})
    /\ IsDecimal(tier.budget_multiplier, 1) /\ IsDecimal(tier.weight, 0)

\* Every rate may be 0, and so may every cost.
\* (`cost_unit`, `token_unit` and `context_limit_tokens` are kept but not used
\* by what is modelled; v1 fixes the token unit.)
ParsesPolicy(root) ==
    /\ HasKeys(root, {"schema_version", "policy_id", "light_model_id", "models",
                      "tiers"}, {"budget_warning_ratio"})
    /\ root.schema_version = SchemaVersion
    /\ root.policy_id = PolicyId
    /\ DOMAIN root.models = KnownModels
    /\ \A m \in KnownModels : ParsesRates(root.models[m])
    /\ root.light_model_id \in DOMAIN root.models
    /\ DOMAIN root.tiers = KnownTiers
    /\ \A t \in KnownTiers : ParsesTier(root.tiers[t])
    /\ root.tiers["fast"].weight + root.tiers["balanced"].weight
           + root.tiers["premium"].weight = Whole
    /\ "budget_warning_ratio" \in DOMAIN root =>
           IsDecimal(root.budget_warning_ratio, 1)
           /\ root.budget_warning_ratio <= 100

\* What a file leaves out has a default.
ParsedPolicy(root) ==
    [schema_version |-> root.schema_version,
     policy_id |-> root.policy_id,
     light_model_id |-> root.light_model_id,
     models |-> [m \in KnownModels |->
                    [fixed_cost |-> IF "fixed_cost" \in DOMAIN root.models[m]
                                    THEN root.models[m].fixed_cost ELSE 0,
                     input_token_rate |-> root.models[m].input_token_rate,
                     output_token_rate |-> root.models[m].output_token_rate]],
     tiers |-> root.tiers,
     budget_warning_ratio |-> IF "budget_warning_ratio" \in DOMAIN root
                              THEN root.budget_warning_ratio ELSE 95]

\* The digest is of the parsed policy, defaults filled in and decimals in one
\* form, so two files that mean the same have the same digest.
PolicyDigest(policy) == policy

-----------------------------------------------------------------------------
SubmissionOf(inputs, policy, tier, decisions) ==
    [schema_version |-> inputs.schema_version, challenge_id |-> inputs.challenge_id,
     policy_id |-> policy.policy_id, split |-> inputs.split, tier |-> tier,
     decisions |-> decisions]

EpisodeIds(batch) == {batch.episodes[i].episode_id : i \in DOMAIN batch.episodes}
DecisionIds(s) == {s.decisions[i].episode_id : i \in DOMAIN s.decisions}

\* What the operator asks of a parsed submission before it counts.
ValidateRuntimeSubmission(inputs, s, policy, tier) ==
    /\ s.schema_version = inputs.schema_version
    /\ s.challenge_id = inputs.challenge_id
    /\ s.policy_id = policy.policy_id
    /\ s.split = inputs.split
    /\ s.tier = tier
    /\ DecisionIds(s) = EpisodeIds(inputs)
=============================================================================
