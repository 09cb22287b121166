------------------------- MODULE RoutingEvaluation --------------------------
(***************************************************************************)
(* What becomes of the decisions of one router for one tier: the router    *)
(* makes them (the public routers by predicting and allocating, the        *)
(* reference heuristic, or anybody's router), they are written as a        *)
(* submission file beside the always-light files of the other tiers, the   *)
(* operator validates the file, runs the ID/order audit, and the local     *)
(* self-check scores the three files.  Predictions are exact: what the     *)
(* public router predicts for an episode is its outcome.                   *)
(***************************************************************************)
EXTENDS Allocator, AuditVariant, Scoring

CONSTANTS
    MaxEpisodes,    \* bound: episodes in a batch
    Ids,            \* their IDs in the input, in its order
    MaxSearched,    \* bound: episodes where another router answers, or the
                    \* public one a second time
    AuditedRows,    \* bound: what longer or audited batches consist of
    Complexity,     \* [score, long]: what the heuristic extracts from a prompt
    Artifacts,      \* [safety : [KnownTiers -> percent], digest]: hash artifacts
    Policies,       \* policy files that parse
    BadPolicies     \* policy files that do not

\* Input IDs are texts of their own, and "z" is nobody's.  The artifact's loader
\* checks the safety ratio.
ASSUME EvaluationAssumption ==
    /\ MaxEpisodes \in Nat \ {0} /\ MaxSearched \in 1..MaxEpisodes
    /\ \A i \in 1..MaxEpisodes : IsId(Ids[i]) /\ Ids[i] # "z"
    /\ \A i, j \in 1..MaxEpisodes : Ids[i] = Ids[j] => i = j
    /\ AuditedRows \subseteq Rows
    /\ \A a \in Artifacts : a.safety \in [KnownTiers -> 1..100]
    /\ \A p \in Policies : ParsesPolicy(p)
    /\ \A p \in BadPolicies : ~ParsesPolicy(p)

\* What makes predictions outcomes: scores that an outcome may have, and artifacts
\* fitted, like the bundled one, for a policy whose rates make a predicted cost
\* the cost, whose light model is the allocator's and which allows every tier at
\* least the cost of all-light.
ASSUME ExactPredictions ==
    /\ \A r \in Rows : \A k \in Models : r.score[k] <= ScoreOne
    /\ \A a \in Artifacts :
          /\ a.digest.light_model_id = ModelIds[Light]
          /\ \A m \in KnownModels :
                a.digest.models[m] = [fixed_cost |-> 0, input_token_rate |-> 1,
                                      output_token_rate |-> 1]
          /\ \A t \in KnownTiers : a.digest.tiers[t].budget_multiplier >= 100

VARIABLES
    router,    \* "public", "heuristic" or "other"
    stage,     \* how far the evaluation is
    policy,    \* the policy file
    artifact,
    content,   \* predictions, prompts and outcomes, row by row: what is asked
    inputs,    \* the input file
    files,     \* files[t]: the submission file named after tier t
    assigned,  \* assigned[i]: the audit ID of episode i
    place,     \* place[k]: the episode at place k of the audit batch
    answers,   \* the first run's decisions in input order, <<>> before the audit
    report     \* what self-check wrote

evalVars == <<router, policy, artifact, content, inputs>>
auditVars == <<assigned, place, answers>>
vars == <<allocatorVars, evalVars, auditVars, stage, files, report>>

-----------------------------------------------------------------------------
Size == Len(content)
File(root) == [reads |-> TRUE, root |-> root]
Unreadable == [reads |-> FALSE]
Rules == ParsedPolicy(policy.root)

\* An object with one key more, or another value for it.
With(object, key, value) ==
    [k \in DOMAIN object \cup {key} |-> IF k = key THEN value ELSE object[k]]

Variants(good) ==
    {[good EXCEPT !.schema_version = 2], [good EXCEPT !.challenge_id = Blank],
     [good EXCEPT !.challenge_id = "other"], [good EXCEPT !.split = "other"],
     [k \in DOMAIN good \ {"split"} |-> good[k]], With(good, "extra", 0)}

InputOf(rs) ==
    [schema_version |-> 1, challenge_id |-> "challenge", split |-> "dev",
     episodes |-> [i \in DOMAIN rs |-> IF i = 1
                     THEN [episode_id |-> Ids[i],
                           messages |-> <<[role |-> "user", content |-> "text"]>>]
                     ELSE [episode_id |-> Ids[i], prompt |-> "text"]]]

\* One thing wrong with the input.
BadInputs(good) ==
    {Unreadable, File([good EXCEPT !.episodes = <<>>]),
     File([good EXCEPT !.episodes = Append(@, @[1])]),
     File([good EXCEPT !.episodes[1] = With(@, "prompt", "text")]),
     File([good EXCEPT !.episodes[1].messages[1].role = "tool"]),
     File([good EXCEPT !.episodes[1].messages = <<>>]),
     File([good EXCEPT !.episodes[1].episode_id = TooLong])}
    \cup {File(v) : v \in {w \in Variants(good) : ~ParsesInput(w)}}

\* The bundled rates make the cost of a model for a row what is predicted.
OutcomesOf(rs) ==
    [schema_version |-> 1, challenge_id |-> "challenge", split |-> "dev",
     episodes |-> [i \in DOMAIN rs |->
        [episode_id |-> Ids[i],
         models |-> [m \in KnownModels |->
            LET k == CHOOSE k \in Models : ModelIds[k] = m
            IN [score |-> rs[i].score[k], num_generations |-> 1,
                input_tokens |-> 1, output_tokens |-> rs[i].cost[k] - 1]]]]]

\* One thing wrong with the outcomes.
BadOutcomes(good) ==
    {Unreadable, File([good EXCEPT !.episodes = Tail(@)]),
     File([good EXCEPT !.episodes = Append(@, @[1])]),
     File([good EXCEPT !.episodes = Append(@, [@[1] EXCEPT !.episode_id = "z"])]),
     File([good EXCEPT !.episodes[1].models = [m \in {"ax31"} |-> @[m]]]),
     File([good EXCEPT !.episodes[1].models["ax31"].score = ScoreOne + 1]),
     File([good EXCEPT !.episodes[1].models["ax31"].input_tokens = 0]),
     File([good EXCEPT !.episodes[1].models["ax31"].num_generations = 0]),
     File([good EXCEPT !.episodes[1].models["ax31"].output_tokens = Malformed])}
    \cup {File(v) : v \in Variants(good)}

\* One thing wrong with a submission.
BadSubmissions(good) ==
    {Unreadable, File([good EXCEPT !.decisions = <<>>]),
     File([good EXCEPT !.decisions = Tail(@)]),
     File([good EXCEPT !.decisions = Append(@, [@[1] EXCEPT !.model_id = "ax31"])]),
     File([good EXCEPT !.decisions = Append(@, [@[1] EXCEPT !.episode_id = "z"])]),
     File([good EXCEPT !.decisions[1].episode_id = TooLong]),
     File([good EXCEPT !.decisions[1].model_id = "gpt"]),
     File([good EXCEPT !.decisions[1] = With(@, "why", "")]),
     File([good EXCEPT !.policy_id = "v2"]), File([good EXCEPT !.tier = "free"])}
    \cup {File([good EXCEPT !.tier = t]) : t \in KnownTiers \ {good.tier}}
    \cup {File(v) : v \in Variants(good)}

-----------------------------------------------------------------------------
\* always-light: one file for each tier, with the policy's own light model.
AlwaysLight(t) ==
    File(SubmissionOf(inputs.root, Rules, t,
             [i \in DOMAIN inputs.root.episodes |->
                 [episode_id |-> inputs.root.episodes[i].episode_id,
                  model_id |-> Rules.light_model_id]]))

Missing == [t \in KnownTiers |-> Unreadable]

InputLoads == Loads(inputs, ParsesInput(inputs.root))
PolicyLoads == Loads(policy, ParsesPolicy(policy.root))

\* The artifact was fitted for one policy.
\* (A bug of the code: only the ID of the policy is compared.)
SamePolicyId == artifact.digest.policy_id = Rules.policy_id
ValidComponents == artifact.digest = PolicyDigest(Rules)

CanRoute ==
    /\ InputLoads /\ PolicyLoads
    /\ inputs.root.schema_version = Rules.schema_version
    /\ router = "public" => ValidComponents

Multiplier(name) == Rules.tiers[name].budget_multiplier

\* select_model: long contexts stay with Light, unless the tier is premium.
SelectModel(r, name) ==
    LET hard == IF name = "fast" THEN 3 ELSE 2
        c == Complexity[r]
    IN IF name = "premium" \/ (c.score >= hard /\ ~c.long)
       THEN "ax31" ELSE "ax31-light"

\* The batch as the router gets it: row k has this ID and these predictions.
RowIds == IF answers = <<>> THEN [i \in 1..Size |-> i]
          ELSE [k \in 1..Size |-> assigned[place[k]]]

\* Decision by decision, in the order of the input.
\* (A bug of the code: the IDs are sorted, the models are not.)
DecisionsBySortedId(models) ==
    [i \in 1..Size |-> [episode_id |-> Ids[i], model_id |-> models[i]]]
Decisions(models) ==
    [k \in 1..Size |-> [episode_id |-> Ids[RowIds[k]], model_id |-> models[k]]]

Routed ==
    SubmissionOf(inputs.root, Rules, tier.name,
        Decisions([k \in 1..Size |-> IF router = "public" THEN ModelIds[selected[k]]
                                     ELSE SelectModel(rows[k], tier.name)]))

-----------------------------------------------------------------------------
Init ==
    /\ \E n \in 1..MaxEpisodes :
          content \in [1..n -> IF n < 4 THEN Rows ELSE AuditedRows]
    /\ router \in {"public", "heuristic", "other"}
    /\ router = "other" => Size <= MaxSearched
    /\ router # "public" => \A i \in DOMAIN content : content[i] \in AuditedRows
    /\ \/ /\ policy \in {File(p) : p \in Policies}
          /\ inputs = File(InputOf(content))
       \/ /\ router # "public"
          /\ policy \in {File(p) : p \in BadPolicies} \cup {Unreadable}
          /\ inputs = File(InputOf(content))
       \/ /\ router # "public" /\ policy \in {File(p) : p \in Policies}
          /\ inputs \in BadInputs(InputOf(content))
    /\ artifact \in Artifacts
    /\ router # "public" => artifact = CHOOSE a \in Artifacts : TRUE
    /\ \E name \in KnownTiers :
          tier = [name |-> name, safety |-> artifact.safety[name],
                  multiplier |-> IF PolicyLoads THEN Multiplier(name) ELSE 0]
    /\ Begun(content)
    /\ stage = "route"
    /\ files = IF InputLoads /\ PolicyLoads
               THEN [t \in KnownTiers |-> AlwaysLight(t)] ELSE Missing
    /\ assigned = <<>> /\ place = <<>> /\ answers = <<>>
    /\ report = NoReport

-----------------------------------------------------------------------------
\* Exit 2, and no file is written.
RefuseToRoute ==
    /\ stage = "route" /\ router # "other" /\ ~CanRoute
    /\ stage' = "refused"
    /\ UNCHANGED <<allocatorVars, evalVars, auditVars, files, report>>

Allocate ==
    /\ stage \in {"route", "reroute"} /\ router = "public" /\ CanRoute
    /\ AllocateTier
    /\ UNCHANGED <<evalVars, auditVars, stage, files, report>>

RouteDone == router = "heuristic" \/ (router = "public" /\ pc = "done")

WriteSubmission ==
    /\ stage = "route" /\ CanRoute /\ RouteDone
    /\ files' = [files EXCEPT ![tier.name] = File(Routed)]
    /\ stage' = "written"
    /\ UNCHANGED <<allocatorVars, evalVars, auditVars, report>>

\* Anybody's router: any models in any order, or one thing wrong; or the file
\* changes places with another tier's.
OtherSubmission ==
    /\ stage = "route" /\ router = "other"
    /\ \/ /\ CanRoute
          /\ \/ \E order \in Sorted(Size), models \in [1..Size -> KnownModels] :
                   files' = [files EXCEPT ![tier.name].root.decisions =
                       [k \in 1..Size |-> [episode_id |-> Ids[order[k]],
                                           model_id |-> models[order[k]]]]]
             \/ \E bad \in BadSubmissions(files[tier.name].root) :
                   files' = [files EXCEPT ![tier.name] = bad]
             \/ \E t \in KnownTiers \ {tier.name} :
                   files' = [files EXCEPT ![tier.name] = files[t],
                                          ![t] = files[tier.name]]
       \/ ~CanRoute /\ UNCHANGED files
    /\ stage' = "written"
    /\ UNCHANGED <<allocatorVars, evalVars, auditVars, report>>

\* The operator loads the file of the tier and compares it with the batch.
Acceptable ==
    /\ InputLoads /\ PolicyLoads
    /\ Loads(files[tier.name], ParsesSubmission(files[tier.name].root))
    /\ ValidateRuntimeSubmission(inputs.root, files[tier.name].root, Rules,
                                 tier.name)

Validate ==
    /\ stage = "written"
    /\ stage' = IF Acceptable THEN "accepted" ELSE "rejected"
    /\ UNCHANGED <<allocatorVars, evalVars, auditVars, files, report>>

-----------------------------------------------------------------------------
ModelNumber(m) == CHOOSE k \in Models : ModelIds[k] = m
DecidedFor(s, id) == ModelNumber(Decided(inputs.root, s, Ids[id]))

MakeVariant ==
    /\ stage = "accepted" /\ router # "other"
    /\ router = "public" => Size <= MaxSearched
    /\ \A i \in DOMAIN content : content[i] \in AuditedRows
    /\ \E cycle, order \in Sorted(Size) :
          /\ assigned' = Assign(cycle, Size)
          /\ place' = Reordered(order, Size)
          /\ Begin([k \in 1..Size |-> content[Reordered(order, Size)[k]]])
    /\ answers' = [i \in 1..Size |-> DecidedFor(files[tier.name].root, i)]
    /\ stage' = "reroute"
    /\ UNCHANGED <<evalVars, files, report>>

\* The audit's own submission takes the place of the first one in the model.
WriteVariant ==
    /\ stage = "reroute" /\ RouteDone
    /\ files' = [files EXCEPT ![tier.name] = File(Routed)]
    /\ stage' = "audited"
    /\ UNCHANGED <<allocatorVars, evalVars, auditVars, report>>

-----------------------------------------------------------------------------
\* self-check loads everything again; the files in the order of the tiers.
Submissions == [k \in 1..3 |-> files[TierNames[k]].root]

SelfCheckReport(outcomes) ==
    IF /\ InputLoads /\ PolicyLoads /\ Loads(outcomes, ParsesOutcomes(outcomes.root))
       /\ \A t \in KnownTiers : Loads(files[t], ParsesSubmission(files[t].root))
    THEN ScoreSubmissions(inputs.root, outcomes.root, Submissions, Rules)
    ELSE NoReport

SelfCheck ==
    /\ stage \in {"accepted", "rejected"}
    /\ \/ /\ report' = SelfCheckReport(File(OutcomesOf(content)))
          /\ stage' = IF stage = "accepted" THEN "accepted and checked"
                      ELSE "rejected and checked"
       \/ \E bad \in BadOutcomes(OutcomesOf(content)) :
             /\ router = "heuristic"
             /\ report' = SelfCheckReport(bad)
             /\ stage' = "checked with bad outcomes"
    /\ UNCHANGED <<allocatorVars, evalVars, auditVars, files>>

Next ==
    \/ RefuseToRoute \/ Allocate \/ WriteSubmission \/ OtherSubmission
    \/ Validate
    \/ MakeVariant \/ WriteVariant
    \/ SelfCheck

Spec == Init /\ [][Next]_vars

-----------------------------------------------------------------------------
\* The cost of a row's outcome under the policy, and that of all-light.
TrueCost(r, m) ==
    LET rates == Rules.models[ModelIds[m]]
    IN rates.fixed_cost + rates.input_token_rate
           + (r.cost[m] - 1) * rates.output_token_rate
LightBaseline ==
    SumFunction([i \in 1..Size |->
                    TrueCost(content[i], ModelNumber(Rules.light_model_id))])

\* No episode keeps its ID, every ID is used exactly once, and the batch is not
\* in input order, unless there is only one episode.
EveryIdMoves ==
    stage = "audited" /\ Size > 1 =>
        /\ assigned \in Sorted(Size)
        /\ \A i \in 1..Size : assigned[i] # i
        /\ \E k \in 1..Size : place[k] # k

Caught(answer(_)) ==
    Mismatches(content, assigned, place, answer(Batch(content)),
               answer(Variant(content, assigned, place))) # {}

\* No escape: a router that looks its answer up by ID and does not give all IDs
\* the same one is caught.  This needs the assignment to be one cycle, not just
\* to move every ID.
IdRouterCaught ==
    stage = "audited" =>
        \A choice \in [1..Size -> {Light, Ax31}] :
            (\E i, j \in 1..Size : choice[i] # choice[j])
                => Caught(LAMBDA batch : ById(choice, batch))

\* No false alarm: a router that looks at what is asked and at nothing else
\* passes, also when episodes repeat; and so do the repository's own routers,
\* files and all: their choice for an episode depends on the batch it is in (the
\* allocation weighs every episode against all others), but not on the order or
\* the names in it.
ContentRouterPasses ==
    \A choice \in [{content[i] : i \in 1..Size} -> {Light, Ax31}] :
        ~Caught(LAMBDA batch : ByContent(choice, batch))
OwnRouterPasses ==
    Mismatches(content, assigned, place, answers,
               [k \in 1..Size |-> DecidedFor(files[tier.name].root, RowIds[k])]) = {}
NoFalseAlarm == stage = "audited" => ContentRouterPasses /\ OwnRouterPasses

\* With exact predictions the public router's tier is never worth nothing: the
\* allocation's budget (a floor, a safety margin, and Light as the first model
\* of the list) is within the scorer's (the policy's multiplier and light model).
PublicRouterKeepsItsPoints ==
    router = "public" /\ report.scored => report.tiers[tier.name].budget_passed

\* What self-check accepts is what the operator accepts, file by file, although
\* each has a validation of its own; unless every episode costs nothing with the
\* light model, or files are named after the wrong tier.
ValidatorsAgree ==
    /\ stage = "accepted and checked" => (report.scored <=> LightBaseline > 0)
    /\ stage = "rejected and checked" /\ report.scored =>
           \E t \in KnownTiers : files[t].root.tier # t

\* A report says what the files decided: one decision for every episode of the
\* batch and no other, whatever their order, and the points of just these.
ScoredAsDecided ==
    report.scored =>
        \A t \in KnownTiers :
            LET s == files[CHOOSE u \in KnownTiers : files[u].root.tier = t].root
                model(i) == CHOOSE m \in Models :
                    \E k \in DOMAIN s.decisions :
                        s.decisions[k] = [episode_id |-> Ids[i],
                                          model_id |-> ModelIds[m]]
                quality == SumFunction([i \in 1..Size |-> content[i].score[model(i)]])
                cost == SumFunction([i \in 1..Size |-> TrueCost(content[i], model(i))])
            IN /\ Len(s.decisions) = Size /\ Len(inputs.root.episodes) = Size
               /\ \A i \in 1..Size : \E k \in DOMAIN s.decisions :
                     s.decisions[k].episode_id = Ids[i]
               /\ s.split = inputs.root.split
               /\ report.tiers[t].tier_points =
                      IF 100 * cost <= Multiplier(t) * LightBaseline
                      THEN quality ELSE 0
=============================================================================
