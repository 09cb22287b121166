------------------------ MODULE MCRoutingEvaluation -------------------------
(* Bounds of the run on routers and their evaluation.                      *)
EXTENDS RoutingEvaluation

Row(s1, s2, s3, c1, c2, c3) ==
    [score |-> <<s1, s2, s3>>, cost |-> <<c1, c2, c3>>]

Rising == Row(1, 3, 4, 2, 5, 11)
Costly == Row(0, 4, 4, 40, 41, 90)

\* Predictions that rise with the model, that do not, that tie, an upgrade so
\* cheap that no penalty within the bound stops it, and rows of another size.
MCRows ==
    {Rising, Row(2, 2, 4, 1, 3, 4), Row(3, 2, 1, 2, 3, 7),
     Row(0, 1, 2, 3, 4, 8), Costly, Row(0, 1, 4, 20, 21, 38)}
MCIds == <<"a", "b", "c", "d">>
MCAuditedRows == {Rising, Costly}

MCComplexity ==
    [r \in MCRows |-> IF r = Rising THEN [score |-> 2, long |-> FALSE]
                      ELSE [score |-> 5, long |-> r.cost[1] = 20]]

Rates(in, out) == [input_token_rate |-> in, output_token_rate |-> out]
Tier(multiplier, weight) == [budget_multiplier |-> multiplier, weight |-> weight]

\* The bundled policy's multipliers; its rates make predictions exact.
Bundled ==
    [schema_version |-> 1, policy_id |-> PolicyId,
     light_model_id |-> "ax31-light",
     models |-> [m \in KnownModels |-> Rates(1, 1)],
     tiers |-> [fast |-> Tier(125, 40), balanced |-> Tier(200, 30),
                premium |-> Tier(400, 30)]]

\* The same with its defaults written out; a tier cheaper than all-light; free
\* tokens; another light model and prices that fall with the model.
MCPolicies ==
    {Bundled, [budget_warning_ratio |-> 95] @@ Bundled,
     [Bundled EXCEPT !.tiers["fast"].budget_multiplier = 80],
     [Bundled EXCEPT !.models = [m \in KnownModels |-> Rates(0, 0)]],
     [Bundled EXCEPT !.light_model_id = "ax31",
                     !.models["axk1-think"] =
                         [fixed_cost |-> 3] @@ Rates(1, 0)]}
MCBadPolicies ==
    {[Bundled EXCEPT !.tiers["fast"].weight = 41],
     [Bundled EXCEPT !.tiers["fast"].budget_multiplier = 0],
     [Bundled EXCEPT !.light_model_id = "gpt"],
     [Bundled EXCEPT !.policy_id = "v2"],
     [Bundled EXCEPT !.models = [m \in {"ax31"} |-> Rates(1, 1)]],
     [budget_warning_ratio |-> 101] @@ Bundled}

\* The safety ratios of the public artifact, and others an artifact may have
MCArtifacts ==
    {[safety |-> [fast |-> 94, balanced |-> 91, premium |-> 92],
      digest |-> ParsedPolicy(Bundled)],
     [safety |-> [fast |-> 50, balanced |-> 100, premium |-> 40],
      digest |-> ParsedPolicy(Bundled)]}
=============================================================================
