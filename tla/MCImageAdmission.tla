--------------------------- MODULE MCImageAdmission ---------------------------
EXTENDS ImageAdmission, TLC

Fit == [platform |-> "arm64", volumes |-> FALSE, files |-> <<1, 1>>,
        layers |-> <<[declared |-> 1, size |-> 1], [declared |-> 1, size |-> 1]>>]
One == <<[declared |-> 1, size |-> 1]>>
MCVariant ==
  ("fit" :> Fit) @@
  ("other" :> [Fit EXCEPT !.platform = "amd64", !.volumes = TRUE]) @@
  ("heavy" :> [Fit EXCEPT !.layers = One \o <<[declared |-> 2, size |-> 2]>>]) @@
  ("understated" :> [Fit EXCEPT !.layers = <<[declared |-> 1, size |-> 3]>>]) @@
  ("fat" :> [Fit EXCEPT !.layers = One, !.files = <<1, 2>>]) @@
  ("crowded" :> [Fit EXCEPT !.layers = One, !.files = <<0, 0, 0, 0>>]) @@
  ("padded" :> [Fit EXCEPT !.layers = One, !.files = <<2, 0, 0>>]) @@
  ("volumes" :> [Fit EXCEPT !.layers = One, !.volumes = TRUE])
MCVariants == DOMAIN MCVariant

Single(v) == [index |-> FALSE,
              descriptors |-> {[label |-> MCVariant[v].platform, variant |-> v]}]
MCImage ==
  ("dIndex" :> [index |-> TRUE, descriptors |->
      {[label |-> "arm64", variant |-> "fit"], [label |-> "amd64", variant |-> "other"]}]) @@
  ("dTwice" :> [index |-> TRUE, descriptors |->
      {[label |-> "arm64", variant |-> "fit"], [label |-> "arm64", variant |-> "fat"]}]) @@
  ("dMislabelled" :> [index |-> TRUE, descriptors |->
      {[label |-> "arm64", variant |-> "other"]}]) @@
  ("dHeavy" :> Single("heavy")) @@ ("dUnderstated" :> Single("understated")) @@
  ("dFat" :> Single("fat")) @@ ("dCrowded" :> Single("crowded")) @@
  ("dPadded" :> Single("padded")) @@ ("dVolumes" :> Single("volumes"))
MCDigests == DOMAIN MCImage
MCSubmissions ==
  { {"dIndex", "dFat"}, {"dIndex", "dTwice"}, {"dMislabelled"}, {"dIndex", "dVolumes"},
    {"dUnderstated"}, {"dCrowded"}, {"dPadded"}, {"dHeavy"} }
MCEngines == { [selects |-> TRUE, many |-> TRUE, blank |-> TRUE],
               [selects |-> FALSE, many |-> TRUE, blank |-> FALSE],
               [selects |-> FALSE, many |-> FALSE, blank |-> TRUE],
               [selects |-> TRUE, many |-> FALSE, blank |-> FALSE] }
=============================================================================
