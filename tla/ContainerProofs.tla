--------------------------- MODULE ContainerProofs ---------------------------
(***************************************************************************)
(* The two ends of a container: which image it may be of, and what is made *)
(* of what it wrote.                                                       *)
(*                                                                         *)
(* First the admission of images (ImageAdmission): the evidence is true,   *)
(* every image that runs fits the limits, every rejection has its reason.  *)
(* Then the run of one child (RouterRun): what the child wrote is captured *)
(* before it is judged, a valid result is the run's own, and no run        *)
(* returns with its child running.                                         *)
(*                                                                         *)
(* The two specifications share neither variables nor constants.           *)
(***************************************************************************)
EXTENDS ImageAdmission, RouterRun, Sums, TLAPS


-----------------------------------------------------------------------------
(* Sums over the beginning of a sequence.                                  *)

\* The first n numbers of s.
Upto(s, n) == SumOver(s, 1..n)

\* What a loop adds up, number by number.
LEMMA UptoNext ==
    ASSUME NEW s \in Seq(Nat), NEW n \in Nat, n < Len(s)
    PROVE  /\ Upto(s, n) \in Nat /\ Upto(s, n + 1) \in Nat
           /\ Upto(s, n + 1) = Upto(s, n) + s[n + 1] /\ s[n + 1] \in Nat
  <1>0. PICK m \in Nat : m = n + 1
    OBVIOUS
  <1>1. /\ IsFiniteSet(1..n) /\ IsFiniteSet(1..m)
        /\ m \in 1..m /\ (1..m) \ {m} = 1..n
    <2>1. m \in Int /\ n \in Int /\ 1 \in Int
      BY <1>0
    <2>2. IsFiniteSet(1..n) /\ IsFiniteSet(1..m)
      BY <2>1, FS_Interval
    <2>3. m \in 1..m /\ \A i : i \in (1..m) \ {m} <=> i \in 1..n
      BY <1>0
    <2> QED BY <2>2, <2>3
  <1>2. /\ \A i \in 1..m : s[i] \in Nat /\ s[i] \in Int
        /\ \A i \in 1..n : s[i] \in Nat
    BY <1>0
  <1>3. SumOver(s, 1..n) \in Nat /\ SumOver(s, 1..m) \in Nat
    BY <1>1, <1>2, SumType
  <1>4. SumOver(s, 1..m) = s[m] + SumOver(s, (1..m) \ {m})
    BY <1>1, <1>2, SumWithout
  <1>5. SumOver(s, 1..m) = SumOver(s, 1..n) + s[m]
    <2>1. PICK a, b, c : /\ a = SumOver(s, 1..m) /\ b = SumOver(s, 1..n)
                         /\ c = SumOver(s, (1..m) \ {m})
      OBVIOUS
    <2>2. b = c
      BY <1>1, <2>1
    <2>3. a = s[m] + c /\ b \in Nat /\ s[m] \in Nat
      BY <1>1, <1>2, <1>3, <1>4, <2>1
    <2>4. a = b + s[m]
      BY <2>2, <2>3
    <2> QED BY <2>1, <2>4
  <1> QED BY <1>0, <1>1, <1>2, <1>3, <1>5 DEF Upto

\* Nothing was added up before the loop.
LEMMA UptoZero == ASSUME NEW s PROVE Upto(s, 0) = 0
  <1>1. 1..0 = {} /\ IsFiniteSet({})
    BY FS_EmptySet
  <1>2. SumOver(s, {}) = 0
    BY <1>1, SumRecursion
  <1> QED BY <1>1, <1>2 DEF Upto

\* The total is what the whole loop adds up.
LEMMA TotalIs == ASSUME NEW s \in Seq(Nat) PROVE Total(s) = Upto(s, Len(s))
  <1>1. DOMAIN s = 1..Len(s)
    OBVIOUS
  <1> QED BY <1>1 DEF Total, Upto, SumOver

\* The loop never has more than the total.
LEMMA UptoBelow ==
    ASSUME NEW s \in Seq(Nat), NEW n \in Nat, n <= Len(s)
    PROVE  Upto(s, n) <= Total(s) /\ Upto(s, n) \in Nat /\ Total(s) \in Nat
  <1> DEFINE OK(k) == Upto(s, k) \in Nat /\ (n <= k => Upto(s, n) <= Upto(s, k))
             T == {k \in 0..Len(s) : ~OK(k)}
  <1>1. T = {}
    <2> SUFFICES ASSUME T # {} PROVE FALSE
      OBVIOUS
    <2>1. PICK k \in T : \A j \in T : k <= j
      <3>1. T \in SUBSET Nat
        OBVIOUS
      <3> HIDE DEF T
      <3> QED BY <3>1, LeastElement
    <2>2. k # 0
      <3>1. Upto(s, 0) = 0
        BY UptoZero
      <3>2. n <= 0 => n = 0
        OBVIOUS
      <3> QED BY <2>1, <3>1, <3>2
    <2>3. PICK m \in Nat : k = m + 1
      BY <2>1, <2>2
    <2>4. m < Len(s) /\ OK(m)
      BY <2>1, <2>3
    <2>5. /\ Upto(s, m) \in Nat /\ Upto(s, k) \in Nat /\ s[k] \in Nat
          /\ Upto(s, k) = Upto(s, m) + s[k]
      BY <2>3, <2>4, UptoNext
    <2>6. CASE n <= m
      <3>1. Upto(s, n) \in Nat
        <4>1. n \in 0..Len(s) /\ n \notin T
          BY <2>1, <2>3, <2>4, <2>6
        <4> QED BY <4>1
      <3> QED BY <2>1, <2>3, <2>4, <2>5, <2>6, <3>1
    <2>7. CASE n = k
      BY <2>1, <2>5, <2>7
    <2>8. CASE n > k
      BY <2>1, <2>5, <2>8
    <2> QED BY <2>3, <2>6, <2>7, <2>8
  <1>2. OK(Len(s)) /\ OK(n) /\ Len(s) \in Nat
    BY <1>1
  <1> QED BY <1>2, TotalIs
-----------------------------------------------------------------------------
(* The inductive invariant of the admission of images.                     *)

Sizes(v) == [ i \in DOMAIN Variant[v].layers |-> Variant[v].layers[i].size ]
Declared(v) == [ i \in DOMAIN Variant[v].layers |-> Variant[v].layers[i].declared ]

\* v is the image that d names for the official platform, and the only one.
IsImageOf(d, v) ==
  /\ v \in Variants /\ v \in VariantsOf(d)
  /\ Image[d].index => OfficialOf(d) = {v}
  /\ ~Image[d].index => RootOf(d) = ManifestOf(v) /\ \A w \in VariantsOf(d) : w = v

IsFit(v) == Variant[v].platform = Official /\ ~Variant[v].volumes

CacheOK ==
  /\ submitted \subseteq Digests /\ engine \in Engines
  /\ DOMAIN store = submitted /\ \A d \in submitted : store[d] \subseteq VariantsOf(d)

Fields == { "step", "official", "digest", "manifest", "document", "layer", "total",
            "id", "container", "member", "apparent", "stream", "exit" }
Measuring == {"layers", "inspect", "create", "export", "validate"}

\* What the loops over the layers and over the members of the stream have added up.
LayersRead(t, v) ==
  /\ t.layer \in 1..(Len(Variant[v].layers) + 1)
  /\ t.total = Upto(Sizes(v), t.layer - 1) /\ t.total = Upto(Declared(v), t.layer - 1)
  /\ t.total <= MaxCompressed
  /\ t.step # "layers" => t.layer = Len(Variant[v].layers) + 1
MembersRead(t, v) ==
  /\ t.member \in 1..(Len(Variant[v].files) + 1)
  /\ t.apparent = Upto(Variant[v].files, t.member - 1) /\ t.apparent <= MaxRootfs
  /\ t.stream = t.apparent + (t.member - 1)
  /\ t.stream <= MaxStream /\ t.member - 1 <= MaxMembers
  /\ t.step \in {"export", "validate"} => t.container = v
  /\ t.step = "validate" => t.member = Len(Variant[v].files) + 1

\* What the program knows is about one image, that of its digest.
Reads(t, v) ==
  /\ t.manifest = ManifestOf(v) /\ t.document = ManifestOf(v) /\ IsImageOf(t.digest, v)
Knows(t, v) ==
  /\ Reads(t, v) /\ IsFit(v) /\ LayersRead(t, v) /\ MembersRead(t, v)
  /\ t.step \in {"create", "export", "validate"} /\ ~t.official => t.id = ConfigOf(v)

Fresh(t) == t.layer = 1 /\ t.total = 0 /\ t.member = 1 /\ t.apparent = 0 /\ t.stream = 0

IsTool(t) ==
  /\ DOMAIN t = Fields /\ t.step \in {"idle", "layout", "config"} \cup Measuring
  /\ t.step # "idle" => t.digest \in submitted /\ t.exit = "none"
  /\ t.step \in {"layout", "config"} => Fresh(t)
  /\ t.step = "config" => t.document[1] # "manifest" \/ \E v \in Variants : Reads(t, v)
  /\ t.step \in Measuring => \E v \in Variants : Knows(t, v)
ToolOK == IsTool(tool)

\* The evidence is true, and about an image that fits.
IsTrue(e, v) ==
  /\ IsImageOf(e.digest, v) /\ IsFit(v) /\ Fits(v)
  /\ e.total = CompressedOf(v) /\ e.rootfs = RootfsOf(v)
EvidenceOK == \A e \in evidence : e.digest \in submitted /\ \E v \in Variants : IsTrue(e, v)

\* The evaluator admits by the evidence.
EvaluatorOK ==
  /\ DOMAIN evaluator = {"step", "digest", "read", "exit"}
  /\ evaluator.step \in {"idle", "resolve", "attempt", "run"}
  /\ evaluator.step # "idle" => evaluator.digest \in submitted /\ evaluator.exit = "none"
  /\ evaluator.step = "resolve" => evaluator.read \in evidence
  /\ evaluator.step \in {"attempt", "run"} =>
        \E e \in evidence : e.digest = evaluator.digest

AdmissionInv ==
  /\ CacheOK /\ ToolOK /\ EvidenceOK /\ EvaluatorOK
  /\ AdmittedFits /\ RejectedForAReason

-----------------------------------------------------------------------------
\* The constants.
LEMMA VariantFacts ==
    ASSUME NEW v \in Variants
    PROVE  /\ Variant[v].files \in Seq(Nat)
           /\ Sizes(v) \in Seq(Nat) /\ Declared(v) \in Seq(Nat)
           /\ Len(Sizes(v)) = Len(Variant[v].layers)
           /\ Len(Declared(v)) = Len(Variant[v].layers)
           /\ Len(Variant[v].layers) \in Nat /\ DOMAIN Variant[v].layers = 1..Len(Variant[v].layers)
           /\ \A i \in 1..Len(Variant[v].layers) :
                 /\ Sizes(v)[i] = Variant[v].layers[i].size
                 /\ Declared(v)[i] = Variant[v].layers[i].declared
                 /\ Variant[v].layers[i].size \in Nat /\ Variant[v].layers[i].declared \in Nat
  <1>1. /\ Variant[v].files \in Seq(Nat)
        /\ Variant[v].layers \in Seq([declared : Nat, size : Nat])
    BY ImagesAreKnown DEF ImagesAreKnown
  <1>2. PICK l : l = Variant[v].layers
    OBVIOUS
  <1>3. /\ Len(l) \in Nat /\ DOMAIN l = 1..Len(l)
        /\ \A i \in 1..Len(l) : l[i].size \in Nat /\ l[i].declared \in Nat
    <2>1. l \in Seq([declared : Nat, size : Nat])
      BY <1>1, <1>2
    <2>2. PICK R : R = [declared : Nat, size : Nat]
      OBVIOUS
    <2>3. Len(l) \in Nat /\ DOMAIN l = 1..Len(l) /\ \A i \in 1..Len(l) : l[i] \in R
      <3>1. l \in Seq(R)
        BY <2>1, <2>2, Zenon
      <3> QED BY <3>1
    <2>4. \A r \in R : r.size \in Nat /\ r.declared \in Nat
      BY <2>2
    <2> QED BY <2>3, <2>4
  <1>4. PICK f, g : f = [i \in DOMAIN l |-> l[i].size] /\ g = [i \in DOMAIN l |-> l[i].declared]
    OBVIOUS
  <1>5. f \in Seq(Nat) /\ Len(f) = Len(l) /\ g \in Seq(Nat) /\ Len(g) = Len(l)
    BY <1>3, <1>4
  <1>6. \A i \in 1..Len(l) : f[i] = l[i].size /\ g[i] = l[i].declared
    BY <1>3, <1>4
  <1> QED BY <1>1, <1>2, <1>3, <1>4, <1>5, <1>6 DEF Sizes, Declared

\* A digest that names no index names one image.
LEMMA PlainImage ==
    ASSUME NEW d \in Digests, ~Image[d].index
    PROVE  \E v \in Variants : IsImageOf(d, v)
  <1>1. /\ Cardinality(Image[d].descriptors) = 1 /\ IsFiniteSet(Image[d].descriptors)
        /\ \A e \in Image[d].descriptors : e.variant \in Variants
    BY ImagesAreKnown DEF ImagesAreKnown
  <1>2. PICK e : Image[d].descriptors = {e}
    BY <1>1, FS_Singleton
  <1>3. (CHOOSE x \in Image[d].descriptors : TRUE) = e
    BY <1>2
  <1>4. RootOf(d) = ManifestOf(e.variant)
    BY <1>3 DEF RootOf
  <1>5. VariantsOf(d) = {e.variant} /\ e.variant \in Variants
    BY <1>1, <1>2 DEF VariantsOf
  <1> QED BY <1>4, <1>5 DEF IsImageOf

\* Blobs are told apart by what they name.
LEMMA BlobsDiffer ==
    /\ \A v, w : ManifestOf(v) = ManifestOf(w) => v = w
    /\ \A v, w : ConfigOf(v) = ConfigOf(w) => v = w
    /\ \A v, w : ManifestOf(v) # ConfigOf(w)
    /\ \A v : ManifestOf(v)[1] = "manifest" /\ ManifestOf(v)[2] = v
    /\ \A v : ConfigOf(v)[2] = v
  BY DEF ManifestOf, ConfigOf
-----------------------------------------------------------------------------
(* What a step of one program leaves of the invariant.                     *)

\* Blame does not depend on what a program does.
LEMMA SameBlame == ASSUME engine' = engine, NEW d PROVE Blamed(d)' <=> Blamed(d)
  BY DEF Blamed, Deserves, Fits, CompressedOf, RootfsOf, StreamOf

\* The tool goes on.
LEMMA StepKeeps ==
    ASSUME AdmissionInv, NEW f, Step(f), IsTool(f), f.exit = "none"
    PROVE  AdmissionInv'
  <1>1. /\ tool' = f /\ UNCHANGED <<submitted, engine, store, pulls, evidence, evaluator, ran>>
    BY DEF Step, cache
  <1>2. CacheOK' /\ EvidenceOK' /\ EvaluatorOK'
    BY <1>1 DEF AdmissionInv, CacheOK, EvidenceOK, EvaluatorOK, IsTrue
  <1>3. ToolOK'
    BY <1>1 DEF ToolOK, IsTool
  <1>4. AdmittedFits'
    BY <1>1 DEF AdmissionInv, AdmittedFits
  <1>5. RejectedForAReason'
    <2>1. evaluator.exit = Rejected => Blamed(evaluator.digest)
      BY DEF AdmissionInv, RejectedForAReason
    <2>2. f.exit # Rejected
      BY DEF Rejected
    <2> QED BY <1>1, <2>1, <2>2, SameBlame DEF RejectedForAReason
  <1> QED BY <1>2, <1>3, <1>4, <1>5 DEF AdmissionInv

\* The tool exits.
LEMMA StopKeeps ==
    ASSUME AdmissionInv, NEW code, Stop(code),
           code \in {Infra, "published", "failed", "passed", Rejected},
           code = Rejected /\ tool.official => Blamed(tool.digest),
           code = "passed" => Fits(tool.container) /\ ~Variant[tool.container].volumes
    PROVE  AdmissionInv'
  <1>1. Exit(code) /\ UNCHANGED <<submitted, engine, store, pulls, evidence, evaluator, ran>>
    BY DEF Stop, cache
  <1>2. CacheOK' /\ EvidenceOK' /\ EvaluatorOK'
    BY <1>1 DEF AdmissionInv, CacheOK, EvidenceOK, EvaluatorOK, IsTrue
  <1>3. /\ DOMAIN tool' = Fields /\ tool'.step = "idle"
        /\ code \in {"passed", Rejected} =>
               /\ tool'.digest = tool.digest /\ tool'.container = tool.container
               /\ tool'.official = tool.official /\ tool'.exit = code
        /\ code \notin {"passed", Rejected} => tool'.exit = "none"
    BY <1>1 DEF Exit, BlankTool, Fields, Infra, Rejected
  <1>4. ToolOK'
    BY <1>3 DEF ToolOK, IsTool, Measuring
  <1>5. AdmittedFits'
    <2>1. \A run \in ran :
             Fits(run[2]) /\ ~Variant[run[2]].volumes /\ Variant[run[2]].platform = Official
      BY DEF AdmissionInv, AdmittedFits
    <2>2. tool'.exit = "passed" => code = "passed"
      BY <1>3 DEF Rejected
    <2> QED BY <1>1, <1>3, <2>1, <2>2 DEF AdmittedFits
  <1>6. RejectedForAReason'
    <2>1. evaluator.exit = Rejected => Blamed(evaluator.digest)
      BY DEF AdmissionInv, RejectedForAReason
    <2>2. tool'.exit = Rejected => code = Rejected
      BY <1>3 DEF Rejected
    <2>3. tool'.exit = Rejected /\ tool'.official => Blamed(tool'.digest)
      BY <1>3, <2>2
    <2> QED BY <1>1, <2>1, <2>3, SameBlame DEF RejectedForAReason
  <1> QED BY <1>2, <1>4, <1>5, <1>6 DEF AdmissionInv

\* The evaluator goes on.
LEMMA TurnKeeps ==
    ASSUME AdmissionInv, NEW f, Turn(f), DOMAIN f = {"step", "digest", "read", "exit"},
           f.step \in {"resolve", "attempt", "run"}, f.digest \in submitted,
           f.exit = "none", f.step = "resolve" => f.read \in evidence,
           f.step \in {"attempt", "run"} => \E e \in evidence : e.digest = f.digest
    PROVE  AdmissionInv'
  <1>1. evaluator' = f /\ UNCHANGED <<submitted, engine, store, pulls, tool, evidence, ran>>
    BY DEF Turn, cache
  <1>2. CacheOK' /\ EvidenceOK' /\ ToolOK' /\ AdmittedFits'
    BY <1>1 DEF AdmissionInv, CacheOK, EvidenceOK, ToolOK, IsTool, IsTrue, AdmittedFits
  <1>3. EvaluatorOK'
    BY <1>1 DEF EvaluatorOK
  <1>4. RejectedForAReason'
    <2>1. tool.exit = Rejected /\ tool.official => Blamed(tool.digest)
      BY DEF AdmissionInv, RejectedForAReason
    <2>2. f.exit # Rejected
      BY DEF Rejected
    <2> QED BY <1>1, <2>1, <2>2, SameBlame DEF RejectedForAReason
  <1> QED BY <1>2, <1>3, <1>4 DEF AdmissionInv

\* The evaluator ends.
LEMMA ConcludeKeeps ==
    ASSUME AdmissionInv, NEW code, Conclude(code),
           code = Rejected => Blamed(evaluator.digest)
    PROVE  AdmissionInv'
  <1>1. /\ evaluator' = IF code # Rejected THEN BlankEvaluator
                        ELSE [BlankEvaluator EXCEPT !.digest = evaluator.digest, !.exit = code]
        /\ UNCHANGED <<submitted, engine, store, pulls, tool, evidence, ran>>
    BY DEF Conclude, Turn, cache
  <1>2. CacheOK' /\ EvidenceOK' /\ ToolOK' /\ AdmittedFits'
    BY <1>1 DEF AdmissionInv, CacheOK, EvidenceOK, ToolOK, IsTool, IsTrue, AdmittedFits
  <1>3. /\ DOMAIN evaluator' = {"step", "digest", "read", "exit"}
        /\ evaluator'.step = "idle"
        /\ evaluator'.exit = Rejected =>
               code = Rejected /\ evaluator'.digest = evaluator.digest
    BY <1>1 DEF BlankEvaluator, Rejected
  <1>4. EvaluatorOK'
    BY <1>3 DEF EvaluatorOK
  <1>5. RejectedForAReason'
    <2>1. tool.exit = Rejected /\ tool.official => Blamed(tool.digest)
      BY DEF AdmissionInv, RejectedForAReason
    <2> QED BY <1>1, <1>3, <2>1, SameBlame DEF RejectedForAReason
  <1> QED BY <1>2, <1>4, <1>5 DEF AdmissionInv

\* Changes of layout and cache leave the programs alone.
LEMMA OutsideKeeps ==
    ASSUME AdmissionInv, Pull \/ ReplaceBlob \/ Relist
    PROVE  AdmissionInv'
  <1>1. submitted' = submitted /\ engine' = engine
        /\ UNCHANGED <<tool, evidence, evaluator, ran>>
    BY DEF Pull, ReplaceBlob, Relist, cache, programs
  <1>2. EvidenceOK' /\ ToolOK' /\ AdmittedFits' /\ EvaluatorOK'
    BY <1>1 DEF AdmissionInv, EvidenceOK, ToolOK, IsTool, IsTrue, AdmittedFits, EvaluatorOK
  <1>3. RejectedForAReason'
    <2>1. RejectedForAReason
      BY DEF AdmissionInv
    <2> QED BY <1>1, <2>1, SameBlame DEF RejectedForAReason
  <1>4. CacheOK'
    <2>1. CASE store' = store
      BY <1>1, <2>1 DEF AdmissionInv, CacheOK
    <2>2. CASE Pull
      <3>1. PICK d \in submitted :
               \E some \in IF engine.many THEN {VariantsOf(d)}
                           ELSE { {v} : v \in VariantsOf(d) } :
                   store' = [store EXCEPT ![d] = some]
        BY <2>2 DEF Pull
      <3>2. PICK some \in SUBSET VariantsOf(d) : store' = [store EXCEPT ![d] = some]
        BY <3>1
      <3> QED BY <1>1, <3>2 DEF AdmissionInv, CacheOK
    <2> QED BY <2>1, <2>2 DEF ReplaceBlob, Relist, cache
  <1> QED BY <1>2, <1>3, <1>4 DEF AdmissionInv

\* At the start nothing was measured, admitted or run.
LEMMA AdmissionBegins == AdmissionInit => AdmissionInv
  <1> SUFFICES ASSUME AdmissionInit PROVE AdmissionInv
    OBVIOUS
  <1>1. CacheOK
    BY ImagesAreKnown DEF AdmissionInit, CacheOK, ImagesAreKnown
  <1>2. ToolOK
    BY DEF AdmissionInit, BlankTool, ToolOK, IsTool, Fields, Measuring
  <1>3. EvidenceOK /\ EvaluatorOK
    BY DEF AdmissionInit, BlankEvaluator, EvidenceOK, EvaluatorOK
  <1>4. AdmittedFits /\ RejectedForAReason
    BY DEF AdmissionInit, BlankTool, BlankEvaluator, AdmittedFits, RejectedForAReason, Rejected
  <1> QED BY <1>1, <1>2, <1>3, <1>4 DEF AdmissionInv
-----------------------------------------------------------------------------
(* The measurement.                                                        *)

\* The manifest that is selected was hashed, and is the image's, unless it is none.
LEMMA SelectedIs ==
    ASSUME NEW d \in Digests, NEW b \in Selected(d)
    PROVE  /\ held[b] = b
           /\ b[1] # "manifest" \/ \E v \in Variants : b = ManifestOf(v) /\ IsImageOf(d, v)
  <1>1. /\ Cardinality(Roots(d)) = 1 /\ held[RootOf(d)] = RootOf(d)
        /\ b \in LET root == CHOOSE e \in Roots(d) : TRUE
                 IN IF root.media = "manifest" THEN {root.root}
                    ELSE IF Cardinality(Candidates(held[root.root])) # 1 THEN {}
                    ELSE { c \in { ManifestOf(e.variant) : e \in Candidates(held[root.root]) } :
                              Intact(c) }
    BY DEF Selected, Intact
  <1>2. PICK root : root = CHOOSE e \in Roots(d) : TRUE
    OBVIOUS
  <1>3. root.root = RootOf(d)
    <2>1. Roots(d) # {}
      BY <1>1, FS_EmptySet
    <2> QED BY <1>2, <2>1 DEF Roots
  <1>4. Image[d].index => RootOf(d) = <<"index", d>>
    BY DEF RootOf
  <1>5. CASE root.media = "manifest"
    <2>1. b = RootOf(d)
      BY <1>1, <1>2, <1>3, <1>5
    <2>2. CASE Image[d].index
      BY <1>1, <1>4, <2>1, <2>2
    <2>3. CASE ~Image[d].index
      <3>1. PICK v : IsImageOf(d, v)
        BY <2>3, PlainImage
      <3> QED BY <1>1, <2>1, <2>3, <3>1 DEF IsImageOf
    <2> QED BY <2>2, <2>3
  <1>6. CASE root.media # "manifest"
    <2>1. /\ Cardinality(Candidates(RootOf(d))) = 1
          /\ b \in { ManifestOf(e.variant) : e \in Candidates(RootOf(d)) } /\ held[b] = b
      BY <1>1, <1>2, <1>3, <1>6 DEF Intact
    <2>2. PICK r : r = RootOf(d)
      OBVIOUS
    <2>3. r[1] = "index"
      <3> SUFFICES ASSUME r[1] # "index" PROVE FALSE
        OBVIOUS
      <3>1. Candidates(r) = {}
        BY DEF Candidates
      <3> QED BY <2>1, <2>2, <3>1, FS_EmptySet
    <2>4. Image[d].index
      <3> SUFFICES ASSUME ~Image[d].index PROVE FALSE
        OBVIOUS
      <3>1. r = ManifestOf((CHOOSE e \in Image[d].descriptors : TRUE).variant)
        BY <2>2 DEF RootOf
      <3> QED BY <2>3, <3>1, BlobsDiffer
    <2>5. Candidates(r) = { e \in Image[d].descriptors : e.label = Official }
      BY <1>4, <2>2, <2>4 DEF Candidates
    <2>6. PICK x : Candidates(r) = {x}
      <3>1. IsFiniteSet(Candidates(r))
        <4>1. IsFiniteSet(Image[d].descriptors)
          BY ImagesAreKnown DEF ImagesAreKnown
        <4>2. Candidates(r) \subseteq Image[d].descriptors
          BY <2>5
        <4> QED BY <4>1, <4>2, FS_Subset
      <3>2. Cardinality(Candidates(r)) = 1
        BY <2>1, <2>2
      <3> QED BY <3>1, <3>2, FS_Singleton
    <2>7. b = ManifestOf(x.variant)
      BY <2>1, <2>2, <2>6
    <2>8. OfficialOf(d) = {x.variant}
      BY <2>5, <2>6 DEF OfficialOf
    <2>9. x \in Image[d].descriptors /\ x.variant \in Variants /\ x.variant \in VariantsOf(d)
      BY <2>5, <2>6, ImagesAreKnown DEF ImagesAreKnown, VariantsOf
    <2> QED BY <2>1, <2>4, <2>7, <2>8, <2>9 DEF IsImageOf
  <1> QED BY <1>5, <1>6

\* What is in a record that a step changes.
LEMMA ToolFacts ==
    ASSUME AdmissionInv
    PROVE  /\ IsTool(tool) /\ submitted \subseteq Digests
           /\ tool.step # "idle" =>
                 tool.digest \in submitted /\ tool.digest \in Digests /\ tool.exit = "none"
  BY DEF AdmissionInv, ToolOK, IsTool, CacheOK

LEMMA MeasureKeeps ==
    ASSUME AdmissionInv, NEW d \in submitted, NEW official \in BOOLEAN, Measure(d, official)
    PROVE  AdmissionInv'
  <1>1. PICK f : f = [BlankTool EXCEPT !.step = "layout", !.digest = d, !.official = official]
    OBVIOUS
  <1>2. IsTool(f) /\ f.exit = "none"
    BY <1>1 DEF BlankTool, IsTool, Fields, Measuring, Fresh
  <1>3. Step(f)
    BY <1>1 DEF Measure
  <1> QED BY <1>2, <1>3, StepKeeps

LEMMA SelectManifestKeeps == ASSUME AdmissionInv, SelectManifest PROVE AdmissionInv'
  <1>1. CASE Stop(Infra)
    BY <1>1, StopKeeps DEF Infra, Rejected
  <1>2. CASE \E b \in Selected(tool.digest) :
                 Step([tool EXCEPT !.step = "config", !.manifest = b, !.document = held[b]])
    <2>1. PICK b \in Selected(tool.digest) :
                 Step([tool EXCEPT !.step = "config", !.manifest = b, !.document = held[b]])
      BY <1>2
    <2>2. PICK f : f = [tool EXCEPT !.step = "config", !.manifest = b, !.document = held[b]]
      OBVIOUS
    <2>3. tool.step = "layout" /\ DOMAIN tool = Fields /\ Fresh(tool)
      BY ToolFacts DEF SelectManifest, IsTool
    <2>4. tool.digest \in submitted /\ tool.digest \in Digests /\ tool.exit = "none"
      BY <2>3, ToolFacts
    <2>5. /\ DOMAIN f = Fields /\ f.step = "config" /\ f.manifest = b /\ f.document = b
          /\ f.digest = tool.digest /\ f.exit = "none" /\ Fresh(f)
      BY <2>2, <2>3, <2>4, SelectedIs DEF Fields, Fresh
    <2>6. b[1] # "manifest" \/ \E v \in Variants : b = ManifestOf(v) /\ IsImageOf(f.digest, v)
      BY <2>4, <2>5, SelectedIs
    <2>7. IsTool(f)
      BY <2>4, <2>5, <2>6 DEF IsTool, Reads, Measuring
    <2> QED BY <2>1, <2>2, <2>5, <2>7, StepKeeps
  <1> QED BY <1>1, <1>2 DEF SelectManifest

\* The image of a digest is in one of its descriptors, under the official label if
\* the digest names an index.
LEMMA ImageIsNamed ==
    ASSUME NEW d \in Digests, NEW v, IsImageOf(d, v)
    PROVE  \E e \in Image[d].descriptors :
              e.variant = v /\ (Image[d].index => e.label = Official)
  <1>1. CASE Image[d].index
    <2>1. v \in OfficialOf(d)
      BY <1>1 DEF IsImageOf
    <2> QED BY <1>1, <2>1 DEF OfficialOf
  <1>2. CASE ~Image[d].index
    BY <1>2 DEF IsImageOf, VariantsOf
  <1> QED BY <1>1, <1>2

\* An image for the official platform that deserves it is a reason to reject.
LEMMA DeservedBlame ==
    ASSUME NEW d \in Digests, NEW v, IsImageOf(d, v), Deserves(v),
           Variant[v].platform = Official
    PROVE  Blamed(d)
  BY ImageIsNamed DEF Blamed

LEMMA ReadConfigKeeps == ASSUME AdmissionInv, ReadConfig PROVE AdmissionInv'
  <1>1. /\ tool.step = "config" /\ DOMAIN tool = Fields /\ Fresh(tool)
        /\ tool.digest \in submitted /\ tool.digest \in Digests /\ tool.exit = "none"
    BY ToolFacts DEF ReadConfig, IsTool
  <1>2. CASE Stop(Infra)
    BY <1>2, StopKeeps DEF Infra, Rejected
  <1>3. ASSUME tool.document[1] = "manifest", Intact(ConfigOf(tool.document[2])),
               NEW config, config = held[ConfigOf(tool.document[2])][2],
               Variant[config].platform = Official,
               \/ Variant[config].volumes /\ Stop(Rejected)
               \/ ~Variant[config].volumes /\ Step([tool EXCEPT !.step = "layers"])
        PROVE  AdmissionInv'
    <2>1. PICK v \in Variants : Reads(tool, v)
      BY <1>1, <1>3, ToolFacts DEF IsTool
    <2>2. config = v
      BY <1>3, <2>1, BlobsDiffer DEF Reads, Intact
    <2>3. CASE Variant[config].volumes /\ Stop(Rejected)
      <3>1. Blamed(tool.digest)
        BY <1>1, <1>3, <2>1, <2>2, <2>3, DeservedBlame DEF Reads, Deserves
      <3> QED BY <2>3, <3>1, StopKeeps DEF Rejected
    <2>4. CASE ~Variant[config].volumes /\ Step([tool EXCEPT !.step = "layers"])
      <3>1. PICK f : f = [tool EXCEPT !.step = "layers"]
        OBVIOUS
      <3>2. /\ DOMAIN f = Fields /\ f.step = "layers" /\ f.exit = "none" /\ Fresh(f)
            /\ f.digest = tool.digest /\ f.manifest = tool.manifest
            /\ f.document = tool.document
        BY <1>1, <3>1 DEF Fields, Fresh
      <3>3. Reads(f, v) /\ IsFit(v)
        BY <1>3, <2>1, <2>2, <2>4, <3>2 DEF Reads, IsFit
      <3>4. /\ Upto(Sizes(v), 0) = 0 /\ Upto(Declared(v), 0) = 0
            /\ Upto(Variant[v].files, 0) = 0
        BY UptoZero
      <3>5. MaxCompressed \in Nat /\ MaxRootfs \in Nat /\ MaxStream \in Nat /\ MaxMembers \in Nat
        BY ImagesAreKnown DEF ImagesAreKnown
      <3>6. LayersRead(f, v)
        BY <3>2, <3>4, <3>5, VariantFacts DEF LayersRead, Fresh
      <3>7. MembersRead(f, v)
        <4>1. Len(Variant[v].files) \in Nat
          BY VariantFacts
        <4> QED BY <3>2, <3>4, <3>5, <4>1 DEF MembersRead, Fresh
      <3>8. IsTool(f)
        BY <1>1, <3>2, <3>3, <3>6, <3>7 DEF IsTool, Knows, Measuring
      <3> QED BY <2>4, <3>1, <3>2, <3>8, StepKeeps
    <2> QED BY <1>3, <2>3, <2>4
  <1> QED BY <1>2, <1>3 DEF ReadConfig

\* While it measures, the program knows one image of the digest.
LEMMA KnowsImage ==
    ASSUME AdmissionInv, tool.step \in Measuring
    PROVE  /\ \E v \in Variants : Knows(tool, v)
           /\ DOMAIN tool = Fields /\ tool.exit = "none"
           /\ tool.digest \in submitted /\ tool.digest \in Digests
  BY ToolFacts DEF IsTool, Measuring

LEMMA ReadLayerKeeps == ASSUME AdmissionInv, ReadLayer PROVE AdmissionInv'
  <1>1. tool.step = "layers" /\ tool.step \in Measuring
    BY DEF ReadLayer, Measuring
  <1>2. PICK v \in Variants : Knows(tool, v)
    BY <1>1, KnowsImage
  <1>3. /\ DOMAIN tool = Fields /\ tool.exit = "none"
        /\ tool.digest \in submitted /\ tool.digest \in Digests
    BY <1>1, KnowsImage
  <1>4. PICK layers, n : layers = Variant[v].layers /\ n = tool.layer
    OBVIOUS
  <1>5. tool.document = ManifestOf(v) /\ tool.document[2] = v
    BY <1>2, BlobsDiffer DEF Knows, Reads
  <1>6. /\ n \in 1..(Len(layers) + 1) /\ Len(layers) \in Nat
        /\ tool.total = Upto(Sizes(v), n - 1) /\ tool.total = Upto(Declared(v), n - 1)
        /\ tool.total <= MaxCompressed
    BY <1>2, <1>4, VariantFacts DEF Knows, LayersRead
  <1>7. CASE n > Len(layers)
    <2>1. Step([tool EXCEPT !.step = "inspect"])
      BY <1>4, <1>5, <1>7 DEF ReadLayer
    <2>2. PICK f : f = [tool EXCEPT !.step = "inspect"]
      OBVIOUS
    <2>3. /\ DOMAIN f = Fields /\ f.step = "inspect" /\ f.exit = "none"
          /\ f.digest = tool.digest /\ f.manifest = tool.manifest
          /\ f.document = tool.document /\ f.layer = tool.layer /\ f.total = tool.total
          /\ f.member = tool.member /\ f.apparent = tool.apparent /\ f.stream = tool.stream
      BY <1>3, <2>2 DEF Fields
    <2>4. LayersRead(f, v)
      BY <1>4, <1>6, <1>7, <2>3 DEF LayersRead
    <2>5. MembersRead(f, v)
      BY <1>2, <2>3 DEF Knows, MembersRead
    <2>6. Reads(f, v) /\ IsFit(v)
      BY <1>2, <2>3 DEF Knows, Reads
    <2>7. IsTool(f)
      BY <1>3, <2>3, <2>4, <2>5, <2>6 DEF IsTool, Knows, Measuring
    <2> QED BY <2>1, <2>2, <2>3, <2>7, StepKeeps
  <1>8. CASE n <= Len(layers)
    <2>1. PICK m \in Nat : n = m + 1
      BY <1>6
    <2>2. /\ m < Len(layers) /\ n \in 1..Len(layers) /\ n - 1 = m
          /\ Sizes(v) \in Seq(Nat) /\ Declared(v) \in Seq(Nat)
          /\ Len(Sizes(v)) = Len(layers) /\ Len(Declared(v)) = Len(layers)
          /\ Sizes(v)[n] = layers[n].size /\ Declared(v)[n] = layers[n].declared
          /\ layers[n].size \in Nat /\ layers[n].declared \in Nat
      BY <1>4, <1>6, <1>8, <2>1, VariantFacts
    <2>3. /\ Upto(Declared(v), n) = Upto(Declared(v), m) + Declared(v)[n]
          /\ Upto(Declared(v), n) \in Nat
      BY <2>1, <2>2, UptoNext
    <2>4. Upto(Sizes(v), n) = Upto(Sizes(v), m) + Sizes(v)[n]
      BY <2>1, <2>2, UptoNext
    <2>5. PICK reached : reached = tool.total + layers[n].declared
      OBVIOUS
    <2>6. reached = Upto(Declared(v), n)
      BY <1>6, <2>2, <2>3, <2>5
    <2>7. \/ reached > MaxCompressed /\ Stop(Rejected)
          \/ /\ reached <= MaxCompressed /\ layers[n].size = layers[n].declared
             /\ Step([tool EXCEPT !.layer = @ + 1, !.total = reached])
          \/ Stop(Infra)
      <3>1. MaxCompressed \in Nat /\ reached \in Nat
        BY <2>3, <2>6, ImagesAreKnown DEF ImagesAreKnown
      <3>2. SizeIs(<<"layer", v, tool.layer>>, layers[n].declared)
                => layers[n].size = layers[n].declared
        BY <1>4 DEF SizeIs
      <3> QED BY <1>4, <1>5, <1>8, <2>5, <3>1, <3>2, <1>6 DEF ReadLayer
    <2>8. CASE reached > MaxCompressed /\ Stop(Rejected)
      <3>1. Upto(Declared(v), n) <= Total(Declared(v)) /\ Total(Declared(v)) \in Nat
        BY <1>6, <1>8, <2>2, UptoBelow
      <3>2. Total(Declared(v)) > MaxCompressed
        BY <2>3, <2>6, <2>8, <3>1, ImagesAreKnown DEF ImagesAreKnown
      <3>3. Deserves(v)
        BY <3>2 DEF Deserves, Declared
      <3>4. Blamed(tool.digest)
        BY <1>2, <1>3, <3>3, DeservedBlame DEF Knows, Reads, IsFit
      <3> QED BY <2>8, <3>4, StopKeeps DEF Rejected
    <2>9. CASE /\ reached <= MaxCompressed /\ layers[n].size = layers[n].declared
               /\ Step([tool EXCEPT !.layer = @ + 1, !.total = reached])
      <3>1. PICK f : f = [tool EXCEPT !.layer = @ + 1, !.total = reached]
        OBVIOUS
      <3>2. /\ DOMAIN f = Fields /\ f.step = "layers" /\ f.exit = "none"
            /\ f.digest = tool.digest /\ f.manifest = tool.manifest
            /\ f.document = tool.document /\ f.layer = tool.layer + 1 /\ f.total = reached
            /\ f.member = tool.member /\ f.apparent = tool.apparent
            /\ f.stream = tool.stream
        BY <1>1, <1>3, <3>1 DEF Fields
      <3>3. /\ f.layer \in 1..(Len(layers) + 1) /\ f.layer - 1 = n
        BY <1>4, <1>6, <1>8, <3>2
      <3>4. reached = Upto(Sizes(v), n)
        BY <1>6, <2>2, <2>3, <2>4, <2>5, <2>9
      <3>5. LayersRead(f, v)
        BY <1>4, <2>6, <2>9, <3>2, <3>3, <3>4 DEF LayersRead
      <3>6. MembersRead(f, v)
        BY <1>1, <1>2, <3>2 DEF Knows, MembersRead
      <3>7. Reads(f, v) /\ IsFit(v)
        BY <1>2, <3>2 DEF Knows, Reads
      <3>8. IsTool(f)
        BY <1>3, <3>2, <3>5, <3>6, <3>7 DEF IsTool, Knows, Measuring
      <3> QED BY <2>9, <3>1, <3>2, <3>8, StepKeeps
    <2>10. CASE Stop(Infra)
      BY <2>10, StopKeeps DEF Infra, Rejected
    <2> QED BY <2>7, <2>8, <2>9, <2>10
  <1> QED BY <1>6, <1>7, <1>8

\* What Docker starts for a digest is the image that the digest names.
LEMMA StartedIs ==
    ASSUME CacheOK, NEW d \in submitted, NEW v, IsImageOf(d, v), NEW w \in Startable(d)
    PROVE  w = v
  <1>1. engine \in Engines /\ d \in Digests /\ w \in store[d] /\ w \in VariantsOf(d)
    BY DEF CacheOK, Startable
  <1>2. PICK e \in Image[d].descriptors : e.variant = w
    BY <1>1 DEF VariantsOf
  <1>3. CASE ~Image[d].index
    BY <1>1, <1>3 DEF IsImageOf
  <1>4. CASE Image[d].index
    <2>1. OfficialOf(d) = {v}
      BY <1>4 DEF IsImageOf
    <2>2. w \in OfficialOf(d)
      <3>1. CASE engine.many
        BY <3>1 DEF Startable, OfficialOf
      <3>2. CASE ~engine.many
        <4>1. Variant[e.variant].platform = Official
          BY <1>2, <3>2 DEF Startable
        <4>2. e.label = Official
          BY <1>1, <1>4, <3>2, <4>1, LabelsAreTrue DEF LabelsAreTrue
        <4> QED BY <1>2, <4>2 DEF OfficialOf
      <3> QED BY <3>1, <3>2
    <2> QED BY <2>1, <2>2
  <1> QED BY <1>3, <1>4

\* A volume of an image that inspect answers with is a reason to reject.
LEMMA FoundBlame ==
    ASSUME CacheOK, NEW d \in submitted, NEW w \in Found(d), Answer(w).volumes
    PROVE  Blamed(d)
  <1>1. w \in VariantsOf(d) /\ Variant[w].volumes
    BY DEF CacheOK, Found, Answer
  <1>2. CASE engine.selects
    <2>1. PICK e \in Image[d].descriptors : e.variant = w /\ e.label = Official
      BY <1>2 DEF Found
    <2> QED BY <1>1, <2>1 DEF Blamed, Deserves
  <1>3. CASE ~engine.selects
    BY <1>1, <1>3 DEF Blamed, VariantsOf
  <1> QED BY <1>2, <1>3

LEMMA InspectLocalKeeps == ASSUME AdmissionInv, InspectLocal PROVE AdmissionInv'
  <1>1. tool.step = "inspect" /\ tool.step \in Measuring
    BY DEF InspectLocal, Measuring
  <1>2. PICK v \in Variants : Knows(tool, v)
    BY <1>1, KnowsImage
  <1>3. /\ DOMAIN tool = Fields /\ tool.exit = "none" /\ tool.digest \in submitted
    BY <1>1, KnowsImage
  <1>4. CASE Stop(Infra)
    BY <1>4, StopKeeps DEF Infra, Rejected
  <1>5. ASSUME NEW w \in Inspectable(tool), Answer(w).volumes, Stop(Rejected)
        PROVE  AdmissionInv'
    <2>1. tool.official => Blamed(tool.digest)
      <3>1. CacheOK
        BY DEF AdmissionInv
      <3> QED BY <1>3, <1>5, <3>1, FoundBlame DEF Inspectable
    <2> QED BY <1>5, <2>1, StopKeeps DEF Rejected
  <1>6. ASSUME NEW w \in Inspectable(tool), Answer(w).id \in Names(tool),
               Step([tool EXCEPT !.step = "create", !.id = Answer(w).id])
        PROVE  AdmissionInv'
    <2>1. PICK f : f = [tool EXCEPT !.step = "create", !.id = Answer(w).id]
      OBVIOUS
    <2>2. /\ DOMAIN f = Fields /\ f.step = "create" /\ f.exit = "none"
          /\ f.digest = tool.digest /\ f.manifest = tool.manifest
          /\ f.document = tool.document /\ f.layer = tool.layer /\ f.total = tool.total
          /\ f.member = tool.member /\ f.apparent = tool.apparent /\ f.stream = tool.stream
          /\ f.official = tool.official /\ f.id = Answer(w).id
      BY <1>3, <2>1 DEF Fields
    <2>3. LayersRead(f, v)
      BY <1>1, <1>2, <2>2 DEF Knows, LayersRead
    <2>4. MembersRead(f, v)
      BY <1>1, <1>2, <2>2 DEF Knows, MembersRead
    <2>5. Reads(f, v) /\ IsFit(v)
      BY <1>2, <2>2 DEF Knows, Reads
    <2>6. ~f.official => f.id = ConfigOf(v)
      <3>1. tool.document[2] = v
        BY <1>2, BlobsDiffer DEF Knows, Reads
      <3> QED BY <1>6, <2>2, <3>1 DEF Names
    <2>7. IsTool(f)
      BY <1>3, <2>2, <2>3, <2>4, <2>5, <2>6 DEF IsTool, Knows, Measuring
    <2> QED BY <1>6, <2>1, <2>2, <2>7, StepKeeps
  <1> QED BY <1>4, <1>5, <1>6 DEF InspectLocal

LEMMA CreateKeeps == ASSUME AdmissionInv, Create PROVE AdmissionInv'
  <1>1. tool.step = "create" /\ tool.step \in Measuring
    BY DEF Create, Measuring
  <1>2. PICK v \in Variants : Knows(tool, v)
    BY <1>1, KnowsImage
  <1>3. /\ DOMAIN tool = Fields /\ tool.exit = "none" /\ tool.digest \in submitted
    BY <1>1, KnowsImage
  <1>4. CASE Stop(Infra)
    BY <1>4, StopKeeps DEF Infra, Rejected
  <1>5. ASSUME NEW w, tool.official => w \in Startable(tool.digest),
               ~tool.official => ConfigOf(w) = tool.id,
               Step([tool EXCEPT !.step = "export", !.container = w])
        PROVE  AdmissionInv'
    <2>1. w = v
      <3>1. CASE tool.official
        <4>1. CacheOK /\ IsImageOf(tool.digest, v)
          BY <1>2 DEF AdmissionInv, Knows, Reads
        <4> QED BY <1>3, <1>5, <3>1, <4>1, StartedIs
      <3>2. CASE ~tool.official
        BY <1>1, <1>2, <1>5, <3>2, BlobsDiffer DEF Knows
      <3> QED BY <3>1, <3>2
    <2>2. PICK f : f = [tool EXCEPT !.step = "export", !.container = w]
      OBVIOUS
    <2>3. /\ DOMAIN f = Fields /\ f.step = "export" /\ f.exit = "none"
          /\ f.digest = tool.digest /\ f.manifest = tool.manifest
          /\ f.document = tool.document /\ f.layer = tool.layer /\ f.total = tool.total
          /\ f.member = tool.member /\ f.apparent = tool.apparent /\ f.stream = tool.stream
          /\ f.official = tool.official /\ f.id = tool.id /\ f.container = v
      BY <1>3, <2>1, <2>2 DEF Fields
    <2>4. LayersRead(f, v)
      BY <1>1, <1>2, <2>3 DEF Knows, LayersRead
    <2>5. MembersRead(f, v)
      BY <1>1, <1>2, <2>3 DEF Knows, MembersRead
    <2>6. Reads(f, v) /\ IsFit(v) /\ (~f.official => f.id = ConfigOf(v))
      BY <1>1, <1>2, <2>3 DEF Knows, Reads
    <2>7. IsTool(f)
      BY <1>3, <2>3, <2>4, <2>5, <2>6 DEF IsTool, Knows, Measuring
    <2> QED BY <1>5, <2>2, <2>3, <2>7, StepKeeps
  <1>6. ASSUME ~Stop(Infra)
        PROVE  \E w \in IF tool.official THEN Startable(tool.digest)
                        ELSE { u \in Inspectable(tool) : ConfigOf(u) = tool.id } :
                  Step([tool EXCEPT !.step = "export", !.container = w])
    BY <1>6 DEF Create
  <1> QED BY <1>4, <1>5, <1>6

LEMMA ReadMemberKeeps == ASSUME AdmissionInv, ReadMember PROVE AdmissionInv'
  <1>1. tool.step = "export" /\ tool.step \in Measuring
    BY DEF ReadMember, Measuring
  <1>2. PICK v \in Variants : Knows(tool, v)
    BY <1>1, KnowsImage
  <1>3. /\ DOMAIN tool = Fields /\ tool.exit = "none"
        /\ tool.digest \in submitted /\ tool.digest \in Digests
    BY <1>1, KnowsImage
  <1>4. PICK files, n : files = Variant[v].files /\ n = tool.member
    OBVIOUS
  <1>5. /\ tool.container = v /\ Members = files
        /\ n \in 1..(Len(files) + 1) /\ tool.apparent = Upto(files, n - 1)
        /\ tool.stream = tool.apparent + (n - 1) /\ n <= Len(files)
        /\ files \in Seq(Nat) /\ Len(files) \in Nat
    <2>1. tool.container = v
      BY <1>1, <1>2 DEF Knows, MembersRead
    <2>2. Members = files
      BY <1>4, <2>1 DEF Members
    <2> QED BY <1>1, <1>2, <1>4, <2>1, <2>2, VariantFacts DEF Knows, MembersRead, ReadMember
  <1>6. PICK m \in Nat : n = m + 1 /\ m = n - 1 /\ m < Len(files)
    BY <1>5
  <1>7. /\ Upto(files, m) \in Nat /\ Upto(files, n) \in Nat /\ files[n] \in Nat
        /\ Upto(files, n) = Upto(files, m) + files[n]
    BY <1>5, <1>6, UptoNext
  <1>8. Upto(files, n) <= Total(files) /\ Upto(files, m) <= Total(files) /\ Total(files) \in Nat
    BY <1>5, <1>6, UptoBelow
  <1>9. PICK apparent, stream : /\ apparent = tool.apparent + files[n]
                                /\ stream = tool.stream + 1 + files[n]
    OBVIOUS
  <1>10. /\ apparent = Upto(files, n) /\ stream = apparent + n
         /\ tool.stream + 1 = Upto(files, m) + n
    <2>1. PICK x, y, z : x = Upto(files, m) /\ y = Upto(files, n) /\ z = files[n]
      OBVIOUS
    <2>2. x \in Nat /\ y \in Nat /\ z \in Nat /\ y = x + z
      BY <1>7, <2>1
    <2>3. tool.apparent = x /\ tool.stream = x + m
      BY <1>5, <1>6, <2>1
    <2>4. apparent = y /\ stream = y + n /\ tool.stream + 1 = x + n
      <3>1. apparent = x + z /\ stream = x + m + 1 + z /\ tool.stream + 1 = x + m + 1
        BY <1>9, <2>1, <2>3
      <3> QED BY <1>6, <2>2, <3>1
    <2> QED BY <2>1, <2>4
  <1>11. MaxRootfs \in Nat /\ MaxStream \in Nat /\ MaxMembers \in Nat
    BY ImagesAreKnown DEF ImagesAreKnown
  <1>12. CASE /\ \/ tool.stream + 1 > MaxStream \/ n > MaxMembers
                 \/ apparent > MaxRootfs \/ stream > MaxStream
              /\ AfterCleanup(Rejected)
    <2>1. RootfsOf(v) = Total(files) /\ StreamOf(v) = Total(files) + Len(files)
      BY <1>4 DEF RootfsOf, StreamOf
    <2>2. PICK T, k : T = Total(files) /\ k = Len(files)
      OBVIOUS
    <2>3. T + k > MaxStream \/ T > MaxRootfs \/ k > MaxMembers
      <3>1. PICK x, y : x = Upto(files, m) /\ y = Upto(files, n)
        OBVIOUS
      <3>2. x \in Nat /\ y \in Nat /\ T \in Nat /\ k \in Nat /\ x <= T /\ y <= T /\ n <= k
        BY <1>5, <1>7, <1>8, <2>2, <3>1
      <3>3. x + n > MaxStream \/ n > MaxMembers \/ y > MaxRootfs \/ y + n > MaxStream
        BY <1>10, <1>12, <3>1
      <3> QED BY <1>6, <1>11, <3>2, <3>3
    <2>4. ~Fits(v)
      BY <1>4, <1>5, <1>8, <1>11, <2>1, <2>2, <2>3 DEF Fits
    <2>5. Blamed(tool.digest)
      BY <1>2, <1>3, <2>4, DeservedBlame DEF Knows, Reads, IsFit, Deserves
    <2>6. Stop(Rejected) \/ Stop(Infra)
      BY <1>12 DEF AfterCleanup
    <2> QED BY <2>5, <2>6, StopKeeps DEF Infra, Rejected
  <1>13. CASE /\ tool.stream + 1 <= MaxStream /\ n <= MaxMembers
              /\ apparent <= MaxRootfs /\ stream <= MaxStream
              /\ Step([tool EXCEPT !.member = @ + 1, !.apparent = apparent, !.stream = stream])
    <2>1. PICK f : f = [tool EXCEPT !.member = @ + 1, !.apparent = apparent,
                                    !.stream = stream]
      OBVIOUS
    <2>2. /\ DOMAIN f = Fields /\ f.step = "export" /\ f.exit = "none"
          /\ f.digest = tool.digest /\ f.manifest = tool.manifest
          /\ f.document = tool.document /\ f.layer = tool.layer /\ f.total = tool.total
          /\ f.member = n + 1 /\ f.apparent = apparent /\ f.stream = stream
          /\ f.official = tool.official /\ f.id = tool.id /\ f.container = tool.container
      BY <1>1, <1>3, <1>4, <2>1 DEF Fields
    <2>3. LayersRead(f, v)
      BY <1>1, <1>2, <2>2 DEF Knows, LayersRead
    <2>4. MembersRead(f, v)
      <3>1. f.member \in 1..(Len(files) + 1) /\ f.member - 1 = n
        <4>1. PICK k : k = Len(files) /\ k \in Nat
          BY <1>5
        <4>2. n \in Nat /\ n <= k
          BY <1>5, <1>6, <4>1
        <4>3. n + 1 \in 1..(k + 1) /\ (n + 1) - 1 = n
          BY <4>1, <4>2
        <4> QED BY <2>2, <4>1, <4>3
      <3>2. f.container = v /\ f.step = "export" /\ f.apparent = Upto(files, n)
        BY <1>5, <1>10, <2>2
      <3>3. /\ f.apparent <= MaxRootfs /\ f.stream = f.apparent + n
            /\ f.stream <= MaxStream /\ n <= MaxMembers
        BY <1>10, <1>13, <2>2
      <3> QED BY <1>4, <3>1, <3>2, <3>3 DEF MembersRead
    <2>5. Reads(f, v) /\ IsFit(v) /\ (~f.official => f.id = ConfigOf(v))
      BY <1>1, <1>2, <2>2 DEF Knows, Reads
    <2>6. IsTool(f)
      BY <1>3, <2>2, <2>3, <2>4, <2>5 DEF IsTool, Knows, Measuring
    <2> QED BY <1>13, <2>1, <2>2, <2>6, StepKeeps
  <1>14. \/ /\ \/ tool.stream + 1 > MaxStream \/ n > MaxMembers
               \/ apparent > MaxRootfs \/ stream > MaxStream
            /\ AfterCleanup(Rejected)
         \/ /\ ~(\/ tool.stream + 1 > MaxStream \/ n > MaxMembers
                 \/ apparent > MaxRootfs \/ stream > MaxStream)
            /\ Step([tool EXCEPT !.member = @ + 1, !.apparent = apparent, !.stream = stream])
    BY <1>4, <1>5, <1>9 DEF ReadMember
  <1>15. \/ tool.stream + 1 > MaxStream \/ n > MaxMembers
         \/ apparent > MaxRootfs \/ stream > MaxStream
         \/ /\ tool.stream + 1 <= MaxStream /\ n <= MaxMembers
            /\ apparent <= MaxRootfs /\ stream <= MaxStream
    BY <1>6, <1>7, <1>10, <1>11
  <1> QED BY <1>12, <1>13, <1>14, <1>15

LEMMA EndExportKeeps == ASSUME AdmissionInv, EndExport PROVE AdmissionInv'
  <1>1. tool.step = "export" /\ tool.step \in Measuring
    BY DEF EndExport, Measuring
  <1>2. PICK v \in Variants : Knows(tool, v)
    BY <1>1, KnowsImage
  <1>3. /\ DOMAIN tool = Fields /\ tool.exit = "none" /\ tool.digest \in submitted
    BY <1>1, KnowsImage
  <1>4. CASE Stop(Infra)
    BY <1>4, StopKeeps DEF Infra, Rejected
  <1>5. CASE 0 \in ExportCode /\ Step([tool EXCEPT !.step = "validate"])
    <2>1. /\ tool.container = v /\ tool.member > Len(Variant[v].files)
          /\ tool.member \in 1..(Len(Variant[v].files) + 1) /\ Len(Variant[v].files) \in Nat
      BY <1>1, <1>2, <1>5, VariantFacts DEF Knows, MembersRead, ExportCode, Members
    <2>2. tool.member = Len(Variant[v].files) + 1
      <3>1. PICK k, n : k = Len(Variant[v].files) /\ n = tool.member
        OBVIOUS
      <3> QED BY <2>1, <3>1
    <2>3. PICK f : f = [tool EXCEPT !.step = "validate"]
      OBVIOUS
    <2>4. /\ DOMAIN f = Fields /\ f.step = "validate" /\ f.exit = "none"
          /\ f.digest = tool.digest /\ f.manifest = tool.manifest
          /\ f.document = tool.document /\ f.layer = tool.layer /\ f.total = tool.total
          /\ f.member = tool.member /\ f.apparent = tool.apparent /\ f.stream = tool.stream
          /\ f.official = tool.official /\ f.id = tool.id /\ f.container = tool.container
      BY <1>3, <2>3 DEF Fields
    <2>5. LayersRead(f, v)
      BY <1>1, <1>2, <2>4 DEF Knows, LayersRead
    <2>6. MembersRead(f, v)
      BY <1>1, <1>2, <2>2, <2>4 DEF Knows, MembersRead
    <2>7. Reads(f, v) /\ IsFit(v) /\ (~f.official => f.id = ConfigOf(v))
      BY <1>1, <1>2, <2>4 DEF Knows, Reads
    <2>8. IsTool(f)
      BY <1>3, <2>4, <2>5, <2>6, <2>7 DEF IsTool, Knows, Measuring
    <2> QED BY <1>5, <2>3, <2>4, <2>8, StepKeeps
  <1> QED BY <1>4, <1>5 DEF EndExport, Complete

\* What the whole measurement has found out.
LEMMA MeasuredAll ==
    ASSUME NEW t, NEW v \in Variants, Knows(t, v), t.step = "validate"
    PROVE  /\ t.total = CompressedOf(v) /\ t.total <= MaxCompressed
           /\ t.apparent = RootfsOf(v) /\ t.apparent <= MaxRootfs
           /\ Fits(v) /\ t.container = v
  <1>1. PICK k, n : k = Len(Variant[v].layers) /\ n = Len(Variant[v].files)
    OBVIOUS
  <1>2. k \in Nat /\ n \in Nat
    BY <1>1, VariantFacts
  <1>3. /\ t.layer = k + 1 /\ t.total = Upto(Sizes(v), t.layer - 1) /\ t.total <= MaxCompressed
        /\ t.member = n + 1 /\ t.apparent = Upto(Variant[v].files, t.member - 1)
        /\ t.apparent <= MaxRootfs /\ t.stream = t.apparent + (t.member - 1)
        /\ t.stream <= MaxStream /\ t.member - 1 <= MaxMembers /\ t.container = v
    BY <1>1 DEF Knows, LayersRead, MembersRead
  <1>4. t.layer - 1 = k /\ t.member - 1 = n
    BY <1>2, <1>3
  <1>5. t.total = Total(Sizes(v)) /\ t.apparent = Total(Variant[v].files)
    BY <1>1, <1>3, <1>4, VariantFacts, TotalIs
  <1>6. t.total = CompressedOf(v) /\ t.apparent = RootfsOf(v)
    BY <1>5 DEF CompressedOf, RootfsOf, Sizes
  <1>7. StreamOf(v) = t.stream /\ Len(Variant[v].files) <= MaxMembers
    BY <1>1, <1>3, <1>4, <1>6 DEF StreamOf
  <1> QED BY <1>3, <1>6, <1>7 DEF Fits

LEMMA ReportPreflightKeeps == ASSUME AdmissionInv, ReportPreflight PROVE AdmissionInv'
  <1>1. tool.step = "validate" /\ tool.step \in Measuring /\ ~tool.official
    BY DEF ReportPreflight, Measuring
  <1>2. PICK v \in Variants : Knows(tool, v)
    BY <1>1, KnowsImage
  <1>3. Fits(tool.container) /\ ~Variant[tool.container].volumes
    BY <1>1, <1>2, MeasuredAll DEF Knows, IsFit
  <1>4. Stop("failed") \/ Stop("passed")
    BY DEF ReportPreflight
  <1> QED BY <1>3, <1>4, StopKeeps DEF Rejected

\* A record of the true sizes of an image that fits is not over a limit.
LEMMA WithinLimits ==
    ASSUME NEW e, NEW v \in Variants, Fits(v),
           e.total = CompressedOf(v), e.rootfs = RootfsOf(v)
    PROVE  ~(e.total > MaxCompressed \/ e.rootfs > MaxRootfs)
  <1>1. CompressedOf(v) \in Nat /\ RootfsOf(v) \in Nat
    <2>1. Total(Sizes(v)) \in Nat /\ Total(Variant[v].files) \in Nat
      <3>1. PICK n, k : n = Len(Sizes(v)) /\ k = Len(Variant[v].files)
        OBVIOUS
      <3>2. n \in Nat /\ k \in Nat
        BY <3>1, VariantFacts
      <3> QED BY <3>1, <3>2, VariantFacts, UptoBelow
    <2> QED BY <2>1 DEF CompressedOf, RootfsOf, Sizes
  <1>2. MaxCompressed \in Nat /\ MaxRootfs \in Nat
    BY ImagesAreKnown DEF ImagesAreKnown
  <1> QED BY <1>1, <1>2 DEF Fits

\* A file is published once, with what was measured.
LEMMA PublishKeeps == ASSUME AdmissionInv, Publish PROVE AdmissionInv'
  <1>1. tool.step = "validate" /\ tool.step \in Measuring
    BY DEF Publish, Measuring
  <1>2. PICK v \in Variants : Knows(tool, v)
    BY <1>1, KnowsImage
  <1>3. tool.digest \in submitted
    BY <1>1, KnowsImage
  <1>4. PICK e : e = Measured(tool)
    OBVIOUS
  <1>5. IsTrue(e, v) /\ e.digest = tool.digest
    BY <1>1, <1>2, <1>4, MeasuredAll DEF Knows, Reads, IsTrue, Measured
  <1>6. CASE Stop(Infra)
    BY <1>6, StopKeeps DEF Infra, Rejected
  <1>7. PICK verdict : verdict = Verdict(e, tool.digest, tool.id, Official)
    OBVIOUS
  <1>8. verdict \in {Infra, "admitted"}
    <2>1. ~(e.total > MaxCompressed \/ e.rootfs > MaxRootfs)
      BY <1>5, WithinLimits DEF IsTrue
    <2> QED BY <1>7, <2>1 DEF Verdict
  <1>9. ASSUME NEW code, code \in {"published", Infra}, Exit(code), evidence = {},
               evidence' = {e}, UNCHANGED <<layout, cache, evaluator, ran>>
        PROVE  AdmissionInv'
    <2>1. UNCHANGED <<submitted, engine, store, evaluator, ran>>
      BY <1>9 DEF cache
    <2>2. tool' = BlankTool
      BY <1>9 DEF Exit
    <2>3. CacheOK'
      BY <2>1 DEF AdmissionInv, CacheOK
    <2>4. ToolOK'
      BY <2>2 DEF BlankTool, ToolOK, IsTool, Fields, Measuring
    <2>5. EvidenceOK'
      <3>1. \A x \in evidence' : x = e
        BY <1>9
      <3> QED BY <1>3, <1>5, <2>1, <3>1 DEF EvidenceOK, IsTrue
    <2>6. EvaluatorOK'
      <3>1. EvaluatorOK
        BY DEF AdmissionInv
      <3>2. evaluator.step = "idle"
        BY <1>9, <3>1 DEF EvaluatorOK
      <3> QED BY <2>1, <3>1, <3>2 DEF EvaluatorOK
    <2>7. AdmittedFits'
      BY <2>1, <2>2 DEF AdmissionInv, AdmittedFits, BlankTool
    <2>8. RejectedForAReason'
      <3>1. evaluator.exit = Rejected => Blamed(evaluator.digest)
        BY DEF AdmissionInv, RejectedForAReason
      <3>2. tool'.exit # Rejected
        BY <2>2 DEF BlankTool, Rejected
      <3> QED BY <2>1, <3>1, <3>2, SameBlame DEF RejectedForAReason
    <2> QED BY <2>3, <2>4, <2>5, <2>6, <2>7, <2>8 DEF AdmissionInv
  <1>10. CASE verdict # "admitted" /\ Stop(verdict)
    BY <1>6, <1>8, <1>10
  <1> QED BY <1>4, <1>6, <1>7, <1>9, <1>10 DEF Publish
-----------------------------------------------------------------------------
(* The evaluation.                                                         *)

\* What is known of the evaluator.
LEMMA EvaluatorFacts ==
    ASSUME AdmissionInv
    PROVE  /\ EvaluatorOK /\ CacheOK
           /\ \A e \in evidence : \E v \in Variants : IsTrue(e, v)
  BY DEF AdmissionInv, EvidenceOK

LEMMA EvaluateKeeps ==
    ASSUME AdmissionInv, NEW d \in submitted, Evaluate(d)
    PROVE  AdmissionInv'
  <1>1. PICK e \in evidence :
           Turn([BlankEvaluator EXCEPT !.step = "resolve", !.digest = d, !.read = e])
    BY DEF Evaluate
  <1>2. PICK f : f = [BlankEvaluator EXCEPT !.step = "resolve", !.digest = d, !.read = e]
    OBVIOUS
  <1>3. /\ DOMAIN f = {"step", "digest", "read", "exit"} /\ f.step = "resolve"
        /\ f.digest = d /\ f.read = e /\ f.exit = "none"
    BY <1>2 DEF BlankEvaluator
  <1> QED BY <1>1, <1>2, <1>3, TurnKeeps

LEMMA ResolveKeeps == ASSUME AdmissionInv, ResolveSubmittedImage PROVE AdmissionInv'
  <1>1. /\ evaluator.step = "resolve" /\ evaluator.digest \in submitted
        /\ evaluator.exit = "none" /\ evaluator.read \in evidence
        /\ DOMAIN evaluator = {"step", "digest", "read", "exit"}
    BY EvaluatorFacts DEF ResolveSubmittedImage, EvaluatorOK
  <1>2. CASE Conclude(Infra)
    BY <1>2, ConcludeKeeps DEF Infra, Rejected
  <1>3. ASSUME NEW w \in Found(evaluator.digest), Answer(w).volumes, Conclude(Rejected)
        PROVE  AdmissionInv'
    BY <1>1, <1>3, EvaluatorFacts, FoundBlame, ConcludeKeeps
  <1>4. ASSUME NEW id, NEW platform, NEW verdict,
               verdict = Verdict(evaluator.read, evaluator.digest, id, platform),
               \/ verdict # "admitted" /\ Conclude(verdict)
               \/ /\ verdict = "admitted"
                  /\ Turn([evaluator EXCEPT !.step = "attempt", !.read = Nothing])
        PROVE  AdmissionInv'
    <2>1. PICK v \in Variants : IsTrue(evaluator.read, v)
      BY <1>1, EvaluatorFacts
    <2>2. ~(evaluator.read.total > MaxCompressed \/ evaluator.read.rootfs > MaxRootfs)
      BY <2>1, WithinLimits DEF IsTrue
    <2>3. /\ verdict \in {Infra, "admitted"}
          /\ verdict = "admitted" => evaluator.read.digest = evaluator.digest
      BY <1>4, <2>2 DEF Verdict, Infra
    <2>4. CASE verdict # "admitted" /\ Conclude(verdict)
      BY <1>2, <2>3, <2>4
    <2>5. CASE /\ verdict = "admitted"
               /\ Turn([evaluator EXCEPT !.step = "attempt", !.read = Nothing])
      <3>1. PICK f : f = [evaluator EXCEPT !.step = "attempt", !.read = Nothing]
        OBVIOUS
      <3>2. /\ DOMAIN f = {"step", "digest", "read", "exit"} /\ f.step = "attempt"
            /\ f.digest = evaluator.digest /\ f.exit = "none"
        BY <1>1, <3>1
      <3>3. \E e \in evidence : e.digest = f.digest
        BY <1>1, <2>3, <2>5, <3>2
      <3> QED BY <1>1, <2>5, <3>1, <3>2, <3>3, TurnKeeps
    <2> QED BY <1>4, <2>4, <2>5
  <1>5. ASSUME NEW w \in Found(evaluator.digest),
               LET answer == Answer(w)
                   verdict == Verdict(evaluator.read, evaluator.digest, answer.id, answer.platform)
               IN IF answer.volumes THEN Conclude(Rejected)
                  ELSE IF verdict # "admitted" THEN Conclude(verdict)
                  ELSE Turn([evaluator EXCEPT !.step = "attempt", !.read = Nothing])
        PROVE  AdmissionInv'
    <2>1. PICK id, platform : id = Answer(w).id /\ platform = Answer(w).platform
      OBVIOUS
    <2>2. PICK verdict : verdict = Verdict(evaluator.read, evaluator.digest, id, platform)
      OBVIOUS
    <2>3. IF Answer(w).volumes THEN Conclude(Rejected)
          ELSE IF verdict # "admitted" THEN Conclude(verdict)
          ELSE Turn([evaluator EXCEPT !.step = "attempt", !.read = Nothing])
      BY <1>5, <2>1, <2>2
    <2> QED BY <1>3, <1>4, <2>2, <2>3
  <1> QED BY <1>2, <1>5 DEF ResolveSubmittedImage

LEMMA CheckAttemptKeeps == ASSUME AdmissionInv, CheckAttempt PROVE AdmissionInv'
  <1>1. /\ evaluator.step = "attempt" /\ evaluator.digest \in submitted
        /\ evaluator.exit = "none" /\ \E e \in evidence : e.digest = evaluator.digest
        /\ DOMAIN evaluator = {"step", "digest", "read", "exit"}
    BY EvaluatorFacts DEF CheckAttempt, EvaluatorOK
  <1>2. CASE Conclude("finished")
    BY <1>2, ConcludeKeeps DEF Rejected
  <1>3. ASSUME NEW w \in Found(evaluator.digest), Answer(w).volumes, Conclude(Rejected)
        PROVE  AdmissionInv'
    BY <1>1, <1>3, EvaluatorFacts, FoundBlame, ConcludeKeeps
  <1>4. CASE Turn([evaluator EXCEPT !.step = "run"])
    <2>1. PICK f : f = [evaluator EXCEPT !.step = "run"]
      OBVIOUS
    <2>2. /\ DOMAIN f = {"step", "digest", "read", "exit"} /\ f.step = "run"
          /\ f.digest = evaluator.digest /\ f.exit = "none"
      BY <1>1, <2>1
    <2> QED BY <1>1, <1>4, <2>1, <2>2, TurnKeeps
  <1> QED BY <1>2, <1>3, <1>4 DEF CheckAttempt

LEMMA RunAttemptKeeps == ASSUME AdmissionInv, RunAttempt PROVE AdmissionInv'
  <1>1. /\ evaluator.step = "run" /\ evaluator.digest \in submitted
        /\ evaluator.exit = "none" /\ DOMAIN evaluator = {"step", "digest", "read", "exit"}
    BY EvaluatorFacts DEF RunAttempt, EvaluatorOK
  <1>2. PICK e \in evidence : e.digest = evaluator.digest
    BY <1>1, EvaluatorFacts DEF EvaluatorOK
  <1>3. PICK v \in Variants : IsTrue(e, v)
    BY EvaluatorFacts
  <1>4. UNCHANGED <<submitted, engine, store, tool, evidence>>
    BY DEF RunAttempt, cache
  <1>5. CacheOK' /\ ToolOK' /\ EvidenceOK'
    BY <1>4 DEF AdmissionInv, CacheOK, ToolOK, IsTool, EvidenceOK, IsTrue
  <1>6. /\ DOMAIN evaluator' = {"step", "digest", "read", "exit"}
        /\ evaluator'.step = "attempt" /\ evaluator'.digest = evaluator.digest
        /\ evaluator'.exit = "none"
    BY <1>1 DEF RunAttempt
  <1>7. EvaluatorOK'
    BY <1>1, <1>2, <1>4, <1>6 DEF EvaluatorOK
  <1>8. AdmittedFits'
    <2>1. AdmittedFits
      BY DEF AdmissionInv
    <2>2. \A w \in Startable(evaluator.digest) :
             Fits(w) /\ ~Variant[w].volumes /\ Variant[w].platform = Official
      <3>1. TAKE w \in Startable(evaluator.digest)
      <3>2. w = v
        BY <1>1, <1>2, <1>3, EvaluatorFacts, StartedIs DEF IsTrue
      <3> QED BY <1>3, <3>2 DEF IsTrue, IsFit
    <2>3. \/ ran' = ran
          \/ \E w \in Startable(evaluator.digest) : ran' = ran \cup {<<evaluator.digest, w>>}
      BY DEF RunAttempt
    <2>4. \A run \in ran' :
             Fits(run[2]) /\ ~Variant[run[2]].volumes /\ Variant[run[2]].platform = Official
      BY <2>1, <2>2, <2>3 DEF AdmittedFits
    <2> QED BY <1>4, <2>1, <2>4 DEF AdmittedFits
  <1>9. RejectedForAReason'
    <2>1. tool.exit = Rejected /\ tool.official => Blamed(tool.digest)
      BY DEF AdmissionInv, RejectedForAReason
    <2>2. evaluator'.exit # Rejected
      BY <1>6 DEF Rejected
    <2> QED BY <1>4, <2>1, <2>2, SameBlame DEF RejectedForAReason
  <1> QED BY <1>5, <1>7, <1>8, <1>9 DEF AdmissionInv
-----------------------------------------------------------------------------
(* Every step keeps the invariant, whatever happens outside.               *)

LEMMA AdmissionStep ==
    ASSUME AdmissionInv, [AdmissionNext]_admissionVars
    PROVE  AdmissionInv'
  <1>1. CASE Pull \/ ReplaceBlob \/ Relist
    BY <1>1, OutsideKeeps
  <1>2. ASSUME NEW d \in submitted, NEW official \in BOOLEAN, Measure(d, official)
        PROVE  AdmissionInv'
    BY <1>2, MeasureKeeps
  <1>3. CASE SelectManifest \/ ReadConfig \/ ReadLayer
    BY <1>3, SelectManifestKeeps, ReadConfigKeeps, ReadLayerKeeps
  <1>4. CASE InspectLocal \/ Create
    BY <1>4, InspectLocalKeeps, CreateKeeps
  <1>5. CASE ReadMember \/ EndExport
    BY <1>5, ReadMemberKeeps, EndExportKeeps
  <1>6. CASE Publish \/ ReportPreflight
    BY <1>6, PublishKeeps, ReportPreflightKeeps
  <1>7. ASSUME NEW d \in submitted, Evaluate(d) PROVE AdmissionInv'
    BY <1>7, EvaluateKeeps
  <1>8. CASE ResolveSubmittedImage \/ CheckAttempt \/ RunAttempt
    BY <1>8, ResolveKeeps, CheckAttemptKeeps, RunAttemptKeeps
  <1>9. CASE UNCHANGED admissionVars
    <2>1. UNCHANGED <<submitted, engine, store, tool, evidence, evaluator, ran>>
      BY <1>9 DEF admissionVars, cache, programs
    <2>2. CacheOK' /\ ToolOK' /\ EvidenceOK' /\ EvaluatorOK'
      BY <2>1 DEF AdmissionInv, CacheOK, ToolOK, IsTool, EvidenceOK, IsTrue, EvaluatorOK
    <2>3. AdmittedFits' /\ RejectedForAReason'
      BY <2>1, SameBlame DEF AdmissionInv, AdmittedFits, RejectedForAReason
    <2> QED BY <2>2, <2>3 DEF AdmissionInv
  <1> QED BY <1>1, <1>2, <1>3, <1>4, <1>5, <1>6, <1>7, <1>8, <1>9 DEF AdmissionNext

(* The invariant of the admission: the measuring program knows of one image,
   that of its digest, what its loops have added up so far; the evidence is
   true of an image that fits; the evaluator runs what the evidence is of. *)
THEOREM AdmissionInvariance == AdmissionSpec => []AdmissionInv
  <1>1. AdmissionInit => AdmissionInv
    BY AdmissionBegins
  <1>2. AdmissionInv /\ [AdmissionNext]_admissionVars => AdmissionInv'
    BY AdmissionStep
  <1> QED BY <1>1, <1>2, PTL DEF AdmissionSpec

(* Whatever images there are, however often the cache and the layout change
   while they are measured, a published evidence file has the real compressed
   size of the digest's one image for the official platform and the real size
   of its merged root filesystem (generate_image_size_evidence). *)
THEOREM EvidenceIsTrue == AdmissionSpec => []EvidenceTrue
  <1>1. AdmissionInv => EvidenceTrue
    BY DEF AdmissionInv, EvidenceOK, EvidenceTrue, IsTrue, IsImageOf, IsFit
  <1> QED BY <1>1, AdmissionInvariance, PTL

(* Every container the evaluator starts for an admitted digest, in every
   attempt, is of an image for the official platform without volumes and
   within every limit, and so is what a passed preflight ran
   (resolve_submitted_image, run_isolated_container_once). *)
THEOREM AdmittedImagesFit == AdmissionSpec => []AdmittedFits
  <1>1. AdmissionInv => AdmittedFits
    BY DEF AdmissionInv
  <1> QED BY <1>1, AdmissionInvariance, PTL

(* No image is rejected without the reason ENFORCEMENT.md asks for: a limit
   that the digest's image exceeds, or a declared volume (measure_image and
   resolve_submitted_image). *)
THEOREM RejectionsHaveReasons == AdmissionSpec => []RejectedForAReason
  <1>1. AdmissionInv => RejectedForAReason
    BY DEF AdmissionInv
  <1> QED BY <1>1, AdmissionInvariance, PTL

-----------------------------------------------------------------------------
(* A run: what the child wrote, and what is made of it.                    *)

Before == {"unlink", "launch"}
Looping == {"poll", "drain", "limits"}
Ending == {"terminate", "grace", "reap"}
Accepted == {"extract", "inspect", "hash", "load"}
Judging == {"judge"} \cup Accepted

\* What each place says of the child and of the way the run came there.
PlaceInv ==
    /\ pc \in Before => leader = "none" /\ mate = "none" /\ failure = "none"
    /\ leader = "none" => mate = "none" /\ pc \in Before \cup {"done"}
    /\ pc \in Looping => failure = "none"
    /\ pc \in Ending => failure # "none"
    /\ pc \in {"final"} \cup Judging /\ failure = "none" => ~LeaderAlive
    /\ pc \in Accepted => failure = "none" /\ leader = "ok"
    /\ pc \in {"reap", "final", "done"} \cup Judging => leader # "running"
    /\ pc \in Before \cup Looping \cup Ending => rounds = 0
    /\ pc = "final" => rounds < FinalRounds
    /\ pc # "done" => result = NoResult

\* Nothing of what was written is lost between the pipe and the capture.
PipeInv ==
    /\ \A s \in Streams : emitted[s] <= Counted(total[s] + pipe[s])
    /\ pc \notin Before /\ failure # "pipes" /\ leader # "none" =>
           \A s \in Streams : s \notin reading => pipe[s] = 0 /\ ~HasWriter

\* Each round of the final drain takes a chunk of what the child left, or all.
DrainInv ==
    /\ pc = "final" /\ failure = "none" =>
           \A s \in Streams :
               \/ emitted[s] <= total[s]
               \/ emitted[s] + rounds * Chunk <= total[s] + PipeCapacity
    /\ pc \in Judging /\ failure = "none" =>
           \A s \in Streams : emitted[s] <= total[s]
    /\ pc \in Accepted => \A s \in Streams : total[s] <= EmitLimit

\* Once the old file is gone, only the run and its descendants write.
FileInv ==
    /\ pc \notin {"unlink", "done"} => out # "stale"
    /\ volume # "stale"
    /\ pc \in {"hash", "load"} => out # "big" \/ late

IInv ==
    /\ TypeOK /\ PlaceInv /\ PipeInv /\ DrainInv /\ FileInv
    /\ EmissionCounted /\ ValidOutputIsOwn

-----------------------------------------------------------------------------
\* The small definitions, and the parts of the invariant.
USE DEF Places, Before, Looping, Ending, Accepted, Judging, Streams, Modes,
        Kinds, Written, Files, Failures, NoResult, At, Goto, Settle, Fails,
        LeaderAlive, HasWriter, Exceeded, childVars, pipeVars, fileVars,
        PlaceInv, FileInv, EmissionCounted, ValidOutputIsOwn

\* A count that stops above the limit still adds up: moving k of p waiting bytes
\* into the capture changes nothing, one byte more is one more at most.
LEMMA CountedBounds ==
    ASSUME NEW t \in Nat
    PROVE  /\ Counted(t) \in 0..EmitLimit + 1
           /\ Counted(t) <= t
           /\ Counted(t) <= Counted(t + 1)
BY RouterRunAssumption DEF Counted, Least

LEMMA CountedMove ==
    ASSUME NEW t \in Nat, NEW p \in Nat, NEW k \in 0..p
    PROVE  Counted(Counted(t + k) + (p - k)) = Counted(t + p)
BY RouterRunAssumption DEF Counted, Least

LEMMA CountedNext ==
    ASSUME NEW t \in Nat, NEW p \in Nat, NEW e \in Nat, e <= Counted(t + p)
    PROVE  Counted(e + 1) <= Counted(t + (p + 1))
BY RouterRunAssumption DEF Counted, Least

LEMMA InitInv ==
    ASSUME Init
    PROVE  IInv
<1>1. TypeOK
    <2>1. /\ pipe \in [Streams -> 0..PipeCapacity]
          /\ total \in [Streams -> 0..EmitLimit + 1]
          /\ emitted \in [Streams -> 0..EmitLimit + 1]
          /\ timer \in 0..RunTicks /\ rounds \in 0..FinalRounds
        BY RouterRunAssumption DEF Init
    <2>2. out \in Files
        BY DEF Init
    <2>3. QED
        BY <2>1, <2>2 DEF Init, TypeOK
<1>2. PlaceInv /\ DrainInv /\ FileInv
    BY RouterRunAssumption DEF Init, DrainInv
<1>3. PipeInv
    BY RouterRunAssumption DEF Init, PipeInv, Counted, Least
<1>4. QED
    BY <1>1, <1>2, <1>3 DEF Init, IInv

\* Steps that leave the pipes, the captures and the child alone.
LEMMA StillInv ==
    ASSUME IInv,
           UnlinkStale \/ Limits \/ Terminate \/ Reap \/ Extract
             \/ InspectOutput \/ HashOutput \/ LoadOutput \/ Tick
    PROVE  IInv'
<1>1. CASE UnlinkStale
    BY <1>1, RouterRunAssumption
    DEF IInv, TypeOK, PipeInv, DrainInv, UnlinkStale
<1>2. CASE Limits
    BY <1>2, RouterRunAssumption DEF IInv, TypeOK, PipeInv, DrainInv, Limits
<1>3. CASE Terminate
    BY <1>3, RouterRunAssumption
    DEF IInv, TypeOK, PipeInv, DrainInv, Terminate, Ended
<1>4. CASE Reap
    BY <1>4, RouterRunAssumption
    DEF IInv, TypeOK, PipeInv, DrainInv, Reap, Ended
<1>5. CASE Extract
    BY <1>5, RouterRunAssumption DEF IInv, TypeOK, PipeInv, DrainInv, Extract
<1>6. CASE InspectOutput
    BY <1>6, RouterRunAssumption
    DEF IInv, TypeOK, PipeInv, DrainInv, InspectOutput
<1>7. CASE HashOutput
    BY <1>7, RouterRunAssumption
    DEF IInv, TypeOK, PipeInv, DrainInv, HashOutput
<1>8. CASE LoadOutput
    BY <1>8, RouterRunAssumption
    DEF IInv, TypeOK, PipeInv, DrainInv, LoadOutput
<1>9. CASE Tick
    BY <1>9, RouterRunAssumption DEF IInv, TypeOK, PipeInv, DrainInv, Tick
<1>10. QED
    BY <1>1, <1>2, <1>3, <1>4, <1>5, <1>6, <1>7, <1>8, <1>9

LEMMA LaunchInv ==
    ASSUME IInv, Launch
    PROVE  IInv'
<1>1. TypeOK'
    <2>1. timer' = timer \/ timer' \in 0..RunTicks
        BY RouterRunAssumption DEF Launch
    <2>2. leader' \in {leader, "running"} /\ reading' \in {reading, Streams}
        BY DEF Launch
    <2>3. pc' \in Places /\ failure' \in {failure, "pipes"}
        BY DEF Launch
    <2>4. result' \in [kind : Kinds, file : Files]
        BY DEF IInv, TypeOK, Launch
    <2>5. QED
        BY <2>1, <2>2, <2>3, <2>4 DEF IInv, TypeOK, Launch
<1>2. PlaceInv' /\ DrainInv' /\ FileInv'
    BY DEF IInv, DrainInv, Launch
<1>3. PipeInv'
    BY DEF IInv, TypeOK, PipeInv, Launch
<1>4. QED
    BY <1>1, <1>2, <1>3 DEF IInv, Launch

\* The final drain starts with everything the child left in a pipe.
LEMMA PollInv ==
    ASSUME IInv, Poll
    PROVE  IInv'
<1>1. TypeOK' /\ PlaceInv' /\ PipeInv' /\ FileInv'
    BY RouterRunAssumption DEF IInv, TypeOK, PipeInv, Poll
<1>2. DrainInv'
    <2>1. rounds' = 0 /\ rounds' * Chunk = 0
        BY RouterRunAssumption DEF IInv, Poll
    <2>2. ASSUME NEW s \in Streams
          PROVE  emitted[s] <= total[s] + PipeCapacity
        <3>1. /\ emitted[s] \in Nat /\ total[s] \in Nat
              /\ pipe[s] \in 0..PipeCapacity /\ PipeCapacity \in Nat
              /\ emitted[s] <= Counted(total[s] + pipe[s])
            BY RouterRunAssumption DEF IInv, TypeOK, PipeInv
        <3>2. /\ Counted(total[s] + pipe[s]) <= total[s] + pipe[s]
              /\ Counted(total[s] + pipe[s]) \in Nat
            BY <3>1, CountedBounds, RouterRunAssumption
        <3>3. QED
            BY <3>1, <3>2
    <2>3. QED
        BY <2>1, <2>2 DEF IInv, TypeOK, DrainInv, Poll
<1>3. QED
    BY <1>1, <1>2 DEF IInv, Poll

LEMMA GraceInv ==
    ASSUME IInv, Grace
    PROVE  IInv'
BY RouterRunAssumption DEF IInv, TypeOK, PipeInv, DrainInv, Grace, Ended

LEMMA JudgeInv ==
    ASSUME IInv, Judge
    PROVE  IInv'
BY RouterRunAssumption
DEF IInv, TypeOK, PipeInv, DrainInv, Judge, JudgeControl,
                           JudgeRouter

\* Reading moves bytes and loses none.
LEMMA DrainReadyFacts ==
    ASSUME IInv, DrainReady
    PROVE  /\ \A s \in Streams :
                 /\ Taken(s) \in 0..pipe[s]
                 /\ total'[s] = Counted(total[s] + Taken(s))
                 /\ pipe'[s] = pipe[s] - Taken(s)
           /\ pipe' \in [Streams -> 0..PipeCapacity]
           /\ total' \in [Streams -> 0..EmitLimit + 1]
           /\ reading' \subseteq Streams
           /\ \A s \in Streams : emitted'[s] <= Counted(total'[s] + pipe'[s])
<1>1. \A s \in Streams : Taken(s) \in 0..pipe[s]
    BY RouterRunAssumption DEF IInv, TypeOK, Taken, Least
<1>2. \A s \in Streams : /\ total'[s] = Counted(total[s] + Taken(s))
                          /\ pipe'[s] = pipe[s] - Taken(s)
    BY DEF DrainReady
<1>3. ASSUME NEW s \in Streams
      PROVE  /\ Counted(total[s] + Taken(s)) \in 0..EmitLimit + 1
             /\ Counted(total'[s] + pipe'[s]) = Counted(total[s] + pipe[s])
    <2>1. total[s] \in Nat /\ pipe[s] \in Nat /\ total[s] + Taken(s) \in Nat
        BY <1>1, RouterRunAssumption DEF IInv, TypeOK
    <2>2. Counted(total[s] + Taken(s)) \in 0..EmitLimit + 1
        BY <2>1, CountedBounds
    <2>3. Counted(Counted(total[s] + Taken(s)) + (pipe[s] - Taken(s)))
              = Counted(total[s] + pipe[s])
        BY <1>1, <2>1, CountedMove
    <2>4. QED
        BY <1>2, <2>2, <2>3
<1>4. total' \in [Streams -> 0..EmitLimit + 1]
    BY <1>3 DEF DrainReady
<1>5. pipe' \in [Streams -> 0..PipeCapacity]
    BY <1>1, RouterRunAssumption DEF IInv, TypeOK, DrainReady
<1>6. QED
    BY <1>1, <1>2, <1>3, <1>4, <1>5 DEF IInv, TypeOK, PipeInv, DrainReady

LEMMA DrainStepInv ==
    ASSUME IInv, Drain
    PROVE  IInv'
<1>1. TypeOK' /\ PlaceInv' /\ FileInv' /\ DrainInv'
    BY DrainReadyFacts DEF IInv, TypeOK, DrainInv, Drain, DrainReady
<1>2. PipeInv'
    <2>1. \A s \in Streams : s \notin reading' => pipe'[s] = 0 /\ ~HasWriter
        BY RouterRunAssumption
        DEF IInv, TypeOK, PipeInv, Drain, DrainReady, Taken, Least
    <2>2. QED
        BY <2>1, DrainReadyFacts DEF PipeInv, Drain
<1>3. QED
    BY <1>1, <1>2 DEF IInv, Drain

\* A stream a round takes less than a chunk from is empty; FinalRounds chunks are
\* a full pipe.
LEMMA FinalDrainInv ==
    ASSUME IInv, FinalDrain
    PROVE  IInv'
<1>1. TypeOK' /\ PlaceInv' /\ FileInv'
    BY DrainReadyFacts, RouterRunAssumption
    DEF IInv, TypeOK, FinalDrain, DrainReady, LastRound, Least
<1>2. PipeInv'
    <2>1. failure # "pipes" =>
              \A s \in Streams : s \notin reading' => pipe'[s] = 0 /\ ~HasWriter
        BY RouterRunAssumption
        DEF IInv, TypeOK, PipeInv, FinalDrain, DrainReady, Taken, Least
    <2>2. QED
        BY <2>1, DrainReadyFacts DEF PipeInv, FinalDrain
<1>3. ASSUME failure = "none", NEW s \in Streams
      PROVE  /\ \/ emitted'[s] <= total'[s]
                \/ emitted'[s] + (rounds + 1) * Chunk <= total'[s] + PipeCapacity
             /\ Taken(s) = 0 => emitted'[s] <= total'[s]
    <2>1. /\ emitted[s] \in 0..EmitLimit + 1 /\ total[s] \in 0..EmitLimit + 1
          /\ pipe[s] \in Nat /\ rounds \in Nat /\ Chunk \in Nat \ {0}
          /\ PipeCapacity \in Nat /\ EmitLimit \in Nat
        BY RouterRunAssumption DEF IInv, TypeOK
    <2>2. /\ emitted' = emitted
          /\ emitted[s] <= Counted(total'[s] + pipe'[s])
          /\ total'[s] = Counted(total[s] + Taken(s))
        BY DrainReadyFacts DEF FinalDrain, DrainReady
    <2>3. Taken(s) = pipe[s] \/ Taken(s) = Chunk
        BY <1>3, <2>1 DEF IInv, PipeInv, FinalDrain, Taken, Least
    <2>4. CASE Taken(s) = pipe[s]
        <3>1. pipe'[s] = 0
            BY <2>1, <2>4, DrainReadyFacts DEF FinalDrain
        <3>2. total'[s] \in Nat /\ total'[s] + pipe'[s] = total'[s]
            BY <1>1, <3>1, RouterRunAssumption DEF TypeOK
        <3>3. Counted(total'[s]) <= total'[s] /\ Counted(total'[s]) \in Nat
            BY <3>2, CountedBounds, RouterRunAssumption
        <3>4. QED
            BY <2>1, <2>2, <3>2, <3>3
    <2>5. CASE Taken(s) = Chunk
        <3>1. /\ (rounds + 1) * Chunk = rounds * Chunk + Chunk
              /\ rounds * Chunk \in Nat
            BY <2>1
        <3>2. \/ emitted[s] <= total[s]
              \/ emitted[s] + rounds * Chunk <= total[s] + PipeCapacity
            BY <1>3 DEF IInv, DrainInv, FinalDrain
        <3>3. QED
            BY <2>1, <2>2, <2>5, <3>1, <3>2 DEF Counted, Least
    <2>6. QED
        BY <2>3, <2>4, <2>5
<1>4. CASE LastRound(rounds + 1, Taken("stdout") + Taken("stderr"))
    <2>1. pc' = "judge"
        BY <1>4 DEF FinalDrain
    <2>2. ASSUME failure = "none", NEW s \in Streams
          PROVE  emitted'[s] <= total'[s]
        <3>1. CASE rounds + 1 = FinalRounds
            <4>1. emitted'[s] \in Nat /\ total'[s] \in Nat
                BY <1>1, RouterRunAssumption DEF TypeOK
            <4>2. QED
                BY <1>3, <2>2, <3>1, <4>1, RouterRunAssumption
        <3>2. CASE Taken("stdout") + Taken("stderr") = 0
            <4>1. Taken(s) = 0
                BY <3>2, DrainReadyFacts DEF IInv, TypeOK, FinalDrain
            <4>2. QED
                BY <1>3, <2>2, <4>1
        <3>3. QED
            BY <1>4, <3>1, <3>2 DEF LastRound
    <2>3. QED
        BY <1>1, <1>2, <2>1, <2>2 DEF IInv, DrainInv, FinalDrain
<1>5. CASE ~LastRound(rounds + 1, Taken("stdout") + Taken("stderr"))
    <2>1. pc' = "final" /\ rounds' = rounds + 1
        BY <1>5, RouterRunAssumption
        DEF IInv, TypeOK, FinalDrain, LastRound, Least
    <2>2. QED
        BY <1>1, <1>2, <1>3, <2>1 DEF IInv, DrainInv, FinalDrain
<1>6. QED
    BY <1>4, <1>5

LEMMA EmitInv ==
    ASSUME IInv, pc # "done", NEW s \in Streams, Emit(s)
    PROVE  IInv'
<1>1. /\ emitted[s] \in Nat /\ total[s] \in Nat /\ pipe[s] \in Nat
      /\ PipeCapacity \in Nat
    BY RouterRunAssumption DEF IInv, TypeOK
<1>2. /\ Counted(emitted[s] + 1) \in 0..EmitLimit + 1
      /\ Counted(emitted[s] + 1) <= Counted(total[s] + (pipe[s] + 1))
    <2>1. emitted[s] + 1 \in Nat /\ emitted[s] <= Counted(total[s] + pipe[s])
        BY <1>1 DEF IInv, PipeInv
    <2>2. QED
        BY <1>1, <2>1, CountedBounds, CountedNext
<1>3. Counted(total[s] + pipe[s]) <= Counted(total[s] + (pipe[s] + 1))
    BY <1>1, RouterRunAssumption DEF Counted, Least
<1>4. TypeOK'
    <2>1. pipe' \in [Streams -> 0..PipeCapacity]
        BY <1>1 DEF IInv, TypeOK, Emit
    <2>2. emitted' \in [Streams -> 0..EmitLimit + 1]
        BY <1>2 DEF IInv, TypeOK, Emit
    <2>3. QED
        BY <2>1, <2>2 DEF IInv, TypeOK, Emit
<1>5. PlaceInv' /\ FileInv'
    BY DEF IInv, Emit
<1>6. PipeInv'
    <2>1. \A r \in Streams : emitted'[r] <= Counted(total'[r] + pipe'[r])
        <3>1. total' = total /\ pipe'[s] = pipe[s] + 1
              /\ emitted'[s] \in {emitted[s], Counted(emitted[s] + 1)}
              /\ \A r \in Streams \ {s} : pipe'[r] = pipe[r] /\ emitted'[r] = emitted[r]
            BY DEF IInv, TypeOK, Emit
        <3>2. emitted[s] <= Counted(total[s] + pipe[s])
            BY DEF IInv, PipeInv
        <3>3. /\ Counted(total[s] + pipe[s]) \in Nat
              /\ Counted(total[s] + (pipe[s] + 1)) \in Nat
            BY <1>1, CountedBounds, RouterRunAssumption
        <3>4. emitted'[s] <= Counted(total'[s] + pipe'[s])
            BY <1>1, <1>2, <1>3, <3>1, <3>2, <3>3
        <3>5. QED
            BY <3>1, <3>4 DEF IInv, PipeInv
    <2>2. pc \notin Before /\ failure # "pipes" /\ leader # "none" => s \in reading
        BY DEF IInv, PipeInv, Emit
    <2>3. QED
        BY <2>1, <2>2 DEF IInv, TypeOK, PipeInv, Emit
<1>7. DrainInv' /\ EmissionCounted'
    <2>1. pc \in {"final"} \cup Judging /\ failure = "none" => emitted' = emitted
        BY DEF IInv, Emit
    <2>2. DrainInv'
        BY <2>1 DEF IInv, DrainInv, Emit
    <2>3. QED
        BY <2>2 DEF IInv, Emit
<1>8. QED
    BY <1>4, <1>5, <1>6, <1>7 DEF IInv, Emit

LEMMA ChildInv ==
    ASSUME IInv, Child
    PROVE  IInv'
<1>1. CASE LeaderExits
    BY <1>1 DEF Child, IInv, TypeOK, PipeInv, DrainInv, LeaderExits
<1>2. CASE Spawn
    BY <1>2 DEF IInv, TypeOK, PipeInv, DrainInv, Spawn
<1>3. CASE MateExits
    BY <1>3 DEF IInv, TypeOK, PipeInv, DrainInv, MateExits
<1>4. CASE \E s \in Streams : Emit(s)
    BY <1>4, EmitInv DEF Child
<1>5. CASE \E f \in Written : WriteOutput(f)
    <2>1. pc' = pc /\ pc # "done" /\ result' = NoResult
        BY <1>5 DEF Child, IInv, WriteOutput
    <2>2. TypeOK'
        <3>1. out' \in Files /\ volume' \in Files /\ late' \in BOOLEAN
            BY <1>5 DEF IInv, TypeOK, WriteOutput
        <3>2. QED
            BY <1>5, <3>1 DEF IInv, TypeOK, WriteOutput
    <2>3. PlaceInv' /\ FileInv'
        BY <1>5, <2>1 DEF IInv, WriteOutput
    <2>4. PipeInv' /\ DrainInv'
        BY <1>5 DEF IInv, PipeInv, DrainInv, WriteOutput
    <2>5. QED
        BY <2>1, <2>2, <2>3, <2>4 DEF IInv
<1>6. QED
    BY <1>1, <1>2, <1>3, <1>4, <1>5 DEF Child

-----------------------------------------------------------------------------
\* The inductive invariant holds in every reachable state, for every pipe
\* capacity a final drain can take and every limit.
THEOREM Invariance == Spec => []IInv
<1>1. Init => IInv
    BY InitInv
<1>2. IInv /\ [Next]_vars => IInv'
    <2>1. ASSUME IInv, Next
          PROVE  IInv'
        BY <2>1, StillInv, LaunchInv, PollInv, DrainStepInv, GraceInv,
           FinalDrainInv, JudgeInv, ChildInv DEF Next, Evaluator
    <2>2. ASSUME IInv, UNCHANGED vars
          PROVE  IInv'
        BY <2>2 DEF vars, IInv, TypeOK, PipeInv, DrainInv
    <2>3. QED
        BY <2>1, <2>2
<1>3. QED
    BY <1>1, <1>2, PTL DEF Spec

\* The types of the run's variables (_run_prepared_router_once).
THEOREM TypeCorrect == Spec => []TypeOK
<1>1. IInv => TypeOK
    BY DEF IInv
<1>2. QED
    BY <1>1, Invariance, PTL

\* No output is left uncounted: _finalize_pipe_capture's rounds take all the
\* child wrote before it ended.
THEOREM EmissionNeverMissed == Spec => []EmissionCounted
<1>1. IInv => EmissionCounted
    BY DEF IInv
<1>2. QED
    BY <1>1, Invariance, PTL

\* A valid result is not the file of an earlier run, nor one over the limit.
THEOREM ValidResultIsOwn == Spec => []ValidOutputIsOwn
<1>1. IInv => ValidOutputIsOwn
    BY DEF IInv
<1>2. QED
    BY <1>1, Invariance, PTL

\* _run_prepared_router_once returns only when its child has ended, or was sent
\* SIGKILL and hangs in the kernel.
THEOREM ReturnsWithoutChild == Spec => []NoChildLeft
<1>1. IInv => NoChildLeft
    BY DEF IInv, NoChildLeft
<1>2. QED
    BY <1>1, Invariance, PTL
=============================================================================
