---------------------------- MODULE ImageAdmission ----------------------------
(***************************************************************************)
(* From a submitted repository digest to the containers that run: the tool *)
(* that measures an image (router-measure-image, and the local preflight   *)
(* that shares its steps), the evidence file it publishes, and the         *)
(* evaluator that admits the image on that evidence and runs it again and  *)
(* again by its digest.  The OCI layout and the Docker store are shared    *)
(* state that others change between the steps.                             *)
(*                                                                         *)
(* A blob is named by what it should contain (its digest); held says what  *)
(* is really in the file, so hashing it is comparing the two.              *)
(***************************************************************************)
EXTENDS Integers, Sequences, FiniteSetsExt

CONSTANTS Digests,          \* submitted repository digests
          Variants,         \* the images for one platform there are
          Variant,          \* what each is: platform, volumes, layers, files
          Image,            \* what each digest names: index?, descriptors
          Official,         \* OFFICIAL_CONTAINER_PLATFORM
          Engines,          \* the ways Docker answers
          MaxCompressed,    \* limits.oci_compressed_image_bytes
          MaxRootfs,        \* limits.rootfs_apparent_bytes
          MaxStream,        \* _MAX_EXPORT_STREAM_BYTES
          MaxMembers,       \* _MAX_EXPORT_MEMBERS
          Submissions,      \* the sets of digests looked at together
          MaxPulls,         \* bound: changes of Docker's cache
          MaxDamage         \* bound: changes of the layout's files

Nothing == "nothing"
Infra == "infrastructure"
Rejected == "rejected"

ASSUME ImagesAreKnown ==
  /\ Variant \in [Variants -> [platform : STRING, volumes : BOOLEAN,
        layers : Seq([declared : Nat, size : Nat]), files : Seq(Nat)]]
  /\ \A d \in Digests : IsFiniteSet(Image[d].descriptors)
  /\ \A d \in Digests : \A e \in Image[d].descriptors : e.variant \in Variants
  /\ \A d \in Digests : Image[d].index \/ Cardinality(Image[d].descriptors) = 1
  /\ \A s \in Submissions : s \subseteq Digests
  /\ {MaxCompressed, MaxRootfs, MaxStream, MaxMembers} \subseteq Nat
  /\ Engines \subseteq [selects : BOOLEAN, many : BOOLEAN, blank : BOOLEAN]

\* Where one image is stored under a digest, whichever it is, no other image of an
\* index is for the official platform under another label.
ASSUME LabelsAreTrue ==
  (\E g \in Engines : ~g.many) =>
     \A d \in Digests : \A e \in Image[d].descriptors :
        Image[d].index /\ Variant[e.variant].platform = Official => e.label = Official

VARIABLES submitted,   \* the digests submitted, whose layouts the operator has
          engine,      \* how this Docker stores images and answers
          store,       \* the variants in Docker's cache under each digest
          held,        \* what the file of each blob contains
          listing,     \* descriptors in the layout's index.json
          pulls,       \* changes of the store so far
          damage,      \* changes of held and listing so far
          tool,        \* the measuring program
          evidence,    \* what the evidence file holds: nothing or one record
          evaluator,   \* the program that admits and runs
          ran          \* pairs of a digest and the variant a container ran

layout == <<held, listing, damage>>
cache == <<submitted, engine, store, pulls>>
programs == <<tool, evidence, evaluator, ran>>
admissionVars == <<layout, cache, programs>>
-----------------------------------------------------------------------------
(* Documents and blobs. *)
ManifestOf(v) == <<"manifest", v>>
ConfigOf(v) == <<"config", v>>
RootOf(d) ==
  IF Image[d].index THEN <<"index", d>>
  ELSE ManifestOf((CHOOSE e \in Image[d].descriptors : TRUE).variant)
LayersOf(v) == { <<"layer", v, i>> : i \in DOMAIN Variant[v].layers }
VariantsOf(d) == { e.variant : e \in Image[d].descriptors }
Blobs(ds) ==
  LET vs == UNION { VariantsOf(d) : d \in ds }
  IN { RootOf(d) : d \in ds } \cup { ManifestOf(v) : v \in vs }
     \cup { ConfigOf(v) : v \in vs } \cup UNION { LayersOf(v) : v \in vs }

\* (A bug of the code: the blob is not hashed.)
IntactByName(b) == TRUE
Intact(b) == held[b] = b

Total(s) == MapThenSumSet(LAMBDA i : s[i], DOMAIN s)
CompressedOf(v) == Total([ i \in DOMAIN Variant[v].layers |-> Variant[v].layers[i].size ])
RootfsOf(v) == Total(Variant[v].files)
StreamOf(v) == RootfsOf(v) + Len(Variant[v].files)   \* a header for every member

Fits(v) ==
  /\ CompressedOf(v) <= MaxCompressed /\ RootfsOf(v) <= MaxRootfs
  /\ StreamOf(v) <= MaxStream /\ Len(Variant[v].files) <= MaxMembers

BlankTool ==
  [ step |-> "idle", official |-> TRUE, digest |-> Nothing, manifest |-> Nothing,
    document |-> Nothing, layer |-> 1, total |-> 0, id |-> Nothing,
    container |-> Nothing, member |-> 1, apparent |-> 0, stream |-> 0, exit |-> "none" ]
BlankEvaluator == [ step |-> "idle", digest |-> Nothing, read |-> Nothing, exit |-> "none" ]

AdmissionInit ==
  /\ submitted \in Submissions /\ engine \in Engines
  /\ store = [d \in submitted |-> {}] /\ pulls = 0
  /\ held = [b \in Blobs(submitted) |-> b]
  /\ listing = { [root |-> RootOf(d), media |-> RootOf(d)[1]] : d \in submitted }
  /\ damage = 0
  /\ tool = BlankTool /\ evidence = {}
  /\ evaluator = BlankEvaluator /\ ran = {}
-----------------------------------------------------------------------------
(* Docker and the disk, outside src/. *)

\* What inspect finds for a digest: the variant stored for the platform, or
\* whichever is stored when this Docker does not know inspect --platform.
Found(d) ==
  { v \in store[d] : engine.selects =>
      \E e \in Image[d].descriptors : e.variant = v /\ e.label = Official }
Answer(v) ==
  [ id |-> IF engine.many THEN ManifestOf(v) ELSE ConfigOf(v),
    platform |-> IF engine.blank THEN Official ELSE Variant[v].platform,
    volumes |-> Variant[v].volumes ]

\* What docker create or run --platform linux/arm64 --pull never starts.
Startable(d) ==
  { v \in store[d] :
      IF engine.many
      THEN \E e \in Image[d].descriptors : e.variant = v /\ e.label = Official
      ELSE Variant[v].platform = Official }

Pull ==
  /\ pulls < MaxPulls /\ pulls' = pulls + 1
  /\ \E d \in submitted :
       \E some \in IF engine.many THEN {VariantsOf(d)} ELSE { {v} : v \in VariantsOf(d) } :
         some # store[d] /\ store' = [store EXCEPT ![d] = some]
  /\ UNCHANGED <<submitted, engine, layout, programs>>

ReplaceBlob ==
  /\ damage < MaxDamage /\ damage' = damage + 1
  /\ \E b, c \in DOMAIN held :
       b[1] = c[1] /\ b # c /\ Intact(b) /\ held' = [held EXCEPT ![b] = c]
  /\ UNCHANGED <<listing, cache, programs>>

Relist ==
  /\ damage < MaxDamage /\ damage' = damage + 1
  /\ \E e \in listing, m \in {"index", "manifest"} :
       LET new == [e EXCEPT !.media = m]
       IN listing' \in {listing \ {e}, listing \cup {new}, (listing \ {e}) \cup {new}}
  /\ listing' # listing
  /\ UNCHANGED <<held, cache, programs>>
-----------------------------------------------------------------------------
(* The measuring program. *)
Step(f) == tool' = f /\ UNCHANGED <<layout, cache, evidence, evaluator, ran>>
Exit(code) ==
  tool' = IF code \in {Infra, "published", "failed"} THEN BlankTool
          ELSE [BlankTool EXCEPT !.official = tool.official, !.digest = tool.digest,
                  !.container = tool.container, !.exit = code]
Stop(code) == Exit(code) /\ UNCHANGED <<layout, cache, evidence, evaluator, ran>>

Measure(d, official) ==
  /\ tool.step = "idle"
  /\ Step([BlankTool EXCEPT !.step = "layout", !.digest = d, !.official = official])

\* index.json must list the digest once; its blob is the manifest itself or an
\* index with exactly one descriptor for the official platform.
Roots(d) == { e \in listing : e.root = RootOf(d) }
Candidates(b) ==
  IF b[1] = "index" THEN { e \in Image[b[2]].descriptors : e.label = Official } ELSE {}
Selected(d) ==
  IF Cardinality(Roots(d)) # 1 \/ ~Intact(RootOf(d)) THEN {}
  ELSE LET root == CHOOSE e \in Roots(d) : TRUE
       IN IF root.media = "manifest" THEN {root.root}
          ELSE IF Cardinality(Candidates(held[root.root])) # 1 THEN {}
          ELSE { b \in { ManifestOf(e.variant) : e \in Candidates(held[root.root]) } : Intact(b) }

SelectManifest ==
  /\ tool.step = "layout"
  /\ \/ Selected(tool.digest) = {} /\ Stop(Infra)
     \/ \E b \in Selected(tool.digest) :
          Step([tool EXCEPT !.step = "config", !.manifest = b, !.document = held[b]])

ReadConfig ==
  /\ tool.step = "config"
  /\ IF tool.document[1] # "manifest" \/ ~Intact(ConfigOf(tool.document[2])) THEN Stop(Infra)
     ELSE LET config == held[ConfigOf(tool.document[2])][2]
          IN IF Variant[config].platform # Official THEN Stop(Infra)
             ELSE IF Variant[config].volumes THEN Stop(Rejected)
             ELSE Step([tool EXCEPT !.step = "layers"])

SizeIs(b, n) == Variant[b[2]].layers[b[3]].size = n

ReadLayer ==
  /\ tool.step = "layers"
  /\ LET v == tool.document[2]
         layers == Variant[v].layers
         b == <<"layer", v, tool.layer>>
     IN IF tool.layer > Len(layers) THEN Step([tool EXCEPT !.step = "inspect"])
        ELSE LET total == tool.total + layers[tool.layer].declared
             IN IF total > MaxCompressed THEN Stop(Rejected)
                ELSE IF Intact(b) /\ SizeIs(b, layers[tool.layer].declared)
                THEN Step([tool EXCEPT !.layer = @ + 1, !.total = total])
                ELSE Stop(Infra)

\* The layout's two names for the image, one of which Docker must answer with;
\* the preflight, which inspects a tag, accepts the second only.
Names(t) == IF t.official THEN {t.manifest, ConfigOf(t.document[2])}
            ELSE {ConfigOf(t.document[2])}
Inspectable(t) == IF t.official THEN Found(t.digest) ELSE UNION { VariantsOf(d) : d \in submitted }

InspectLocal ==
  /\ tool.step = "inspect"
  /\ \/ Stop(Infra)                              \* docker fails, or does not list the digest
     \/ \E v \in Inspectable(tool) :
          LET answer == Answer(v)
          IN IF answer.volumes THEN Stop(Rejected)
             ELSE IF answer.id \in Names(tool) /\ answer.platform = Official
             THEN Step([tool EXCEPT !.step = "create", !.id = answer.id])
             ELSE Stop(Infra)

Create ==
  /\ tool.step = "create"
  /\ \/ Stop(Infra)
     \/ \E v \in IF tool.official THEN Startable(tool.digest)
                 ELSE { w \in Inspectable(tool) : ConfigOf(w) = tool.id } :
          Step([tool EXCEPT !.step = "export", !.container = v])

\* The container is removed whatever the export came to, and a failure to
\* remove it takes the place of what the export came to.
AfterCleanup(code) == \E clean \in BOOLEAN : Stop(IF clean THEN code ELSE Infra)

\* One member of the tar stream: its header, the two limits, its bytes.
Members == Variant[tool.container].files
ReadMember ==
  /\ tool.step = "export" /\ tool.member <= Len(Members)
  /\ LET size == Members[tool.member]
         apparent == tool.apparent + size
         stream == tool.stream + 1 + size
     IN IF tool.stream + 1 > MaxStream \/ tool.member > MaxMembers
             \/ apparent > MaxRootfs \/ stream > MaxStream
        THEN AfterCleanup(Rejected)
        ELSE Step([tool EXCEPT !.member = @ + 1, !.apparent = apparent, !.stream = stream])

\* The stream ends: docker export exits with 0 only after the last member.
\* Killed at a boundary between members it looks the same to the reader.
ExportCode == IF tool.member > Len(Members) THEN {0, 1} ELSE {1}
\* (A bug of the code: the exit code is not read.)
CompleteAtBoundary(code) == TRUE
Complete(code) == code = 0
EndExport ==
  /\ tool.step = "export"
  /\ \E code \in ExportCode :
       IF ~Complete(code) THEN Stop(Infra)
       ELSE \/ Stop(Infra)                       \* the container cannot be removed
            \/ Step([tool EXCEPT !.step = "validate"])

Measured(t) ==
  [ digest |-> t.digest, manifest |-> t.manifest, config |-> ConfigOf(t.document[2]),
    total |-> t.total, rootfs |-> t.apparent ]

\* (A bug of the code: the digest and the ID are not compared.)
VerdictBySize(e, d, id, platform) ==
  IF platform # Official THEN Infra
  ELSE IF e.total > MaxCompressed \/ e.rootfs > MaxRootfs THEN Rejected ELSE "admitted"

\* validate_image_size_evidence: bound to this digest and this local image,
\* then within the two limits.
Verdict(e, d, id, platform) ==
  IF e.digest # d \/ id \notin {e.manifest, e.config} \/ platform # Official THEN Infra
  ELSE IF e.total > MaxCompressed \/ e.rootfs > MaxRootfs THEN Rejected ELSE "admitted"

\* The file is linked into place, never over another; a failure after the
\* link leaves it there.
Publish ==
  /\ tool.step = "validate" /\ tool.official
  /\ LET verdict == Verdict(Measured(tool), tool.digest, tool.id, Official)
     IN IF verdict # "admitted" THEN Stop(verdict)
        ELSE IF evidence # {} THEN Stop(Infra)
        ELSE \/ Stop(Infra)
             \/ /\ evidence' = {Measured(tool)}
                /\ \E code \in {"published", Infra} : Exit(code)
                /\ UNCHANGED <<layout, cache, evaluator, ran>>

ReportPreflight ==
  /\ tool.step = "validate" /\ ~tool.official
  /\ \E valid \in BOOLEAN :    \* the constrained run of the image it measured
       Stop(IF tool.total > MaxCompressed \/ tool.apparent > MaxRootfs \/ ~valid
            THEN "failed" ELSE "passed")
-----------------------------------------------------------------------------
(* The evaluator. *)
Turn(f) == evaluator' = f /\ UNCHANGED <<layout, cache, tool, evidence, ran>>
Conclude(code) ==
  Turn(IF code # Rejected THEN BlankEvaluator
       ELSE [BlankEvaluator EXCEPT !.digest = evaluator.digest, !.exit = code])

Evaluate(d) ==
  /\ evaluator.step = "idle"
  /\ \E e \in evidence :
       Turn([BlankEvaluator EXCEPT !.step = "resolve", !.digest = d, !.read = e])

ResolveSubmittedImage ==
  /\ evaluator.step = "resolve"
  /\ \/ Conclude(Infra)
     \/ \E v \in Found(evaluator.digest) :
          LET answer == Answer(v)
              verdict == Verdict(evaluator.read, evaluator.digest, answer.id, answer.platform)
          IN IF answer.volumes THEN Conclude(Rejected)
             ELSE IF verdict # "admitted" THEN Conclude(verdict)
             ELSE Turn([evaluator EXCEPT !.step = "attempt", !.read = Nothing])

\* Every attempt, of the tier and of its audit, inspects the image once more
\* before it starts a container; a failed inspection is a failed attempt.
CheckAttempt ==
  /\ evaluator.step = "attempt"
  /\ \/ Conclude("finished")
     \/ \E v \in Found(evaluator.digest) :
          IF Answer(v).volumes THEN Conclude(Rejected)
          ELSE Turn([evaluator EXCEPT !.step = "run"])

RunAttempt ==
  /\ evaluator.step = "run"
  /\ evaluator' = [evaluator EXCEPT !.step = "attempt"]
  /\ \/ ran' = ran
     \/ \E v \in Startable(evaluator.digest) : ran' = ran \cup {<<evaluator.digest, v>>}
  /\ UNCHANGED <<layout, cache, tool, evidence>>
-----------------------------------------------------------------------------
AdmissionNext ==
  \/ Pull \/ ReplaceBlob \/ Relist
  \/ \E d \in submitted, official \in BOOLEAN : Measure(d, official)
  \/ SelectManifest \/ ReadConfig \/ ReadLayer \/ InspectLocal \/ Create
  \/ ReadMember \/ EndExport \/ Publish \/ ReportPreflight
  \/ \E d \in submitted : Evaluate(d)
  \/ ResolveSubmittedImage \/ CheckAttempt \/ RunAttempt

AdmissionSpec == AdmissionInit /\ [][AdmissionNext]_admissionVars
-----------------------------------------------------------------------------
(* Properties. *)

OfficialOf(d) == { e.variant : e \in { f \in Image[d].descriptors : f.label = Official } }

(* A published evidence file states the truth about the digest it names: the
   real compressed size of all layers and the real size of the whole merged
   root filesystem of its one image for the official platform, whatever was
   exchanged in the layout, in Docker's cache or cut off in the stream while
   it was measured (generate_image_size_evidence). *)
EvidenceTrue ==
  \A e \in evidence :
    \E v \in Variants :
      /\ Variant[v].platform = Official /\ ~Variant[v].volumes
      /\ \/ OfficialOf(e.digest) = {v} /\ Image[e.digest].index
         \/ ~Image[e.digest].index /\ RootOf(e.digest) = ManifestOf(v)
      /\ e.total = CompressedOf(v) /\ e.rootfs = RootfsOf(v)

(* Whatever the evaluator starts, in any attempt and however often the cache
   changed after the image was admitted, is an image for the official platform
   without declared volumes and within every limit; so is what a passed
   preflight ran. *)
AdmittedFits ==
  /\ \A run \in ran :
       Fits(run[2]) /\ ~Variant[run[2]].volumes /\ Variant[run[2]].platform = Official
  /\ tool.exit = "passed" => Fits(tool.container) /\ ~Variant[tool.container].volumes

(* An image is rejected (the final verdict, which ENFORCEMENT.md gives only to
   an image over a limit or with a declared volume) only when some image the
   digest names for the official platform deserves it, or when a Docker that
   cannot select a platform answered for another platform's image, whose
   volumes are looked at before its platform is. *)
Deserves(v) == Variant[v].volumes \/ ~Fits(v)
             \/ Total([ i \in DOMAIN Variant[v].layers |-> Variant[v].layers[i].declared ]) > MaxCompressed
Blamed(d) ==
  \/ \E e \in Image[d].descriptors :
       Deserves(e.variant) /\ (e.label = Official \/ Variant[e.variant].platform = Official)
  \/ ~engine.selects /\ \E e \in Image[d].descriptors : Variant[e.variant].volumes
RejectedForAReason ==
  /\ tool.exit = Rejected /\ tool.official => Blamed(tool.digest)
  /\ evaluator.exit = Rejected => Blamed(evaluator.digest)
=============================================================================
