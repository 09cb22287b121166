# Verification of Pawn2Qween's evaluation tools

TLA+ modules, TLC runs and machine-checked proofs for `ossp_router`: on the
operator's side the commands that measure a submitted router image, admit it,
run it in Docker, retry it, audit it, clean up after it, score and rank it; on
the participant's side the routers' allocation and files, the local checks and
the benchmark. Line numbers below refer to `src/src/ossp_router/`, unless a path
says otherwise.

## 1. The system

| Component | State it keeps | Operations | Talks to |
|---|---|---|---|
| attempt protocol, `runtime.py` `run_isolated_container_once` | lock file, cleanup journal, `submission.json` in one output directory; participant, helper, volume in Docker | reconcile a left journal, run one attempt, remove its resources, publish | Docker CLI (calls that may time out), the directory (shared with other processes) |
| `router-cleanup-resources`, `runtime.py` `cleanup_main` | the same directory | reconcile, with or without a confirmed daemon restart | the same |
| retry policy, `runtime.py` `run_with_retry` | attempt history, two counters | run again or give up | attempt protocol |
| evaluator, `orchestrator.py` `run_official_tier` | root lock, private work directory, input snapshot, execution record | check journals, resolve image, official attempts, audit, record | attempt protocol on `official/` and `audit/` |
| ID/order audit, `orchestrator.py` 234-408 | none (a secret per run) | make the variant, compare decisions | attempt protocol |
| image evidence, `image_evidence.py` | resource journal and evidence file, one container | measure, `--cleanup-pending` | Docker CLI, the evidence directory (no lock) |
| tiebreak, `tiebreak_latency.py` | samples, discarded runs, latency record | warm up, measure, rank | attempt protocol, one directory per candidate |
| allocation, `routing_allocator.py` | none | penalty search, premium fill | called by the routers |
| routers and CLI, `hash_router.py`, `e5_router.py`, `heuristic.py`, `cli.py` | submission files | check input and artifact, choose, write; always-light; self-check | allocation, protocol, scoring |
| protocol, `protocol.py` | none | load and validate inputs, outcomes, policies, submissions | called everywhere |
| scoring, `scoring.py` | none | validate a set of files, cost, budget and points per tier | self-check; the scores of an operator |
| image inspection and limits, `runtime.py`, `orchestrator.py`, `image_evidence.py` | Docker's cache, an OCI layout, an evidence file | measure layout and root filesystem, admit on evidence, inspect again before each attempt | Docker CLI, files others may exchange |
| submission preflight, `tools/preflight_submission_image.py` | none | the same measurement locally | Docker CLI |
| process runner and pipe capture, `runtime.py` 232-372, 911-1284 | output buffers of one child | drain two pipes under limits, kill the process group | operating system |
| output helper, `operator_helper.py` | one file | hold, extract | runs in the helper container |
| benchmark, `tools/benchmark_runtime.py` | two report files, their backups, a marker file; the source tree and an image tag it binds to | measure on the host and in containers, publish both reports, roll back | the directory (shared with other benchmarks), Docker CLI |
| encoder, features, artifacts | none | predict for one prompt | called by the routers |
| training, baselines, other tools, container, data | files, offline | | |

What is hard here:

* **concurrency**: several processes on one directory. The attempt protocol and
  the evaluator use non-blocking `flock`s; the image measurement has only the
  exclusive creation of its journal;
* **unreliable calls**: a Docker command that times out or fails may have been
  accepted, and be carried out after everybody stopped looking;
* **crashes** between any two steps; what survives is the journal, the record,
  the snapshot and the daemon's resources;
* **stale state**: a Docker context that reaches another daemon than it did, a
  `submission.json` or record of an earlier run, names others bear;
* **retries** that must not spend official attempts on operator failures and
  must stop while cleanup is pending;
* **files and caches others exchange** between a check and the use of what was
  checked: blobs of a layout, tags, images behind a digest, a source tree;
* **two validators** of one file, which must agree (the operator's and the
  scorer's), and two budgets, which must be compatible (the allocation's and
  the scorer's);
* **pure algorithms** whose promise is global (a permutation without fixed
  points that is one cycle, a search that keeps its bracket, joint ranks).

## 2. Modules

| Module | Code | In short |
|---|---|---|
| `AttemptJournal` | attempt protocol, cleanup command | one output directory, several processes, several daemons and contexts |
| `CleanupLedger` | what the journal promises | abstract specification; `AttemptJournal` implements it |
| `AttemptProofs` | | types, lock, submission against journal; no orphans, settled results are final; the refinement, quiet returns, foreign names |
| `OfficialTier`, `OfficialTierProofs` | evaluator, retry policy, cleanup command around it | one output root; an attempt is one step whose outcomes `AttemptJournal` establishes |
| `MeasurementJournal`, `MeasurementProofs` | image evidence: its container | several measurements and cleanup commands on one evidence directory |
| `EvidenceLedger` | what the evidence directory promises | abstract specification; `MeasurementJournal` implements it |
| `ImageAdmission`, `ContainerProofs` | image evidence: its contents; image inspection; preflight | from a digest to the containers that run, while layout and cache change |
| `RouterRun`, `ContainerProofs` | process runner, pipe capture, helper's extraction | one child process, a descendant, two pipes, one output file |
| `Tiebreak`, `TiebreakProofs` | tiebreak measurement | loops, discarded failures, medians, ranking |
| `Protocol` | `protocol.py` | every parser as a predicate on records |
| `Scoring` | `scoring.py` | the report of one batch, extends `Protocol` |
| `Allocator` | allocation | both penalty searches, step by step |
| `AuditVariant` | ID/order audit | pure functions of the outcome of two sorts |
| `RoutingEvaluation` | routers, CLI, and the four modules above together | one batch, one router, one tier: choose, write, validate, audit, score |
| `RoutingProofs` | | the audit's promises and the allocation's, in every evaluation |
| `Sums` | | lemmas about sums over finite sets |
| `ReportPair` | publication of the benchmark's reports | two files that change together, several publishers |
| `Benchmark`, `BenchmarkProofs` | benchmark tool, extends `ReportPair` | what is measured, and of which tree |
| `MC...` | | bounds of the runs |

### AttemptJournal

Variables are the directory (`lock`, `journal`, `submission`), each process
(`me[p]`: a program counter and the code's locals; `result[p]`), the daemons
(`present`, `inflight`, `foreign`) and the contexts (`endpoint`). `home`,
`started`, `restarted` and `faults` are history and bounds.

One action is one control command, one journal write or one file operation,
with the decision the code takes on its outcome. The order of the program
counter is the order of `_reconcile_resource_journal` (2452-2561) and of
`_run_isolated_container_once_locked` (2614-2969):

    load, reconcile_identity, (reconcile_inspect, reconcile_remove,
    reconcile_verify) per role, reconcile_write, reconcile_recheck,
    reconcile_unlink,
    unlink_previous, prepare, write_intent, create_volume, inspect_volume,
    start_helper, inspect_helper, core_dump_policy, run, [best_effort |
    identity, participant_inspect, participant_stop, participant_remove],
    cleanup_identity, (cleanup_inspect, cleanup_remove) per role, finish,
    finish_recheck, finish_unlink, publish

Around them: `Crash` anywhere (the operating system releases the flock),
`LateCreate` (an accepted request is completed or dropped later),
`RestartDaemon`, `Repoint`, `RestoreEndpoint`, `HelperExits`.

Assumptions, all named in comments where they are used:

* a `docker run` that ends by itself leaves no create request open; one that is
  killed, times out or is lost may;
* a context that was repointed does not come back to the lock holder's daemon
  while the lock is held. Otherwise two identity checks could agree around a
  command that reached another daemon, which no check of this kind can see;
* the process crashes, the host does not lose power: what `os.replace` did
  stays done;
* an operator passes `--confirm-daemon-restarted` only after a restart of the
  journal's daemon;
* left out: a corrupt journal and an error of the lock file itself (both end
  like `Unreconciled` and `Contend`), the trust checks on directories, and the
  binding of a result to the ID of its journal (`_bind_cleanup_attempt_id`,
  which `OfficialTier` has).

### CleanupLedger

The journal without daemons, processes and failures: opened before anything is
held, something is held only while it is open in the owner's name, closed only
when nothing is held, a result is on show only while it is closed. The
refinement maps `owner` to the journal's token, `held` to the resources that
exist or may still be created on the attempt's own daemon, `published` to
`submission.json`.

### OfficialTier

`root`, `journal[d]` and `cleaning[d]` for `official/` and `audit/`, `record`,
`residue` (the private work directory is not empty) and a program counter per
evaluator. Exceptions are `me[p].error`; one raised under the snapshot passes
through its removal, as Python's `with` does, and reaches the handler that
writes the record. `RetryVerdict` is the loop of `run_with_retry` on the
history, `AuditVerdict` that of the audit. An attempt returns any result with a
journal left exactly if it says `cleanup_pending`, or none; this is what
`QuietReturnLeavesNoJournal` and `SettledResultIsFinal` of `AttemptJournal`
establish. The audit is always on, as in `main`, and all runs write one record.

### ImageAdmission

A blob is named by what it should contain, `held` says what is in its file, so
hashing is a comparison. `tool` is the measuring program (`select`, `config`,
`layer` by layer, local inspection, `create`, `member` by member of the export
stream, end of the stream, publication); `evaluator` admits an image and inspects
it again before every attempt. Between any two steps `Pull` changes what Docker
has under a digest, `ReplaceBlob` and `Relist` change the layout. `Engines` are
the four ways Docker answers: whether it can select a platform, whether it keeps
several platforms under a digest, whether it may leave the platform blank. A tar
stream is a sequence of member sizes that may be cut off anywhere.

`LabelsAreTrue` is an assumption about registries, not about the code: for a
Docker that keeps one image under a digest, no image of an index that is for the
official platform stands under the label of another. Such a Docker starts
whichever image it has if its own platform is right, and nothing in the code
compares the container with the manifest that was measured. Without the
assumption TLC finds a counterexample to `AdmittedFits`: an index that lists
under `arm64` an image that fits and under `amd64` a larger one whose
configuration says `arm64` too. An image of another platform under the official label is
allowed, and in the run.

### Protocol, Scoring, Allocator, AuditVariant, RoutingEvaluation

`Protocol` and `Scoring` are operators on records. Decimals are integers of their
smallest unit, which the scorer's 160 digits justify; the form of a JSON text is
one outcome, a file that does not load. `RoutingEvaluation` has the state: the
batch, the policy and artifact files, the submission files, the audit's two
permutations. Its `stage` goes route, [search steps of `Allocator`], written,
accepted or rejected, [variant, reroute, audited], checked. Predictions are
exact: what a public router predicts for an episode is its outcome. Where the
batch or a file is wrong, one thing is wrong with it. The HMAC sorts of the audit
yield some permutation, so every permutation is taken; that a row's prediction
does not depend on the rows of its ONNX batch (`e5_encoder.py` 128-131) is assumed. `Allocator` counts scores,
costs and penalties in units of the last halving, so its comparisons are exact;
the code's doubles are not modelled.

### Benchmark, ReportPair

`Benchmark` extends `ReportPair`: a process that has measured everything becomes
a publisher of the pair. `tree` is the content of the source tree, `tag` the one
from which the image behind the tag was built; `Edit` and `Build` change them at
any time. In `ReportPair` a file is the number of the report in it, and one
action is one file operation with the bookkeeping after it; an interrupt between
the two, and what a power loss would undo, are not modelled. Two auxiliary
variables record what the code does not promise, and guard no step. `unguarded`:
a rollback whose marker was already gone (the last directory sync, line 2021,
failed) was cut short by a crash or a failure while it moved the files, or met
another publication, at work or dead with its marker left. From then on the four
properties of the pair promise nothing. Such a rollback that goes through undisturbed is part of what
the properties promise; it may undo a newer pair that was completed meanwhile.
`spoiled`: publications whose rollback failed itself (its `finally` then deletes
the backups; the marker stays). `RecoverPair` is the operator the refusal's
message asks to review the pair; he does it while no benchmark runs. The container
that measures an image's size is part of the step `MeasureImage` and not counted
among those alive, and an image's label always names the tree it was built from.

### MeasurementJournal, Tiebreak, RouterRun

* `MeasurementJournal`: the journal is created with `os.link` (fails if there
  is one), confirmed with `os.replace` (does not look), removed with `unlink`.
  `ConcurrentCleanup` and `Repointing` switch what the operator does, and
  `careless` remembers that he did.
* `EvidenceLedger`: the same directory without daemons, processes and failures.
  The refinement maps `owner` to the journal's measurement, `held` to the
  measurements whose container exists or may still be created, `published` to
  the evidence. Until somebody is careless the ledger is kept like that of an
  attempt; from then on owner and held may be anything (`Confuse`), except that
  the measurement of the published evidence stays out of both.
* `Tiebreak`: rounds 0 (warm-up) to `Runs` in each tier, offset of the list,
  place in it. `sorted` and `rows.sort` are chosen by their result, which is the
  only one. An attempt is one step. The clock check on a valid result is left out:
  the real runner always sets the time.
* `RouterRun`: the evaluator's program counter follows
  `_run_prepared_router_once` (unlink, launch, poll, drain, limits, [terminate,
  grace, reap], final, judge, [extract], inspect, hash, load); `mode` is the
  host interface, the container, or `_run_control_command`, which is the same
  loop without a file. Pipes are counters of bytes, capped above the limit; a
  signal is an action of the evaluator, exits are actions of the child. The
  final drain of the code has 8 rounds of 64 KiB for a pipe of 64 KiB; the
  model needs `PipeCapacity <= FinalRounds * Chunk` only. A descendant that exchanges the output
  for a link or a FIFO after `InspectOutput` is left out. A read error on a
  pipe, which the code takes for end of file, is left out: with one,
  `EmissionCounted` could not be promised. An attempt of `AttemptJournal` sees
  a run as one step with the outcomes of this module.

## 3. Runs

| Run | Instance | Shows |
|---|---|---|
| `attempt_safety` | 2 processes, 2 daemons, 1 context, 2 attempts, 2 faults, at most one foreign name | `JournalCoversResources`: no resource exists, or can still come to exist, that no journal names. `SettledResultIsFinal`: a result without `cleanup_pending` has left nothing. `SubmissionAfterCleanup`, `QuietReturnLeavesNoJournal`, `ForeignUntouched`, and `ImplementsLedger` (refinement) |
| `attempt_recovery` | 1 process, 2 daemons, 2 contexts, 1 attempt, 3 faults | `PendingResolved`: the recovery procedure of OPERATIONS.md resolves every journal |
| `tier_safety` | 2 evaluators, cleanup command on both directories, 2 journals, 2 faults | no attempt beside a pending journal; exit 0 is clean; a pending journal is not hidden by a score |
| `tier_retry` | 1 evaluator, 3 participant attempts, 3 operator failures (the code's defaults) | `HistoryJustifiesRecord`, `EveryRunEnds`. 1,174,992 states |
| `tier_detail` | 1 evaluator, 1 journal, 1 fault | finding 1 |
| `measurement_safety` | 2 measurements, 2 faults, cleanup at any time, repointing | until the operator is careless (a cleanup beside a measurement, a repointed context) every container is named by the journal, which stays while unsure; always: evidence or a rejection means that nothing was left, and published evidence is never replaced and nothing of its measurement comes back (`EvidenceLedger` is implemented) |
| `measurement_overlap` | the same without repointing | finding 2 |
| `router_run` | pipes of 2 bytes, reads of 1, 2 final rounds, limit 1, each time limit 1 tick | `RunEnds`; `EmissionCounted`, `ValidOutputIsOwn`, `NoChildLeft` |
| `routing` | up to 3 episodes from 6 rows, 4 from 2 rows; 5 policies and 6 that do not parse, 2 artifacts; 5 halvings, penalties up to 2^4; `other` routers, second runs and audits up to 3 episodes | `BestWithinBudget`, `LeastPenalty`: the allocation is the best for its cost, within budget, and its penalty the least. `EveryIdMoves`, `IdRouterCaught`, `NoFalseAlarm`: the audit catches who decides by ID and passes who decides by content, the repository's own routers among them. `ValidatorsAgree`: operator and scorer accept the same files. `PublicRouterKeepsItsPoints`, `ScoredAsDecided`. 220,138 states |
| `benchmark` | 2 benchmarks, 2 trees, 3 reports, 2 faults | one publisher at a time; no marker, no mixed pair; a failed publication restores the old pair, which is never lost while the marker stands (but for what `unguarded` records); a published report is about one tree (`ReportFromOneTree`) and its containers ran one by one. 462,986 states |
| `image_admission` | 8 sets of submitted digests over 8 image variants, 4 engines, 2 pulls, 1 exchange in the layout | `EvidenceTrue`: published evidence states the true sizes of the one official image. `AdmittedFits`: whatever runs, in any attempt, fits. `RejectedForAReason`: the final verdict falls only on an image that deserves it. 585,955 states |
| `tiebreak` | 3 candidates, 2 tiers, 3 runs, 2 failures | places balanced, every container accounted for, ranking justified |

Why the bounds are enough: two processes and two attempts give an attempt that
inherits the journal of another and a cleanup command between them; two faults
give a failure whose handling fails (create times out and the process dies;
the journal write fails after the replace and the context moves). Four
episodes are the first size at which a permutation without fixed points need
not be one cycle; the theorems of `RoutingProofs` cover every size. Three
candidates are the first number at which a joint rank has somebody behind it,
three runs the first at which a median drops samples. The rows of `routing`
include ties, scores that fall with cost and an upgrade no penalty within the
bound stops, so the fallback and the doubling limit happen; the policies include
one that is cheaper than all-light, one with free tokens and one whose light
model is not the first. Two trees are enough for a change and a change back, two
benchmarks for an image tag moved in between and for publications that meet.
The limits of `image_admission` are 2 bytes of layers and of files, 4 of
stream and 3 members, and each variant is at or one over exactly one of them; two
pulls give a good image that was replaced and restored, or replaced twice.

Every property of a passing run is broken by a mutant: a definition with the
comment "A bug of the code" that replaces the one after it. They are the bugs
the properties are there to catch (a lock not taken, absence taken for removal,
the wrong retry counter, a list not rotated).

`CHECK_DEADLOCK FALSE` is set where the programs end: `routing`, `benchmark` (all
reports published), `image_admission`, `tiebreak` and `router_run`.

### Fairness

* `attempt_recovery`: weak fairness of the steps of a process, since every
  control command has a time limit and every other step is a local operation;
  strong fairness of restarting the daemon, pointing the context back and
  running `router-cleanup-resources --confirm-daemon-restarted`, which is the
  procedure OPERATIONS.md (235-254) asks of the operator. Strong, because
  another process may hold the lock in between. Crashes and failures are bounded.
* `tier_retry`: weak fairness of an evaluator's own steps. The cleanup command
  has none: the evaluator must end even if that command never does.

* `router_run`: weak fairness of the evaluator's steps and of time. The child
  and its descendants have none: they may hang, ignore signals and hold the
  pipes for ever.

### Findings

1. `PendingDetailKept`: OPERATIONS.md 256-257 keeps the detailed record of the
   attempt whose journal is left. A later run that fails before it looks at the
   journals overwrites it (`orchestrator.py` 1135-1157).
2. `JournalKeptWhileUnsure` under concurrent cleanup: the confirmed journal of
   one measurement replaces the journal of another (`image_evidence.py` 430).

Worth knowing, though no run is spent on it:

* `--confirm-daemon-restarted` removes the journal of a measurement when the
  Engine ID differs (`image_evidence.py` 768), without looking for the
  container: with `ConcurrentCleanup = FALSE` and `Repointing = TRUE`,
  `JournalKeptWhileUnsure` fails although no commands overlap. The docstring
  (755) says "label-check and remove only the resource named"; the command
  relies on the operator's word instead.
* `_publish_report_pair` answers a failure of its last directory sync by rolling
  back the complete pair although the marker is already gone
  (`tools/benchmark_runtime.py` 2021); a crash in that rollback leaves an
  unmarked pair that does not match, and nothing keeps another publication away
  from it.
* `_terminate_process_group` (`runtime.py` 353) waits for the child alone, so
  another process of its group that ignores SIGTERM survives if the child exits
  on it. `docker run` has no such companion.
* `cli self-check` does not compare a file's name with the tier in it, so it can
  score what the operator rejects (`ValidatorsAgree` says when).
* A policy whose rates are all zero parses, and scoring then fails because
  all-light costs nothing.
* `_always_light` writes its three files one after another; a failure leaves some.
* The heuristic's premium choice is `ax31` for everything and asks no budget; with
  a policy other than the bundled one it can be over it.
* Declared volumes are looked at before platform and ID (`RejectedForAReason`): a
  Docker that cannot select a platform may answer for another platform's image,
  and the submission is then rejected (exit 6), where ENFORCEMENT.md 74-75 calls
  unmatched evidence an infrastructure failure. The limits on the export
  stream and on its members reject too.
* The preflight compares an image's `Id` with the config digest only, which a
  Docker with the containerd store does not report.
* A tar stream cut off at a member's boundary is noticed by the exit code of
  `docker export` alone.
* A benchmark on the host can measure another tree if it was changed and changed
  back before the last manifest; artifact hashes are read after that manifest; a
  context switch after the first probe goes unnoticed; a container that timed out
  with an empty cidfile is left behind; two benchmarks may measure beside each
  other.

## 4. Proofs

`AttemptProofs` first proves, for every number of processes, daemons, contexts
and attempts, from `AttemptJournalAssumption` alone:

* `Invariance`: the inductive invariant `IInv`;
* `TypeCorrect`: `Spec => []TypeOK`;
* `LockExcludes`: two processes are never inside the protocol together;
* `SubmissionOnlyAfterCleanup`: `Spec => []SubmissionAfterCleanup`.

`TypeOK` is not inductive: that `started` stays within its bound depends on where
the lock's holder is, and that no other process moves depends on the lock.
`IInv` adds `LockInv` (only the holder of the lock is not idle), `ProcInv` (what
the locals promise at each place: the role is one of the three, a token has been
read, no journal exists before the intent is written and after it is removed)
and `JournalInv` (a journal names a daemon, and no submission lies beside it).
The proof has one lemma per action. The steps of the lock's holder share
`BecomeInv` and `ReturnInv`, which say what a new local state has to promise;
steps of the world share `WorldInv`.

It goes on from `IInv` to the resources, still from
`AttemptJournalAssumption` alone: `ResourceInvariance`, `NoOrphans`
(`Spec => []JournalCoversResources`) and `ResultsAreFinal`
(`Spec => []SettledResultIsFinal`). Neither property is inductive: that the journal
may go depends on what every step before it saw. `RInv` adds

* `WorldRes`: a role of an attempt is requested once, on whatever daemon the
  context reached; a role the journal calls observed has no open request; after
  a restart the journal's attempt has none at all. That is why absence proves
  removal only of what was observed, or after a confirmed restart;
* `PlaceRes`, for the holder of the lock: what the locals say of each other
  (`LocalRes`), of the journal (`JournalRes`) and of the resources
  (`ResourceRes`): at each place, which roles may be left on the attempt's own
  daemon as long as the context reaches it, and that an attempt with nothing
  pending has no open request;
* `ResultRes`: a settled attempt has no journal and will not write one.

Last, it proves `LedgerImplemented` (`Spec => ImplementsLedger`): each
action is a step of `CleanupLedger` or changes nothing it shows, with one lemma for
each kind of step (release, hold, close, open, publish or withdraw). It also proves the two
action properties. `QuietReturns` looks at every return: before the journal is
written, after it was removed, or with `cleanup_pending`. `ForeignNamesUntouched`
needs one more invariant, `NamesApart`: at the two places that remove by name, the
name was seen with the attempt's label and is nobody else's, unless the context
has left the daemon; it does not come back while the lock is held, which is the
assumption named above.

`ContainerProofs` has two parts, of two specifications that share nothing. The
first proves `EvidenceIsTrue`, `AdmittedImagesFit` and `RejectionsHaveReasons` from
`ImagesAreKnown` and `LabelsAreTrue`, for every set of images, digests and ways
Docker answers, every limit, and any number of changes of the cache and the
layout. `AdmissionInv` says that from the manifest on the measuring program knows of one
image, the only one its digest names for the official platform
(`SelectedIs`: either the root blob was hashed and is the manifest, or the index
was hashed and has one candidate); that its two loops have added up the layers
and members before the present one (`Upto`), below every limit; that a container
is of that image (`StartedIs`); that evidence is true of an image that fits; and
that an evaluator past `resolve` was admitted on evidence for its own digest. The
layout may change at any time because no blob is used that was not hashed, the
cache because a digest can only start its own image. A sum never decreases
(`UptoBelow`), so a loop that stops above a limit has found an image above it
(`DeservedBlame`): the rejection has its reason. A stream that was cut off does not
get to `validate`, since only the whole stream ends with exit code 0.

The second part proves, from `RouterRunAssumption` alone, the four safety
properties of `router_run` for every capacity, read size, number of rounds and
limit: `TypeCorrect`, `EmissionNeverMissed`, `ValidResultIsOwn` and
`ReturnsWithoutChild`. What has to be strengthened is `EmissionCounted`. `PipeInv`
says that nothing is lost between pipe and capture and that a stream leaves the
selector only when no writer is left; `DrainInv` that after `n` rounds at most
`PipeCapacity - n * Chunk` of the child's bytes are still in a pipe. A round that
finds less than a chunk empties the pipe, and the last one leaves nothing,
whatever a descendant writes behind. `RunEnds` is liveness and stays with TLC.

`OfficialTierProofs` proves the four safety properties of the evaluator from
`OfficialTierAssumption` alone, for every number of processes, attempts, journals
and faults. `IInv` adds to the types `RootInv` (only the holder of the root lock
is not idle), `HistoryInv` (at each place, what the two histories are: nothing
before the first attempt, all of it retried and below both limits during the
attempts, a selected history during the audit, a justified verdict on the way
out) and `CleanInv` (from `resolve_image` to the end of a run that scores, no
journal is left in either directory; at `publish` without an error, no private
input). `HistoryJustifiesRecord` is part of the invariant itself, because a run
that finds a pending journal keeps the record it found. A journal can only
appear in an attempt of the holder of the root lock, since a pending result
ends the run; the cleanup command takes journals away and makes none.

`MeasurementProofs` proves the three properties of `measurement_safety` for any
number of processes, daemons, measurements and faults. `IInv` has `TokenInv`
(whose container is which, and a measurement's daemon is the one it began
with), `ContainerInv` (what a measurement knows at its place of its own
container), `ExitInv` (a verdict that was given stays true, whoever acts later)
and, as long as nobody was careless, `CareInv`: every container is the one the
journal names, a journal that is sure has no open request, and a cleanup is
alone. `ContainersNamed` follows from it, and `JournalsKeptByCare`: no step takes the
journal away while its container is there or may come, which TLC checks as part of
the refinement (`Close` needs an empty ledger). Most steps share `Moves`, `Touches`,
`Writes` and `Reports`, which say what a step of one process may change at all.
`EvidenceLedgerImplemented` is the refinement of `EvidenceLedger`. Before anybody is careless it rests on `CareInv`: a journal is
published, and taken away, with nothing held. Afterwards it needs `EvidenceInv`: the
measurement of the evidence is `Over` (no process, container, request or journal
has its token), and one that is about to publish is in no journal. `Works` says why
that stays: a process makes no container and writes no journal but its own.

`TiebreakProofs` proves `EveryRunAccounted`, `PositionsBalanced` and `RankingJustified`
for every number of candidates, tiers, runs and failures, from `TiebreakAssumption`. `AccountInv` says
for each candidate and tier how many warm-ups and measured runs it has had: who
is `Ahead` in the present round follows from the rotation, which takes every
candidate to one place. `PlaceInv` counts places: in `n` rounds a candidate was in
place `k` in every `Candidates`-th of them, so two places differ by one at most.
Neither holds by symmetry: `Runs` need not be a multiple of `Candidates`.

`RankingJustified` needs what the two sorts of the code return, for every list.
`SortedExists` puts any finite collection of numbers in order: each value takes the places after
those of the smaller values, and `BlockOf` finds the value of a place. Of an odd number
of samples in order, the middle one is the only value that a majority is not above and a
majority not below (`MiddleOfSorted`: two majorities of the places would
meet), so the median the code takes is the one the property asks for
(`MedianIsMiddle`). `ListedInOrder` lists the candidates by the number of those
that do not come after them; with `RankCounts` the first row with a comparison
time stands after exactly the candidates with lower ones. `Rounding` carries order and distance
from the totals to the comparison times. `EveryRunAccounted` is what makes this about
the code: without all `Runs` samples of a tier there would be no middle.

`RoutingProofs` proves the audit for batches of every size,
from `EvaluationAssumption` and `RowsAssumption`: `EveryIdAlwaysMoves`,
`IdRoutersAreCaught`, `ContentRoutersPass`. The core is `OneCycle`: a set of episodes
closed under the assignment is empty or everything. Induction over the cycle is
replaced by the least place in the sorted order that is not in the set, which exists because `<` on the
naturals is well-founded (`WFMin`, which takes no operator parameter). `AuditInv` says that
whatever is audited was made from two sorts of the batch.

It also proves the allocation, for every batch, ratio and number of search steps.
`AllocInv` says of both searches that `selected` is the choice of the upper penalty,
that no penalty up to the lower one is within budget, and how wide the bracket
is: `g` times a power of two that halves with every step, where `g` units are no more
than the lower end (`Bracket`). `BestWithinBudget` then is the Lagrange argument:
a selection that scores more and costs no more would be worth more under the
penalty in at least one row (`SumMonotone`), where `Choose` took the best.
`LeastPenalty` needs that a higher penalty never chooses a dearer model. The
sums are folds of the community modules; `Sums` proves that the recursive
functions behind them exist and what a sum is, by induction on a set: of the
finite sets for which a statement fails there is a smallest one (`SmallestSet`,
from `LeastElement` and the well-foundedness of `<`), which takes no operator as
a parameter.

`NoFalseAlarm` compares the allocation of a batch with that of its permuted variant,
made later from other variables. `Steps` is the search without the variables of the
model, and `Reaches` a run of it from the start; every action of `Allocator` is a step
(`AllocateSteps`), so `OwnInv` can keep that the answers of the first run are those
of a finished search on the rows as they were. Two such runs mirror each other
(`StepTwin`, `RunTwin`): a permuted sum is the same sum (`SumPermuted`), and the best offer
for a row is unique, because the cheaper model wins a tie. Since nothing follows
`done`, they end together (`ResultTwin`).

`ScoredAsDecided`, `ValidatorsAgree` and `PublicRouterKeepsItsPoints` follow the files through
the parsers and the scorer, for batches of every size. `EvalInv` has what there is
to parse: always-light files but for the one of the tier, or two that changed
places (`FilesMade`), each an array of objects, so that a changed entry is still
compared entry by entry; the verdict and the report are functions of the files as
they are; and what a public router wrote is what its finished search selected
(`PublicOK`). From it, step by step: what was written without a fault loads
(`InputParses`, `OutcomesParse`), and what has one thing wrong does not
(`BadInputFails`, `BadOutcomeFails`); a file that loads and has the IDs of the batch says one model
for every episode (`Says`), because as many decisions as episodes with no ID
twice are a bijection; the scorer's three folds are then sums of `TrueCost` and score over the
batch (`ScoreTierIs`); a report is scored exactly when the files load, claim the
three tiers and are complete (`ReportIs`). For the public router the scorer's cost and
baseline are the allocator's (`SameSums`, `SameBaseline`), and the margin of
`WithinBudget` is inside the multiplier (`MarginIsWithin`).

This takes one assumption more, `ExactPredictions`: scores are at most 1, as in outcomes,
and an artifact was fitted for a policy with the bundled light model, with rates
under which the predicted cost of a row is its cost, and with multipliers of at
least 100%. The run's own artifacts satisfy it.
It cannot be dropped: under a multiplier below 100% even all-light, to which the
allocation falls back, loses its points.

`BenchmarkProofs` proves the six properties of `benchmark`, from
`ReportPairAssumption` and `BenchmarkAssumption`, for any number of benchmarks,
trees, reports and faults. `PairInv` has three parts: `Tokens` (a report's number
is used once and not by two processes), `Markers` (who works on the files does so
under his own marker, which only a rollback may miss) and `Contents` (his place
says which file and which backup holds the old report and which the new). A
publication that has removed its marker and may still have to roll back is under
`Contents` too (`Kept`, `Left`): no step of another touches its backups. All this
holds until a rollback without a marker is cut short or meets another
publication. `BenchInv` has `OneTree` (what was measured so far is of the first
manifest's tree, or the tree is not now what it was) and `OneContainer`. Steps of
a benchmark that do not publish leave the pair alone.

Model-checked only, and why:

* liveness (`PendingResolved`, `EveryRunEnds`, `RunEnds`): outside the prover's reach.

## 5. Not modelled

* `public_runtime.py`: composes one fixed batch from the released files and
  compares hashes; it makes no choice.
* E5 encoder and its artifacts, features, quality and cost estimates: numeric
  inference over one prompt and validation of one file. What the allocation
  assumes of their results is `RowsAssumption` of `Allocator`.
* Training: offline numeric optimisation; its one state change is the atomic
  publication of an artifact.
* Baselines, the maintainers' other tools, container build, data, schemas, CI:
  sequential scripts, file in and file out, or no code.
* Floating-point rounding of predictions and of the allocation, the 28 digits in
  which `parse_policy` sums the tiers' weights; the form of JSON, decimal and tar
  texts, the operator's limit of 16 MiB for a submission's output; wording,
  timings and statistics of reports.
* Of the preflight (`tools/preflight_submission_image.py`): the exit code 2 of an
  error, the platform name `aarch64`, and reading the arm64 manifest's digest.
* The helper's checks for a file that changes under it are part of one action:
  nobody writes it by then.

## 6. Plan

In this order:

1. done: attempt protocol with its abstract ledger, evaluator, measurement,
   tiebreak, runs; routers, protocol, audit and scoring as one evaluation; image
   admission; benchmark with its pair of reports.
2. done: every safety invariant and action property the runs check, and the refinements of
   the attempt protocol and of the measurement, are theorems.
3. model the artifact publication of the training tools.
