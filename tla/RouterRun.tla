----------------------------- MODULE RouterRun -----------------------------
(***************************************************************************)
(* _run_prepared_router_once: one child process with two captured pipes,   *)
(* under a time limit, an emission limit and an output size limit, and the *)
(* judgement of what it left.  Host mode writes the output file directly;  *)
(* in contained mode the child is `docker run`, which writes a volume that *)
(* the operator helper extracts.  Descendants of the child may outlive it, *)
(* keep its pipes open and, in host mode, go on writing the file.          *)
(* _run_control_command is the same loop for one Docker command, without a *)
(* file: all that counts is its captured output.                           *)
(***************************************************************************)
EXTENDS Naturals

CONSTANTS
    PipeCapacity,   \* what a pipe holds (64 KiB on Linux)
    Chunk,          \* what one read takes (64 KiB)
    FinalRounds,    \* rounds of the final drain (8)
    EmitLimit,      \* max_log_emitted_bytes
    RunTicks,       \* timeout_seconds
    GraceTicks,     \* termination_grace_seconds
    ReapTicks       \* the wait after SIGKILL (1 s)

\* The final drain can take a full pipe.
ASSUME RouterRunAssumption ==
    /\ {PipeCapacity, Chunk, FinalRounds, EmitLimit, RunTicks, GraceTicks,
        ReapTicks} \subseteq Nat
    /\ Chunk > 0 /\ FinalRounds > 0 /\ RunTicks > 0
    /\ PipeCapacity <= FinalRounds * Chunk

VARIABLES
    mode,       \* host, contained or control: what the child is
    pc,         \* where the evaluator is
    timer,      \* time left of the limit the evaluator is under
    leader,     \* the child: none, running, stuck in the kernel, ok, failed
    mate,       \* a descendant: none, in the child's group, or detached
    pipe,       \* bytes waiting in each pipe
    reading,    \* streams registered with the selector
    total,      \* bytes captured of each stream, up to EmitLimit + 1
    emitted,    \* bytes written while the child ran, up to EmitLimit + 1
    out,        \* the output file
    volume,     \* what the output volume holds
    late,       \* a descendant wrote the output file after the child's end
    failure,    \* why the evaluator ends the child
    rounds,     \* rounds of the final drain so far
    result      \* kind of the AttemptResult, and the file it was loaded from

vars == <<mode, pc, timer, leader, mate, pipe, reading, total, emitted,
          out, volume, late, failure, rounds, result>>
pipeVars == <<pipe, reading, total, emitted>>
fileVars == <<out, volume, late>>
childVars == <<leader, mate>>

-----------------------------------------------------------------------------
Streams == {"stdout", "stderr"}
\* odd: a symlink, a directory, or another entry beside submission.json.
\* stale: the valid submission an earlier run left under this name.
Written == {"odd", "good", "bad", "big"}
Files == Written \cup {"none", "stale"}
Failures == {"none", "timeout", "emission", "size", "io", "pipes"}
Modes == {"host", "contained", "control"}
Kinds == {"none", "valid", "completed", "execution", "infrastructure"}
NoResult == [kind |-> "none", file |-> "none"]
Places == {"unlink", "launch", "poll", "drain", "limits", "terminate", "grace",
           "reap", "final", "judge", "extract", "inspect", "hash", "load",
           "done"}

LeaderAlive == leader \in {"running", "stuck"}
HasWriter == LeaderAlive \/ mate # "none"
Exceeded == \E s \in Streams : total[s] > EmitLimit
Least(a, b) == IF a < b THEN a ELSE b
Counted(n) == Least(n, EmitLimit + 1)

At(place) == pc = place
Goto(place) == pc' = place
Settle(kind, file) ==
    /\ Goto("done")
    /\ result' = [kind |-> kind, file |-> file]
Fails(why) == failure' = why /\ Goto("terminate")

-----------------------------------------------------------------------------
(* Before the child.                                                       *)

\* (A bug of the code: the output of an earlier run stays.)
UnlinkNothing ==
    /\ At("unlink")
    /\ UNCHANGED <<mode, timer, childVars, pipeVars, fileVars, failure,
                   rounds>>
    /\ Goto("launch") /\ UNCHANGED result

UnlinkStale ==
    /\ At("unlink")
    /\ UNCHANGED <<mode, timer, childVars, pipeVars, volume, late, failure,
                   rounds>>
    /\ \/ out' = "none" /\ Goto("launch") /\ UNCHANGED result
       \/ UNCHANGED out /\ Settle("infrastructure", "none")

\* Popen, then the pipes: set_blocking or register may fail with the child
\* running already.
Launch ==
    /\ At("launch")
    /\ UNCHANGED <<mode, mate, pipe, total, emitted, fileVars, rounds>>
    /\ \/ /\ leader' = "running" /\ reading' = Streams /\ timer' = RunTicks
          /\ Goto("poll") /\ UNCHANGED <<failure, result>>
       \/ /\ leader' = "running" /\ Fails("pipes")
          /\ UNCHANGED <<reading, timer, result>>
       \/ /\ Settle("infrastructure", "none")
          /\ UNCHANGED <<leader, reading, timer, failure>>

-----------------------------------------------------------------------------
(* The loop on process.poll().                                             *)

Poll ==
    /\ At("poll")
    /\ UNCHANGED <<mode, timer, childVars, pipeVars, fileVars, result, rounds>>
    /\ \/ ~LeaderAlive /\ Goto("final") /\ UNCHANGED failure
       \/ LeaderAlive /\ timer = 0 /\ Fails("timeout")
       \/ LeaderAlive /\ timer > 0 /\ Goto("drain") /\ UNCHANGED failure

\* _drain_ready_pipes: one read of every ready stream; end of file, which needs
\* every writer gone, unregisters the stream.
Taken(s) == IF s \in reading THEN Least(Chunk, pipe[s]) ELSE 0
DrainReady ==
    /\ pipe' = [s \in Streams |-> pipe[s] - Taken(s)]
    /\ total' = [s \in Streams |-> Counted(total[s] + Taken(s))]
    /\ reading' = {s \in reading : pipe[s] > 0 \/ HasWriter}
    /\ UNCHANGED emitted

Drain ==
    /\ At("drain")
    /\ DrainReady
    /\ Goto("limits")
    /\ UNCHANGED <<mode, timer, childVars, fileVars, result, failure, rounds>>

\* The output file is looked at in host mode only (monitor_output_path).
Limits ==
    /\ At("limits")
    /\ UNCHANGED <<mode, timer, childVars, pipeVars, fileVars, result, rounds>>
    /\ \/ Exceeded /\ Fails("emission")
       \/ ~Exceeded /\ mode = "host" /\ out = "big" /\ Fails("size")
       \/ ~Exceeded /\ mode = "host" /\ Fails("io")
       \/ /\ ~Exceeded /\ (mode # "host" \/ out # "big")
          /\ Goto("poll") /\ UNCHANGED failure

-----------------------------------------------------------------------------
(* _terminate_process_group.  Signals reach the child's group, not what has *)
(* left it.  It is the child alone whose end is waited for.                *)

Ended == IF failure = "pipes" THEN "judge" ELSE "final"

\* After SIGTERM the child and the others of its group may exit, or go on.
Terminate ==
    /\ At("terminate")
    /\ UNCHANGED <<mode, childVars, pipeVars, fileVars, result, failure,
                   rounds>>
    /\ \/ ~LeaderAlive /\ Goto(Ended) /\ UNCHANGED timer
       \/ LeaderAlive /\ Goto("grace") /\ timer' = GraceTicks

\* (A bug of the code: no SIGKILL after the grace period.)
GraceOnly ==
    /\ At("grace") /\ (~LeaderAlive \/ timer = 0)
    /\ Goto("reap")
    /\ UNCHANGED <<mode, timer, childVars, pipeVars, fileVars, result,
                   failure, rounds>>

\* SIGKILL ends the whole group, but a child stuck in the kernel stays.
Grace ==
    /\ At("grace")
    /\ UNCHANGED <<mode, pipeVars, fileVars, result, failure, rounds>>
    /\ \/ ~LeaderAlive /\ Goto(Ended) /\ UNCHANGED <<childVars, timer>>
       \/ /\ LeaderAlive /\ timer = 0
          /\ leader' \in {"failed", "stuck"}
          /\ mate' = IF mate = "group" THEN "none" ELSE mate
          /\ timer' = ReapTicks /\ Goto("reap")

Reap ==
    /\ At("reap")
    /\ ~LeaderAlive \/ timer = 0
    /\ Goto(Ended)
    /\ UNCHANGED <<mode, timer, childVars, pipeVars, fileVars, result,
                   failure, rounds>>

-----------------------------------------------------------------------------
(* _finalize_pipe_capture and the judgement.                               *)

\* (Bugs of the code: one round only; wait for end of file.)
LastRoundAtOnce(n, drained) == TRUE
LastRoundAtEof(n, drained) == reading' = {}
LastRound(n, drained) == n = FinalRounds \/ drained = 0

FinalDrain ==
    /\ At("final")
    /\ DrainReady
    /\ UNCHANGED <<mode, timer, childVars, fileVars, result, failure>>
    /\ LET drained == Taken("stdout") + Taken("stderr")
       IN \/ /\ LastRound(rounds + 1, drained)
             /\ Goto("judge") /\ UNCHANGED rounds
          \/ /\ ~LastRound(rounds + 1, drained)
             /\ UNCHANGED pc /\ rounds' = Least(rounds + 1, FinalRounds)

JudgeControl ==
    /\ mode = "control"
    /\ IF failure # "none" \/ Exceeded THEN Settle("infrastructure", "none")
       ELSE Settle("completed", "none")

JudgeRouter ==
    /\ mode # "control"
    /\ \/ /\ failure \in {"timeout", "emission", "size"}
          /\ Settle("execution", "none")
       \/ failure \in {"io", "pipes"} /\ Settle("infrastructure", "none")
       \/ failure = "none" /\ (Exceeded \/ leader = "failed")
          /\ Settle("execution", "none")
       \/ /\ failure = "none" /\ ~Exceeded /\ leader = "ok"
          /\ Goto(IF mode = "contained" THEN "extract" ELSE "inspect")
          /\ UNCHANGED result

Judge ==
    /\ At("judge")
    /\ UNCHANGED <<mode, timer, childVars, pipeVars, fileVars, failure,
                   rounds>>
    /\ JudgeControl \/ JudgeRouter

\* docker exec of the helper's extract: refuses all but one regular file within
\* the limit, else puts the result in place with one os.replace.  A call that
\* fails may have done so.
Extract ==
    /\ At("extract")
    /\ UNCHANGED <<mode, timer, childVars, pipeVars, volume, late, failure,
                   rounds>>
    /\ \/ /\ volume \in {"none", "odd", "big"}
          /\ UNCHANGED out /\ Settle("execution", "none")
       \/ /\ volume \in {"good", "bad"}
          /\ out' = volume /\ Goto("inspect") /\ UNCHANGED result
       \/ /\ out' \in {out} \cup ({volume} \cap {"good", "bad"})
          /\ Settle("infrastructure", "none")

InspectOutput ==
    /\ At("inspect")
    /\ UNCHANGED <<mode, timer, childVars, pipeVars, fileVars, failure,
                   rounds>>
    /\ \/ out \in {"none", "odd"} /\ Settle("execution", "none")
       \/ out \notin {"none", "odd"} /\ Settle("infrastructure", "none")
       \/ out = "big" /\ Settle("execution", "none")
       \/ /\ out \notin {"none", "odd", "big"}
          /\ Goto("hash") /\ UNCHANGED result

HashOutput ==
    /\ At("hash")
    /\ UNCHANGED <<mode, timer, childVars, pipeVars, fileVars, failure,
                   rounds>>
    /\ \/ Goto("load") /\ UNCHANGED result
       \/ Settle("infrastructure", "none")

\* load_submission and validate_runtime_submission; a file that grew since the
\* size check may be valid all the same.
LoadOutput ==
    /\ At("load")
    /\ UNCHANGED <<mode, timer, childVars, pipeVars, fileVars, failure,
                   rounds>>
    /\ \/ out \in {"good", "stale", "big"} /\ Settle("valid", out)
       \/ out \in {"none", "odd", "bad", "big"} /\ Settle("execution", "none")

-----------------------------------------------------------------------------
(* The child, its descendants, and time.                                   *)

LeaderExits ==
    /\ \/ leader = "running" /\ leader' \in {"ok", "failed"}
       \/ leader = "stuck" /\ leader' = "failed"
    /\ UNCHANGED <<mode, pc, timer, mate, pipeVars, fileVars, result, failure,
                   rounds>>

Spawn ==
    /\ leader = "running" /\ mate = "none"
    /\ mate' \in {"group", "detached"}
    /\ UNCHANGED <<mode, pc, timer, leader, pipeVars, fileVars, result,
                   failure, rounds>>

MateExits ==
    /\ mate # "none" /\ mate' = "none"
    /\ UNCHANGED <<mode, pc, timer, leader, pipeVars, fileVars, result,
                   failure, rounds>>

Emit(s) ==
    /\ leader = "running" \/ mate # "none"
    /\ pipe[s] < PipeCapacity
    /\ pipe' = [pipe EXCEPT ![s] = @ + 1]
    /\ emitted' = IF LeaderAlive THEN [emitted EXCEPT ![s] = Counted(@ + 1)]
                  ELSE emitted
    /\ UNCHANGED <<mode, pc, timer, childVars, reading, total, fileVars,
                   result, failure, rounds>>

\* The participant's container ends with its first process, and `docker run`
\* returns after it.
WriteOutput(f) ==
    /\ \/ mode = "contained" /\ leader = "running" /\ volume' = f
          /\ UNCHANGED <<out, late>>
       \/ /\ mode = "host" /\ (leader = "running" \/ mate # "none")
          /\ out' = f
          /\ late' = (late \/ ~LeaderAlive) /\ UNCHANGED volume
    /\ UNCHANGED <<mode, pc, timer, childVars, pipeVars, result, failure,
                   rounds>>

Tick ==
    /\ timer > 0 /\ ~At("done")
    /\ timer' = timer - 1
    /\ UNCHANGED <<mode, pc, childVars, pipeVars, fileVars, result, failure,
                   rounds>>

-----------------------------------------------------------------------------
Init ==
    /\ mode \in Modes
    /\ pc = IF mode = "control" THEN "launch" ELSE "unlink"
    /\ timer = 0
    /\ leader = "none" /\ mate = "none"
    /\ pipe = [s \in Streams |-> 0]
    /\ reading = {}
    /\ total = [s \in Streams |-> 0]
    /\ emitted = [s \in Streams |-> 0]
    /\ out \in IF mode = "control" THEN {"none"} ELSE {"none", "stale"}
    /\ volume = "none"
    /\ late = FALSE
    /\ failure = "none"
    /\ rounds = 0
    /\ result = NoResult

Evaluator ==
    \/ UnlinkStale \/ Launch \/ Poll \/ Drain \/ Limits \/ Terminate \/ Grace
    \/ Reap \/ FinalDrain \/ Judge \/ Extract \/ InspectOutput \/ HashOutput
    \/ LoadOutput

\* The model ends when the run returns.
Child ==
    /\ ~At("done")
    /\ \/ LeaderExits \/ Spawn \/ MateExits
       \/ \E s \in Streams : Emit(s)
       \/ \E f \in Written : WriteOutput(f)

Next == Evaluator \/ Child \/ Tick

Spec == Init /\ [][Next]_vars

\* The evaluator goes on and time passes; the child and its descendants need
\* do nothing at all.
FairSpec == Spec /\ WF_vars(Evaluator) /\ WF_vars(Tick)

-----------------------------------------------------------------------------
TypeOK ==
    /\ mode \in Modes
    /\ pc \in Places
    /\ timer \in 0..RunTicks \cup 0..GraceTicks \cup 0..ReapTicks
    /\ leader \in {"none", "running", "stuck", "ok", "failed"}
    /\ mate \in {"none", "group", "detached"}
    /\ pipe \in [Streams -> 0..PipeCapacity]
    /\ reading \subseteq Streams
    /\ total \in [Streams -> 0..EmitLimit + 1]
    /\ emitted \in [Streams -> 0..EmitLimit + 1]
    /\ out \in Files /\ volume \in Files
    /\ late \in BOOLEAN
    /\ failure \in Failures
    /\ rounds \in 0..FinalRounds
    /\ result \in [kind : Kinds, file : Files]

\* The run ends whatever the child does: ignore signals, hang in the kernel,
\* flood its pipes, or leave a descendant that keeps them open.
RunEnds == <>At("done")

\* A run is valid, and a control command's output is used, only if all that the
\* child wrote until its end was captured and is within the limit, also what it
\* wrote right before its end and nobody had read by then.
EmissionCounted ==
    result.kind \in {"valid", "completed"} =>
        \A s \in Streams : emitted[s] <= total[s] /\ total[s] <= EmitLimit

\* A valid result was loaded from what this run wrote, within the size limit,
\* unless a descendant wrote the file in host mode after the child's end.
ValidOutputIsOwn ==
    result.kind = "valid" => result.file = "good" \/ late

\* A run never returns with its child running, so the next attempt cannot run
\* beside it; only a child the kernel holds on to is left.
NoChildLeft == At("done") => leader # "running"
=============================================================================
