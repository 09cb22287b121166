--------------------------- MODULE AttemptJournal ---------------------------
(***************************************************************************)
(* One output directory of the evaluator (official/ or audit/) and the     *)
(* Docker daemons its control commands reach.                              *)
(*                                                                         *)
(* run_isolated_container_once and router-cleanup-resources both work on   *)
(* the directory under a non-blocking flock.  An attempt writes a cleanup  *)
(* journal naming its three resources before the first Docker mutation and *)
(* removes it after they are gone; whoever finds a journal reconciles it   *)
(* first.  A control command that times out may still be completed by the  *)
(* daemon later, a process may die between any two steps, the context may  *)
(* be repointed to another daemon and a name may already belong to         *)
(* somebody else.                                                          *)
(*                                                                         *)
(* One action is one control command, one journal write or one file        *)
(* operation, together with the decision the code takes on its outcome.    *)
(***************************************************************************)
EXTENDS Naturals

CONSTANTS
    Procs,        \* operating-system processes that work on the directory
    Daemons,      \* Docker Engine IDs
    Contexts,     \* runtime_command values (docker, docker --context c)
    NoProc,       \* the lock is free
    NoDaemon,     \* no Engine ID has been read
    NoContext,    \* no runtime command
    Collisions,   \* the sets of our names that others may happen to bear
    MaxAttempts,  \* bound: attempts started over the directory's life
    MaxFaults     \* bound: failures, crashes and repointings together

VARIABLES
    lock,        \* holder of .ossp-router-resource.lock, or NoProc
    journal,     \* the persisted cleanup journal, or NoJournal
    submission,  \* attempt that published submission.json, 0 if no file
    me,          \* me[p]: where process p is, and its local variables
    result,      \* result[p]: the last result p returned
    present,     \* resources that exist with our label: <<daemon, attempt, role>>
    inflight,    \* create requests a daemon has accepted and not yet finished
    foreign,     \* names of ours that resources with another label bear
    endpoint,    \* endpoint[c]: the daemon context c reaches now
    restarted,   \* the journal's daemon was restarted since the journal was left
    home,        \* home[t]: daemon attempt t read before its first mutation
    started,     \* attempts started so far
    faults       \* faults so far

journalVars == <<journal, submission>>
daemonVars == <<present, inflight>>
worldVars == <<foreign, endpoint, restarted>>
historyVars == <<home, started>>
vars == <<lock, journal, submission, me, result, present, inflight, foreign,
          endpoint, restarted, home, started, faults>>

-----------------------------------------------------------------------------
Roles == {"participant", "helper", "volume"}
Attempts == 1..MaxAttempts
Resources == Daemons \X Attempts \X Roles

ASSUME AttemptJournalAssumption ==
    /\ NoProc \notin Procs
    /\ NoDaemon \notin Daemons
    /\ NoContext \notin Contexts
    /\ MaxAttempts \in Nat \ {0}
    /\ MaxFaults \in Nat
    /\ Collisions \subseteq SUBSET Resources

Journals == [tok : 0..MaxAttempts, ctx : Contexts \cup {NoContext},
             dmn : Daemons \cup {NoDaemon}, observed : SUBSET Roles]
NoJournal == [tok |-> 0, ctx |-> NoContext, dmn |-> NoDaemon, observed |-> {}]

\* AttemptResult.kind; "raised" is an exception that left no result, "ok" and
\* "error" are the two ways router-cleanup-resources ends.
Kinds == {"none", "valid", "execution", "infrastructure", "raised", "ok", "error"}
Results == [tok : 0..MaxAttempts, kind : Kinds, pending : BOOLEAN]
NoResult == [tok |-> 0, kind |-> "none", pending |-> FALSE]

Places == {"idle", "load", "reconcile_identity", "reconcile_inspect",
           "reconcile_remove", "reconcile_verify", "reconcile_write",
           "reconcile_recheck", "reconcile_unlink", "unlink_previous",
           "prepare", "write_intent", "create_volume", "inspect_volume",
           "start_helper", "inspect_helper", "core_dump_policy", "run",
           "best_effort", "identity", "participant_inspect",
           "participant_stop", "participant_remove", "cleanup_identity",
           "cleanup_inspect", "cleanup_remove", "finish", "finish_recheck",
           "finish_unlink", "publish"}
Locals == [pc : Places, mode : {"attempt", "cleanup"},
           ctx : Contexts \cup {NoContext}, confirm : BOOLEAN,
           tok : 0..MaxAttempts, dmn : Daemons \cup {NoDaemon},
           observed : SUBSET Roles, unresolved : SUBSET Roles,
           role : Roles \cup {"end"}, made : SUBSET Roles,
           kind : Kinds, pending : BOOLEAN, terminated : BOOLEAN]
Idle == [pc |-> "idle", mode |-> "attempt", ctx |-> NoContext,
         confirm |-> FALSE, tok |-> 0, dmn |-> NoDaemon, observed |-> {},
         unresolved |-> {}, role |-> "end", made |-> {}, kind |-> "none",
         pending |-> FALSE, terminated |-> FALSE]

\* The order of resources in _reconcile_resource_journal and, for the last
\* two, in _remove_output_workspace.
After(r) == IF r = "participant" THEN "helper"
            ELSE IF r = "helper" THEN "volume" ELSE "end"

-----------------------------------------------------------------------------
(* What a step of a process does to its own state.                         *)

At(p, place) == me[p].pc = place
Fault == faults < MaxFaults /\ faults' = faults + 1
NoFault == UNCHANGED faults

Become(p, l) == /\ me' = [me EXCEPT ![p] = l]
                /\ UNCHANGED <<lock, result>>
Goto(p, place) == Become(p, [me[p] EXCEPT !.pc = place])

\* The process returns a result (or ends) and closes its lock descriptor.
Return(p, kind, pending) ==
    /\ me' = [me EXCEPT ![p] = Idle]
    /\ lock' = NoProc
    /\ result' = [result EXCEPT ![p] =
                    [tok |-> me[p].tok, kind |-> kind, pending |-> pending]]

\* _infrastructure_result: an exception on its way out stays an exception.
AsInfrastructure(k) == IF k = "raised" THEN "raised" ELSE "infrastructure"

\* The result so far becomes an infrastructure failure with cleanup pending.
Suspend(p, place) ==
    Become(p, [me[p] EXCEPT !.pc = place, !.kind = AsInfrastructure(@),
                            !.pending = TRUE])

\* Managed cleanup starts with the helper and goes on to the volume.
EnterCleanup(l) == [l EXCEPT !.pc = "cleanup_identity", !.role = "helper"]
SuspendAndCleanup(p) ==
    Become(p, EnterCleanup([me[p] EXCEPT !.kind = AsInfrastructure(@),
                                         !.pending = TRUE]))

(* What the daemon behind p's runtime command answers.                     *)

Endpoint(p) == endpoint[me[p].ctx]
Name(p, r) == <<Endpoint(p), me[p].tok, r>>
\* (A bug of the code: the label is not compared, a name is enough.)
LabelByName(x) == IF x \in present \cup foreign THEN "own" ELSE "absent"
Label(x) == IF x \in present THEN "own"
            ELSE IF x \in foreign THEN "foreign" ELSE "absent"
SameDaemon(p) == Endpoint(p) = me[p].dmn

\* A create request: done, or reported as failed with nothing made, with the
\* resource made after all, or with the request still open at the daemon.
Created(x) == /\ present' = present \cup {x}
              /\ UNCHANGED inflight
CreateUncertain(x) ==
    \/ UNCHANGED daemonVars
    \/ x \notin foreign /\ Created(x)
    \/ /\ inflight' = inflight \cup {x}
       /\ UNCHANGED present

\* "rm --force NAME" removes whatever bears the name.
Removed(x) == /\ present' = present \ {x}
              /\ foreign' = IF x \in present THEN foreign ELSE foreign \ {x}
              /\ UNCHANGED <<inflight, endpoint, restarted>>

\* _write_resource_journal: temporary file, os.replace, directory fsync; an
\* error can come before or after the replacement.
Written(j) == journal' = j /\ NoFault
WriteFailed(j) == journal' \in {journal, j} /\ Fault

Unlinked == journal' = NoJournal /\ NoFault
UnlinkFailed == journal' \in {journal, NoJournal} /\ Fault

-----------------------------------------------------------------------------
(* Taking the directory lock.                                              *)

Invoke(p, mode, c, confirm) ==
    /\ At(p, "idle")
    /\ lock = NoProc
    /\ mode = "attempt" => started < MaxAttempts /\ ~confirm
    /\ confirm => restarted
    /\ lock' = p
    /\ me' = [me EXCEPT ![p] = [Idle EXCEPT !.pc = "load", !.mode = mode,
                                            !.ctx = c, !.confirm = confirm]]
    /\ result' = [result EXCEPT ![p] = NoResult]
    /\ NoFault
    /\ UNCHANGED <<journalVars, daemonVars, worldVars, historyVars>>

\* LOCK_NB failed: an infrastructure result that never says cleanup_pending.
Contend(p) ==
    /\ At(p, "idle")
    /\ lock # NoProc
    /\ result' = [result EXCEPT ![p] = [tok |-> 0, kind |-> "infrastructure",
                                        pending |-> FALSE]]
    /\ NoFault
    /\ UNCHANGED <<lock, me, journalVars, daemonVars, worldVars, historyVars>>

-----------------------------------------------------------------------------
(* _reconcile_resource_journal                                             *)

\* Reconciliation ends without resolving the journal: the attempt is an
\* infrastructure failure that is pending while the journal exists, the
\* cleanup command exits with code 4.
\* (A bug of the code: a failure like any other, to be retried.)
UnreconciledQuietly(p) ==
    IF me[p].mode = "cleanup" THEN Return(p, "error", FALSE)
    ELSE Return(p, "infrastructure", FALSE)
Unreconciled(p) ==
    IF me[p].mode = "cleanup" THEN Return(p, "error", FALSE)
    ELSE Return(p, "infrastructure", journal'.tok # 0)

Reconciled(p) ==
    IF me[p].mode = "cleanup" THEN Return(p, "ok", FALSE)
    ELSE Become(p, [me[p] EXCEPT !.pc = "unlink_previous", !.tok = 0,
                                 !.dmn = NoDaemon, !.observed = {}])

LoadJournal(p) ==
    /\ At(p, "load")
    /\ UNCHANGED <<journalVars, daemonVars, worldVars, historyVars>>
    /\ \/ journal.tok = 0 /\ Reconciled(p) /\ NoFault
       \/ /\ journal.tok # 0
          /\ journal.ctx # me[p].ctx
          /\ Unreconciled(p) /\ NoFault
       \/ /\ journal.tok # 0
          /\ journal.ctx = me[p].ctx
          /\ Become(p, [me[p] EXCEPT !.pc = "reconcile_identity",
                                     !.tok = journal.tok, !.dmn = journal.dmn,
                                     !.observed = journal.observed])
          /\ NoFault
       \/ Unreconciled(p) /\ Fault

ReconcileIdentity(p) ==
    /\ At(p, "reconcile_identity")
    /\ UNCHANGED <<journalVars, daemonVars, worldVars, historyVars>>
    /\ \/ /\ SameDaemon(p)
          /\ Become(p, [me[p] EXCEPT !.pc = "reconcile_inspect",
                                     !.role = "participant"])
          /\ NoFault
       \/ ~SameDaemon(p) /\ Unreconciled(p) /\ NoFault
       \/ Unreconciled(p) /\ Fault

\* The next role, or the final journal write after the last one; a role that
\* stays unresolved ends the reconciliation only after all were visited.
\* (A bug of the code: the loop runs once more, past the last role.)
NextRolePastEnd(l) ==
    [l EXCEPT !.role = After(l.role),
              !.pc = IF l.role = "end" THEN "reconcile_write"
                     ELSE "reconcile_inspect"]
NextRole(l) == [l EXCEPT !.role = After(l.role),
                         !.pc = IF l.role = "volume" THEN "reconcile_write"
                                ELSE "reconcile_inspect"]

\* Whether not to find the resource proves that it is gone: it was seen before,
\* or the operator confirms that no open request can make it any more.
\* (Two bugs of the code: not to find it is enough; the confirmation is ignored.)
AbsenceAlwaysProves(l, r) == TRUE
AbsenceNeedsObservation(l, r) == r \in l.observed
AbsenceProves(l, r) == r \in l.observed \/ l.confirm

ReconcileInspect(p) ==
    /\ At(p, "reconcile_inspect")
    /\ UNCHANGED <<submission, daemonVars, worldVars, historyVars>>
    /\ LET r == me[p].role
           seen == Label(Name(p, r))
           noted == me[p].observed \cup {r}
           updated == [journal EXCEPT !.observed = noted]
       IN \/ /\ seen = "absent"
             /\ AbsenceProves(me[p], r)
             /\ Become(p, NextRole([me[p] EXCEPT !.observed = noted]))
             /\ UNCHANGED journal /\ NoFault
          \/ /\ seen = "absent"
             /\ ~AbsenceProves(me[p], r)
             /\ Become(p, NextRole([me[p] EXCEPT !.unresolved = @ \cup {r}]))
             /\ UNCHANGED journal /\ NoFault
          \/ /\ seen = "foreign"
             /\ UNCHANGED journal
             /\ Unreconciled(p) /\ NoFault
          \/ /\ seen = "own"
             /\ IF r \in me[p].observed THEN UNCHANGED journal /\ NoFault
                                        ELSE Written(updated)
             /\ Become(p, [me[p] EXCEPT !.pc = "reconcile_remove",
                                        !.observed = noted])
          \/ /\ seen = "own" /\ r \notin me[p].observed
             /\ WriteFailed(updated)
             /\ Unreconciled(p)
          \/ UNCHANGED journal /\ Unreconciled(p) /\ Fault

ReconcileRemove(p) ==
    /\ At(p, "reconcile_remove")
    /\ UNCHANGED <<journalVars, historyVars>>
    /\ \/ /\ Removed(Name(p, me[p].role))
          /\ Goto(p, "reconcile_verify") /\ NoFault
       \/ /\ Removed(Name(p, me[p].role)) \/ UNCHANGED <<daemonVars, worldVars>>
          /\ Unreconciled(p) /\ Fault

ReconcileVerify(p) ==
    /\ At(p, "reconcile_verify")
    /\ UNCHANGED <<journalVars, daemonVars, worldVars, historyVars>>
    /\ LET seen == Label(Name(p, me[p].role))
       IN \/ seen = "absent" /\ Become(p, NextRole(me[p])) /\ NoFault
          \/ seen # "absent" /\ Unreconciled(p) /\ NoFault
          \/ Unreconciled(p) /\ Fault

ReconcileWrite(p) ==
    /\ At(p, "reconcile_write")
    /\ UNCHANGED <<submission, daemonVars, worldVars, historyVars>>
    /\ LET updated == [journal EXCEPT !.observed = me[p].observed]
       IN \/ /\ me[p].unresolved # {}
             /\ UNCHANGED journal
             /\ Unreconciled(p) /\ NoFault
          \/ /\ me[p].unresolved = {}
             /\ Written(updated) /\ Goto(p, "reconcile_recheck")
          \/ /\ me[p].unresolved = {}
             /\ WriteFailed(updated) /\ Unreconciled(p)

ReconcileRecheck(p) ==
    /\ At(p, "reconcile_recheck")
    /\ UNCHANGED <<journalVars, daemonVars, worldVars, historyVars>>
    /\ \/ SameDaemon(p) /\ Goto(p, "reconcile_unlink") /\ NoFault
       \/ ~SameDaemon(p) /\ Unreconciled(p) /\ NoFault
       \/ Unreconciled(p) /\ Fault

ReconcileUnlink(p) ==
    /\ At(p, "reconcile_unlink")
    /\ UNCHANGED <<submission, daemonVars, worldVars, historyVars>>
    /\ \/ Unlinked /\ Reconciled(p)
       \/ UnlinkFailed /\ Unreconciled(p)

-----------------------------------------------------------------------------
(* _run_isolated_container_once_locked                                     *)

\* (A bug of the code: the previous result is only replaced when a new one comes.)
UnlinkPreviousLater(p) ==
    /\ At(p, "unlink_previous")
    /\ UNCHANGED <<journalVars, daemonVars, worldVars, historyVars>>
    /\ Goto(p, "prepare") /\ NoFault
UnlinkPrevious(p) ==
    /\ At(p, "unlink_previous")
    /\ UNCHANGED <<journal, daemonVars, worldVars, historyVars>>
    /\ \/ submission' = 0 /\ Goto(p, "prepare") /\ NoFault
       \/ /\ UNCHANGED submission
          /\ Return(p, "infrastructure", FALSE) /\ Fault

\* Image check, Engine ID, random names and token, attempt workspace.
Prepare(p) ==
    /\ At(p, "prepare")
    /\ UNCHANGED <<journalVars, daemonVars, foreign, endpoint>>
    /\ \/ /\ started' = started + 1
          /\ home' = [home EXCEPT ![started + 1] = Endpoint(p)]
          /\ restarted' = FALSE
          /\ Become(p, [me[p] EXCEPT !.pc = "write_intent",
                                     !.tok = started + 1, !.dmn = Endpoint(p)])
          /\ NoFault
       \/ /\ UNCHANGED <<restarted, historyVars>>
          /\ Return(p, "infrastructure", FALSE) /\ Fault

WriteIntent(p) ==
    /\ At(p, "write_intent")
    /\ UNCHANGED <<submission, daemonVars, worldVars, historyVars>>
    /\ LET intent == [tok |-> me[p].tok, ctx |-> me[p].ctx,
                      dmn |-> me[p].dmn, observed |-> {}]
       IN \/ Written(intent) /\ Goto(p, "create_volume")
          \/ /\ WriteFailed(intent)
             /\ Become(p, [me[p] EXCEPT !.pc = "finish",
                                        !.kind = "infrastructure"])

\* docker volume create succeeds on a name that exists, whatever its label;
\* docker run --name on a name that exists fails.
CreateOutputVolume(p) ==
    /\ At(p, "create_volume")
    /\ UNCHANGED <<journalVars, worldVars, historyVars>>
    /\ LET x == Name(p, "volume")
           l == [me[p] EXCEPT !.made = {"volume"}]
       IN \/ /\ IF x \in foreign THEN UNCHANGED daemonVars ELSE Created(x)
             /\ Become(p, [l EXCEPT !.pc = "inspect_volume"]) /\ NoFault
          \/ /\ CreateUncertain(x) /\ Fault
             /\ Become(p, EnterCleanup([l EXCEPT !.kind = "infrastructure",
                                                 !.pending = TRUE]))

StartOutputHelper(p) ==
    /\ At(p, "start_helper")
    /\ UNCHANGED <<journalVars, worldVars, historyVars>>
    /\ LET x == Name(p, "helper")
           l == [me[p] EXCEPT !.made = @ \cup {"helper"}]
           failed == EnterCleanup([l EXCEPT !.kind = "infrastructure",
                                            !.pending = TRUE])
       IN \/ /\ x \notin foreign /\ Created(x)
             /\ Become(p, [l EXCEPT !.pc = "inspect_helper"]) /\ NoFault
          \/ /\ x \in foreign /\ UNCHANGED daemonVars
             /\ Become(p, failed) /\ NoFault
          \/ CreateUncertain(x) /\ Become(p, failed) /\ Fault

\* The label check that ends _create_output_volume and _start_output_helper,
\* and _record_resource_observed.
InspectCreated(p, place, r, next) ==
    /\ At(p, place)
    /\ UNCHANGED <<submission, daemonVars, worldVars, historyVars>>
    /\ LET noted == me[p].observed \cup {r}
           updated == [journal EXCEPT !.observed = noted]
           own == Label(Name(p, r)) = "own"
       IN \/ /\ own /\ Written(updated)
             /\ Become(p, [me[p] EXCEPT !.pc = next, !.observed = noted])
          \/ own /\ WriteFailed(updated) /\ SuspendAndCleanup(p)
          \/ ~own /\ UNCHANGED journal /\ SuspendAndCleanup(p) /\ NoFault
          \/ UNCHANGED journal /\ SuspendAndCleanup(p) /\ Fault

InspectVolume(p) == InspectCreated(p, "inspect_volume", "volume", "start_helper")
InspectHelper(p) == InspectCreated(p, "inspect_helper", "helper", "core_dump_policy")

\* A refused or unreadable core_pattern is a failure without pending cleanup.
CoreDumpPolicy(p) ==
    /\ At(p, "core_dump_policy")
    /\ UNCHANGED <<journalVars, daemonVars, worldVars, historyVars>>
    /\ \/ Goto(p, "run") /\ NoFault
       \/ /\ Become(p, EnterCleanup([me[p] EXCEPT !.kind = "infrastructure"]))
          /\ Fault

\* docker run of the participant, up to the classification of its exit.  A CLI
\* that ends by itself has had its create request answered; one the operator
\* kills, or one lost to an exception, may leave the request open.
RunPreparedRouter(p) ==
    /\ At(p, "run")
    /\ UNCHANGED <<journalVars, worldVars, historyVars>>
    /\ LET x == Name(p, "participant")
           Ends(kind, terminated) ==
               Become(p, [me[p] EXCEPT !.pc = "identity", !.kind = kind,
                                       !.terminated = terminated])
       IN \/ /\ x \notin foreign /\ Created(x)
             /\ \/ Name(p, "helper") \in present /\ Ends("valid", FALSE)
                \/ \E k \in {"execution", "infrastructure"}, t \in BOOLEAN :
                      Ends(k, t)
             /\ NoFault
          \/ /\ x \in foreign /\ UNCHANGED daemonVars
             /\ Ends("execution", FALSE) /\ NoFault
          \/ /\ UNCHANGED daemonVars
             /\ \E k \in {"execution", "infrastructure"} : Ends(k, FALSE)
             /\ Fault
          \/ /\ CreateUncertain(x)
             /\ \E k \in {"execution", "infrastructure"} : Ends(k, TRUE)
             /\ Fault
          \/ /\ CreateUncertain(x)
             /\ Become(p, [me[p] EXCEPT !.pc = "best_effort", !.kind = "raised"])
             /\ Fault

\* except Exception: identity check and _best_effort_remove_participant_container,
\* whose errors are ignored, then the exception goes on.
BestEffortRemove(p) ==
    /\ At(p, "best_effort")
    /\ UNCHANGED <<journalVars, worldVars, historyVars, inflight>>
    /\ LET x == Name(p, "participant")
       IN \/ SameDaemon(p) /\ present' = present \ {x} /\ NoFault
          \/ ~SameDaemon(p) /\ UNCHANGED present /\ NoFault
          \/ UNCHANGED present /\ Fault
    /\ Become(p, EnterCleanup(me[p]))

DaemonIdentity(p) ==
    /\ At(p, "identity")
    /\ UNCHANGED <<journalVars, daemonVars, worldVars, historyVars>>
    /\ \/ SameDaemon(p) /\ Goto(p, "participant_inspect") /\ NoFault
       \/ ~SameDaemon(p) /\ SuspendAndCleanup(p) /\ NoFault
       \/ SuspendAndCleanup(p) /\ Fault

(* _reconcile_and_remove_participant_container                             *)

\* A participant that cannot be found may still appear if its CLI was killed.
\* (A bug of the code: the absence settles it.)
AbsentParticipantSettled(l) == FALSE
AbsentParticipantPending(l) == l.terminated

InspectParticipant(p) ==
    /\ At(p, "participant_inspect")
    /\ UNCHANGED <<submission, daemonVars, worldVars, historyVars>>
    /\ LET seen == Label(Name(p, "participant"))
           noted == me[p].observed \cup {"participant"}
           updated == [journal EXCEPT !.observed = noted]
       IN \/ /\ seen = "absent"
             /\ UNCHANGED journal /\ NoFault
             /\ Become(p, EnterCleanup([me[p] EXCEPT
                              !.kind = "infrastructure",
                              !.pending = AbsentParticipantPending(me[p])]))
          \/ seen = "foreign" /\ UNCHANGED journal /\ SuspendAndCleanup(p) /\ NoFault
          \/ /\ seen = "own" /\ Written(updated)
             /\ Become(p, [me[p] EXCEPT !.pc = "participant_stop",
                                        !.observed = noted])
          \/ seen = "own" /\ WriteFailed(updated) /\ Suspend(p, "participant_stop")
          \/ UNCHANGED journal /\ SuspendAndCleanup(p) /\ Fault

\* Stop a container that still runs, read its state again and classify: the
\* result stands, OOM makes it an execution failure, missing or contradictory
\* state evidence an infrastructure failure; an unreadable state also suspends.
StopParticipant(p) ==
    /\ At(p, "participant_stop")
    /\ UNCHANGED <<journalVars, daemonVars, worldVars, historyVars>>
    /\ LET Verdict(k) == Become(p, [me[p] EXCEPT !.pc = "participant_remove",
                                                 !.kind = k])
       IN \/ Verdict(me[p].kind) /\ NoFault
          \/ me[p].kind # "infrastructure" /\ Verdict("execution") /\ NoFault
          \/ Verdict("infrastructure") /\ NoFault
          \/ Suspend(p, "participant_remove") /\ Fault

\* Removal is by container ID, so it can only reach the inspected container.
RemoveParticipant(p) ==
    /\ At(p, "participant_remove")
    /\ UNCHANGED <<journalVars, worldVars, historyVars, inflight>>
    /\ LET x == Name(p, "participant")
       IN \/ /\ x \in present /\ present' = present \ {x}
             /\ Become(p, EnterCleanup(me[p])) /\ NoFault
          \/ x \notin present /\ UNCHANGED present /\ SuspendAndCleanup(p) /\ NoFault
          \/ present' \in {present, present \ {x}} /\ SuspendAndCleanup(p) /\ Fault

(* _managed_output_cleanup and _remove_output_workspace                    *)

CleanupIdentity(p) ==
    /\ At(p, "cleanup_identity")
    /\ UNCHANGED <<journalVars, daemonVars, worldVars, historyVars>>
    /\ \/ SameDaemon(p) /\ Goto(p, "cleanup_inspect") /\ NoFault
       \/ ~SameDaemon(p) /\ Suspend(p, "finish") /\ NoFault
       \/ Suspend(p, "finish") /\ Fault

\* An error on the helper does not keep the volume from being removed.
NextCleanup(l) == [l EXCEPT !.role = After(l.role),
                            !.pc = IF l.role = "volume" THEN "finish"
                                   ELSE "cleanup_inspect"]
NextCleanupSuspended(l) ==
    NextCleanup([l EXCEPT !.kind = AsInfrastructure(@), !.pending = TRUE])

CleanupInspect(p) ==
    /\ At(p, "cleanup_inspect")
    /\ UNCHANGED <<journalVars, daemonVars, worldVars, historyVars>>
    /\ LET r == me[p].role
           seen == Label(Name(p, r))
       IN \/ /\ r \notin me[p].made
             /\ Become(p, NextCleanup(me[p])) /\ NoFault
          \/ /\ r \in me[p].made /\ seen = "absent"
             /\ Become(p, NextCleanup(me[p])) /\ NoFault
          \/ /\ r \in me[p].made /\ seen = "own"
             /\ Goto(p, "cleanup_remove") /\ NoFault
          \/ /\ r \in me[p].made /\ seen = "foreign"
             /\ Become(p, NextCleanupSuspended(me[p])) /\ NoFault
          \/ /\ r \in me[p].made
             /\ Become(p, NextCleanupSuspended(me[p])) /\ Fault

CleanupRemove(p) ==
    /\ At(p, "cleanup_remove")
    /\ UNCHANGED <<journalVars, historyVars>>
    /\ LET x == Name(p, me[p].role)
       IN \/ Removed(x) /\ Become(p, NextCleanup(me[p])) /\ NoFault
          \/ /\ Removed(x) \/ UNCHANGED <<daemonVars, worldVars>>
             /\ Become(p, NextCleanupSuspended(me[p])) /\ Fault

(* After the managed cleanup.                                              *)

\* A result with pending cleanup, and an exception, leave the journal alone.
Finish(p) ==
    /\ At(p, "finish")
    /\ UNCHANGED <<submission, daemonVars, worldVars, historyVars>>
    /\ LET settled == [journal EXCEPT !.observed = Roles]
       IN \/ /\ me[p].kind = "raised" \/ me[p].pending
             /\ UNCHANGED journal
             /\ Return(p, me[p].kind, me[p].pending) /\ NoFault
          \/ /\ me[p].kind # "raised" /\ ~me[p].pending /\ journal.tok = 0
             /\ UNCHANGED journal
             /\ Return(p, me[p].kind, FALSE) /\ NoFault
          \/ /\ me[p].kind # "raised" /\ ~me[p].pending /\ journal.tok # 0
             /\ Written(settled) /\ Goto(p, "finish_recheck")
          \/ /\ me[p].kind # "raised" /\ ~me[p].pending /\ journal.tok # 0
             /\ WriteFailed(settled)
             /\ Return(p, "infrastructure", TRUE)

FinishRecheck(p) ==
    /\ At(p, "finish_recheck")
    /\ UNCHANGED <<journalVars, daemonVars, worldVars, historyVars>>
    /\ \/ SameDaemon(p) /\ Goto(p, "finish_unlink") /\ NoFault
       \/ ~SameDaemon(p) /\ Return(p, "infrastructure", TRUE) /\ NoFault
       \/ Return(p, "infrastructure", TRUE) /\ Fault

RemoveResourceJournal(p) ==
    /\ At(p, "finish_unlink")
    /\ UNCHANGED <<submission, daemonVars, worldVars, historyVars>>
    /\ \/ Unlinked /\ me[p].kind = "valid" /\ Goto(p, "publish")
       \/ Unlinked /\ me[p].kind # "valid" /\ Return(p, me[p].kind, FALSE)
       \/ UnlinkFailed /\ Return(p, "infrastructure", TRUE)

PublishSubmission(p) ==
    /\ At(p, "publish")
    /\ UNCHANGED <<journal, daemonVars, worldVars, historyVars>>
    /\ \/ submission' = me[p].tok /\ Return(p, "valid", FALSE) /\ NoFault
       \/ UNCHANGED submission /\ Return(p, "infrastructure", FALSE) /\ Fault

-----------------------------------------------------------------------------
(* What happens around the processes.                                      *)

\* The process dies; its descriptor, and with it the flock, is closed.  A
\* create request it had sent may already be in flight (see the creations).
Crash(p) ==
    /\ ~At(p, "idle")
    /\ me' = [me EXCEPT ![p] = Idle]
    /\ lock' = NoProc
    /\ result' = [result EXCEPT ![p] = NoResult]
    /\ Fault
    /\ UNCHANGED <<journalVars, daemonVars, worldVars, historyVars>>

processVars == <<lock, me, result>>

\* The daemon completes a request whose client is gone, or drops it.
LateCreate ==
    /\ \E x \in inflight :
          /\ inflight' = inflight \ {x}
          /\ present' \in {present, IF x \in foreign THEN present
                                    ELSE present \cup {x}}
    /\ NoFault
    /\ UNCHANGED <<processVars, journalVars, worldVars, historyVars>>

\* The helper runs with --rm: it is gone once its process ends.
HelperExits ==
    /\ \E x \in present : x[3] = "helper" /\ present' = present \ {x}
    /\ NoFault
    /\ UNCHANGED <<processVars, journalVars, inflight, worldVars, historyVars>>

\* A restarted daemon has forgotten its open requests.  It counts as the
\* operator's restart when nobody works on the directory.
RestartDaemon(d) ==
    /\ inflight' = {x \in inflight : x[1] # d}
    /\ restarted' = (restarted \/ (lock = NoProc /\ journal.tok # 0
                                                 /\ journal.dmn = d))
    /\ NoFault
    /\ UNCHANGED <<processVars, journalVars, present, foreign, endpoint, historyVars>>

\* A context starts to reach another daemon.  It does not come back to the
\* daemon a running process works with while that process holds the lock.
Repoint(c, d) ==
    /\ endpoint[c] # d
    /\ lock # NoProc => d # me[lock].dmn
    /\ endpoint' = [endpoint EXCEPT ![c] = d]
    /\ Fault
    /\ UNCHANGED <<processVars, journalVars, daemonVars, foreign, restarted,
                   historyVars>>

\* The operator points the journal's context back at the journal's daemon.
RestoreEndpoint ==
    /\ lock = NoProc
    /\ journal.tok # 0
    /\ endpoint[journal.ctx] # journal.dmn
    /\ endpoint' = [endpoint EXCEPT ![journal.ctx] = journal.dmn]
    /\ NoFault
    /\ UNCHANGED <<processVars, journalVars, daemonVars, foreign, restarted,
                   historyVars>>

-----------------------------------------------------------------------------
Init ==
    /\ lock = NoProc
    /\ journal = NoJournal
    /\ submission = 0
    /\ me = [p \in Procs |-> Idle]
    /\ result = [p \in Procs |-> NoResult]
    /\ present = {}
    /\ inflight = {}
    /\ foreign \in Collisions
    /\ endpoint \in [Contexts -> Daemons]
    /\ restarted = FALSE
    /\ home = [t \in Attempts |-> NoDaemon]
    /\ started = 0
    /\ faults = 0

Invocation(p) ==
    \/ \E c \in Contexts : Invoke(p, "attempt", c, FALSE)
    \/ \E c \in Contexts, confirm \in BOOLEAN : Invoke(p, "cleanup", c, confirm)
    \/ Contend(p)

Reconcile(p) ==
    \/ LoadJournal(p) \/ ReconcileIdentity(p) \/ ReconcileInspect(p)
    \/ ReconcileRemove(p) \/ ReconcileVerify(p) \/ ReconcileWrite(p)
    \/ ReconcileRecheck(p) \/ ReconcileUnlink(p)

Attempt(p) ==
    \/ UnlinkPrevious(p) \/ Prepare(p) \/ WriteIntent(p)
    \/ CreateOutputVolume(p) \/ InspectVolume(p) \/ StartOutputHelper(p)
    \/ InspectHelper(p) \/ CoreDumpPolicy(p) \/ RunPreparedRouter(p)
    \/ BestEffortRemove(p) \/ DaemonIdentity(p) \/ InspectParticipant(p)
    \/ StopParticipant(p) \/ RemoveParticipant(p) \/ CleanupIdentity(p)
    \/ CleanupInspect(p) \/ CleanupRemove(p) \/ Finish(p) \/ FinishRecheck(p)
    \/ RemoveResourceJournal(p) \/ PublishSubmission(p)

World ==
    \/ LateCreate \/ HelperExits \/ RestoreEndpoint
    \/ \E d \in Daemons : RestartDaemon(d)
    \/ \E c \in Contexts, d \in Daemons : Repoint(c, d)

Next ==
    \/ \E p \in Procs : Invocation(p) \/ Reconcile(p) \/ Attempt(p) \/ Crash(p)
    \/ World

Spec == Init /\ [][Next]_vars

-----------------------------------------------------------------------------
TypeOK ==
    /\ lock \in Procs \cup {NoProc}
    /\ journal \in Journals
    /\ submission \in 0..MaxAttempts
    /\ me \in [Procs -> Locals]
    /\ result \in [Procs -> Results]
    /\ present \subseteq Resources
    /\ inflight \subseteq Resources
    /\ foreign \subseteq Resources
    /\ endpoint \in [Contexts -> Daemons]
    /\ restarted \in BOOLEAN
    /\ home \in [Attempts -> Daemons \cup {NoDaemon}]
    /\ started \in 0..MaxAttempts
    /\ faults \in 0..MaxFaults

\* Resources of attempt t that exist, or may still come to exist, on the daemon
\* whose Engine ID the attempt read.
Live(t) == {x \in present \cup inflight : x[2] = t /\ x[1] = home[t]}

\* No orphan: as long as a resource of an attempt exists or can still be
\* created by an open request, the journal on disk names that attempt, so that
\* a later run or router-cleanup-resources will find it.
JournalCoversResources ==
    \A t \in Attempts : Live(t) # {} => journal.tok = t

\* A published submission.json and a cleanup journal never coexist: the file of
\* an earlier attempt is gone before a journal is written and the new one is
\* published only after the journal was removed.
SubmissionAfterCleanup == submission # 0 => journal.tok = 0

\* A result without cleanup_pending is final: nothing of that attempt exists or
\* can appear, whatever the daemon still does.
SettledResultIsFinal ==
    \A p \in Procs :
        (/\ result[p].tok # 0
         /\ ~result[p].pending
         /\ result[p].kind \in {"valid", "execution", "infrastructure", "ok"})
        => Live(result[p].tok) = {}

\* What the retry loop and the audit rely on when they start another attempt: a
\* run that had the lock and returns a result without cleanup_pending leaves no
\* journal behind.
QuietReturnLeavesNoJournal ==
    [][\A p \in Procs :
         /\ ~At(p, "idle") /\ me'[p].pc = "idle"
         /\ result'[p].kind \in {"valid", "execution", "infrastructure"}
         /\ ~result'[p].pending
         => journal'.tok = 0]_vars

\* A resource that bears another label is never removed, as long as the context
\* reaches the daemon the process began with (the label is read by one command
\* and the removal is another: a context repointed in between escapes both).
ForeignUntouched ==
    [][foreign' # foreign =>
         lock # NoProc /\ endpoint[me[lock].ctx] # me[lock].dmn]_vars

-----------------------------------------------------------------------------
\* The directory implements the ledger: the journal is the open ledger, and what
\* an attempt holds are its live resources.
Held == {<<x[2], x[3]>> : x \in {y \in present \cup inflight : y[1] = home[y[2]]}}
Ledger == INSTANCE CleanupLedger WITH
              owner <- journal.tok, held <- Held, published <- submission
ImplementsLedger == Ledger!LedgerSpec

-----------------------------------------------------------------------------
(* Liveness.  Every step of a process returns (each control command has a  *)
(* time limit).  The operator's part is the recovery OPERATIONS.md asks    *)
(* for: point the context back, restart the daemon, run                    *)
(* router-cleanup-resources --confirm-daemon-restarted with the context the *)
(* journal names; strong, because others may hold the lock in between.      *)
CleanupCommand ==
    \E p \in Procs : journal.tok # 0 /\ Invoke(p, "cleanup", journal.ctx, TRUE)

Fairness ==
    /\ \A p \in Procs : WF_vars(Reconcile(p) \/ Attempt(p))
    /\ \A d \in Daemons : SF_vars(RestartDaemon(d))
    /\ SF_vars(RestoreEndpoint)
    /\ SF_vars(CleanupCommand)

FairSpec == Spec /\ Fairness

\* When failures stop, a journal does not stay for ever: the recovery procedure
\* resolves it even if creation was uncertain and nothing was ever observed.
PendingResolved == journal.tok # 0 ~> journal.tok = 0
=============================================================================
