---------------------------- MODULE OfficialTier ----------------------------
(***************************************************************************)
(* router-evaluate-tier on one output root: run_official_tier with its     *)
(* retry policy, the ID/order audit, the private input snapshot and the    *)
(* execution record, and router-cleanup-resources on the child             *)
(* directories.  An attempt is one step here; what it may return and leave *)
(* behind is what module AttemptJournal establishes (a result without      *)
(* cleanup_pending leaves no journal).                                     *)
(***************************************************************************)
EXTENDS Naturals, Sequences, FiniteSetsExt

CONSTANTS
    Procs,                      \* evaluator processes started on the root
    NoProc,                     \* the root lock is free
    MaxParticipantAttempts,     \* DEFAULT_MAX_PARTICIPANT_ATTEMPTS
    MaxInfrastructureFailures,  \* DEFAULT_MAX_INFRASTRUCTURE_FAILURES
    MaxTokens,                  \* bound: journals ever left behind
    MaxFaults                   \* bound: crashes and operator-side failures

ASSUME OfficialTierAssumption ==
    /\ NoProc \notin Procs
    /\ MaxParticipantAttempts \in Nat \ {0}
    /\ MaxInfrastructureFailures \in Nat \ {0}
    /\ MaxTokens \in Nat
    /\ MaxFaults \in Nat

VARIABLES
    root,      \* holder of the output root's lock, or NoProc
    residue,   \* the private work directory is not empty
    journal,   \* journal[d]: attempt named by the cleanup journal in d, 0 if none
    cleaning,  \* cleaning[d]: router-cleanup-resources holds d's lock
    record,    \* the published execution record
    me,        \* me[p]: where evaluator p is, and its local variables
    exit,      \* exit[p]: exit code of p's last run, or NoExit
    tokens,    \* attempts that left a journal so far
    faults     \* faults so far

vars == <<root, residue, journal, cleaning, record, me, exit, tokens, faults>>

-----------------------------------------------------------------------------
Directories == {"official", "audit"}
AttemptKinds == {"valid", "execution_failure", "infrastructure_failure",
                 "fairness_violation"}
\* One AttemptResult as it is kept in a history.
AttemptResults == [kind : AttemptKinds, pending : BOOLEAN, id : 0..MaxTokens]

Scored == {"valid", "tier_score_zero", "disqualified"}
NoRecord == [status |-> "none", history |-> <<>>, audit |-> <<>>, id |-> 0]
Bare(status) == [NoRecord EXCEPT !.status = status]

NoExit == 99
ExitCode(status) ==
    CASE status \in Scored -> 0
      [] status \in {"infrastructure_unavailable",
                     "audit_inconclusive_infrastructure"} -> 4
      [] status = "review_required" -> 5
      [] status = "submission_preflight_rejected" -> 6
      [] status = "configuration_error" -> 2

Idle == [pc |-> "idle", history |-> <<>>, audit |-> <<>>, verdict |-> "none",
         error |-> "none", id |-> 0]

At(p, place) == me[p].pc = place
Fault == faults < MaxFaults /\ faults' = faults + 1
NoFault == UNCHANGED faults
Become(p, l) == me' = [me EXCEPT ![p] = l] /\ UNCHANGED <<root, exit>>
Goto(p, place) == Become(p, [me[p] EXCEPT !.pc = place])

\* Number of results of a kind in a history.
CountOf(h, kind) == Quantify(DOMAIN h, LAMBDA i : h[i].kind = kind)

-----------------------------------------------------------------------------
(* The root lock, the private work directory, the input snapshot.          *)

StartRun(p) ==
    /\ At(p, "idle")
    /\ root = NoProc
    /\ root' = p
    /\ me' = [me EXCEPT ![p].pc = "private_work"]
    /\ exit' = [exit EXCEPT ![p] = NoExit]
    /\ UNCHANGED <<residue, journal, cleaning, record, tokens, faults>>

\* ResourceLockUnavailable is raised outside the handlers that write a record.
ContendRoot(p) ==
    /\ At(p, "idle")
    /\ root # NoProc
    /\ exit' = [exit EXCEPT ![p] = 4]
    /\ UNCHANGED <<root, residue, journal, cleaning, record, me, tokens, faults>>

\* An exception before the snapshot exists goes straight to its handler; one
\* raised under the snapshot passes through its removal.
Fail(p, error) == Become(p, [me[p] EXCEPT !.pc = "publish", !.error = error])
Unwind(p, error, id) ==
    Become(p, [me[p] EXCEPT !.pc = "remove_snapshot", !.error = error, !.id = id])

\* Commit SHA and tier, then _validate_private_work_directory.
ValidatePrivateWork(p) ==
    /\ At(p, "private_work")
    /\ UNCHANGED <<residue, journal, cleaning, record, tokens>>
    /\ \/ ~residue /\ Goto(p, "snapshot") /\ NoFault
       \/ residue /\ Fail(p, "infrastructure") /\ NoFault
       \/ \E e \in {"infrastructure", "configuration"} : Fail(p, e) /\ Fault

\* _private_input_snapshot up to its yield; a directory whose mode cannot be set is
\* left behind, still empty.
TakeSnapshot(p) ==
    /\ At(p, "snapshot")
    /\ UNCHANGED <<journal, cleaning, record, tokens>>
    /\ \/ residue' = TRUE /\ Goto(p, "require_no_pending") /\ NoFault
       \/ residue' \in {residue, TRUE} /\ Fail(p, "infrastructure") /\ Fault
       \/ /\ residue' = TRUE /\ Fault
          /\ \E e \in {"infrastructure", "configuration"} : Unwind(p, e, 0)

\* (A bug of the code: only official/ is looked at.)
NothingPendingInOfficial == journal["official"] = 0
NothingPending == \A d \in Directories : journal[d] = 0

\* require_no_pending_runtime_resources: official/ before audit/.
RequireNoPending(p) ==
    /\ At(p, "require_no_pending")
    /\ UNCHANGED <<residue, journal, cleaning, record, tokens>>
    /\ \/ journal["official"] # 0 /\ Unwind(p, "pending", journal["official"]) /\ NoFault
       \/ /\ journal["official"] = 0 /\ journal["audit"] # 0
          /\ Unwind(p, "pending", journal["audit"]) /\ NoFault
       \/ NothingPending /\ Goto(p, "resolve_image") /\ NoFault
       \/ Unwind(p, "infrastructure", 0) /\ Fault

\* The image resolver and the size limits; a rejection is about the image.
ResolveImage(p) ==
    /\ At(p, "resolve_image")
    /\ UNCHANGED <<residue, journal, cleaning, record, tokens>>
    /\ \/ Goto(p, "official_attempt") /\ NoFault
       \/ Unwind(p, "preflight", 0) /\ NoFault
       \/ \E e \in {"infrastructure", "configuration"} : Unwind(p, e, 0) /\ Fault

-----------------------------------------------------------------------------
(* One attempt in directory d, as its callers see it.                      *)

NewJournal(d, j) ==
    /\ \/ j = journal[d] /\ UNCHANGED tokens
       \/ tokens < MaxTokens /\ j = tokens + 1 /\ tokens' = j
    /\ journal' = [journal EXCEPT ![d] = j]

Result(kind, pending, id) == [kind |-> kind, pending |-> pending, id |-> id]

\* router-cleanup-resources works in d: LOCK_NB fails, which is never pending.
\* (A bug of the code: the attempt waits for the lock.)
LockAwaited(d, r) == FALSE
LockRefused(d, r) ==
    /\ cleaning[d]
    /\ r = Result("infrastructure_failure", FALSE, 0)
    /\ UNCHANGED <<journal, tokens>>

\* run_isolated_container_once returns r.  With a journal of an earlier attempt
\* that cannot be reconciled it is pending at once; otherwise cleanup may end
\* uncertain, with the journal left (and its id unread if it cannot be loaded
\* again) or already unlinked.
Returns(d, r) ==
    \/ LockRefused(d, r)
    \/ /\ ~cleaning[d] /\ journal[d] = 0
       /\ \E k \in AttemptKinds : r = Result(k, FALSE, 0)
       /\ UNCHANGED <<journal, tokens>>
    \/ /\ ~cleaning[d] /\ journal[d] = 0
       /\ \E j \in 0..MaxTokens :
             /\ NewJournal(d, j)
             /\ \E id \in {0, j} : r = Result("infrastructure_failure", TRUE, id)
    \/ /\ ~cleaning[d] /\ journal[d] # 0
       /\ r = Result("infrastructure_failure", TRUE, journal[d])
       /\ UNCHANGED <<journal, tokens>>

\* An exception leaves the attempt: no result, the journal stays if written.
Raises(p, d) ==
    /\ ~cleaning[d]
    /\ \E j \in 0..MaxTokens : NewJournal(d, j)
    /\ \E e \in {"configuration", "unexpected"} : Unwind(p, e, 0)
    /\ Fault

(* run_with_retry                                                          *)

\* The participant has used up its attempts.  (Two bugs of the code: one attempt
\* more; the operator's failures count.)
ParticipantSpentByAny(h) == Len(h) >= MaxParticipantAttempts
ParticipantSpent(h) == CountOf(h, "execution_failure") >= MaxParticipantAttempts

\* What the retry loop does with a history that has grown by one result:
\* "again" or how it ends.
RetryVerdict(h) ==
    LET last == h[Len(h)]
        infrastructure == CountOf(h, "infrastructure_failure")
    IN CASE last.kind = "valid" -> "selected"
         [] last.kind = "fairness_violation" -> "disqualified"
         [] last.kind = "infrastructure_failure" ->
              IF last.pending \/ infrastructure >= MaxInfrastructureFailures
              THEN "infrastructure_unavailable" ELSE "again"
         [] last.kind = "execution_failure" ->
              IF ParticipantSpent(h) THEN "tier_score_zero" ELSE "again"

OfficialAttempt(p) ==
    /\ At(p, "official_attempt")
    /\ UNCHANGED <<residue, cleaning, record>>
    /\ \/ \E r \in AttemptResults :
             LET h == Append(me[p].history, r)
                 v == RetryVerdict(h)
                 l == [me[p] EXCEPT !.history = h]
             IN /\ Returns("official", r)
                /\ CASE v = "again" -> Become(p, l)
                     [] v = "selected" ->
                          Become(p, [l EXCEPT !.pc = "audit_attempt"])
                     [] OTHER ->
                          Become(p, [l EXCEPT !.pc = "remove_snapshot",
                                              !.verdict = v])
                /\ NoFault
       \/ Raises(p, "official")

(* run_id_order_audit                                                      *)

\* An infrastructure result is retried on a count of the audit's own; any other
\* result that is not valid, and a valid one with different choices, asks for
\* review.
AuditVerdict(h, same) ==
    LET last == h[Len(h)]
        infrastructure == CountOf(h, "infrastructure_failure")
    IN IF last.kind = "infrastructure_failure"
       THEN IF last.pending \/ infrastructure >= MaxInfrastructureFailures
            THEN "audit_inconclusive_infrastructure" ELSE "again"
       ELSE IF last.kind = "valid" /\ same THEN "valid" ELSE "review_required"

\* Writing the audit input may fail on the operator's side: a result too.
AuditAttempt(p) ==
    /\ At(p, "audit_attempt")
    /\ UNCHANGED <<residue, cleaning, record>>
    /\ \/ \E r \in AttemptResults, same \in BOOLEAN :
             LET h == Append(me[p].audit, r)
                 v == AuditVerdict(h, same)
                 l == [me[p] EXCEPT !.audit = h]
             IN /\ \/ Returns("audit", r) /\ NoFault
                   \/ /\ r = Result("infrastructure_failure", FALSE, 0)
                      /\ UNCHANGED <<journal, tokens>> /\ Fault
                /\ IF v = "again" THEN Become(p, l)
                   ELSE Become(p, [l EXCEPT !.pc = "remove_snapshot",
                                            !.verdict = v])
       \/ Raises(p, "audit")

-----------------------------------------------------------------------------
(* Leaving the snapshot, publishing the record.                            *)

\* A failed rmtree replaces whatever result or exception was on its way.
\* (A bug of the code: rmtree with ignore_errors.)
RemoveSnapshotQuietly(p) ==
    /\ At(p, "remove_snapshot")
    /\ UNCHANGED <<journal, cleaning, record, tokens>>
    /\ \/ residue' = FALSE /\ Goto(p, "publish") /\ NoFault
       \/ UNCHANGED residue /\ Goto(p, "publish") /\ Fault
RemoveSnapshot(p) ==
    /\ At(p, "remove_snapshot")
    /\ UNCHANGED <<journal, cleaning, record, tokens>>
    /\ \/ residue' = FALSE /\ Goto(p, "publish") /\ NoFault
       \/ UNCHANGED residue /\ Fail(p, "infrastructure") /\ Fault

\* Cleanup ids a record names: its own, and those of pending results in its two
\* histories.
PendingIds(rec) ==
    {rec.id} \cup
    UNION {{h[i].id : i \in {j \in DOMAIN h : h[j].pending}}
           : h \in {rec.history, rec.audit}}

\* _record_matches_cleanup_attempt
\* (A bug of the code: any record is taken for the attempt's own.)
MatchesAnyRecord(rec, id) == id # 0 /\ rec.status # "none"
MatchesCleanupAttempt(rec, id) ==
    /\ id # 0
    /\ rec.status \in {"infrastructure_unavailable",
                       "audit_inconclusive_infrastructure"}
    /\ id \in PendingIds(rec)

\* The record run_official_tier publishes for a run that ended as l says.
RecordOf(l) ==
    CASE l.error = "none" ->
           [status |-> l.verdict, history |-> l.history, audit |-> l.audit, id |-> 0]
      [] l.error = "pending" ->
           IF MatchesCleanupAttempt(record, l.id) THEN record
           ELSE [Bare("infrastructure_unavailable") EXCEPT !.id = l.id]
      [] l.error = "preflight" -> Bare("submission_preflight_rejected")
      [] l.error = "infrastructure" -> Bare("infrastructure_unavailable")
      [] l.error = "configuration" -> Bare("configuration_error")
      [] l.error = "unexpected" -> record

CodeOf(l) == CASE l.error = "none" -> ExitCode(l.verdict)
               [] l.error = "unexpected" -> 1
               [] OTHER -> ExitCode(RecordOf(l).status)

EndRun(p, code) == /\ root' = NoProc
                   /\ me' = [me EXCEPT ![p] = Idle]
                   /\ exit' = [exit EXCEPT ![p] = code]

PublishRecord(p) ==
    /\ At(p, "publish")
    /\ record' = RecordOf(me[p])
    /\ EndRun(p, CodeOf(me[p]))
    /\ UNCHANGED <<residue, journal, cleaning, tokens, faults>>

\* _write_record_atomic fails before or after os.replace.
PublishFails(p) ==
    /\ At(p, "publish")
    /\ me[p].error # "unexpected"
    /\ record' \in {record, RecordOf(me[p])}
    /\ EndRun(p, 4)
    /\ Fault
    /\ UNCHANGED <<residue, journal, cleaning, tokens>>

-----------------------------------------------------------------------------
(* Around the evaluator.                                                   *)

\* Killed anywhere; in the middle of an attempt its journal may be on disk.
Crash(p) ==
    /\ ~At(p, "idle")
    /\ \/ UNCHANGED <<journal, tokens>>
       \/ /\ At(p, "official_attempt") /\ journal["official"] = 0
          /\ \E j \in 1..MaxTokens : NewJournal("official", j)
       \/ /\ At(p, "audit_attempt") /\ journal["audit"] = 0
          /\ \E j \in 1..MaxTokens : NewJournal("audit", j)
    /\ EndRun(p, NoExit)
    /\ Fault
    /\ UNCHANGED <<residue, cleaning, record>>

\* router-cleanup-resources takes only the child directory's lock.
StartCleaning(d) ==
    /\ ~cleaning[d]
    /\ cleaning' = [cleaning EXCEPT ![d] = TRUE]
    /\ UNCHANGED <<root, residue, journal, record, me, exit, tokens, faults>>

EndCleaning(d) ==
    /\ cleaning[d]
    /\ cleaning' = [cleaning EXCEPT ![d] = FALSE]
    /\ journal' \in {journal, [journal EXCEPT ![d] = 0]}
    /\ UNCHANGED <<root, residue, record, me, exit, tokens, faults>>

\* The operator empties the private work directory between runs.
ClearPrivateWork ==
    /\ root = NoProc
    /\ residue
    /\ residue' = FALSE
    /\ UNCHANGED <<root, journal, cleaning, record, me, exit, tokens, faults>>

-----------------------------------------------------------------------------
Init ==
    /\ root = NoProc
    /\ residue = FALSE
    /\ journal = [d \in Directories |-> 0]
    /\ cleaning = [d \in Directories |-> FALSE]
    /\ record = NoRecord
    /\ me = [p \in Procs |-> Idle]
    /\ exit = [p \in Procs |-> NoExit]
    /\ tokens = 0
    /\ faults = 0

Run(p) ==
    \/ ValidatePrivateWork(p) \/ TakeSnapshot(p) \/ RequireNoPending(p)
    \/ ResolveImage(p) \/ OfficialAttempt(p) \/ AuditAttempt(p)
    \/ RemoveSnapshot(p) \/ PublishRecord(p) \/ PublishFails(p)

Next ==
    \/ \E p \in Procs : StartRun(p) \/ ContendRoot(p) \/ Run(p) \/ Crash(p)
    \/ \E d \in Directories : StartCleaning(d) \/ EndCleaning(d)
    \/ ClearPrivateWork

Spec == Init /\ [][Next]_vars
FairSpec == Spec /\ \A p \in Procs : WF_vars(Run(p))

-----------------------------------------------------------------------------
Last(h) == h[Len(h)]

\* Every attempt of h but the last one was of these kinds and left nothing
\* pending: it was followed by another.
Retried(h, kinds) ==
    \A i \in 1..(Len(h) - 1) : h[i].kind \in kinds /\ ~h[i].pending
RetriedOfficial(h) == Retried(h, {"execution_failure", "infrastructure_failure"})
RetriedAudit(a) == Retried(a, {"infrastructure_failure"})

Selected(h) == /\ Last(h).kind = "valid"
               /\ RetriedOfficial(h)
               /\ CountOf(h, "execution_failure") < MaxParticipantAttempts
GivenUp(h) ==
    \/ Last(h).pending
    \/ CountOf(h, "infrastructure_failure") = MaxInfrastructureFailures

Justified(status, h, a) ==
    /\ status = "tier_score_zero" =>
          /\ CountOf(h, "execution_failure") = MaxParticipantAttempts
          /\ RetriedOfficial(h)
          /\ CountOf(h, "infrastructure_failure") < MaxInfrastructureFailures
    /\ status = "valid" =>
          Selected(h) /\ Last(a).kind = "valid" /\ RetriedAudit(a)
    /\ status = "audit_inconclusive_infrastructure" =>
          Selected(h) /\ GivenUp(a) /\ RetriedAudit(a)
    /\ status = "infrastructure_unavailable" /\ h # <<>> =>
          GivenUp(h) /\ RetriedOfficial(h)

\* A published status follows from the attempts listed with it: a zero takes the
\* full number of participant failures and no infrastructure failure counts
\* towards it, a selected result is the first valid one, giving up takes a
\* pending cleanup or the full number of infrastructure failures, and "valid"
\* takes an audit that was interrupted by nothing but infrastructure failures.
HistoryJustifiesRecord == Justified(record.status, record.history, record.audit)

\* No attempt, official or audit, is made on this root while the journal of an
\* earlier one waits in either child directory.
NoAttemptBesidePending ==
    \A p \in Procs :
        me[p].pc \in {"official_attempt", "audit_attempt"} =>
            \A d \in Directories : journal[d] = 0

\* Exit code 0 means a record that can be scored, no journal left in either
\* directory and no private input left behind.
ScoredRunIsClean ==
    [][\A p \in Procs :
         ~At(p, "idle") /\ me'[p].pc = "idle" /\ exit'[p] = 0 =>
             /\ record'.status \in Scored
             /\ \A d \in Directories : journal'[d] = 0
             /\ ~residue']_vars

\* A run that publishes its record while a journal is left never leaves a record
\* that can be scored, its own or an older one, in front of it.
PendingNotHidden ==
    [][\A p \in Procs :
         /\ PublishRecord(p)
         /\ me[p].error # "unexpected"
         /\ \E d \in Directories : journal[d] # 0
         => record'.status \notin Scored]_vars

\* The detailed record of the attempt a journal names stays until that journal
\* is resolved.
PendingDetailKept ==
    [][\A d \in Directories :
         /\ MatchesCleanupAttempt(record, journal[d])
         /\ journal'[d] = journal[d]
         => MatchesCleanupAttempt(record', journal[d])]_vars

\* Every run ends: infrastructure failures cost no official attempt, but they
\* are counted, in the retry loop and in the audit.
EveryRunEnds == \A p \in Procs : ~At(p, "idle") ~> At(p, "idle")
=============================================================================
