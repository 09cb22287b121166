------------------------- MODULE MeasurementJournal -------------------------
(***************************************************************************)
(* router-measure-image on one evidence directory: the measurement, whose  *)
(* container is named by a resource journal published with os.link, and    *)
(* --cleanup-pending, which reconciles a journal somebody left.  Neither   *)
(* takes a lock; only the exclusive link keeps two measurements apart.     *)
(* One runtime command; container names are unique to their measurement.   *)
(***************************************************************************)
EXTENDS Naturals

CONSTANTS
    Procs,              \* router-measure-image processes
    Daemons,            \* Docker Engine IDs
    NoDaemon,           \* no Engine ID
    ConcurrentCleanup,  \* the operator may run --cleanup-pending while others run
    Repointing,         \* the context may come to reach another daemon
    MaxMeasurements,    \* bound: measurements that got as far as a journal
    MaxFaults           \* bound: failures and crashes together

ASSUME MeasurementJournalAssumption ==
    /\ NoDaemon \notin Daemons
    /\ ConcurrentCleanup \in BOOLEAN /\ Repointing \in BOOLEAN
    /\ MaxMeasurements \in Nat \ {0} /\ MaxFaults \in Nat

VARIABLES
    journal,    \* the resource journal beside the evidence, or NoJournal
    evidence,   \* measurement whose evidence is published, 0 if none
    me,         \* me[p]: where process p is, and its local variables
    exit,       \* exit[p]: measurement and exit code of p's last run
    present,    \* measurement containers: <<daemon, measurement>>
    inflight,   \* create requests a daemon has accepted and not yet finished
    endpoint,   \* the daemon the runtime command reaches now
    restarted,  \* the journal's daemon was restarted after it was left
    home,       \* home[t]: daemon measurement t read before its journal
    started,    \* measurements so far
    careless,   \* a cleanup ran beside a measurement, or a context was repointed
    faults      \* faults so far

vars == <<journal, evidence, me, exit, present, inflight, endpoint, restarted,
          home, started, careless, faults>>
daemonVars == <<present, inflight>>
otherVars == <<endpoint, restarted, home, started, careless>>

-----------------------------------------------------------------------------
Measurements == 1..MaxMeasurements
NoJournal == [tok |-> 0, dmn |-> NoDaemon, uncertain |-> FALSE]
NoExit == 99
NoRun == [tok |-> 0, code |-> NoExit, outcome |-> "none"]
Idle == [pc |-> "idle", tok |-> 0, dmn |-> NoDaemon, outcome |-> "none",
         uncertain |-> FALSE, confirm |-> FALSE]

At(p, place) == me[p].pc = place
Fault == faults < MaxFaults /\ faults' = faults + 1
NoFault == UNCHANGED faults
Become(p, l) == me' = [me EXCEPT ![p] = l] /\ UNCHANGED exit
Goto(p, place) == Become(p, [me[p] EXCEPT !.pc = place])
Quit(p, code) ==
    /\ me' = [me EXCEPT ![p] = Idle]
    /\ exit' = [exit EXCEPT ![p] = [tok |-> me[p].tok, code |-> code,
                                    outcome |-> me[p].outcome]]
Container(p) == <<endpoint, me[p].tok>>
AllIdle == \A p \in Procs : At(p, "idle")
CleaningUp ==
    \E q \in Procs : me[q].pc \in {"load", "identity", "inspect", "remove", "unlink"}

-----------------------------------------------------------------------------
(* generate_image_size_evidence and _measure_export_tar                    *)

\* Up to inspect_runtime_daemon_id; a failure before that changes nothing.
StartMeasurement(p) ==
    /\ At(p, "idle")
    /\ started < MaxMeasurements
    /\ ConcurrentCleanup \/ ~CleaningUp
    /\ careless' = (careless \/ CleaningUp)
    /\ started' = started + 1
    /\ home' = [home EXCEPT ![started + 1] = endpoint]
    /\ Become(p, [Idle EXCEPT !.pc = "publish_journal", !.tok = started + 1,
                              !.dmn = endpoint])
    /\ UNCHANGED <<journal, evidence, daemonVars, endpoint, restarted, faults>>

\* (A bug of the code: os.replace, as for the confirmed journal.)
PublishJournalReplacing(p) ==
    /\ At(p, "publish_journal")
    /\ UNCHANGED <<evidence, daemonVars, endpoint, home, started, careless>>
    /\ journal' = [tok |-> me[p].tok, dmn |-> me[p].dmn, uncertain |-> TRUE]
    /\ restarted' = FALSE
    /\ Goto(p, "create") /\ NoFault

\* os.link fails if a journal is there.  A failed fsync after the link ends the
\* measurement too, with nothing created and the journal left.
PublishJournal(p) ==
    /\ At(p, "publish_journal")
    /\ UNCHANGED <<evidence, daemonVars, endpoint, home, started, careless>>
    /\ LET intent == [tok |-> me[p].tok, dmn |-> me[p].dmn, uncertain |-> TRUE]
       IN \/ /\ journal.tok = 0
             /\ journal' = intent /\ restarted' = FALSE
             /\ Goto(p, "create") /\ NoFault
          \/ /\ journal.tok # 0
             /\ UNCHANGED <<journal, restarted>>
             /\ Quit(p, 4) /\ NoFault
          \/ /\ journal.tok = 0
             /\ journal' = intent /\ restarted' = FALSE
             /\ Quit(p, 4) /\ Fault

\* A nonzero exit of docker create proves nothing: made, not made, or still to
\* be made.
CreateContainer(p) ==
    /\ At(p, "create")
    /\ UNCHANGED <<journal, evidence, otherVars>>
    /\ LET x == Container(p)
           failed == [me[p] EXCEPT !.pc = "cleanup_inspect",
                                   !.outcome = "failed", !.uncertain = TRUE]
       IN \/ /\ present' = present \cup {x} /\ UNCHANGED inflight
             /\ Goto(p, "confirm_journal") /\ NoFault
          \/ /\ \/ UNCHANGED daemonVars
                \/ present' = present \cup {x} /\ UNCHANGED inflight
                \/ inflight' = inflight \cup {x} /\ UNCHANGED present
             /\ Become(p, failed) /\ Fault

\* replace_existing: os.replace puts this journal over whatever is there.
ConfirmJournal(p) ==
    /\ At(p, "confirm_journal")
    /\ UNCHANGED <<evidence, daemonVars, otherVars>>
    /\ LET sure == [tok |-> me[p].tok, dmn |-> me[p].dmn, uncertain |-> FALSE]
       IN \/ journal' = sure /\ Goto(p, "export") /\ NoFault
          \/ /\ journal' \in {journal, sure} /\ Fault
             /\ Become(p, [me[p] EXCEPT !.pc = "cleanup_inspect",
                                        !.outcome = "failed"])

ExportContainer(p) ==
    /\ At(p, "export")
    /\ UNCHANGED <<journal, evidence, daemonVars, otherVars>>
    /\ LET Ends(o) == Become(p, [me[p] EXCEPT !.pc = "cleanup_inspect",
                                              !.outcome = o])
       IN \/ /\ Container(p) \in present
             /\ \E o \in {"measured", "rejected"} : Ends(o)
             /\ NoFault
          \/ Container(p) \notin present /\ Ends("failed") /\ NoFault
          \/ Ends("failed") /\ Fault

\* _cleanup_measurement_container: a container that cannot be seen keeps the
\* journal, whether its creation was confirmed or uncertain.
CleanupInspect(p) ==
    /\ At(p, "cleanup_inspect")
    /\ UNCHANGED <<journal, evidence, daemonVars, otherVars>>
    /\ \/ Container(p) \in present /\ Goto(p, "cleanup_remove") /\ NoFault
       \/ Container(p) \notin present /\ Quit(p, 4) /\ NoFault
       \/ Quit(p, 4) /\ Fault

\* docker rm --force of a container that is not there fails, or, with a recent
\* client, succeeds.
RemoveContainer(p, place, next) ==
    /\ At(p, place)
    /\ UNCHANGED <<journal, evidence, inflight, otherVars>>
    /\ LET x == Container(p)
       IN \/ present' = present \ {x} /\ Goto(p, next) /\ NoFault
          \/ x \notin present /\ UNCHANGED present /\ Quit(p, 4) /\ NoFault
          \/ present' \in {present, present \ {x}} /\ Quit(p, 4) /\ Fault

\* (A bug of the code: the exit code of rm is not looked at.)
CleanupRemoveUnchecked(p) ==
    /\ At(p, "cleanup_remove")
    /\ UNCHANGED <<journal, evidence, inflight, otherVars>>
    /\ \/ present' = present \ {Container(p)} /\ NoFault
       \/ UNCHANGED present /\ Fault
    /\ Goto(p, "cleanup_unlink")
CleanupRemove(p) == RemoveContainer(p, "cleanup_remove", "cleanup_unlink")

\* path.unlink() takes away the file that has the name now; a missing file is an
\* error, and so is a failed fsync after it.
CleanupUnlink(p) ==
    /\ At(p, "cleanup_unlink")
    /\ UNCHANGED <<evidence, daemonVars, otherVars>>
    /\ \/ /\ journal.tok # 0 /\ journal' = NoJournal
          /\ \/ me[p].outcome = "measured" /\ Goto(p, "write_evidence")
             \/ me[p].outcome = "rejected" /\ Quit(p, 6)
             \/ me[p].outcome = "failed" /\ Quit(p, 4)
          /\ NoFault
       \/ journal.tok = 0 /\ UNCHANGED journal /\ Quit(p, 4) /\ NoFault
       \/ journal' \in {journal, NoJournal} /\ Quit(p, 4) /\ Fault

\* (A bug of the code: os.replace, as for the confirmed journal.)
WriteEvidenceReplacing(p) ==
    /\ At(p, "write_evidence")
    /\ UNCHANGED <<journal, daemonVars, otherVars>>
    /\ \/ evidence' = me[p].tok /\ Quit(p, 0) /\ NoFault
       \/ UNCHANGED evidence /\ Quit(p, 6) /\ NoFault
       \/ evidence' \in {evidence, me[p].tok} /\ Quit(p, 4) /\ Fault

\* validate_image_size_evidence may still reject a measured image (a limit);
\* write_image_size_evidence never replaces existing evidence.
WriteEvidence(p) ==
    /\ At(p, "write_evidence")
    /\ UNCHANGED <<journal, daemonVars, otherVars>>
    /\ \/ evidence = 0 /\ evidence' = me[p].tok /\ Quit(p, 0) /\ NoFault
       \/ UNCHANGED evidence /\ Quit(p, 6) /\ NoFault
       \/ evidence # 0 /\ UNCHANGED evidence /\ Quit(p, 4) /\ NoFault
       \/ /\ evidence = 0 /\ evidence' \in {0, me[p].tok}
          /\ Quit(p, 4) /\ Fault

-----------------------------------------------------------------------------
(* reconcile_measurement_journal                                           *)

StartCleanup(p, confirm) ==
    /\ At(p, "idle")
    /\ ConcurrentCleanup \/ AllIdle
    /\ careless' = (careless \/ ~AllIdle)
    /\ confirm => restarted
    /\ Become(p, [Idle EXCEPT !.pc = "load", !.confirm = confirm])
    /\ UNCHANGED <<journal, evidence, daemonVars, endpoint, restarted, home,
                   started, faults>>

LoadJournal(p) ==
    /\ At(p, "load")
    /\ UNCHANGED <<journal, evidence, daemonVars, otherVars>>
    /\ \/ /\ journal.tok # 0
          /\ Become(p, [me[p] EXCEPT !.pc = "identity", !.tok = journal.tok,
                                     !.dmn = journal.dmn,
                                     !.uncertain = journal.uncertain])
          /\ NoFault
       \/ journal.tok = 0 /\ Quit(p, 4) /\ NoFault

\* With --confirm-daemon-restarted another Engine ID resolves the journal.
CheckIdentity(p) ==
    /\ At(p, "identity")
    /\ UNCHANGED <<journal, evidence, daemonVars, otherVars>>
    /\ \/ endpoint = me[p].dmn /\ Goto(p, "inspect") /\ NoFault
       \/ endpoint # me[p].dmn /\ me[p].confirm /\ Goto(p, "unlink") /\ NoFault
       \/ endpoint # me[p].dmn /\ ~me[p].confirm /\ Quit(p, 4) /\ NoFault
       \/ Quit(p, 4) /\ Fault

\* A container whose creation was uncertain may still appear.
AbsenceInconclusive(l) == l.uncertain /\ ~l.confirm

InspectContainer(p) ==
    /\ At(p, "inspect")
    /\ UNCHANGED <<journal, evidence, daemonVars, otherVars>>
    /\ \/ Container(p) \in present /\ Goto(p, "remove") /\ NoFault
       \/ /\ Container(p) \notin present
          /\ IF AbsenceInconclusive(me[p]) THEN Quit(p, 4)
             ELSE Goto(p, "unlink")
          /\ NoFault
       \/ Quit(p, 4) /\ Fault

ReconcileRemove(p) == RemoveContainer(p, "remove", "unlink")

ReconcileUnlink(p) ==
    /\ At(p, "unlink")
    /\ UNCHANGED <<evidence, daemonVars, otherVars>>
    /\ \/ journal.tok # 0 /\ journal' = NoJournal /\ Quit(p, 0) /\ NoFault
       \/ journal.tok = 0 /\ UNCHANGED journal /\ Quit(p, 4) /\ NoFault
       \/ journal' \in {journal, NoJournal} /\ Quit(p, 4) /\ Fault

-----------------------------------------------------------------------------
(* Around the processes.                                                   *)

Crash(p) == /\ ~At(p, "idle")
            /\ me' = [me EXCEPT ![p] = Idle]
            /\ exit' = [exit EXCEPT ![p] = NoRun]
            /\ Fault
            /\ UNCHANGED <<journal, evidence, daemonVars, otherVars>>

LateCreate ==
    /\ \E x \in inflight : /\ inflight' = inflight \ {x}
                           /\ present' \in {present, present \cup {x}}
    /\ UNCHANGED <<journal, evidence, me, exit, otherVars, faults>>

\* The operator restarts the daemon of a journal nobody is working on.
RestartDaemon ==
    /\ AllIdle /\ journal.tok # 0
    /\ inflight' = {x \in inflight : x[1] # journal.dmn}
    /\ restarted' = TRUE
    /\ UNCHANGED <<journal, evidence, me, exit, present, endpoint, home,
                   started, careless, faults>>

\* Between commands of the operator, never under a running process.
Repoint(d) ==
    /\ Repointing /\ AllIdle /\ endpoint # d
    /\ endpoint' = d
    /\ careless' = TRUE
    /\ UNCHANGED <<journal, evidence, me, exit, daemonVars, restarted, home,
                   started, faults>>

Init ==
    /\ journal = NoJournal
    /\ evidence = 0
    /\ me = [p \in Procs |-> Idle]
    /\ exit = [p \in Procs |-> NoRun]
    /\ present = {} /\ inflight = {}
    /\ endpoint \in Daemons
    /\ restarted = FALSE
    /\ home = [t \in Measurements |-> NoDaemon]
    /\ started = 0
    /\ careless = FALSE
    /\ faults = 0

Measure(p) ==
    \/ StartMeasurement(p) \/ PublishJournal(p) \/ CreateContainer(p)
    \/ ConfirmJournal(p) \/ ExportContainer(p) \/ CleanupInspect(p)
    \/ CleanupRemove(p) \/ CleanupUnlink(p) \/ WriteEvidence(p)

Reconcile(p) ==
    \/ \E confirm \in BOOLEAN : StartCleanup(p, confirm)
    \/ LoadJournal(p) \/ CheckIdentity(p) \/ InspectContainer(p)
    \/ ReconcileRemove(p) \/ ReconcileUnlink(p)

Next ==
    \/ \E p \in Procs : Measure(p) \/ Reconcile(p) \/ Crash(p)
    \/ LateCreate \/ RestartDaemon
    \/ \E d \in Daemons : Repoint(d)

Spec == Init /\ [][Next]_vars

-----------------------------------------------------------------------------
\* The container of measurement t exists or an open request may still make it.
Live(t) == <<home[t], t>> \in present \cup inflight

KeptWhileUnsure ==
    \A t \in Measurements :
        journal.tok = t /\ journal'.tok # t => ~Live(t)

\* The journal is there as long as the container it names is, or may come
\* (finish of a measurement and of --cleanup-pending).
JournalKeptWhileUnsure == [][KeptWhileUnsure]_vars

\* Until a cleanup command runs beside a measurement or a context is repointed,
\* no measurement has a container that no journal names, even if two measurements
\* race on the directory.
ContainersNamed ==
    ~careless => \A t \in Measurements : Live(t) => journal.tok = t

\* A measurement that ends with evidence or with a rejection has left nothing
\* behind, and nothing can appear later.
QuietExitIsClean ==
    \A p \in Procs :
        exit[p].code \in {0, 6} /\ exit[p].outcome # "none" => ~Live(exit[p].tok)

\* The directory implements the ledger: the journal is the open ledger, what is
\* held are the containers that are there or may come, and once published (by
\* write_image_size_evidence) evidence is neither replaced nor made untrue.
Held == {t \in Measurements : Live(t)}
Ledger == INSTANCE EvidenceLedger WITH
              owner <- journal.tok, held <- Held, published <- evidence
ImplementsLedger == Ledger!LedgerSpec
=============================================================================
