--------------------------- MODULE AttemptProofs ----------------------------
(***************************************************************************)
(* Proofs about AttemptJournal for every number of processes, daemons,     *)
(* contexts and attempts, in three parts: the lock and the marked journal; *)
(* no resource without a journal that names it, and settled results;       *)
(* and the implementation of CleanupLedger.                                *)
(***************************************************************************)
EXTENDS AttemptJournal, TLAPS

\* The places before an attempt has its token: reconciliation, and what comes
\* between it and the token.
Reconciling == {"reconcile_identity", "reconcile_inspect", "reconcile_remove",
                "reconcile_verify", "reconcile_write", "reconcile_recheck",
                "reconcile_unlink"}
Entering == {"load", "unlink_previous", "prepare"} \cup Reconciling
Working == Places \ (Entering \cup {"idle"})
RolePlaces == {"reconcile_inspect", "reconcile_remove", "reconcile_verify",
               "cleanup_identity",
               "cleanup_inspect", "cleanup_remove"}

\* Only the holder of the lock is anywhere but idle.
LockInv == \A p \in Procs : me[p].pc # "idle" <=> lock = p

\* What the locals l of a process promise at their place.
ProcInv(l) ==
    /\ l.pc # "idle" => l.ctx \in Contexts
    /\ l.pc \in RolePlaces => l.role \in Roles
    /\ l.pc \in Reconciling \cup Working => l.tok # 0
    /\ l.pc \in Working => l.dmn \in Daemons
    /\ l.pc \in Entering /\ l.mode = "attempt" => started < MaxAttempts
    /\ l.pc \in {"unlink_previous", "prepare"} => l.mode = "attempt"
    /\ l.pc \in {"unlink_previous", "prepare", "write_intent", "publish"}
          => journal.tok = 0
    /\ l.pc \in {"prepare", "write_intent", "finish_recheck", "finish_unlink",
                  "publish"} => submission = 0

\* The part of TypeOK that is not about the processes.
WorldOK ==
    /\ journal \in Journals
    /\ submission \in 0..MaxAttempts
    /\ present \subseteq Resources
    /\ inflight \subseteq Resources
    /\ foreign \subseteq Resources
    /\ endpoint \in [Contexts -> Daemons]
    /\ restarted \in BOOLEAN
    /\ home \in [Attempts -> Daemons \cup {NoDaemon}]
    /\ started \in 0..MaxAttempts
    /\ faults \in 0..MaxFaults

\* A journal names the daemon of its attempt, and no submission lies beside it.
JournalInv == journal.tok # 0 => submission = 0 /\ journal.dmn \in Daemons

IInv ==
    /\ TypeOK
    /\ LockInv
    /\ \A p \in Procs : ProcInv(me[p])
    /\ JournalInv

-----------------------------------------------------------------------------
LEMMA IdleIsLocal == Idle \in Locals
BY AttemptJournalAssumption DEF Idle, Locals, Places, Roles, Kinds

LEMMA IdleProcInv == ProcInv(Idle)
BY DEF ProcInv, Idle, RolePlaces, Reconciling, Working, Entering, Places

LEMMA JournalTypes ==
    /\ NoJournal \in Journals /\ NoJournal.tok = 0
    /\ \A j \in Journals, S \in SUBSET Roles :
          /\ [j EXCEPT !.observed = S] \in Journals
          /\ [j EXCEPT !.observed = S].tok = j.tok
          /\ [j EXCEPT !.observed = S].dmn = j.dmn
BY AttemptJournalAssumption DEF NoJournal, Journals

LEMMA TypeSplit ==
    TypeOK <=> /\ lock \in Procs \cup {NoProc}
               /\ me \in [Procs -> Locals]
               /\ result \in [Procs -> Results]
               /\ WorldOK
BY DEF TypeOK, WorldOK

LEMMA FaultTypes ==
    ASSUME WorldOK, Fault \/ NoFault
    PROVE  faults' \in 0..MaxFaults
BY AttemptJournalAssumption DEF WorldOK, Fault, NoFault

LEMMA BecomeLocal ==
    ASSUME IInv, NEW p \in Procs, NEW l, Become(p, l)
    PROVE  me'[p] = l
BY TypeSplit DEF IInv, Become

\* A step that leaves p at another place.
LEMMA BecomeInv ==
    ASSUME IInv, NEW p \in Procs, me[p].pc # "idle",
           NEW l \in Locals, l.pc # "idle", Become(p, l),
           WorldOK', ProcInv(me[p])', JournalInv'
    PROVE  IInv'
<1>1. lock = p /\ \A q \in Procs \ {p} : me[q].pc = "idle"
    BY DEF IInv, LockInv
<1>2. me' \in [Procs -> Locals] /\ me'[p] = l
    BY TypeSplit, BecomeLocal DEF IInv, Become
<1>3. \A q \in Procs \ {p} : me'[q] = me[q]
    BY <1>1, TypeSplit DEF IInv, Become
<1>4. \A q \in Procs \ {p} : ProcInv(me[q])'
    BY <1>1, <1>3 DEF ProcInv, RolePlaces, Reconciling, Working, Entering, Places
<1>5. LockInv'
    BY <1>1, <1>2, <1>3 DEF LockInv, Become
<1>6. TypeOK'
    BY <1>2, TypeSplit DEF IInv, Become, TypeOK, WorldOK
<1>7. QED
    BY <1>2, <1>4, <1>5, <1>6 DEF IInv

\* A step with which p returns.
LEMMA ReturnInv ==
    ASSUME IInv, NEW p \in Procs, me[p].pc # "idle",
           NEW kind \in Kinds, NEW pending \in BOOLEAN, Return(p, kind, pending),
           WorldOK', JournalInv'
    PROVE  IInv'
<1>1. lock = p /\ \A q \in Procs \ {p} : me[q].pc = "idle"
    BY DEF IInv, LockInv
<1>2. me' \in [Procs -> Locals] /\ me'[p] = Idle
    BY TypeSplit, IdleIsLocal DEF IInv, Return
<1>3. \A q \in Procs : me'[q].pc = "idle"
    BY <1>1, <1>2, TypeSplit DEF IInv, Return, Idle
<1>4. \A q \in Procs : ProcInv(me[q])'
    BY <1>3 DEF ProcInv, RolePlaces, Reconciling, Working, Entering, Places
<1>5. LockInv'
    BY <1>3, AttemptJournalAssumption DEF LockInv, Return
<1>6. result' \in [Procs -> Results]
    <2>1. me[p].tok \in 0..MaxAttempts
        BY TypeSplit DEF IInv, Locals
    <2>2. QED
        BY <2>1, TypeSplit DEF IInv, Return, Results
<1>7. TypeOK'
    BY <1>2, <1>6, TypeSplit DEF IInv, Return, TypeOK, WorldOK
<1>8. QED
    BY <1>4, <1>5, <1>7 DEF IInv

\* A step that is nobody's, or that only changes the result of an idle process.
LEMMA WorldInv ==
    ASSUME IInv, UNCHANGED <<lock, me, journal, submission, started>>,
           result' \in [Procs -> Results], WorldOK'
    PROVE  IInv'
<1>1. TypeOK'
    BY TypeSplit DEF IInv, TypeOK, WorldOK
<1>2. LockInv' /\ JournalInv'
    BY DEF IInv, LockInv, JournalInv
<1>3. \A q \in Procs : ProcInv(me[q])'
    BY DEF IInv, ProcInv
<1>4. QED
    BY <1>1, <1>2, <1>3 DEF IInv

-----------------------------------------------------------------------------
(* The initial state and the lock.                                         *)

LEMMA InitInv == Init => IInv
<1> SUFFICES ASSUME Init PROVE IInv
    OBVIOUS
<1>1. TypeOK
    <2>1. WorldOK
        <3>1. foreign \subseteq Resources
            BY AttemptJournalAssumption DEF Init
        <3>2. /\ submission \in 0..MaxAttempts /\ started \in 0..MaxAttempts
              /\ faults \in 0..MaxFaults
            BY AttemptJournalAssumption DEF Init
        <3>3. QED
            BY <3>1, <3>2, JournalTypes DEF Init, WorldOK
    <2>2. NoResult \in Results
        BY AttemptJournalAssumption DEF NoResult, Results, Kinds
    <2>3. QED
        BY <2>1, <2>2, IdleIsLocal, TypeSplit DEF Init
<1>2. LockInv
    BY AttemptJournalAssumption DEF Init, LockInv, Idle
<1>3. \A p \in Procs : ProcInv(me[p])
    BY IdleProcInv DEF Init
<1>4. JournalInv
    BY JournalTypes DEF Init, JournalInv
<1>5. QED
    BY <1>1, <1>2, <1>3, <1>4 DEF IInv

LEMMA InvokeInv ==
    ASSUME IInv, NEW p \in Procs, NEW mode \in {"attempt", "cleanup"},
           NEW c \in Contexts, NEW confirm \in BOOLEAN, Invoke(p, mode, c, confirm)
    PROVE  IInv'
<1> DEFINE l == [Idle EXCEPT !.pc = "load", !.mode = mode, !.ctx = c,
                             !.confirm = confirm]
<1>1. /\ l \in Locals /\ l.pc = "load" /\ l.mode = mode /\ l.ctx = c
    BY IdleIsLocal DEF Locals, Places, Idle
<1>2. /\ me' = [me EXCEPT ![p] = l]
      /\ \A q \in Procs : me[q].pc = "idle"
    BY AttemptJournalAssumption DEF Invoke, IInv, LockInv
<1>3. WorldOK'
    BY TypeSplit DEF IInv, Invoke, NoFault, WorldOK, journalVars, daemonVars,
                     worldVars, historyVars
<1>4. TypeOK'
    <2>1. NoResult \in Results
        BY AttemptJournalAssumption DEF NoResult, Results, Kinds
    <2>2. me' \in [Procs -> Locals] /\ lock' \in Procs
             /\ result' \in [Procs -> Results]
        BY <1>1, <1>2, <2>1, TypeSplit DEF IInv, Invoke
    <2>3. QED
        BY <1>3, <2>2 DEF TypeOK, WorldOK
<1>5. LockInv'
    BY <1>1, <1>2, TypeSplit DEF LockInv, Invoke, IInv
<1>6. \A q \in Procs : ProcInv(me[q])'
    <2> USE DEF ProcInv, RolePlaces, Reconciling, Working, Entering, Places
    <2>1. \A q \in Procs \ {p} : ProcInv(me[q])'
        BY <1>2, TypeSplit DEF IInv
    <2>2. ProcInv(me[p])'
        BY <1>1, <1>2, TypeSplit DEF IInv, Invoke, historyVars
    <2>3. QED
        BY <2>1, <2>2
<1>7. JournalInv'
    BY DEF IInv, Invoke, journalVars, JournalInv
<1>8. QED
    BY <1>4, <1>5, <1>6, <1>7 DEF IInv

LEMMA ContendInv ==
    ASSUME IInv, NEW p \in Procs, Contend(p)
    PROVE  IInv'
<1>1. result' \in [Procs -> Results]
    BY TypeSplit, AttemptJournalAssumption DEF IInv, Contend, Results, Kinds
<1>2. WorldOK'
    BY TypeSplit DEF IInv, Contend, NoFault, WorldOK, journalVars, daemonVars,
                     worldVars, historyVars
<1>3. QED
    BY <1>1, <1>2, WorldInv DEF Contend, journalVars, historyVars

LEMMA CrashInv ==
    ASSUME IInv, NEW p \in Procs, Crash(p)
    PROVE  IInv'
<1>1. lock = p /\ \A q \in Procs : me'[q].pc = "idle"
    BY TypeSplit, IdleIsLocal DEF IInv, LockInv, Crash, At, Idle
<1>2. WorldOK'
    BY TypeSplit, FaultTypes DEF IInv, Crash, WorldOK, journalVars, daemonVars,
                                 worldVars, historyVars
<1>3. TypeOK'
    <2>1. NoResult \in Results
        BY AttemptJournalAssumption DEF NoResult, Results, Kinds
    <2>2. me' \in [Procs -> Locals] /\ lock' = NoProc
             /\ result' \in [Procs -> Results]
        BY <2>1, TypeSplit, IdleIsLocal DEF IInv, Crash
    <2>3. QED
        BY <1>2, <2>2 DEF TypeOK, WorldOK
<1>4. LockInv'
    BY <1>1, AttemptJournalAssumption DEF LockInv, Crash
<1>5. \A q \in Procs : ProcInv(me[q])'
    BY <1>1 DEF ProcInv, RolePlaces, Reconciling, Working, Entering, Places
<1>6. JournalInv'
    BY DEF IInv, Crash, journalVars, JournalInv
<1>7. QED
    BY <1>3, <1>4, <1>5, <1>6 DEF IInv
-----------------------------------------------------------------------------
(* Reconciliation.                                                         *)

LEMMA UnreconciledInv ==
    ASSUME IInv, NEW p \in Procs, me[p].pc # "idle", Unreconciled(p),
           WorldOK', JournalInv'
    PROVE  IInv'
<1>1. "error" \in Kinds /\ "infrastructure" \in Kinds
    BY DEF Kinds
<1>2. PICK kind \in Kinds, pending \in BOOLEAN : Return(p, kind, pending)
    BY <1>1, Zenon DEF Unreconciled
<1>3. QED
    BY <1>2, ReturnInv

LEMMA ReconciledInv ==
    ASSUME IInv, NEW p \in Procs, me[p].pc \in Reconciling \cup {"load"},
           Reconciled(p), journal'.tok = 0, started' = started,
           WorldOK', JournalInv'
    PROVE  IInv'
<1>1. me[p] \in Locals /\ ProcInv(me[p]) /\ me[p].pc # "idle"
    BY TypeSplit DEF IInv, Reconciling
<1>2. CASE me[p].mode = "cleanup"
    <2>1. "ok" \in Kinds
        BY DEF Kinds
    <2>2. QED
        BY <1>1, <1>2, <2>1, ReturnInv DEF Reconciled
<1>3. CASE me[p].mode # "cleanup"
    <2> DEFINE l == [me[p] EXCEPT !.pc = "unlink_previous", !.tok = 0,
                                  !.dmn = NoDaemon, !.observed = {}]
    <2>1. Become(p, l)
        BY <1>3 DEF Reconciled
    <2>2. 0 \in 0..MaxAttempts
        BY AttemptJournalAssumption
    <2>3. l \in Locals /\ l.pc = "unlink_previous" /\ l.mode = "attempt"
             /\ l.ctx = me[p].ctx
        BY <1>1, <1>3, <2>2 DEF Locals, Places
    <2>4. me[p].mode = "attempt"
        BY <1>1, <1>3 DEF Locals
    <2>5. started < MaxAttempts /\ me[p].ctx \in Contexts
        BY <1>1, <2>4 DEF ProcInv, Entering
    <2>6. me'[p] = l
        BY <2>1, BecomeLocal
    <2>7. ProcInv(me[p])'
        BY <2>3, <2>5, <2>6
           DEF ProcInv, RolePlaces, Reconciling, Working, Entering, Places
    <2>8. QED
        BY <1>1, <2>1, <2>3, <2>7, BecomeInv
<1>4. QED
    BY <1>2, <1>3

LEMMA LoadJournalInv ==
    ASSUME IInv, NEW p \in Procs, LoadJournal(p)
    PROVE  IInv'
<1>1. /\ me[p] \in Locals /\ me[p].pc = "load" /\ ProcInv(me[p]) /\ WorldOK
      /\ JournalInv
    BY TypeSplit DEF IInv, LoadJournal, At
<1>2. WorldOK'
    BY <1>1, FaultTypes DEF LoadJournal, WorldOK, journalVars, daemonVars,
                            worldVars, historyVars
<1>3. JournalInv' /\ journal' = journal /\ started' = started
    BY <1>1 DEF LoadJournal, JournalInv, journalVars, historyVars
<1>4. CASE journal.tok = 0 /\ Reconciled(p)
    BY <1>1, <1>2, <1>3, <1>4, ReconciledInv
<1>5. CASE Unreconciled(p)
    BY <1>1, <1>2, <1>3, <1>5, UnreconciledInv
<1> DEFINE l == [me[p] EXCEPT !.pc = "reconcile_identity", !.tok = journal.tok,
                              !.dmn = journal.dmn, !.observed = journal.observed]
<1>6. CASE journal.tok # 0 /\ Become(p, l)
    <2>0. Become(p, l)
        BY <1>6
    <2>1. /\ l \in Locals /\ l.pc = "reconcile_identity" /\ l.ctx = me[p].ctx
          /\ l.tok = journal.tok /\ l.mode = me[p].mode
        BY <1>1 DEF Locals, Places, WorldOK, Journals
    <2>2. ProcInv(me[p])'
        BY <1>1, <1>3, <1>6, <2>0, <2>1, BecomeLocal
           DEF ProcInv, RolePlaces, Reconciling, Working, Entering, Places
    <2>3. QED
        BY <1>1, <1>2, <1>3, <2>0, <2>1, <2>2, BecomeInv
<1>7. QED
    BY <1>4, <1>5, <1>6 DEF LoadJournal

\* A step of the reconciliation that goes to another of its places, with the
\* same token, keeps the promise of its locals.
LEMMA ReconcilingInv ==
    ASSUME IInv, NEW p \in Procs, me[p].pc \in Reconciling,
           NEW l \in Locals, l.pc \in Reconciling, l.pc \in RolePlaces => l.role \in Roles,
           l.tok = me[p].tok, l.mode = me[p].mode, l.ctx = me[p].ctx,
           Become(p, l), started' = started,
           WorldOK', JournalInv'
    PROVE  IInv'
<1>1. ProcInv(me[p]) /\ me[p].pc # "idle" /\ l.pc # "idle"
    BY DEF IInv, Reconciling
<1>2. ProcInv(me[p])'
    BY <1>1, BecomeLocal DEF ProcInv, RolePlaces, Reconciling, Working, Entering, Places
<1>3. QED
    BY <1>1, <1>2, BecomeInv

LEMMA NextRoleLocals ==
    ASSUME NEW l \in Locals, l.role \in Roles
    PROVE  /\ NextRole(l) \in Locals /\ NextRole(l).pc \in Reconciling
           /\ NextRole(l).pc \in RolePlaces => NextRole(l).role \in Roles
           /\ NextRole(l).tok = l.tok /\ NextRole(l).mode = l.mode
           /\ NextRole(l).ctx = l.ctx
<1>1. /\ l.role = "volume" => NextRole(l).pc = "reconcile_write"
      /\ l.role # "volume" => NextRole(l).pc = "reconcile_inspect"
      /\ NextRole(l).role = After(l.role)
      /\ NextRole(l).tok = l.tok /\ NextRole(l).mode = l.mode
      /\ NextRole(l).ctx = l.ctx
    BY DEF NextRole, Locals
<1>2. After(l.role) \in Roles \cup {"end"} /\ (l.role # "volume" => After(l.role) \in Roles)
    BY DEF After, Roles
<1>3. NextRole(l) \in Locals
    <2>1. \A r \in Roles \cup {"end"}, c \in Places :
              [l EXCEPT !.role = r, !.pc = c] \in Locals
        BY DEF Locals
    <2>2. IF l.role = "volume" THEN "reconcile_write" \in Places
                               ELSE "reconcile_inspect" \in Places
        BY DEF Places
    <2>3. QED
        BY <1>2, <2>1, <2>2 DEF NextRole
<1>4. QED
    BY <1>1, <1>2, <1>3 DEF Reconciling, RolePlaces

LEMMA ReconcileIdentityInv ==
    ASSUME IInv, NEW p \in Procs, ReconcileIdentity(p)
    PROVE  IInv'
<1>1. /\ me[p] \in Locals /\ me[p].pc = "reconcile_identity" /\ WorldOK
      /\ JournalInv
    BY TypeSplit DEF IInv, ReconcileIdentity, At
<1>2. WorldOK'
    BY <1>1, FaultTypes DEF ReconcileIdentity, WorldOK, journalVars, daemonVars,
                            worldVars, historyVars
<1>3. JournalInv' /\ started' = started
    BY <1>1 DEF ReconcileIdentity, JournalInv, journalVars, historyVars
<1> DEFINE l == [me[p] EXCEPT !.pc = "reconcile_inspect", !.role = "participant"]
<1>4. CASE Become(p, l)
    <2>1. /\ l \in Locals /\ l.pc \in Reconciling /\ l.role \in Roles
          /\ l.tok = me[p].tok /\ l.mode = me[p].mode /\ l.ctx = me[p].ctx
        BY <1>1 DEF Locals, Places, Roles, Reconciling
    <2>2. me[p].pc \in Reconciling
        BY <1>1 DEF Reconciling
    <2>3. QED
        BY <1>2, <1>3, <1>4, <2>1, <2>2, ReconcilingInv
<1>5. CASE Unreconciled(p)
    BY <1>1, <1>2, <1>3, <1>5, UnreconciledInv
<1>6. QED
    BY <1>4, <1>5 DEF ReconcileIdentity

LEMMA ReconcileInspectInv ==
    ASSUME IInv, NEW p \in Procs, ReconcileInspect(p)
    PROVE  IInv'
<1> DEFINE r == me[p].role
           noted == me[p].observed \cup {r}
           updated == [journal EXCEPT !.observed = noted]
<1>1. /\ me[p] \in Locals /\ me[p].pc = "reconcile_inspect" /\ ProcInv(me[p])
      /\ WorldOK /\ JournalInv
    BY TypeSplit DEF IInv, ReconcileInspect, At
<1>2. r \in Roles /\ noted \in SUBSET Roles /\ me[p].pc \in Reconciling
    BY <1>1 DEF ProcInv, RolePlaces, Locals, Reconciling
<1>3. /\ updated \in Journals /\ updated.tok = journal.tok
      /\ updated.dmn = journal.dmn
    BY <1>1, <1>2, JournalTypes DEF WorldOK
<1>4. /\ journal' \in {journal, updated} /\ faults' \in 0..MaxFaults
      /\ UNCHANGED <<submission, daemonVars, worldVars, historyVars>>
    BY <1>1, FaultTypes DEF ReconcileInspect, Written, WriteFailed
<1>5. WorldOK' /\ started' = started
    BY <1>1, <1>3, <1>4 DEF WorldOK, daemonVars, worldVars, historyVars
<1>6. JournalInv'
    BY <1>1, <1>3, <1>4 DEF JournalInv
<1>7. CASE Unreconciled(p)
    BY <1>1, <1>5, <1>6, <1>7, UnreconciledInv
<1>8. ASSUME NEW l \in Locals, l.role \in Roles, Become(p, l), l.pc \in Reconciling,
             l.tok = me[p].tok, l.mode = me[p].mode, l.ctx = me[p].ctx
      PROVE  IInv'
    BY <1>2, <1>5, <1>6, <1>8, ReconcilingInv
<1> DEFINE seen == [me[p] EXCEPT !.observed = noted]
           missing == [me[p] EXCEPT !.unresolved = @ \cup {r}]
           removing == [me[p] EXCEPT !.pc = "reconcile_remove", !.observed = noted]
<1>9. CASE Become(p, NextRole(seen))
    <2>1. seen \in Locals /\ seen.role \in Roles /\ seen.tok = me[p].tok
             /\ seen.mode = me[p].mode /\ seen.ctx = me[p].ctx
        BY <1>1, <1>2 DEF Locals
    <2>2. QED
        BY <1>2, <1>5, <1>6, <1>9, <2>1, NextRoleLocals, ReconcilingInv
<1>10. CASE Become(p, NextRole(missing))
    <2>1. missing \in Locals /\ missing.role \in Roles /\ missing.tok = me[p].tok
             /\ missing.mode = me[p].mode /\ missing.ctx = me[p].ctx
        BY <1>1, <1>2 DEF Locals
    <2>2. QED
        BY <1>2, <1>5, <1>6, <1>10, <2>1, NextRoleLocals, ReconcilingInv
<1>11. CASE Become(p, removing)
    <2>1. /\ removing \in Locals /\ removing.role \in Roles
          /\ removing.pc \in Reconciling /\ removing.tok = me[p].tok
          /\ removing.mode = me[p].mode /\ removing.ctx = me[p].ctx
        BY <1>1, <1>2 DEF Locals, Places, Reconciling
    <2>2. QED
        BY <1>8, <1>11, <2>1
<1>12. QED
    BY <1>7, <1>9, <1>10, <1>11, Zenon DEF ReconcileInspect
LEMMA RemovedTypes ==
    ASSUME WorldOK, NEW x, Removed(x) \/ UNCHANGED <<daemonVars, worldVars>>
    PROVE  /\ present' \subseteq Resources /\ inflight' \subseteq Resources
           /\ foreign' \subseteq Resources /\ endpoint' = endpoint
           /\ restarted' = restarted
BY DEF WorldOK, Removed, daemonVars, worldVars

LEMMA ReconcileRemoveInv ==
    ASSUME IInv, NEW p \in Procs, ReconcileRemove(p)
    PROVE  IInv'
<1>1. /\ me[p] \in Locals /\ me[p].pc = "reconcile_remove" /\ ProcInv(me[p])
      /\ WorldOK /\ JournalInv /\ faults' \in 0..MaxFaults
    BY TypeSplit, FaultTypes DEF IInv, ReconcileRemove, At
<1>2. /\ present' \subseteq Resources /\ inflight' \subseteq Resources
      /\ foreign' \subseteq Resources /\ endpoint' = endpoint
      /\ restarted' = restarted
    BY <1>1, RemovedTypes DEF ReconcileRemove
<1>3. WorldOK' /\ JournalInv' /\ started' = started
    BY <1>1, <1>2 DEF ReconcileRemove, WorldOK, JournalInv,
                      journalVars, historyVars
<1>4. CASE Unreconciled(p)
    BY <1>1, <1>3, <1>4, UnreconciledInv
<1>5. CASE Goto(p, "reconcile_verify")
    <2> DEFINE l == [me[p] EXCEPT !.pc = "reconcile_verify"]
    <2>1. /\ l \in Locals /\ l.pc \in Reconciling /\ l.role = me[p].role
          /\ l.tok = me[p].tok /\ l.mode = me[p].mode /\ l.ctx = me[p].ctx
        BY <1>1 DEF Locals, Places, Reconciling
    <2>2. Become(p, l) /\ me[p].role \in Roles /\ me[p].pc \in Reconciling
        BY <1>1, <1>5 DEF Goto, ProcInv, RolePlaces, Reconciling
    <2>3. QED
        BY <1>3, <2>1, <2>2, ReconcilingInv
<1>6. QED
    BY <1>4, <1>5 DEF ReconcileRemove

LEMMA ReconcileVerifyInv ==
    ASSUME IInv, NEW p \in Procs, ReconcileVerify(p)
    PROVE  IInv'
<1>1. /\ me[p] \in Locals /\ me[p].pc = "reconcile_verify" /\ ProcInv(me[p])
      /\ WorldOK /\ JournalInv /\ faults' \in 0..MaxFaults
    BY TypeSplit, FaultTypes DEF IInv, ReconcileVerify, At
<1>2. WorldOK' /\ JournalInv' /\ started' = started
    BY <1>1 DEF ReconcileVerify, WorldOK, JournalInv,
                journalVars, daemonVars, worldVars, historyVars
<1>3. CASE Unreconciled(p)
    BY <1>1, <1>2, <1>3, UnreconciledInv
<1>4. CASE Become(p, NextRole(me[p]))
    <2>1. me[p].role \in Roles /\ me[p].pc \in Reconciling
        BY <1>1 DEF ProcInv, RolePlaces, Reconciling
    <2>2. QED
        BY <1>1, <1>2, <1>4, <2>1, NextRoleLocals, ReconcilingInv
<1>5. QED
    BY <1>3, <1>4 DEF ReconcileVerify

LEMMA ReconcileWriteInv ==
    ASSUME IInv, NEW p \in Procs, ReconcileWrite(p)
    PROVE  IInv'
<1> DEFINE updated == [journal EXCEPT !.observed = me[p].observed]
<1>1. /\ me[p] \in Locals /\ me[p].pc = "reconcile_write" /\ ProcInv(me[p])
      /\ WorldOK /\ JournalInv
    BY TypeSplit DEF IInv, ReconcileWrite, At
<1>2. me[p].observed \in SUBSET Roles
    BY <1>1 DEF Locals
<1>3. /\ updated \in Journals /\ updated.tok = journal.tok
      /\ updated.dmn = journal.dmn
    BY <1>1, <1>2, JournalTypes DEF WorldOK
<1>4. /\ journal' \in {journal, updated} /\ faults' \in 0..MaxFaults
      /\ UNCHANGED <<submission, daemonVars, worldVars, historyVars>>
    BY <1>1, FaultTypes DEF ReconcileWrite, Written, WriteFailed
<1>5. WorldOK' /\ JournalInv' /\ started' = started
    BY <1>1, <1>3, <1>4 DEF WorldOK, JournalInv, daemonVars, worldVars,
                            historyVars
<1>6. CASE Unreconciled(p)
    BY <1>1, <1>5, <1>6, UnreconciledInv
<1>7. CASE Goto(p, "reconcile_recheck")
    <2> DEFINE l == [me[p] EXCEPT !.pc = "reconcile_recheck"]
    <2>1. /\ l \in Locals /\ l.pc \in Reconciling /\ l.pc \notin RolePlaces
          /\ l.tok = me[p].tok /\ l.mode = me[p].mode /\ l.ctx = me[p].ctx
        BY <1>1 DEF Locals, Places, Reconciling, RolePlaces
    <2>2. Become(p, l) /\ me[p].pc \in Reconciling
        BY <1>1, <1>7 DEF Goto, Reconciling
    <2>3. QED
        BY <1>5, <2>1, <2>2, ReconcilingInv
<1>8. QED
    BY <1>6, <1>7 DEF ReconcileWrite

LEMMA ReconcileRecheckInv ==
    ASSUME IInv, NEW p \in Procs, ReconcileRecheck(p)
    PROVE  IInv'
<1>1. /\ me[p] \in Locals /\ me[p].pc = "reconcile_recheck" /\ ProcInv(me[p])
      /\ WorldOK /\ JournalInv /\ faults' \in 0..MaxFaults
    BY TypeSplit, FaultTypes DEF IInv, ReconcileRecheck, At
<1>2. WorldOK' /\ JournalInv' /\ started' = started
    BY <1>1 DEF ReconcileRecheck, WorldOK, JournalInv,
                journalVars, daemonVars, worldVars, historyVars
<1>3. CASE Unreconciled(p)
    BY <1>1, <1>2, <1>3, UnreconciledInv
<1>4. CASE Goto(p, "reconcile_unlink")
    <2> DEFINE l == [me[p] EXCEPT !.pc = "reconcile_unlink"]
    <2>1. /\ l \in Locals /\ l.pc \in Reconciling /\ l.pc \notin RolePlaces
          /\ l.tok = me[p].tok /\ l.mode = me[p].mode /\ l.ctx = me[p].ctx
        BY <1>1 DEF Locals, Places, Reconciling, RolePlaces
    <2>2. Become(p, l) /\ me[p].pc \in Reconciling
        BY <1>1, <1>4 DEF Goto, Reconciling
    <2>3. QED
        BY <1>2, <2>1, <2>2, ReconcilingInv
<1>5. QED
    BY <1>3, <1>4 DEF ReconcileRecheck

LEMMA ReconcileUnlinkInv ==
    ASSUME IInv, NEW p \in Procs, ReconcileUnlink(p)
    PROVE  IInv'
<1>1. /\ me[p] \in Locals /\ me[p].pc = "reconcile_unlink" /\ ProcInv(me[p])
      /\ WorldOK /\ JournalInv
    BY TypeSplit DEF IInv, ReconcileUnlink, At
<1>2. /\ journal' \in {journal, NoJournal} /\ faults' \in 0..MaxFaults
      /\ UNCHANGED <<submission, daemonVars, worldVars, historyVars>>
    BY <1>1, FaultTypes DEF ReconcileUnlink, Unlinked, UnlinkFailed
<1>3. WorldOK' /\ JournalInv' /\ started' = started
    BY <1>1, <1>2, JournalTypes DEF WorldOK, JournalInv, daemonVars,
                                    worldVars, historyVars
<1>4. CASE Unreconciled(p)
    BY <1>1, <1>3, <1>4, UnreconciledInv
<1>5. CASE Unlinked /\ Reconciled(p)
    <2>1. journal'.tok = 0 /\ me[p].pc \in Reconciling \cup {"load"}
        BY <1>1, <1>5, JournalTypes DEF Unlinked, Reconciling
    <2>2. QED
        BY <1>3, <1>5, <2>1, ReconciledInv
<1>6. QED
    BY <1>4, <1>5 DEF ReconcileUnlink
-----------------------------------------------------------------------------
(* The attempt.                                                            *)

\* From a place of the attempt to a later one, with the same token and context.
Continues(l, m) ==
    /\ m \in Locals
    /\ m.tok = l.tok /\ m.ctx = l.ctx /\ m.dmn = l.dmn
    /\ m.pc \in Working \ {"write_intent", "finish_recheck", "finish_unlink", "publish"}
    /\ m.pc \in RolePlaces => m.role \in Roles

LEMMA ContinueInv ==
    ASSUME IInv, NEW p \in Procs, me[p].pc \in Working,
           NEW l, Continues(me[p], l), Become(p, l),
           WorldOK', JournalInv'
    PROVE  IInv'
<1>1. /\ ProcInv(me[p]) /\ me[p].pc # "idle" /\ me'[p] = l /\ l.pc # "idle"
      /\ l \in Locals
    BY BecomeLocal DEF IInv, Working, Continues
<1>2. ProcInv(me[p])'
    BY <1>1 DEF Continues, ProcInv, RolePlaces, Reconciling, Working, Entering, Places
<1>3. QED
    BY <1>1, <1>2, BecomeInv

LEMMA AsInfrastructureKind == \A k \in Kinds : AsInfrastructure(k) \in Kinds
BY DEF AsInfrastructure, Kinds

PlainPlaces == Working \ (RolePlaces \cup {"write_intent", "finish_recheck",
                                          "finish_unlink", "publish"})

LEMMA GotoInv ==
    ASSUME IInv, NEW p \in Procs, me[p].pc \in Working,
           NEW place \in PlainPlaces, Goto(p, place),
           WorldOK', JournalInv'
    PROVE  IInv'
<1> DEFINE l == [me[p] EXCEPT !.pc = place]
<1>1. me[p] \in Locals
    BY TypeSplit DEF IInv
<1>2. Continues(me[p], l)
    BY <1>1 DEF Continues, Locals, PlainPlaces, Working
<1>3. QED
    BY <1>2, ContinueInv DEF Goto

LEMMA SuspendInv ==
    ASSUME IInv, NEW p \in Procs, me[p].pc \in Working,
           NEW place \in PlainPlaces, Suspend(p, place),
           WorldOK', JournalInv'
    PROVE  IInv'
<1> DEFINE l == [me[p] EXCEPT !.pc = place, !.kind = AsInfrastructure(@),
                              !.pending = TRUE]
<1>1. me[p] \in Locals /\ AsInfrastructure(me[p].kind) \in Kinds
    BY TypeSplit, AsInfrastructureKind DEF IInv, Locals
<1>2. Continues(me[p], l)
    BY <1>1 DEF Continues, Locals, PlainPlaces, Working
<1>3. QED
    BY <1>2, ContinueInv DEF Suspend

\* Every way into the managed cleanup.
LEMMA EnterCleanupContinues ==
    ASSUME NEW l \in Locals, NEW m \in Locals, m.tok = l.tok, m.ctx = l.ctx,
           m.dmn = l.dmn
    PROVE  Continues(l, EnterCleanup(m))
<1>1. "cleanup_identity" \in Places /\ "helper" \in Roles
    BY DEF Places, Roles
<1>2. EnterCleanup(m) \in Locals
    BY <1>1 DEF EnterCleanup, Locals
<1>3. /\ EnterCleanup(m).pc = "cleanup_identity" /\ EnterCleanup(m).role = "helper"
      /\ EnterCleanup(m).tok = m.tok /\ EnterCleanup(m).ctx = m.ctx
      /\ EnterCleanup(m).dmn = m.dmn
    BY DEF EnterCleanup, Locals
<1>4. QED
    BY <1>1, <1>2, <1>3 DEF Continues, Working, Entering, Reconciling, Places, RolePlaces

LEMMA SuspendAndCleanupInv ==
    ASSUME IInv, NEW p \in Procs, me[p].pc \in Working, SuspendAndCleanup(p),
           WorldOK', JournalInv'
    PROVE  IInv'
<1> DEFINE l == [me[p] EXCEPT !.kind = AsInfrastructure(@), !.pending = TRUE]
<1>1. me[p] \in Locals /\ AsInfrastructure(me[p].kind) \in Kinds
    BY TypeSplit, AsInfrastructureKind DEF IInv, Locals
<1>2. /\ l \in Locals /\ l.tok = me[p].tok
          /\ l.ctx = me[p].ctx /\ l.dmn = me[p].dmn
    BY <1>1 DEF Locals
<1>3. Continues(me[p], EnterCleanup(l))
    BY <1>1, <1>2, EnterCleanupContinues
<1>4. QED
    BY <1>3, ContinueInv DEF SuspendAndCleanup

\* The names p uses are names of resources.
LEMMA NameIsResource ==
    ASSUME IInv, NEW p \in Procs, me[p].pc \in Working, NEW r \in Roles
    PROVE  Name(p, r) \in Resources
<1>1. me[p] \in Locals /\ ProcInv(me[p]) /\ WorldOK
    BY TypeSplit DEF IInv
<1>2. me[p].ctx \in Contexts /\ me[p].tok \in Attempts
    BY <1>1, AttemptJournalAssumption DEF ProcInv, Working, Locals, Attempts
<1>3. QED
    BY <1>1, <1>2 DEF Name, Endpoint, Resources, WorldOK

LEMMA CreatedTypes ==
    ASSUME WorldOK, NEW x \in Resources,
           Created(x) \/ CreateUncertain(x) \/ UNCHANGED daemonVars
    PROVE  present' \subseteq Resources /\ inflight' \subseteq Resources
BY DEF WorldOK, Created, CreateUncertain, daemonVars

LEMMA UnlinkPreviousInv ==
    ASSUME IInv, NEW p \in Procs, UnlinkPrevious(p)
    PROVE  IInv'
<1>1. /\ me[p] \in Locals /\ me[p].pc = "unlink_previous" /\ ProcInv(me[p])
      /\ WorldOK /\ JournalInv /\ faults' \in 0..MaxFaults
    BY TypeSplit, FaultTypes DEF IInv, UnlinkPrevious, At
<1>2. 0 \in 0..MaxAttempts
    BY AttemptJournalAssumption
<1>3. WorldOK' /\ JournalInv' /\ started' = started /\ journal' = journal
    BY <1>1, <1>2 DEF UnlinkPrevious, WorldOK, JournalInv, daemonVars,
                      worldVars, historyVars
<1>4. CASE submission' = 0 /\ Goto(p, "prepare")
    <2> DEFINE l == [me[p] EXCEPT !.pc = "prepare"]
    <2>1. /\ l \in Locals /\ l.pc = "prepare" /\ l.mode = me[p].mode
          /\ l.ctx = me[p].ctx
        BY <1>1 DEF Locals, Places
    <2>2. Become(p, l) /\ me'[p] = l
        BY <1>4, BecomeLocal DEF Goto
    <2>3. ProcInv(me[p])'
        BY <1>1, <1>3, <1>4, <2>1, <2>2
           DEF ProcInv, RolePlaces, Reconciling, Working, Entering, Places
    <2>4. QED
        BY <1>1, <1>3, <2>1, <2>2, <2>3, BecomeInv
<1>5. CASE Return(p, "infrastructure", FALSE)
    BY <1>1, <1>3, <1>5, ReturnInv DEF Kinds
<1>6. QED
    BY <1>4, <1>5 DEF UnlinkPrevious

LEMMA PrepareInv ==
    ASSUME IInv, NEW p \in Procs, Prepare(p)
    PROVE  IInv'
<1>1. /\ me[p] \in Locals /\ me[p].pc = "prepare" /\ ProcInv(me[p])
      /\ WorldOK /\ JournalInv /\ faults' \in 0..MaxFaults
    BY TypeSplit, FaultTypes DEF IInv, Prepare, At
<1>2. UNCHANGED <<journalVars, daemonVars, foreign, endpoint>>
    BY DEF Prepare
<1>3. JournalInv'
    BY <1>1, <1>2 DEF JournalInv, journalVars
<1>4. CASE UNCHANGED <<restarted, historyVars>> /\ Return(p, "infrastructure", FALSE)
    <2>1. WorldOK'
        BY <1>1, <1>2, <1>4 DEF WorldOK, journalVars, daemonVars, historyVars
    <2>2. QED
        BY <1>1, <1>3, <1>4, <2>1, ReturnInv DEF Kinds
<1> DEFINE l == [me[p] EXCEPT !.pc = "write_intent", !.tok = started + 1,
                              !.dmn = Endpoint(p)]
<1>5. CASE /\ started' = started + 1
           /\ home' = [home EXCEPT ![started + 1] = Endpoint(p)]
           /\ restarted' = FALSE
           /\ Become(p, l)
    <2>1. started + 1 \in Attempts /\ started + 1 \in 0..MaxAttempts
        <3>1. me[p].mode = "attempt"
            BY <1>1 DEF ProcInv
        <3>2. started < MaxAttempts
            BY <1>1, <3>1 DEF ProcInv, Entering
        <3>3. QED
            BY <1>1, <3>2, AttemptJournalAssumption DEF WorldOK, Attempts
    <2>2. Endpoint(p) \in Daemons
        BY <1>1 DEF Endpoint, ProcInv, WorldOK
    <2>3. WorldOK'
        <3>1. home' \in [Attempts -> Daemons \cup {NoDaemon}]
            BY <1>1, <1>5, <2>2 DEF WorldOK
        <3>2. QED
            BY <1>1, <1>2, <1>5, <2>1, <3>1 DEF WorldOK, journalVars, daemonVars
    <2>4. /\ l \in Locals /\ l.pc = "write_intent" /\ l.tok = started + 1
          /\ l.ctx = me[p].ctx /\ l.dmn \in Daemons
        BY <1>1, <2>1, <2>2 DEF Locals, Places
    <2>5. me'[p] = l
        BY <1>5, BecomeLocal
    <2>6. started + 1 # 0
        BY <2>1, AttemptJournalAssumption DEF Attempts
    <2>7. ProcInv(me[p])'
        BY <1>1, <1>2, <2>4, <2>5, <2>6
           DEF ProcInv, RolePlaces, Reconciling, Working, Entering, Places, journalVars
    <2>8. QED
        BY <1>1, <1>3, <1>5, <2>3, <2>4, <2>7, BecomeInv
<1>6. QED
    BY <1>4, <1>5 DEF Prepare

LEMMA WriteIntentInv ==
    ASSUME IInv, NEW p \in Procs, WriteIntent(p)
    PROVE  IInv'
<1> DEFINE intent == [tok |-> me[p].tok, ctx |-> me[p].ctx, dmn |-> me[p].dmn,
                      observed |-> {}]
<1>1. /\ me[p] \in Locals /\ me[p].pc = "write_intent" /\ ProcInv(me[p])
      /\ me[p].pc \in Working /\ WorldOK
    BY TypeSplit DEF IInv, WriteIntent, At, Working, Entering, Reconciling, Places
<1>2. intent \in Journals /\ intent.dmn \in Daemons
    BY <1>1 DEF Journals, Locals, ProcInv
<1>3. /\ journal' \in {journal, intent} /\ faults' \in 0..MaxFaults
      /\ UNCHANGED <<submission, daemonVars, worldVars, historyVars>>
    BY <1>1, FaultTypes DEF WriteIntent, Written, WriteFailed
<1>4. WorldOK'
    BY <1>1, <1>2, <1>3 DEF WorldOK, daemonVars, worldVars, historyVars
<1>5. JournalInv'
    BY <1>1, <1>2, <1>3 DEF JournalInv, ProcInv
<1>6. CASE Goto(p, "create_volume")
    BY <1>1, <1>4, <1>5, <1>6, GotoInv
       DEF PlainPlaces, Working, Entering, Reconciling, Places, RolePlaces
<1>7. CASE Become(p, [me[p] EXCEPT !.pc = "finish", !.kind = "infrastructure"])
    <2> DEFINE failed == [me[p] EXCEPT !.pc = "finish", !.kind = "infrastructure"]
    <2>1. "finish" \in Places /\ "infrastructure" \in Kinds
        BY DEF Places, Kinds
    <2>2. failed \in Locals
        BY <1>1, <2>1 DEF Locals
    <2>3. /\ failed.pc = "finish" /\ failed.tok = me[p].tok
          /\ failed.ctx = me[p].ctx /\ failed.dmn = me[p].dmn
        BY <1>1 DEF Locals
    <2>4. /\ "finish" \in Working \ {"write_intent", "finish_recheck",
                                       "finish_unlink", "publish"}
          /\ "finish" \notin RolePlaces
        BY DEF Working, Entering, Reconciling, Places, RolePlaces
    <2>5. Continues(me[p], failed)
        BY <2>2, <2>3, <2>4 DEF Continues
    <2>6. QED
        BY <1>1, <1>4, <1>5, <1>7, <2>5, ContinueInv
<1>8. QED
    BY <1>6, <1>7 DEF WriteIntent

LEMMA CoreDumpPolicyInv ==
    ASSUME IInv, NEW p \in Procs, CoreDumpPolicy(p)
    PROVE  IInv'
<1>1. /\ me[p] \in Locals /\ me[p].pc = "core_dump_policy" /\ ProcInv(me[p])
      /\ me[p].pc \in Working /\ WorldOK /\ JournalInv
    BY TypeSplit DEF IInv, CoreDumpPolicy, At, Working, Entering, Reconciling, Places
<1>2. WorldOK' /\ JournalInv'
    BY <1>1, FaultTypes DEF CoreDumpPolicy, WorldOK, JournalInv, journalVars,
                            daemonVars, worldVars, historyVars
<1>3. CASE Goto(p, "run")
    BY <1>1, <1>2, <1>3, GotoInv DEF PlainPlaces, RolePlaces, Working, Entering, Reconciling, Places
<1>4. CASE Become(p, EnterCleanup([me[p] EXCEPT !.kind = "infrastructure"]))
    <2>1. /\ [me[p] EXCEPT !.kind = "infrastructure"] \in Locals
          /\ [me[p] EXCEPT !.kind = "infrastructure"].tok = me[p].tok
          /\ [me[p] EXCEPT !.kind = "infrastructure"].ctx = me[p].ctx
          /\ [me[p] EXCEPT !.kind = "infrastructure"].dmn = me[p].dmn
        BY <1>1 DEF Locals, Kinds
    <2>2. Continues(me[p], EnterCleanup([me[p] EXCEPT !.kind = "infrastructure"]))
        BY <1>1, <2>1, EnterCleanupContinues
    <2>3. QED
        BY <1>1, <1>2, <1>4, <2>2, ContinueInv
<1>5. QED
    BY <1>3, <1>4 DEF CoreDumpPolicy

LEMMA DaemonIdentityInv ==
    ASSUME IInv, NEW p \in Procs, DaemonIdentity(p)
    PROVE  IInv'
<1>1. /\ me[p] \in Locals /\ me[p].pc = "identity" /\ ProcInv(me[p])
      /\ me[p].pc \in Working /\ WorldOK /\ JournalInv
    BY TypeSplit DEF IInv, DaemonIdentity, At, Working, Entering, Reconciling, Places
<1>2. WorldOK' /\ JournalInv'
    BY <1>1, FaultTypes DEF DaemonIdentity, WorldOK, JournalInv, journalVars,
                            daemonVars, worldVars, historyVars
<1>3. CASE Goto(p, "participant_inspect")
    BY <1>1, <1>2, <1>3, GotoInv DEF PlainPlaces, RolePlaces, Working, Entering, Reconciling, Places
<1>4. CASE SuspendAndCleanup(p)
    BY <1>1, <1>2, <1>4, SuspendAndCleanupInv
<1>5. QED
    BY <1>3, <1>4 DEF DaemonIdentity

LEMMA StopParticipantInv ==
    ASSUME IInv, NEW p \in Procs, StopParticipant(p)
    PROVE  IInv'
<1>1. /\ me[p] \in Locals /\ me[p].pc = "participant_stop" /\ ProcInv(me[p])
      /\ me[p].pc \in Working /\ WorldOK /\ JournalInv
    BY TypeSplit DEF IInv, StopParticipant, At, Working, Entering, Reconciling, Places
<1>2. WorldOK' /\ JournalInv'
    BY <1>1, FaultTypes DEF StopParticipant, WorldOK, JournalInv, journalVars,
                            daemonVars, worldVars, historyVars
<1>3. CASE Suspend(p, "participant_remove")
    BY <1>1, <1>2, <1>3, SuspendInv DEF PlainPlaces, RolePlaces, Working, Entering, Reconciling, Places
<1>4. ASSUME NEW k \in Kinds,
             Become(p, [me[p] EXCEPT !.pc = "participant_remove", !.kind = k])
      PROVE  IInv'
    <2>1. Continues(me[p], [me[p] EXCEPT !.pc = "participant_remove", !.kind = k])
        BY <1>1 DEF Continues, Locals, RolePlaces, Working, Entering, Reconciling, Places
    <2>2. QED
        BY <1>1, <1>2, <1>4, <2>1, ContinueInv
<1>5. QED
    <2>1. me[p].kind \in Kinds /\ "execution" \in Kinds /\ "infrastructure" \in Kinds
        BY <1>1 DEF Locals, Kinds
    <2>2. QED
        BY <1>3, <1>4, <2>1 DEF StopParticipant

LEMMA CleanupIdentityInv ==
    ASSUME IInv, NEW p \in Procs, CleanupIdentity(p)
    PROVE  IInv'
<1>1. /\ me[p] \in Locals /\ me[p].pc = "cleanup_identity" /\ ProcInv(me[p])
      /\ me[p].pc \in Working /\ WorldOK /\ JournalInv
    BY TypeSplit DEF IInv, CleanupIdentity, At, Working, Entering, Reconciling, Places
<1>2. WorldOK' /\ JournalInv'
    BY <1>1, FaultTypes DEF CleanupIdentity, WorldOK, JournalInv, journalVars,
                            daemonVars, worldVars, historyVars
<1>3. CASE Goto(p, "cleanup_inspect")
    <2>1. Continues(me[p], [me[p] EXCEPT !.pc = "cleanup_inspect"])
        BY <1>1 DEF Continues, Locals, ProcInv, RolePlaces, Working, Entering, Reconciling, Places
    <2>2. QED
        BY <1>1, <1>2, <1>3, <2>1, ContinueInv DEF Goto
<1>4. CASE Suspend(p, "finish")
    BY <1>1, <1>2, <1>4, SuspendInv DEF PlainPlaces, RolePlaces, Working, Entering, Reconciling, Places
<1>5. QED
    BY <1>3, <1>4 DEF CleanupIdentity


\* The two steps to the removal of the journal, which no submission lies beside.
LEMMA FinishingInv ==
    ASSUME IInv, NEW p \in Procs, me[p].pc \in {"finish", "finish_recheck"},
           NEW place \in {"finish_recheck", "finish_unlink"}, Goto(p, place),
           submission' = 0, WorldOK', JournalInv'
    PROVE  IInv'
<1> DEFINE l == [me[p] EXCEPT !.pc = place]
<1>1. me[p] \in Locals /\ ProcInv(me[p]) /\ me[p].pc \in Working
    BY TypeSplit DEF IInv, Working, Entering, Reconciling, Places
<1>2. /\ l \in Locals /\ l.pc = place /\ l.tok = me[p].tok /\ l.ctx = me[p].ctx
      /\ l.dmn = me[p].dmn
    BY <1>1 DEF Locals, Places
<1>3. Become(p, l) /\ me'[p] = l /\ me[p].pc # "idle" /\ l.pc # "idle"
    BY <1>2, BecomeLocal DEF Goto
<1> HIDE DEF l
<1>4. ProcInv(me[p])'
    BY <1>1, <1>2, <1>3
       DEF ProcInv, RolePlaces, Reconciling, Working, Entering, Places
<1>5. QED
    BY <1>2, <1>3, <1>4, BecomeInv

LEMMA FinishRecheckInv ==
    ASSUME IInv, NEW p \in Procs, FinishRecheck(p)
    PROVE  IInv'
<1>1. /\ me[p] \in Locals /\ me[p].pc = "finish_recheck" /\ ProcInv(me[p])
      /\ me[p].pc \in Working /\ WorldOK /\ JournalInv
    BY TypeSplit DEF IInv, FinishRecheck, At, Working, Entering, Reconciling, Places
<1>2. WorldOK' /\ JournalInv'
    BY <1>1, FaultTypes DEF FinishRecheck, WorldOK, JournalInv, journalVars,
                            daemonVars, worldVars, historyVars
<1>3. CASE Goto(p, "finish_unlink")
    <2>1. submission' = 0
        BY <1>1 DEF FinishRecheck, ProcInv, journalVars
    <2>2. QED
        BY <1>1, <1>2, <1>3, <2>1, FinishingInv
<1>4. CASE Return(p, "infrastructure", TRUE)
    BY <1>1, <1>2, <1>4, ReturnInv DEF Kinds, Working, Entering, Reconciling, Places
<1>5. QED
    BY <1>3, <1>4 DEF FinishRecheck
LEMMA CreateOutputVolumeInv ==
    ASSUME IInv, NEW p \in Procs, CreateOutputVolume(p)
    PROVE  IInv'
<1>1. /\ me[p] \in Locals /\ me[p].pc = "create_volume" /\ ProcInv(me[p])
      /\ me[p].pc \in Working /\ WorldOK /\ JournalInv
    BY TypeSplit DEF IInv, CreateOutputVolume, At, Working, Entering, Reconciling, Places
<1> DEFINE x == Name(p, "volume")
           l == [me[p] EXCEPT !.made = {"volume"}]
           failing == [l EXCEPT !.kind = "infrastructure", !.pending = TRUE]
<1>2. x \in Resources
    BY <1>1, NameIsResource DEF Roles
<1>3. present' \subseteq Resources /\ inflight' \subseteq Resources
    BY <1>1, <1>2, CreatedTypes DEF CreateOutputVolume
<1>4. WorldOK' /\ JournalInv'
    BY <1>1, <1>3, FaultTypes DEF CreateOutputVolume, WorldOK, JournalInv,
                                  journalVars, worldVars, historyVars
<1>5. CASE Become(p, [l EXCEPT !.pc = "inspect_volume"])
    <2>1. Continues(me[p], [l EXCEPT !.pc = "inspect_volume"])
        BY <1>1 DEF Continues, Locals, Roles, RolePlaces, Working, Entering,
                    Reconciling, Places
    <2>2. QED
        BY <1>1, <1>4, <1>5, <2>1, ContinueInv
<1>6. CASE Become(p, EnterCleanup(failing))
    <2>1. /\ failing \in Locals /\ failing.tok = me[p].tok
          /\ failing.ctx = me[p].ctx /\ failing.dmn = me[p].dmn
        BY <1>1 DEF Locals, Kinds, Roles
    <2>2. Continues(me[p], EnterCleanup(failing))
        BY <1>1, <2>1, EnterCleanupContinues
    <2>3. QED
        BY <1>1, <1>4, <1>6, <2>2, ContinueInv
<1>7. QED
    BY <1>5, <1>6 DEF CreateOutputVolume

LEMMA StartOutputHelperInv ==
    ASSUME IInv, NEW p \in Procs, StartOutputHelper(p)
    PROVE  IInv'
<1>1. /\ me[p] \in Locals /\ me[p].pc = "start_helper" /\ ProcInv(me[p])
      /\ me[p].pc \in Working /\ WorldOK /\ JournalInv
    BY TypeSplit DEF IInv, StartOutputHelper, At, Working, Entering, Reconciling, Places
<1> DEFINE x == Name(p, "helper")
           l == [me[p] EXCEPT !.made = @ \cup {"helper"}]
           failing == [l EXCEPT !.kind = "infrastructure", !.pending = TRUE]
<1>2. x \in Resources
    BY <1>1, NameIsResource DEF Roles
<1>3. present' \subseteq Resources /\ inflight' \subseteq Resources
    BY <1>1, <1>2, CreatedTypes DEF StartOutputHelper
<1>4. WorldOK' /\ JournalInv'
    BY <1>1, <1>3, FaultTypes DEF StartOutputHelper, WorldOK, JournalInv,
                                  journalVars, worldVars, historyVars
<1>5. CASE Become(p, [l EXCEPT !.pc = "inspect_helper"])
    <2>1. Continues(me[p], [l EXCEPT !.pc = "inspect_helper"])
        BY <1>1 DEF Continues, Locals, Roles, RolePlaces, Working, Entering,
                    Reconciling, Places
    <2>2. QED
        BY <1>1, <1>4, <1>5, <2>1, ContinueInv
<1>6. CASE Become(p, EnterCleanup(failing))
    <2>1. /\ failing \in Locals /\ failing.tok = me[p].tok
          /\ failing.ctx = me[p].ctx /\ failing.dmn = me[p].dmn
        BY <1>1 DEF Locals, Kinds, Roles
    <2>2. Continues(me[p], EnterCleanup(failing))
        BY <1>1, <2>1, EnterCleanupContinues
    <2>3. QED
        BY <1>1, <1>4, <1>6, <2>2, ContinueInv
<1>7. QED
    BY <1>5, <1>6 DEF StartOutputHelper

LEMMA InspectCreatedInv ==
    ASSUME IInv, NEW p \in Procs, NEW place \in Working, NEW r \in Roles,
           NEW next \in PlainPlaces, InspectCreated(p, place, r, next)
    PROVE  IInv'
<1> DEFINE noted == me[p].observed \cup {r}
           updated == [journal EXCEPT !.observed = noted]
           l == [me[p] EXCEPT !.pc = next, !.observed = noted]
<1>1. /\ me[p] \in Locals /\ ProcInv(me[p]) /\ me[p].pc \in Working
      /\ WorldOK /\ JournalInv
    BY TypeSplit DEF IInv, InspectCreated, At
<1>2. noted \in SUBSET Roles
    BY <1>1 DEF Locals
<1>3. /\ updated \in Journals /\ updated.tok = journal.tok
      /\ updated.dmn = journal.dmn
    BY <1>1, <1>2, JournalTypes DEF WorldOK
<1>4. /\ journal' \in {journal, updated} /\ faults' \in 0..MaxFaults
      /\ UNCHANGED <<submission, daemonVars, worldVars, historyVars>>
    BY <1>1, FaultTypes DEF InspectCreated, Written, WriteFailed
<1>5. WorldOK' /\ JournalInv'
    BY <1>1, <1>3, <1>4 DEF WorldOK, JournalInv, daemonVars, worldVars,
                            historyVars
<1>6. CASE Become(p, l)
    <2>1. Continues(me[p], l)
        BY <1>1, <1>2 DEF Continues, Locals, PlainPlaces, Working
    <2>2. QED
        BY <1>1, <1>5, <1>6, <2>1, ContinueInv
<1>7. CASE SuspendAndCleanup(p)
    BY <1>1, <1>5, <1>7, SuspendAndCleanupInv
<1>8. QED
    BY <1>6, <1>7 DEF InspectCreated

LEMMA InspectVolumeInv ==
    ASSUME IInv, NEW p \in Procs, InspectVolume(p)
    PROVE  IInv'
BY InspectCreatedInv DEF InspectVolume, PlainPlaces, RolePlaces, Roles, Working,
                         Entering, Reconciling, Places

LEMMA InspectHelperInv ==
    ASSUME IInv, NEW p \in Procs, InspectHelper(p)
    PROVE  IInv'
BY InspectCreatedInv DEF InspectHelper, PlainPlaces, RolePlaces, Roles, Working,
                         Entering, Reconciling, Places

LEMMA RunPreparedRouterInv ==
    ASSUME IInv, NEW p \in Procs, RunPreparedRouter(p)
    PROVE  IInv'
<1>1. /\ me[p] \in Locals /\ me[p].pc = "run" /\ ProcInv(me[p])
      /\ me[p].pc \in Working /\ WorldOK /\ JournalInv
    BY TypeSplit DEF IInv, RunPreparedRouter, At, Working, Entering, Reconciling, Places
<1> DEFINE x == Name(p, "participant")
           Ended(k, t) == [me[p] EXCEPT !.pc = "identity", !.kind = k,
                                        !.terminated = t]
           raised == [me[p] EXCEPT !.pc = "best_effort", !.kind = "raised"]
<1>2. x \in Resources
    BY <1>1, NameIsResource DEF Roles
<1>3. present' \subseteq Resources /\ inflight' \subseteq Resources
    BY <1>1, <1>2, CreatedTypes DEF RunPreparedRouter
<1>4. WorldOK' /\ JournalInv'
    BY <1>1, <1>3, FaultTypes DEF RunPreparedRouter, WorldOK, JournalInv,
                                  journalVars, worldVars, historyVars
<1>5. ASSUME NEW k \in {"valid", "execution", "infrastructure"}, NEW t \in BOOLEAN,
             Become(p, Ended(k, t))
      PROVE  IInv'
    <2>1. k \in Kinds
        BY DEF Kinds
    <2>2. "identity" \in PlainPlaces
        BY DEF PlainPlaces, RolePlaces, Working, Entering, Reconciling, Places
    <2>3. Continues(me[p], Ended(k, t))
        BY <1>1, <2>1, <2>2 DEF Continues, Locals, PlainPlaces, Working
    <2>4. QED
        BY <1>1, <1>4, <1>5, <2>3, ContinueInv
<1>6. CASE Become(p, raised)
    <2>1. "raised" \in Kinds
        BY DEF Kinds
    <2>2. "best_effort" \in PlainPlaces
        BY DEF PlainPlaces, RolePlaces, Working, Entering, Reconciling, Places
    <2>3. Continues(me[p], raised)
        BY <1>1, <2>1, <2>2 DEF Continues, Locals, PlainPlaces, Working
    <2>4. QED
        BY <1>1, <1>4, <1>6, <2>3, ContinueInv
<1>7. QED
    BY <1>5, <1>6, Zenon DEF RunPreparedRouter

LEMMA BestEffortRemoveInv ==
    ASSUME IInv, NEW p \in Procs, BestEffortRemove(p)
    PROVE  IInv'
<1>1. /\ me[p] \in Locals /\ me[p].pc = "best_effort" /\ ProcInv(me[p])
      /\ me[p].pc \in Working /\ WorldOK /\ JournalInv
    BY TypeSplit DEF IInv, BestEffortRemove, At, Working, Entering, Reconciling, Places
<1>2. WorldOK' /\ JournalInv'
    <2>1. present' \subseteq Resources
        BY <1>1 DEF BestEffortRemove, WorldOK
    <2>2. QED
        BY <1>1, <2>1, FaultTypes
           DEF BestEffortRemove, WorldOK, JournalInv, journalVars,
               worldVars, historyVars
<1>3. Continues(me[p], EnterCleanup(me[p]))
    BY <1>1, EnterCleanupContinues
<1>4. QED
    BY <1>1, <1>2, <1>3, ContinueInv DEF BestEffortRemove
LEMMA InspectParticipantInv ==
    ASSUME IInv, NEW p \in Procs, InspectParticipant(p)
    PROVE  IInv'
<1>1. /\ me[p] \in Locals /\ me[p].pc = "participant_inspect" /\ ProcInv(me[p])
      /\ me[p].pc \in Working /\ WorldOK /\ JournalInv
    BY TypeSplit DEF IInv, InspectParticipant, At, Working, Entering, Reconciling, Places
<1> DEFINE noted == me[p].observed \cup {"participant"}
           updated == [journal EXCEPT !.observed = noted]
           absent == [me[p] EXCEPT !.kind = "infrastructure",
                                   !.pending = AbsentParticipantPending(me[p])]
           found == [me[p] EXCEPT !.pc = "participant_stop", !.observed = noted]
<1>2. noted \in SUBSET Roles
    BY <1>1 DEF Locals, Roles
<1>3. /\ updated \in Journals /\ updated.tok = journal.tok
      /\ updated.dmn = journal.dmn
    BY <1>1, <1>2, JournalTypes DEF WorldOK
<1>4. /\ journal' \in {journal, updated} /\ faults' \in 0..MaxFaults
      /\ UNCHANGED <<submission, daemonVars, worldVars, historyVars>>
    BY <1>1, FaultTypes DEF InspectParticipant, Written, WriteFailed
<1>5. WorldOK' /\ JournalInv'
    BY <1>1, <1>3, <1>4 DEF WorldOK, JournalInv, daemonVars, worldVars,
                            historyVars
<1>6. CASE Become(p, EnterCleanup(absent))
    <2>1. /\ absent \in Locals /\ absent.tok = me[p].tok
          /\ absent.ctx = me[p].ctx /\ absent.dmn = me[p].dmn
        BY <1>1 DEF Locals, Kinds, AbsentParticipantPending
    <2>2. Continues(me[p], EnterCleanup(absent))
        BY <1>1, <2>1, EnterCleanupContinues
    <2>3. QED
        BY <1>1, <1>5, <1>6, <2>2, ContinueInv
<1>7. CASE Become(p, found)
    <2>1. "participant_stop" \in PlainPlaces
        BY DEF PlainPlaces, RolePlaces, Working, Entering, Reconciling, Places
    <2>2. Continues(me[p], found)
        BY <1>1, <1>2, <2>1 DEF Continues, Locals, PlainPlaces, Working
    <2>3. QED
        BY <1>1, <1>5, <1>7, <2>2, ContinueInv
<1>8. CASE Suspend(p, "participant_stop")
    BY <1>1, <1>5, <1>8, SuspendInv DEF PlainPlaces, RolePlaces, Working, Entering,
                                        Reconciling, Places
<1>9. CASE SuspendAndCleanup(p)
    BY <1>1, <1>5, <1>9, SuspendAndCleanupInv
<1>10. QED
    BY <1>6, <1>7, <1>8, <1>9 DEF InspectParticipant

LEMMA RemoveParticipantInv ==
    ASSUME IInv, NEW p \in Procs, RemoveParticipant(p)
    PROVE  IInv'
<1>1. /\ me[p] \in Locals /\ me[p].pc = "participant_remove" /\ ProcInv(me[p])
      /\ me[p].pc \in Working /\ WorldOK /\ JournalInv
    BY TypeSplit DEF IInv, RemoveParticipant, At, Working, Entering, Reconciling, Places
<1>2. WorldOK' /\ JournalInv'
    <2>1. present' \subseteq Resources
        BY <1>1 DEF RemoveParticipant, WorldOK
    <2>2. QED
        BY <1>1, <2>1, FaultTypes
           DEF RemoveParticipant, WorldOK, JournalInv, journalVars,
               worldVars, historyVars
<1>3. CASE Become(p, EnterCleanup(me[p]))
    <2>1. Continues(me[p], EnterCleanup(me[p]))
        BY <1>1, EnterCleanupContinues
    <2>2. QED
        BY <1>1, <1>2, <1>3, <2>1, ContinueInv
<1>4. CASE SuspendAndCleanup(p)
    BY <1>1, <1>2, <1>4, SuspendAndCleanupInv
<1>5. QED
    BY <1>3, <1>4 DEF RemoveParticipant

LEMMA NextCleanupContinues ==
    ASSUME NEW l \in Locals, NEW m \in Locals, m.role \in Roles,
           m.tok = l.tok, m.ctx = l.ctx, m.dmn = l.dmn
    PROVE  Continues(l, NextCleanup(m))
<1>1. /\ m.role = "volume" => NextCleanup(m).pc = "finish"
      /\ m.role # "volume" => NextCleanup(m).pc = "cleanup_inspect"
      /\ NextCleanup(m).role = After(m.role)
      /\ NextCleanup(m).tok = m.tok /\ NextCleanup(m).ctx = m.ctx
      /\ NextCleanup(m).dmn = m.dmn
    BY DEF NextCleanup, Locals
<1>2. /\ After(m.role) \in Roles \cup {"end"}
      /\ m.role # "volume" => After(m.role) \in Roles
    BY DEF After, Roles
<1>3. NextCleanup(m) \in Locals
    <2>1. \A r \in Roles \cup {"end"}, c \in Places :
              [m EXCEPT !.role = r, !.pc = c] \in Locals
        BY DEF Locals
    <2>2. "finish" \in Places /\ "cleanup_inspect" \in Places
        BY DEF Places
    <2>3. QED
        BY <1>2, <2>1, <2>2 DEF NextCleanup
<1>4. QED
    BY <1>1, <1>2, <1>3 DEF Continues, RolePlaces, Working, Entering, Reconciling, Places

\* Both ways to the next resource of the managed cleanup.
LEMMA NextCleanupInv ==
    ASSUME IInv, NEW p \in Procs, me[p].pc \in {"cleanup_inspect", "cleanup_remove"},
           Become(p, NextCleanup(me[p])) \/ Become(p, NextCleanupSuspended(me[p])),
           WorldOK', JournalInv'
    PROVE  IInv'
<1> DEFINE m == [me[p] EXCEPT !.kind = AsInfrastructure(@), !.pending = TRUE]
<1>1. /\ me[p] \in Locals /\ me[p].role \in Roles /\ me[p].pc \in Working
      /\ AsInfrastructure(me[p].kind) \in Kinds
    BY TypeSplit, AsInfrastructureKind
       DEF IInv, Locals, ProcInv, RolePlaces, Working, Entering, Reconciling, Places
<1>2. /\ m \in Locals /\ m.role = me[p].role /\ m.tok = me[p].tok /\ m.ctx = me[p].ctx
      /\ m.dmn = me[p].dmn
    BY <1>1 DEF Locals
<1>3. Continues(me[p], NextCleanup(me[p])) /\ Continues(me[p], NextCleanup(m))
    BY <1>1, <1>2, NextCleanupContinues
<1>4. QED
    BY <1>1, <1>3, ContinueInv DEF NextCleanupSuspended

LEMMA CleanupInspectInv ==
    ASSUME IInv, NEW p \in Procs, CleanupInspect(p)
    PROVE  IInv'
<1>1. /\ me[p] \in Locals /\ me[p].pc = "cleanup_inspect" /\ ProcInv(me[p])
      /\ me[p].pc \in Working /\ WorldOK /\ JournalInv
    BY TypeSplit DEF IInv, CleanupInspect, At, Working, Entering, Reconciling, Places
<1>2. WorldOK' /\ JournalInv'
    BY <1>1, FaultTypes DEF CleanupInspect, WorldOK, JournalInv, journalVars,
                            daemonVars, worldVars, historyVars
<1>3. CASE Goto(p, "cleanup_remove")
    <2>1. Continues(me[p], [me[p] EXCEPT !.pc = "cleanup_remove"])
        BY <1>1 DEF Continues, Locals, ProcInv, RolePlaces, Working, Entering,
                    Reconciling, Places
    <2>2. QED
        BY <1>1, <1>2, <1>3, <2>1, ContinueInv DEF Goto
<1>4. CASE \/ Become(p, NextCleanup(me[p]))
           \/ Become(p, NextCleanupSuspended(me[p]))
    BY <1>1, <1>2, <1>4, NextCleanupInv
<1>5. QED
    BY <1>3, <1>4 DEF CleanupInspect

LEMMA CleanupRemoveInv ==
    ASSUME IInv, NEW p \in Procs, CleanupRemove(p)
    PROVE  IInv'
<1>1. /\ me[p] \in Locals /\ me[p].pc = "cleanup_remove" /\ ProcInv(me[p])
      /\ me[p].pc \in Working /\ WorldOK /\ JournalInv
    BY TypeSplit DEF IInv, CleanupRemove, At, Working, Entering, Reconciling, Places
<1>2. /\ present' \subseteq Resources /\ inflight' \subseteq Resources
      /\ foreign' \subseteq Resources /\ endpoint' = endpoint
      /\ restarted' = restarted
    BY <1>1, RemovedTypes DEF CleanupRemove
<1>3. WorldOK' /\ JournalInv'
    BY <1>1, <1>2, FaultTypes DEF CleanupRemove, WorldOK, JournalInv,
                                  journalVars, historyVars
<1>4. QED
    BY <1>1, <1>3, NextCleanupInv DEF CleanupRemove

LEMMA FinishInv ==
    ASSUME IInv, NEW p \in Procs, Finish(p)
    PROVE  IInv'
<1>1. /\ me[p] \in Locals /\ me[p].pc = "finish" /\ ProcInv(me[p])
      /\ me[p].pc \in Working /\ WorldOK /\ JournalInv
    BY TypeSplit DEF IInv, Finish, At, Working, Entering, Reconciling, Places
<1> DEFINE settled == [journal EXCEPT !.observed = Roles]
<1>2. /\ settled \in Journals /\ settled.tok = journal.tok
      /\ settled.dmn = journal.dmn
    BY <1>1, JournalTypes DEF WorldOK
<1>3. /\ journal' \in {journal, settled} /\ faults' \in 0..MaxFaults
      /\ UNCHANGED <<submission, daemonVars, worldVars, historyVars>>
    BY <1>1, FaultTypes DEF Finish, Written, WriteFailed
<1>4. WorldOK' /\ JournalInv'
    BY <1>1, <1>2, <1>3 DEF WorldOK, JournalInv, daemonVars, worldVars,
                            historyVars
<1>5. CASE Goto(p, "finish_recheck") /\ journal.tok # 0
    <2>1. submission' = 0
        BY <1>1, <1>3, <1>5 DEF JournalInv
    <2>2. QED
        BY <1>1, <1>4, <1>5, <2>1, FinishingInv
<1>6. ASSUME NEW kind \in Kinds, NEW pending \in BOOLEAN, Return(p, kind, pending)
      PROVE  IInv'
    BY <1>1, <1>4, <1>6, ReturnInv DEF Working
<1>7. /\ me[p].kind \in Kinds /\ me[p].pending \in BOOLEAN
      /\ "infrastructure" \in Kinds
    BY <1>1 DEF Locals, Kinds
<1>8. QED
    BY <1>5, <1>6, <1>7, Zenon DEF Finish

LEMMA RemoveResourceJournalInv ==
    ASSUME IInv, NEW p \in Procs, RemoveResourceJournal(p)
    PROVE  IInv'
<1>1. /\ me[p] \in Locals /\ me[p].pc = "finish_unlink" /\ ProcInv(me[p])
      /\ me[p].pc \in Working /\ WorldOK /\ JournalInv
    BY TypeSplit DEF IInv, RemoveResourceJournal, At, Working, Entering, Reconciling, Places
<1>2. /\ journal' \in {journal, NoJournal} /\ faults' \in 0..MaxFaults
      /\ UNCHANGED <<submission, daemonVars, worldVars, historyVars>>
    BY <1>1, FaultTypes DEF RemoveResourceJournal, Unlinked, UnlinkFailed
<1>3. WorldOK' /\ JournalInv'
    BY <1>1, <1>2, JournalTypes DEF WorldOK, JournalInv, daemonVars,
                                    worldVars, historyVars
<1>4. CASE Unlinked /\ Goto(p, "publish")
    <2> DEFINE l == [me[p] EXCEPT !.pc = "publish"]
    <2>1. /\ l \in Locals /\ l.pc = "publish" /\ l.tok = me[p].tok
          /\ l.ctx = me[p].ctx /\ l.dmn = me[p].dmn
        BY <1>1 DEF Locals, Places
    <2>2. Become(p, l) /\ me'[p] = l
        BY <1>4, BecomeLocal DEF Goto
    <2>3. journal'.tok = 0
        BY <1>4, JournalTypes DEF Unlinked
    <2>4. submission' = 0
        BY <1>1, <1>2 DEF ProcInv
    <2> HIDE DEF l
    <2>5. ProcInv(me[p])'
        BY <1>1, <2>1, <2>2, <2>3, <2>4
           DEF ProcInv, RolePlaces, Reconciling, Working, Entering, Places
    <2>6. QED
        BY <1>1, <1>3, <2>1, <2>2, <2>5, BecomeInv
<1>5. ASSUME NEW kind \in Kinds, NEW pending \in BOOLEAN, Return(p, kind, pending)
      PROVE  IInv'
    BY <1>1, <1>3, <1>5, ReturnInv DEF Working
<1>6. me[p].kind \in Kinds /\ "infrastructure" \in Kinds
    BY <1>1 DEF Locals, Kinds
<1>7. QED
    BY <1>4, <1>5, <1>6, Zenon DEF RemoveResourceJournal

LEMMA PublishSubmissionInv ==
    ASSUME IInv, NEW p \in Procs, PublishSubmission(p)
    PROVE  IInv'
<1>1. /\ me[p] \in Locals /\ me[p].pc = "publish" /\ ProcInv(me[p])
      /\ me[p].pc \in Working /\ WorldOK /\ JournalInv
    BY TypeSplit DEF IInv, PublishSubmission, At, Working, Entering, Reconciling, Places
<1>2. journal.tok = 0 /\ me[p].tok \in 0..MaxAttempts
    BY <1>1 DEF ProcInv, Locals
<1>3. WorldOK' /\ JournalInv'
    BY <1>1, <1>2, FaultTypes
       DEF PublishSubmission, WorldOK, JournalInv, daemonVars, worldVars,
           historyVars
<1>4. "valid" \in Kinds /\ "infrastructure" \in Kinds
    BY DEF Kinds
<1>5. QED
    BY <1>1, <1>3, <1>4, ReturnInv DEF PublishSubmission, Working

-----------------------------------------------------------------------------
(* The world, and the theorems.                                            *)

LEMMA WorldStepInv ==
    ASSUME IInv, World
    PROVE  IInv'
<1>1. WorldOK /\ result \in [Procs -> Results]
    BY TypeSplit DEF IInv
<1>2. CASE LateCreate
    <2>1. present' \subseteq Resources /\ inflight' \subseteq Resources
        BY <1>1, <1>2 DEF LateCreate, WorldOK
    <2>2. WorldOK'
        BY <1>1, <1>2, <2>1, FaultTypes
           DEF LateCreate, WorldOK, journalVars, worldVars, historyVars
    <2>3. QED
        BY <1>1, <1>2, <2>2, WorldInv DEF LateCreate, processVars, journalVars, historyVars
<1>3. CASE HelperExits
    <2>1. present' \subseteq Resources
        BY <1>1, <1>3 DEF HelperExits, WorldOK
    <2>2. WorldOK'
        BY <1>1, <1>3, <2>1, FaultTypes
           DEF HelperExits, WorldOK, journalVars, worldVars, historyVars
    <2>3. QED
        BY <1>1, <1>3, <2>2, WorldInv DEF HelperExits, processVars, journalVars, historyVars
<1>4. CASE RestoreEndpoint
    <2>1. endpoint' \in [Contexts -> Daemons]
        BY <1>1, <1>4 DEF RestoreEndpoint, WorldOK, IInv, JournalInv
    <2>2. WorldOK'
        BY <1>1, <1>4, <2>1, FaultTypes
           DEF RestoreEndpoint, WorldOK, journalVars, daemonVars, historyVars
    <2>3. QED
        BY <1>1, <1>4, <2>2, WorldInv DEF RestoreEndpoint, processVars, journalVars, historyVars
<1>5. ASSUME NEW d \in Daemons, RestartDaemon(d)
      PROVE  IInv'
    <2>1. inflight' \subseteq Resources /\ restarted' \in BOOLEAN
        BY <1>1, <1>5 DEF RestartDaemon, WorldOK
    <2>2. WorldOK'
        BY <1>1, <1>5, <2>1, FaultTypes
           DEF RestartDaemon, WorldOK, journalVars, historyVars
    <2>3. QED
        BY <1>1, <1>5, <2>2, WorldInv DEF RestartDaemon, processVars, journalVars, historyVars
<1>6. ASSUME NEW c \in Contexts, NEW d \in Daemons, Repoint(c, d)
      PROVE  IInv'
    <2>1. endpoint' \in [Contexts -> Daemons]
        BY <1>1, <1>6 DEF Repoint, WorldOK
    <2>2. WorldOK'
        BY <1>1, <1>6, <2>1, FaultTypes
           DEF Repoint, WorldOK, journalVars, daemonVars, historyVars
    <2>3. QED
        BY <1>1, <1>6, <2>2, WorldInv DEF Repoint, processVars, journalVars, historyVars
<1>7. QED
    BY <1>2, <1>3, <1>4, <1>5, <1>6 DEF World
LEMMA ProcessStepInv ==
    ASSUME IInv, NEW p \in Procs, Invocation(p) \/ Reconcile(p) \/ Attempt(p) \/ Crash(p)
    PROVE  IInv'
<1>1. CASE Invocation(p)
    <2>1. FALSE \in BOOLEAN /\ "attempt" \in {"attempt", "cleanup"}
              /\ "cleanup" \in {"attempt", "cleanup"}
        OBVIOUS
    <2>2. QED
        BY <1>1, <2>1, InvokeInv, ContendInv DEF Invocation
<1>2. CASE Reconcile(p)
    BY <1>2, LoadJournalInv, ReconcileIdentityInv, ReconcileInspectInv,
       ReconcileRemoveInv, ReconcileVerifyInv, ReconcileWriteInv,
       ReconcileRecheckInv, ReconcileUnlinkInv DEF Reconcile
<1>3. CASE Attempt(p)
    BY <1>3, UnlinkPreviousInv, PrepareInv, WriteIntentInv, CreateOutputVolumeInv,
       InspectVolumeInv, StartOutputHelperInv, InspectHelperInv, CoreDumpPolicyInv,
       RunPreparedRouterInv, BestEffortRemoveInv, DaemonIdentityInv,
       InspectParticipantInv, StopParticipantInv, RemoveParticipantInv,
       CleanupIdentityInv, CleanupInspectInv, CleanupRemoveInv, FinishInv,
       FinishRecheckInv, RemoveResourceJournalInv, PublishSubmissionInv DEF Attempt
<1>4. CASE Crash(p)
    BY <1>4, CrashInv
<1>5. QED
    BY <1>1, <1>2, <1>3, <1>4

LEMMA StutterInv ==
    ASSUME IInv, UNCHANGED vars
    PROVE  IInv'
<1>1. WorldOK' /\ result' \in [Procs -> Results]
    BY TypeSplit DEF IInv, WorldOK, vars
<1>2. QED
    BY <1>1, WorldInv DEF vars

\* The inductive invariant holds of every behaviour.
THEOREM Invariance == Spec => []IInv
<1>1. Init => IInv
    BY InitInv
<1>2. IInv /\ [Next]_vars => IInv'
    BY ProcessStepInv, WorldStepInv, StutterInv DEF Next
<1>3. QED
    BY <1>1, <1>2, PTL DEF Spec

\* Every variable keeps its type, whatever the processes and daemons do.
THEOREM TypeCorrect == Spec => []TypeOK
<1>1. IInv => TypeOK
    BY DEF IInv
<1>2. QED
    BY <1>1, Invariance, PTL

\* The flock works: two processes are never inside the protocol together.
MutualExclusion ==
    \A p, q \in Procs : me[p].pc # "idle" /\ me[q].pc # "idle" => p = q

\* Every place of the protocol is under the lock (_open_output_root's flock), from
\* the invocation to the return or the death of the process.
THEOREM LockExcludes == Spec => []MutualExclusion
<1>1. IInv => MutualExclusion
    BY DEF IInv, LockInv, MutualExclusion
<1>2. QED
    BY <1>1, Invariance, PTL

\* A published submission.json and a cleanup journal never coexist.
THEOREM SubmissionOnlyAfterCleanup == Spec => []SubmissionAfterCleanup
<1>1. IInv => SubmissionAfterCleanup
    BY DEF IInv, JournalInv, SubmissionAfterCleanup
<1>2. QED
    BY <1>1, Invariance, PTL

-----------------------------------------------------------------------------
(* Resources and results. No resource of an attempt is ever without a      *)
(* journal that names it, and a settled result is final.                   *)

Creating == {"write_intent", "create_volume", "inspect_volume", "start_helper",
             "inspect_helper", "core_dump_policy", "run"}
Looking == {"identity", "participant_inspect"}
Removing == {"participant_stop", "participant_remove"}
Cleaning == {"cleanup_identity", "cleanup_inspect", "cleanup_remove"}
Finishing == {"finish", "finish_recheck", "finish_unlink"}

Later == Looking \cup Removing \cup Cleaning \cup Finishing \cup {"best_effort"}

\* What exists or may still come to exist, on any daemon.
Requested == present \cup inflight

Reaches(l) == endpoint[l.ctx] = l.dmn
Quiet(l) == ~l.pending /\ l.kind # "raised"

\* Of the attempt of l, only resources of the roles in S are requested: on any
\* daemon, on the daemon of the attempt; and the same for the open requests.
OwnOnly(l, S) == \A x \in Requested : x[2] = l.tok => x[3] \in S
HereOnly(l, S) ==
    \A x \in Requested : x[2] = l.tok /\ x[1] = l.dmn => x[3] \in S
OpenOnly(l, S) == \A x \in inflight : x[2] = l.tok => x[3] \in S
NoneOpen(l, S) ==
    \A x \in inflight : x[2] = l.tok /\ x[1] = l.dmn => x[3] \notin S

\* The roles the loop over the resources has yet to visit.
Left(l) ==
    IF l.pc \in {"reconcile_write", "reconcile_recheck", "reconcile_unlink"}
                \cup Finishing THEN {}
    ELSE IF l.pc = "reconcile_identity" \/ l.role = "participant" THEN Roles
    ELSE IF l.role = "helper" THEN {"helper", "volume"} ELSE {"volume"}

\* A resource is requested once, and never again after it was seen.
WorldRes ==
    /\ \A x \in Requested : x[2] <= started
    /\ \A x, y \in Requested : x[2] = y[2] /\ x[3] = y[3] => x = y
    /\ present \cap inflight = {}
    /\ \A x \in Requested : x[1] = home[x[2]] => journal.tok = x[2]
    /\ journal.tok # 0 => /\ journal.dmn = home[journal.tok]
                          /\ journal.tok <= started
    /\ NoneOpen(journal, journal.observed)
    /\ restarted => NoneOpen(journal, Roles)

\* What the locals say of each other.
LocalRes(l) ==
    /\ l.mode = "attempt" => ~l.confirm
    /\ l.pc \in {"load", "unlink_previous", "prepare"} => l.tok = 0
    /\ l.pc \in Entering \cup {"write_intent", "create_volume"} => l.made = {}
    /\ l.pc \in Entering \cup Creating => l.kind = "none"
    /\ l.pc \in Entering \cup Creating \cup Looking \cup {"best_effort"} => ~l.pending
    /\ l.pc \in Looking \cup Removing \cup {"finish_recheck", "finish_unlink"}
          => l.kind # "raised"
    /\ l.pc \in {"finish_recheck", "finish_unlink"} => ~l.pending
    /\ l.pc = "best_effort" => l.kind = "raised"
    /\ l.pc \in {"reconcile_remove", "reconcile_verify"} => l.role \in l.observed
    /\ l.pc \in {"reconcile_recheck", "reconcile_unlink"} => l.unresolved = {}
    /\ l.pc \in {"unlink_previous", "prepare", "write_intent"} => l.observed = {}
    /\ l.pc \in Working => l.made \subseteq {"volume", "helper"}
    /\ l.pc \in {"inspect_volume", "start_helper"} => l.made = {"volume"}
    /\ l.pc = "inspect_helper" => l.made = {"volume", "helper"}
    /\ l.pc \in Creating => l.observed \subseteq l.made
    /\ l.pc \in Cleaning => l.role \in {"helper", "volume"}

\* What they say of the journal.
JournalRes(l) ==
    /\ l.confirm => restarted
    /\ l.pc \in Reconciling => l.tok = journal.tok /\ l.dmn = journal.dmn
    /\ l.pc \in Working => l.dmn = home[l.tok] /\ l.tok <= started /\ ~restarted
    /\ l.pc \in Working \ {"write_intent", "finish", "publish"} => journal.tok = l.tok
    /\ l.pc = "finish" => journal.tok \in {0, l.tok}
    /\ l.pc \in Creating \ {"write_intent"} => journal.observed \subseteq l.made

\* What they say of the resources.
ResourceRes(l) ==
    /\ l.pc \in Reconciling \cup Working => NoneOpen(l, l.observed)
    /\ l.pc \in Reconciling /\ (Reaches(l) \/ l.pc = "reconcile_unlink")
          => HereOnly(l, Left(l) \cup l.unresolved)
    /\ l.pc \in Creating => OwnOnly(l, l.made)
    /\ l.pc \in Working => OwnOnly(l, l.made \cup {"participant"})
    /\ l.pc \in Working /\ Quiet(l) =>
          OpenOnly(l, IF l.terminated /\ l.pc \in Looking THEN {"participant"} ELSE {})
    /\ l.pc \in Cleaning \cup Finishing /\ (Reaches(l) \/ l.pc = "finish_unlink")
       /\ Quiet(l) => HereOnly(l, Left(l))

PlaceRes(l) == LocalRes(l) /\ JournalRes(l) /\ ResourceRes(l)

Settled(r) == /\ r.tok # 0 /\ ~r.pending
              /\ r.kind \in {"valid", "execution", "infrastructure", "ok"}

\* A settled attempt is over: it has no journal and will not write one.
ResultRes ==
    \A p \in Procs : Settled(result[p]) =>
        /\ result[p].tok <= started /\ result[p].tok # journal.tok
        /\ \A q \in Procs : At(q, "write_intent") => me[q].tok # result[p].tok

RInv ==
    /\ IInv
    /\ WorldRes
    /\ ResultRes
    /\ \A p \in Procs : me[p].pc # "idle" => PlaceRes(me[p])

-----------------------------------------------------------------------------
\* Resources are told apart by their three components.
LEMMA ResourceParts ==
    /\ \A x \in Resources : x[1] \in Daemons /\ x[2] \in Attempts /\ x[3] \in Roles
    /\ \A x, y \in Resources : x[1] = y[1] /\ x[2] = y[2] /\ x[3] = y[3] => x = y
    /\ WorldOK => Requested \subseteq Resources
BY DEF Resources, WorldOK, Requested

\* What is known of the process that takes a step.
LEMMA Acting ==
    ASSUME RInv, NEW p \in Procs, me[p].pc # "idle"
    PROVE  /\ me[p] \in Locals /\ ProcInv(me[p]) /\ WorldOK /\ JournalInv
           /\ LocalRes(me[p]) /\ JournalRes(me[p]) /\ ResourceRes(me[p])
           /\ WorldRes
           /\ lock = p /\ \A q \in Procs \ {p} : me[q].pc = "idle"
BY TypeSplit DEF RInv, IInv, PlaceRes, LockInv

\* A step that takes p to the locals l.
LEMMA BecomeRes ==
    ASSUME RInv, IInv', NEW p \in Procs, me[p].pc # "idle",
           NEW l \in Locals, Become(p, l),
           WorldRes', PlaceRes(l)', started \in Nat, started' \in Nat,
           started' >= started,
           \/ journal'.tok \in {0, journal.tok}
           \/ me[p].pc = "write_intent" /\ journal'.tok = me[p].tok,
           l.pc = "write_intent" => l.tok = started + 1
    PROVE  RInv'
<1>1. IInv /\ result' = result /\ me'[p] = l
  BY BecomeLocal DEF RInv, Become
<1>2. \A q \in Procs \ {p} : me[q].pc = "idle" /\ me'[q] = me[q]
  BY Acting, TypeSplit DEF RInv, IInv, Become
<1>3. ResultRes'
  <2> SUFFICES ASSUME NEW q \in Procs, Settled(result[q])
               PROVE  /\ result[q].tok <= started' /\ result[q].tok # journal'.tok
                      /\ \A r \in Procs :
                            At(r, "write_intent")' => me'[r].tok # result[q].tok
    BY <1>1 DEF ResultRes, Settled
  <2>1. /\ result[q].tok <= started /\ result[q].tok # journal.tok
        /\ At(p, "write_intent") => me[p].tok # result[q].tok
        /\ result[q].tok # 0 /\ result[q].tok \in Nat
    BY <1>1, TypeSplit, AttemptJournalAssumption
       DEF RInv, IInv, ResultRes, Settled, Results
  <2>2. result[q].tok <= started' /\ result[q].tok # journal'.tok
    BY <2>1 DEF At
  <2>3. l.pc = "write_intent" => l.tok # result[q].tok
    BY <2>1
  <2> QED BY <1>1, <1>2, <2>2, <2>3 DEF At
<1>4. \A q \in Procs : me'[q].pc # "idle" => PlaceRes(me[q])'
  BY <1>1, <1>2
<1> QED BY <1>3, <1>4 DEF RInv

\* A step with which p returns.
LEMMA ReturnRes ==
    ASSUME RInv, IInv', NEW p \in Procs, me[p].pc # "idle",
           NEW kind, NEW pending, Return(p, kind, pending),
           WorldRes', started' = started, journal'.tok \in {0, journal.tok},
           /\ ~pending /\ me[p].tok # 0
           /\ kind \in {"valid", "execution", "infrastructure", "ok"}
           => me[p].tok <= started /\ me[p].tok # journal'.tok
    PROVE  RInv'
<1>1. /\ result'[p] = [tok |-> me[p].tok, kind |-> kind, pending |-> pending]
      /\ \A q \in Procs \ {p} : result'[q] = result[q]
  BY TypeSplit DEF RInv, IInv, Return
<1>2. \A q \in Procs : me'[q].pc = "idle"
  BY Acting, TypeSplit DEF RInv, IInv, Return, Idle
<1>3. ResultRes'
  <2> SUFFICES ASSUME NEW q \in Procs, Settled(result[q])'
               PROVE  result'[q].tok <= started' /\ result'[q].tok # journal'.tok
    BY <1>2 DEF ResultRes, At
  <2>1. CASE q = p
    BY <1>1, <2>1 DEF Settled
  <2>2. CASE q # p
    <3>1. Settled(result[q]) /\ result'[q] = result[q]
      BY <1>1, <2>2 DEF Settled
    <3>2. /\ result[q].tok <= started /\ result[q].tok # journal.tok
          /\ result[q].tok # 0
      BY <3>1 DEF RInv, ResultRes, Settled
    <3> QED BY <3>1, <3>2
  <2> QED BY <2>1, <2>2
<1> QED BY <1>2, <1>3 DEF RInv

\* A reconciliation that ends without success returns nothing settled that the
\* journal still names.
LEMMA UnreconciledRes ==
    ASSUME RInv, IInv', NEW p \in Procs, me[p].pc \in Reconciling \cup {"load"},
           Unreconciled(p), WorldRes', started' = started,
           journal'.tok \in {0, journal.tok}
    PROVE  RInv'
<1>1. me[p].pc # "idle"
  BY DEF Reconciling
<1>2. me[p].tok # 0 => me[p].tok <= started /\ me[p].tok = journal.tok
  BY <1>1, Acting DEF LocalRes, JournalRes, WorldRes, Reconciling
<1>3. CASE me[p].mode = "cleanup"
  <2>1. Return(p, "error", FALSE)
    BY <1>3 DEF Unreconciled
  <2> QED BY <1>1, <2>1, ReturnRes
<1>4. CASE me[p].mode # "cleanup"
  <2>1. Return(p, "infrastructure", journal'.tok # 0)
    BY <1>4 DEF Unreconciled
  <2> QED BY <1>1, <1>2, <2>1, ReturnRes
<1> QED BY <1>3, <1>4

\* Nothing but the locals changes.
resourceVars == <<present, inflight, journal, home, started, restarted>>

\* A step of locals alone leaves the world as it was.
LEMMA StillWorld ==
    ASSUME WorldRes, UNCHANGED resourceVars
    PROVE  WorldRes'
BY DEF WorldRes, resourceVars, Requested, NoneOpen

\* Resources go, requests are completed or dropped.
LEMMA ShrunkWorld ==
    ASSUME WorldRes, UNCHANGED <<journal, home, started>>,
           present' \cup inflight' \subseteq present \cup inflight,
           inflight' \subseteq inflight, present' \cap inflight' = {},
           restarted' => \/ restarted
                         \/ \A x \in inflight' : x[1] # journal.dmn
    PROVE  WorldRes'
BY DEF WorldRes, Requested, NoneOpen

\* The journal notes the roles in S, of which no request is open.
LEMMA NotedWorld ==
    ASSUME WorldOK, WorldRes, NEW S \in SUBSET Roles,
           NoneOpen(journal, S),
           journal' \in {journal, [journal EXCEPT !.observed = S]},
           UNCHANGED <<present, inflight, home, started, restarted>>
    PROVE  WorldRes'
<1>1. /\ journal'.tok = journal.tok /\ journal'.dmn = journal.dmn
      /\ journal'.observed \in {journal.observed, S}
  BY JournalTypes DEF WorldOK, Journals
<1> QED BY <1>1 DEF WorldRes, Requested, NoneOpen

\* The journal goes when nothing of its attempt is requested on its daemon.
LEMMA ClosedWorld ==
    ASSUME WorldOK, WorldRes, HereOnly(journal, {}),
           journal' \in {journal, NoJournal},
           UNCHANGED <<present, inflight, home, started, restarted>>
    PROVE  WorldRes'
<1>1. CASE journal' = journal
  BY <1>1, StillWorld DEF resourceVars
<1>2. CASE journal' = NoJournal
  <2>1. \A x \in Requested : x[2] # 0 /\ x[1] # home[x[2]]
    BY ResourceParts, AttemptJournalAssumption DEF WorldRes, HereOnly, Attempts
  <2>2. journal'.tok = 0 /\ journal'.observed = {}
    BY <1>2 DEF NoJournal
  <2>3. \A x \in inflight : x[2] # 0
    BY <2>1 DEF Requested
  <2> QED BY <2>1, <2>2, <2>3 DEF WorldRes, Requested, NoneOpen
<1> QED BY <1>1, <1>2

\* What a process becomes is in Locals.
LEMMA BecomeType ==
    ASSUME RInv, IInv', NEW p \in Procs, NEW l, Become(p, l)
    PROVE  l \in Locals
BY BecomeLocal DEF RInv, IInv, TypeOK

\* What the name of a resource of the attempt at hand is.
LEMMA NameParts ==
    ASSUME RInv, NEW p \in Procs, me[p].pc \in Reconciling \cup Working,
           NEW r \in Roles
    PROVE  /\ Name(p, r) \in Resources /\ Name(p, r)[2] = me[p].tok
           /\ Name(p, r)[3] = r
           /\ Reaches(me[p]) <=> Name(p, r)[1] = me[p].dmn
           /\ SameDaemon(p) <=> Reaches(me[p])
<1>1. me[p].pc # "idle" /\ me[p].tok \in Attempts /\ me[p].ctx \in Contexts
  BY Acting, AttemptJournalAssumption
     DEF Reconciling, Working, ProcInv, Locals, Attempts
<1>2. endpoint[me[p].ctx] \in Daemons
  BY <1>1, Acting DEF WorldOK
<1> QED BY <1>1, <1>2 DEF Name, Endpoint, Resources, Reaches, SameDaemon

-----------------------------------------------------------------------------
(* Reconciliation.                                                         *)

\* A step to another place of the reconciliation, with the resources as they are
\* or fewer.
LEMMA ReconcilingRes ==
    ASSUME RInv, IInv', NEW p \in Procs, me[p].pc \in Reconciling,
           NEW l \in Locals, Become(p, l), l.pc \in Reconciling,
           l.tok = me[p].tok, l.dmn = me[p].dmn, l.ctx = me[p].ctx,
           l.mode = me[p].mode, l.confirm = me[p].confirm, l.made = me[p].made,
           l.kind = me[p].kind, l.pending = me[p].pending,
           l.pc \in {"reconcile_remove", "reconcile_verify"} => l.role \in l.observed,
           l.pc \in {"reconcile_recheck", "reconcile_unlink"} => l.unresolved = {},
           WorldRes', UNCHANGED <<endpoint, restarted, started>>,
           journal'.tok = journal.tok, journal'.dmn = journal.dmn,
           NoneOpen(l, l.observed)',
           Reaches(l) \/ l.pc = "reconcile_unlink"
           => HereOnly(l, Left(l) \cup l.unresolved)'
    PROVE  RInv'
<1>1. me[p].pc # "idle" /\ started \in Nat
  BY TypeSplit, AttemptJournalAssumption DEF RInv, IInv, WorldOK, Reconciling
<1>2. LocalRes(l)'
  BY <1>1, Acting DEF LocalRes, Reconciling, Entering, Creating, Looking, Removing,
                      Cleaning, Working
<1>3. JournalRes(l)'
  BY <1>1, Acting DEF JournalRes, Reconciling, Entering, Creating, Working
<1>4. ResourceRes(l)'
  BY DEF ResourceRes, Reaches, Reconciling, Entering, Creating, Working, Cleaning,
         Finishing
<1>5. journal.tok \in Nat /\ l.pc # "write_intent"
  BY <1>1, Acting, AttemptJournalAssumption DEF WorldOK, Journals, Reconciling
<1> QED BY <1>1, <1>2, <1>3, <1>4, <1>5, BecomeRes DEF PlaceRes

\* The reconciliation is done: nothing is left to promise of resources.
LEMMA ReconciledRes ==
    ASSUME RInv, IInv', NEW p \in Procs, me[p].pc \in Reconciling \cup {"load"},
           Reconciled(p), WorldRes', journal'.tok = 0,
           UNCHANGED <<endpoint, restarted, started>>
    PROVE  RInv'
<1>1. me[p].pc # "idle" /\ started \in Nat
  BY TypeSplit, AttemptJournalAssumption DEF RInv, IInv, WorldOK, Reconciling
<1>2. me[p].tok # 0 => me[p].tok <= started
  BY <1>1, Acting DEF LocalRes, JournalRes, WorldRes, Reconciling
<1>3. CASE me[p].mode = "cleanup"
  BY <1>1, <1>2, <1>3, ReturnRes DEF Reconciled
<1>4. CASE me[p].mode # "cleanup"
  <2>1. PICK l : l = [me[p] EXCEPT !.pc = "unlink_previous", !.tok = 0,
                                   !.dmn = NoDaemon, !.observed = {}]
    OBVIOUS
  <2>0. Become(p, l)
    BY <1>4, <2>1 DEF Reconciled
  <2>2. l \in Locals
    BY <2>0, BecomeType
  <2>3. /\ l.pc = "unlink_previous" /\ l.tok = 0 /\ l.observed = {}
        /\ l.made = me[p].made /\ l.kind = me[p].kind /\ l.pending = me[p].pending
        /\ l.mode = me[p].mode /\ l.confirm = me[p].confirm
    BY <1>1, <2>1, Acting DEF Locals
  <2>4. LocalRes(l)'
    BY <1>1, <2>3, Acting DEF LocalRes, Reconciling, Entering, Creating, Looking,
                              Removing, Cleaning, Working
  <2>5. JournalRes(l)'
    BY <1>1, <2>3, Acting DEF JournalRes, Reconciling, Entering, Creating, Working
  <2>6. ResourceRes(l)'
    BY <2>3 DEF ResourceRes, Reconciling, Entering, Creating, Working, Cleaning,
                Finishing
  <2> QED BY <1>1, <2>0, <2>2, <2>3, <2>4, <2>5, <2>6, BecomeRes DEF PlaceRes
<1> QED BY <1>3, <1>4

\* The journal of an earlier attempt is read: its names become the locals.
LEMMA LoadJournalRes ==
    ASSUME RInv, IInv', NEW p \in Procs, LoadJournal(p)
    PROVE  RInv'
<1>1. me[p].pc = "load" /\ UNCHANGED resourceVars /\ endpoint' = endpoint
  BY DEF LoadJournal, At, journalVars, daemonVars, worldVars, historyVars,
         resourceVars
<1>2. WorldRes' /\ journal' = journal
  BY <1>1, StillWorld DEF RInv, resourceVars
<1>3. CASE journal.tok = 0 /\ Reconciled(p)
  BY <1>1, <1>2, <1>3, ReconciledRes DEF resourceVars
<1>4. CASE Unreconciled(p)
  BY <1>1, <1>2, <1>4, UnreconciledRes DEF resourceVars
<1>5. ASSUME journal.tok # 0,
             Become(p, [me[p] EXCEPT !.pc = "reconcile_identity",
                                     !.tok = journal.tok, !.dmn = journal.dmn,
                                     !.observed = journal.observed])
      PROVE  RInv'
  <2>1. PICK l : l = [me[p] EXCEPT !.pc = "reconcile_identity",
                                   !.tok = journal.tok, !.dmn = journal.dmn,
                                   !.observed = journal.observed]
    OBVIOUS
  <2>0. Become(p, l)
    BY <1>5, <2>1
  <2>2. l \in Locals
    BY <2>0, BecomeType
  <2>3. /\ l.pc = "reconcile_identity" /\ l.tok = journal.tok
        /\ l.dmn = journal.dmn /\ l.observed = journal.observed
        /\ l.made = me[p].made /\ l.kind = me[p].kind /\ l.pending = me[p].pending
        /\ l.mode = me[p].mode /\ l.confirm = me[p].confirm
    BY <1>1, <2>1, Acting DEF Locals
  <2>4. LocalRes(l)'
    BY <1>1, <2>3, Acting DEF LocalRes, Reconciling, Entering, Creating, Looking,
                              Removing, Cleaning, Working
  <2>5. JournalRes(l)'
    BY <1>1, <1>2, <2>3, Acting
       DEF JournalRes, Reconciling, Entering, Creating, Working, resourceVars
  <2>6. ResourceRes(l)'
    <3>1. NoneOpen(l, l.observed)'
      BY <1>1, <2>3, Acting DEF WorldRes, NoneOpen, resourceVars
    <3>2. HereOnly(l, Left(l) \cup l.unresolved)'
      BY <2>3, ResourceParts DEF IInv, TypeOK, Left, Finishing, HereOnly, Requested
    <3> QED BY <2>3, <3>1, <3>2 DEF ResourceRes, Reconciling, Entering, Creating,
                                    Working, Cleaning, Finishing
  <2>7. started \in Nat /\ started' = started
    BY <1>1, Acting, AttemptJournalAssumption DEF WorldOK, resourceVars
  <2> QED BY <1>1, <1>2, <2>0, <2>2, <2>3, <2>4, <2>5, <2>6, <2>7, BecomeRes DEF PlaceRes
<1> QED BY <1>3, <1>4, <1>5 DEF LoadJournal

\* From here on the command is known to reach the daemon of the journal, until it
\* is repointed: then it never comes back while the lock is held.
LEMMA ReconcileIdentityRes ==
    ASSUME RInv, IInv', NEW p \in Procs, ReconcileIdentity(p)
    PROVE  RInv'
<1>1. /\ me[p].pc = "reconcile_identity" /\ UNCHANGED resourceVars
      /\ endpoint' = endpoint /\ me[p].pc \in Reconciling
  BY DEF ReconcileIdentity, At, journalVars, daemonVars, worldVars, historyVars,
         resourceVars, Reconciling
<1>2. WorldRes' /\ journal' = journal /\ UNCHANGED <<restarted, started>>
  BY <1>1, StillWorld DEF RInv, resourceVars
<1>3. CASE Unreconciled(p)
  BY <1>1, <1>2, <1>3, UnreconciledRes
<1>4. ASSUME Become(p, [me[p] EXCEPT !.pc = "reconcile_inspect",
                                     !.role = "participant"])
      PROVE  RInv'
  <2>1. PICK l : l = [me[p] EXCEPT !.pc = "reconcile_inspect",
                                   !.role = "participant"]
    OBVIOUS
  <2>2. Become(p, l) /\ l \in Locals
    BY <1>4, <2>1, BecomeType
  <2>3. /\ l.pc = "reconcile_inspect" /\ l.role = "participant" /\ l.ctx = me[p].ctx
        /\ l.tok = me[p].tok /\ l.dmn = me[p].dmn /\ l.observed = me[p].observed
        /\ l.made = me[p].made /\ l.kind = me[p].kind /\ l.pending = me[p].pending
        /\ l.mode = me[p].mode /\ l.confirm = me[p].confirm
    BY <1>1, <2>1, Acting DEF Locals
  <2>4. NoneOpen(l, l.observed)'
    BY <1>1, <2>3, Acting DEF ResourceRes, NoneOpen, resourceVars
  <2>5. HereOnly(l, Left(l) \cup l.unresolved)'
    BY <2>3, ResourceParts
       DEF IInv, TypeOK, Left, Finishing, HereOnly, Requested
  <2>6. l.pc \in Reconciling
    BY <2>3 DEF Reconciling
  <2> QED BY <1>1, <1>2, <2>2, <2>3, <2>4, <2>5, <2>6, ReconcilingRes
<1> QED BY <1>3, <1>4 DEF ReconcileIdentity

\* The roles left after r was visited are the roles left before, without r.
LEMMA NextRoleLeft ==
    ASSUME NEW m \in Locals, NEW l \in Locals, NEW n, m.role \in Roles,
           m.pc \in {"reconcile_inspect", "reconcile_verify"},
           n.role = m.role, l = NextRole(n), n \in Locals
    PROVE  /\ l.pc \in {"reconcile_inspect", "reconcile_write"}
           /\ Left(m) \subseteq Left(l) \cup {m.role}
           /\ l.tok = n.tok /\ l.dmn = n.dmn /\ l.ctx = n.ctx /\ l.mode = n.mode
           /\ l.confirm = n.confirm /\ l.made = n.made /\ l.kind = n.kind
           /\ l.pending = n.pending /\ l.observed = n.observed
           /\ l.unresolved = n.unresolved
<1>1. /\ l.role = After(m.role)
      /\ l.pc = IF m.role = "volume" THEN "reconcile_write" ELSE "reconcile_inspect"
  BY DEF NextRole, Locals
<1>2. Left(m) \subseteq Left(l) \cup {m.role}
  BY <1>1 DEF Left, Finishing, After, Roles
<1> QED BY <1>1, <1>2 DEF NextRole, Locals

\* Going on to the next role, when nothing of this one is left here, or it is
\* noted as unresolved.
LEMMA VisitedRes ==
    ASSUME RInv, IInv', NEW p \in Procs,
           me[p].pc \in {"reconcile_inspect", "reconcile_verify"},
           NEW n \in Locals, Become(p, NextRole(n)),
           n.tok = me[p].tok, n.dmn = me[p].dmn, n.ctx = me[p].ctx,
           n.mode = me[p].mode, n.confirm = me[p].confirm, n.made = me[p].made,
           n.kind = me[p].kind, n.pending = me[p].pending, n.role = me[p].role,
           me[p].unresolved \subseteq n.unresolved,
           UNCHANGED resourceVars, endpoint' = endpoint,
           NoneOpen(n, n.observed),
           Reaches(n) /\ n.role \notin n.unresolved
           => HereOnly(n, Roles \ {n.role})
    PROVE  RInv'
<1>1. PICK m : m = me[p]
  OBVIOUS
<1>2. PICK l : l = NextRole(n)
  OBVIOUS
<1>3. Become(p, l) /\ l \in Locals
  BY <1>2, BecomeType
<1>4. /\ m \in Locals /\ m.role \in Roles /\ m.pc # "idle" /\ m.pc \in Reconciling
      /\ ResourceRes(m)
  BY <1>1, Acting DEF ProcInv, RolePlaces, Reconciling
<1>5. /\ l.pc \in {"reconcile_inspect", "reconcile_write"}
      /\ Left(m) \subseteq Left(l) \cup {m.role}
      /\ l.tok = n.tok /\ l.dmn = n.dmn /\ l.ctx = n.ctx /\ l.mode = n.mode
      /\ l.confirm = n.confirm /\ l.made = n.made /\ l.kind = n.kind
      /\ l.pending = n.pending /\ l.observed = n.observed
      /\ l.unresolved = n.unresolved
  BY <1>1, <1>2, <1>3, <1>4, NextRoleLeft
<1>6. WorldRes' /\ journal' = journal /\ UNCHANGED <<restarted, started>>
  BY StillWorld DEF RInv, resourceVars
<1>7. NoneOpen(l, l.observed)'
  BY <1>5 DEF NoneOpen, resourceVars
<1>8. ASSUME Reaches(l) PROVE HereOnly(l, Left(l) \cup l.unresolved)'
  <2>1. Reaches(m) /\ Reaches(n)
    BY <1>1, <1>5, <1>8 DEF Reaches
  <2>2. HereOnly(m, Left(m) \cup m.unresolved)
    BY <1>4, <2>1 DEF ResourceRes
  <2>3. \A x \in Requested : x[2] = l.tok /\ x[1] = l.dmn =>
           x[3] \in Left(l) \cup l.unresolved
    <3> SUFFICES ASSUME NEW x \in Requested, x[2] = l.tok, x[1] = l.dmn
                 PROVE  x[3] \in Left(l) \cup l.unresolved
      OBVIOUS
    <3>1. x[3] \in Left(m) \cup m.unresolved
      BY <1>1, <1>5, <2>2 DEF HereOnly
    <3>2. m.role \in l.unresolved \/ x[3] # m.role
      BY <1>1, <1>5, <2>1 DEF HereOnly
    <3> QED BY <1>1, <1>5, <3>1, <3>2
  <2> QED BY <2>3 DEF HereOnly, Requested, resourceVars
<1>9. l.pc \in Reconciling /\ l.pc # "reconcile_unlink"
  BY <1>5 DEF Reconciling
<1>10. Reaches(l)' <=> Reaches(l)
  BY DEF Reaches
<1> QED BY <1>1, <1>3, <1>4, <1>5, <1>6, <1>7, <1>8, <1>9, <1>10, ReconcilingRes

\* A resource that is neither found nor being created is not there.
LEMMA AbsentHere ==
    ASSUME RInv, NEW p \in Procs, me[p].pc \in Reconciling \cup Working,
           NEW r \in Roles, Name(p, r) \notin present, Reaches(me[p]),
           NoneOpen(me[p], {r})
    PROVE  HereOnly(me[p], Roles \ {r})
<1> SUFFICES ASSUME NEW y \in Requested, y[2] = me[p].tok, y[1] = me[p].dmn
             PROVE  y[3] \in Roles \ {r}
  BY DEF HereOnly
<1>1. y \in Resources
  BY ResourceParts, TypeSplit DEF RInv, IInv
<1>2. y[3] = r => y = Name(p, r)
  BY <1>1, NameParts, ResourceParts
<1>3. y[3] = r => y \notin inflight
  BY DEF NoneOpen
<1> QED BY <1>1, <1>2, <1>3, ResourceParts DEF Requested

\* A resource that was found is not being created anywhere.
LEMMA PresentClosed ==
    ASSUME RInv, NEW p \in Procs, me[p].pc \in Reconciling \cup Working,
           NEW r \in Roles, Name(p, r) \in present
    PROVE  OpenOnly(me[p], Roles \ {r}) /\ NoneOpen(me[p], {r})
<1>1. \A y \in inflight : y \in Resources
  BY TypeSplit DEF RInv, IInv, WorldOK
<1>2. \A y \in inflight : y[2] = me[p].tok => y[3] # r
  <2> SUFFICES ASSUME NEW y \in inflight, y[2] = me[p].tok, y[3] = r PROVE FALSE
    OBVIOUS
  <2>1. y = Name(p, r)
    BY NameParts DEF RInv, WorldRes, Requested
  <2> QED BY <2>1 DEF RInv, WorldRes
<1> QED BY <1>1, <1>2, ResourceParts DEF OpenOnly, NoneOpen

\* The label check of one role, with the note of what was seen.
LEMMA ReconcileInspectRes ==
    ASSUME RInv, IInv', NEW p \in Procs, ReconcileInspect(p)
    PROVE  RInv'
<1>1. PICK m \in Locals : m = me[p]
  BY TypeSplit DEF RInv, IInv
<1>2. PICK r \in Roles : r = m.role
  BY <1>1, Acting DEF ProcInv, RolePlaces, ReconcileInspect, At
<1>3. /\ m.pc = "reconcile_inspect" /\ m.pc # "idle" /\ m.pc \in Reconciling
      /\ UNCHANGED <<present, inflight, home, started, restarted, endpoint>>
  BY <1>1 DEF ReconcileInspect, At, Reconciling, daemonVars, worldVars, historyVars
<1>4. /\ m.tok = journal.tok /\ m.dmn = journal.dmn /\ NoneOpen(m, m.observed)
      /\ m.confirm => restarted
      /\ WorldRes /\ WorldOK /\ m.observed \subseteq Roles
  BY <1>1, <1>3, Acting DEF JournalRes, ResourceRes, Locals
<1> DEFINE noted == m.observed \cup {r}
           updated == [journal EXCEPT !.observed = noted]
           seen == Label(Name(p, r))
<1>5. seen = "own" => NoneOpen(m, noted) /\ NoneOpen(journal, noted)
  BY <1>1, <1>3, <1>4, PresentClosed DEF Label, NoneOpen
<1>6. ASSUME journal' \in {journal, updated}, journal' = journal \/ seen = "own"
      PROVE  WorldRes' /\ journal'.tok = journal.tok /\ journal'.dmn = journal.dmn
  <2>1. WorldRes'
    <3>1. CASE journal' = journal
      BY <1>3, <1>4, <3>1, StillWorld DEF resourceVars
    <3>2. CASE seen = "own"
      <4>1. noted \in SUBSET Roles
        BY <1>2, <1>4
      <4> QED BY <1>3, <1>4, <1>5, <1>6, <3>2, <4>1, NotedWorld
    <3> QED BY <1>6, <3>1, <3>2
  <2>2. journal \in Journals /\ noted \in SUBSET Roles
    BY <1>2, <1>4 DEF WorldOK
  <2>3. updated.tok = journal.tok /\ updated.dmn = journal.dmn
    BY <2>2, JournalTypes
  <2> QED BY <1>6, <2>1, <2>3
<1>7. ASSUME Unreconciled(p), journal' \in {journal, updated},
             journal' = journal \/ seen = "own"
      PROVE  RInv'
  BY <1>1, <1>3, <1>6, <1>7, UnreconciledRes
<1>8. ASSUME journal' = journal, seen = "absent", AbsenceProves(m, r),
             Become(p, NextRole([m EXCEPT !.observed = noted]))
      PROVE  RInv'
  <2>1. PICK n : n = [m EXCEPT !.observed = noted]
    OBVIOUS
  <2>2. /\ n \in Locals /\ n.observed = noted /\ n.unresolved = m.unresolved
        /\ n.tok = m.tok /\ n.dmn = m.dmn /\ n.ctx = m.ctx /\ n.mode = m.mode
        /\ n.confirm = m.confirm /\ n.made = m.made /\ n.kind = m.kind
        /\ n.pending = m.pending /\ n.role = m.role
    BY <1>2, <1>4, <2>1 DEF Locals
  <2>3. NoneOpen(m, {r})
    <3>1. CASE r \in m.observed
      BY <1>4, <3>1 DEF NoneOpen
    <3>2. CASE m.confirm
      BY <1>2, <1>4, <3>2 DEF NoneOpen, WorldRes
    <3> QED BY <1>8, <3>1, <3>2 DEF AbsenceProves
  <2>4. NoneOpen(n, n.observed)
    BY <1>4, <2>2, <2>3 DEF NoneOpen
  <2>5. Reaches(n) => HereOnly(n, Roles \ {n.role})
    <3>1. Reaches(n) => HereOnly(m, Roles \ {r})
      BY <1>1, <1>3, <1>8, <2>2, <2>3, AbsentHere DEF Label, Reaches
    <3> QED BY <1>2, <2>2, <3>1 DEF HereOnly
  <2>6. Become(p, NextRole(n))
    BY <1>8, <2>1
  <2> QED BY <1>1, <1>3, <1>8, <2>2, <2>4, <2>5, <2>6, VisitedRes DEF resourceVars
<1>9. ASSUME journal' = journal,
             Become(p, NextRole([m EXCEPT !.unresolved = @ \cup {r}]))
      PROVE  RInv'
  <2>1. PICK n : n = [m EXCEPT !.unresolved = @ \cup {r}]
    OBVIOUS
  <2>2. /\ n \in Locals /\ n.observed = m.observed
        /\ n.unresolved = m.unresolved \cup {r}
        /\ n.tok = m.tok /\ n.dmn = m.dmn /\ n.ctx = m.ctx /\ n.mode = m.mode
        /\ n.confirm = m.confirm /\ n.made = m.made /\ n.kind = m.kind
        /\ n.pending = m.pending /\ n.role = m.role
    BY <1>2, <2>1 DEF Locals
  <2>4. NoneOpen(n, n.observed)
    BY <1>4, <2>2 DEF NoneOpen
  <2>6. Become(p, NextRole(n)) /\ n.role \in n.unresolved
    BY <1>2, <1>9, <2>1, <2>2
  <2> QED BY <1>1, <1>3, <1>9, <2>2, <2>4, <2>6, VisitedRes DEF resourceVars
<1>10. ASSUME journal' \in {journal, updated}, seen = "own",
              Become(p, [m EXCEPT !.pc = "reconcile_remove", !.observed = noted])
       PROVE  RInv'
  <2>1. PICK l : l = [m EXCEPT !.pc = "reconcile_remove", !.observed = noted]
    OBVIOUS
  <2>2. Become(p, l) /\ l \in Locals
    BY <1>10, <2>1, BecomeType
  <2>3. /\ l.pc = "reconcile_remove" /\ l.role = m.role /\ l.ctx = m.ctx
        /\ l.tok = m.tok /\ l.dmn = m.dmn /\ l.observed = noted
        /\ l.made = m.made /\ l.kind = m.kind /\ l.pending = m.pending
        /\ l.mode = m.mode /\ l.confirm = m.confirm
        /\ l.unresolved = m.unresolved
    BY <2>1 DEF Locals
  <2>4. NoneOpen(l, l.observed)'
    BY <1>3, <1>5, <1>10, <2>3 DEF NoneOpen
  <2>5. Reaches(l) => HereOnly(l, Left(l) \cup l.unresolved)'
    <3>1. Left(l) = Left(m)
      BY <1>3, <2>3 DEF Left, Finishing
    <3>2. Reaches(l) => HereOnly(m, Left(m) \cup m.unresolved)
      BY <1>1, <1>3, <2>3, Acting DEF ResourceRes, Reaches
    <3> QED BY <1>3, <2>3, <3>1, <3>2 DEF HereOnly, Requested
  <2>6. l.pc \in Reconciling /\ l.role \in l.observed
    BY <1>2, <2>3 DEF Reconciling
  <2>7. Reaches(l)' <=> Reaches(l)
    BY <1>3 DEF Reaches
  <2> QED BY <1>1, <1>3, <1>6, <1>10, <2>2, <2>3, <2>4, <2>5, <2>6, <2>7,
             ReconcilingRes
<1> QED
  BY <1>1, <1>2, <1>7, <1>8, <1>9, <1>10
     DEF ReconcileInspect, Written, WriteFailed

\* A removal by name takes at most what bears it.
LEMMA RemovedShrinks ==
    ASSUME WorldRes, NEW x, UNCHANGED <<journal, home, started>>,
           Removed(x) \/ UNCHANGED <<daemonVars, worldVars>>
    PROVE  /\ WorldRes' /\ UNCHANGED <<inflight, endpoint, restarted>>
           /\ present' \subseteq present
<1>1. /\ present' \subseteq present /\ UNCHANGED <<inflight, endpoint, restarted>>
  BY DEF Removed, daemonVars, worldVars
<1>2. present' \cap inflight' = {}
  BY <1>1 DEF WorldRes
<1> QED BY <1>1, <1>2, ShrunkWorld

\* The removal of a resource that bore the label.
LEMMA ReconcileRemoveRes ==
    ASSUME RInv, IInv', NEW p \in Procs, ReconcileRemove(p)
    PROVE  RInv'
<1>1. PICK m \in Locals : m = me[p]
  BY TypeSplit DEF RInv, IInv
<1>2. /\ m.pc = "reconcile_remove" /\ m.pc \in Reconciling /\ m.pc # "idle"
      /\ UNCHANGED <<journal, home, started>>
      /\ \/ Removed(Name(p, m.role)) \/ UNCHANGED <<daemonVars, worldVars>>
  BY <1>1 DEF ReconcileRemove, At, Reconciling, journalVars, historyVars
<1>3. /\ WorldRes' /\ UNCHANGED <<inflight, endpoint, restarted>>
      /\ present' \subseteq present
  BY <1>2, RemovedShrinks DEF RInv
<1>4. CASE Unreconciled(p)
  BY <1>1, <1>2, <1>3, <1>4, UnreconciledRes
<1>5. CASE Goto(p, "reconcile_verify")
  <2>1. PICK l : l = [m EXCEPT !.pc = "reconcile_verify"]
    OBVIOUS
  <2>2. Become(p, l)
    BY <1>1, <1>5, <2>1 DEF Goto
  <2>3. l \in Locals
    BY <2>2, BecomeType
  <2>4. /\ l.pc = "reconcile_verify" /\ l.role = m.role /\ l.ctx = m.ctx
        /\ l.tok = m.tok /\ l.dmn = m.dmn /\ l.observed = m.observed
        /\ l.made = m.made /\ l.kind = m.kind /\ l.pending = m.pending
        /\ l.mode = m.mode /\ l.confirm = m.confirm
        /\ l.unresolved = m.unresolved
    BY <2>1 DEF Locals
  <2>5. m.role \in m.observed /\ NoneOpen(m, m.observed)
        /\ (Reaches(m) => HereOnly(m, Left(m) \cup m.unresolved))
    BY <1>1, <1>2, Acting DEF LocalRes, ResourceRes
  <2>6. NoneOpen(l, l.observed)'
    BY <1>3, <2>4, <2>5 DEF NoneOpen
  <2>7. Reaches(l)' => HereOnly(l, Left(l) \cup l.unresolved)'
    <3>1. Left(l) = Left(m)
      BY <1>2, <2>4 DEF Left, Finishing
    <3> QED BY <1>3, <2>4, <2>5, <3>1 DEF HereOnly, Requested, Reaches
  <2>8. Reaches(l)' <=> Reaches(l)
    BY <1>3 DEF Reaches
  <2>9. l.pc \in Reconciling
    BY <2>4 DEF Reconciling
  <2> QED BY <1>1, <1>2, <1>3, <2>2, <2>3, <2>4, <2>5, <2>6, <2>7, <2>8, <2>9,
             ReconcilingRes
<1> QED BY <1>1, <1>4, <1>5 DEF ReconcileRemove

\* The removed resource is looked for again.
LEMMA ReconcileVerifyRes ==
    ASSUME RInv, IInv', NEW p \in Procs, ReconcileVerify(p)
    PROVE  RInv'
<1>1. PICK m \in Locals : m = me[p]
  BY TypeSplit DEF RInv, IInv
<1>2. /\ m.pc = "reconcile_verify" /\ m.pc \in Reconciling /\ m.pc # "idle"
      /\ UNCHANGED resourceVars /\ endpoint' = endpoint
  BY <1>1 DEF ReconcileVerify, At, Reconciling, journalVars, daemonVars, worldVars,
              historyVars, resourceVars
<1>3. WorldRes' /\ journal' = journal /\ UNCHANGED <<restarted, started>>
  BY <1>2, StillWorld DEF RInv, resourceVars
<1>4. CASE Unreconciled(p)
  BY <1>1, <1>2, <1>3, <1>4, UnreconciledRes
<1>5. ASSUME Label(Name(p, m.role)) = "absent", Become(p, NextRole(m))
      PROVE  RInv'
  <2>1. m.role \in m.observed /\ NoneOpen(m, m.observed) /\ m.role \in Roles
    BY <1>1, <1>2, Acting DEF LocalRes, ResourceRes, ProcInv, RolePlaces
  <2>2. NoneOpen(m, {m.role})
    BY <2>1 DEF NoneOpen
  <2>3. Reaches(m) => HereOnly(m, Roles \ {m.role})
    BY <1>1, <1>2, <1>5, <2>1, <2>2, AbsentHere DEF Label
  <2> QED BY <1>1, <1>2, <1>5, <2>1, <2>3, VisitedRes
<1> QED BY <1>1, <1>4, <1>5 DEF ReconcileVerify

\* The final note, when no role stayed unresolved.
LEMMA ReconcileWriteRes ==
    ASSUME RInv, IInv', NEW p \in Procs, ReconcileWrite(p)
    PROVE  RInv'
<1>1. PICK m \in Locals : m = me[p]
  BY TypeSplit DEF RInv, IInv
<1> DEFINE updated == [journal EXCEPT !.observed = m.observed]
<1>2. /\ m.pc = "reconcile_write" /\ m.pc \in Reconciling /\ m.pc # "idle"
      /\ UNCHANGED <<present, inflight, home, started, restarted, endpoint>>
      /\ journal' \in {journal, updated}
  BY <1>1 DEF ReconcileWrite, At, Reconciling, daemonVars, worldVars, historyVars,
              Written, WriteFailed
<1>3. /\ m.tok = journal.tok /\ m.dmn = journal.dmn /\ NoneOpen(m, m.observed)
      /\ (Reaches(m) => HereOnly(m, Left(m) \cup m.unresolved))
      /\ WorldRes /\ WorldOK /\ m.observed \in SUBSET Roles
  BY <1>1, <1>2, Acting DEF JournalRes, ResourceRes, Locals
<1>4. WorldRes' /\ journal'.tok = journal.tok /\ journal'.dmn = journal.dmn
  <2>1. NoneOpen(journal, m.observed)
    BY <1>3 DEF NoneOpen
  <2>2. WorldRes'
    BY <1>2, <1>3, <2>1, NotedWorld
  <2>3. journal \in Journals
    BY <1>3 DEF WorldOK
  <2>4. updated.tok = journal.tok /\ updated.dmn = journal.dmn
    BY <1>3, <2>3, JournalTypes
  <2> QED BY <1>2, <2>2, <2>4
<1>5. CASE Unreconciled(p)
  BY <1>1, <1>2, <1>4, <1>5, UnreconciledRes
<1>6. ASSUME m.unresolved = {}, Goto(p, "reconcile_recheck")
      PROVE  RInv'
  <2>1. PICK l : l = [m EXCEPT !.pc = "reconcile_recheck"]
    OBVIOUS
  <2>2. Become(p, l)
    BY <1>1, <1>6, <2>1 DEF Goto
  <2>3. l \in Locals
    BY <2>2, BecomeType
  <2>4. /\ l.pc = "reconcile_recheck" /\ l.role = m.role /\ l.ctx = m.ctx
        /\ l.tok = m.tok /\ l.dmn = m.dmn /\ l.observed = m.observed
        /\ l.made = m.made /\ l.kind = m.kind /\ l.pending = m.pending
        /\ l.mode = m.mode /\ l.confirm = m.confirm
        /\ l.unresolved = m.unresolved
    BY <2>1 DEF Locals
  <2>5. NoneOpen(l, l.observed)'
    BY <1>2, <1>3, <2>4 DEF NoneOpen
  <2>6. Reaches(l)' => HereOnly(l, Left(l) \cup l.unresolved)'
    <3>1. Left(l) = Left(m)
      BY <1>2, <2>4 DEF Left, Finishing
    <3> QED BY <1>2, <1>3, <2>4, <3>1 DEF HereOnly, Requested, Reaches
  <2>7. Reaches(l)' <=> Reaches(l)
    BY <1>2 DEF Reaches
  <2>8. l.pc \in Reconciling
    BY <2>4 DEF Reconciling
  <2> QED BY <1>1, <1>2, <1>4, <1>6, <2>2, <2>3, <2>4, <2>5, <2>6, <2>7, <2>8,
             ReconcilingRes
<1> QED BY <1>1, <1>5, <1>6 DEF ReconcileWrite

\* The identity is read once more before the journal goes.
LEMMA ReconcileRecheckRes ==
    ASSUME RInv, IInv', NEW p \in Procs, ReconcileRecheck(p)
    PROVE  RInv'
<1>1. PICK m \in Locals : m = me[p]
  BY TypeSplit DEF RInv, IInv
<1>2. /\ m.pc = "reconcile_recheck" /\ m.pc \in Reconciling /\ m.pc # "idle"
      /\ UNCHANGED resourceVars /\ endpoint' = endpoint
  BY <1>1 DEF ReconcileRecheck, At, Reconciling, journalVars, daemonVars,
              worldVars, historyVars, resourceVars
<1>3. WorldRes' /\ journal' = journal /\ UNCHANGED <<restarted, started>>
  BY <1>2, StillWorld DEF RInv, resourceVars
<1>4. CASE Unreconciled(p)
  BY <1>1, <1>2, <1>3, <1>4, UnreconciledRes
<1>5. ASSUME SameDaemon(p), Goto(p, "reconcile_unlink")
      PROVE  RInv'
  <2>1. PICK l : l = [m EXCEPT !.pc = "reconcile_unlink"]
    OBVIOUS
  <2>2. Become(p, l)
    BY <1>1, <1>5, <2>1 DEF Goto
  <2>3. l \in Locals
    BY <2>2, BecomeType
  <2>4. /\ l.pc = "reconcile_unlink" /\ l.role = m.role /\ l.ctx = m.ctx
        /\ l.tok = m.tok /\ l.dmn = m.dmn /\ l.observed = m.observed
        /\ l.made = m.made /\ l.kind = m.kind /\ l.pending = m.pending
        /\ l.mode = m.mode /\ l.confirm = m.confirm
        /\ l.unresolved = m.unresolved
    BY <2>1 DEF Locals
  <2>5. /\ NoneOpen(m, m.observed) /\ m.unresolved = {} /\ Reaches(m)
        /\ HereOnly(m, Left(m) \cup m.unresolved)
    BY <1>1, <1>2, <1>5, Acting DEF LocalRes, ResourceRes, SameDaemon, Endpoint, Reaches
  <2>6. NoneOpen(l, l.observed)'
    BY <1>2, <2>4, <2>5 DEF NoneOpen, resourceVars
  <2>7. HereOnly(l, Left(l) \cup l.unresolved)'
    <3>1. Left(l) = Left(m)
      BY <1>2, <2>4 DEF Left, Finishing
    <3> QED BY <1>2, <2>4, <2>5, <3>1 DEF HereOnly, Requested, resourceVars
  <2>8. l.pc \in Reconciling
    BY <2>4 DEF Reconciling
  <2> QED BY <1>1, <1>2, <1>3, <2>2, <2>3, <2>4, <2>5, <2>6, <2>7, <2>8,
             ReconcilingRes
<1> QED BY <1>1, <1>4, <1>5 DEF ReconcileRecheck

\* The journal goes: nothing of its attempt is requested on its daemon.
LEMMA ReconcileUnlinkRes ==
    ASSUME RInv, IInv', NEW p \in Procs, ReconcileUnlink(p)
    PROVE  RInv'
<1>1. PICK m \in Locals : m = me[p]
  BY TypeSplit DEF RInv, IInv
<1>2. /\ m.pc = "reconcile_unlink" /\ m.pc \in Reconciling /\ m.pc # "idle"
      /\ UNCHANGED <<present, inflight, home, started, restarted, endpoint>>
      /\ journal' \in {journal, NoJournal}
  BY <1>1 DEF ReconcileUnlink, At, Reconciling, daemonVars, worldVars, historyVars,
              Unlinked, UnlinkFailed
<1>3. /\ m.tok = journal.tok /\ m.dmn = journal.dmn /\ m.unresolved = {}
      /\ HereOnly(m, Left(m) \cup m.unresolved) /\ WorldRes /\ WorldOK
  BY <1>1, <1>2, Acting DEF LocalRes, JournalRes, ResourceRes
<1>4. HereOnly(journal, {})
  BY <1>2, <1>3 DEF HereOnly, Left
<1>5. WorldRes' /\ journal'.tok \in {0, journal.tok}
  BY <1>2, <1>3, <1>4, ClosedWorld, JournalTypes
<1>6. CASE Unlinked /\ Reconciled(p)
  BY <1>1, <1>2, <1>5, <1>6, ReconciledRes, JournalTypes DEF Unlinked
<1>7. CASE Unreconciled(p)
  BY <1>1, <1>2, <1>5, <1>7, UnreconciledRes
<1> QED BY <1>6, <1>7 DEF ReconcileUnlink

-----------------------------------------------------------------------------
(* Steps of an attempt, from one place to another.                         *)

\* What is known of an attempt that has its token.
LEMMA Attempting ==
    ASSUME RInv, NEW p \in Procs, me[p].pc \in Working
    PROVE  /\ me[p].pc # "idle" /\ me[p].tok \in Attempts
           /\ me[p].dmn = home[me[p].tok] /\ me[p].tok <= started /\ ~restarted
           /\ started \in Nat /\ journal.tok \in Nat
           /\ NoneOpen(me[p], me[p].observed)
           /\ OwnOnly(me[p], me[p].made \cup {"participant"})
           /\ me[p].made \subseteq {"volume", "helper"}
           /\ me[p].mode = "attempt" => ~me[p].confirm
           /\ me[p].confirm => restarted
           /\ me[p].pc \notin {"write_intent", "finish", "publish"}
              => journal.tok = me[p].tok
<1>1. me[p].pc # "idle"
  BY DEF Working
<1>2. me[p].tok \in Attempts
  BY <1>1, Acting, AttemptJournalAssumption DEF ProcInv, Locals, Attempts
<1>3. started \in Nat /\ journal.tok \in Nat
  BY <1>1, Acting, AttemptJournalAssumption DEF WorldOK, Journals
<1> QED BY <1>1, <1>2, <1>3, Acting DEF LocalRes, JournalRes, ResourceRes

\* A step to a place before the result: roles are requested one after another.
LEMMA CreatingRes ==
    ASSUME RInv, IInv', NEW p \in Procs, me[p].pc \in Creating,
           NEW l \in Locals, Become(p, l), l.pc \in Creating \ {"write_intent"},
           l.tok = me[p].tok, l.dmn = me[p].dmn, l.mode = me[p].mode,
           l.confirm = me[p].confirm, l.kind = me[p].kind,
           l.pending = me[p].pending,
           l.pc = "create_volume" => l.made = {},
           l.pc \in {"inspect_volume", "start_helper"} => l.made = {"volume"},
           l.pc = "inspect_helper" => l.made = {"volume", "helper"},
           l.made \subseteq {"volume", "helper"}, l.observed \subseteq l.made,
           journal'.observed \subseteq l.made, journal'.tok = l.tok,
           journal'.tok = journal.tok \/ me[p].pc = "write_intent",
           WorldRes', UNCHANGED <<home, started, restarted>>,
           NoneOpen(l, l.observed)', OwnOnly(l, l.made)', OpenOnly(l, {})'
    PROVE  RInv'
<1>1. me[p].pc \in Working
  BY DEF Creating, Working, Entering, Reconciling, Places
<1>2. LocalRes(l)'
  BY <1>1, Attempting, Acting
     DEF LocalRes, Reconciling, Entering, Creating, Looking, Removing, Cleaning
<1>3. JournalRes(l)'
  BY <1>1, Attempting DEF JournalRes, Reconciling, Entering, Creating
<1>4. OwnOnly(l, l.made \cup {"participant"})'
  BY DEF OwnOnly
<1>5. ResourceRes(l)'
  BY <1>4 DEF ResourceRes, Reconciling, Creating, Cleaning, Finishing, Looking, OpenOnly
<1>6. PlaceRes(l)'
  BY <1>2, <1>3, <1>5 DEF PlaceRes
<1>7. /\ me[p].pc # "idle" /\ started \in Nat /\ started' \in Nat
      /\ started' >= started /\ l.pc # "write_intent"
  <2>1. me[p].pc # "idle" /\ started \in Nat
    BY <1>1, Attempting
  <2>2. started' = started /\ l.pc # "write_intent"
    BY <1>1
  <2> QED BY <2>1, <2>2
<1>8. \/ journal'.tok \in {0, journal.tok}
      \/ me[p].pc = "write_intent" /\ journal'.tok = me[p].tok
  OBVIOUS
<1> QED BY <1>6, <1>7, <1>8, BecomeRes

\* A step to a place after the result.
LEMMA LaterRes ==
    ASSUME RInv, IInv', NEW p \in Procs, me[p].pc \in Working,
           NEW l \in Locals, Become(p, l), l.pc \in Later,
           l.tok = me[p].tok, l.dmn = me[p].dmn, l.mode = me[p].mode,
           l.confirm = me[p].confirm, l.made \subseteq {"volume", "helper"},
           l.pc \in Looking \cup {"best_effort"} => ~l.pending,
           l.pc \in Looking \cup Removing => l.kind # "raised",
           l.pc = "best_effort" => l.kind = "raised",
           l.pc \in {"finish_recheck", "finish_unlink"} => Quiet(l),
           l.pc \in Cleaning => l.role \in {"helper", "volume"},
           \/ l.pc = "finish" /\ journal'.tok \in {0, l.tok}
           \/ journal'.tok = l.tok,
           journal'.tok = journal.tok \/ me[p].pc = "write_intent",
           WorldRes', UNCHANGED <<home, started, restarted>>,
           NoneOpen(l, l.observed)', OwnOnly(l, l.made \cup {"participant"})',
           Quiet(l) => OpenOnly(l, IF l.terminated /\ l.pc \in Looking
                                   THEN {"participant"} ELSE {})',
           /\ l.pc \in Cleaning \cup Finishing /\ Quiet(l)
           /\ Reaches(l)' \/ l.pc = "finish_unlink"
           => HereOnly(l, Left(l))'
    PROVE  RInv'
<1>1. l.pc \in Working /\ l.pc \notin Creating /\ l.pc \notin Entering
      /\ l.pc \notin Reconciling /\ l.pc # "write_intent" /\ l.pc # "publish"
  BY DEF Later, Creating, Working, Entering, Reconciling, Places, Looking, Removing,
         Cleaning, Finishing
<1>2. LocalRes(l)'
  BY <1>1, Attempting, Acting DEF LocalRes, Quiet, Entering, Reconciling, Creating
<1>3. JournalRes(l)'
  BY <1>1, Attempting DEF JournalRes, Creating
<1>4. ResourceRes(l)'
  BY <1>1 DEF ResourceRes, Quiet
<1>5. PlaceRes(l)'
  BY <1>2, <1>3, <1>4 DEF PlaceRes
<1>6. /\ me[p].pc # "idle" /\ started \in Nat /\ started' \in Nat
      /\ started' >= started /\ l.pc # "write_intent"
  <2>1. me[p].pc # "idle" /\ started \in Nat
    BY <1>1, Attempting
  <2>2. started' = started /\ l.pc # "write_intent"
    BY <1>1
  <2> QED BY <2>1, <2>2
<1>7. \/ journal'.tok \in {0, journal.tok}
      \/ me[p].pc = "write_intent" /\ journal'.tok = me[p].tok
  OBVIOUS
<1> QED BY <1>5, <1>6, <1>7, BecomeRes

\* With cleanup pending, or with an exception on its way, little is promised.
LEMMA SuspendedRes ==
    ASSUME RInv, IInv', NEW p \in Procs, me[p].pc \in Working \ {"write_intent"},
           NEW l \in Locals, Become(p, l), ~Quiet(l),
           l.pc \in Removing \cup Cleaning \cup {"finish"},
           l.tok = me[p].tok, l.dmn = me[p].dmn, l.mode = me[p].mode,
           l.confirm = me[p].confirm, l.made \subseteq {"volume", "helper"},
           l.pc \in Removing => l.kind # "raised",
           l.pc \in Cleaning => l.role \in {"helper", "volume"},
           journal'.tok = l.tok, journal'.tok = journal.tok,
           WorldRes', UNCHANGED <<home, started, restarted>>,
           NoneOpen(l, l.observed)', OwnOnly(l, l.made \cup {"participant"})'
    PROVE  RInv'
<1>1. l.pc \in Later /\ l.pc \notin Looking /\ l.pc # "best_effort"
      /\ l.pc \notin {"finish_recheck", "finish_unlink"}
  BY DEF Later, Looking, Removing, Cleaning, Finishing
<1> QED BY <1>1, LaterRes

\* The two ways a failure with pending cleanup goes on, with the world as it is or
\* with less in it.
LEMMA SuspendRes ==
    ASSUME RInv, IInv', NEW p \in Procs,
           me[p].pc \in Working \ {"write_intent", "finish", "publish"},
           NEW place \in Removing \cup {"finish"}, Suspend(p, place),
           place \in Removing => me[p].kind # "raised",
           journal'.tok = journal.tok, WorldRes',
           UNCHANGED <<home, started, restarted>>,
           inflight' \subseteq inflight, Requested' \subseteq Requested
    PROVE  RInv'
<1>1. PICK m \in Locals : m = me[p]
  BY TypeSplit DEF RInv, IInv
<1>2. PICK l : l = [m EXCEPT !.pc = place, !.kind = AsInfrastructure(@),
                             !.pending = TRUE]
  OBVIOUS
<1>3. Become(p, l)
  BY <1>1, <1>2 DEF Suspend
<1>4. l \in Locals
  BY <1>3, BecomeType
<1>5. /\ l.pc = place /\ l.kind = AsInfrastructure(m.kind) /\ l.pending = TRUE
      /\ l.tok = m.tok /\ l.dmn = m.dmn /\ l.mode = m.mode /\ l.confirm = m.confirm
      /\ l.made = m.made /\ l.observed = m.observed
  BY <1>2 DEF Locals
<1>6. /\ NoneOpen(m, m.observed) /\ OwnOnly(m, m.made \cup {"participant"})
      /\ m.made \subseteq {"volume", "helper"} /\ journal.tok = m.tok
  BY <1>1, Attempting
<1>7. NoneOpen(l, l.observed)' /\ OwnOnly(l, l.made \cup {"participant"})'
  BY <1>5, <1>6 DEF NoneOpen, OwnOnly
<1>8. l.pc \in Removing => l.kind # "raised"
  BY <1>1, <1>5 DEF AsInfrastructure
<1>9. ~Quiet(l) /\ l.pc \notin Cleaning
  BY <1>5 DEF Quiet, Removing, Cleaning
<1> QED BY <1>1, <1>3, <1>4, <1>5, <1>6, <1>7, <1>8, <1>9, SuspendedRes

\* The same for an error on a resource of the managed cleanup.
LEMMA CleanupSuspendedRes ==
    ASSUME RInv, IInv', NEW p \in Procs,
           me[p].pc \in Working \ {"write_intent", "finish", "publish"},
           SuspendAndCleanup(p),
           journal'.tok = journal.tok, WorldRes',
           UNCHANGED <<home, started, restarted>>,
           inflight' \subseteq inflight, Requested' \subseteq Requested
    PROVE  RInv'
<1>1. PICK m \in Locals : m = me[p]
  BY TypeSplit DEF RInv, IInv
<1>2. PICK n : n = [m EXCEPT !.kind = AsInfrastructure(@), !.pending = TRUE]
  OBVIOUS
<1>3. PICK l : l = EnterCleanup(n)
  OBVIOUS
<1>4. Become(p, l)
  BY <1>1, <1>2, <1>3 DEF SuspendAndCleanup
<1>5. l \in Locals
  BY <1>4, BecomeType
<1>6. /\ l.pc = "cleanup_identity" /\ l.role = "helper" /\ l.pending = TRUE
      /\ l.tok = m.tok /\ l.dmn = m.dmn /\ l.mode = m.mode /\ l.confirm = m.confirm
      /\ l.made = m.made /\ l.observed = m.observed
  BY <1>2, <1>3 DEF Locals, EnterCleanup
<1>7. /\ NoneOpen(m, m.observed) /\ OwnOnly(m, m.made \cup {"participant"})
      /\ m.made \subseteq {"volume", "helper"} /\ journal.tok = m.tok
  BY <1>1, Attempting
<1>8. NoneOpen(l, l.observed)' /\ OwnOnly(l, l.made \cup {"participant"})'
  BY <1>6, <1>7 DEF NoneOpen, OwnOnly
<1>9. ~Quiet(l) /\ l.pc \notin Removing /\ l.pc \in Cleaning
  BY <1>6 DEF Quiet, Removing, Cleaning
<1> QED BY <1>1, <1>4, <1>5, <1>6, <1>7, <1>8, <1>9, SuspendedRes

-----------------------------------------------------------------------------
(* The beginning of an attempt.                                            *)

\* The previous result is withdrawn.
LEMMA UnlinkPreviousRes ==
    ASSUME RInv, IInv', NEW p \in Procs, UnlinkPrevious(p)
    PROVE  RInv'
<1>1. PICK m \in Locals : m = me[p]
  BY TypeSplit DEF RInv, IInv
<1>2. /\ m.pc = "unlink_previous" /\ UNCHANGED resourceVars /\ endpoint' = endpoint
  BY <1>1 DEF UnlinkPrevious, At, daemonVars, worldVars, historyVars, resourceVars
<1>3. WorldRes' /\ journal' = journal /\ UNCHANGED <<restarted, started>>
  BY <1>2, StillWorld DEF RInv, resourceVars
<1>4. /\ m.tok = 0 /\ LocalRes(m) /\ JournalRes(m) /\ started \in Nat
  BY <1>1, <1>2, Acting, AttemptJournalAssumption DEF LocalRes, WorldOK
<1>5. CASE Return(p, "infrastructure", FALSE)
  BY <1>1, <1>2, <1>3, <1>4, <1>5, ReturnRes
<1>6. CASE Goto(p, "prepare")
  <2>1. PICK l : l = [m EXCEPT !.pc = "prepare"]
    OBVIOUS
  <2>2. Become(p, l)
    BY <1>1, <1>6, <2>1 DEF Goto
  <2>3. l \in Locals
    BY <2>2, BecomeType
  <2>4. /\ l.pc = "prepare" /\ l.tok = m.tok /\ l.observed = m.observed
        /\ l.made = m.made /\ l.kind = m.kind /\ l.pending = m.pending
        /\ l.mode = m.mode /\ l.confirm = m.confirm
    BY <2>1 DEF Locals
  <2>5. LocalRes(l)'
    BY <1>2, <1>4, <2>4 DEF LocalRes, Reconciling, Entering, Creating, Looking,
                            Removing, Cleaning, Working
  <2>6. JournalRes(l)' /\ ResourceRes(l)'
    BY <1>2, <1>3, <1>4, <2>4
       DEF JournalRes, ResourceRes, Reconciling, Entering, Creating, Working,
           Cleaning, Finishing
  <2> QED BY <1>1, <1>2, <1>3, <1>4, <2>2, <2>3, <2>4, <2>5, <2>6, BecomeRes
          DEF PlaceRes
<1> QED BY <1>5, <1>6 DEF UnlinkPrevious

\* A new token: nothing bears it yet.
LEMMA PrepareRes ==
    ASSUME RInv, IInv', NEW p \in Procs, Prepare(p)
    PROVE  RInv'
<1>1. PICK m \in Locals : m = me[p]
  BY TypeSplit DEF RInv, IInv
<1>2. m.pc = "prepare" /\ UNCHANGED <<present, inflight, journal, endpoint>>
  BY <1>1 DEF Prepare, At, journalVars, daemonVars
<1>3. /\ m.tok = 0 /\ LocalRes(m) /\ JournalRes(m) /\ started \in Nat
      /\ m.mode = "attempt" /\ journal.tok = 0 /\ started < MaxAttempts
      /\ WorldRes /\ WorldOK
  BY <1>1, <1>2, Acting, AttemptJournalAssumption
     DEF LocalRes, WorldOK, ProcInv, Entering
<1>4. CASE Return(p, "infrastructure", FALSE) /\ UNCHANGED <<restarted, historyVars>>
  <2>1. WorldRes'
    BY <1>2, <1>3, <1>4, StillWorld DEF resourceVars, historyVars
  <2> QED BY <1>1, <1>2, <1>3, <1>4, <2>1, ReturnRes DEF historyVars
<1>5. ASSUME started' = started + 1,
             home' = [home EXCEPT ![started + 1] = Endpoint(p)],
             restarted' = FALSE,
             Become(p, [m EXCEPT !.pc = "write_intent", !.tok = started + 1,
                                 !.dmn = Endpoint(p)])
      PROVE  RInv'
  <2>1. PICK l : l = [m EXCEPT !.pc = "write_intent", !.tok = started + 1,
                               !.dmn = Endpoint(p)]
    OBVIOUS
  <2>2. Become(p, l) /\ l \in Locals
    BY <1>5, <2>1, BecomeType
  <2>4. /\ l.pc = "write_intent" /\ l.tok = started + 1 /\ l.dmn = Endpoint(p)
        /\ l.observed = m.observed
        /\ l.made = m.made /\ l.kind = m.kind /\ l.pending = m.pending
        /\ l.mode = m.mode /\ l.confirm = m.confirm
    BY <2>1 DEF Locals
  <2>5. LocalRes(l)'
    BY <1>2, <1>3, <2>4 DEF LocalRes, Reconciling, Entering, Creating, Looking,
                            Removing, Cleaning, Working
  <2>6. home'[l.tok] = l.dmn /\ \A t \in Attempts : t <= started => home'[t] = home[t]
    <3>1. started + 1 \in Attempts /\ home \in [Attempts -> Daemons \cup {NoDaemon}]
      BY <1>3, AttemptJournalAssumption DEF Attempts, WorldOK
    <3> QED BY <1>3, <1>5, <2>4, <3>1 DEF Attempts
  <2>7. JournalRes(l)'
    BY <1>2, <1>3, <1>5, <2>4, <2>6
       DEF JournalRes, LocalRes, Reconciling, Entering, Creating, Working
  <2>8. \A x \in Requested : x[2] \in Attempts /\ x[2] <= started
                              /\ x[1] # home[x[2]]
    BY <1>3, ResourceParts, AttemptJournalAssumption DEF WorldRes, Attempts
  <2>9. ResourceRes(l)'
    <3>1. \A x \in Requested : x[2] # l.tok
      BY <1>3, <2>4, <2>8 DEF Attempts
    <3>2. \A x \in inflight : x[2] # l.tok
      BY <3>1 DEF Requested
    <3>3. NoneOpen(l, l.observed)' /\ OwnOnly(l, l.made)'
          /\ OwnOnly(l, l.made \cup {"participant"})'
          /\ \A S : OpenOnly(l, S)'
      BY <1>2, <3>1, <3>2 DEF NoneOpen, OwnOnly, OpenOnly, Requested
    <3> QED BY <2>4, <3>3 DEF ResourceRes, Reconciling, Cleaning, Finishing
  <2>10. WorldRes'
    <3>1. \A x \in Requested' : x[2] <= started' /\ x[1] # home'[x[2]]
      BY <1>2, <1>3, <1>5, <2>6, <2>8 DEF Requested, Attempts
    <3>2. journal'.tok = 0
      BY <1>2, <1>3
    <3> QED BY <1>2, <1>3, <1>5, <3>1, <3>2 DEF WorldRes, Requested, NoneOpen
  <2> QED BY <1>1, <1>2, <1>3, <1>5, <2>2, <2>4, <2>5, <2>7, <2>9, <2>10, BecomeRes
          DEF PlaceRes
<1> QED BY <1>1, <1>4, <1>5 DEF Prepare

\* The journal is written before anything bears the token.
LEMMA WriteIntentRes ==
    ASSUME RInv, IInv', NEW p \in Procs, WriteIntent(p)
    PROVE  RInv'
<1>1. PICK m \in Locals : m = me[p]
  BY TypeSplit DEF RInv, IInv
<1>2. PICK intent : intent = [tok |-> m.tok, ctx |-> m.ctx, dmn |-> m.dmn,
                              observed |-> {}]
  OBVIOUS
<1>3. /\ m.pc = "write_intent" /\ m.pc \in Working /\ m.pc \in Creating
      /\ UNCHANGED <<present, inflight, home, started, restarted, endpoint>>
      /\ journal' \in {journal, intent}
  BY <1>1, <1>2
     DEF WriteIntent, At, daemonVars, worldVars, historyVars, Written, WriteFailed,
         Working, Creating, Places, Entering, Reconciling
<1>4. /\ journal.tok = 0 /\ WorldOK /\ WorldRes /\ LocalRes(m) /\ ResourceRes(m)
      /\ m.pc # "idle" /\ m.made = {} /\ m.observed = {}
  BY <1>1, <1>3, Acting, Attempting DEF LocalRes, ProcInv
<1>5. /\ m.tok \in Attempts /\ m.dmn = home[m.tok] /\ m.tok <= started
      /\ ~restarted /\ m.tok # 0 /\ intent.tok = m.tok /\ intent.dmn = m.dmn
      /\ intent.observed = {}
  <2>1. /\ m.tok \in Attempts /\ m.dmn = home[m.tok] /\ m.tok <= started
        /\ ~restarted
    BY <1>1, <1>3, Attempting
  <2>2. m.tok # 0
    BY <2>1, AttemptJournalAssumption DEF Attempts
  <2> QED BY <1>2, <2>1, <2>2
<1>6. WorldRes'
  <2>1. CASE journal' = journal
    BY <1>3, <1>4, <2>1, StillWorld DEF resourceVars
  <2>2. CASE journal' = intent
    <3>1. \A x \in Requested : x[1] # home[x[2]]
      BY <1>4, ResourceParts, AttemptJournalAssumption DEF WorldRes, Attempts
    <3> QED BY <1>3, <1>4, <1>5, <2>2, <3>1 DEF WorldRes, Requested, NoneOpen
  <2> QED BY <1>3, <2>1, <2>2
<1>7. OwnOnly(m, {}) /\ \A x \in inflight : x[2] # m.tok
  <2>1. OwnOnly(m, {})
    BY <1>3, <1>4 DEF ResourceRes
  <2> QED BY <2>1 DEF OwnOnly, Requested
<1>8. ASSUME Written(intent), Goto(p, "create_volume")
      PROVE  RInv'
  <2>1. PICK l : l = [m EXCEPT !.pc = "create_volume"]
    OBVIOUS
  <2>2. Become(p, l)
    BY <1>1, <1>8, <2>1 DEF Goto
  <2>3. l \in Locals
    BY <2>2, BecomeType
  <2>4. /\ l.pc = "create_volume" /\ l.tok = m.tok /\ l.dmn = m.dmn
        /\ l.observed = {} /\ l.made = {} /\ l.kind = m.kind
        /\ l.pending = m.pending /\ l.mode = m.mode /\ l.confirm = m.confirm
    BY <1>4, <2>1 DEF Locals
  <2>5. NoneOpen(l, l.observed)' /\ OwnOnly(l, l.made)' /\ OpenOnly(l, {})'
    BY <1>3, <1>7, <2>4 DEF NoneOpen, OwnOnly, OpenOnly, Requested
  <2>6. journal'.tok = l.tok /\ journal'.observed = {}
    BY <1>5, <1>8, <2>4 DEF Written
  <2> QED BY <1>1, <1>3, <1>6, <2>2, <2>3, <2>4, <2>5, <2>6, CreatingRes
          DEF Creating
<1>9. ASSUME Become(p, [m EXCEPT !.pc = "finish", !.kind = "infrastructure"])
      PROVE  RInv'
  <2>1. PICK l : l = [m EXCEPT !.pc = "finish", !.kind = "infrastructure"]
    OBVIOUS
  <2>2. Become(p, l) /\ l \in Locals
    BY <1>9, <2>1, BecomeType
  <2>4. /\ l.pc = "finish" /\ l.tok = m.tok /\ l.dmn = m.dmn
        /\ l.observed = {} /\ l.made = {}
        /\ l.mode = m.mode /\ l.confirm = m.confirm
    BY <1>4, <2>1 DEF Locals
  <2>5. /\ NoneOpen(l, l.observed)' /\ OwnOnly(l, l.made \cup {"participant"})'
        /\ \A S : OpenOnly(l, S)' /\ HereOnly(l, Left(l))'
    BY <1>3, <1>7, <2>4 DEF NoneOpen, OwnOnly, OpenOnly, HereOnly, Requested
  <2>6. journal'.tok \in {0, l.tok}
    BY <1>3, <1>4, <1>5, <2>4
  <2>7. l.pc \in Later /\ l.pc \notin Looking \cup Removing \cup Cleaning
    BY <2>4 DEF Later, Finishing, Looking, Removing, Cleaning
  <2> QED BY <1>1, <1>3, <1>6, <2>2, <2>4, <2>5, <2>6, <2>7, LaterRes
<1> QED BY <1>1, <1>2, <1>8, <1>9 DEF WriteIntent

-----------------------------------------------------------------------------
(* Creation.                                                               *)

\* Before its result, an attempt has no request left open.
LEMMA CreatingFacts ==
    ASSUME RInv, NEW p \in Procs, me[p].pc \in Creating \ {"write_intent"}
    PROVE  /\ me[p].pc \in Working \ {"write_intent", "finish", "publish"}
           /\ OwnOnly(me[p], me[p].made) /\ \A y \in inflight : y[2] # me[p].tok
           /\ Quiet(me[p]) /\ me[p].kind = "none" /\ ~me[p].pending
           /\ me[p].observed \subseteq me[p].made
           /\ journal.observed \subseteq me[p].made
<1>1. /\ me[p].pc \in Working \ {"write_intent", "finish", "publish"}
      /\ me[p].pc # "idle" /\ me[p].pc \notin Looking
  BY DEF Creating, Working, Entering, Reconciling, Places, Looking
<1>2. me[p].kind = "none" /\ ~me[p].pending
  BY <1>1, Acting DEF LocalRes
<1>3. OpenOnly(me[p], {})
  BY <1>1, <1>2, Acting DEF ResourceRes, Quiet
<1> QED BY <1>1, <1>2, <1>3, Acting
        DEF LocalRes, JournalRes, ResourceRes, Quiet, OpenOnly

\* A create request, whatever comes of it: a role is requested once.
LEMMA CreateWorld ==
    ASSUME RInv, NEW p \in Procs, me[p].pc \in Creating \ {"write_intent"},
           NEW r \in Roles, r \notin me[p].made, NEW x, x = Name(p, r),
           Created(x) \/ CreateUncertain(x) \/ UNCHANGED daemonVars,
           UNCHANGED <<journal, home, started, restarted>>
    PROVE  /\ WorldRes' /\ x[2] = me[p].tok /\ x[3] = r
           /\ Requested' \subseteq Requested \cup {x}
           /\ inflight' \subseteq inflight \cup {x}
           /\ Created(x) \/ UNCHANGED daemonVars => inflight' = inflight
<1>1. PICK m : m = me[p]
  OBVIOUS
<1>2. /\ m.pc \in Working /\ m.pc \in Reconciling \cup Working
      /\ m.tok <= started /\ ~restarted /\ m.tok = journal.tok
      /\ m.dmn = home[m.tok] /\ WorldRes
  BY <1>1, CreatingFacts, Attempting DEF RInv
<1>3. x \in Resources /\ x[2] = m.tok /\ x[3] = r
  BY <1>1, <1>2, NameParts
<1>4. /\ Requested' \subseteq Requested \cup {x}
      /\ inflight' \subseteq inflight \cup {x}
      /\ present' \subseteq present \cup {x}
      /\ \/ inflight' = inflight
         \/ present' = present
      /\ Created(x) \/ UNCHANGED daemonVars => inflight' = inflight
  BY DEF Created, CreateUncertain, daemonVars, Requested
<1>5. \A y \in Requested : ~(y[2] = x[2] /\ y[3] = x[3])
  BY <1>1, <1>3, CreatingFacts DEF OwnOnly
<1>6. x \notin Requested
  BY <1>5
<1>7. WorldRes'
  <2>1. \A y \in Requested' : y[2] <= started'
    BY <1>2, <1>3, <1>4 DEF WorldRes
  <2>2. \A y, z \in Requested' : y[2] = z[2] /\ y[3] = z[3] => y = z
    BY <1>2, <1>4, <1>5 DEF WorldRes
  <2>3. present' \cap inflight' = {}
    BY <1>2, <1>4, <1>6 DEF WorldRes, Requested
  <2>4. \A y \in Requested' : y[1] = home'[y[2]] => journal'.tok = y[2]
    BY <1>2, <1>3, <1>4 DEF WorldRes
  <2>5. /\ journal'.tok # 0 => /\ journal'.dmn = home'[journal'.tok]
                               /\ journal'.tok <= started'
        /\ ~restarted'
    BY <1>2 DEF WorldRes
  <2>6. NoneOpen(journal, journal.observed)'
    <3>1. r \notin journal.observed
      BY <1>1, CreatingFacts
    <3> QED BY <1>2, <1>3, <1>4, <3>1 DEF WorldRes, NoneOpen
  <2> QED BY <2>1, <2>2, <2>3, <2>4, <2>5, <2>6 DEF WorldRes
<1> QED BY <1>1, <1>3, <1>4, <1>7

\* The request failed, or may have: cleanup is pending.
LEMMA CreateFailedRes ==
    ASSUME RInv, IInv', NEW p \in Procs, me[p].pc \in {"create_volume", "start_helper"},
           NEW r \in {"volume", "helper"}, r \notin me[p].made,
           NEW n \in Locals, n.pending = TRUE, Become(p, EnterCleanup(n)),
           n.tok = me[p].tok, n.dmn = me[p].dmn, n.mode = me[p].mode,
           n.confirm = me[p].confirm, n.made = me[p].made \cup {r},
           n.observed = me[p].observed,
           CreateUncertain(Name(p, r)) \/ UNCHANGED daemonVars,
           UNCHANGED <<journal, home, started, restarted>>
    PROVE  RInv'
<1>1. PICK m : m = me[p]
  OBVIOUS
<1>2. PICK l : l = EnterCleanup(n)
  OBVIOUS
<1>3. Become(p, l) /\ l \in Locals
  BY <1>2, BecomeType
<1>4. /\ l.pc = "cleanup_identity" /\ l.role = "helper" /\ l.pending = TRUE
      /\ l.tok = m.tok /\ l.dmn = m.dmn /\ l.mode = m.mode /\ l.confirm = m.confirm
      /\ l.made = m.made \cup {r} /\ l.observed = m.observed
  BY <1>1, <1>2 DEF Locals, EnterCleanup
<1>5. me[p].pc \in Creating \ {"write_intent"} /\ r \in Roles
  BY DEF Creating, Roles
<1>6. PICK x : x = Name(p, r)
  OBVIOUS
<1>7. /\ WorldRes' /\ x[2] = m.tok /\ x[3] = r
      /\ Requested' \subseteq Requested \cup {x}
      /\ inflight' \subseteq inflight \cup {x}
  BY <1>1, <1>5, <1>6, CreateWorld
<1>8. /\ OwnOnly(m, m.made) /\ (\A y \in inflight : y[2] # m.tok)
      /\ m.observed \subseteq m.made
      /\ m.pc \in Working \ {"write_intent", "finish", "publish"}
  BY <1>1, <1>5, CreatingFacts
<1>9. m.made \subseteq {"volume", "helper"} /\ journal.tok = m.tok
  BY <1>1, <1>8, Attempting
<1>10. NoneOpen(l, l.observed)' /\ OwnOnly(l, l.made \cup {"participant"})'
  BY <1>1, <1>4, <1>7, <1>8 DEF NoneOpen, OwnOnly
<1>11. ~Quiet(l) /\ l.pc \notin Removing /\ l.pc \in Cleaning
  BY <1>4 DEF Quiet, Removing, Cleaning
<1> QED BY <1>1, <1>3, <1>4, <1>7, <1>8, <1>9, <1>10, <1>11, SuspendedRes

\* The request was answered: on to the label check.
LEMMA CreateDoneRes ==
    ASSUME RInv, IInv', NEW p \in Procs, me[p].pc \in {"create_volume", "start_helper"},
           NEW r \in {"volume", "helper"}, r \notin me[p].made,
           NEW l \in Locals, Become(p, l),
           \/ r = "volume" /\ l.pc = "inspect_volume" /\ l.made = {"volume"}
           \/ r = "helper" /\ l.pc = "inspect_helper" /\ l.made = {"volume", "helper"},
           l.made = me[p].made \cup {r},
           l.tok = me[p].tok, l.dmn = me[p].dmn, l.mode = me[p].mode,
           l.confirm = me[p].confirm, l.kind = me[p].kind,
           l.pending = me[p].pending, l.observed = me[p].observed,
           Created(Name(p, r)) \/ UNCHANGED daemonVars,
           UNCHANGED <<journal, home, started, restarted>>
    PROVE  RInv'
<1>1. PICK m : m = me[p]
  OBVIOUS
<1>2. me[p].pc \in Creating \ {"write_intent"} /\ r \in Roles
  BY DEF Creating, Roles
<1>3. PICK x : x = Name(p, r)
  OBVIOUS
<1>4. /\ WorldRes' /\ x[2] = m.tok /\ x[3] = r /\ inflight' = inflight
      /\ Requested' \subseteq Requested \cup {x}
  BY <1>1, <1>2, <1>3, CreateWorld
<1>5. /\ OwnOnly(m, m.made) /\ (\A y \in inflight : y[2] # m.tok)
      /\ m.observed \subseteq m.made /\ journal.observed \subseteq m.made
      /\ m.pc \in Working \ {"write_intent", "finish", "publish"}
  BY <1>1, <1>2, CreatingFacts
<1>6. m.made \subseteq {"volume", "helper"} /\ journal.tok = m.tok
  BY <1>1, <1>5, Attempting
<1>7. NoneOpen(l, l.observed)' /\ OwnOnly(l, l.made)' /\ OpenOnly(l, {})'
  BY <1>1, <1>4, <1>5 DEF NoneOpen, OwnOnly, OpenOnly
<1>8. l.pc \in Creating \ {"write_intent", "create_volume"}
  BY DEF Creating
<1> QED BY <1>1, <1>2, <1>4, <1>5, <1>6, <1>7, <1>8, CreatingRes

\* The volume is requested.
LEMMA CreateOutputVolumeRes ==
    ASSUME RInv, IInv', NEW p \in Procs, CreateOutputVolume(p)
    PROVE  RInv'
<1>1. PICK m \in Locals : m = me[p]
  BY TypeSplit DEF RInv, IInv
<1>2. /\ m.pc = "create_volume" /\ UNCHANGED <<journal, home, started, restarted>>
  BY <1>1 DEF CreateOutputVolume, At, journalVars, worldVars, historyVars
<1>3. m.made = {} /\ "volume" \notin m.made
  BY <1>1, <1>2, Acting DEF LocalRes
<1>4. ASSUME Created(Name(p, "volume")) \/ UNCHANGED daemonVars,
             Become(p, [m EXCEPT !.made = {"volume"}, !.pc = "inspect_volume"])
      PROVE  RInv'
  <2>1. PICK l : l = [m EXCEPT !.made = {"volume"}, !.pc = "inspect_volume"]
    OBVIOUS
  <2>2. Become(p, l) /\ l \in Locals
    BY <1>4, <2>1, BecomeType
  <2>3. /\ l.pc = "inspect_volume" /\ l.tok = m.tok /\ l.dmn = m.dmn
        /\ l.observed = m.observed /\ l.made = {"volume"} /\ l.kind = m.kind
        /\ l.pending = m.pending /\ l.mode = m.mode /\ l.confirm = m.confirm
    BY <2>1 DEF Locals
  <2>4. l.made = m.made \cup {"volume"}
    BY <1>3, <2>3
  <2> QED BY <1>1, <1>2, <1>3, <1>4, <2>2, <2>3, <2>4, CreateDoneRes
<1>5. ASSUME CreateUncertain(Name(p, "volume")),
             Become(p, EnterCleanup([m EXCEPT !.made = {"volume"},
                                              !.kind = "infrastructure",
                                              !.pending = TRUE]))
      PROVE  RInv'
  <2>1. PICK n : n = [m EXCEPT !.made = {"volume"}, !.kind = "infrastructure",
                               !.pending = TRUE]
    OBVIOUS
  <2>2. /\ n \in Locals /\ n.pending = TRUE /\ n.tok = m.tok /\ n.dmn = m.dmn
        /\ n.observed = m.observed /\ n.made = {"volume"}
        /\ n.mode = m.mode /\ n.confirm = m.confirm
    BY <2>1 DEF Locals, Kinds, Roles
  <2>3. Become(p, EnterCleanup(n)) /\ n.made = m.made \cup {"volume"}
    BY <1>3, <1>5, <2>1, <2>2
  <2> QED BY <1>1, <1>2, <1>3, <1>5, <2>2, <2>3, CreateFailedRes
<1>6. \A q, r : LET l == [m EXCEPT !.made = {"volume"}]
                IN  /\ [l EXCEPT !.pc = q] = [m EXCEPT !.made = {"volume"}, !.pc = q]
                    /\ [l EXCEPT !.kind = r, !.pending = TRUE]
                       = [m EXCEPT !.made = {"volume"}, !.kind = r, !.pending = TRUE]
  BY DEF Locals
<1> QED BY <1>1, <1>4, <1>5, <1>6 DEF CreateOutputVolume

\* The helper is requested.
LEMMA StartOutputHelperRes ==
    ASSUME RInv, IInv', NEW p \in Procs, StartOutputHelper(p)
    PROVE  RInv'
<1>1. PICK m \in Locals : m = me[p]
  BY TypeSplit DEF RInv, IInv
<1>2. /\ m.pc = "start_helper" /\ UNCHANGED <<journal, home, started, restarted>>
  BY <1>1 DEF StartOutputHelper, At, journalVars, worldVars, historyVars
<1>3. m.made = {"volume"} /\ "helper" \notin m.made
  BY <1>1, <1>2, Acting DEF LocalRes
<1> DEFINE made == m.made \cup {"helper"}
<1>4. ASSUME Created(Name(p, "helper")),
             Become(p, [m EXCEPT !.made = made, !.pc = "inspect_helper"])
      PROVE  RInv'
  <2>1. PICK l : l = [m EXCEPT !.made = made, !.pc = "inspect_helper"]
    OBVIOUS
  <2>2. Become(p, l) /\ l \in Locals
    BY <1>4, <2>1, BecomeType
  <2>3. /\ l.pc = "inspect_helper" /\ l.tok = m.tok /\ l.dmn = m.dmn
        /\ l.observed = m.observed /\ l.made = made /\ l.kind = m.kind
        /\ l.pending = m.pending /\ l.mode = m.mode /\ l.confirm = m.confirm
    BY <2>1 DEF Locals
  <2>4. l.made = {"volume", "helper"}
    BY <1>3, <2>3
  <2> QED BY <1>1, <1>2, <1>3, <1>4, <2>2, <2>3, <2>4, CreateDoneRes
<1>5. ASSUME CreateUncertain(Name(p, "helper")) \/ UNCHANGED daemonVars,
             Become(p, EnterCleanup([m EXCEPT !.made = made,
                                              !.kind = "infrastructure",
                                              !.pending = TRUE]))
      PROVE  RInv'
  <2>1. PICK n : n = [m EXCEPT !.made = made, !.kind = "infrastructure",
                               !.pending = TRUE]
    OBVIOUS
  <2>2. /\ n \in Locals /\ n.pending = TRUE /\ n.tok = m.tok /\ n.dmn = m.dmn
        /\ n.observed = m.observed /\ n.made = made
        /\ n.mode = m.mode /\ n.confirm = m.confirm
    BY <2>1 DEF Locals, Kinds, Roles
  <2>3. Become(p, EnterCleanup(n))
    BY <1>5, <2>1
  <2> QED BY <1>1, <1>2, <1>3, <1>5, <2>2, <2>3, CreateFailedRes
<1>6. \A q, r : LET l == [m EXCEPT !.made = made]
                IN  /\ [l EXCEPT !.pc = q] = [m EXCEPT !.made = made, !.pc = q]
                    /\ [l EXCEPT !.kind = r, !.pending = TRUE]
                       = [m EXCEPT !.made = made, !.kind = r, !.pending = TRUE]
  BY DEF Locals
<1> QED BY <1>1, <1>4, <1>5, <1>6 DEF StartOutputHelper

\* A journal that notes what is there, or is left as it was.
LEMMA NoteRes ==
    ASSUME RInv, NEW p \in Procs,
           me[p].pc \in Working \ {"write_intent", "finish", "publish"},
           NEW r \in Roles, NEW noted, noted = me[p].observed \cup {r},
           Label(Name(p, r)) = "own" \/ journal' = journal,
           journal' \in {journal, [journal EXCEPT !.observed = noted]},
           UNCHANGED <<present, inflight, home, started, restarted>>
    PROVE  /\ WorldRes' /\ journal'.tok = journal.tok
           /\ Label(Name(p, r)) = "own" =>
                 NoneOpen(me[p], noted) /\ OpenOnly(me[p], Roles \ {r})
           /\ journal'.observed \in {journal.observed, noted}
<1>1. PICK m \in Locals : m = me[p]
  BY TypeSplit DEF RInv, IInv
<1>2. /\ journal.tok = m.tok /\ m.dmn = home[m.tok] /\ NoneOpen(m, m.observed)
      /\ m.pc # "idle" /\ m.pc \in Reconciling \cup Working /\ m.tok # 0
  <2>1. /\ journal.tok = m.tok /\ m.dmn = home[m.tok] /\ NoneOpen(m, m.observed)
        /\ m.pc # "idle" /\ m.tok \in Attempts
    BY <1>1, Attempting
  <2>2. m.tok # 0
    BY <2>1, AttemptJournalAssumption DEF Attempts
  <2> QED BY <1>1, <2>1, <2>2
<1>3. /\ WorldOK /\ WorldRes /\ journal \in Journals /\ journal.dmn = m.dmn
      /\ noted \in SUBSET Roles
  BY <1>1, <1>2, Acting DEF WorldRes, WorldOK, Locals
<1>4. Label(Name(p, r)) = "own" =>
         /\ NoneOpen(m, noted) /\ NoneOpen(journal, noted)
         /\ OpenOnly(m, Roles \ {r})
  BY <1>1, <1>2, <1>3, PresentClosed DEF Label, NoneOpen
<1>5. WorldRes'
  <2>1. CASE journal' = journal
    BY <1>3, <2>1, StillWorld DEF resourceVars
  <2>2. CASE Label(Name(p, r)) = "own"
    BY <1>3, <1>4, <2>2, NotedWorld
  <2> QED BY <2>1, <2>2
<1> QED BY <1>1, <1>3, <1>4, <1>5, JournalTypes DEF Journals

\* The label check after a request: what it finds is no open request any more.
LEMMA InspectCreatedRes ==
    ASSUME RInv, IInv', NEW p \in Procs,
           NEW place \in {"inspect_volume", "inspect_helper"},
           NEW r \in {"volume", "helper"}, NEW next,
           \/ place = "inspect_volume" /\ r = "volume" /\ next = "start_helper"
           \/ place = "inspect_helper" /\ r = "helper" /\ next = "core_dump_policy",
           InspectCreated(p, place, r, next)
    PROVE  RInv'
<1>1. PICK m \in Locals : m = me[p]
  BY TypeSplit DEF RInv, IInv
<1>2. PICK noted : noted = m.observed \cup {r}
  OBVIOUS
<1>3. /\ m.pc = place /\ m.pc \in Creating \ {"write_intent"} /\ r \in Roles
      /\ UNCHANGED <<present, inflight, home, started, restarted>>
      /\ journal' \in {journal, [journal EXCEPT !.observed = noted]}
      /\ Label(Name(p, r)) = "own" \/ journal' = journal
  BY <1>1, <1>2
     DEF InspectCreated, At, Creating, Roles, Written, WriteFailed, daemonVars,
         worldVars, historyVars
<1>4. /\ m.pc \in Working \ {"write_intent", "finish", "publish"}
      /\ OwnOnly(m, m.made) /\ (\A y \in inflight : y[2] # m.tok)
      /\ m.observed \subseteq m.made /\ journal.observed \subseteq m.made
      /\ m.made \subseteq {"volume", "helper"}
      /\ r \in m.made /\ (r = "volume" => m.made = {"volume"})
      /\ journal.tok = m.tok
  <2>1. /\ m.pc \in Working \ {"write_intent", "finish", "publish"}
        /\ OwnOnly(m, m.made) /\ (\A y \in inflight : y[2] # m.tok)
        /\ m.observed \subseteq m.made /\ journal.observed \subseteq m.made
    BY <1>1, <1>3, CreatingFacts
  <2>2. m.made \subseteq {"volume", "helper"} /\ journal.tok = m.tok
        /\ m.pc # "idle"
    BY <1>1, <2>1, Attempting
  <2>3. LocalRes(m)
    BY <1>1, <2>2, Acting
  <2>4. r \in m.made /\ (r = "volume" => m.made = {"volume"})
    BY <1>3, <2>3 DEF LocalRes
  <2> QED BY <2>1, <2>2, <2>4
<1>5. /\ WorldRes' /\ journal'.tok = journal.tok
      /\ journal'.observed \in {journal.observed, noted}
  <2>1. /\ me[p].pc \in Working \ {"write_intent", "finish", "publish"}
        /\ noted = me[p].observed \cup {r}
    BY <1>1, <1>2, <1>4
  <2> QED BY <1>3, <2>1, NoteRes
<1>6. Requested' = Requested
  BY <1>3 DEF Requested
<1>7. CASE SuspendAndCleanup(p)
  BY <1>1, <1>3, <1>4, <1>5, <1>6, <1>7, CleanupSuspendedRes
<1>8. ASSUME Become(p, [m EXCEPT !.pc = next, !.observed = noted])
      PROVE  RInv'
  <2>1. PICK l : l = [m EXCEPT !.pc = next, !.observed = noted]
    OBVIOUS
  <2>2. Become(p, l) /\ l \in Locals
    BY <1>8, <2>1, BecomeType
  <2>3. /\ l.pc = next /\ l.tok = m.tok /\ l.dmn = m.dmn
        /\ l.observed = noted /\ l.made = m.made /\ l.kind = m.kind
        /\ l.pending = m.pending /\ l.mode = m.mode /\ l.confirm = m.confirm
    BY <2>1 DEF Locals
  <2>4. NoneOpen(l, l.observed)' /\ OwnOnly(l, l.made)' /\ OpenOnly(l, {})'
    BY <1>3, <1>4, <1>6, <2>3 DEF NoneOpen, OwnOnly, OpenOnly
  <2>5. noted \subseteq m.made /\ journal'.observed \subseteq l.made
    BY <1>2, <1>4, <1>5, <2>3
  <2>6. l.pc \in Creating \ {"write_intent"}
    BY <2>3 DEF Creating
  <2> QED BY <1>1, <1>3, <1>4, <1>5, <2>2, <2>3, <2>4, <2>5, <2>6, CreatingRes
<1> QED BY <1>1, <1>2, <1>7, <1>8 DEF InspectCreated

\* For the volume.
LEMMA InspectVolumeRes ==
    ASSUME RInv, IInv', NEW p \in Procs, InspectVolume(p)
    PROVE  RInv'
BY InspectCreatedRes DEF InspectVolume

\* For the helper.
LEMMA InspectHelperRes ==
    ASSUME RInv, IInv', NEW p \in Procs, InspectHelper(p)
    PROVE  RInv'
BY InspectCreatedRes DEF InspectHelper

\* The policy check may fail without anything pending.
LEMMA CoreDumpPolicyRes ==
    ASSUME RInv, IInv', NEW p \in Procs, CoreDumpPolicy(p)
    PROVE  RInv'
<1>1. PICK m \in Locals : m = me[p]
  BY TypeSplit DEF RInv, IInv
<1>2. /\ m.pc = "core_dump_policy" /\ UNCHANGED resourceVars /\ endpoint' = endpoint
      /\ m.pc \in Creating \ {"write_intent"}
  BY <1>1 DEF CoreDumpPolicy, At, Creating, journalVars, daemonVars, worldVars,
              historyVars, resourceVars
<1>3. WorldRes' /\ Requested' = Requested
      /\ UNCHANGED <<journal, inflight, home, started, restarted>>
  BY <1>2, StillWorld DEF RInv, resourceVars, Requested
<1>4. /\ m.pc \in Working \ {"write_intent", "finish", "publish"}
      /\ OwnOnly(m, m.made) /\ (\A y \in inflight : y[2] # m.tok)
      /\ m.observed \subseteq m.made /\ journal.observed \subseteq m.made
      /\ m.made \subseteq {"volume", "helper"} /\ journal.tok = m.tok
  BY <1>1, <1>2, CreatingFacts, Attempting
<1>5. CASE Goto(p, "run")
  <2>1. PICK l : l = [m EXCEPT !.pc = "run"]
    OBVIOUS
  <2>2. Become(p, l)
    BY <1>1, <1>5, <2>1 DEF Goto
  <2>3. l \in Locals
    BY <2>2, BecomeType
  <2>4. /\ l.pc = "run" /\ l.tok = m.tok /\ l.dmn = m.dmn
        /\ l.observed = m.observed /\ l.made = m.made /\ l.kind = m.kind
        /\ l.pending = m.pending /\ l.mode = m.mode /\ l.confirm = m.confirm
    BY <2>1 DEF Locals
  <2>5. NoneOpen(l, l.observed)' /\ OwnOnly(l, l.made)' /\ OpenOnly(l, {})'
    BY <1>3, <1>4, <2>4 DEF NoneOpen, OwnOnly, OpenOnly
  <2>6. l.pc \in Creating \ {"write_intent"}
    BY <2>4 DEF Creating
  <2> QED BY <1>1, <1>2, <1>3, <1>4, <2>2, <2>3, <2>4, <2>5, <2>6, CreatingRes
<1>6. ASSUME Become(p, EnterCleanup([m EXCEPT !.kind = "infrastructure"]))
      PROVE  RInv'
  <2>1. PICK n : n = [m EXCEPT !.kind = "infrastructure"]
    OBVIOUS
  <2>2. PICK l : l = EnterCleanup(n)
    OBVIOUS
  <2>3. Become(p, l) /\ l \in Locals
    BY <1>6, <2>1, <2>2, BecomeType
  <2>4. /\ l.pc = "cleanup_identity" /\ l.role = "helper" /\ l.tok = m.tok
        /\ l.dmn = m.dmn /\ l.observed = m.observed /\ l.made = m.made
        /\ l.mode = m.mode /\ l.confirm = m.confirm
    BY <2>1, <2>2 DEF Locals, EnterCleanup
  <2>5. /\ NoneOpen(l, l.observed)' /\ OwnOnly(l, l.made \cup {"participant"})'
        /\ \A S : OpenOnly(l, S)'
    BY <1>3, <1>4, <2>4 DEF NoneOpen, OwnOnly, OpenOnly
  <2>6. HereOnly(l, Left(l))'
    <3>1. Left(l) = {"helper", "volume"}
      BY <2>4 DEF Left, Finishing
    <3> QED BY <1>3, <1>4, <2>4, <3>1 DEF OwnOnly, HereOnly
  <2>7. /\ l.pc \in Later /\ l.pc \in Cleaning
        /\ l.pc \notin Looking \cup Removing \cup {"best_effort"}
    BY <2>4 DEF Later, Finishing, Looking, Removing, Cleaning
  <2> QED BY <1>1, <1>3, <1>4, <2>3, <2>4, <2>5, <2>6, <2>7, LaterRes
<1> QED BY <1>1, <1>5, <1>6 DEF CoreDumpPolicy

\* The participant is requested; only a CLI that was killed or lost leaves the
\* request open.
LEMMA RunPreparedRouterRes ==
    ASSUME RInv, IInv', NEW p \in Procs, RunPreparedRouter(p)
    PROVE  RInv'
<1>1. PICK m \in Locals : m = me[p]
  BY TypeSplit DEF RInv, IInv
<1>2. PICK x : x = Name(p, "participant")
  OBVIOUS
<1>3. /\ m.pc = "run" /\ m.pc \in Creating \ {"write_intent"}
      /\ UNCHANGED <<journal, home, started, restarted>>
      /\ Created(x) \/ CreateUncertain(x) \/ UNCHANGED daemonVars
  BY <1>1, <1>2 DEF RunPreparedRouter, At, Creating, journalVars, worldVars,
                    historyVars
<1>4. /\ m.pc \in Working \ {"write_intent", "finish", "publish"}
      /\ OwnOnly(m, m.made) /\ (\A y \in inflight : y[2] # m.tok)
      /\ m.observed \subseteq m.made /\ ~m.pending
      /\ m.made \subseteq {"volume", "helper"} /\ journal.tok = m.tok
      /\ "participant" \notin m.made
  BY <1>1, <1>3, CreatingFacts, Attempting
<1>5. "participant" \in Roles
  BY DEF Roles
<1>6. /\ WorldRes' /\ x[2] = m.tok /\ x[3] = "participant"
      /\ Requested' \subseteq Requested \cup {x}
      /\ inflight' \subseteq inflight \cup {x}
      /\ Created(x) \/ UNCHANGED daemonVars => inflight' = inflight
  BY <1>1, <1>2, <1>3, <1>4, <1>5, CreateWorld
<1>7. ASSUME NEW l \in Locals, Become(p, l), l.pc \in {"identity", "best_effort"},
             l.pc = "identity" => l.kind # "raised",
             l.pc = "best_effort" => l.kind = "raised",
             l.tok = m.tok, l.dmn = m.dmn, l.mode = m.mode, l.confirm = m.confirm,
             l.made = m.made, l.observed = m.observed, l.pending = m.pending,
             l.pc = "best_effort" \/ l.terminated \/ inflight' = inflight
      PROVE  RInv'
  <2>1. NoneOpen(l, l.observed)' /\ OwnOnly(l, l.made \cup {"participant"})'
    BY <1>4, <1>6, <1>7 DEF NoneOpen, OwnOnly
  <2>2. Quiet(l) => OpenOnly(l, IF l.terminated /\ l.pc \in Looking
                                THEN {"participant"} ELSE {})'
    BY <1>4, <1>6, <1>7 DEF OpenOnly, Quiet, Looking
  <2>3. /\ l.pc \in Later /\ l.pc \notin Cleaning \cup Finishing
        /\ l.pc \notin Removing /\ (l.pc \in Looking => l.pc = "identity")
    BY <1>7 DEF Later, Finishing, Looking, Removing, Cleaning
  <2>4. l.pc \notin {"finish", "finish_recheck", "finish_unlink"}
    BY <1>7
  <2> QED BY <1>1, <1>3, <1>4, <1>6, <1>7, <2>1, <2>2, <2>3, <2>4, LaterRes
<1>8. ASSUME NEW kind \in {"valid", "execution", "infrastructure"},
             NEW t \in BOOLEAN, t \/ inflight' = inflight,
             Become(p, [m EXCEPT !.pc = "identity", !.kind = kind,
                                 !.terminated = t])
      PROVE  RInv'
  <2>1. PICK l : l = [m EXCEPT !.pc = "identity", !.kind = kind, !.terminated = t]
    OBVIOUS
  <2>2. Become(p, l) /\ l \in Locals
    BY <1>8, <2>1, BecomeType
  <2>3. /\ l.pc = "identity" /\ l.kind = kind /\ l.terminated = t
        /\ l.tok = m.tok /\ l.dmn = m.dmn /\ l.mode = m.mode
        /\ l.confirm = m.confirm /\ l.made = m.made
        /\ l.observed = m.observed /\ l.pending = m.pending
    BY <2>1 DEF Locals
  <2> QED BY <1>7, <1>8, <2>2, <2>3
<1>9. ASSUME Become(p, [m EXCEPT !.pc = "best_effort", !.kind = "raised"])
      PROVE  RInv'
  <2>1. PICK l : l = [m EXCEPT !.pc = "best_effort", !.kind = "raised"]
    OBVIOUS
  <2>2. Become(p, l) /\ l \in Locals
    BY <1>9, <2>1, BecomeType
  <2>3. /\ l.pc = "best_effort" /\ l.kind = "raised"
        /\ l.tok = m.tok /\ l.dmn = m.dmn /\ l.mode = m.mode
        /\ l.confirm = m.confirm /\ l.made = m.made
        /\ l.observed = m.observed /\ l.pending = m.pending
    BY <2>1 DEF Locals
  <2> QED BY <1>7, <2>2, <2>3
<1>10. Created(x) => inflight' = inflight
  BY <1>6
<1>11. UNCHANGED daemonVars => inflight' = inflight
  BY <1>6
<1> QED
  <2> DEFINE Ends(k, t) == Become(p, [m EXCEPT !.pc = "identity", !.kind = k,
                                               !.terminated = t])
  <2>1. \/ /\ Created(x)
           /\ \/ Ends("valid", FALSE)
              \/ \E k \in {"execution", "infrastructure"}, t \in BOOLEAN : Ends(k, t)
        \/ UNCHANGED daemonVars /\ Ends("execution", FALSE)
        \/ /\ UNCHANGED daemonVars
           /\ \E k \in {"execution", "infrastructure"} : Ends(k, FALSE)
        \/ \E k \in {"execution", "infrastructure"} : Ends(k, TRUE)
        \/ Become(p, [m EXCEPT !.pc = "best_effort", !.kind = "raised"])
    BY <1>1, <1>2 DEF RunPreparedRouter
  <2> QED BY <1>8, <1>9, <1>10, <1>11, <2>1

-----------------------------------------------------------------------------
(* The participant after its run.                                          *)

\* A step from one of the later places, with the resources as they are or fewer.
LEMMA OnwardRes ==
    ASSUME RInv, IInv', NEW p \in Procs,
           me[p].pc \in Working \ {"write_intent", "finish", "publish"},
           NEW l \in Locals, Become(p, l), l.pc \in Later,
           l.tok = me[p].tok, l.dmn = me[p].dmn, l.mode = me[p].mode,
           l.confirm = me[p].confirm, l.made = me[p].made,
           l.pc \in Looking \cup {"best_effort"} => ~l.pending,
           l.pc \in Looking \cup Removing => l.kind # "raised",
           l.pc = "best_effort" => l.kind = "raised",
           l.pc \in {"finish_recheck", "finish_unlink"} => Quiet(l),
           l.pc \in Cleaning => l.role \in {"helper", "volume"},
           WorldRes', UNCHANGED <<home, started, restarted, inflight>>,
           Requested' \subseteq Requested, journal'.tok = journal.tok,
           NoneOpen(me[p], l.observed),
           Quiet(l) => OpenOnly(me[p], IF l.terminated /\ l.pc \in Looking
                                       THEN {"participant"} ELSE {}),
           /\ l.pc \in Cleaning \cup Finishing /\ Quiet(l)
           /\ Reaches(l)' \/ l.pc = "finish_unlink"
           => HereOnly(l, Left(l))'
    PROVE  RInv'
<1>1. PICK m : m = me[p]
  OBVIOUS
<1>2. /\ OwnOnly(m, m.made \cup {"participant"}) /\ journal.tok = m.tok
      /\ m.made \subseteq {"volume", "helper"} /\ me[p].pc \in Working
  BY <1>1, Attempting
<1>3. NoneOpen(l, l.observed)' /\ OwnOnly(l, l.made \cup {"participant"})'
  BY <1>1, <1>2 DEF NoneOpen, OwnOnly
<1>4. Quiet(l) => OpenOnly(l, IF l.terminated /\ l.pc \in Looking
                              THEN {"participant"} ELSE {})'
  BY <1>1 DEF OpenOnly
<1>5. journal'.tok = l.tok
  BY <1>1, <1>2
<1> QED BY <1>1, <1>2, <1>3, <1>4, <1>5, LaterRes

\* An exception takes the participant along, if it can.
LEMMA BestEffortRemoveRes ==
    ASSUME RInv, IInv', NEW p \in Procs, BestEffortRemove(p)
    PROVE  RInv'
<1>1. PICK m \in Locals : m = me[p]
  BY TypeSplit DEF RInv, IInv
<1>2. /\ m.pc = "best_effort"
      /\ m.pc \in Working \ {"write_intent", "finish", "publish"}
      /\ UNCHANGED <<journal, home, started, restarted, endpoint, inflight>>
      /\ present' \subseteq present
  BY <1>1 DEF BestEffortRemove, At, Working, Places, Entering, Reconciling,
              journalVars, worldVars, historyVars
<1>3. WorldRes' /\ Requested' \subseteq Requested
  BY <1>2, ShrunkWorld DEF RInv, WorldRes, Requested
<1>4. m.kind = "raised" /\ NoneOpen(m, m.observed)
  BY <1>1, <1>2, Acting, Attempting DEF LocalRes
<1>5. PICK l : l = EnterCleanup(m)
  OBVIOUS
<1>6. Become(p, l) /\ l \in Locals
  BY <1>1, <1>5, BecomeType DEF BestEffortRemove
<1>7. /\ l.pc = "cleanup_identity" /\ l.role = "helper" /\ l.kind = m.kind
      /\ l.tok = m.tok /\ l.dmn = m.dmn /\ l.mode = m.mode
      /\ l.confirm = m.confirm /\ l.made = m.made /\ l.observed = m.observed
  BY <1>5 DEF Locals, EnterCleanup
<1>8. ~Quiet(l) /\ l.pc \in Later
      /\ l.pc \notin Looking \cup Removing \cup {"best_effort"}
  BY <1>4, <1>7 DEF Quiet, Later, Looking, Removing, Cleaning
<1> QED BY <1>1, <1>2, <1>3, <1>4, <1>6, <1>7, <1>8, OnwardRes

\* The identity check before the participant is looked for.
LEMMA DaemonIdentityRes ==
    ASSUME RInv, IInv', NEW p \in Procs, DaemonIdentity(p)
    PROVE  RInv'
<1>1. PICK m \in Locals : m = me[p]
  BY TypeSplit DEF RInv, IInv
<1>2. /\ m.pc = "identity" /\ m.pc \in Looking
      /\ m.pc \in Working \ {"write_intent", "finish", "publish"}
      /\ UNCHANGED resourceVars
  BY <1>1 DEF DaemonIdentity, At, Working, Places, Entering, Reconciling, Looking,
              journalVars, daemonVars, historyVars, worldVars, resourceVars
<1>3. /\ WorldRes' /\ Requested' = Requested
      /\ UNCHANGED <<journal, inflight, home, started, restarted>>
  BY <1>2, StillWorld DEF RInv, resourceVars, Requested
<1>4. CASE SuspendAndCleanup(p)
  BY <1>1, <1>2, <1>3, <1>4, CleanupSuspendedRes
<1>5. CASE Goto(p, "participant_inspect")
  <2>1. PICK l : l = [m EXCEPT !.pc = "participant_inspect"]
    OBVIOUS
  <2>2. Become(p, l)
    BY <1>1, <1>5, <2>1 DEF Goto
  <2>3. l \in Locals
    BY <2>2, BecomeType
  <2>4. /\ l.pc = "participant_inspect" /\ l.tok = m.tok /\ l.dmn = m.dmn
        /\ l.observed = m.observed /\ l.made = m.made /\ l.kind = m.kind
        /\ l.pending = m.pending /\ l.mode = m.mode /\ l.confirm = m.confirm
        /\ l.terminated = m.terminated
    BY <2>1 DEF Locals
  <2>5. ~m.pending /\ m.kind # "raised" /\ NoneOpen(m, m.observed)
    BY <1>1, <1>2, Acting, Attempting DEF LocalRes
  <2>6. OpenOnly(m, IF m.terminated THEN {"participant"} ELSE {})
    <3>1. ResourceRes(m)
      BY <1>1, <1>2, Acting, Attempting
    <3> QED BY <1>2, <2>5, <3>1 DEF ResourceRes, Quiet
  <2>7. /\ l.pc \in Later /\ l.pc \in Looking
        /\ l.pc \notin Cleaning \cup Finishing
    BY <2>4 DEF Later, Looking, Cleaning, Finishing
  <2> QED BY <1>1, <1>2, <1>3, <2>2, <2>3, <2>4, <2>5, <2>6, <2>7, OnwardRes
<1> QED BY <1>4, <1>5 DEF DaemonIdentity

\* The participant is found, or is known never to come, or cleanup is pending.
LEMMA InspectParticipantRes ==
    ASSUME RInv, IInv', NEW p \in Procs, InspectParticipant(p)
    PROVE  RInv'
<1>1. PICK m \in Locals : m = me[p]
  BY TypeSplit DEF RInv, IInv
<1>2. PICK noted : noted = m.observed \cup {"participant"}
  OBVIOUS
<1> DEFINE seen == Label(Name(p, "participant"))
<1>3. /\ m.pc = "participant_inspect" /\ m.pc \in Looking
      /\ m.pc \in Working \ {"write_intent", "finish", "publish"}
      /\ UNCHANGED <<present, inflight, home, started, restarted, endpoint>>
      /\ journal' \in {journal, [journal EXCEPT !.observed = noted]}
      /\ seen = "own" \/ journal' = journal
      /\ "participant" \in Roles
  BY <1>1, <1>2
     DEF InspectParticipant, At, Working, Places, Entering, Reconciling, Looking,
         Written, WriteFailed, daemonVars, historyVars, worldVars, Roles
<1>4. /\ WorldRes' /\ journal'.tok = journal.tok
      /\ (seen = "own" => NoneOpen(m, noted) /\ OpenOnly(m, Roles \ {"participant"}))
  <2>1. /\ me[p].pc \in Working \ {"write_intent", "finish", "publish"}
        /\ noted = me[p].observed \cup {"participant"}
    BY <1>1, <1>2, <1>3
  <2> QED BY <1>1, <1>3, <2>1, NoteRes
<1>5. /\ ~m.pending /\ m.kind # "raised" /\ NoneOpen(m, m.observed)
      /\ OpenOnly(m, IF m.terminated THEN {"participant"} ELSE {})
  <2>1. ~m.pending /\ m.kind # "raised" /\ NoneOpen(m, m.observed)
    BY <1>1, <1>3, Acting, Attempting DEF LocalRes
  <2>2. ResourceRes(m)
    BY <1>1, <1>3, Acting, Attempting
  <2> QED BY <1>3, <2>1, <2>2 DEF ResourceRes, Quiet
<1>6. Requested' = Requested
  BY <1>3 DEF Requested
<1>7. CASE SuspendAndCleanup(p)
  BY <1>1, <1>3, <1>4, <1>6, <1>7, CleanupSuspendedRes
<1>8. CASE Suspend(p, "participant_stop")
  <2>1. "participant_stop" \in Removing
    BY DEF Removing
  <2> QED BY <1>1, <1>3, <1>4, <1>5, <1>6, <1>8, <2>1, SuspendRes
<1>9. ASSUME seen = "own",
             Become(p, [m EXCEPT !.pc = "participant_stop", !.observed = noted])
      PROVE  RInv'
  <2>1. PICK l : l = [m EXCEPT !.pc = "participant_stop", !.observed = noted]
    OBVIOUS
  <2>2. Become(p, l) /\ l \in Locals
    BY <1>9, <2>1, BecomeType
  <2>3. /\ l.pc = "participant_stop" /\ l.tok = m.tok /\ l.dmn = m.dmn
        /\ l.observed = noted /\ l.made = m.made /\ l.kind = m.kind
        /\ l.pending = m.pending /\ l.mode = m.mode /\ l.confirm = m.confirm
    BY <2>1 DEF Locals
  <2>4. OpenOnly(m, {})
    BY <1>4, <1>5, <1>9 DEF OpenOnly
  <2>5. /\ l.pc \in Later /\ l.pc \in Removing
        /\ l.pc \notin Looking \cup Cleaning \cup Finishing
    BY <2>3 DEF Later, Looking, Cleaning, Finishing, Removing
  <2> QED BY <1>1, <1>3, <1>4, <1>5, <1>6, <1>9, <2>2, <2>3, <2>4, <2>5, OnwardRes
<1>10. ASSUME seen = "absent", journal' = journal,
              Become(p, EnterCleanup([m EXCEPT !.kind = "infrastructure",
                                               !.pending = m.terminated]))
       PROVE  RInv'
  <2>1. PICK n : n = [m EXCEPT !.kind = "infrastructure", !.pending = m.terminated]
    OBVIOUS
  <2>2. PICK l : l = EnterCleanup(n)
    OBVIOUS
  <2>3. Become(p, l) /\ l \in Locals
    BY <1>10, <2>1, <2>2, BecomeType
  <2>4. /\ l.pc = "cleanup_identity" /\ l.role = "helper" /\ l.tok = m.tok
        /\ l.dmn = m.dmn /\ l.observed = m.observed /\ l.made = m.made
        /\ l.mode = m.mode /\ l.confirm = m.confirm /\ l.ctx = m.ctx
        /\ l.pending = m.terminated
    BY <2>1, <2>2 DEF Locals, EnterCleanup
  <2>5. Quiet(l) => OpenOnly(m, {})
    BY <1>5, <2>4 DEF Quiet
  <2>6. Quiet(l) /\ Reaches(l)' => HereOnly(l, Left(l))'
    <3>1. Left(l) = {"helper", "volume"}
      BY <2>4 DEF Left, Finishing
    <3>2. Quiet(l) => NoneOpen(m, {"participant"})
      BY <2>5 DEF NoneOpen, OpenOnly
    <3>3. Reaches(l)' => Reaches(m)
      BY <1>3, <2>4 DEF Reaches
    <3>4. Name(p, "participant") \notin present
      BY <1>10 DEF Label
    <3>5. Quiet(l) /\ Reaches(l)' => HereOnly(m, Roles \ {"participant"})
      BY <1>1, <1>3, <3>2, <3>3, <3>4, AbsentHere
    <3> QED BY <1>6, <2>4, <3>1, <3>5 DEF HereOnly, Roles
  <2>7. /\ l.pc \in Later /\ l.pc \in Cleaning
        /\ l.pc \notin Looking \cup Removing \cup {"best_effort"}
    BY <2>4 DEF Later, Looking, Cleaning, Removing
  <2> QED BY <1>1, <1>3, <1>4, <1>5, <1>6, <2>3, <2>4, <2>5, <2>6, <2>7, OnwardRes
<1> QED
  BY <1>1, <1>2, <1>7, <1>8, <1>9, <1>10
     DEF InspectParticipant, AbsentParticipantPending

\* The participant was seen: it has no open request.
LEMMA StopParticipantRes ==
    ASSUME RInv, IInv', NEW p \in Procs, StopParticipant(p)
    PROVE  RInv'
<1>1. PICK m \in Locals : m = me[p]
  BY TypeSplit DEF RInv, IInv
<1>2. /\ m.pc = "participant_stop" /\ m.pc \in Removing
      /\ m.pc \in Working \ {"write_intent", "finish", "publish"}
      /\ UNCHANGED resourceVars
  BY <1>1 DEF StopParticipant, At, Working, Places, Entering, Reconciling, Removing,
              journalVars, daemonVars, historyVars, worldVars, resourceVars
<1>3. /\ WorldRes' /\ Requested' = Requested
      /\ UNCHANGED <<journal, inflight, home, started, restarted>>
  BY <1>2, StillWorld DEF RInv, resourceVars, Requested
<1>4. /\ m.kind # "raised" /\ NoneOpen(m, m.observed)
      /\ (Quiet(m) => OpenOnly(m, {}))
  <2>1. m.kind # "raised" /\ NoneOpen(m, m.observed) /\ ResourceRes(m)
    BY <1>1, <1>2, Acting, Attempting DEF LocalRes
  <2>2. m.pc \notin Looking
    BY <1>2 DEF Looking
  <2> QED BY <1>2, <2>1, <2>2 DEF ResourceRes
<1>5. CASE Suspend(p, "participant_remove")
  <2>1. "participant_remove" \in Removing
    BY DEF Removing
  <2> QED BY <1>1, <1>2, <1>3, <1>4, <1>5, <2>1, SuspendRes
<1>6. ASSUME NEW k, k # "raised",
             Become(p, [m EXCEPT !.pc = "participant_remove", !.kind = k])
      PROVE  RInv'
  <2>1. PICK l : l = [m EXCEPT !.pc = "participant_remove", !.kind = k]
    OBVIOUS
  <2>2. Become(p, l) /\ l \in Locals
    BY <1>6, <2>1, BecomeType
  <2>3. /\ l.pc = "participant_remove" /\ l.tok = m.tok /\ l.dmn = m.dmn
        /\ l.observed = m.observed /\ l.made = m.made /\ l.kind = k
        /\ l.pending = m.pending /\ l.mode = m.mode /\ l.confirm = m.confirm
    BY <2>1 DEF Locals
  <2>4. Quiet(l) => OpenOnly(m, {})
    BY <1>4, <2>3 DEF Quiet
  <2>5. /\ l.pc \in Later /\ l.pc \in Removing
        /\ l.pc \notin Looking \cup Cleaning \cup Finishing
    BY <2>3 DEF Later, Looking, Cleaning, Finishing, Removing
  <2> QED BY <1>1, <1>2, <1>3, <1>4, <1>6, <2>2, <2>3, <2>4, <2>5, OnwardRes
<1>7. "execution" # "raised" /\ "infrastructure" # "raised"
  OBVIOUS
<1> QED BY <1>1, <1>4, <1>5, <1>6, <1>7 DEF StopParticipant

\* The participant goes, or cleanup is pending.
LEMMA RemoveParticipantRes ==
    ASSUME RInv, IInv', NEW p \in Procs, RemoveParticipant(p)
    PROVE  RInv'
<1>1. PICK m \in Locals : m = me[p]
  BY TypeSplit DEF RInv, IInv
<1>2. PICK x : x = Name(p, "participant")
  OBVIOUS
<1>3. /\ m.pc = "participant_remove" /\ m.pc \in Removing
      /\ m.pc \in Working \ {"write_intent", "finish", "publish"}
      /\ UNCHANGED <<journal, home, started, restarted, endpoint, inflight>>
      /\ present' \in {present, present \ {x}}
      /\ "participant" \in Roles
  BY <1>1, <1>2
     DEF RemoveParticipant, At, Working, Places, Entering, Reconciling, Removing,
         journalVars, historyVars, worldVars, Roles
<1>4. WorldRes' /\ Requested' \subseteq Requested
  BY <1>3, ShrunkWorld DEF RInv, WorldRes, Requested
<1>5. /\ m.kind # "raised" /\ NoneOpen(m, m.observed)
      /\ (Quiet(m) => OpenOnly(m, {}))
  <2>1. m.kind # "raised" /\ NoneOpen(m, m.observed) /\ ResourceRes(m)
    BY <1>1, <1>3, Acting, Attempting DEF LocalRes
  <2>2. m.pc \notin Looking
    BY <1>3 DEF Looking
  <2> QED BY <1>3, <2>1, <2>2 DEF ResourceRes
<1>6. CASE SuspendAndCleanup(p)
  BY <1>1, <1>3, <1>4, <1>6, CleanupSuspendedRes
<1>7. ASSUME x \in present, present' = present \ {x}, Become(p, EnterCleanup(m))
      PROVE  RInv'
  <2>1. PICK l : l = EnterCleanup(m)
    OBVIOUS
  <2>2. Become(p, l) /\ l \in Locals
    BY <1>7, <2>1, BecomeType
  <2>3. /\ l.pc = "cleanup_identity" /\ l.role = "helper" /\ l.tok = m.tok
        /\ l.dmn = m.dmn /\ l.observed = m.observed /\ l.made = m.made
        /\ l.mode = m.mode /\ l.confirm = m.confirm
        /\ l.kind = m.kind /\ l.pending = m.pending
    BY <2>1 DEF Locals, EnterCleanup
  <2>4. Quiet(l) => OpenOnly(m, {})
    BY <1>5, <2>3 DEF Quiet
  <2>5. Quiet(l) => HereOnly(l, Left(l))'
    <3> SUFFICES ASSUME Quiet(l), NEW y \in Requested', y[2] = m.tok
                 PROVE  y[3] \in {"helper", "volume"}
      BY <2>3 DEF HereOnly, Left, Finishing
    <3>1. x[2] = m.tok /\ x[3] = "participant"
      BY <1>1, <1>2, <1>3, NameParts
    <3>2. y \in Requested /\ y \notin inflight /\ y # x
      BY <1>3, <1>4, <1>7, <2>4 DEF OpenOnly, Requested
    <3>3. y[3] # "participant"
      BY <1>7, <3>1, <3>2 DEF RInv, WorldRes, Requested
    <3>4. y \in Resources
      BY <3>2, TypeSplit, ResourceParts DEF RInv, IInv
    <3> QED BY <3>3, <3>4, ResourceParts DEF Roles
  <2>6. /\ l.pc \in Later /\ l.pc \in Cleaning
        /\ l.pc \notin Looking \cup Removing \cup {"best_effort"}
    BY <2>3 DEF Later, Looking, Cleaning, Removing
  <2> QED BY <1>1, <1>3, <1>4, <1>5, <2>2, <2>3, <2>4, <2>5, <2>6, OnwardRes
<1> QED BY <1>1, <1>2, <1>6, <1>7 DEF RemoveParticipant

-----------------------------------------------------------------------------
(* Managed cleanup.                                                        *)

\* What is known while the helper and the volume are removed.
LEMMA CleaningFacts ==
    ASSUME RInv, NEW p \in Procs, me[p].pc \in Cleaning
    PROVE  /\ me[p].pc \in Working \ {"write_intent", "finish", "publish"}
           /\ NoneOpen(me[p], me[p].observed) /\ journal.tok = me[p].tok
           /\ OwnOnly(me[p], me[p].made \cup {"participant"})
           /\ me[p].made \subseteq {"volume", "helper"}
           /\ me[p].role \in {"helper", "volume"} /\ me[p].role \in Roles
           /\ Quiet(me[p]) => OpenOnly(me[p], {})
           /\ Quiet(me[p]) /\ Reaches(me[p]) => HereOnly(me[p], Left(me[p]))
<1>1. /\ me[p].pc \in Working \ {"write_intent", "finish", "publish"}
      /\ me[p].pc \notin Looking
  BY DEF Cleaning, Working, Places, Entering, Reconciling, Looking
<1>2. LocalRes(me[p]) /\ ResourceRes(me[p])
  BY <1>1, Attempting, Acting
<1> QED BY <1>1, <1>2, Attempting DEF LocalRes, ResourceRes, Roles

\* The identity check before the managed cleanup.
LEMMA CleanupIdentityRes ==
    ASSUME RInv, IInv', NEW p \in Procs, CleanupIdentity(p)
    PROVE  RInv'
<1>1. PICK m \in Locals : m = me[p]
  BY TypeSplit DEF RInv, IInv
<1>2. /\ m.pc = "cleanup_identity" /\ m.pc \in Cleaning
      /\ UNCHANGED resourceVars /\ endpoint' = endpoint
  BY <1>1 DEF CleanupIdentity, At, Cleaning, journalVars, daemonVars, historyVars,
              worldVars, resourceVars
<1>3. /\ WorldRes' /\ Requested' = Requested
      /\ UNCHANGED <<journal, inflight, home, started, restarted>>
  BY <1>2, StillWorld DEF RInv, resourceVars, Requested
<1>4. /\ m.pc \in Working \ {"write_intent", "finish", "publish"}
      /\ NoneOpen(m, m.observed) /\ m.role \in {"helper", "volume"}
      /\ (Quiet(m) => OpenOnly(m, {}))
      /\ (Quiet(m) /\ Reaches(m) => HereOnly(m, Left(m)))
  BY <1>1, <1>2, CleaningFacts
<1>5. CASE Suspend(p, "finish")
  <2>1. "finish" \in Removing \cup {"finish"} /\ "finish" \notin Removing
    BY DEF Removing
  <2> QED BY <1>1, <1>3, <1>4, <1>5, <2>1, SuspendRes
<1>6. CASE Goto(p, "cleanup_inspect")
  <2>1. PICK l : l = [m EXCEPT !.pc = "cleanup_inspect"]
    OBVIOUS
  <2>2. Become(p, l)
    BY <1>1, <1>6, <2>1 DEF Goto
  <2>3. l \in Locals
    BY <2>2, BecomeType
  <2>4. /\ l.pc = "cleanup_inspect" /\ l.tok = m.tok /\ l.dmn = m.dmn
        /\ l.observed = m.observed /\ l.made = m.made /\ l.kind = m.kind
        /\ l.pending = m.pending /\ l.mode = m.mode /\ l.confirm = m.confirm
        /\ l.role = m.role /\ l.ctx = m.ctx
    BY <2>1 DEF Locals
  <2>5. Quiet(l) <=> Quiet(m)
    BY <2>4 DEF Quiet
  <2>6. Quiet(l) /\ Reaches(l)' => HereOnly(l, Left(l))'
    <3>1. Left(l) = Left(m) /\ (Reaches(l)' <=> Reaches(m))
      BY <1>2, <2>4 DEF Left, Finishing, Reaches
    <3> QED BY <1>3, <1>4, <2>4, <2>5, <3>1 DEF HereOnly
  <2>7. /\ l.pc \in Later /\ l.pc \in Cleaning
        /\ l.pc \notin Looking \cup Removing \cup {"best_effort"}
    BY <2>4 DEF Later, Looking, Cleaning, Removing
  <2> QED BY <1>1, <1>3, <1>4, <2>2, <2>3, <2>4, <2>5, <2>6, <2>7, OnwardRes
<1> QED BY <1>5, <1>6 DEF CleanupIdentity

\* Going on to the next resource, or to the end of the cleanup.
LEMMA NextCleanupRes ==
    ASSUME RInv, IInv', NEW p \in Procs,
           me[p].pc \in {"cleanup_inspect", "cleanup_remove"},
           NEW n \in Locals, Become(p, NextCleanup(n)),
           n.tok = me[p].tok, n.dmn = me[p].dmn, n.ctx = me[p].ctx,
           n.mode = me[p].mode, n.confirm = me[p].confirm,
           n.made = me[p].made, n.observed = me[p].observed,
           n.role = me[p].role, Quiet(n) => Quiet(me[p]),
           WorldRes', UNCHANGED <<journal, home, started, restarted, endpoint, inflight>>,
           Requested' \subseteq Requested,
           Quiet(n) /\ Reaches(n) => HereOnly(n, Roles \ {n.role})'
    PROVE  RInv'
<1>1. PICK m : m = me[p]
  OBVIOUS
<1>2. PICK l : l = NextCleanup(n)
  OBVIOUS
<1>3. Become(p, l) /\ l \in Locals
  BY <1>2, BecomeType
<1>4. /\ m.pc \in Cleaning
      /\ m.pc \in Working \ {"write_intent", "finish", "publish"}
      /\ NoneOpen(m, m.observed) /\ m.role \in {"helper", "volume"}
      /\ (Quiet(m) => OpenOnly(m, {}))
      /\ (Quiet(m) /\ Reaches(m) => HereOnly(m, Left(m)))
  <2>1. m.pc \in Cleaning
    BY <1>1 DEF Cleaning
  <2> QED BY <1>1, <2>1, CleaningFacts
<1>5. /\ l.pc \in {"cleanup_inspect", "finish"}
      /\ l.pc = "cleanup_inspect" => l.role = "volume"
      /\ Left(m) \subseteq Left(l) \cup {m.role}
      /\ l.tok = m.tok /\ l.dmn = m.dmn /\ l.ctx = m.ctx /\ l.mode = m.mode
      /\ l.confirm = m.confirm /\ l.made = m.made /\ l.observed = m.observed
      /\ l.kind = n.kind /\ l.pending = n.pending
  <2>1. /\ l.role = After(m.role)
        /\ l.pc = IF m.role = "volume" THEN "finish" ELSE "cleanup_inspect"
        /\ l.tok = m.tok /\ l.dmn = m.dmn /\ l.ctx = m.ctx /\ l.mode = m.mode
        /\ l.confirm = m.confirm /\ l.made = m.made /\ l.observed = m.observed
        /\ l.kind = n.kind /\ l.pending = n.pending
    BY <1>1, <1>2 DEF NextCleanup, Locals
  <2>2. Left(m) \subseteq Left(l) \cup {m.role}
    BY <1>1, <1>4, <2>1 DEF Left, Finishing, After
  <2> QED BY <1>4, <2>1, <2>2 DEF After
<1>6. Quiet(l) => Quiet(m) /\ Quiet(n)
  BY <1>1, <1>5 DEF Quiet
<1>7. Quiet(l) /\ Reaches(l)' => HereOnly(l, Left(l))'
  <2> SUFFICES ASSUME Quiet(l), Reaches(l)', NEW x \in Requested',
                      x[2] = l.tok, x[1] = l.dmn
               PROVE  x[3] \in Left(l)
    BY DEF HereOnly
  <2>1. Reaches(m) /\ Reaches(n)
    BY <1>1, <1>5 DEF Reaches
  <2>2. x[3] \in Left(m)
    BY <1>4, <1>5, <1>6, <2>1 DEF HereOnly
  <2>3. x[3] # m.role
    BY <1>1, <1>5, <1>6, <2>1 DEF HereOnly
  <2> QED BY <1>5, <2>2, <2>3
<1>8. /\ l.pc \in Later /\ l.pc \in Cleaning \cup {"finish"}
      /\ l.pc \in Cleaning => l.role = "volume"
      /\ l.pc \notin Looking \cup Removing \cup {"best_effort"}
  BY <1>5 DEF Later, Looking, Cleaning, Removing, Finishing
<1> QED BY <1>1, <1>3, <1>4, <1>5, <1>6, <1>7, <1>8, OnwardRes

\* The label check before a removal of the managed cleanup.
LEMMA CleanupInspectRes ==
    ASSUME RInv, IInv', NEW p \in Procs, CleanupInspect(p)
    PROVE  RInv'
<1>1. PICK m \in Locals : m = me[p]
  BY TypeSplit DEF RInv, IInv
<1>2. /\ m.pc = "cleanup_inspect" /\ m.pc \in Cleaning
      /\ UNCHANGED resourceVars /\ endpoint' = endpoint
  BY <1>1 DEF CleanupInspect, At, Cleaning, journalVars, daemonVars, historyVars,
              worldVars, resourceVars
<1>3. /\ WorldRes' /\ Requested' = Requested
      /\ UNCHANGED <<journal, inflight, home, started, restarted>>
  BY <1>2, StillWorld DEF RInv, resourceVars, Requested
<1>4. /\ m.pc \in Working \ {"write_intent", "finish", "publish"}
      /\ NoneOpen(m, m.observed) /\ m.role \in {"helper", "volume"}
      /\ OwnOnly(m, m.made \cup {"participant"}) /\ m.role \in Roles
      /\ (Quiet(m) => OpenOnly(m, {}))
      /\ (Quiet(m) /\ Reaches(m) => HereOnly(m, Left(m)))
  BY <1>1, <1>2, CleaningFacts
<1>5. ASSUME Become(p, NextCleanup(m)),
             m.role \notin m.made \/ Label(Name(p, m.role)) = "absent"
      PROVE  RInv'
  <2>1. Quiet(m) /\ Reaches(m) => HereOnly(m, Roles \ {m.role})
    <3>1. CASE m.role \notin m.made
      <4>1. \A x \in Requested : x[3] \in Roles
        BY ResourceParts, TypeSplit DEF RInv, IInv
      <4> QED BY <1>4, <3>1, <4>1 DEF HereOnly, OwnOnly
    <3>2. CASE Label(Name(p, m.role)) = "absent"
      <4>1. Name(p, m.role) \notin present
        BY <3>2 DEF Label
      <4>2. Quiet(m) => NoneOpen(m, {m.role})
        BY <1>4 DEF NoneOpen, OpenOnly
      <4> QED BY <1>1, <1>4, <4>1, <4>2, AbsentHere
    <3> QED BY <1>5, <3>1, <3>2
  <2>2. Quiet(m) /\ Reaches(m) => HereOnly(m, Roles \ {m.role})'
    BY <1>3, <2>1 DEF HereOnly
  <2> QED BY <1>1, <1>2, <1>3, <1>5, <2>2, NextCleanupRes
<1>6. ASSUME Become(p, NextCleanupSuspended(m)) PROVE RInv'
  <2>1. PICK n : n = [m EXCEPT !.kind = AsInfrastructure(@), !.pending = TRUE]
    OBVIOUS
  <2>2. Become(p, NextCleanup(n))
    BY <1>6, <2>1 DEF NextCleanupSuspended
  <2>3. n \in Locals
    BY <2>1, AsInfrastructureKind DEF Locals
  <2>4. /\ n.tok = m.tok /\ n.dmn = m.dmn /\ n.ctx = m.ctx
        /\ n.mode = m.mode /\ n.confirm = m.confirm /\ n.role = m.role
        /\ n.made = m.made /\ n.observed = m.observed /\ n.pending = TRUE
    BY <2>1 DEF Locals
  <2>5. ~Quiet(n)
    BY <2>4 DEF Quiet
  <2> QED BY <1>1, <1>2, <1>3, <2>2, <2>3, <2>4, <2>5, NextCleanupRes
<1>7. CASE Goto(p, "cleanup_remove")
  <2>1. PICK l : l = [m EXCEPT !.pc = "cleanup_remove"]
    OBVIOUS
  <2>2. Become(p, l)
    BY <1>1, <1>7, <2>1 DEF Goto
  <2>3. l \in Locals
    BY <2>2, BecomeType
  <2>4. /\ l.pc = "cleanup_remove" /\ l.tok = m.tok /\ l.dmn = m.dmn
        /\ l.observed = m.observed /\ l.made = m.made /\ l.kind = m.kind
        /\ l.pending = m.pending /\ l.mode = m.mode /\ l.confirm = m.confirm
        /\ l.role = m.role /\ l.ctx = m.ctx
    BY <2>1 DEF Locals
  <2>5. Quiet(l) <=> Quiet(m)
    BY <2>4 DEF Quiet
  <2>6. Quiet(l) /\ Reaches(l)' => HereOnly(l, Left(l))'
    <3>1. Left(l) = Left(m) /\ (Reaches(l)' <=> Reaches(m))
      BY <1>2, <2>4 DEF Left, Finishing, Reaches
    <3> QED BY <1>3, <1>4, <2>4, <2>5, <3>1 DEF HereOnly
  <2>7. /\ l.pc \in Later /\ l.pc \in Cleaning
        /\ l.pc \notin Looking \cup Removing \cup {"best_effort"}
    BY <2>4 DEF Later, Looking, Cleaning, Removing
  <2> QED BY <1>1, <1>3, <1>4, <2>2, <2>3, <2>4, <2>5, <2>6, <2>7, OnwardRes
<1> QED BY <1>1, <1>5, <1>6, <1>7 DEF CleanupInspect

\* The removal, which leaves one role less.
LEMMA CleanupRemoveRes ==
    ASSUME RInv, IInv', NEW p \in Procs, CleanupRemove(p)
    PROVE  RInv'
<1>1. PICK m \in Locals : m = me[p]
  BY TypeSplit DEF RInv, IInv
<1>2. PICK x : x = Name(p, m.role)
  OBVIOUS
<1>3. /\ m.pc = "cleanup_remove" /\ m.pc \in Cleaning
      /\ UNCHANGED <<journal, home, started>>
      /\ Removed(x) \/ UNCHANGED <<daemonVars, worldVars>>
  BY <1>1, <1>2 DEF CleanupRemove, At, Cleaning, journalVars, historyVars
<1>4. /\ WorldRes' /\ UNCHANGED <<inflight, endpoint, restarted>>
      /\ present' \subseteq present /\ Requested' \subseteq Requested
  BY <1>3, RemovedShrinks DEF RInv, Requested
<1>5. /\ m.pc \in Working \ {"write_intent", "finish", "publish"}
      /\ m.role \in Roles /\ (Quiet(m) => OpenOnly(m, {}))
  BY <1>1, <1>3, CleaningFacts
<1>6. ASSUME Removed(x), Become(p, NextCleanup(m)) PROVE RInv'
  <2>1. Quiet(m) /\ Reaches(m) => HereOnly(m, Roles \ {m.role})'
    <3> SUFFICES ASSUME Quiet(m), Reaches(m), NEW y \in Requested', y[2] = m.tok,
                        y[1] = m.dmn
                 PROVE  y[3] \in Roles \ {m.role}
      BY DEF HereOnly
    <3>1. x \in Resources /\ x[1] = m.dmn /\ x[2] = m.tok /\ x[3] = m.role
      BY <1>1, <1>2, <1>5, NameParts
    <3>2. y \in Requested /\ y \notin inflight /\ y # x
      BY <1>4, <1>5, <1>6 DEF OpenOnly, Requested, Removed
    <3>3. y \in Resources
      BY <3>2, TypeSplit, ResourceParts DEF RInv, IInv
    <3> QED BY <3>1, <3>2, <3>3, ResourceParts
  <2> QED BY <1>1, <1>3, <1>4, <1>6, <2>1, NextCleanupRes
<1>7. ASSUME Become(p, NextCleanupSuspended(m)) PROVE RInv'
  <2>1. PICK n : n = [m EXCEPT !.kind = AsInfrastructure(@), !.pending = TRUE]
    OBVIOUS
  <2>2. Become(p, NextCleanup(n))
    BY <1>7, <2>1 DEF NextCleanupSuspended
  <2>3. n \in Locals
    BY <2>1, AsInfrastructureKind DEF Locals
  <2>4. /\ n.tok = m.tok /\ n.dmn = m.dmn /\ n.ctx = m.ctx
        /\ n.mode = m.mode /\ n.confirm = m.confirm /\ n.role = m.role
        /\ n.made = m.made /\ n.observed = m.observed /\ n.pending = TRUE
    BY <2>1 DEF Locals
  <2>5. ~Quiet(n)
    BY <2>4 DEF Quiet
  <2> QED BY <1>1, <1>3, <1>4, <2>2, <2>3, <2>4, <2>5, NextCleanupRes
<1> QED BY <1>1, <1>2, <1>6, <1>7 DEF CleanupRemove

-----------------------------------------------------------------------------
(* The end of an attempt.                                                  *)

\* What a quiet attempt leaves is nothing, and the journal says so.
LEMMA FinishRes ==
    ASSUME RInv, IInv', NEW p \in Procs, Finish(p)
    PROVE  RInv'
<1>1. PICK m \in Locals : m = me[p]
  BY TypeSplit DEF RInv, IInv
<1>2. PICK settled : settled = [journal EXCEPT !.observed = Roles]
  OBVIOUS
<1>3. /\ m.pc = "finish" /\ m.pc \in Finishing /\ m.pc \in Working
      /\ m.pc \notin Looking /\ m.pc # "idle"
      /\ UNCHANGED <<present, inflight, home, started, restarted, endpoint>>
  BY <1>1 DEF Finish, At, Working, Places, Entering, Reconciling, Finishing, Looking,
              daemonVars, historyVars, worldVars
<1>4. /\ m.tok \in Attempts /\ m.tok <= started /\ m.dmn = home[m.tok]
      /\ OwnOnly(m, m.made \cup {"participant"})
      /\ m.made \subseteq {"volume", "helper"}
  BY <1>1, <1>3, Attempting
<1>5. /\ WorldRes /\ WorldOK /\ JournalRes(m) /\ ResourceRes(m)
  BY <1>1, <1>3, Acting
<1>6. /\ journal.tok \in {0, m.tok}
      /\ (Quiet(m) => OpenOnly(m, {}))
      /\ (Quiet(m) /\ Reaches(m) => HereOnly(m, Left(m)))
  BY <1>3, <1>5 DEF JournalRes, ResourceRes
<1>7. ASSUME NEW kind, NEW pending, Return(p, kind, pending), WorldRes',
             journal'.tok = journal.tok,
             pending \/ kind = "raised" \/ journal.tok = 0
      PROVE  RInv'
  <2>1. m.tok # 0
    BY <1>4, AttemptJournalAssumption DEF Attempts
  <2>2. kind = "raised" => kind \notin {"valid", "execution", "infrastructure", "ok"}
    OBVIOUS
  <2>3. ~pending /\ kind \in {"valid", "execution", "infrastructure", "ok"}
        => m.tok # journal'.tok
    BY <1>7, <2>1, <2>2
  <2> QED BY <1>1, <1>3, <1>4, <1>7, <2>3, ReturnRes
<1>8. journal' = journal => WorldRes'
  BY <1>3, <1>5, StillWorld DEF resourceVars
<1>9. ASSUME Quiet(m), journal.tok # 0, journal' \in {journal, settled}
      PROVE  WorldRes' /\ journal'.tok = journal.tok
  <2>1. NoneOpen(journal, Roles)
    BY <1>6, <1>9 DEF NoneOpen, OpenOnly
  <2>2. WorldRes'
    BY <1>2, <1>3, <1>5, <1>9, <2>1, NotedWorld
  <2>3. settled.tok = journal.tok
    BY <1>2, <1>5, JournalTypes DEF WorldOK
  <2> QED BY <1>9, <2>2, <2>3
<1>10. ASSUME Quiet(m), journal.tok # 0, journal' = settled,
              Goto(p, "finish_recheck")
       PROVE  RInv'
  <2>1. PICK l : l = [m EXCEPT !.pc = "finish_recheck"]
    OBVIOUS
  <2>2. Become(p, l)
    BY <1>1, <1>10, <2>1 DEF Goto
  <2>3. l \in Locals
    BY <2>2, BecomeType
  <2>4. /\ l.pc = "finish_recheck" /\ l.tok = m.tok /\ l.dmn = m.dmn
        /\ l.observed = m.observed /\ l.made = m.made /\ l.kind = m.kind
        /\ l.pending = m.pending /\ l.mode = m.mode /\ l.confirm = m.confirm
        /\ l.ctx = m.ctx
    BY <2>1 DEF Locals
  <2>5. Quiet(l)
    BY <1>10, <2>4 DEF Quiet
  <2>6. /\ NoneOpen(l, l.observed)' /\ OwnOnly(l, l.made \cup {"participant"})'
        /\ OpenOnly(l, {})'
    BY <1>3, <1>4, <1>6, <1>10, <2>4 DEF NoneOpen, OwnOnly, OpenOnly, Requested
  <2>7. Reaches(l)' => HereOnly(l, Left(l))'
    <3>1. Left(l) = Left(m) /\ (Reaches(l)' <=> Reaches(m))
      BY <1>3, <2>4 DEF Left, Finishing, Reaches
    <3> QED BY <1>3, <1>6, <1>10, <2>4, <3>1 DEF HereOnly, Requested
  <2>8. /\ l.pc \in Later
        /\ l.pc \notin Looking \cup Removing \cup Cleaning \cup {"best_effort"}
    BY <2>4 DEF Later, Looking, Cleaning, Removing, Finishing
  <2>9. WorldRes' /\ journal'.tok = l.tok /\ journal'.tok = journal.tok
    BY <1>6, <1>9, <1>10, <2>4
  <2> QED BY <1>1, <1>3, <1>4, <2>2, <2>3, <2>4, <2>5, <2>6, <2>7, <2>8, <2>9,
             LaterRes
<1>11. \/ /\ journal' = journal
          /\ \E k, b : /\ b \/ k = "raised" \/ journal.tok = 0
                       /\ Return(p, k, b)
       \/ Quiet(m) /\ journal.tok # 0 /\ journal' = settled /\ Goto(p, "finish_recheck")
       \/ /\ Quiet(m) /\ journal.tok # 0 /\ journal' \in {journal, settled}
          /\ Return(p, "infrastructure", TRUE)
  <2>1. \/ /\ m.kind = "raised" \/ m.pending
           /\ journal' = journal /\ Return(p, m.kind, m.pending)
        \/ /\ journal.tok = 0
           /\ journal' = journal /\ Return(p, m.kind, FALSE)
        \/ Quiet(m) /\ journal.tok # 0 /\ journal' = settled /\ Goto(p, "finish_recheck")
        \/ /\ Quiet(m) /\ journal.tok # 0 /\ journal' \in {journal, settled}
           /\ Return(p, "infrastructure", TRUE)
    BY <1>1, <1>2 DEF Finish, Quiet, Written, WriteFailed
  <2> QED BY <2>1
<1> QED BY <1>7, <1>8, <1>9, <1>10, <1>11

\* What is known once the journal notes that nothing is left.
LEMMA FinishingFacts ==
    ASSUME RInv, NEW p \in Procs, me[p].pc \in {"finish_recheck", "finish_unlink"}
    PROVE  /\ me[p].pc \in Working \ {"write_intent", "finish", "publish"}
           /\ NoneOpen(me[p], me[p].observed) /\ OpenOnly(me[p], {})
           /\ Quiet(me[p])
           /\ me[p].dmn = journal.dmn /\ me[p].tok = journal.tok
           /\ Reaches(me[p]) \/ me[p].pc = "finish_unlink" => HereOnly(me[p], {})
<1>1. /\ me[p].pc \in Working \ {"write_intent", "finish", "publish"}
      /\ me[p].pc \notin Looking /\ me[p].pc \in Finishing
  BY DEF Working, Places, Entering, Reconciling, Looking, Finishing
<1>2. /\ LocalRes(me[p]) /\ ResourceRes(me[p]) /\ WorldRes
      /\ me[p].dmn = home[me[p].tok] /\ me[p].tok = journal.tok
      /\ NoneOpen(me[p], me[p].observed) /\ me[p].tok \in Attempts
  BY <1>1, Attempting, Acting
<1>3. Quiet(me[p])
  BY <1>2 DEF LocalRes, Quiet
<1>4. Left(me[p]) = {}
  BY <1>1 DEF Left
<1>5. me[p].dmn = journal.dmn
  BY <1>2, AttemptJournalAssumption DEF WorldRes, Attempts
<1> QED BY <1>1, <1>2, <1>3, <1>4, <1>5 DEF ResourceRes

\* The identity is read once more before the journal goes.
LEMMA FinishRecheckRes ==
    ASSUME RInv, IInv', NEW p \in Procs, FinishRecheck(p)
    PROVE  RInv'
<1>1. PICK m \in Locals : m = me[p]
  BY TypeSplit DEF RInv, IInv
<1>2. /\ m.pc = "finish_recheck" /\ m.pc # "idle"
      /\ UNCHANGED resourceVars /\ endpoint' = endpoint
  BY <1>1 DEF FinishRecheck, At, journalVars, daemonVars, historyVars, worldVars,
              resourceVars
<1>3. /\ WorldRes' /\ Requested' = Requested
      /\ UNCHANGED <<journal, inflight, home, started, restarted>>
  BY <1>2, StillWorld DEF RInv, resourceVars, Requested
<1>4. /\ m.pc \in Working \ {"write_intent", "finish", "publish"}
      /\ NoneOpen(m, m.observed) /\ OpenOnly(m, {}) /\ Quiet(m)
      /\ Reaches(m) => HereOnly(m, {})
  BY <1>1, <1>2, FinishingFacts
<1>5. CASE Return(p, "infrastructure", TRUE)
  BY <1>1, <1>2, <1>3, <1>5, ReturnRes
<1>6. ASSUME SameDaemon(p), Goto(p, "finish_unlink") PROVE RInv'
  <2>1. PICK l : l = [m EXCEPT !.pc = "finish_unlink"]
    OBVIOUS
  <2>2. Become(p, l)
    BY <1>1, <1>6, <2>1 DEF Goto
  <2>3. l \in Locals
    BY <2>2, BecomeType
  <2>4. /\ l.pc = "finish_unlink" /\ l.tok = m.tok /\ l.dmn = m.dmn
        /\ l.observed = m.observed /\ l.made = m.made /\ l.kind = m.kind
        /\ l.pending = m.pending /\ l.mode = m.mode /\ l.confirm = m.confirm
    BY <2>1 DEF Locals
  <2>5. Quiet(l)
    BY <1>4, <2>4 DEF Quiet
  <2>6. HereOnly(l, Left(l))'
    <3>1. Reaches(m)
      BY <1>1, <1>6 DEF SameDaemon, Endpoint, Reaches
    <3> QED BY <1>3, <1>4, <2>4, <3>1 DEF HereOnly
  <2>7. /\ l.pc \in Later
        /\ l.pc \notin Looking \cup Removing \cup Cleaning \cup {"best_effort"}
    BY <2>4 DEF Later, Looking, Cleaning, Removing, Finishing
  <2> QED BY <1>1, <1>3, <1>4, <2>2, <2>3, <2>4, <2>5, <2>6, <2>7, OnwardRes
<1> QED BY <1>5, <1>6 DEF FinishRecheck

\* The journal goes, and with it the last trace of the attempt.
LEMMA RemoveResourceJournalRes ==
    ASSUME RInv, IInv', NEW p \in Procs, RemoveResourceJournal(p)
    PROVE  RInv'
<1>1. PICK m \in Locals : m = me[p]
  BY TypeSplit DEF RInv, IInv
<1>2. /\ m.pc = "finish_unlink" /\ m.pc # "idle"
      /\ UNCHANGED <<present, inflight, home, started, restarted, endpoint>>
      /\ journal' \in {journal, NoJournal}
  BY <1>1 DEF RemoveResourceJournal, At, daemonVars, historyVars, worldVars, Unlinked,
              UnlinkFailed
<1>3. /\ m.pc \in Working /\ HereOnly(m, {}) /\ m.tok = journal.tok
      /\ m.dmn = journal.dmn /\ NoneOpen(m, m.observed) /\ OpenOnly(m, {})
  BY <1>1, <1>2, FinishingFacts
<1>4. /\ m.tok \in Attempts /\ m.tok <= started /\ m.dmn = home[m.tok] /\ ~restarted
      /\ OwnOnly(m, m.made \cup {"participant"}) /\ started \in Nat
      /\ m.made \subseteq {"volume", "helper"}
      /\ (m.mode = "attempt" => ~m.confirm) /\ (m.confirm => restarted)
  BY <1>1, <1>3, Attempting
<1>5. WorldRes /\ WorldOK
  BY <1>1, <1>2, Acting
<1>6. WorldRes'
  <2>1. HereOnly(journal, {})
    BY <1>3 DEF HereOnly
  <2> QED BY <1>2, <1>5, <2>1, ClosedWorld
<1>7. journal'.tok \in {0, journal.tok} /\ m.tok # 0
      /\ (Unlinked => journal'.tok = 0)
  <2>1. m.tok # 0
    BY <1>4, AttemptJournalAssumption DEF Attempts
  <2> QED BY <1>2, <2>1, JournalTypes DEF Unlinked
<1>8. CASE Unlinked /\ Return(p, m.kind, FALSE)
  BY <1>1, <1>2, <1>4, <1>6, <1>7, <1>8, ReturnRes
<1>9. CASE Return(p, "infrastructure", TRUE)
  BY <1>1, <1>2, <1>4, <1>6, <1>7, <1>9, ReturnRes
<1>10. CASE Unlinked /\ Goto(p, "publish")
  <2>1. PICK l : l = [m EXCEPT !.pc = "publish"]
    OBVIOUS
  <2>2. Become(p, l)
    BY <1>1, <1>10, <2>1 DEF Goto
  <2>3. l \in Locals
    BY <2>2, BecomeType
  <2>4. /\ l.pc = "publish" /\ l.tok = m.tok /\ l.dmn = m.dmn
        /\ l.observed = m.observed /\ l.made = m.made /\ l.kind = m.kind
        /\ l.pending = m.pending /\ l.mode = m.mode /\ l.confirm = m.confirm
    BY <2>1 DEF Locals
  <2>5. LocalRes(l)'
    BY <1>4, <2>4 DEF LocalRes, Reconciling, Entering, Creating, Looking, Removing,
                      Cleaning
  <2>6. JournalRes(l)'
    BY <1>2, <1>4, <2>4 DEF JournalRes, Reconciling, Creating
  <2>7. ResourceRes(l)'
    <3>1. /\ NoneOpen(l, l.observed)' /\ OwnOnly(l, l.made \cup {"participant"})'
          /\ OpenOnly(l, {})'
      BY <1>2, <1>3, <1>4, <2>4 DEF NoneOpen, OwnOnly, OpenOnly, Requested
    <3> QED BY <2>4, <3>1 DEF ResourceRes, Reconciling, Creating, Cleaning, Finishing,
                              Looking
  <2> QED BY <1>1, <1>2, <1>4, <1>6, <1>7, <2>2, <2>3, <2>4, <2>5, <2>6, <2>7,
             BecomeRes DEF PlaceRes
<1> QED BY <1>1, <1>8, <1>9, <1>10 DEF RemoveResourceJournal

\* The result is published: the attempt is settled.
LEMMA PublishSubmissionRes ==
    ASSUME RInv, IInv', NEW p \in Procs, PublishSubmission(p)
    PROVE  RInv'
<1>1. PICK m \in Locals : m = me[p]
  BY TypeSplit DEF RInv, IInv
<1>2. /\ m.pc = "publish" /\ m.pc # "idle" /\ m.pc \in Working
      /\ UNCHANGED resourceVars
  BY <1>1 DEF PublishSubmission, At, daemonVars, historyVars, worldVars, resourceVars,
              Working, Places, Entering, Reconciling
<1>3. WorldRes' /\ UNCHANGED <<journal, started>>
  BY <1>2, StillWorld DEF RInv, resourceVars
<1>4. journal.tok = 0 /\ m.tok <= started
  BY <1>1, <1>2, Acting, Attempting DEF ProcInv
<1>5. PICK kind : Return(p, kind, FALSE)
  BY DEF PublishSubmission
<1> QED BY <1>1, <1>2, <1>3, <1>4, <1>5, ReturnRes

-----------------------------------------------------------------------------
(* Invocations, crashes, and what happens around the processes.            *)

\* A new invocation finds no journal settled results name.
LEMMA InvokeRes ==
    ASSUME RInv, IInv', NEW p \in Procs, NEW mode \in {"attempt", "cleanup"},
           NEW c \in Contexts, NEW confirm \in BOOLEAN, Invoke(p, mode, c, confirm)
    PROVE  RInv'
<1>1. PICK l : l = [Idle EXCEPT !.pc = "load", !.mode = mode, !.ctx = c,
                                !.confirm = confirm]
  OBVIOUS
<1>2. /\ l.pc = "load" /\ l.mode = mode /\ l.confirm = confirm /\ l.tok = 0
      /\ l.made = {} /\ l.kind = "none" /\ l.pending = FALSE
  BY <1>1 DEF Idle
<1>3. /\ mode = "attempt" => ~confirm
      /\ confirm => restarted
      /\ me' = [me EXCEPT ![p] = l] /\ result' = [result EXCEPT ![p] = NoResult]
      /\ UNCHANGED resourceVars /\ lock = NoProc
  BY <1>1 DEF Invoke, journalVars, daemonVars, worldVars, historyVars, resourceVars
<1>4. WorldRes' /\ UNCHANGED <<journal, started, restarted>>
  BY <1>3, StillWorld DEF RInv, resourceVars
<1>5. /\ me'[p] = l /\ result'[p] = NoResult
      /\ \A q \in Procs \ {p} : /\ me'[q] = me[q] /\ me[q].pc = "idle"
                                /\ result'[q] = result[q]
  BY <1>3, TypeSplit, AttemptJournalAssumption DEF RInv, IInv, LockInv
<1>6. PlaceRes(l)'
  <2>1. LocalRes(l)'
    BY <1>2, <1>3 DEF LocalRes, Reconciling, Entering, Creating, Looking, Removing,
                      Cleaning, Working
  <2>2. JournalRes(l)' /\ ResourceRes(l)'
    BY <1>2, <1>3, <1>4 DEF JournalRes, ResourceRes, Reconciling, Entering, Creating,
                            Working, Cleaning, Finishing
  <2> QED BY <2>1, <2>2 DEF PlaceRes
<1>7. \A q \in Procs : me'[q].pc # "idle" => PlaceRes(me[q])'
  BY <1>5, <1>6
<1>8. ResultRes'
  BY <1>2, <1>4, <1>5 DEF RInv, ResultRes, Settled, NoResult, At
<1> QED BY <1>4, <1>7, <1>8 DEF RInv

\* Who does not get the lock settles nothing.
LEMMA ContendRes ==
    ASSUME RInv, IInv', NEW p \in Procs, Contend(p)
    PROVE  RInv'
<1>1. /\ UNCHANGED resourceVars /\ UNCHANGED <<me, endpoint>>
      /\ result'[p].tok = 0 /\ \A q \in Procs \ {p} : result'[q] = result[q]
  BY TypeSplit DEF Contend, RInv, IInv, journalVars, daemonVars, worldVars,
                   historyVars, resourceVars
<1>2. WorldRes' /\ UNCHANGED <<journal, started>>
  BY <1>1, StillWorld DEF RInv, resourceVars
<1>3. ResultRes'
  BY <1>1, <1>2 DEF RInv, ResultRes, Settled, At
<1>4. ASSUME NEW q \in Procs, me'[q].pc # "idle" PROVE PlaceRes(me[q])'
  <2>1. PlaceRes(me[q])
    BY <1>1, <1>4 DEF RInv
  <2> QED BY <1>1, <2>1
          DEF PlaceRes, LocalRes, JournalRes, ResourceRes, NoneOpen, OwnOnly,
              HereOnly, OpenOnly, Requested, Reaches, resourceVars
<1> QED BY <1>2, <1>3, <1>4 DEF RInv

\* A crash leaves the journal to cover what was requested.
LEMMA CrashRes ==
    ASSUME RInv, IInv', NEW p \in Procs, Crash(p)
    PROVE  RInv'
<1>1. /\ UNCHANGED resourceVars /\ result'[p] = NoResult /\ me'[p] = Idle
      /\ \A q \in Procs \ {p} : /\ result'[q] = result[q] /\ me'[q] = me[q]
                                /\ me[q].pc = "idle"
  BY Acting, TypeSplit
     DEF Crash, At, RInv, IInv, journalVars, daemonVars, worldVars, historyVars,
         resourceVars
<1>2. WorldRes' /\ UNCHANGED <<journal, started>>
  BY <1>1, StillWorld DEF RInv, resourceVars
<1>3. \A q \in Procs : me'[q].pc = "idle"
  BY <1>1 DEF Idle
<1>4. ResultRes'
  BY <1>1, <1>2, <1>3 DEF RInv, ResultRes, Settled, At, NoResult
<1> QED BY <1>2, <1>3, <1>4 DEF RInv

\* A step of the daemons, the contexts or the operator: less may be requested,
\* and no process comes to reach its daemon by it.
LEMMA AroundRes ==
    ASSUME RInv, IInv', UNCHANGED <<lock, me, result, journal, home, started>>,
           WorldRes', Requested' \subseteq Requested, inflight' \subseteq inflight,
           lock # NoProc => restarted' = restarted,
           \A p \in Procs : lock = p /\ Reaches(me[p])' => Reaches(me[p])
    PROVE  RInv'
<1>1. ResultRes'
  BY DEF RInv, ResultRes, Settled, At
<1>2. ASSUME NEW q \in Procs, me[q].pc # "idle" PROVE PlaceRes(me[q])'
  <2>1. PICK m : m = me[q]
    OBVIOUS
  <2>2. LocalRes(m) /\ JournalRes(m) /\ ResourceRes(m) /\ lock = q
    BY <1>2, <2>1, Acting
  <2>3. restarted' = restarted
    BY <2>2, AttemptJournalAssumption
  <2>4. Reaches(m)' => Reaches(m)
    BY <2>1, <2>2
  <2>5. LocalRes(m)' /\ JournalRes(m)'
    BY <2>2, <2>3 DEF LocalRes, JournalRes
  <2>6. ResourceRes(m)'
    <3>1. \A S : /\ NoneOpen(m, S) => NoneOpen(m, S)'
                 /\ HereOnly(m, S) => HereOnly(m, S)'
                 /\ OwnOnly(m, S) => OwnOnly(m, S)'
                 /\ OpenOnly(m, S) => OpenOnly(m, S)'
      BY DEF NoneOpen, HereOnly, OwnOnly, OpenOnly
    <3> QED BY <2>2, <2>4, <3>1 DEF ResourceRes
  <2> QED BY <2>1, <2>5, <2>6 DEF PlaceRes
<1> QED BY <1>1, <1>2 DEF RInv

\* The daemons, the contexts and the operator.
LEMMA WorldStepRes ==
    ASSUME RInv, IInv', World
    PROVE  RInv'
<1> USE DEF processVars, journalVars, historyVars, worldVars
<1>1. CASE LateCreate
  <2>1. PICK x \in inflight :
           /\ inflight' = inflight \ {x}
           /\ present' \in {present, present \cup {x}}
    BY <1>1 DEF LateCreate
  <2>2. /\ UNCHANGED <<lock, me, result, journal, home, started, restarted, endpoint>>
        /\ Requested' \subseteq Requested /\ inflight' \subseteq inflight
        /\ present' \cap inflight' = {}
    BY <1>1, <2>1 DEF LateCreate, Requested, RInv, WorldRes
  <2>3. WorldRes'
    BY <2>2, ShrunkWorld DEF RInv, Requested
  <2> QED BY <2>2, <2>3, AroundRes DEF Reaches
<1>2. CASE HelperExits
  <2>1. /\ UNCHANGED <<lock, me, result, journal, home, started, restarted, endpoint,
                       inflight>>
        /\ present' \subseteq present
    BY <1>2 DEF HelperExits
  <2>2. Requested' \subseteq Requested /\ present' \cap inflight' = {}
    BY <2>1 DEF Requested, RInv, WorldRes
  <2>3. WorldRes'
    BY <2>1, <2>2, ShrunkWorld DEF RInv, Requested
  <2> QED BY <2>1, <2>2, <2>3, AroundRes DEF Reaches
<1>3. ASSUME NEW d \in Daemons, RestartDaemon(d) PROVE RInv'
  <2>1. /\ UNCHANGED <<lock, me, result, journal, home, started, endpoint, present>>
        /\ inflight' = {x \in inflight : x[1] # d}
        /\ restarted' = (restarted \/ (lock = NoProc /\ journal.tok # 0
                                                     /\ journal.dmn = d))
    BY <1>3 DEF RestartDaemon
  <2>2. /\ Requested' \subseteq Requested /\ inflight' \subseteq inflight
        /\ present' \cap inflight' = {} /\ restarted \in BOOLEAN
    BY <2>1, TypeSplit DEF Requested, RInv, WorldRes, IInv, WorldOK
  <2>3. restarted' => restarted \/ \A x \in inflight' : x[1] # journal.dmn
    BY <2>1
  <2>4. WorldRes'
    BY <2>1, <2>2, <2>3, ShrunkWorld DEF RInv, Requested
  <2>5. lock # NoProc => restarted' = restarted
    BY <2>1, <2>2
  <2> QED BY <2>1, <2>2, <2>4, <2>5, AroundRes DEF Reaches
<1>4. ASSUME NEW c \in Contexts, NEW d \in Daemons, Repoint(c, d) PROVE RInv'
  <2>1. /\ UNCHANGED <<lock, me, result, journal, home, started, restarted, present,
                       inflight>>
        /\ lock # NoProc => d # me[lock].dmn
        /\ endpoint' = [endpoint EXCEPT ![c] = d]
    BY <1>4 DEF Repoint, daemonVars
  <2>2. \A p \in Procs : lock = p /\ Reaches(me[p])' => Reaches(me[p])
    <3> SUFFICES ASSUME NEW p \in Procs, lock = p, Reaches(me[p])'
                 PROVE  Reaches(me[p])
      OBVIOUS
    <3>1. me[p].pc # "idle" /\ lock # NoProc
      BY AttemptJournalAssumption DEF RInv, IInv, LockInv
    <3>2. me[p].ctx \in Contexts /\ endpoint \in [Contexts -> Daemons]
      BY <3>1, Acting DEF ProcInv, WorldOK
    <3> QED BY <2>1, <3>1, <3>2 DEF Reaches
  <2>3. Requested' = Requested /\ WorldRes'
    BY <2>1, StillWorld DEF Requested, RInv, resourceVars
  <2> QED BY <2>1, <2>2, <2>3, AroundRes
<1>5. CASE RestoreEndpoint
  <2>1. /\ UNCHANGED <<lock, me, result, journal, home, started, restarted, present,
                       inflight>>
        /\ lock = NoProc
    BY <1>5 DEF RestoreEndpoint, daemonVars
  <2>2. Requested' = Requested /\ WorldRes'
    BY <2>1, StillWorld DEF Requested, RInv, resourceVars
  <2> QED BY <2>1, <2>2, AttemptJournalAssumption, AroundRes
<1> QED BY <1>1, <1>2, <1>3, <1>4, <1>5 DEF World

\* Every step of a process.
LEMMA ProcessStepRes ==
    ASSUME RInv, IInv', NEW p \in Procs,
           Invocation(p) \/ Reconcile(p) \/ Attempt(p) \/ Crash(p)
    PROVE  RInv'
<1>1. CASE Invocation(p)
  <2>1. "attempt" \in {"attempt", "cleanup"} /\ "cleanup" \in {"attempt", "cleanup"}
        /\ FALSE \in BOOLEAN
    OBVIOUS
  <2> QED BY <1>1, <2>1, InvokeRes, ContendRes DEF Invocation
<1>2. CASE Reconcile(p)
  BY <1>2, LoadJournalRes, ReconcileIdentityRes, ReconcileInspectRes,
     ReconcileRemoveRes, ReconcileVerifyRes, ReconcileWriteRes,
     ReconcileRecheckRes, ReconcileUnlinkRes DEF Reconcile
<1>3. CASE Attempt(p)
  BY <1>3, UnlinkPreviousRes, PrepareRes, WriteIntentRes, CreateOutputVolumeRes,
     InspectVolumeRes, StartOutputHelperRes, InspectHelperRes, CoreDumpPolicyRes,
     RunPreparedRouterRes, BestEffortRemoveRes, DaemonIdentityRes,
     InspectParticipantRes, StopParticipantRes, RemoveParticipantRes,
     CleanupIdentityRes, CleanupInspectRes, CleanupRemoveRes, FinishRes,
     FinishRecheckRes, RemoveResourceJournalRes, PublishSubmissionRes DEF Attempt
<1>4. CASE Crash(p)
  BY <1>4, CrashRes
<1> QED BY <1>1, <1>2, <1>3, <1>4

\* A step of nobody.
LEMMA StutterRes ==
    ASSUME RInv, IInv', UNCHANGED vars
    PROVE  RInv'
<1>1. UNCHANGED <<lock, me, result, journal, home, started, restarted, present,
                  inflight, endpoint>>
  BY DEF vars
<1>2. Requested' = Requested /\ WorldRes'
  BY <1>1, StillWorld DEF Requested, RInv, resourceVars
<1> QED BY <1>1, <1>2, AroundRes DEF Reaches

\* The beginning.
LEMMA InitRes == Init => RInv
<1> SUFFICES ASSUME Init PROVE RInv
  OBVIOUS
<1>1. IInv
  BY InitInv
<1>2. WorldRes
  BY DEF Init, WorldRes, NoneOpen, Requested, NoJournal
<1>3. ResultRes
  BY DEF Init, ResultRes, Settled, NoResult
<1>4. \A p \in Procs : me[p].pc = "idle"
  BY DEF Init, Idle
<1> QED BY <1>1, <1>2, <1>3, <1>4 DEF RInv

\* The strengthened invariant holds of every behaviour.
THEOREM ResourceInvariance == Spec => []RInv
<1>1. Init => RInv
  BY InitRes
<1>2. IInv /\ [Next]_vars => IInv'
  BY ProcessStepInv, WorldStepInv, StutterInv DEF Next
<1>3. RInv => IInv
  BY DEF RInv
<1>4. RInv /\ IInv' /\ [Next]_vars => RInv'
  BY ProcessStepRes, WorldStepRes, StutterRes DEF Next
<1> QED BY <1>1, <1>2, <1>3, <1>4, PTL DEF Spec

\* No orphan: whatever an attempt made, or may still come to make, on its daemon
\* is named by the journal on disk.
THEOREM NoOrphans == Spec => []JournalCoversResources
<1>1. RInv => JournalCoversResources
  BY DEF RInv, WorldRes, Requested, JournalCoversResources, Live
<1> QED BY <1>1, ResourceInvariance, PTL

\* A result that does not say cleanup_pending has left nothing that exists or can
\* still appear.
THEOREM ResultsAreFinal == Spec => []SettledResultIsFinal
<1>1. RInv => SettledResultIsFinal
  BY DEF RInv, WorldRes, ResultRes, Settled, Requested, SettledResultIsFinal, Live
<1> QED BY <1>1, ResourceInvariance, PTL

-----------------------------------------------------------------------------
(* The ledger. AttemptJournal implements CleanupLedger, and a run that had *)
(* the lock and returns without cleanup_pending leaves no journal.         *)

\* What the ledger shows of a state, and a step it does not show.
LedgerStep == [Ledger!LedgerNext]_(Ledger!ledgerVars)

-----------------------------------------------------------------------------
\* Only the attempt of the journal holds anything.
LEMMA HeldByOwner ==
    ASSUME RInv
    PROVE  /\ \A h \in Held : h[1] = journal.tok
           /\ journal.tok = 0 => Held = {}
<1>1. \A x \in Requested : x[2] # 0 /\ (x[1] = home[x[2]] => x[2] = journal.tok)
  BY ResourceParts, TypeSplit, AttemptJournalAssumption
     DEF RInv, IInv, WorldRes, Attempts
<1> QED BY <1>1 DEF Held, Requested

\* What no longer exists, and can no longer come to exist, is no longer held.
LEMMA HeldShrinks ==
    ASSUME Requested' \subseteq Requested,
           \A x \in Requested : home'[x[2]] = home[x[2]]
    PROVE  Held' \subseteq Held
BY DEF Held, Requested

\* A step that keeps journal and submission, and after which less is requested,
\* is a release of the ledger or nothing.
LEMMA ReleaseStep ==
    ASSUME RInv, RInv', journal'.tok = journal.tok, UNCHANGED submission,
           Requested' \subseteq Requested,
           \A x \in Requested : home'[x[2]] = home[x[2]]
    PROVE  LedgerStep
<1>1. Held' \subseteq Held
  BY HeldShrinks
<1>2. CASE journal.tok = 0
  <2>1. Held = {} /\ Held' = {}
    BY <1>2, HeldByOwner, <1>1
  <2> QED BY <2>1 DEF LedgerStep, Ledger!ledgerVars
<1>3. CASE journal.tok # 0
  BY <1>1, <1>3 DEF LedgerStep, Ledger!LedgerNext, Ledger!Release
<1> QED BY <1>2, <1>3

\* One more resource of the journal's attempt may exist.
LEMMA HoldStep ==
    ASSUME RInv, RInv', NEW p \in Procs, NEW r \in Roles, me[p].tok = journal.tok,
           journal.tok # 0, UNCHANGED <<journal, submission, home>>,
           Requested' \in {Requested, Requested \cup {Name(p, r)}}
    PROVE  LedgerStep
<1>1. CASE Requested' = Requested
  BY <1>1, ReleaseStep
<1>2. CASE Requested' = Requested \cup {Name(p, r)}
  <2> DEFINE x == Name(p, r)
  <2>1. x[2] = journal.tok /\ x[3] = r
    BY DEF Name
  <2> HIDE DEF x
  <2>2. CASE x[1] = home[x[2]]
    <3>1. Held' = Held \cup {<<journal.tok, r>>}
      BY <1>2, <2>1, <2>2 DEF Held, Requested, x
    <3> QED BY <3>1 DEF LedgerStep, Ledger!LedgerNext, Ledger!Hold
  <2>3. CASE x[1] # home[x[2]]
    <3>1. Held' = Held
      BY <1>2, <2>3 DEF Held, Requested, x
    <3> QED BY <3>1 DEF LedgerStep, Ledger!ledgerVars
  <2> QED BY <2>2, <2>3
<1> QED BY <1>1, <1>2

\* The journal goes.
LEMMA CloseStep ==
    ASSUME RInv, RInv', journal'.tok = 0, UNCHANGED <<submission, home>>,
           Requested' = Requested
    PROVE  LedgerStep
<1>1. \A x \in Requested' : x[2] # 0 /\ (x[1] = home'[x[2]] => x[2] = journal'.tok)
  BY ResourceParts, TypeSplit, AttemptJournalAssumption
     DEF RInv, IInv, WorldRes, WorldOK, TypeOK, Requested, Attempts
<1>2. Held' = {} /\ Held = {}
  BY <1>1 DEF Held, Requested
<1> QED BY <1>2 DEF LedgerStep, Ledger!LedgerNext, Ledger!Close, Ledger!ledgerVars

\* The journal is written.
LEMMA OpenStep ==
    ASSUME RInv, RInv', journal.tok = 0, submission = 0,
           journal'.tok \in 1..MaxAttempts, UNCHANGED <<submission, home>>,
           Requested' = Requested
    PROVE  LedgerStep
<1>1. Held = {} /\ Held' = Held
  BY HeldByOwner DEF Held, Requested
<1> QED BY <1>1 DEF LedgerStep, Ledger!LedgerNext, Ledger!Open

\* A result comes or goes.
LEMMA SubmissionStep ==
    ASSUME RInv, journal.tok = 0, UNCHANGED <<journal, present, inflight, home>>,
           \/ submission' = 0
           \/ submission = 0 /\ submission' \in 1..MaxAttempts
    PROVE  LedgerStep
<1>1. Held' = Held
  BY DEF Held
<1> QED
  BY <1>1 DEF LedgerStep, Ledger!LedgerNext, Ledger!Publish, Ledger!Withdraw

-----------------------------------------------------------------------------
\* The actions that leave journal and submission alone, and ask for nothing.
LEMMA InvocationStep ==
    ASSUME RInv, RInv', NEW p \in Procs, Invocation(p) \/ Crash(p)
    PROVE  LedgerStep
<1>1. UNCHANGED <<journal, submission, present, inflight, home>>
  BY DEF Invocation, Invoke, Contend, Crash, journalVars, daemonVars, historyVars
<1> QED BY <1>1, ReleaseStep DEF Requested

\* The daemons may complete, drop or lose resources: a release, or nothing.
LEMMA WorldLedgerStep ==
    ASSUME RInv, RInv', World
    PROVE  LedgerStep
<1>1. UNCHANGED <<journal, submission, home>> /\ Requested' \subseteq Requested
  BY DEF World, LateCreate, HelperExits, RestoreEndpoint, RestartDaemon, Repoint,
         Requested, journalVars, daemonVars, historyVars
<1> QED BY <1>1, ReleaseStep

\* A reconciliation releases, and closes the ledger at its end.
LEMMA ReconcileStep ==
    ASSUME RInv, RInv', NEW p \in Procs, Reconcile(p)
    PROVE  LedgerStep
<1> USE DEF journalVars, daemonVars, worldVars, historyVars, Requested
<1>1. CASE LoadJournal(p) \/ ReconcileIdentity(p) \/ ReconcileVerify(p)
           \/ ReconcileRecheck(p)
  <2>1. UNCHANGED <<journal, submission, present, inflight, home>>
    BY <1>1 DEF LoadJournal, ReconcileIdentity, ReconcileVerify, ReconcileRecheck
  <2> QED BY <2>1, ReleaseStep
<1>2. CASE ReconcileInspect(p) \/ ReconcileWrite(p)
  <2>1. /\ UNCHANGED <<submission, present, inflight, home>>
        /\ \E S : journal' \in {journal, [journal EXCEPT !.observed = S]}
    BY <1>2 DEF ReconcileInspect, ReconcileWrite, Written, WriteFailed
  <2>2. journal'.tok = journal.tok
    BY <2>1, TypeSplit DEF RInv, IInv, WorldOK, Journals
  <2> QED BY <2>1, <2>2, ReleaseStep
<1>3. CASE ReconcileRemove(p)
  <2>1. /\ UNCHANGED <<journal, submission, home, inflight>>
        /\ present' \subseteq present
    BY <1>3 DEF ReconcileRemove, Removed
  <2> QED BY <2>1, ReleaseStep
<1>4. CASE ReconcileUnlink(p)
  <2>1. /\ UNCHANGED <<submission, present, inflight, home>>
        /\ journal' \in {journal, NoJournal}
    BY <1>4 DEF ReconcileUnlink, Unlinked, UnlinkFailed
  <2> QED BY <2>1, ReleaseStep, CloseStep, JournalTypes
<1> QED BY <1>1, <1>2, <1>3, <1>4 DEF Reconcile

\* The attempt up to its first request.
LEMMA BeginningStep ==
    ASSUME RInv, RInv', NEW p \in Procs,
           UnlinkPrevious(p) \/ Prepare(p) \/ WriteIntent(p)
    PROVE  LedgerStep
<1> USE DEF journalVars, daemonVars, worldVars, historyVars, At
<1>1. CASE UnlinkPrevious(p)
  <2>1. /\ UNCHANGED <<journal, present, inflight, home>>
        /\ submission' \in {submission, 0}
    BY <1>1 DEF UnlinkPrevious
  <2>2. journal.tok = 0
    BY <1>1, Acting DEF UnlinkPrevious, ProcInv
  <2> QED BY <2>1, <2>2, SubmissionStep, ReleaseStep DEF Requested
<1>2. CASE Prepare(p)
  <2>1. /\ UNCHANGED <<journal, submission, present, inflight>>
        /\ \A x \in Requested : x[2] # started + 1 => home'[x[2]] = home[x[2]]
    BY <1>2, ResourceParts, TypeSplit DEF Prepare, RInv, IInv, WorldOK
  <2>2. \A x \in Requested : x[2] # started + 1
    BY ResourceParts, TypeSplit, AttemptJournalAssumption
       DEF RInv, IInv, WorldOK, WorldRes, Attempts
  <2> QED BY <2>1, <2>2, ReleaseStep DEF Requested
<1>3. CASE WriteIntent(p)
  <2>1. me[p].pc = "write_intent" /\ me[p].pc # "idle"
    BY <1>3 DEF WriteIntent
  <2>2. /\ journal.tok = 0 /\ submission = 0 /\ me[p].tok \in 1..MaxAttempts
    BY <2>1, Acting, AttemptJournalAssumption
       DEF ProcInv, Working, Entering, Reconciling, Places, Locals
  <2>3. /\ UNCHANGED <<submission, present, inflight, home>>
        /\ journal' = journal \/ journal'.tok = me[p].tok
    BY <1>3 DEF WriteIntent, Written, WriteFailed
  <2> QED BY <2>2, <2>3, OpenStep, ReleaseStep DEF Requested
<1> QED BY <1>1, <1>2, <1>3

\* The three requests.
LEMMA RequestStep ==
    ASSUME RInv, RInv', NEW p \in Procs,
           CreateOutputVolume(p) \/ StartOutputHelper(p) \/ RunPreparedRouter(p)
    PROVE  LedgerStep
<1>1. me[p].pc \in {"create_volume", "start_helper", "run"}
  BY DEF CreateOutputVolume, StartOutputHelper, RunPreparedRouter, At
<1>2. journal.tok = me[p].tok /\ journal.tok # 0
  BY <1>1, Acting
     DEF JournalRes, ProcInv, Working, Entering, Reconciling, Places
<1>3. UNCHANGED <<journal, submission, home>>
  BY DEF CreateOutputVolume, StartOutputHelper, RunPreparedRouter, journalVars,
         historyVars
<1>4. \E r \in Roles : Requested' \in {Requested, Requested \cup {Name(p, r)}}
  BY DEF CreateOutputVolume, StartOutputHelper, RunPreparedRouter, CreateUncertain,
         Created, Requested, Roles, daemonVars
<1> QED BY <1>2, <1>3, <1>4, HoldStep

\* What an attempt does after a request, up to its end.
LEMMA EndingStep ==
    ASSUME RInv, RInv', NEW p \in Procs,
           \/ InspectVolume(p) \/ InspectHelper(p) \/ CoreDumpPolicy(p)
           \/ BestEffortRemove(p) \/ DaemonIdentity(p) \/ InspectParticipant(p)
           \/ StopParticipant(p) \/ RemoveParticipant(p) \/ CleanupIdentity(p)
           \/ CleanupInspect(p) \/ CleanupRemove(p) \/ Finish(p) \/ FinishRecheck(p)
    PROVE  LedgerStep
<1> USE DEF journalVars, daemonVars, worldVars, historyVars, Requested
<1>1. CASE InspectVolume(p) \/ InspectHelper(p) \/ InspectParticipant(p) \/ Finish(p)
  <2>1. /\ UNCHANGED <<submission, present, inflight, home>>
        /\ \E S : journal' \in {journal, [journal EXCEPT !.observed = S]}
    BY <1>1 DEF InspectVolume, InspectHelper, InspectCreated, InspectParticipant,
                Finish, Written, WriteFailed
  <2>2. journal'.tok = journal.tok
    BY <2>1, TypeSplit DEF RInv, IInv, WorldOK, Journals
  <2> QED BY <2>1, <2>2, ReleaseStep
<1>2. CASE BestEffortRemove(p) \/ RemoveParticipant(p) \/ CleanupRemove(p)
  <2>1. /\ UNCHANGED <<journal, submission, home, inflight>>
        /\ present' \subseteq present
    BY <1>2 DEF BestEffortRemove, RemoveParticipant, CleanupRemove, Removed
  <2> QED BY <2>1, ReleaseStep
<1>3. CASE \/ CoreDumpPolicy(p) \/ DaemonIdentity(p) \/ StopParticipant(p)
           \/ CleanupIdentity(p) \/ CleanupInspect(p) \/ FinishRecheck(p)
  <2>1. UNCHANGED <<journal, submission, present, inflight, home>>
    BY <1>3 DEF CoreDumpPolicy, DaemonIdentity, StopParticipant, CleanupIdentity,
                CleanupInspect, FinishRecheck
  <2> QED BY <2>1, ReleaseStep
<1> QED BY <1>1, <1>2, <1>3

\* The removal of the journal and the publication of the result.
LEMMA ClosingStep ==
    ASSUME RInv, RInv', NEW p \in Procs,
           RemoveResourceJournal(p) \/ PublishSubmission(p)
    PROVE  LedgerStep
<1> USE DEF journalVars, daemonVars, worldVars, historyVars, At
<1>1. CASE RemoveResourceJournal(p)
  <2>1. /\ UNCHANGED <<submission, present, inflight, home>>
        /\ journal' \in {journal, NoJournal}
    BY <1>1 DEF RemoveResourceJournal, Unlinked, UnlinkFailed
  <2> QED BY <2>1, ReleaseStep, CloseStep, JournalTypes DEF Requested
<1>2. CASE PublishSubmission(p)
  <2>1. me[p].pc = "publish" /\ me[p].pc # "idle"
    BY <1>2 DEF PublishSubmission
  <2>2. /\ journal.tok = 0 /\ submission = 0 /\ me[p].tok \in 1..MaxAttempts
    BY <2>1, Acting, AttemptJournalAssumption
       DEF ProcInv, Working, Entering, Reconciling, Places, Locals
  <2>3. /\ UNCHANGED <<journal, present, inflight, home>>
        /\ submission' \in {submission, me[p].tok}
    BY <1>2 DEF PublishSubmission
  <2> QED BY <2>2, <2>3, SubmissionStep, ReleaseStep DEF Requested
<1> QED BY <1>1, <1>2

\* The directory implements the ledger: every step of the processes, daemons and
\* contexts is a step of the ledger or does not show in it.
THEOREM LedgerImplemented == Spec => ImplementsLedger
<1>1. Init => Ledger!LedgerInit
  BY DEF Init, Ledger!LedgerInit, Held, NoJournal
<1>2. RInv /\ RInv' /\ [Next]_vars => LedgerStep
  <2> SUFFICES ASSUME RInv, RInv', [Next]_vars PROVE LedgerStep
    OBVIOUS
  <2>1. ASSUME NEW p \in Procs, Attempt(p) PROVE LedgerStep
    BY <2>1, BeginningStep, RequestStep, EndingStep, ClosingStep DEF Attempt
  <2>2. CASE UNCHANGED vars
    BY <2>2, ReleaseStep DEF vars, Requested
  <2> QED BY <2>1, <2>2, InvocationStep, ReconcileStep, WorldLedgerStep DEF Next
<1> QED
  BY <1>1, <1>2, ResourceInvariance, PTL
     DEF Spec, ImplementsLedger, Ledger!LedgerSpec, LedgerStep

-----------------------------------------------------------------------------
\* A step returns a quiet result only when no journal is left.
QuietIfReturned(p) ==
    /\ me'[p].pc = "idle"
    /\ result'[p].kind \in {"valid", "execution", "infrastructure"}
    /\ ~result'[p].pending
    => journal'.tok = 0

\* Who keeps the lock has not returned.
LEMMA StaysQuiet ==
    ASSUME RInv, RInv', NEW p \in Procs, me[p].pc # "idle", UNCHANGED lock
    PROVE  QuietIfReturned(p)
BY DEF RInv, IInv, LockInv, QuietIfReturned

\* What a return promises by itself.
LEMMA ReturnsQuiet ==
    ASSUME RInv, NEW p \in Procs, NEW kind, NEW pending, Return(p, kind, pending),
           kind \in {"valid", "execution", "infrastructure"} /\ ~pending
           => journal'.tok = 0
    PROVE  QuietIfReturned(p)
BY TypeSplit DEF RInv, IInv, Return, QuietIfReturned

\* A reconciliation returns quietly only to the cleanup command, or when the
\* journal is found gone after all.
LEMMA ReconcileQuiet ==
    ASSUME RInv, RInv', NEW p \in Procs, me[p].pc # "idle", Reconcile(p)
    PROVE  QuietIfReturned(p)
<1>1. ASSUME Unreconciled(p) PROVE QuietIfReturned(p)
  BY <1>1, ReturnsQuiet DEF Unreconciled
<1>2. ASSUME Reconciled(p) PROVE QuietIfReturned(p)
  BY <1>2, StaysQuiet, ReturnsQuiet DEF Reconciled, Become
<1>3. UNCHANGED lock \/ Unreconciled(p) \/ Reconciled(p)
  BY DEF Reconcile, LoadJournal, ReconcileIdentity, ReconcileInspect, ReconcileRemove,
         ReconcileVerify, ReconcileWrite, ReconcileRecheck, ReconcileUnlink, Goto,
         Become
<1> QED BY <1>1, <1>2, <1>3, StaysQuiet

\* An attempt returns before it writes the journal, after it removed it, or with
\* cleanup pending.
LEMMA AttemptQuiet ==
    ASSUME RInv, RInv', NEW p \in Procs, me[p].pc # "idle", Attempt(p)
    PROVE  QuietIfReturned(p)
<1> USE DEF journalVars
<1>1. CASE UnlinkPrevious(p) \/ Prepare(p) \/ PublishSubmission(p)
  <2>1. journal.tok = 0 /\ journal' = journal
    BY <1>1, Acting DEF ProcInv, UnlinkPrevious, Prepare, PublishSubmission, At
  <2>2. \/ UNCHANGED lock
        \/ \E kind \in {"valid", "infrastructure"} : Return(p, kind, FALSE)
    BY <1>1 DEF UnlinkPrevious, Prepare, PublishSubmission, Goto, Become
  <2> QED BY <2>1, <2>2, StaysQuiet, ReturnsQuiet
<1>2. CASE Finish(p)
  <2>1. \/ UNCHANGED lock
        \/ Return(p, "infrastructure", TRUE)
        \/ /\ me[p].kind = "raised" \/ me[p].pending
           /\ Return(p, me[p].kind, me[p].pending)
        \/ /\ journal' = journal /\ journal.tok = 0
           /\ Return(p, me[p].kind, FALSE)
    BY <1>2 DEF Finish, Goto, Become
  <2> QED BY <2>1, StaysQuiet, ReturnsQuiet
<1>3. CASE FinishRecheck(p)
  BY <1>3, StaysQuiet, ReturnsQuiet DEF FinishRecheck, Goto, Become
<1>4. CASE RemoveResourceJournal(p)
  <2>1. \/ UNCHANGED lock
        \/ Return(p, "infrastructure", TRUE)
        \/ journal' = NoJournal /\ Return(p, me[p].kind, FALSE)
    BY <1>4 DEF RemoveResourceJournal, Unlinked, Goto, Become
  <2> QED BY <2>1, StaysQuiet, ReturnsQuiet, JournalTypes
<1>5. CASE \/ WriteIntent(p) \/ CreateOutputVolume(p) \/ InspectVolume(p)
           \/ StartOutputHelper(p) \/ InspectHelper(p) \/ CoreDumpPolicy(p)
           \/ RunPreparedRouter(p) \/ BestEffortRemove(p) \/ DaemonIdentity(p)
  <2>1. UNCHANGED lock
    BY <1>5 DEF WriteIntent, CreateOutputVolume, InspectVolume, StartOutputHelper,
                InspectHelper, InspectCreated, CoreDumpPolicy, RunPreparedRouter,
                BestEffortRemove, DaemonIdentity, SuspendAndCleanup, Goto, Become
  <2> QED BY <2>1, StaysQuiet
<1>6. CASE \/ InspectParticipant(p) \/ StopParticipant(p) \/ RemoveParticipant(p)
           \/ CleanupIdentity(p) \/ CleanupInspect(p) \/ CleanupRemove(p)
  <2>1. UNCHANGED lock
    BY <1>6 DEF InspectParticipant, StopParticipant, RemoveParticipant,
                CleanupIdentity, CleanupInspect, CleanupRemove, SuspendAndCleanup,
                Suspend, Goto, Become
  <2> QED BY <2>1, StaysQuiet
<1> QED BY <1>1, <1>2, <1>3, <1>4, <1>5, <1>6 DEF Attempt

\* No process but the holder of the lock reconciles, attempts or crashes.
LEMMA OthersWait ==
    ASSUME NEW q \in Procs, Reconcile(q) \/ Attempt(q) \/ Crash(q)
    PROVE  me[q].pc # "idle"
BY DEF Reconcile, Attempt, Crash, At, LoadJournal, ReconcileIdentity,
       ReconcileInspect, ReconcileRemove, ReconcileVerify, ReconcileWrite,
       ReconcileRecheck, ReconcileUnlink, UnlinkPrevious, Prepare,
       WriteIntent, CreateOutputVolume, InspectVolume, StartOutputHelper,
       InspectHelper, InspectCreated, CoreDumpPolicy, RunPreparedRouter,
       BestEffortRemove, DaemonIdentity, InspectParticipant, StopParticipant,
       RemoveParticipant, CleanupIdentity, CleanupInspect, CleanupRemove,
       Finish, FinishRecheck, RemoveResourceJournal, PublishSubmission

\* A run that had the lock and returns a result without cleanup_pending leaves no
\* journal behind, whatever failed on its way.
THEOREM QuietReturns == Spec => QuietReturnLeavesNoJournal
<1> DEFINE Quietly == \A p \in Procs : me[p].pc # "idle" => QuietIfReturned(p)
<1>1. RInv /\ RInv' /\ [Next]_vars => Quietly
  <2> SUFFICES ASSUME RInv, RInv', [Next]_vars,
                      NEW p \in Procs, me[p].pc # "idle"
               PROVE  QuietIfReturned(p)
    OBVIOUS
  <2>1. lock = p /\ lock # NoProc
    BY Acting, AttemptJournalAssumption
  <2>2. CASE World \/ UNCHANGED vars
    <3>1. UNCHANGED lock
      BY <2>2 DEF World, LateCreate, HelperExits, RestoreEndpoint, RestartDaemon,
                  Repoint, processVars, vars
    <3> QED BY <3>1, StaysQuiet
  <2>3. ASSUME NEW q \in Procs, Invocation(q) PROVE QuietIfReturned(p)
    <3>1. UNCHANGED lock
      BY <2>1, <2>3 DEF Invocation, Invoke, Contend
    <3> QED BY <3>1, StaysQuiet
  <2>4. ASSUME NEW q \in Procs, q # p PROVE ~(Reconcile(q) \/ Attempt(q) \/ Crash(q))
    BY <2>4, Acting, OthersWait
  <2>5. CASE Crash(p)
    <3>1. result'[p] = NoResult
      BY <2>5, TypeSplit DEF Crash, RInv, IInv
    <3> QED BY <3>1 DEF NoResult, QuietIfReturned
  <2> QED
    BY <2>2, <2>3, <2>4, <2>5, ReconcileQuiet, AttemptQuiet DEF Next
<1>2. Quietly => \A p \in Procs :
                   /\ ~At(p, "idle") /\ me'[p].pc = "idle"
                   /\ result'[p].kind \in {"valid", "execution", "infrastructure"}
                   /\ ~result'[p].pending
                   => journal'.tok = 0
  BY DEF QuietIfReturned, At
<1> QED
  BY <1>1, <1>2, ResourceInvariance, PTL DEF Spec, QuietReturnLeavesNoJournal

-----------------------------------------------------------------------------
\* The two places from which a name is removed.
Removal == {"reconcile_remove", "cleanup_remove"}

\* No name is both an attempt's and somebody else's, and the name about to be
\* removed was seen with the attempt's label.
NamesApart ==
    /\ present \cap foreign = {}
    /\ \A p \in Procs : me[p].pc \in Removal /\ Reaches(me[p])
          => <<me[p].dmn, me[p].tok, me[p].role>> \notin foreign

\* The place a step leads to, whatever else it changes in the locals.
LEMMA PlaceAfter ==
    ASSUME NEW l, "pc" \in DOMAIN l
    PROVE  /\ EnterCleanup(l).pc \notin Removal
           /\ NextCleanup(l).pc \notin Removal
           /\ NextRole(l).pc \notin Removal
BY DEF EnterCleanup, NextCleanup, NextRole, Removal

\* What the locals of a process may have become has a place.
LEMMA HavePlace ==
    ASSUME RInv, NEW p \in Procs
    PROVE  /\ "pc" \in DOMAIN me[p]
           /\ \A k, b : "pc" \in DOMAIN [me[p] EXCEPT !.kind = k, !.pending = b]
           /\ \A k : "pc" \in DOMAIN [me[p] EXCEPT !.kind = k]
           /\ \A S : "pc" \in DOMAIN [me[p] EXCEPT !.observed = S]
           /\ \A S : "pc" \in DOMAIN [me[p] EXCEPT !.unresolved = S]
           /\ \A S : "pc" \in DOMAIN [me[p] EXCEPT !.made = S]
<1>1. me[p] \in Locals
  BY TypeSplit DEF RInv, IInv
<1> QED BY <1>1 DEF Locals

\* No step but the two label checks leads to a removal.
LEMMA GotoElsewhere ==
    ASSUME RInv, NEW p \in Procs, NEW place, place \notin Removal, Goto(p, place)
    PROVE  me'[p].pc \notin Removal
<1>1. [me[p] EXCEPT !.pc = place].pc = place
  BY HavePlace
<1> QED BY <1>1, BecomeLocal DEF RInv, Goto

\* The same for the ways cleanup becomes pending.
LEMMA SuspendElsewhere ==
    ASSUME RInv, NEW p \in Procs,
           SuspendAndCleanup(p) \/ (\E place : place \notin Removal /\ Suspend(p, place))
    PROVE  me'[p].pc \notin Removal
<1>1. CASE SuspendAndCleanup(p)
  <2> DEFINE l == [me[p] EXCEPT !.kind = AsInfrastructure(@), !.pending = TRUE]
  <2>1. "pc" \in DOMAIN l
    BY HavePlace
  <2>2. me'[p] = EnterCleanup(l)
    BY <1>1, BecomeLocal DEF RInv, SuspendAndCleanup
  <2> HIDE DEF l
  <2> QED BY <2>1, <2>2, PlaceAfter
<1>2. ASSUME NEW place, place \notin Removal, Suspend(p, place)
      PROVE  me'[p].pc \notin Removal
  <2> DEFINE l == [me[p] EXCEPT !.pc = place, !.kind = AsInfrastructure(@),
                                !.pending = TRUE]
  <2>1. l.pc = place
    BY HavePlace
  <2>2. me'[p] = l
    BY <1>2, BecomeLocal DEF RInv, Suspend
  <2> QED BY <1>2, <2>1, <2>2
<1> QED BY <1>1, <1>2

\* The same for any new locals at another place.
LEMMA BecomeElsewhere ==
    ASSUME RInv, NEW p \in Procs, NEW l, Become(p, l), l.pc \notin Removal
    PROVE  me'[p].pc \notin Removal
BY BecomeLocal DEF RInv

\* The same for a return.
LEMMA ReturnElsewhere ==
    ASSUME RInv, NEW p \in Procs, NEW kind, NEW pending, Return(p, kind, pending)
    PROVE  me'[p].pc \notin Removal
BY TypeSplit DEF RInv, IInv, Return, Idle, Removal

\* Of a reconciliation, only the label check leads to a removal.
LEMMA ReconcileElsewhere ==
    ASSUME RInv, NEW p \in Procs, Reconcile(p), ~ReconcileInspect(p)
    PROVE  me'[p].pc \notin Removal
<1>1. me[p] \in Locals
  BY TypeSplit DEF RInv, IInv
<1>2. ASSUME Unreconciled(p) PROVE me'[p].pc \notin Removal
  BY <1>2, ReturnElsewhere DEF Unreconciled
<1>3. ASSUME Reconciled(p) PROVE me'[p].pc \notin Removal
  <2>1. [me[p] EXCEPT !.pc = "unlink_previous", !.tok = 0, !.dmn = NoDaemon,
                      !.observed = {}].pc = "unlink_previous"
    BY <1>1 DEF Locals
  <2> QED BY <1>3, <2>1, ReturnElsewhere, BecomeElsewhere DEF Reconciled, Removal
<1>4. CASE LoadJournal(p)
  <2>1. [me[p] EXCEPT !.pc = "reconcile_identity", !.tok = journal.tok,
                      !.dmn = journal.dmn,
                      !.observed = journal.observed].pc = "reconcile_identity"
    BY <1>1 DEF Locals
  <2> QED BY <1>2, <1>3, <1>4, <2>1, BecomeElsewhere DEF LoadJournal, Removal
<1>5. CASE ReconcileIdentity(p)
  <2>1. [me[p] EXCEPT !.pc = "reconcile_inspect", !.role = "participant"].pc
           = "reconcile_inspect"
    BY <1>1 DEF Locals
  <2> QED BY <1>2, <1>5, <2>1, BecomeElsewhere DEF ReconcileIdentity, Removal
<1>6. CASE ReconcileRemove(p) \/ ReconcileWrite(p) \/ ReconcileRecheck(p)
  BY <1>2, <1>6, GotoElsewhere
     DEF ReconcileRemove, ReconcileWrite, ReconcileRecheck, Removal
<1>7. CASE ReconcileVerify(p)
  BY <1>2, <1>7, PlaceAfter, HavePlace, BecomeElsewhere DEF ReconcileVerify
<1>8. CASE ReconcileUnlink(p)
  BY <1>2, <1>3, <1>8 DEF ReconcileUnlink
<1> QED BY <1>4, <1>5, <1>6, <1>7, <1>8 DEF Reconcile

\* Of an attempt, only the label check of the managed cleanup does.
LEMMA AttemptElsewhere ==
    ASSUME RInv, NEW p \in Procs, Attempt(p), ~CleanupInspect(p)
    PROVE  me'[p].pc \notin Removal
<1>1. me[p] \in Locals
  BY TypeSplit DEF RInv, IInv
<1>2. ASSUME NEW l, "pc" \in DOMAIN l,
             Become(p, EnterCleanup(l)) \/ Become(p, NextCleanup(l))
      PROVE  me'[p].pc \notin Removal
  BY <1>2, PlaceAfter, BecomeElsewhere
<1>3. CASE \/ UnlinkPrevious(p) \/ CleanupIdentity(p) \/ DaemonIdentity(p) \/ Finish(p)
           \/ FinishRecheck(p) \/ RemoveResourceJournal(p) \/ PublishSubmission(p)
  BY <1>3, GotoElsewhere, SuspendElsewhere, ReturnElsewhere
     DEF UnlinkPrevious, CleanupIdentity, DaemonIdentity, Finish, FinishRecheck,
         RemoveResourceJournal, PublishSubmission, Removal
<1>4. CASE Prepare(p)
  <2>1. [me[p] EXCEPT !.pc = "write_intent", !.tok = started + 1,
                      !.dmn = Endpoint(p)].pc = "write_intent"
    BY <1>1 DEF Locals
  <2> QED BY <1>4, <2>1, ReturnElsewhere, BecomeElsewhere DEF Prepare, Removal
<1>5. CASE WriteIntent(p)
  <2>1. [me[p] EXCEPT !.pc = "finish", !.kind = "infrastructure"].pc = "finish"
    BY <1>1 DEF Locals
  <2> QED BY <1>5, <2>1, GotoElsewhere, BecomeElsewhere DEF WriteIntent, Removal
<1>6. CASE CreateOutputVolume(p)
  <2> DEFINE l == [me[p] EXCEPT !.made = {"volume"}]
             failed == [l EXCEPT !.kind = "infrastructure", !.pending = TRUE]
  <2>1. "pc" \in DOMAIN failed /\ [l EXCEPT !.pc = "inspect_volume"].pc \notin Removal
    BY HavePlace DEF Removal
  <2>2. \/ Become(p, [l EXCEPT !.pc = "inspect_volume"])
        \/ Become(p, EnterCleanup(failed))
    BY <1>6 DEF CreateOutputVolume
  <2> HIDE DEF l, failed
  <2> QED BY <1>2, <2>1, <2>2, BecomeElsewhere
<1>7. CASE StartOutputHelper(p)
  <2> DEFINE l == [me[p] EXCEPT !.made = @ \cup {"helper"}]
             failed == [l EXCEPT !.kind = "infrastructure", !.pending = TRUE]
  <2>1. "pc" \in DOMAIN failed /\ [l EXCEPT !.pc = "inspect_helper"].pc \notin Removal
    BY HavePlace DEF Removal
  <2>2. \/ Become(p, [l EXCEPT !.pc = "inspect_helper"])
        \/ Become(p, EnterCleanup(failed))
    BY <1>7 DEF StartOutputHelper
  <2> HIDE DEF l, failed
  <2> QED BY <1>2, <2>1, <2>2, BecomeElsewhere
<1>8. CASE InspectVolume(p) \/ InspectHelper(p)
  <2>1. ASSUME NEW place, NEW r, NEW next \in {"start_helper", "core_dump_policy"},
               InspectCreated(p, place, r, next)
        PROVE  me'[p].pc \notin Removal
    <3>1. [me[p] EXCEPT !.pc = next, !.observed = me[p].observed \cup {r}].pc = next
      BY <1>1 DEF Locals
    <3> QED BY <2>1, <3>1, SuspendElsewhere, BecomeElsewhere DEF InspectCreated, Removal
  <2> QED BY <1>8, <2>1 DEF InspectVolume, InspectHelper
<1>9. CASE CoreDumpPolicy(p)
  <2> DEFINE l == [me[p] EXCEPT !.kind = "infrastructure"]
  <2>1. "pc" \in DOMAIN l
    BY HavePlace
  <2>2. Goto(p, "run") \/ Become(p, EnterCleanup(l))
    BY <1>9 DEF CoreDumpPolicy
  <2> HIDE DEF l
  <2> QED BY <1>2, <2>1, <2>2, GotoElsewhere DEF Removal
<1>10. CASE RunPreparedRouter(p)
  <2>1. \/ \E k, t : Become(p, [me[p] EXCEPT !.pc = "identity", !.kind = k,
                                             !.terminated = t])
        \/ Become(p, [me[p] EXCEPT !.pc = "best_effort", !.kind = "raised"])
    BY <1>10 DEF RunPreparedRouter
  <2>2. /\ \A k, t : [me[p] EXCEPT !.pc = "identity", !.kind = k,
                                   !.terminated = t].pc = "identity"
        /\ [me[p] EXCEPT !.pc = "best_effort", !.kind = "raised"].pc = "best_effort"
    BY <1>1 DEF Locals
  <2> QED BY <2>1, <2>2, BecomeElsewhere DEF Removal
<1>11. CASE BestEffortRemove(p)
  BY <1>2, <1>11, HavePlace DEF BestEffortRemove
<1>12. CASE InspectParticipant(p)
  <2>1. PICK k, b, S :
           \/ Become(p, EnterCleanup([me[p] EXCEPT !.kind = k, !.pending = b]))
           \/ Become(p, [me[p] EXCEPT !.pc = "participant_stop", !.observed = S])
           \/ SuspendAndCleanup(p) \/ Suspend(p, "participant_stop")
    BY <1>12 DEF InspectParticipant
  <2>2. [me[p] EXCEPT !.pc = "participant_stop", !.observed = S].pc = "participant_stop"
    BY <1>1 DEF Locals
  <2>3. "pc" \in DOMAIN [me[p] EXCEPT !.kind = k, !.pending = b]
    BY HavePlace
  <2> QED BY <1>2, <2>1, <2>2, <2>3, SuspendElsewhere, BecomeElsewhere DEF Removal
<1>13. CASE StopParticipant(p)
  <2>1. PICK k :
           \/ Become(p, [me[p] EXCEPT !.pc = "participant_remove", !.kind = k])
           \/ Suspend(p, "participant_remove")
    BY <1>13 DEF StopParticipant
  <2>2. [me[p] EXCEPT !.pc = "participant_remove", !.kind = k].pc = "participant_remove"
    BY <1>1 DEF Locals
  <2> QED BY <2>1, <2>2, SuspendElsewhere, BecomeElsewhere DEF Removal
<1>14. CASE RemoveParticipant(p)
  BY <1>2, <1>14, HavePlace, SuspendElsewhere DEF RemoveParticipant
<1>15. CASE CleanupRemove(p)
  <2> DEFINE l == [me[p] EXCEPT !.kind = AsInfrastructure(@), !.pending = TRUE]
  <2>1. "pc" \in DOMAIN l /\ "pc" \in DOMAIN me[p]
    BY HavePlace
  <2>2. Become(p, NextCleanup(me[p])) \/ Become(p, NextCleanup(l))
    BY <1>15 DEF CleanupRemove, NextCleanupSuspended
  <2> HIDE DEF l
  <2> QED BY <1>2, <2>1, <2>2
<1> QED
  BY <1>3, <1>4, <1>5, <1>6, <1>7, <1>8, <1>9, <1>10, <1>11, <1>12, <1>13, <1>14,
     <1>15 DEF Attempt

\* A foreign name may go, and what comes into being does not bear one.
ForeignKept ==
    /\ foreign' \subseteq foreign
    /\ \A x \in present' : x \in present \/ x \notin foreign

\* A request never makes what somebody else bears the name of.
LEMMA CreatedApart ==
    ASSUME NEW x,
           \/ x \notin foreign /\ Created(x)
           \/ CreateUncertain(x)
           \/ UNCHANGED daemonVars,
           UNCHANGED foreign
    PROVE  ForeignKept
BY DEF Created, CreateUncertain, daemonVars, ForeignKept

\* No step gives a foreign name, or makes a resource that bears one.
LEMMA StepKeepsForeign ==
    ASSUME [Next]_vars
    PROVE  ForeignKept
<1> USE DEF journalVars, daemonVars, worldVars, historyVars, processVars, ForeignKept
<1>1. CASE UNCHANGED vars
  BY <1>1 DEF vars
<1>2. CASE World
  BY <1>2 DEF World, LateCreate, HelperExits, RestoreEndpoint, RestartDaemon, Repoint
<1>3. ASSUME NEW p \in Procs, Invocation(p) \/ Crash(p) PROVE ForeignKept
  BY <1>3 DEF Invocation, Invoke, Contend, Crash
<1>4. ASSUME NEW p \in Procs, Reconcile(p) PROVE ForeignKept
  BY <1>4 DEF Reconcile, LoadJournal, ReconcileIdentity, ReconcileInspect,
              ReconcileRemove, ReconcileVerify, ReconcileWrite, ReconcileRecheck,
              ReconcileUnlink, Removed
<1>5. ASSUME NEW p \in Procs,
             CreateOutputVolume(p) \/ StartOutputHelper(p) \/ RunPreparedRouter(p)
      PROVE  ForeignKept
  <2>1. PICK r : LET x == Name(p, r) IN
                   \/ x \notin foreign /\ Created(x)
                   \/ CreateUncertain(x)
                   \/ UNCHANGED daemonVars
    BY <1>5 DEF CreateOutputVolume, StartOutputHelper, RunPreparedRouter
  <2>2. UNCHANGED foreign
    BY <1>5 DEF CreateOutputVolume, StartOutputHelper, RunPreparedRouter
  <2> QED BY <2>1, <2>2, CreatedApart
<1>6. ASSUME NEW p \in Procs,
             \/ UnlinkPrevious(p) \/ Prepare(p) \/ WriteIntent(p) \/ InspectVolume(p)
             \/ InspectHelper(p) \/ CoreDumpPolicy(p) \/ BestEffortRemove(p)
             \/ DaemonIdentity(p) \/ InspectParticipant(p) \/ StopParticipant(p)
             \/ RemoveParticipant(p)
      PROVE  ForeignKept
  BY <1>6 DEF UnlinkPrevious, Prepare, WriteIntent, InspectVolume, InspectHelper,
              InspectCreated, CoreDumpPolicy, BestEffortRemove, DaemonIdentity,
              InspectParticipant, StopParticipant, RemoveParticipant
<1>7. ASSUME NEW p \in Procs,
             \/ CleanupIdentity(p) \/ CleanupInspect(p) \/ CleanupRemove(p)
             \/ Finish(p) \/ FinishRecheck(p) \/ RemoveResourceJournal(p)
             \/ PublishSubmission(p)
      PROVE  ForeignKept
  BY <1>7 DEF CleanupIdentity, CleanupInspect, CleanupRemove, Removed, Finish,
              FinishRecheck, RemoveResourceJournal, PublishSubmission
<1> QED BY <1>1, <1>2, <1>3, <1>4, <1>5, <1>6, <1>7 DEF Next, Attempt

\* The label check finds the attempt's own name, so nobody else bears it.
LEMMA CheckedName ==
    ASSUME RInv, NamesApart, NEW p \in Procs, me[p].pc # "idle",
           ReconcileInspect(p) \/ CleanupInspect(p),
           me'[p].pc \in Removal, Reaches(me[p])'
    PROVE  <<me'[p].dmn, me'[p].tok, me'[p].role>> \notin foreign
<1>1. me[p] \in Locals
  BY TypeSplit DEF RInv, IInv
<1>2. ASSUME Label(Name(p, me[p].role)) = "own", UNCHANGED endpoint,
             me'[p].dmn = me[p].dmn, me'[p].tok = me[p].tok,
             me'[p].role = me[p].role, me'[p].ctx = me[p].ctx
      PROVE  <<me'[p].dmn, me'[p].tok, me'[p].role>> \notin foreign
  <2>1. Name(p, me[p].role) \in present
    BY <1>2 DEF Label
  <2>2. Name(p, me[p].role) = <<me'[p].dmn, me'[p].tok, me'[p].role>>
    BY <1>2 DEF Name, Endpoint, Reaches
  <2> QED BY <2>1, <2>2 DEF NamesApart
<1>3. CASE ReconcileInspect(p)
  <2> DEFINE l == [me[p] EXCEPT !.pc = "reconcile_remove",
                                !.observed = me[p].observed \cup {me[p].role}]
  <2>1. \A S : /\ "pc" \in DOMAIN [me[p] EXCEPT !.observed = S]
               /\ "pc" \in DOMAIN [me[p] EXCEPT !.unresolved = S]
    BY HavePlace
  <2>2. \/ \E S : \/ Become(p, NextRole([me[p] EXCEPT !.observed = S]))
                  \/ Become(p, NextRole([me[p] EXCEPT !.unresolved = S]))
        \/ Unreconciled(p)
        \/ Label(Name(p, me[p].role)) = "own" /\ Become(p, l)
    BY <1>3 DEF ReconcileInspect
  <2>3. Label(Name(p, me[p].role)) = "own" /\ Become(p, l)
    BY <2>1, <2>2, PlaceAfter, BecomeElsewhere, ReturnElsewhere DEF Unreconciled
  <2>4. /\ l.dmn = me[p].dmn /\ l.tok = me[p].tok /\ l.role = me[p].role
        /\ l.ctx = me[p].ctx
    BY <1>1 DEF Locals
  <2>5. me'[p] = l /\ UNCHANGED endpoint
    BY <1>3, <2>3, BecomeLocal DEF RInv, ReconcileInspect, worldVars, daemonVars
  <2> QED BY <1>2, <2>3, <2>4, <2>5
<1>4. CASE CleanupInspect(p)
  <2> DEFINE l == [me[p] EXCEPT !.kind = AsInfrastructure(@), !.pending = TRUE]
             m == [me[p] EXCEPT !.pc = "cleanup_remove"]
  <2>1. "pc" \in DOMAIN l /\ "pc" \in DOMAIN me[p]
    BY HavePlace
  <2>2. \/ Become(p, NextCleanup(me[p])) \/ Become(p, NextCleanup(l))
        \/ Label(Name(p, me[p].role)) = "own" /\ Become(p, m)
    BY <1>4 DEF CleanupInspect, NextCleanupSuspended, Goto
  <2> HIDE DEF l
  <2>3. Label(Name(p, me[p].role)) = "own" /\ Become(p, m)
    BY <2>1, <2>2, PlaceAfter, BecomeElsewhere
  <2>4. /\ m.dmn = me[p].dmn /\ m.tok = me[p].tok /\ m.role = me[p].role
        /\ m.ctx = me[p].ctx
    BY <1>1 DEF Locals
  <2>5. me'[p] = m /\ UNCHANGED endpoint
    BY <1>4, <2>3, BecomeLocal DEF RInv, CleanupInspect, worldVars, daemonVars
  <2> QED BY <1>2, <2>3, <2>4, <2>5
<1> QED BY <1>3, <1>4

\* A process keeps the lock or gives it back.
LEMMA LockAfter ==
    ASSUME NEW q \in Procs, Reconcile(q) \/ Attempt(q) \/ Crash(q)
    PROVE  UNCHANGED lock \/ lock' = NoProc
<1>1. CASE Crash(q)
  BY <1>1 DEF Crash
<1>2. CASE Reconcile(q)
  BY <1>2 DEF Reconcile, LoadJournal, ReconcileIdentity, ReconcileInspect,
              ReconcileRemove, ReconcileVerify, ReconcileWrite, ReconcileRecheck,
              ReconcileUnlink, Unreconciled, Reconciled, Goto, Become, Return
<1>3. CASE Attempt(q)
  <2>1. CASE \/ UnlinkPrevious(q) \/ Prepare(q) \/ WriteIntent(q)
             \/ CreateOutputVolume(q) \/ InspectVolume(q) \/ StartOutputHelper(q)
             \/ InspectHelper(q) \/ CoreDumpPolicy(q) \/ RunPreparedRouter(q)
             \/ BestEffortRemove(q) \/ DaemonIdentity(q)
    BY <2>1 DEF UnlinkPrevious, Prepare, WriteIntent, CreateOutputVolume,
                InspectVolume, StartOutputHelper, InspectHelper, InspectCreated,
                CoreDumpPolicy, RunPreparedRouter, BestEffortRemove, DaemonIdentity,
                SuspendAndCleanup, Goto, Become, Return
  <2>2. CASE \/ InspectParticipant(q) \/ StopParticipant(q) \/ RemoveParticipant(q)
             \/ CleanupIdentity(q) \/ CleanupInspect(q) \/ CleanupRemove(q)
             \/ Finish(q) \/ FinishRecheck(q) \/ RemoveResourceJournal(q)
             \/ PublishSubmission(q)
    BY <2>2 DEF InspectParticipant, StopParticipant, RemoveParticipant,
                CleanupIdentity, CleanupInspect, CleanupRemove, Finish,
                FinishRecheck, RemoveResourceJournal, PublishSubmission,
                SuspendAndCleanup, Suspend, Goto, Become, Return
  <2> QED BY <1>3, <2>1, <2>2 DEF Attempt
<1> QED BY <1>1, <1>2, <1>3

\* Names stay apart: a repointed context does not come back under the lock.
LEMMA NamesApartStep ==
    ASSUME RInv, RInv', NamesApart, [Next]_vars
    PROVE  NamesApart'
<1>1. ForeignKept
  BY StepKeepsForeign
<1>2. (present \cap foreign)' = {}
  BY <1>1 DEF NamesApart, ForeignKept
<1>3. ASSUME NEW p \in Procs, me'[p].pc \in Removal, Reaches(me[p])'
      PROVE  <<me'[p].dmn, me'[p].tok, me'[p].role>> \notin foreign
  <2>1. lock' = p /\ p # NoProc /\ me'[p].pc # "idle"
    BY <1>3, AttemptJournalAssumption DEF RInv, IInv, LockInv, Removal
  <2>2. CASE World \/ UNCHANGED vars
    <3>1. UNCHANGED <<lock, me>>
      BY <2>2 DEF World, LateCreate, HelperExits, RestoreEndpoint, RestartDaemon,
                  Repoint, processVars, vars
    <3>2. me[p].ctx \in Contexts /\ endpoint \in [Contexts -> Daemons] /\ lock = p
      BY <2>1, <3>1, Acting DEF ProcInv, WorldOK
    <3>3. Reaches(me[p])
      BY <1>3, <2>1, <2>2, <3>1, <3>2
         DEF World, LateCreate, HelperExits, RestoreEndpoint, RestartDaemon, Repoint,
             daemonVars, worldVars, vars, Reaches
    <3> QED BY <1>3, <3>1, <3>3 DEF NamesApart
  <2>3. ASSUME NEW q \in Procs, Invocation(q)
        PROVE  <<me'[p].dmn, me'[p].tok, me'[p].role>> \notin foreign
    <3>1. UNCHANGED <<me, endpoint>> \/ (lock = NoProc /\ me'[q].pc = "load")
      <4>1. ASSUME NEW mode, NEW c, NEW confirm, Invoke(q, mode, c, confirm)
            PROVE  lock = NoProc /\ me'[q].pc = "load"
        <5> DEFINE l == [Idle EXCEPT !.pc = "load", !.mode = mode, !.ctx = c,
                                     !.confirm = confirm]
        <5>1. l.pc = "load"
          BY DEF Idle
        <5>2. lock = NoProc /\ me' = [me EXCEPT ![q] = l]
          BY <4>1 DEF Invoke
        <5> HIDE DEF l
        <5> QED BY <5>1, <5>2, TypeSplit DEF RInv, IInv
      <4>2. CASE Contend(q)
        BY <4>2 DEF Contend, worldVars
      <4> QED BY <2>3, <4>1, <4>2 DEF Invocation
    <3>2. CASE UNCHANGED <<me, endpoint>>
      BY <1>3, <3>2 DEF NamesApart, Reaches
    <3>3. CASE lock = NoProc /\ me'[q].pc = "load"
      <4>1. lock' = q
        BY <3>3, <1>3, AttemptJournalAssumption DEF RInv, IInv, LockInv
      <4> QED BY <1>3, <2>1, <3>3, <4>1 DEF Removal
    <3> QED BY <3>1, <3>2, <3>3
  <2>4. ASSUME NEW q \in Procs, Reconcile(q) \/ Attempt(q) \/ Crash(q)
        PROVE  <<me'[p].dmn, me'[p].tok, me'[p].role>> \notin foreign
    <3>1. me[q].pc # "idle" /\ lock = q
      BY <2>4, OthersWait, Acting
    <3>2. UNCHANGED lock \/ lock' = NoProc
      BY <2>4, LockAfter
    <3>3. p = q
      BY <2>1, <3>1, <3>2
    <3>4. ~Crash(p)
      BY <1>3, TypeSplit DEF Crash, Idle, Removal, RInv, IInv
    <3> QED
      BY <1>3, <2>4, <3>1, <3>3, <3>4, ReconcileElsewhere, AttemptElsewhere, CheckedName
  <2> QED BY <2>2, <2>3, <2>4 DEF Next
<1> QED BY <1>2, <1>3, <1>1 DEF NamesApart, ForeignKept

\* Only the two removals by name can take a foreign one.
LEMMA ForeignChangers ==
    ASSUME [Next]_vars, foreign' # foreign
    PROVE  \E p \in Procs : ReconcileRemove(p) \/ CleanupRemove(p)
<1> USE DEF worldVars
<1>1. ~UNCHANGED vars /\ ~World
  BY DEF vars, World, LateCreate, HelperExits, RestoreEndpoint, RestartDaemon, Repoint
<1>2. ASSUME NEW p \in Procs, Invocation(p) \/ Crash(p) PROVE FALSE
  BY <1>2 DEF Invocation, Invoke, Contend, Crash
<1>3. ASSUME NEW p \in Procs, Reconcile(p) PROVE ReconcileRemove(p)
  BY <1>3 DEF Reconcile, LoadJournal, ReconcileIdentity, ReconcileInspect,
              ReconcileVerify, ReconcileWrite, ReconcileRecheck, ReconcileUnlink
<1>4. ASSUME NEW p \in Procs, Attempt(p) PROVE CleanupRemove(p)
  BY <1>4 DEF Attempt, UnlinkPrevious, Prepare, WriteIntent, CreateOutputVolume,
              InspectVolume, StartOutputHelper, InspectHelper, InspectCreated,
              CoreDumpPolicy, RunPreparedRouter, BestEffortRemove, DaemonIdentity,
              InspectParticipant, StopParticipant, RemoveParticipant,
              CleanupIdentity, CleanupInspect, Finish, FinishRecheck,
              RemoveResourceJournal, PublishSubmission
<1> QED BY <1>1, <1>2, <1>3, <1>4 DEF Next

\* A resource that bears another label is not removed while the context reaches
\* the daemon the process began with.
THEOREM ForeignNamesUntouched == Spec => ForeignUntouched
<1> DEFINE Untouched == foreign' # foreign =>
                          lock # NoProc /\ endpoint[me[lock].ctx] # me[lock].dmn
<1>1. Init => NamesApart
  BY DEF Init, NamesApart, Idle, Removal
<1>2. RInv /\ RInv' /\ NamesApart /\ [Next]_vars => NamesApart'
  BY NamesApartStep
<1>3. RInv /\ NamesApart /\ [Next]_vars => Untouched
  <2> SUFFICES ASSUME RInv, NamesApart, [Next]_vars, foreign' # foreign
               PROVE  lock # NoProc /\ endpoint[me[lock].ctx] # me[lock].dmn
    OBVIOUS
  <2>1. PICK p \in Procs : ReconcileRemove(p) \/ CleanupRemove(p)
    BY ForeignChangers
  <2>2. lock = p /\ p # NoProc /\ me[p].pc \in Removal
    BY <2>1, Acting, AttemptJournalAssumption
       DEF ReconcileRemove, CleanupRemove, At, Removal
  <2>3. /\ Name(p, me[p].role) \in foreign
    BY <2>1 DEF ReconcileRemove, CleanupRemove, Removed, worldVars
  <2>4. Reaches(me[p]) => Name(p, me[p].role) = <<me[p].dmn, me[p].tok, me[p].role>>
    BY DEF Name, Endpoint, Reaches
  <2> QED BY <2>2, <2>3, <2>4 DEF NamesApart, Reaches
<1> QED
  BY <1>1, <1>2, <1>3, ResourceInvariance, PTL DEF Spec, ForeignUntouched
=============================================================================
