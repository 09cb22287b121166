------------------------- MODULE OfficialTierProofs -------------------------
(***************************************************************************)
(* Proofs about OfficialTier for every number of evaluators, attempts,     *)
(* journals and faults.                                                    *)
(***************************************************************************)
EXTENDS OfficialTier, FiniteSetTheorems, TLAPS

Places == {"idle", "private_work", "snapshot", "require_no_pending",
           "resolve_image", "official_attempt", "audit_attempt",
           "remove_snapshot", "publish"}
BeforeAttempts == {"idle", "private_work", "snapshot", "require_no_pending",
                   "resolve_image"}
Leaving == {"remove_snapshot", "publish"}
Verdicts == Scored \cup {"infrastructure_unavailable", "review_required",
                         "audit_inconclusive_infrastructure"}
Errors == {"none", "pending", "preflight", "infrastructure", "configuration",
           "unexpected"}
Histories == Seq(AttemptResults)

Locals == [pc : Places, history : Histories, audit : Histories,
           verdict : Verdicts \cup {"none"}, error : Errors, id : 0..MaxTokens]

TypeOK ==
    /\ root \in Procs \cup {NoProc}
    /\ journal \in [Directories -> 0..MaxTokens]
    /\ me \in [Procs -> Locals]
    /\ DOMAIN exit = Procs
    /\ tokens \in 0..MaxTokens

\* Only the holder of the root lock is anywhere but idle.
RootInv == \A p \in Procs : me[p].pc # "idle" <=> root = p

\* Every attempt so far was retried: no result of the history was the last one.
Open(h, kinds) == \A i \in 1..Len(h) : h[i].kind \in kinds /\ ~h[i].pending

\* Two histories on the way to a record: what the locals l hold at their place.
HistoryInv(l) ==
    /\ l.pc \in BeforeAttempts => l.history = <<>>
    /\ l.pc \in BeforeAttempts \cup {"official_attempt"} => l.audit = <<>>
    /\ l.pc \notin Leaving => l.error = "none"
    /\ l.pc = "official_attempt" =>
          /\ Open(l.history, {"execution_failure", "infrastructure_failure"})
          /\ CountOf(l.history, "execution_failure") < MaxParticipantAttempts
          /\ CountOf(l.history, "infrastructure_failure") < MaxInfrastructureFailures
    /\ l.pc = "audit_attempt" =>
          /\ Selected(l.history)
          /\ Open(l.audit, {"infrastructure_failure"})
          /\ CountOf(l.audit, "infrastructure_failure") < MaxInfrastructureFailures
    /\ l.pc \in Leaving /\ l.error = "none" =>
          l.verdict \in Verdicts /\ Justified(l.verdict, l.history, l.audit)

\* Where the locals l say that no journal j is left and no private input r.
CleanInv(l, j, r) ==
    /\ l.pc \in {"resolve_image", "official_attempt", "audit_attempt"} =>
          \A d \in Directories : j[d] = 0
    /\ l.pc \in Leaving /\ l.error = "none" /\ l.verdict \in Scored =>
          \A d \in Directories : j[d] = 0
    /\ l.pc = "publish" /\ l.error = "none" => ~r

LocalInv(l, j, r) == l \in Locals /\ HistoryInv(l) /\ CleanInv(l, j, r)

IInv ==
    /\ TypeOK
    /\ RootInv
    /\ \A p \in Procs : LocalInv(me[p], journal, residue)
    /\ HistoryJustifiesRecord

-----------------------------------------------------------------------------
(* Counting results.                                                       *)

\* The places of a kind in a history are finitely many.
LEMMA CountType ==
    ASSUME NEW h \in Histories, NEW k
    PROVE  /\ IsFiniteSet({i \in DOMAIN h : h[i].kind = k})
           /\ CountOf(h, k) = Cardinality({i \in DOMAIN h : h[i].kind = k})
           /\ CountOf(h, k) \in Nat
  <1>1. DOMAIN h = 1..Len(h) /\ Len(h) \in Nat
    BY DEF Histories
  <1>2. IsFiniteSet(1..Len(h))
    BY <1>1, FS_Interval
  <1>3. IsFiniteSet({i \in DOMAIN h : h[i].kind = k})
    BY <1>1, <1>2, FS_Subset
  <1>4. CountOf(h, k) = Cardinality({i \in DOMAIN h : h[i].kind = k})
    BY DEF CountOf, Quantify
  <1> QED BY <1>3, <1>4, FS_CardinalityType

\* An empty history counts nothing.
LEMMA CountEmpty == \A k : CountOf(<<>>, k) = 0
  <1> SUFFICES ASSUME NEW k PROVE CountOf(<<>>, k) = 0
    OBVIOUS
  <1>1. <<>> \in Histories
    BY DEF Histories
  <1>2. {i \in DOMAIN <<>> : <<>>[i].kind = k} = {}
    OBVIOUS
  <1> QED BY <1>1, <1>2, CountType, FS_EmptySet

\* One more result counts once for its own kind.
LEMMA CountAppend ==
    ASSUME NEW h \in Histories, NEW r \in AttemptResults, NEW k
    PROVE  /\ Append(h, r) \in Histories
           /\ CountOf(Append(h, r), k)
                = IF r.kind = k THEN CountOf(h, k) + 1 ELSE CountOf(h, k)
  <1> DEFINE g == Append(h, r)
             S == {i \in DOMAIN h : h[i].kind = k}
             T == {i \in DOMAIN g : g[i].kind = k}
  <1>1. /\ g \in Histories /\ Len(h) \in Nat /\ Len(g) = Len(h) + 1
        /\ DOMAIN h = 1..Len(h) /\ DOMAIN g = 1..(Len(h) + 1)
        /\ \A i \in 1..Len(h) : g[i] = h[i]
        /\ g[Len(h) + 1] = r
    BY DEF Histories
  <1>2. /\ CountOf(h, k) = Cardinality(S) /\ IsFiniteSet(S)
        /\ CountOf(g, k) = Cardinality(T)
    BY <1>1, CountType
  <1>3. CASE r.kind = k
    <2>1. T = S \cup {Len(h) + 1}
      BY <1>1, <1>3
    <2>2. Len(h) + 1 \notin S
      BY <1>1
    <2> QED BY <1>1, <1>2, <1>3, <2>1, <2>2, FS_AddElement
  <1>4. CASE r.kind # k
    <2>1. T = S
      BY <1>1, <1>4
    <2> QED BY <1>1, <1>2, <1>4, <2>1
  <1> QED BY <1>3, <1>4

-----------------------------------------------------------------------------
(* What the two retry loops conclude.                                      *)

OfficialKinds == {"execution_failure", "infrastructure_failure"}

\* A history one longer: its last result and the ones before it.
LEMMA AppendRetried ==
    ASSUME NEW h \in Histories, NEW r \in AttemptResults, NEW kinds, Open(h, kinds)
    PROVE  /\ Append(h, r) # <<>>
           /\ Last(Append(h, r)) = r
           /\ Append(h, r)[Len(Append(h, r))] = r
           /\ Retried(Append(h, r), kinds)
           /\ r.kind \in kinds /\ ~r.pending => Open(Append(h, r), kinds)
  <1>1. /\ Len(h) \in Nat /\ Len(Append(h, r)) = Len(h) + 1
        /\ \A i \in 1..Len(h) : Append(h, r)[i] = h[i]
        /\ Append(h, r)[Len(h) + 1] = r
    BY DEF Histories
  <1> QED BY <1>1 DEF Open, Retried, Last

\* run_with_retry: it goes on with a history that is still open, and what it
\* ends with is justified by the history.
LEMMA RetrySound ==
    ASSUME NEW h \in Histories, NEW r \in AttemptResults,
           Open(h, OfficialKinds),
           CountOf(h, "execution_failure") < MaxParticipantAttempts,
           CountOf(h, "infrastructure_failure") < MaxInfrastructureFailures,
           r.pending => r.kind = "infrastructure_failure"
    PROVE  LET g == Append(h, r)
               v == RetryVerdict(g)
           IN /\ v \in Verdicts \cup {"again", "selected"}
              /\ v \in Scored \cup {"again", "selected"} => ~r.pending
              /\ v = "again" =>
                    /\ Open(g, OfficialKinds)
                    /\ CountOf(g, "execution_failure") < MaxParticipantAttempts
                    /\ CountOf(g, "infrastructure_failure")
                          < MaxInfrastructureFailures
              /\ v = "selected" => Selected(g)
              /\ v \in Verdicts => Justified(v, g, <<>>)
  <1> DEFINE g == Append(h, r)
             v == RetryVerdict(g)
  <1>1. /\ g # <<>> /\ Last(g) = r /\ g[Len(g)] = r
        /\ Retried(g, OfficialKinds)
        /\ r.kind \in OfficialKinds /\ ~r.pending => Open(g, OfficialKinds)
    BY AppendRetried
  <1>2. \A k : CountOf(g, k) = IF r.kind = k THEN CountOf(h, k) + 1
                               ELSE CountOf(h, k)
    BY CountAppend
  <1>3. /\ CountOf(h, "execution_failure") \in Nat
        /\ CountOf(h, "infrastructure_failure") \in Nat
    BY CountType
  <1>4. MaxParticipantAttempts \in Nat /\ MaxInfrastructureFailures \in Nat
    BY OfficialTierAssumption DEF OfficialTierAssumption
  <1>5. RetriedOfficial(g)
    BY <1>1 DEF RetriedOfficial, OfficialKinds
  <1>6. r.kind \in AttemptKinds /\ r.pending \in BOOLEAN
    BY DEF AttemptResults
  <1>7. CASE r.kind = "valid"
    <2>1. v = "selected"
      BY <1>1, <1>7 DEF RetryVerdict
    <2>2. Selected(g)
      BY <1>1, <1>2, <1>5, <1>7 DEF Selected
    <2> QED BY <1>7, <2>1, <2>2 DEF Verdicts, Scored
  <1>8. CASE r.kind = "fairness_violation"
    <2>1. v = "disqualified"
      BY <1>1, <1>8 DEF RetryVerdict
    <2> QED BY <1>8, <2>1 DEF Verdicts, Scored, Justified
  <1>9. CASE r.kind = "infrastructure_failure"
    <2>1. CountOf(g, "infrastructure_failure")
             = CountOf(h, "infrastructure_failure") + 1
          /\ CountOf(g, "execution_failure") = CountOf(h, "execution_failure")
      BY <1>2, <1>9
    <2>2. CASE r.pending \/ CountOf(g, "infrastructure_failure")
                               >= MaxInfrastructureFailures
      <3>1. v = "infrastructure_unavailable"
        BY <1>1, <1>9, <2>2 DEF RetryVerdict
      <3>2. GivenUp(g)
        BY <1>1, <1>3, <1>4, <2>1, <2>2 DEF GivenUp
      <3>3. Justified(v, g, <<>>)
        BY <3>1, <3>2, <1>1, <1>5 DEF Justified
      <3> QED BY <3>1, <3>3 DEF Verdicts, Scored
    <2>3. CASE ~(r.pending \/ CountOf(g, "infrastructure_failure")
                                 >= MaxInfrastructureFailures)
      <3>1. v = "again"
        BY <1>1, <1>9, <2>3 DEF RetryVerdict
      <3>2. CountOf(g, "infrastructure_failure") < MaxInfrastructureFailures
        BY <1>3, <1>4, <2>1, <2>3
      <3>3. Open(g, OfficialKinds)
        BY <1>1, <1>9, <2>3 DEF OfficialKinds
      <3> QED BY <2>1, <2>3, <3>1, <3>2, <3>3 DEF Verdicts, Scored
    <2> QED BY <2>2, <2>3
  <1>10. CASE r.kind = "execution_failure"
    <2>1. CountOf(g, "execution_failure") = CountOf(h, "execution_failure") + 1
          /\ CountOf(g, "infrastructure_failure")
                = CountOf(h, "infrastructure_failure")
      BY <1>2, <1>10
    <2>2. CASE ParticipantSpent(g)
      <3>1. v = "tier_score_zero"
        BY <1>1, <1>10, <2>2 DEF RetryVerdict
      <3>2. CountOf(g, "execution_failure") = MaxParticipantAttempts
        BY <1>3, <1>4, <2>1, <2>2 DEF ParticipantSpent
      <3>3. Justified(v, g, <<>>)
        BY <1>5, <2>1, <3>1, <3>2 DEF Justified
      <3> QED BY <1>10, <3>1, <3>3 DEF Verdicts, Scored
    <2>3. CASE ~ParticipantSpent(g)
      <3>1. v = "again"
        BY <1>1, <1>10, <2>3 DEF RetryVerdict
      <3>2. CountOf(g, "execution_failure") < MaxParticipantAttempts
        BY <1>3, <1>4, <2>1, <2>3 DEF ParticipantSpent
      <3>3. ~r.pending
        BY <1>10
      <3>4. Open(g, OfficialKinds)
        BY <1>1, <1>10, <3>3 DEF OfficialKinds
      <3> QED BY <2>1, <3>1, <3>2, <3>3, <3>4 DEF Verdicts, Scored
    <2> QED BY <2>2, <2>3
  <1> QED BY <1>6, <1>7, <1>8, <1>9, <1>10 DEF AttemptKinds

\* run_id_order_audit: the same of the audit, for a selected official history h.
LEMMA AuditSound ==
    ASSUME NEW h \in Histories, Selected(h), NEW a \in Histories,
           NEW r \in AttemptResults, NEW same \in BOOLEAN,
           Open(a, {"infrastructure_failure"}),
           CountOf(a, "infrastructure_failure") < MaxInfrastructureFailures,
           r.pending => r.kind = "infrastructure_failure"
    PROVE  LET g == Append(a, r)
               v == AuditVerdict(g, same)
           IN /\ v \in Verdicts \cup {"again"}
              /\ v \in Scored \cup {"again"} => ~r.pending
              /\ v = "again" =>
                    /\ Open(g, {"infrastructure_failure"})
                    /\ CountOf(g, "infrastructure_failure")
                          < MaxInfrastructureFailures
              /\ v \in Verdicts => Justified(v, h, g)
  <1> DEFINE g == Append(a, r)
             v == AuditVerdict(g, same)
  <1>1. /\ g # <<>> /\ Last(g) = r /\ g[Len(g)] = r
        /\ RetriedAudit(g)
        /\ r.kind = "infrastructure_failure" /\ ~r.pending
              => Open(g, {"infrastructure_failure"})
    BY AppendRetried DEF RetriedAudit
  <1>2. CASE r.kind = "infrastructure_failure"
    <2>1. /\ CountOf(a, "infrastructure_failure") \in Nat
          /\ CountOf(g, "infrastructure_failure")
                = CountOf(a, "infrastructure_failure") + 1
          /\ MaxInfrastructureFailures \in Nat
      BY <1>2, CountType, CountAppend, OfficialTierAssumption
         DEF OfficialTierAssumption
    <2>2. CASE r.pending \/ CountOf(g, "infrastructure_failure")
                               >= MaxInfrastructureFailures
      <3>1. v = "audit_inconclusive_infrastructure"
        BY <1>1, <1>2, <2>2 DEF AuditVerdict
      <3>2. GivenUp(g)
        BY <1>1, <2>1, <2>2 DEF GivenUp
      <3>3. Justified(v, h, g)
        BY <1>1, <3>1, <3>2 DEF Justified
      <3> QED BY <3>1, <3>3 DEF Verdicts, Scored
    <2>3. CASE ~(r.pending \/ CountOf(g, "infrastructure_failure")
                                 >= MaxInfrastructureFailures)
      <3>1. v = "again"
        BY <1>1, <1>2, <2>3 DEF AuditVerdict
      <3>2. CountOf(g, "infrastructure_failure") < MaxInfrastructureFailures
        BY <2>1, <2>3
      <3> QED BY <1>1, <1>2, <2>3, <3>1, <3>2 DEF Verdicts, Scored
    <2> QED BY <2>2, <2>3
  <1>3. CASE r.kind = "valid" /\ same
    <2>1. v = "valid"
      BY <1>1, <1>3 DEF AuditVerdict
    <2>2. Justified(v, h, g)
      BY <1>1, <1>3, <2>1 DEF Justified
    <2> QED BY <1>3, <2>1, <2>2 DEF Verdicts, Scored
  <1>4. CASE r.kind # "infrastructure_failure" /\ ~(r.kind = "valid" /\ same)
    <2>1. v = "review_required"
      BY <1>1, <1>4 DEF AuditVerdict
    <2> QED BY <2>1 DEF Verdicts, Scored, Justified
  <1> QED BY <1>2, <1>3, <1>4

-----------------------------------------------------------------------------
(* What one attempt does to the journals.                                  *)

LEMMA NewJournalType ==
    ASSUME TypeOK, NEW d \in Directories, NEW j \in 0..MaxTokens, NewJournal(d, j)
    PROVE  journal' \in [Directories -> 0..MaxTokens] /\ tokens' \in 0..MaxTokens
  BY OfficialTierAssumption DEF OfficialTierAssumption, TypeOK, NewJournal

\* A result that is not pending leaves the journals as they were; a pending one
\* is an infrastructure failure.
LEMMA ReturnsSound ==
    ASSUME TypeOK, NEW d \in Directories, NEW r \in AttemptResults, Returns(d, r)
    PROVE  /\ journal' \in [Directories -> 0..MaxTokens]
           /\ tokens' \in 0..MaxTokens
           /\ r.pending => r.kind = "infrastructure_failure"
           /\ ~r.pending => journal' = journal
  <1>1. CASE LockRefused(d, r)
    BY <1>1 DEF LockRefused, Result, TypeOK
  <1>2. CASE /\ ~cleaning[d] /\ journal[d] = 0
             /\ \E k \in AttemptKinds : r = Result(k, FALSE, 0)
             /\ UNCHANGED <<journal, tokens>>
    BY <1>2 DEF Result, TypeOK
  <1>3. ASSUME NEW j \in 0..MaxTokens, NewJournal(d, j),
               \E id \in {0, j} : r = Result("infrastructure_failure", TRUE, id)
        PROVE  /\ journal' \in [Directories -> 0..MaxTokens]
               /\ tokens' \in 0..MaxTokens
               /\ r.pending => r.kind = "infrastructure_failure"
               /\ ~r.pending => journal' = journal
    BY <1>3, NewJournalType DEF Result
  <1>4. CASE /\ ~cleaning[d] /\ journal[d] # 0
             /\ r = Result("infrastructure_failure", TRUE, journal[d])
             /\ UNCHANGED <<journal, tokens>>
    BY <1>4 DEF Result, TypeOK
  <1> QED BY <1>1, <1>2, <1>3, <1>4 DEF Returns

-----------------------------------------------------------------------------
(* Steps of one evaluator.                                                 *)

LEMMA IdleType == Idle \in Locals
  BY OfficialTierAssumption
     DEF OfficialTierAssumption, Idle, Locals, Places, Errors, Histories

LEMMA IdleInv == \A j, r : LocalInv(Idle, j, r)
  BY IdleType DEF LocalInv, HistoryInv, CleanInv, Idle, BeforeAttempts, Leaving

\* An evaluator goes on: the others are idle, and have nothing to lose.
LEMMA GoesOn ==
    ASSUME IInv, NEW p \in Procs, me[p].pc # "idle", NEW l, l.pc # "idle",
           me' = [me EXCEPT ![p] = l], UNCHANGED <<root, exit, record>>,
           journal' \in [Directories -> 0..MaxTokens],
           tokens' \in 0..MaxTokens,
           LocalInv(l, journal', residue')
    PROVE  IInv'
  <1>1. TypeOK'
    BY DEF IInv, TypeOK, LocalInv
  <1>2. RootInv'
    BY DEF IInv, TypeOK, RootInv
  <1>3. ASSUME NEW q \in Procs PROVE LocalInv(me[q], journal, residue)'
    <2>1. CASE q = p
      BY <2>1 DEF IInv, TypeOK
    <2>2. CASE q # p
      <3>1. me'[q] = me[q] /\ me[q].pc = "idle"
        BY <2>2 DEF IInv, TypeOK, RootInv
      <3>2. LocalInv(me[q], journal, residue)
        BY DEF IInv
      <3> QED BY <3>1, <3>2 DEF LocalInv, HistoryInv, CleanInv, Leaving
    <2> QED BY <2>1, <2>2
  <1>4. HistoryJustifiesRecord'
    BY DEF IInv, HistoryJustifiesRecord
  <1> QED BY <1>1, <1>2, <1>3, <1>4 DEF IInv

\* A run ends: everybody is idle.
LEMMA Ends ==
    ASSUME IInv, NEW p \in Procs, me[p].pc # "idle", NEW code, EndRun(p, code),
           journal' \in [Directories -> 0..MaxTokens],
           tokens' \in 0..MaxTokens,
           HistoryJustifiesRecord'
    PROVE  IInv'
  <1>1. \A q \in Procs : me[q].pc # "idle" <=> q = p
    BY DEF IInv, RootInv, TypeOK
  <1>2. me \in [Procs -> Locals] /\ me' = [me EXCEPT ![p] = Idle]
        /\ root' = NoProc /\ exit' = [exit EXCEPT ![p] = code]
    BY DEF IInv, TypeOK, EndRun
  <1>3. TypeOK'
    BY <1>2, IdleType DEF IInv, TypeOK
  <1>4. RootInv'
    BY <1>1, <1>2, OfficialTierAssumption
       DEF OfficialTierAssumption, RootInv, Idle
  <1>5. ASSUME NEW q \in Procs PROVE LocalInv(me[q], journal, residue)'
    <2>1. CASE q = p
      BY <2>1, <1>2, IdleInv
    <2>2. CASE q # p
      <3>1. me'[q] = me[q] /\ me[q].pc = "idle"
        BY <2>2, <1>1, <1>2
      <3>2. LocalInv(me[q], journal, residue)
        BY DEF IInv
      <3> QED BY <3>1, <3>2 DEF LocalInv, HistoryInv, CleanInv, Leaving
    <2> QED BY <2>1, <2>2
  <1> QED BY <1>3, <1>4, <1>5 DEF IInv

\* On the way out with an error, nothing is promised of the histories.
LEMMA ErrorLocal ==
    ASSUME NEW l \in Locals, HistoryInv(l), NEW place \in Leaving,
           NEW e \in Errors \ {"none"}, NEW id \in 0..MaxTokens, NEW j, NEW r
    PROVE  /\ LocalInv([l EXCEPT !.pc = place, !.error = e, !.id = id], j, r)
           /\ LocalInv([l EXCEPT !.pc = place, !.error = e], j, r)
  BY DEF LocalInv, HistoryInv, CleanInv, Locals, Leaving, Places, BeforeAttempts

\* Before the first attempt only the place changes.
LEMMA EarlyLocal ==
    ASSUME NEW l \in Locals, HistoryInv(l), l.pc \in BeforeAttempts,
           NEW place \in BeforeAttempts \cup {"official_attempt"},
           NEW j, NEW r,
           place \in {"resolve_image", "official_attempt"} =>
              \A d \in Directories : j[d] = 0
    PROVE  LocalInv([l EXCEPT !.pc = place], j, r)
  <1> DEFINE m == [l EXCEPT !.pc = place]
  <1>1. /\ m \in Locals /\ m.pc = place /\ m.error = "none"
        /\ m.history = <<>> /\ m.audit = <<>>
    BY DEF Locals, Places, BeforeAttempts, HistoryInv, Leaving
  <1>2. MaxParticipantAttempts > 0 /\ MaxInfrastructureFailures > 0
    BY OfficialTierAssumption DEF OfficialTierAssumption
  <1>3. HistoryInv(m)
    BY <1>1, <1>2, CountEmpty DEF HistoryInv, BeforeAttempts, Leaving, Open
  <1>4. CleanInv(m, j, r)
    BY <1>1 DEF CleanInv, BeforeAttempts, Leaving
  <1> QED BY <1>1, <1>3, <1>4 DEF LocalInv

\* An error is on its way out through the removal of the snapshot.
LEMMA UnwindStep ==
    ASSUME IInv, NEW p \in Procs, me[p].pc # "idle", NEW e \in Errors \ {"none"},
           NEW id \in 0..MaxTokens, Unwind(p, e, id), UNCHANGED record,
           journal' \in [Directories -> 0..MaxTokens], tokens' \in 0..MaxTokens
    PROVE  IInv'
  <1> DEFINE l == [me[p] EXCEPT !.pc = "remove_snapshot", !.error = e, !.id = id]
  <1>1. me[p] \in Locals /\ HistoryInv(me[p])
    BY DEF IInv, TypeOK, LocalInv
  <1>2. LocalInv(l, journal', residue')
    BY <1>1, ErrorLocal DEF Leaving
  <1>3. l.pc # "idle"
    BY <1>1 DEF Locals
  <1>4. Become(p, l)
    BY DEF Unwind
  <1> HIDE DEF l
  <1> QED BY <1>2, <1>3, <1>4, GoesOn DEF Become

-----------------------------------------------------------------------------
(* Every step keeps the invariant.                                         *)

LEMMA ValidatePrivateWorkStep ==
    ASSUME IInv, NEW p \in Procs, ValidatePrivateWork(p)
    PROVE  IInv'
  <1> USE DEF ValidatePrivateWork
  <1>1. /\ me[p] \in Locals /\ HistoryInv(me[p]) /\ me[p].pc = "private_work"
        /\ journal \in [Directories -> 0..MaxTokens] /\ tokens \in 0..MaxTokens
        /\ UNCHANGED <<residue, journal, tokens, record>>
    BY DEF IInv, TypeOK, LocalInv, At
  <1>2. CASE Goto(p, "snapshot")
    <2>1. LocalInv([me[p] EXCEPT !.pc = "snapshot"], journal', residue')
      BY <1>1, EarlyLocal DEF BeforeAttempts
    <2> QED BY <1>1, <1>2, <2>1, GoesOn DEF Goto, Become, Locals
  <1>3. ASSUME NEW e \in {"infrastructure", "configuration"}, Fail(p, e)
        PROVE  IInv'
    <2>1. LocalInv([me[p] EXCEPT !.pc = "publish", !.error = e], journal', residue')
      BY <1>1, ErrorLocal, OfficialTierAssumption
         DEF Leaving, Errors, OfficialTierAssumption
    <2> QED BY <1>1, <1>3, <2>1, GoesOn DEF Fail, Become, Locals
  <1> QED BY <1>2, <1>3

LEMMA TakeSnapshotStep ==
    ASSUME IInv, NEW p \in Procs, TakeSnapshot(p)
    PROVE  IInv'
  <1> USE DEF TakeSnapshot
  <1>1. /\ me[p] \in Locals /\ HistoryInv(me[p]) /\ me[p].pc = "snapshot"
        /\ journal \in [Directories -> 0..MaxTokens] /\ tokens \in 0..MaxTokens
        /\ UNCHANGED <<journal, tokens, record>>
    BY DEF IInv, TypeOK, LocalInv, At
  <1>2. CASE Goto(p, "require_no_pending")
    <2>1. LocalInv([me[p] EXCEPT !.pc = "require_no_pending"], journal', residue')
      BY <1>1, EarlyLocal DEF BeforeAttempts
    <2> QED BY <1>1, <1>2, <2>1, GoesOn DEF Goto, Become, Locals
  <1>3. CASE Fail(p, "infrastructure")
    <2>1. LocalInv([me[p] EXCEPT !.pc = "publish", !.error = "infrastructure"],
                   journal', residue')
      BY <1>1, ErrorLocal, OfficialTierAssumption
         DEF Leaving, Errors, OfficialTierAssumption
    <2> QED BY <1>1, <1>3, <2>1, GoesOn DEF Fail, Become, Locals
  <1>4. ASSUME NEW e \in {"infrastructure", "configuration"}, Unwind(p, e, 0)
        PROVE  IInv'
    BY <1>1, <1>4, UnwindStep, OfficialTierAssumption
       DEF Errors, OfficialTierAssumption
  <1> QED BY <1>2, <1>3, <1>4

LEMMA RequireNoPendingStep ==
    ASSUME IInv, NEW p \in Procs, RequireNoPending(p)
    PROVE  IInv'
  <1> USE DEF RequireNoPending
  <1>1. /\ me[p] \in Locals /\ HistoryInv(me[p]) /\ me[p].pc = "require_no_pending"
        /\ journal \in [Directories -> 0..MaxTokens] /\ tokens \in 0..MaxTokens
        /\ UNCHANGED <<residue, journal, tokens, record>>
    BY DEF IInv, TypeOK, LocalInv, At
  <1>2. ASSUME NEW d \in Directories, Unwind(p, "pending", journal[d])
        PROVE  IInv'
    BY <1>1, <1>2, UnwindStep, OfficialTierAssumption
       DEF Errors, OfficialTierAssumption
  <1>3. CASE NothingPending /\ Goto(p, "resolve_image")
    <2>1. LocalInv([me[p] EXCEPT !.pc = "resolve_image"], journal', residue')
      BY <1>1, <1>3, EarlyLocal DEF BeforeAttempts, NothingPending
    <2> QED BY <1>1, <1>3, <2>1, GoesOn DEF Goto, Become, Locals
  <1>4. CASE Unwind(p, "infrastructure", 0)
    BY <1>1, <1>4, UnwindStep, OfficialTierAssumption
       DEF Errors, OfficialTierAssumption
  <1> QED BY <1>2, <1>3, <1>4 DEF Directories

LEMMA ResolveImageStep ==
    ASSUME IInv, NEW p \in Procs, ResolveImage(p)
    PROVE  IInv'
  <1> USE DEF ResolveImage
  <1>1. /\ me[p] \in Locals /\ HistoryInv(me[p]) /\ me[p].pc = "resolve_image"
        /\ CleanInv(me[p], journal, residue)
        /\ journal \in [Directories -> 0..MaxTokens] /\ tokens \in 0..MaxTokens
        /\ UNCHANGED <<residue, journal, tokens, record>>
    BY DEF IInv, TypeOK, LocalInv, At
  <1>2. CASE Goto(p, "official_attempt")
    <2>1. LocalInv([me[p] EXCEPT !.pc = "official_attempt"], journal', residue')
      BY <1>1, <1>2, EarlyLocal DEF BeforeAttempts, CleanInv
    <2> QED BY <1>1, <1>2, <2>1, GoesOn DEF Goto, Become, Locals
  <1>3. ASSUME NEW e \in {"preflight", "infrastructure", "configuration"},
               Unwind(p, e, 0)
        PROVE  IInv'
    BY <1>1, <1>3, UnwindStep, OfficialTierAssumption
       DEF Errors, OfficialTierAssumption
  <1> QED BY <1>2, <1>3

LEMMA RaisesStep ==
    ASSUME IInv, NEW p \in Procs, me[p].pc # "idle", NEW d \in Directories,
           Raises(p, d), UNCHANGED <<residue, record>>
    PROVE  IInv'
  <1>1. journal' \in [Directories -> 0..MaxTokens] /\ tokens' \in 0..MaxTokens
    BY NewJournalType DEF Raises, IInv
  <1>2. PICK e \in {"configuration", "unexpected"} : Unwind(p, e, 0)
    BY DEF Raises
  <1> QED BY <1>1, <1>2, UnwindStep, OfficialTierAssumption
       DEF Errors, OfficialTierAssumption

LEMMA OfficialAttemptStep ==
    ASSUME IInv, NEW p \in Procs, OfficialAttempt(p)
    PROVE  IInv'
  <1>1. /\ me[p] \in Locals /\ HistoryInv(me[p]) /\ me[p].pc = "official_attempt"
        /\ CleanInv(me[p], journal, residue) /\ TypeOK
        /\ UNCHANGED <<residue, record>>
    BY DEF IInv, TypeOK, LocalInv, At, OfficialAttempt
  <1>2. CASE Raises(p, "official")
    BY <1>1, <1>2, RaisesStep DEF Directories
  <1>3. ASSUME NEW r \in AttemptResults, Returns("official", r),
               LET h == Append(me[p].history, r)
                   v == RetryVerdict(h)
                   l == [me[p] EXCEPT !.history = h]
               IN CASE v = "again" -> Become(p, l)
                    [] v = "selected" ->
                         Become(p, [l EXCEPT !.pc = "audit_attempt"])
                    [] OTHER ->
                         Become(p, [l EXCEPT !.pc = "remove_snapshot",
                                             !.verdict = v])
        PROVE  IInv'
    <2> DEFINE h == Append(me[p].history, r)
               v == RetryVerdict(h)
               l == [me[p] EXCEPT !.history = h]
    <2>1. /\ journal' \in [Directories -> 0..MaxTokens]
          /\ tokens' \in 0..MaxTokens
          /\ r.pending => r.kind = "infrastructure_failure"
          /\ ~r.pending => journal' = journal
      BY <1>1, <1>3, ReturnsSound DEF Directories
    <2>2. me[p].history \in Histories /\ h \in Histories
      BY <1>1, CountAppend DEF Locals
    <2>3. /\ v \in Verdicts \cup {"again", "selected"}
          /\ v \in Scored \cup {"again", "selected"} => ~r.pending
          /\ v = "again" =>
                /\ Open(h, OfficialKinds)
                /\ CountOf(h, "execution_failure") < MaxParticipantAttempts
                /\ CountOf(h, "infrastructure_failure")
                      < MaxInfrastructureFailures
          /\ v = "selected" => Selected(h)
          /\ v \in Verdicts => Justified(v, h, <<>>)
      BY <1>1, <2>1, <2>2, RetrySound DEF HistoryInv, OfficialKinds
    <2>4. /\ me[p].audit = <<>> /\ me[p].error = "none"
          /\ \A d \in Directories : journal[d] = 0
      BY <1>1 DEF HistoryInv, CleanInv, Leaving
    <2> HIDE DEF h, v
    <2>5. CASE v = "again"
      <3>1. /\ l \in Locals /\ l.pc = "official_attempt" /\ l.history = h
            /\ l.audit = <<>> /\ l.error = "none"
        BY <1>1, <2>2, <2>4 DEF Locals
      <3>2. HistoryInv(l)
        BY <2>3, <2>5, <3>1 DEF HistoryInv, BeforeAttempts, Leaving, OfficialKinds
      <3>3. CleanInv(l, journal', residue')
        BY <2>1, <2>3, <2>4, <2>5, <3>1 DEF CleanInv, Leaving
      <3>4. Become(p, l)
        BY <1>3, <2>5 DEF h, v
      <3> HIDE DEF l
      <3> QED BY <1>1, <2>1, <3>1, <3>2, <3>3, <3>4, GoesOn DEF Become, LocalInv
    <2>6. CASE v = "selected"
      <3> DEFINE m == [l EXCEPT !.pc = "audit_attempt"]
      <3>1. /\ m \in Locals /\ m.pc = "audit_attempt" /\ m.history = h
            /\ m.audit = <<>> /\ m.error = "none"
        BY <1>1, <2>2, <2>4 DEF Locals, Places
      <3>2. HistoryInv(m)
        BY <2>3, <2>6, <3>1, CountEmpty, OfficialTierAssumption
           DEF HistoryInv, BeforeAttempts, Leaving, Open, OfficialTierAssumption
      <3>3. CleanInv(m, journal', residue')
        BY <2>1, <2>3, <2>4, <2>6, <3>1 DEF CleanInv, Leaving
      <3>4. Become(p, m)
        BY <1>3, <2>6 DEF h, v
      <3> HIDE DEF m
      <3> QED BY <1>1, <2>1, <3>1, <3>2, <3>3, <3>4, GoesOn DEF Become, LocalInv
    <2>7. CASE v \notin {"again", "selected"}
      <3> DEFINE m == [l EXCEPT !.pc = "remove_snapshot", !.verdict = v]
      <3>1. /\ m \in Locals /\ m.pc = "remove_snapshot" /\ m.history = h
            /\ m.audit = <<>> /\ m.error = "none" /\ m.verdict = v
        BY <1>1, <2>2, <2>3, <2>4, <2>7 DEF Locals, Places
      <3>2. HistoryInv(m)
        BY <2>3, <2>7, <3>1 DEF HistoryInv, BeforeAttempts, Leaving
      <3>3. CleanInv(m, journal', residue')
        BY <2>1, <2>3, <2>4, <3>1 DEF CleanInv, Leaving
      <3>4. Become(p, m)
        BY <1>3, <2>7 DEF h, v
      <3> HIDE DEF m
      <3> QED BY <1>1, <2>1, <3>1, <3>2, <3>3, <3>4, GoesOn DEF Become, LocalInv
    <2> QED BY <2>5, <2>6, <2>7
  <1> QED BY <1>2, <1>3 DEF OfficialAttempt

LEMMA AuditAttemptStep ==
    ASSUME IInv, NEW p \in Procs, AuditAttempt(p)
    PROVE  IInv'
  <1>1. /\ me[p] \in Locals /\ HistoryInv(me[p]) /\ me[p].pc = "audit_attempt"
        /\ CleanInv(me[p], journal, residue) /\ TypeOK
        /\ UNCHANGED <<residue, record>>
    BY DEF IInv, TypeOK, LocalInv, At, AuditAttempt
  <1>2. CASE Raises(p, "audit")
    BY <1>1, <1>2, RaisesStep DEF Directories
  <1>3. ASSUME NEW r \in AttemptResults, NEW same \in BOOLEAN,
               \/ Returns("audit", r)
               \/ /\ r = Result("infrastructure_failure", FALSE, 0)
                  /\ UNCHANGED <<journal, tokens>>,
               LET a == Append(me[p].audit, r)
                   v == AuditVerdict(a, same)
                   l == [me[p] EXCEPT !.audit = a]
               IN IF v = "again" THEN Become(p, l)
                  ELSE Become(p, [l EXCEPT !.pc = "remove_snapshot",
                                           !.verdict = v])
        PROVE  IInv'
    <2> DEFINE a == Append(me[p].audit, r)
               v == AuditVerdict(a, same)
               l == [me[p] EXCEPT !.audit = a]
               h == me[p].history
    <2>1. /\ journal' \in [Directories -> 0..MaxTokens]
          /\ tokens' \in 0..MaxTokens
          /\ r.pending => r.kind = "infrastructure_failure"
          /\ ~r.pending => journal' = journal
      BY <1>1, <1>3, ReturnsSound DEF Directories, Result, TypeOK
    <2>2. me[p].audit \in Histories /\ h \in Histories /\ a \in Histories
      BY <1>1, CountAppend DEF Locals
    <2>3. /\ v \in Verdicts \cup {"again"}
          /\ v \in Scored \cup {"again"} => ~r.pending
          /\ v = "again" =>
                /\ Open(a, {"infrastructure_failure"})
                /\ CountOf(a, "infrastructure_failure")
                      < MaxInfrastructureFailures
          /\ v \in Verdicts => Justified(v, h, a)
      BY <1>1, <2>1, <2>2, AuditSound DEF HistoryInv
    <2>4. /\ me[p].error = "none" /\ Selected(h)
          /\ \A d \in Directories : journal[d] = 0
      BY <1>1 DEF HistoryInv, CleanInv, Leaving
    <2>5. IF v = "again" THEN Become(p, l)
          ELSE Become(p, [l EXCEPT !.pc = "remove_snapshot", !.verdict = v])
      BY <1>3
    <2> HIDE DEF a, v
    <2>6. CASE v = "again"
      <3>1. /\ l \in Locals /\ l.pc = "audit_attempt" /\ l.history = h
            /\ l.audit = a /\ l.error = "none"
        BY <1>1, <2>2, <2>4 DEF Locals
      <3>2. HistoryInv(l)
        BY <2>3, <2>4, <2>6, <3>1 DEF HistoryInv, BeforeAttempts, Leaving
      <3>3. CleanInv(l, journal', residue')
        BY <2>1, <2>3, <2>4, <2>6, <3>1 DEF CleanInv, Leaving
      <3>4. Become(p, l)
        BY <2>5, <2>6
      <3> HIDE DEF l
      <3> QED BY <1>1, <2>1, <3>1, <3>2, <3>3, <3>4, GoesOn DEF Become, LocalInv
    <2>7. CASE v # "again"
      <3> DEFINE m == [l EXCEPT !.pc = "remove_snapshot", !.verdict = v]
      <3>1. /\ m \in Locals /\ m.pc = "remove_snapshot" /\ m.history = h
            /\ m.audit = a /\ m.error = "none" /\ m.verdict = v
        BY <1>1, <2>2, <2>3, <2>4, <2>7 DEF Locals, Places
      <3>2. HistoryInv(m)
        BY <2>3, <2>7, <3>1 DEF HistoryInv, BeforeAttempts, Leaving
      <3>3. CleanInv(m, journal', residue')
        BY <2>1, <2>3, <2>4, <3>1 DEF CleanInv, Leaving
      <3>4. Become(p, m)
        BY <2>5, <2>7
      <3> HIDE DEF m
      <3> QED BY <1>1, <2>1, <3>1, <3>2, <3>3, <3>4, GoesOn DEF Become, LocalInv
    <2> QED BY <2>6, <2>7
  <1> QED BY <1>2, <1>3 DEF AuditAttempt

LEMMA RemoveSnapshotStep ==
    ASSUME IInv, NEW p \in Procs, RemoveSnapshot(p)
    PROVE  IInv'
  <1>1. /\ me[p] \in Locals /\ HistoryInv(me[p]) /\ me[p].pc = "remove_snapshot"
        /\ CleanInv(me[p], journal, residue)
        /\ journal \in [Directories -> 0..MaxTokens] /\ tokens \in 0..MaxTokens
        /\ UNCHANGED <<journal, tokens, record>>
    BY DEF IInv, TypeOK, LocalInv, At, RemoveSnapshot
  <1>2. CASE residue' = FALSE /\ Goto(p, "publish")
    <2> DEFINE l == [me[p] EXCEPT !.pc = "publish"]
    <2>1. /\ l \in Locals /\ l.pc = "publish" /\ l.history = me[p].history
          /\ l.audit = me[p].audit /\ l.error = me[p].error
          /\ l.verdict = me[p].verdict
      BY <1>1 DEF Locals, Places
    <2>2. HistoryInv(l)
      BY <1>1, <2>1 DEF HistoryInv, BeforeAttempts, Leaving
    <2>3. CleanInv(l, journal', residue')
      BY <1>1, <1>2, <2>1 DEF CleanInv, Leaving
    <2>4. Become(p, l)
      BY <1>2 DEF Goto
    <2> HIDE DEF l
    <2> QED BY <1>1, <2>1, <2>2, <2>3, <2>4, GoesOn DEF Become, LocalInv
  <1>3. CASE Fail(p, "infrastructure")
    <2>1. LocalInv([me[p] EXCEPT !.pc = "publish", !.error = "infrastructure"],
                   journal', residue')
      BY <1>1, ErrorLocal, OfficialTierAssumption
         DEF Leaving, Errors, OfficialTierAssumption
    <2> QED BY <1>1, <1>3, <2>1, GoesOn DEF Fail, Become, Locals
  <1> QED BY <1>2, <1>3 DEF RemoveSnapshot

-----------------------------------------------------------------------------
(* The end of a run.                                                       *)

\* What a run publishes is justified, and only what it concluded itself scores.
LEMMA RecordJustified ==
    ASSUME IInv, NEW p \in Procs, me[p].pc = "publish"
    PROVE  LET rec == RecordOf(me[p])
           IN /\ Justified(rec.status, rec.history, rec.audit)
              /\ me[p].error \notin {"none", "unexpected"}
                    => rec.status \notin Scored
              /\ me[p].error = "none" => rec.status = me[p].verdict
  <1> DEFINE rec == RecordOf(me[p])
  <1>1. /\ me[p].error \in Errors /\ HistoryInv(me[p])
        /\ Justified(record.status, record.history, record.audit)
    BY DEF IInv, TypeOK, LocalInv, Locals, HistoryJustifiesRecord
  <1>2. CASE me[p].error = "none"
    <2>1. rec = [status |-> me[p].verdict, history |-> me[p].history,
                 audit |-> me[p].audit, id |-> 0]
      BY <1>2 DEF RecordOf
    <2> QED BY <1>1, <1>2, <2>1 DEF HistoryInv, Leaving
  <1>3. ASSUME NEW s \in {"infrastructure_unavailable", "configuration_error",
                          "submission_preflight_rejected"},
               rec.status = s, rec.history = <<>>
        PROVE  Justified(rec.status, rec.history, rec.audit) /\ s \notin Scored
    BY <1>3 DEF Justified, Scored
  <1>4. CASE me[p].error = "pending"
    <2>1. CASE MatchesCleanupAttempt(record, me[p].id)
      BY <1>1, <1>4, <2>1 DEF RecordOf, MatchesCleanupAttempt, Scored
    <2>2. CASE ~MatchesCleanupAttempt(record, me[p].id)
      <3>1. rec.status = "infrastructure_unavailable" /\ rec.history = <<>>
        BY <1>4, <2>2 DEF RecordOf, Bare, NoRecord
      <3> QED BY <1>3, <1>4, <3>1
    <2> QED BY <2>1, <2>2
  <1>5. CASE me[p].error = "preflight"
    <2>1. rec.status = "submission_preflight_rejected" /\ rec.history = <<>>
      BY <1>5 DEF RecordOf, Bare, NoRecord
    <2> QED BY <1>3, <1>5, <2>1
  <1>6. CASE me[p].error = "infrastructure"
    <2>1. rec.status = "infrastructure_unavailable" /\ rec.history = <<>>
      BY <1>6 DEF RecordOf, Bare, NoRecord
    <2> QED BY <1>3, <1>6, <2>1
  <1>7. CASE me[p].error = "configuration"
    <2>1. rec.status = "configuration_error" /\ rec.history = <<>>
      BY <1>7 DEF RecordOf, Bare, NoRecord
    <2> QED BY <1>3, <1>7, <2>1
  <1>8. CASE me[p].error = "unexpected"
    BY <1>1, <1>8 DEF RecordOf
  <1> QED BY <1>1, <1>2, <1>4, <1>5, <1>6, <1>7, <1>8 DEF Errors

LEMMA PublishStep ==
    ASSUME IInv, NEW p \in Procs, PublishRecord(p) \/ PublishFails(p)
    PROVE  IInv'
  <1>1. /\ me[p].pc = "publish" /\ UNCHANGED <<journal, tokens>>
        /\ record' \in {record, RecordOf(me[p])}
        /\ \E code : EndRun(p, code)
    BY DEF PublishRecord, PublishFails, At
  <1>2. HistoryJustifiesRecord'
    BY <1>1, RecordJustified DEF HistoryJustifiesRecord, IInv
  <1>3. /\ journal' \in [Directories -> 0..MaxTokens]
        /\ tokens' \in 0..MaxTokens
    BY <1>1 DEF IInv, TypeOK
  <1> QED BY <1>1, <1>2, <1>3, Ends

LEMMA CrashStep ==
    ASSUME IInv, NEW p \in Procs, Crash(p)
    PROVE  IInv'
  <1>1. /\ me[p].pc # "idle" /\ EndRun(p, NoExit)
        /\ record' = record
    BY DEF Crash, At
  <1>2. /\ journal' \in [Directories -> 0..MaxTokens]
        /\ tokens' \in 0..MaxTokens
    <2>1. CASE UNCHANGED <<journal, tokens>>
      BY <2>1 DEF IInv, TypeOK
    <2>2. ASSUME NEW d \in Directories, NEW j \in 1..MaxTokens, NewJournal(d, j)
          PROVE  /\ journal' \in [Directories -> 0..MaxTokens]
                 /\ tokens' \in 0..MaxTokens
      BY <2>2, NewJournalType, OfficialTierAssumption
         DEF IInv, OfficialTierAssumption
    <2> QED BY <2>1, <2>2 DEF Crash, Directories
  <1>3. HistoryJustifiesRecord'
    BY <1>1 DEF IInv, HistoryJustifiesRecord
  <1> QED BY <1>1, <1>2, <1>3, Ends

-----------------------------------------------------------------------------
LEMMA StartRunStep ==
    ASSUME IInv, NEW p \in Procs, StartRun(p)
    PROVE  IInv'
  <1> DEFINE l == [me[p] EXCEPT !.pc = "private_work"]
  <1>1. /\ me[p] \in Locals /\ HistoryInv(me[p]) /\ me[p].pc = "idle"
        /\ me \in [Procs -> Locals]
        /\ root = NoProc /\ root' = p /\ me' = [me EXCEPT ![p] = l]
        /\ exit' = [exit EXCEPT ![p] = NoExit]
        /\ UNCHANGED <<residue, journal, record, tokens>>
    BY DEF IInv, TypeOK, LocalInv, At, StartRun
  <1>2. \A q \in Procs : me[q].pc = "idle"
    BY <1>1, OfficialTierAssumption DEF IInv, RootInv, OfficialTierAssumption
  <1>3. l.pc = "private_work" /\ LocalInv(l, journal', residue')
    <2>1. LocalInv(l, journal', residue')
      BY <1>1, EarlyLocal DEF BeforeAttempts
    <2>2. l.pc = "private_work"
      BY <1>1 DEF Locals
    <2> QED BY <2>1, <2>2
  <1> HIDE DEF l
  <1>4. TypeOK'
    BY <1>1, <1>3 DEF IInv, TypeOK, LocalInv
  <1>5. RootInv'
    BY <1>1, <1>2, <1>3 DEF RootInv
  <1>6. \A q \in Procs : LocalInv(me[q], journal, residue)'
    BY <1>1, <1>3 DEF IInv
  <1>7. HistoryJustifiesRecord'
    BY <1>1 DEF IInv, HistoryJustifiesRecord
  <1> QED BY <1>4, <1>5, <1>6, <1>7 DEF IInv

\* Others take a journal or the residue away, but leave none.
LEMMA OutsideStep ==
    ASSUME IInv, UNCHANGED <<root, record, me, tokens>>, DOMAIN exit' = Procs,
           \/ UNCHANGED journal
           \/ \E d \in Directories : journal' = [journal EXCEPT ![d] = 0],
           residue' => residue
    PROVE  IInv'
  <1>1. TypeOK' /\ \A d \in Directories : journal[d] = 0 => journal'[d] = 0
    BY OfficialTierAssumption DEF IInv, TypeOK, OfficialTierAssumption
  <1>2. RootInv'
    BY DEF IInv, RootInv
  <1>3. ASSUME NEW p \in Procs PROVE LocalInv(me[p], journal, residue)'
    BY <1>1 DEF IInv, LocalInv, CleanInv
  <1>4. HistoryJustifiesRecord'
    BY DEF IInv, HistoryJustifiesRecord
  <1> QED BY <1>1, <1>2, <1>3, <1>4 DEF IInv

LEMMA InitInv == Init => IInv
  <1> SUFFICES ASSUME Init PROVE IInv
    OBVIOUS
  <1>1. TypeOK
    BY IdleType, OfficialTierAssumption DEF Init, TypeOK, OfficialTierAssumption
  <1>2. RootInv
    BY OfficialTierAssumption DEF Init, RootInv, Idle, OfficialTierAssumption
  <1>3. \A p \in Procs : LocalInv(me[p], journal, residue)
    BY IdleInv DEF Init
  <1>4. HistoryJustifiesRecord
    BY DEF Init, HistoryJustifiesRecord, Justified, NoRecord
  <1> QED BY <1>1, <1>2, <1>3, <1>4 DEF IInv

LEMMA NextInv == IInv /\ [Next]_vars => IInv'
  <1> SUFFICES ASSUME IInv, [Next]_vars PROVE IInv'
    OBVIOUS
  <1>1. ASSUME NEW p \in Procs, Run(p) PROVE IInv'
    BY <1>1, ValidatePrivateWorkStep, TakeSnapshotStep, RequireNoPendingStep,
       ResolveImageStep, OfficialAttemptStep, AuditAttemptStep,
       RemoveSnapshotStep, PublishStep DEF Run
  <1>2. ASSUME NEW p \in Procs, ContendRoot(p) PROVE IInv'
    BY <1>2, OutsideStep DEF ContendRoot, IInv, TypeOK
  <1>3. ASSUME NEW d \in Directories, StartCleaning(d) \/ EndCleaning(d)
        PROVE  IInv'
    BY <1>3, OutsideStep DEF StartCleaning, EndCleaning, IInv, TypeOK
  <1>4. CASE ClearPrivateWork
    BY <1>4, OutsideStep DEF ClearPrivateWork, IInv, TypeOK
  <1>5. CASE UNCHANGED vars
    BY <1>5, OutsideStep DEF vars, IInv, TypeOK
  <1> QED BY <1>1, <1>2, <1>3, <1>4, <1>5, StartRunStep, CrashStep DEF Next

\* What every state of one output root promises.
THEOREM Invariance == Spec => []IInv
  BY InitInv, NextInv, PTL DEF Spec

-----------------------------------------------------------------------------
\* No attempt, official or audit, is made beside the journal of an earlier one
\* (require_no_pending_runtime_resources, and a pending result ends the run).
THEOREM AttemptsNeverBesidePending == Spec => []NoAttemptBesidePending
  <1>1. IInv => NoAttemptBesidePending
    BY DEF IInv, LocalInv, CleanInv, NoAttemptBesidePending
  <1> QED BY <1>1, Invariance, PTL

\* A published status follows from the attempts listed with it
\* (run_with_retry, run_id_order_audit).
THEOREM RecordsAreJustified == Spec => []HistoryJustifiesRecord
  <1>1. IInv => HistoryJustifiesRecord
    BY DEF IInv
  <1> QED BY <1>1, Invariance, PTL

\* A run that ends with code 0 has just published its record: a crash has no
\* exit code, a failed publication 4, and every other step keeps p where it is.
LEMMA RunEndsByPublishing ==
    ASSUME IInv, Next, NEW p \in Procs, ~At(p, "idle"), me'[p].pc = "idle",
           exit'[p] = 0
    PROVE  PublishRecord(p)
  <1>1. /\ me \in [Procs -> Locals] /\ DOMAIN exit = Procs
        /\ \A q \in Procs : me[q].pc # "idle" <=> q = p
    BY DEF IInv, TypeOK, RootInv, At
  <1>2. me'[p] # me[p]
    BY DEF At
  <1>3. ~Crash(p) /\ ~PublishFails(p)
    BY <1>1 DEF Crash, PublishFails, EndRun, NoExit
  <1>4. ASSUME NEW l, l.pc # "idle", Become(p, l) PROVE FALSE
    BY <1>1, <1>4 DEF Become
  <1>5. ASSUME NEW place \in Places \ {"idle"}, Goto(p, place) PROVE FALSE
    BY <1>1, <1>5 DEF Goto, Become, Locals
  <1>6. ASSUME NEW e, Fail(p, e) PROVE FALSE
    BY <1>1, <1>6 DEF Fail, Become, Locals
  <1>7. ASSUME NEW e, NEW id, Unwind(p, e, id) PROVE FALSE
    BY <1>1, <1>7 DEF Unwind, Become, Locals
  <1>8. ~ValidatePrivateWork(p) /\ ~TakeSnapshot(p) /\ ~RequireNoPending(p)
        /\ ~ResolveImage(p) /\ ~RemoveSnapshot(p)
    BY <1>5, <1>6, <1>7
       DEF ValidatePrivateWork, TakeSnapshot, RequireNoPending, ResolveImage,
           RemoveSnapshot, Places
  <1>9. \A d : ~Raises(p, d)
    BY <1>7 DEF Raises
  <1>10. ~OfficialAttempt(p)
    <2> SUFFICES ASSUME OfficialAttempt(p) PROVE FALSE
      OBVIOUS
    <2>1. PICK r \in AttemptResults :
             LET h == Append(me[p].history, r)
                 v == RetryVerdict(h)
                 l == [me[p] EXCEPT !.history = h]
             IN CASE v = "again" -> Become(p, l)
                  [] v = "selected" ->
                       Become(p, [l EXCEPT !.pc = "audit_attempt"])
                  [] OTHER ->
                       Become(p, [l EXCEPT !.pc = "remove_snapshot",
                                           !.verdict = v])
      BY <1>9 DEF OfficialAttempt
    <2> DEFINE h == Append(me[p].history, r)
               v == RetryVerdict(h)
               l == [me[p] EXCEPT !.history = h]
    <2>2. \/ Become(p, l)
          \/ Become(p, [l EXCEPT !.pc = "audit_attempt"])
          \/ Become(p, [l EXCEPT !.pc = "remove_snapshot", !.verdict = v])
      BY <2>1
    <2>3. /\ l.pc # "idle" /\ [l EXCEPT !.pc = "audit_attempt"].pc # "idle"
          /\ [l EXCEPT !.pc = "remove_snapshot", !.verdict = v].pc # "idle"
      BY <1>1 DEF Locals
    <2> QED BY <1>4, <2>2, <2>3
  <1>11. ~AuditAttempt(p)
    <2> SUFFICES ASSUME AuditAttempt(p) PROVE FALSE
      OBVIOUS
    <2>1. PICK r \in AttemptResults, same \in BOOLEAN :
             LET h == Append(me[p].audit, r)
                 v == AuditVerdict(h, same)
                 l == [me[p] EXCEPT !.audit = h]
             IN IF v = "again" THEN Become(p, l)
                ELSE Become(p, [l EXCEPT !.pc = "remove_snapshot", !.verdict = v])
      BY <1>9 DEF AuditAttempt
    <2> DEFINE h == Append(me[p].audit, r)
               v == AuditVerdict(h, same)
               l == [me[p] EXCEPT !.audit = h]
    <2>2. \/ Become(p, l)
          \/ Become(p, [l EXCEPT !.pc = "remove_snapshot", !.verdict = v])
      BY <2>1
    <2>3. /\ l.pc # "idle"
          /\ [l EXCEPT !.pc = "remove_snapshot", !.verdict = v].pc # "idle"
      BY <1>1 DEF Locals
    <2> QED BY <1>4, <2>2, <2>3
  <1>12. ASSUME NEW q \in Procs, q # p, Run(q) \/ Crash(q) PROVE FALSE
    <2>1. me[q].pc = "idle"
      BY <1>1, <1>12
    <2> QED BY <1>12, <2>1
         DEF Run, Crash, ValidatePrivateWork, TakeSnapshot, RequireNoPending,
             ResolveImage, OfficialAttempt, AuditAttempt, RemoveSnapshot,
             PublishRecord, PublishFails, At
  <1>13. \A q \in Procs : ~StartRun(q)
    BY <1>1, OfficialTierAssumption
       DEF StartRun, IInv, RootInv, At, OfficialTierAssumption
  <1>14. ~(\E q \in Procs : ContendRoot(q))
    BY <1>2 DEF ContendRoot
  <1>15. ~(\E d \in Directories : StartCleaning(d) \/ EndCleaning(d))
    BY <1>2 DEF StartCleaning, EndCleaning
  <1>16. ~ClearPrivateWork
    BY <1>2 DEF ClearPrivateWork
  <1> QED BY <1>3, <1>8, <1>10, <1>11, <1>12, <1>13, <1>14, <1>15, <1>16
          DEF Next, Run

\* Exit code 0 takes a record that can be scored, no journal and no private
\* input left behind (run_official_tier).
THEOREM ScoredRunsAreClean == Spec => ScoredRunIsClean
  <1> DEFINE Clean == \A p \in Procs :
                 ~At(p, "idle") /\ me'[p].pc = "idle" /\ exit'[p] = 0 =>
                     /\ record'.status \in Scored
                     /\ \A d \in Directories : journal'[d] = 0
                     /\ ~residue'
  <1>1. IInv /\ [Next]_vars => [Clean]_vars
    <2> SUFFICES ASSUME IInv, Next, NEW p \in Procs, ~At(p, "idle"),
                        me'[p].pc = "idle", exit'[p] = 0
                 PROVE  /\ record'.status \in Scored
                        /\ \A d \in Directories : journal'[d] = 0
                        /\ ~residue'
      OBVIOUS
    <2>1. PublishRecord(p)
      BY RunEndsByPublishing
    <2>2. /\ me[p].pc = "publish" /\ CodeOf(me[p]) = 0
          /\ record' = RecordOf(me[p]) /\ UNCHANGED <<residue, journal>>
      BY <2>1 DEF PublishRecord, EndRun, At, IInv, TypeOK
    <2>3. me[p].error = "none" /\ me[p].verdict \in Scored
      <3>1. /\ me[p].error \in Errors
            /\ me[p].error = "none" => me[p].verdict \in Verdicts
        BY <2>2 DEF IInv, TypeOK, LocalInv, Locals, HistoryInv, Leaving
      <3>2. CASE me[p].error = "none"
        BY <2>2, <3>1, <3>2 DEF CodeOf, ExitCode, Verdicts, Scored
      <3>3. CASE me[p].error = "unexpected"
        BY <2>2, <3>3 DEF CodeOf
      <3>4. CASE me[p].error \notin {"none", "unexpected"}
        <4>1. ExitCode(RecordOf(me[p]).status) = 0
          BY <2>2, <3>4 DEF CodeOf
        <4>2. RecordOf(me[p]).status \in
                 {"infrastructure_unavailable", "submission_preflight_rejected",
                  "audit_inconclusive_infrastructure", "configuration_error"}
          BY <3>1, <3>4
             DEF Errors, RecordOf, MatchesCleanupAttempt, Bare, NoRecord
        <4> QED BY <4>1, <4>2 DEF ExitCode, Scored
      <3> QED BY <3>1, <3>2, <3>3, <3>4
    <2>4. record'.status \in Scored
      BY <2>2, <2>3, RecordJustified
    <2> QED BY <2>2, <2>3, <2>4 DEF IInv, LocalInv, CleanInv, Leaving
  <1>2. [][Clean]_vars => ScoredRunIsClean
    BY PTL DEF ScoredRunIsClean
  <1> QED BY <1>1, <1>2, Invariance, PTL DEF Spec

\* A run that publishes while a journal is left leaves no record that can be
\* scored, its own or an older one (_record_matches_cleanup_attempt).
THEOREM PendingIsNeverHidden == Spec => PendingNotHidden
  <1> DEFINE Shown == \A p \in Procs :
                 /\ PublishRecord(p)
                 /\ me[p].error # "unexpected"
                 /\ \E d \in Directories : journal[d] # 0
                 => record'.status \notin Scored
  <1>1. IInv /\ [Next]_vars => [Shown]_vars
    <2> SUFFICES ASSUME IInv, NEW p \in Procs, PublishRecord(p),
                        me[p].error # "unexpected", NEW d \in Directories,
                        journal[d] # 0
                 PROVE  record'.status \notin Scored
      OBVIOUS
    <2>1. me[p].pc = "publish" /\ record' = RecordOf(me[p])
      BY DEF PublishRecord, At
    <2>2. CASE me[p].error = "none"
      BY <2>1, <2>2, RecordJustified DEF IInv, LocalInv, CleanInv, Leaving
    <2>3. CASE me[p].error # "none"
      BY <2>1, <2>3, RecordJustified
    <2> QED BY <2>2, <2>3
  <1>2. [][Shown]_vars => PendingNotHidden
    BY PTL DEF PendingNotHidden
  <1> QED BY <1>1, <1>2, Invariance, PTL DEF Spec

=============================================================================
