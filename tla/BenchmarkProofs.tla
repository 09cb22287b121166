-------------------------- MODULE BenchmarkProofs ---------------------------
(***************************************************************************)
(* The pair of reports, for any number of processes, reports and failures: *)
(* one publication is at work at a time, a pair without a marker matches,  *)
(* a rollback restores, and the old pair is not lost while a marker stands *)
(* (with the exceptions that the auxiliary `unguarded` records).           *)
(* Then benchmarks beside each other, of which the steps of ReportPair are *)
(* a part, for any number of them, of source trees, of reports and of      *)
(* failures: a report is about one tree, containers run one by one, and one*)
(* publication at a time is at work on the pair.                           *)
(***************************************************************************)
EXTENDS Benchmark, FiniteSetTheorems, TLAPS

Places == Guarded \cup {"idle", "mark", "sync_unmark", "sweep"}
Locals == [pc : Places, tok : 0..MaxReports, out : Outputs,
           published : SUBSET Outputs, kept : SUBSET Outputs]
Pairs == [Outputs -> 0..MaxReports]

PairType ==
    /\ file \in Pairs /\ marker \in 0..MaxReports
    /\ backup \in [Reports -> Pairs] /\ before \in [Reports -> Pairs]
    /\ me \in [Procs -> Locals]
    /\ started \in Reports /\ unguarded \in BOOLEAN /\ spoiled \in SUBSET Reports

\* Every publication has a number of its own, and its backups are nobody else's.
Tokens ==
    /\ \A p \in Procs : ~At(p, "idle") => me[p].tok \in 1..started
    /\ \A p, q \in Procs :
          ~At(p, "idle") /\ ~At(q, "idle") /\ me[p].tok = me[q].tok => p = q
    /\ marker <= started
    /\ \A t \in Reports : t > started => backup[t] = Neither
    /\ \A p \in Procs : At(p, "mark") =>
          backup[me[p].tok] = Neither /\ me[p].published = {} /\ me[p].kept = {}

\* Who works on the files does so under a marker of his own, which only a rollback
\* may miss; a publication that left one behind either died or could not roll back.
Markers ==
    \A p \in Procs :
        /\ me[p].pc \in Guarded \ Undoing => marker = me[p].tok
        /\ me[p].pc \in Undoing => marker \in {me[p].tok, 0}
        /\ me[p].pc \in {"mark", "sync_unmark"} => marker # me[p].tok
        /\ At(p, "sweep") /\ marker = me[p].tok => marker \in spoiled

\* Whether the rollback of l has removed, or put back, output o.
Undone(l, o) == \/ l.pc = "undo_unlink" /\ o < l.out
                \/ l.pc \in {"undo_restore", "undo_sync", "undo_unmark"}
Restored(l, o) == \/ l.pc = "undo_restore" /\ o < l.out
                  \/ l.pc \in {"undo_sync", "undo_unmark"}

\* What the place of a publication says of output o: of the file f, the backup k
\* and the file b there was before.
Holds(l, o, f, k, b) ==
    /\ f = IF o \in l.published /\ ~Undone(l, o) THEN l.tok
           ELSE IF o \in l.kept /\ ~Restored(l, o) THEN 0 ELSE b
    /\ o \in l.kept /\ ~Restored(l, o) => k = b
    /\ o \notin l.kept => k = 0
    /\ o \in l.published /\ o \notin l.kept => b = 0
    /\ l.pc = "stage" => o \notin l.kept /\ o \notin l.published
    /\ l.pc = "backup" =>
          /\ o \notin l.published
          /\ o \in l.kept => o < l.out
          /\ o < l.out /\ o \notin l.kept => b = 0
    /\ l.pc \in {"publish", "sync", "unmark", "sync_unmark"} /\ o \notin l.kept => b = 0
    /\ l.pc = "publish" => (o \in l.published <=> o < l.out)
    /\ l.pc \in {"sync", "unmark", "sync_unmark"} => o \in l.published

\* Output o, with f in it, as l left it: once its marker is gone (m is not its own),
\* a later publication may have replaced what l put there.
Left(l, o, m, f) == IF o \in l.published /\ ~Undone(l, o) /\ m # l.tok THEN l.tok ELSE f

\* What holds of the files for l, which works on them or may have to roll back.
Kept(l) ==
    /\ before[l.tok][1] = before[l.tok][2]
    /\ \A o \in Outputs :
          Holds(l, o, Left(l, o, marker, file[o]), backup[l.tok][o], before[l.tok][o])
Contents == \A p \in Procs : me[p].pc \in Guarded \cup {"sync_unmark"} => Kept(me[p])

Orderly == OnePublisher /\ Markers /\ Contents /\ UnmarkedPairMatches /\ OldPairKept
PairInv == PairType /\ Tokens /\ (~unguarded => Orderly)

USE ReportPairAssumption DEF At, Rearranging

-----------------------------------------------------------------------------
(* Local states.                                                           *)

\* A loop starts with the first output.
LEMMA FirstOutput == 1 \in Outputs /\ 2 \in Outputs
  BY DEF Outputs

\* What the next round of a loop, or its end, leaves.
LEMMA OnwardsIs ==
    ASSUME NEW l \in Locals, NEW place \in Places, NEW m, m = Onwards(l, place)
    PROVE  /\ m \in Locals
           /\ m.tok = l.tok /\ m.published = l.published /\ m.kept = l.kept
           /\ l.out = 1 => m.out = 2 /\ m.pc = l.pc
           /\ l.out # 1 => m.out = 1 /\ m.pc = place
  <1>1. CASE l.out = 1
    <2>1. m = [l EXCEPT !.out = 2] /\ 2 \in Outputs
      BY <1>1 DEF Onwards, Outputs
    <2> QED BY <1>1, <2>1 DEF Locals
  <1>2. CASE l.out # 1
    <2>1. m = [l EXCEPT !.pc = place, !.out = 1]
      BY <1>2 DEF Onwards
    <2> QED BY <1>2, <2>1, FirstOutput DEF Locals
  <1> QED BY <1>1, <1>2

\* The state of a process that does nothing.
LEMMA IdleIs == Idle \in Locals /\ Idle.pc = "idle"
  BY DEF Idle, Locals, Places, Outputs

\* A pair without one of its files is a pair.
LEMMA CutsToPair ==
    ASSUME NEW k \in Pairs, NEW o
    PROVE  [k EXCEPT ![o] = 0] \in Pairs
  <1>1. 0 \in 0..MaxReports
    OBVIOUS
  <1> QED BY <1>1 DEF Pairs

-----------------------------------------------------------------------------
(* What a step of a publication has to promise.                            *)

\* Nothing, for types and tokens, as long as it keeps to its own backups.
LEMMA TokenStep ==
    ASSUME PairType, Tokens, NEW p \in Procs, ~At(p, "idle"),
           NEW l \in Locals, Become(p, l), l.pc # "mark",
           l.pc # "idle" => l.tok = me[p].tok,
           UNCHANGED started, marker' \in {marker, 0, me[p].tok},
           backup' \in [Reports -> Pairs],
           \A t \in Reports : t # me[p].tok => backup'[t] = backup[t]
    PROVE  Tokens' /\ me' \in [Procs -> Locals] /\ marker' \in 0..MaxReports
  <1>1. me' \in [Procs -> Locals]
        /\ \A q \in Procs : me'[q] = IF q = p THEN l ELSE me[q]
    BY DEF Become, PairType
  <1>2. me[p].tok \in 1..started /\ me[p].tok \in Reports
    BY DEF Tokens, PairType, Reports
  <1>3. /\ \A q \in Procs : ~At(q, "idle")' => me'[q].tok \in 1..started'
        /\ \A q, r \in Procs :
             ~At(q, "idle")' /\ ~At(r, "idle")' /\ me'[q].tok = me'[r].tok => q = r
    BY <1>1, <1>2 DEF Tokens, At
  <1>4. marker' <= started' /\ marker' \in 0..MaxReports
    BY <1>2 DEF Tokens, PairType, Reports
  <1>5. \A t \in Reports : t > started' => backup'[t] = Neither
    BY <1>2 DEF Tokens, PairType, Reports
  <1>6. \A q \in Procs : At(q, "mark")' =>
           /\ backup'[me'[q].tok] = Neither
           /\ me'[q].published = {} /\ me'[q].kept = {}
    <2> SUFFICES ASSUME NEW q \in Procs, At(q, "mark")'
                 PROVE  /\ backup'[me'[q].tok] = Neither
                        /\ me'[q].published = {} /\ me'[q].kept = {}
      OBVIOUS
    <2>1. q # p /\ me'[q] = me[q] /\ me[q].pc = "mark"
      BY <1>1 DEF At
    <2>2. me[q].tok \in Reports /\ me[q].tok # me[p].tok
      BY <2>1 DEF Tokens, At, Reports, PairType
    <2> QED BY <2>1, <2>2 DEF Tokens, At
  <1> QED BY <1>1, <1>3, <1>4, <1>5, <1>6 DEF Tokens, Neither

\* A marker is not its own once it is gone, so what l left of the files, which may
\* have to be rolled back, no step of another publication changes.
LEMMA OthersKept ==
    ASSUME NEW l \in Locals, l.pc = "sync_unmark", l.tok \in Reports, Kept(l),
           marker # l.tok, marker' # l.tok,
           backup'[l.tok] = backup[l.tok], before'[l.tok] = before[l.tok]
    PROVE  Kept(l)'
  <1>1. ASSUME NEW o \in Outputs
        PROVE  /\ Left(l, o, marker, file[o]) = l.tok
               /\ Left(l, o, marker', file'[o]) = l.tok
    BY DEF Kept, Holds, Left, Undone
  <1> QED BY <1>1 DEF Kept

\* A rollback that has put the files back found the pair it leaves.
LEMMA Rolled ==
    ASSUME PairType, Tokens, Orderly, NEW p \in Procs,
           me[p].pc \in {"undo_sync", "undo_unmark"}
    PROVE  file = before[me[p].tok] /\ file[1] = file[2]
  <1>1. me[p].tok \in Reports
    BY DEF Tokens, PairType, Reports
  <1>2. PICK b \in Pairs : b = before[me[p].tok]
    BY <1>1 DEF PairType
  <1>3. Kept(me[p])
    BY DEF Orderly, Contents, Guarded, Undoing
  <1>4. \A o \in Outputs : file[o] = b[o]
    BY <1>2, <1>3 DEF Kept, Holds, Left, Undone, Restored
  <1>5. b[1] = b[2]
    BY <1>2, <1>3 DEF Kept
  <1> QED BY <1>2, <1>4, <1>5, FirstOutput DEF PairType, Pairs

\* While it works, what its new place says of the files; no other is at work.
LEMMA WorkStep ==
    ASSUME PairType, Tokens, Orderly, ~unguarded, NEW p \in Procs,
           me[p].pc \in Guarded \cup {"sync_unmark"},
           \A q \in Procs : q # p => me[q].pc \notin Guarded,
           marker \in {me[p].tok, 0},
           NEW l \in Locals, Become(p, l), l.pc \in Guarded, l.tok = me[p].tok,
           l.pc \in Undoing \/ marker = l.tok,
           UNCHANGED <<marker, before, spoiled>>,
           \A t \in Reports : t # l.tok => backup'[t] = backup[t],
           \A o \in Outputs :
               Holds(l, o, Left(l, o, marker, file'[o]), backup'[l.tok][o],
                     before[l.tok][o])
    PROVE  Orderly'
  <1>1. \A q \in Procs : me'[q] = IF q = p THEN l ELSE me[q]
    BY DEF Become, PairType
  <1>2. \A q \in Procs : q # p /\ ~At(q, "idle") =>
            me[q].tok # marker /\ me[q].tok # l.tok /\ me[q].tok \in Reports
    BY DEF Tokens, At, Guarded, Undoing, PairType, Reports
  <1>3. OnePublisher'
    BY <1>1 DEF OnePublisher
  <1>4. Markers'
    BY <1>1, <1>2 DEF Markers, At, Guarded, Undoing, Orderly
  <1>5. before[l.tok][1] = before[l.tok][2]
    BY DEF Orderly, Contents, Kept
  <1>6. Contents'
    <2>1. Kept(l)'
      BY <1>5 DEF Kept
    <2>2. ASSUME NEW q \in Procs, q # p, me'[q].pc \in Guarded \cup {"sync_unmark"}
          PROVE  Kept(me[q])'
      <3>1. me[q].pc = "sync_unmark" /\ me[q] \in Locals
        BY <1>1, <2>2 DEF PairType
      <3>2. Kept(me[q]) /\ me[q].tok \in Reports /\ me[q].tok # l.tok
            /\ marker # me[q].tok
        BY <1>2, <2>2, <3>1 DEF Orderly, Contents
      <3>3. PICK k \in Locals : k = me[q]
        BY <3>1
      <3>4. Kept(k)'
        BY <3>1, <3>2, <3>3, OthersKept
      <3> QED BY <1>1, <2>2, <3>3, <3>4
    <2> QED BY <1>1, <2>1, <2>2 DEF Contents
  <1>7. UnmarkedPairMatches'
    <2> SUFFICES ASSUME marker = 0, l.pc \notin {"undo_unlink", "undo_restore"}
                 PROVE  file'[1] = file'[2]
      BY <1>1 DEF UnmarkedPairMatches
    <2>1. l.tok # 0
      BY DEF Tokens, At, Guarded, Undoing, PairType, Reports
    <2>2. l.pc \in {"undo_sync", "undo_unmark"}
      BY <2>1 DEF Undoing
    <2>3. \A o \in Outputs : file'[o] = before[l.tok][o]
      BY <2>2 DEF Holds, Left, Undone, Restored
    <2> QED BY <1>5, <2>3, FirstOutput
  <1>8. OldPairKept'
    <2> SUFFICES ASSUME marker # 0, NEW o \in Outputs
                 PROVE  before[marker][o] \in {file'[o], backup'[marker][o]}
      BY DEF OldPairKept
    <2> QED BY DEF Holds, Left, Undone, Restored
  <1> QED BY <1>3, <1>4, <1>6, <1>7, <1>8 DEF Orderly

\* When it stops working, that the marker it removes, or has not, leaves a matching
\* pair, and that one it leaves is not taken for one under which all is well.
LEMMA LeaveStep ==
    ASSUME PairType, Tokens, Orderly, ~unguarded, NEW p \in Procs, me[p].pc \in Guarded,
           NEW l \in Locals, Become(p, l), l.tok = me[p].tok \/ l.pc = "idle",
           l.pc \in {"idle", "sweep", "sync_unmark"},
           UNCHANGED <<file, backup, before>>, marker' \in {marker, 0},
           spoiled \subseteq spoiled',
           marker' = 0 => file[1] = file[2],
           l.pc = "sweep" /\ marker' # 0 => marker \in spoiled',
           l.pc = "sync_unmark" =>
               /\ marker' = 0 /\ me[p].pc = "unmark"
               /\ l.published = me[p].published /\ l.kept = me[p].kept
    PROVE  Orderly'
  <1>1. \A q \in Procs : me'[q] = IF q = p THEN l ELSE me[q]
    BY DEF Become, PairType
  <1>2. marker \in {me[p].tok, 0} /\ me[p].tok # 0
    BY DEF Orderly, Markers, Tokens, At, Guarded, Undoing, PairType, Reports
  <1>3. \A q \in Procs : q # p => me[q].pc \notin Guarded
    BY DEF Orderly, OnePublisher
  <1>4. \A q \in Procs : q # p /\ ~At(q, "idle") =>
            me[q].tok # marker /\ me[q].tok # marker' /\ me[q].tok \in Reports
    BY <1>2 DEF Tokens, At, Guarded, Undoing, PairType, Reports
  <1>5. l.pc \notin Guarded
    BY DEF Guarded, Undoing
  <1>6. OnePublisher'
    BY <1>1, <1>3, <1>5 DEF OnePublisher
  <1>7. Markers'
    BY <1>1, <1>2, <1>3, <1>4, <1>5 DEF Markers, At, Guarded
  <1>8. Contents'
    <2>1. ASSUME l.pc = "sync_unmark"
          PROVE  Kept(l)'
      <3>1. marker = me[p].tok /\ Kept(me[p])
        BY <2>1 DEF Orderly, Markers, Contents, Guarded, Undoing
      <3>2. ASSUME NEW o \in Outputs
            PROVE  Holds(l, o, Left(l, o, marker', file[o]), backup[l.tok][o],
                         before[l.tok][o])
        <4>1. Holds(me[p], o, file[o], backup[l.tok][o], before[l.tok][o])
          BY <2>1, <3>1 DEF Kept, Left
        <4>2. Left(l, o, marker', file[o]) = l.tok
          BY <1>2, <2>1, <4>1 DEF Left, Holds, Undone
        <4> QED BY <2>1, <4>1, <4>2 DEF Holds, Undone, Restored
      <3> QED BY <2>1, <3>1, <3>2 DEF Kept
    <2>2. ASSUME NEW q \in Procs, q # p, me'[q].pc \in Guarded \cup {"sync_unmark"}
          PROVE  Kept(me[q])'
      <3>1. me[q].pc = "sync_unmark" /\ me[q] \in Locals
        BY <1>1, <1>3, <2>2 DEF PairType
      <3>2. Kept(me[q]) /\ me[q].tok \in Reports /\ marker # me[q].tok
            /\ marker' # me[q].tok
        BY <1>4, <2>2, <3>1 DEF Orderly, Contents
      <3>3. PICK k \in Locals : k = me[q]
        BY <3>1
      <3>4. Kept(k)'
        BY <3>1, <3>2, <3>3, OthersKept
      <3> QED BY <1>1, <2>2, <3>3, <3>4
    <2> QED BY <1>1, <1>5, <2>1, <2>2 DEF Contents
  <1>9. UnmarkedPairMatches'
    BY DEF UnmarkedPairMatches
  <1>10. OldPairKept'
    BY DEF OldPairKept, Orderly
  <1> QED BY <1>6, <1>7, <1>8, <1>9, <1>10 DEF Orderly

\* Before and after its work, to leave the files alone.
LEMMA AsideStep ==
    ASSUME PairType, Tokens, Orderly, ~unguarded, NEW p \in Procs,
           me[p].pc \in {"mark", "sync_unmark", "sweep"},
           NEW l \in Locals, Become(p, l), l.pc \in {"idle", "sweep"},
           l.pc = "sweep" => me[p].pc = "sync_unmark" /\ l.tok = me[p].tok,
           UNCHANGED <<file, marker, before, spoiled>>,
           \A t \in Reports : t # me[p].tok => backup'[t] = backup[t]
    PROVE  Orderly'
  <1>1. \A q \in Procs : me'[q] = IF q = p THEN l ELSE me[q]
    BY DEF Become, PairType
  <1>2. marker # me[p].tok \/ marker \in spoiled
    BY DEF Orderly, Markers, At
  <1>3. l.pc \notin Guarded \cup {"mark", "sync_unmark"} /\ ~Rearranging(p)
    BY DEF Guarded, Undoing
  <1>4. OnePublisher'
    BY <1>1, <1>3 DEF Orderly, OnePublisher
  <1>5. Markers'
    BY <1>1, <1>2, <1>3 DEF Orderly, Markers, At, Guarded
  <1>6. Contents'
    <2> SUFFICES ASSUME NEW q \in Procs, me'[q].pc \in Guarded \cup {"sync_unmark"}
                 PROVE  Kept(me[q])'
      BY DEF Contents
    <2>1. q # p /\ me'[q] = me[q] /\ me[q].pc # "idle"
      BY <1>1, <1>3 DEF Guarded, Undoing
    <2>2. me[q].tok # me[p].tok /\ me[q].tok \in Reports /\ Kept(me[q])
      BY <2>1 DEF Orderly, Contents, Tokens, At, PairType, Reports
    <2> QED BY <2>1, <2>2 DEF Kept
  <1>7. UnmarkedPairMatches'
    BY <1>1, <1>3 DEF Orderly, UnmarkedPairMatches
  <1>8. OldPairKept'
    BY <1>2 DEF Orderly, OldPairKept, PairType, Reports
  <1> QED BY <1>4, <1>5, <1>6, <1>7, <1>8 DEF Orderly

-----------------------------------------------------------------------------
(* The steps.                                                              *)

\* At first there is a pair, or none, and nobody at work.
LEMMA PairInit == Unpublished => PairInv
  <1> SUFFICES ASSUME Unpublished
               PROVE  PairInv
    OBVIOUS
  <1>1. PairType
    <2>1. Neither \in Pairs /\ file \in Pairs
      BY DEF Unpublished, Neither, Pairs, Outputs
    <2>2. me \in [Procs -> Locals]
      BY IdleIs DEF Unpublished
    <2>3. /\ started \in Reports /\ marker \in 0..MaxReports
          /\ spoiled \in SUBSET Reports
      BY DEF Unpublished, Reports
    <2>5. unguarded \in BOOLEAN
      BY DEF Unpublished
    <2>4. backup \in [Reports -> Pairs] /\ before \in [Reports -> Pairs]
      BY <2>1 DEF Unpublished
    <2> QED BY <2>1, <2>2, <2>3, <2>4, <2>5 DEF PairType
  <1>2. Tokens
    BY IdleIs DEF Unpublished, Tokens, Reports
  <1>3. OnePublisher /\ Markers /\ Contents
    BY IdleIs DEF Unpublished, OnePublisher, Markers, Contents, Guarded, Undoing
  <1>4. UnmarkedPairMatches /\ OldPairKept
    BY DEF Unpublished, UnmarkedPairMatches, OldPairKept, Outputs
  <1> QED BY <1>1, <1>2, <1>3, <1>4 DEF PairInv, Orderly

\* The number of a publication that starts is new.
LEMMA StartInv ==
    ASSUME PairInv, NEW p \in Procs, Start(p)
    PROVE  PairInv'
  <1> DEFINE l == [Idle EXCEPT !.pc = "mark", !.tok = started + 1]
  <1>1. /\ l \in Locals /\ l.pc = "mark" /\ l.tok = started + 1
        /\ l.published = {} /\ l.kept = {} /\ started + 1 \in Reports
    <2>1. started + 1 \in Reports /\ started + 1 \in 0..MaxReports
      BY DEF PairInv, PairType, Start, Reports
    <2> QED BY <2>1, IdleIs DEF Locals, Places, Idle
  <1>2. /\ me' \in [Procs -> Locals]
        /\ \A q \in Procs : me'[q] = IF q = p THEN l ELSE me[q]
    BY <1>1 DEF Start, Become, PairInv, PairType
  <1> HIDE DEF l
  <1>3. PairType'
    BY <1>1, <1>2 DEF Start, Smooth, NoFault, PairInv, PairType
  <1>4. Tokens'
    BY <1>1, <1>2 DEF Start, PairInv, PairType, Tokens, Reports
  <1>5. ASSUME ~unguarded, Orderly
        PROVE  Orderly'
    <2>1. marker # started + 1
      BY DEF PairInv, PairType, Tokens, Reports
    <2>2. OnePublisher' /\ Markers'
      BY <1>1, <1>2, <1>5, <2>1
         DEF Start, Smooth, Orderly, OnePublisher, Markers, Guarded, Undoing
    <2>3. Contents'
      BY <1>1, <1>2, <1>5 DEF Start, Orderly, Contents, Kept, Guarded, Undoing
    <2>4. UnmarkedPairMatches'
      BY <1>2, <1>5 DEF Start, Smooth, Orderly, UnmarkedPairMatches
    <2> QED BY <1>5, <2>2, <2>3, <2>4 DEF Start, Smooth, Orderly, OldPairKept
  <1> QED BY <1>3, <1>4, <1>5 DEF Start, Smooth, PairInv

\* A marker is made when there is none, of a pair that matches.
LEMMA MarkInv ==
    ASSUME PairInv, NEW p \in Procs, Mark(p)
    PROVE  PairInv'
  <1>1. PICK m \in Locals : m = me[p]
    BY DEF PairInv, PairType
  <1>2. /\ m.pc = "mark" /\ m.tok \in Reports /\ m.tok \in 1..started
        /\ backup[m.tok] = Neither /\ m.published = {} /\ m.kept = {}
    BY <1>1 DEF Mark, PairInv, PairType, Tokens, Reports
  <1>3. PICK l \in Locals :
            /\ Become(p, l)
            /\ \/ l = Idle
               \/ /\ l.pc = "stage" /\ l.tok = m.tok
                  /\ l.published = {} /\ l.kept = {} /\ marker' = m.tok
    <2>1. CASE Goto(p, "stage") /\ MakesMarker(p)
      <3>1. PICK l : l = [m EXCEPT !.pc = "stage", !.out = 1]
        OBVIOUS
      <3>2. /\ l \in Locals /\ l.pc = "stage"
            /\ l.tok = m.tok /\ l.published = m.published /\ l.kept = m.kept
        <4>1. "stage" \in Places
          BY DEF Places, Guarded
        <4> QED BY <3>1, <4>1, FirstOutput DEF Locals
      <3> QED BY <1>1, <1>2, <2>1, <3>1, <3>2 DEF Goto, MakesMarker
    <2>2. CASE Become(p, Idle)
      BY <2>2, IdleIs
    <2> QED BY <1>1, <2>1, <2>2 DEF Mark
  <1>4. /\ marker' \in {marker, m.tok} /\ before' \in [Reports -> Pairs]
        /\ unguarded => unguarded'
        /\ unguarded' \in BOOLEAN
        /\ UNCHANGED <<file, backup, started, spoiled>>
    BY <1>1, <1>2 DEF Mark, MakesMarker, PairInv, PairType
  <1>5. Tokens' /\ me' \in [Procs -> Locals] /\ marker' \in 0..MaxReports
    BY <1>1, <1>2, <1>3, <1>4, IdleIs, TokenStep DEF PairInv, PairType
  <1>6. PairType'
    BY <1>4, <1>5 DEF PairInv, PairType
  <1>7. ASSUME ~unguarded', Orderly
        PROVE  Orderly'
    <2>1. CASE UNCHANGED <<marker, before>> /\ l = Idle
      BY <1>1, <1>2, <1>3, <1>4, <1>7, <2>1, IdleIs, AsideStep DEF PairInv
    <2>2. CASE marker = 0 /\ MakesMarker(p)
      <3>1. \A q \in Procs : me'[q] = IF q = p THEN l ELSE me[q]
        BY <1>3 DEF Become, PairInv, PairType
      <3>2. /\ marker' = m.tok /\ before' = [before EXCEPT ![m.tok] = file]
            /\ ~unguarded /\ \A q \in Procs : me[q].pc \notin Undoing
        BY <1>1, <1>7, <2>2 DEF MakesMarker
      <3>3. \A q \in Procs : q # p => me[q].pc \notin Guarded
        BY <1>7, <2>2, <3>2 DEF Orderly, Markers, PairInv, Tokens, Guarded
      <3>4. \A q \in Procs : q # p /\ me[q].pc # "idle" =>
                me[q].tok # m.tok /\ me[q].tok \in Reports
        BY <1>1, <1>2 DEF PairInv, PairType, Tokens, Reports
      <3>5. OnePublisher'
        BY <3>1, <3>3 DEF OnePublisher
      <3>6. Markers'
        BY <1>3, <1>4, <1>7, <2>2, <3>1, <3>2, <3>3, <3>4, IdleIs
           DEF Orderly, Markers, Guarded, Undoing
      <3>7. file[1] = file[2] /\ before'[m.tok] = file /\ backup'[m.tok] = Neither
        BY <1>2, <1>4, <1>7, <2>2, <3>2
           DEF Orderly, UnmarkedPairMatches, Undoing, PairInv, PairType
      <3>8. Contents'
        <4>1. ASSUME l.pc = "stage"
              PROVE  Kept(l)'
          BY <1>2, <1>3, <1>4, <3>7, <4>1, IdleIs
             DEF Kept, Holds, Left, Undone, Restored, Neither
        <4>2. ASSUME NEW q \in Procs, q # p, me'[q].pc \in Guarded \cup {"sync_unmark"}
              PROVE  Kept(me[q])'
          <5>1. me[q].pc = "sync_unmark" /\ me[q] \in Locals
            BY <3>1, <3>3, <4>2 DEF PairInv, PairType
          <5>2. /\ Kept(me[q]) /\ me[q].tok \in Reports /\ me[q].tok # m.tok
                /\ marker # me[q].tok
            BY <1>7, <3>4, <4>2, <5>1 DEF Orderly, Markers, Contents
          <5>3. PICK k \in Locals : k = me[q]
            BY <5>1
          <5>4. before'[k.tok] = before[k.tok] /\ backup'[k.tok] = backup[k.tok]
            BY <1>4, <3>2, <5>2, <5>3 DEF PairInv, PairType
          <5>5. Kept(k)'
            BY <3>2, <5>1, <5>2, <5>3, <5>4, OthersKept
          <5> QED BY <3>1, <4>2, <5>3, <5>5
        <4> QED BY <1>3, <3>1, <4>1, <4>2, IdleIs DEF Contents, Guarded, Undoing
      <3>9. UnmarkedPairMatches' /\ OldPairKept'
        BY <1>2, <1>4, <3>2, <3>7 DEF UnmarkedPairMatches, OldPairKept, Reports
      <3> QED BY <3>5, <3>6, <3>8, <3>9 DEF Orderly
    <2>3. \/ UNCHANGED <<marker, before>> /\ l = Idle
          \/ marker = 0 /\ MakesMarker(p)
      <3>1. CASE UNCHANGED <<marker, before>> /\ Become(p, Idle)
        <4>1. l = Idle
          BY <1>3, <3>1 DEF Become, PairInv, PairType
        <4> QED BY <3>1, <4>1
      <3> QED BY <3>1 DEF Mark
    <2> QED BY <2>1, <2>2, <2>3
  <1> QED BY <1>4, <1>5, <1>6, <1>7 DEF PairInv

\* Any failure of the work under a marker leads to a rollback, or past the marker.
LEMMA FailsInv ==
    ASSUME PairInv, NEW p \in Procs, Fails(p),
           me[p].pc \in {"stage", "backup", "publish", "sync", "unmark", "sync_unmark"},
           UNCHANGED <<file, marker, backup, before, started>>
    PROVE  PairInv'
  <1>1. PICK m \in Locals : m = me[p]
    BY DEF PairInv, PairType
  <1>2. PICK l : l = [m EXCEPT !.pc = "undo_unlink", !.out = 1]
    OBVIOUS
  <1>3. /\ l \in Locals /\ l.pc = "undo_unlink" /\ l.out = 1
        /\ l.tok = m.tok /\ l.published = m.published /\ l.kept = m.kept
    <2>1. "undo_unlink" \in Places
      BY DEF Places, Guarded, Undoing
    <2> QED BY <1>2, <2>1, FirstOutput DEF Locals
  <1>4. Become(p, l)
    BY <1>1, <1>2 DEF Fails, Goto
  <1>5. Tokens' /\ me' \in [Procs -> Locals]
    BY <1>1, <1>3, <1>4, TokenStep DEF PairInv, PairType
  <1>6. unguarded' = (unguarded \/ ~Undisturbed(p)) /\ UNCHANGED spoiled
    BY DEF Fails
  <1>7. PairType'
    BY <1>5, <1>6 DEF PairInv, PairType
  <1>8. ASSUME ~unguarded, Orderly, Undisturbed(p)
        PROVE  Orderly'
    <2>1. \A q \in Procs : q # p => me[q].pc \notin Guarded
      BY <1>8 DEF Undisturbed, Orderly, OnePublisher, Markers, Guarded, Undoing
    <2>2. marker \in {m.tok, 0} /\ Kept(m)
      BY <1>1, <1>8 DEF Undisturbed, Orderly, Contents, Guarded
    <2>3. ASSUME NEW o \in Outputs
          PROVE  Holds(l, o, Left(l, o, marker, file[o]), backup[l.tok][o],
                       before[l.tok][o])
      <3>1. Left(l, o, marker, file[o]) = Left(m, o, marker, file[o])
        BY <1>1, <1>3 DEF Left, Undone, Outputs
      <3>2. Holds(m, o, Left(m, o, marker, file[o]), backup[m.tok][o], before[m.tok][o])
        BY <2>2 DEF Kept
      <3> QED BY <1>1, <1>3, <3>1, <3>2 DEF Holds, Undone, Restored, Outputs
    <2> QED BY <1>1, <1>3, <1>4, <1>6, <1>8, <2>1, <2>2, <2>3, WorkStep
            DEF PairInv, Guarded, Undoing
  <1> QED BY <1>5, <1>6, <1>7, <1>8 DEF PairInv

\* A rollback that fails leaves the marker it has, or has just removed it.
LEMMA RollbackFailsInv ==
    ASSUME PairInv, NEW p \in Procs, RollbackFails(p),
           me[p].pc \in {"undo_unlink", "undo_restore", "undo_sync", "undo_unmark"},
           marker' \in {marker, 0}, marker' # marker => At(p, "undo_unmark"),
           UNCHANGED <<file, backup, before, started>>
    PROVE  PairInv'
  <1>1. PICK m \in Locals : m = me[p]
    BY DEF PairInv, PairType
  <1>2. PICK l : l = [m EXCEPT !.pc = "sweep", !.out = 1]
    OBVIOUS
  <1>3. l \in Locals /\ l.pc = "sweep" /\ l.tok = m.tok
    <2>1. "sweep" \in Places
      BY DEF Places
    <2> QED BY <1>2, <2>1, FirstOutput DEF Locals
  <1>4. Become(p, l)
    BY <1>1, <1>2 DEF RollbackFails, Goto
  <1>5. Tokens' /\ me' \in [Procs -> Locals] /\ marker' \in 0..MaxReports
    BY <1>1, <1>3, <1>4, TokenStep DEF PairInv, PairType
  <1>6. /\ unguarded' = (unguarded \/ CutShort(p))
        /\ spoiled' = spoiled \cup {m.tok} /\ m.tok \in Reports
    BY <1>1 DEF RollbackFails, PairInv, PairType, Tokens, Reports
  <1>7. PairType'
    BY <1>5, <1>6 DEF PairInv, PairType
  <1>8. ASSUME ~unguarded, ~CutShort(p), Orderly
        PROVE  Orderly'
    <2>1. m.pc \in Guarded /\ marker \in {m.tok, 0} /\ m.tok # 0
      BY <1>1, <1>6, <1>8 DEF Orderly, Markers, Guarded, Undoing, Reports
    <2>2. marker' = 0 => file[1] = file[2]
      <3>1. marker' = 0 => m.pc \in {"undo_sync", "undo_unmark"}
        BY <1>1, <1>8, <2>1 DEF CutShort
      <3> QED BY <1>1, <1>8, <3>1, Rolled DEF PairInv
    <2> QED BY <1>1, <1>3, <1>4, <1>6, <1>8, <2>1, <2>2, LeaveStep DEF PairInv
  <1> QED BY <1>5, <1>6, <1>7, <1>8 DEF PairInv

\* A step of the work that goes well says what the next place says of the files.
LEMMA ProgressInv ==
    ASSUME PairInv, NEW p \in Procs, me[p].pc \in Guarded,
           NEW l \in Locals, Become(p, l), l.pc \in Guarded, l.tok = me[p].tok,
           UNCHANGED <<marker, before, started, unguarded, spoiled>>,
           file' \in Pairs, backup' \in [Reports -> Pairs],
           \A t \in Reports : t # me[p].tok => backup'[t] = backup[t],
           me[p].pc \in Undoing => l.pc \in Undoing,
           me[p].pc \in Undoing \/ marker = me[p].tok =>
               \A o \in Outputs :
                   Holds(me[p], o, Left(me[p], o, marker, file[o]),
                         backup[me[p].tok][o], before[me[p].tok][o])
                   => Holds(l, o, Left(l, o, marker, file'[o]),
                            backup'[me[p].tok][o], before[me[p].tok][o])
    PROVE  PairInv'
  <1>1. Tokens' /\ me' \in [Procs -> Locals]
    BY TokenStep DEF PairInv, PairType, Guarded, Undoing
  <1>2. PairType'
    BY <1>1 DEF PairInv, PairType
  <1>3. ASSUME ~unguarded, Orderly
        PROVE  Orderly'
    <2>1. /\ marker \in {me[p].tok, 0} /\ Kept(me[p])
          /\ me[p].pc \in Undoing \/ marker = me[p].tok
      BY <1>3 DEF Orderly, Markers, Contents
    <2>2. \A o \in Outputs :
              Holds(l, o, Left(l, o, marker, file'[o]), backup'[l.tok][o],
                    before[l.tok][o])
      BY <2>1 DEF Kept
    <2>3. \A q \in Procs : q # p => me[q].pc \notin Guarded
      BY <1>3 DEF Orderly, OnePublisher
    <2> QED BY <1>3, <2>1, <2>2, <2>3, WorkStep DEF PairInv
  <1> QED BY <1>1, <1>2, <1>3 DEF PairInv

\* Steps that only go on to the next place.
LEMMA GoOnInv ==
    ASSUME PairInv, NEW p \in Procs, Stage(p) \/ Sync(p) \/ UndoSync(p)
    PROVE  PairInv'
  <1>1. PICK m \in Locals : m = me[p]
    BY DEF PairInv, PairType
  <1>2. ASSUME NEW place \in Guarded, Goto(p, place), Smooth,
               UNCHANGED <<file, marker, backup, before, started>>,
               \/ m.pc = "stage" /\ place = "backup"
               \/ m.pc = "sync" /\ place = "unmark"
               \/ m.pc = "undo_sync" /\ place = "undo_unmark"
        PROVE  PairInv'
    <2>1. PICK l : l = [m EXCEPT !.pc = place, !.out = 1]
      OBVIOUS
    <2>2. /\ l \in Locals /\ l.pc = place /\ l.out = 1
          /\ l.tok = m.tok /\ l.published = m.published /\ l.kept = m.kept
      BY <2>1, FirstOutput DEF Locals, Places
    <2>3. Become(p, l)
      BY <1>1, <1>2, <2>1 DEF Goto
    <2>4. /\ \A o \in Outputs : Left(l, o, marker, file[o]) = Left(m, o, marker, file[o])
          /\ \A o \in Outputs :
                \A f, k, b : Holds(m, o, f, k, b) => Holds(l, o, f, k, b)
      BY <1>2, <2>2 DEF Holds, Left, Undone, Restored, Outputs
    <2>5. m.pc \in Guarded /\ (m.pc \in Undoing => l.pc \in Undoing)
      BY <1>2, <2>2 DEF Guarded, Undoing
    <2> QED BY <1>1, <1>2, <2>2, <2>3, <2>4, <2>5, ProgressInv
            DEF Smooth, PairInv, PairType
  <1>3. CASE Stage(p)
    BY <1>1, <1>2, <1>3, FailsInv DEF Stage, Guarded, ghosts
  <1>4. CASE Sync(p)
    BY <1>1, <1>2, <1>4, FailsInv DEF Sync, Guarded, ghosts
  <1>5. CASE UndoSync(p)
    BY <1>1, <1>2, <1>5, RollbackFailsInv DEF UndoSync, Guarded, Undoing, ghosts
  <1> QED BY <1>3, <1>4, <1>5

\* A file that exists goes to its backup.
LEMMA BackUpInv ==
    ASSUME PairInv, NEW p \in Procs, BackUp(p)
    PROVE  PairInv'
  <1>1. PICK m \in Locals : m = me[p]
    BY DEF PairInv, PairType
  <1>2. m.pc = "backup" /\ m.pc \in Guarded /\ m.out \in Outputs
    BY <1>1 DEF BackUp, Guarded, Locals
  <1>3. m.tok \in Reports
    BY <1>1, <1>2 DEF PairInv, PairType, Tokens, Reports
  <1>4. ASSUME NEW k \in Locals, NEW o, o = m.out,
               k.pc = m.pc, k.out = m.out, k.tok = m.tok, k.published = m.published,
               Become(p, Onwards(k, "publish")), Smooth,
               UNCHANGED <<marker, before, started>>,
               \/ /\ k.kept = m.kept \cup {o} /\ file[o] # 0
                  /\ file' = [file EXCEPT ![o] = 0]
                  /\ backup' = [backup EXCEPT ![m.tok][o] = file[o]]
               \/ k.kept = m.kept /\ file[o] = 0 /\ UNCHANGED <<file, backup>>
        PROVE  PairInv'
    <2>1. PICK l : l = Onwards(k, "publish")
      OBVIOUS
    <2>2. /\ l \in Locals
          /\ l.tok = m.tok /\ l.published = m.published /\ l.kept = k.kept
          /\ m.out = 1 => l.out = 2 /\ l.pc = "backup"
          /\ m.out # 1 => l.out = 1 /\ l.pc = "publish"
      <3>1. "publish" \in Places
        BY DEF Places, Guarded
      <3> QED BY <1>2, <1>4, <2>1, <3>1, OnwardsIs
    <2>3. file' \in Pairs /\ backup' \in [Reports -> Pairs]
      <3>1. file[o] \in 0..MaxReports /\ backup[m.tok] \in Pairs
        BY <1>2, <1>3, <1>4 DEF PairInv, PairType, Pairs
      <3>2. [backup[m.tok] EXCEPT ![o] = file[o]] \in Pairs
        BY <3>1 DEF Pairs
      <3>3. file' \in Pairs
        BY <1>4 DEF PairInv, PairType, Pairs
      <3>4. backup' \in [Reports -> Pairs]
        BY <1>4, <3>2 DEF PairInv, PairType
      <3> QED BY <3>3, <3>4
    <2>4. \A t \in Reports : t # m.tok => backup'[t] = backup[t]
      BY <1>3, <1>4 DEF PairInv, PairType
    <2>5. ASSUME NEW q \in Outputs, marker = m.tok,
                 Holds(m, q, file[q], backup[m.tok][q], before[m.tok][q])
          PROVE  Holds(l, q, file'[q], backup'[m.tok][q], before[m.tok][q])
      <3>1. CASE q = o
        <4>1. \/ q \in l.kept /\ file'[q] = 0 /\ backup'[m.tok][q] = file[q]
              \/ /\ l.kept = m.kept /\ file[q] = 0 /\ file'[q] = file[q]
                 /\ backup'[m.tok][q] = backup[m.tok][q]
          BY <1>2, <1>3, <1>4, <2>2, <3>1 DEF PairInv, PairType, Pairs
        <4>2. q \notin m.kept
          BY <1>2, <1>4, <2>5, <3>1 DEF Holds, Outputs
        <4> QED BY <1>2, <1>4, <2>2, <2>5, <3>1, <4>1, <4>2
                DEF Holds, Undone, Restored, Outputs
      <3>2. CASE q # o
        <4>1. /\ file'[q] = file[q] /\ backup'[m.tok][q] = backup[m.tok][q]
              /\ q \in l.kept <=> q \in m.kept
          BY <1>2, <1>3, <1>4, <2>2, <3>2 DEF PairInv, PairType, Pairs
        <4> QED BY <1>2, <1>4, <2>2, <2>5, <3>2, <4>1
                DEF Holds, Undone, Restored, Outputs
      <3> QED BY <3>1, <3>2
    <2>6. l.pc \in Guarded /\ m.pc \notin Undoing
      BY <1>2, <2>2 DEF Guarded, Undoing
    <2> QED BY <1>1, <1>2, <1>4, <2>1, <2>2, <2>3, <2>4, <2>5, <2>6, ProgressInv
            DEF Smooth, Left
  <1>5. CASE Fails(p) /\ UNCHANGED <<file, marker, backup, before, started>>
    BY <1>1, <1>2, <1>5, FailsInv
  <1>6. [m EXCEPT !.kept = @ \cup {m.out}] \in Locals
    BY <1>2 DEF Locals
  <1> QED BY <1>1, <1>2, <1>4, <1>5, <1>6 DEF BackUp, ghosts, Locals

\* A staged file takes the place of its output.
LEMMA PublishInv ==
    ASSUME PairInv, NEW p \in Procs, Publish(p)
    PROVE  PairInv'
  <1>1. PICK m \in Locals : m = me[p]
    BY DEF PairInv, PairType
  <1>2. m.pc = "publish" /\ m.pc \in Guarded /\ m.out \in Outputs
    BY <1>1 DEF Publish, Guarded, Locals
  <1>3. m.tok \in Reports
    BY <1>1, <1>2 DEF PairInv, PairType, Tokens, Reports
  <1>4. ASSUME NEW k \in Locals, NEW o, o = m.out,
               k.pc = m.pc, k.out = m.out, k.tok = m.tok, k.kept = m.kept,
               k.published = m.published \cup {o},
               Become(p, Onwards(k, "sync")), Smooth,
               UNCHANGED <<marker, backup, before, started>>,
               file' = [file EXCEPT ![o] = m.tok]
        PROVE  PairInv'
    <2>1. PICK l : l = Onwards(k, "sync")
      OBVIOUS
    <2>2. /\ l \in Locals
          /\ l.tok = m.tok /\ l.published = k.published /\ l.kept = m.kept
          /\ m.out = 1 => l.out = 2 /\ l.pc = "publish"
          /\ m.out # 1 => l.out = 1 /\ l.pc = "sync"
      <3>1. "sync" \in Places
        BY DEF Places, Guarded
      <3> QED BY <1>2, <1>4, <2>1, <3>1, OnwardsIs
    <2>3. file' \in Pairs
      BY <1>2, <1>3, <1>4 DEF PairInv, PairType, Pairs, Reports
    <2>4. ASSUME NEW q \in Outputs, marker = m.tok,
                 Holds(m, q, file[q], backup[m.tok][q], before[m.tok][q])
          PROVE  Holds(l, q, file'[q], backup'[m.tok][q], before[m.tok][q])
      <3>1. file'[q] = IF q = o THEN m.tok ELSE file[q]
        BY <1>2, <1>4 DEF PairInv, PairType, Pairs
      <3> QED BY <1>2, <1>4, <2>2, <2>4, <3>1 DEF Holds, Undone, Restored, Outputs
    <2>5. l.pc \in Guarded /\ m.pc \notin Undoing
      BY <1>2, <2>2 DEF Guarded, Undoing
    <2> QED BY <1>1, <1>2, <1>4, <2>1, <2>2, <2>3, <2>4, <2>5, ProgressInv
            DEF Smooth, Left, PairInv, PairType
  <1>5. CASE Fails(p) /\ UNCHANGED <<file, marker, backup, before, started>>
    BY <1>1, <1>2, <1>5, FailsInv
  <1>6. [m EXCEPT !.published = @ \cup {m.out}] \in Locals
    BY <1>2 DEF Locals
  <1> QED BY <1>1, <1>2, <1>4, <1>5, <1>6 DEF Publish, ghosts, Locals

\* The marker goes when both reports are in place; or it was gone.
LEMMA UnmarkInv ==
    ASSUME PairInv, NEW p \in Procs, Unmark(p) \/ SyncUnmark(p)
    PROVE  PairInv'
  <1>1. PICK m \in Locals : m = me[p]
    BY DEF PairInv, PairType
  <1>2. m.pc \in {"unmark", "sync_unmark"}
    BY <1>1 DEF Unmark, SyncUnmark
  <1>3. ASSUME NEW place \in {"sync_unmark", "sweep"}, Goto(p, place), Smooth,
               UNCHANGED <<file, backup, before, started>>,
               \/ m.pc = "unmark" /\ place = "sync_unmark" /\ marker' = 0
               \/ m.pc = "sync_unmark" /\ place = "sweep" /\ marker' = marker
        PROVE  PairInv'
    <2>1. PICK l : l = [m EXCEPT !.pc = place, !.out = 1]
      OBVIOUS
    <2>2. /\ l \in Locals /\ l.pc = place
          /\ l.tok = m.tok /\ l.published = m.published /\ l.kept = m.kept
      BY <2>1, FirstOutput DEF Locals, Places
    <2>3. Become(p, l)
      BY <1>1, <1>3, <2>1 DEF Goto
    <2>4. Tokens' /\ me' \in [Procs -> Locals] /\ marker' \in 0..MaxReports
      BY <1>1, <1>2, <1>3, <2>2, <2>3, TokenStep DEF PairInv, PairType
    <2>5. PairType'
      BY <1>3, <2>4 DEF Smooth, PairInv, PairType
    <2>6. ASSUME ~unguarded, Orderly
          PROVE  Orderly'
      <3>1. CASE m.pc = "unmark"
        <4>1. marker = m.tok /\ m.pc \in Guarded
          BY <1>1, <2>6, <3>1 DEF Orderly, Markers, Guarded, Undoing
        <4>2. file[1] = m.tok /\ file[2] = m.tok
          BY <1>1, <2>6, <3>1, <4>1, FirstOutput
             DEF Orderly, Contents, Kept, Holds, Left, Undone
        <4> QED BY <1>1, <1>3, <2>1, <2>2, <2>3, <2>6, <3>1, <4>1, <4>2, LeaveStep
                DEF Smooth, PairInv
      <3>2. CASE m.pc = "sync_unmark"
        BY <1>1, <1>3, <2>2, <2>3, <2>6, <3>2, AsideStep DEF Smooth, PairInv
      <3> QED BY <1>2, <3>1, <3>2
    <2> QED BY <1>3, <2>4, <2>5, <2>6 DEF Smooth, PairInv
  <1>4. CASE Unmark(p)
    BY <1>1, <1>3, <1>4, FailsInv DEF Unmark, ghosts
  <1>5. CASE SyncUnmark(p)
    BY <1>1, <1>3, <1>5, FailsInv DEF SyncUnmark, ghosts
  <1> QED BY <1>4, <1>5

\* The rollback takes the new reports away.
LEMMA UndoUnlinkInv ==
    ASSUME PairInv, NEW p \in Procs, UndoUnlink(p)
    PROVE  PairInv'
  <1>1. PICK m \in Locals : m = me[p]
    BY DEF PairInv, PairType
  <1>2. m.pc = "undo_unlink" /\ m.pc \in Guarded /\ m.out \in Outputs
    BY <1>1 DEF UndoUnlink, Guarded, Undoing, Locals
  <1>3. m.tok \in Reports
    BY <1>1, <1>2 DEF PairInv, PairType, Tokens, Reports
  <1>4. ASSUME NEW o, o = m.out,
               Become(p, Onwards(m, "undo_restore")), Smooth,
               UNCHANGED <<marker, backup, before, started>>,
               file' = [file EXCEPT ![o] = IF o \in m.published THEN 0 ELSE @]
        PROVE  PairInv'
    <2>1. PICK l : l = Onwards(m, "undo_restore")
      OBVIOUS
    <2>2. /\ l \in Locals
          /\ l.tok = m.tok /\ l.published = m.published /\ l.kept = m.kept
          /\ m.out = 1 => l.out = 2 /\ l.pc = "undo_unlink"
          /\ m.out # 1 => l.out = 1 /\ l.pc = "undo_restore"
      <3>1. "undo_restore" \in Places
        BY DEF Places, Guarded, Undoing
      <3> QED BY <1>2, <1>4, <2>1, <3>1, OnwardsIs
    <2>3. file' \in Pairs
      BY <1>2, <1>3, <1>4 DEF PairInv, PairType, Pairs, Reports
    <2>4. ASSUME NEW q \in Outputs,
                 Holds(m, q, Left(m, q, marker, file[q]), backup[m.tok][q],
                       before[m.tok][q])
          PROVE  Holds(l, q, Left(l, q, marker, file'[q]), backup'[m.tok][q],
                       before[m.tok][q])
      <3>1. file'[q] = IF q = o /\ o \in m.published THEN 0 ELSE file[q]
        BY <1>2, <1>4 DEF PairInv, PairType, Pairs
      <3> QED BY <1>2, <1>4, <2>2, <2>4, <3>1 DEF Holds, Left, Undone, Restored, Outputs
    <2>5. l.pc \in Guarded /\ l.pc \in Undoing
      BY <2>2 DEF Guarded, Undoing
    <2> QED BY <1>1, <1>2, <1>4, <2>1, <2>2, <2>3, <2>4, <2>5, ProgressInv
            DEF Smooth, PairInv, PairType
  <1>5. CASE RollbackFails(p) /\ UNCHANGED <<file, marker, backup, before, started>>
    BY <1>1, <1>2, <1>5, RollbackFailsInv
  <1> QED BY <1>1, <1>2, <1>4, <1>5 DEF UndoUnlink, ghosts

\* It puts the old ones back.
LEMMA UndoRestoreInv ==
    ASSUME PairInv, NEW p \in Procs, UndoRestore(p)
    PROVE  PairInv'
  <1>1. PICK m \in Locals : m = me[p]
    BY DEF PairInv, PairType
  <1>2. m.pc = "undo_restore" /\ m.pc \in Guarded /\ m.out \in Outputs
    BY <1>1 DEF UndoRestore, Guarded, Undoing, Locals
  <1>3. m.tok \in Reports
    BY <1>1, <1>2 DEF PairInv, PairType, Tokens, Reports
  <1>4. ASSUME NEW o, o = m.out,
               Become(p, Onwards(m, "undo_sync")), Smooth,
               UNCHANGED <<marker, before, started>>,
               \/ /\ o \in m.kept
                  /\ file' = [file EXCEPT ![o] = backup[m.tok][o]]
                  /\ backup' = [backup EXCEPT ![m.tok][o] = 0]
               \/ o \notin m.kept /\ UNCHANGED <<file, backup>>
        PROVE  PairInv'
    <2>1. PICK l : l = Onwards(m, "undo_sync")
      OBVIOUS
    <2>2. /\ l \in Locals
          /\ l.tok = m.tok /\ l.published = m.published /\ l.kept = m.kept
          /\ m.out = 1 => l.out = 2 /\ l.pc = "undo_restore"
          /\ m.out # 1 => l.out = 1 /\ l.pc = "undo_sync"
      <3>1. "undo_sync" \in Places
        BY DEF Places, Guarded, Undoing
      <3> QED BY <1>2, <1>4, <2>1, <3>1, OnwardsIs
    <2>3. file' \in Pairs /\ backup' \in [Reports -> Pairs]
      <3>1. backup[m.tok] \in Pairs /\ backup[m.tok][o] \in 0..MaxReports
        BY <1>2, <1>3, <1>4 DEF PairInv, PairType, Pairs
      <3>2. [backup[m.tok] EXCEPT ![o] = 0] \in Pairs
        BY <3>1, CutsToPair
      <3>3. file' \in Pairs
        BY <1>4, <3>1 DEF PairInv, PairType, Pairs
      <3>4. backup' \in [Reports -> Pairs]
        BY <1>4, <3>2 DEF PairInv, PairType
      <3> QED BY <3>3, <3>4
    <2>4. \A t \in Reports : t # m.tok => backup'[t] = backup[t]
      BY <1>3, <1>4 DEF PairInv, PairType
    <2>5. ASSUME NEW q \in Outputs,
                 Holds(m, q, Left(m, q, marker, file[q]), backup[m.tok][q],
                       before[m.tok][q])
          PROVE  Holds(l, q, Left(l, q, marker, file'[q]), backup'[m.tok][q],
                       before[m.tok][q])
      <3>1. CASE q = o /\ o \in m.kept
        <4>1. file'[q] = backup[m.tok][q]
          BY <1>2, <1>4, <3>1 DEF PairInv, PairType, Pairs
        <4> QED BY <1>2, <1>4, <2>2, <2>5, <3>1, <4>1
                DEF Holds, Left, Undone, Restored, Outputs
      <3>2. CASE q # o \/ o \notin m.kept
        <4>1. file'[q] = file[q] /\ backup'[m.tok][q] = backup[m.tok][q]
          BY <1>2, <1>3, <1>4, <3>2 DEF PairInv, PairType, Pairs
        <4> QED BY <1>2, <1>4, <2>2, <2>5, <3>2, <4>1
                DEF Holds, Left, Undone, Restored, Outputs
      <3> QED BY <3>1, <3>2
    <2>6. l.pc \in Guarded /\ l.pc \in Undoing
      BY <2>2 DEF Guarded, Undoing
    <2> QED BY <1>1, <1>2, <1>4, <2>1, <2>2, <2>3, <2>4, <2>5, <2>6, ProgressInv
            DEF Smooth
  <1>5. CASE RollbackFails(p) /\ UNCHANGED <<file, marker, backup, before, started>>
    BY <1>1, <1>2, <1>5, RollbackFailsInv
  <1> QED BY <1>1, <1>2, <1>4, <1>5 DEF UndoRestore, PutsBack, ghosts

\* The marker goes when the pair is what it was.
LEMMA UndoUnmarkInv ==
    ASSUME PairInv, NEW p \in Procs, UndoUnmark(p)
    PROVE  PairInv'
  <1>1. PICK m \in Locals : m = me[p]
    BY DEF PairInv, PairType
  <1>2. m.pc = "undo_unmark" /\ m.pc \in Guarded
    BY <1>1 DEF UndoUnmark, Guarded, Undoing
  <1>3. CASE /\ marker' = 0 /\ Goto(p, "sweep") /\ Smooth
             /\ UNCHANGED <<file, backup, before, started>>
    <2>1. PICK l : l = [m EXCEPT !.pc = "sweep", !.out = 1]
      OBVIOUS
    <2>2. l \in Locals /\ l.pc = "sweep" /\ l.tok = m.tok
      <3>1. "sweep" \in Places
        BY DEF Places
      <3> QED BY <2>1, <3>1, FirstOutput DEF Locals
    <2>3. Become(p, l)
      BY <1>1, <1>3, <2>1 DEF Goto
    <2>4. Tokens' /\ me' \in [Procs -> Locals] /\ marker' \in 0..MaxReports
      BY <1>1, <1>2, <1>3, <2>2, <2>3, TokenStep DEF PairInv, PairType
    <2>5. PairType'
      BY <1>3, <2>4 DEF Smooth, PairInv, PairType
    <2>6. ASSUME ~unguarded, Orderly
          PROVE  Orderly'
      <3>1. file[1] = file[2]
        BY <1>1, <1>2, <2>6, Rolled DEF PairInv
      <3> QED BY <1>1, <1>2, <1>3, <2>2, <2>3, <2>6, <3>1, LeaveStep
              DEF Smooth, PairInv
    <2> QED BY <1>3, <2>4, <2>5, <2>6 DEF Smooth, PairInv
  <1>4. CASE /\ marker' \in {marker, 0} /\ RollbackFails(p)
             /\ UNCHANGED <<file, backup, before, started>>
    BY <1>1, <1>2, <1>4, RollbackFailsInv
  <1> QED BY <1>3, <1>4 DEF UndoUnmark, ghosts

\* The backups that go are of a publication that no longer needs them.
LEMMA SweepInv ==
    ASSUME PairInv, NEW p \in Procs, Sweep(p)
    PROVE  PairInv'
  <1>1. me[p].pc = "sweep" /\ me[p].tok \in Reports
    BY DEF Sweep, PairInv, PairType, Tokens, Reports
  <1>2. /\ backup' \in [Reports -> Pairs]
        /\ \A t \in Reports : t # me[p].tok => backup'[t] = backup[t]
    <2>1. PICK k \in Pairs : backup' = [backup EXCEPT ![me[p].tok] = k]
      <3>1. Neither \in Pairs
        BY DEF Neither, Pairs
      <3>2. [backup[me[p].tok] EXCEPT ![1] = 0] \in Pairs
        BY <1>1, CutsToPair DEF PairInv, PairType
      <3>3. backup[me[p].tok] \in Pairs
            /\ backup = [backup EXCEPT ![me[p].tok] = backup[me[p].tok]]
        BY <1>1 DEF PairInv, PairType
      <3> QED BY <3>1, <3>2, <3>3 DEF Sweep
    <2> QED BY <1>1, <2>1 DEF PairInv, PairType
  <1>3. Tokens' /\ me' \in [Procs -> Locals] /\ marker' \in 0..MaxReports
    BY <1>1, <1>2, IdleIs, TokenStep DEF Sweep, ghosts, PairInv
  <1>4. PairType'
    BY <1>2, <1>3 DEF Sweep, ghosts, PairInv, PairType
  <1>5. ASSUME ~unguarded, Orderly
        PROVE  Orderly'
    BY <1>1, <1>2, <1>5, IdleIs, AsideStep DEF Sweep, ghosts, PairInv
  <1> QED BY <1>3, <1>4, <1>5 DEF Sweep, PairInv

\* A process that dies leaves everything as it is.
LEMMA CrashInv ==
    ASSUME PairInv, NEW p \in Procs, Crash(p)
    PROVE  PairInv'
  <1>1. Tokens' /\ me' \in [Procs -> Locals]
    BY IdleIs, TokenStep DEF Crash, ghosts, PairInv, PairType
  <1>2. PairType' /\ unguarded' = (unguarded \/ CutShort(p))
    BY <1>1 DEF Crash, ghosts, PairInv, PairType
  <1>3. ASSUME ~unguarded, ~CutShort(p), Orderly
        PROVE  Orderly'
    <2>1. CASE me[p].pc \in Guarded
      <3>1. marker = 0 => me[p].pc \in {"undo_sync", "undo_unmark"}
        BY <1>3, <2>1
           DEF CutShort, Orderly, Markers, PairInv, PairType, Tokens, Undoing, Guarded,
               Reports
      <3>2. marker = 0 => file[1] = file[2]
        BY <1>3, <3>1, Rolled DEF PairInv
      <3> QED BY <1>3, <2>1, <3>2, IdleIs, LeaveStep DEF Crash, ghosts, PairInv
    <2>2. CASE me[p].pc \notin Guarded
      <3>1. me[p].pc \in {"mark", "sync_unmark", "sweep"}
        BY <2>2 DEF Crash, PairInv, PairType, Locals, Places
      <3> QED BY <1>3, <3>1, IdleIs, AsideStep DEF Crash, ghosts, PairInv
    <2> QED BY <2>1, <2>2
  <1> QED BY <1>1, <1>2, <1>3 DEF Crash, PairInv

\* The operator leaves one report, or none, when nobody is at work.
LEMMA RecoverInv ==
    ASSUME PairInv, Recover
    PROVE  PairInv'
  <1>1. PICK v : file' = [o \in Outputs |-> v]
                 /\ v \in {file[1], file[2], backup[marker][1], backup[marker][2], 0}
    BY DEF Recover
  <1>2. v \in 0..MaxReports
    <2>1. marker \in Reports
      BY DEF Recover, PairInv, PairType, Reports
    <2> QED BY <1>1, <2>1, FirstOutput DEF PairInv, PairType, Pairs
  <1>3. PairType'
    BY <1>1, <1>2 DEF Recover, Smooth, ghosts, PairInv, PairType, Pairs
  <1>4. Tokens'
    BY DEF Recover, ghosts, PairInv, PairType, Tokens, Reports
  <1>5. OnePublisher' /\ Markers' /\ Contents'
    BY DEF Recover, OnePublisher, Markers, Contents, Guarded, Undoing
  <1>6. UnmarkedPairMatches' /\ OldPairKept'
    BY <1>1, FirstOutput DEF Recover, UnmarkedPairMatches, OldPairKept
  <1> QED BY <1>3, <1>4, <1>5, <1>6 DEF PairInv, Orderly

\* All of them, in one.
LEMMA PairStep ==
    ASSUME PairInv,
           \/ Recover \/ UNCHANGED pairVars
           \/ \E p \in Procs : Start(p) \/ Work(p)
    PROVE  PairInv'
  <1>1. CASE UNCHANGED pairVars
    BY <1>1 DEF pairVars, PairInv, PairType, Tokens, Orderly, OnePublisher, Markers,
                Contents, Kept, UnmarkedPairMatches, OldPairKept
  <1>2. ASSUME NEW p \in Procs, Work(p)
        PROVE  PairInv'
    BY <1>2, MarkInv, GoOnInv, BackUpInv, PublishInv, UnmarkInv, UndoUnlinkInv,
       UndoRestoreInv, UndoUnmarkInv, SweepInv, CrashInv DEF Work
  <1> QED BY <1>1, <1>2, StartInv, RecoverInv

\* What the invariant promises.
LEMMA PairPromises ==
    PairInv => OnePublisher /\ UnmarkedPairMatches /\ RollbackRestores /\ OldPairKept
  <1> SUFFICES ASSUME PairInv
               PROVE  OnePublisher /\ UnmarkedPairMatches /\ RollbackRestores
                      /\ OldPairKept
    OBVIOUS
  <1>1. OnePublisher /\ UnmarkedPairMatches /\ OldPairKept
    BY DEF PairInv, Orderly, OnePublisher, UnmarkedPairMatches, OldPairKept
  <1>2. RollbackRestores
    BY Rolled DEF PairInv, RollbackRestores
  <1> QED BY <1>1, <1>2

-----------------------------------------------------------------------------
(* Benchmarks beside each other.                                           *)

BenchRecord ==
    [step : Measuring \cup {"none", "publish"}, first : Trees \cup {None},
     reverted : BOOLEAN, image : Trees \cup {None}, hosts : SUBSET Trees,
     images : SUBSET Trees, alive : SUBSET Nat]

BenchType == tree \in Trees /\ bench \in [Procs -> BenchRecord]

\* What a benchmark has measured so far ran one tree, unless the tree is not now
\* the one it was, or was not and is again.
OneTree(b) ==
    b.step \in Measuring =>
        /\ b.first \in Trees
        /\ b.image \in {None, b.first}
        /\ b.images \subseteq {b.image} \ {None}
        /\ b.step \in {"probe", "resolve", "size", "host"} => b.images = {}
        /\ b.hosts \subseteq {b.first} \/ b.reverted \/ tree # b.first
        /\ b.step \in {"container", "running"} => b.hosts # {}

\* A container runs only while the benchmark waits for it.
OneContainer(b) == b.alive = IF b.step = "running" THEN {1} ELSE {}

BenchInv ==
    BenchType /\ \A p \in Procs : OneTree(bench[p]) /\ OneContainer(bench[p])

-----------------------------------------------------------------------------
\* Nobody measures at first.
LEMMA BenchInit == Init => BenchInv
  BY DEF Init, BenchInv, BenchType, BenchRecord, Resting, OneTree, OneContainer,
         Measuring

\* A step of one benchmark that leaves the tree alone has to promise nothing but
\* what holds of its own new record.
LEMMA OwnStep ==
    ASSUME BenchInv, NEW p \in Procs, NEW b \in BenchRecord, Now(p, b),
           UNCHANGED tree, OneTree(b), OneContainer(b)
    PROVE  BenchInv'
  <1>1. BenchType'
    BY DEF BenchInv, BenchType, Now
  <1>2. ASSUME NEW q \in Procs
        PROVE  OneTree(bench[q])' /\ OneContainer(bench[q])'
    <2>1. bench'[q] = IF q = p THEN b ELSE bench[q]
      BY DEF BenchInv, BenchType, Now
    <2>2. OneTree(bench[q]) /\ OneContainer(bench[q])
      BY DEF BenchInv
    <2> QED BY <2>1, <2>2 DEF OneTree, OneContainer
  <1> QED BY <1>1, <1>2 DEF BenchInv

\* To end without a report is always possible.
LEMMA GiveUpInv ==
    ASSUME BenchInv, NEW p \in Procs, GiveUp(p)
    PROVE  BenchInv'
  <1>1. Resting \in BenchRecord /\ OneTree(Resting) /\ OneContainer(Resting)
    BY DEF Resting, BenchRecord, OneTree, OneContainer, Measuring
  <1> QED BY <1>1, OwnStep DEF GiveUp, Alone

\* Up to the resolved image.
LEMMA PrepareInv ==
    ASSUME BenchInv, NEW p \in Procs, ReadManifest(p) \/ Probe(p) \/ Resolve(p)
    PROVE  BenchInv'
  <1>1. PICK b \in BenchRecord : b = bench[p]
    BY DEF BenchInv, BenchType
  <1>2. OneTree(b) /\ OneContainer(b) /\ tree \in Trees
    BY <1>1 DEF BenchInv, BenchType
  <1>3. CASE ReadManifest(p)
    <2> DEFINE new == [Resting EXCEPT !.step = "probe", !.first = tree]
    <2>1. new \in BenchRecord /\ OneTree(new) /\ OneContainer(new)
      BY <1>2 DEF Resting, BenchRecord, OneTree, OneContainer, Measuring
    <2> QED BY <1>3, <2>1, OwnStep DEF ReadManifest, Alone
  <1>4. ASSUME b.step \in {"probe", "resolve"}, NEW step \in {"resolve", "size"},
               Now(p, [b EXCEPT !.step = step]), Alone
        PROVE  BenchInv'
    <2> DEFINE new == [b EXCEPT !.step = step]
    <2>1. new \in BenchRecord /\ OneTree(new) /\ OneContainer(new)
      BY <1>2, <1>4 DEF BenchRecord, OneTree, OneContainer, Measuring
    <2> QED BY <1>4, <2>1, OwnStep DEF Alone
  <1>5. ASSUME b.step = "resolve", tag = b.first,
               Now(p, [b EXCEPT !.step = "size", !.image = tag]), Alone
        PROVE  BenchInv'
    <2> DEFINE new == [b EXCEPT !.step = "size", !.image = tag]
    <2>1. new \in BenchRecord /\ OneTree(new) /\ OneContainer(new)
      BY <1>2, <1>5 DEF BenchRecord, OneTree, OneContainer, Measuring
    <2> QED BY <1>5, <2>1, OwnStep DEF Alone
  <1>6. CASE Probe(p)
    BY <1>1, <1>4, <1>6, GiveUpInv DEF Probe, Doing
  <1>7. CASE Resolve(p)
    BY <1>1, <1>4, <1>5, <1>7, GiveUpInv DEF Resolve, Doing, Bound
  <1> QED BY <1>3, <1>6, <1>7

\* The size of the image, and the runs on the host.
LEMMA HostInv ==
    ASSUME BenchInv, NEW p \in Procs,
           MeasureImage(p) \/ HostRun(p) \/ AuditInvariance(p)
    PROVE  BenchInv'
  <1>1. PICK b \in BenchRecord : b = bench[p]
    BY DEF BenchInv, BenchType
  <1>2. OneTree(b) /\ OneContainer(b) /\ tree \in Trees
    BY <1>1 DEF BenchInv, BenchType
  <1>3. ASSUME b.step = "size", NEW image \in {b.image, None},
               Now(p, [b EXCEPT !.step = "host", !.image = image]), Alone
        PROVE  BenchInv'
    <2> DEFINE new == [b EXCEPT !.step = "host", !.image = image]
    <2>1. new \in BenchRecord /\ OneTree(new) /\ OneContainer(new)
      BY <1>2, <1>3 DEF BenchRecord, OneTree, OneContainer, Measuring
    <2> QED BY <1>3, <2>1, OwnStep DEF Alone
  <1>4. ASSUME b.step = "host", Now(p, [b EXCEPT !.hosts = @ \cup {tree}]), Alone
        PROVE  BenchInv'
    <2> DEFINE new == [b EXCEPT !.hosts = @ \cup {tree}]
    <2>1. new \in BenchRecord /\ OneTree(new) /\ OneContainer(new)
      BY <1>2, <1>4 DEF BenchRecord, OneTree, OneContainer, Measuring
    <2> QED BY <1>4, <2>1, OwnStep DEF Alone
  <1>5. ASSUME b.step = "host", NEW step \in {"host", "container"},
               Now(p, [b EXCEPT !.step = step, !.hosts = @ \cup {tree}]), Alone
        PROVE  BenchInv'
    <2> DEFINE new == [b EXCEPT !.step = step, !.hosts = @ \cup {tree}]
    <2>1. new \in BenchRecord /\ new.step = step /\ new.hosts = b.hosts \cup {tree}
      BY <1>2, <1>5 DEF BenchRecord, Measuring
    <2>2. /\ new.first = b.first /\ new.reverted = b.reverted /\ new.image = b.image
          /\ new.images = b.images /\ new.alive = b.alive
      BY <1>5 DEF BenchRecord
    <2>3. OneTree(new) /\ OneContainer(new)
      BY <1>2, <1>5, <2>1, <2>2 DEF OneTree, OneContainer, Measuring
    <2> QED BY <1>5, <2>1, <2>3, OwnStep DEF Alone
  <1>6. CASE MeasureImage(p)
    BY <1>1, <1>3, <1>6, GiveUpInv DEF MeasureImage, Doing
  <1>7. CASE HostRun(p)
    BY <1>1, <1>4, <1>7, GiveUpInv DEF HostRun, Doing
  <1>8. CASE AuditInvariance(p)
    BY <1>1, <1>5, <1>8, GiveUpInv DEF AuditInvariance, Doing
  <1> QED BY <1>6, <1>7, <1>8

\* The containers of the resolved image.
LEMMA ContainerInv ==
    ASSUME BenchInv, NEW p \in Procs,
           StartContainer(p) \/ EndContainer(p) \/ ClientFails(p)
    PROVE  BenchInv'
  <1>1. PICK b \in BenchRecord : b = bench[p]
    BY DEF BenchInv, BenchType
  <1>2. OneTree(b) /\ OneContainer(b) /\ tree \in Trees
    BY <1>1 DEF BenchInv, BenchType
  <1>3. ASSUME b.step = "container", b.image # None,
               Now(p, [b EXCEPT !.step = "running",
                         !.alive = @ \cup {Cardinality(@) + 1},
                         !.images = @ \cup {b.image}]), Alone
        PROVE  BenchInv'
    <2>1. PICK alive, images : /\ alive = b.alive \cup {Cardinality(b.alive) + 1}
                               /\ images = b.images \cup {b.image}
      OBVIOUS
    <2> DEFINE new == [b EXCEPT !.step = "running", !.alive = alive, !.images = images]
    <2>2. /\ new \in BenchRecord
          /\ new.step = "running" /\ new.alive = {1}
          /\ new.images = b.images \cup {b.image}
      <3>1. alive = {1} /\ {1} \in SUBSET Nat
        BY <1>2, <1>3, <2>1, FS_EmptySet DEF OneContainer
      <3>2. images \in SUBSET Trees
        BY <1>3, <2>1 DEF BenchRecord
      <3>3. new \in BenchRecord
        BY <3>1, <3>2 DEF BenchRecord, Measuring
      <3> QED BY <2>1, <3>1, <3>3 DEF BenchRecord
    <2>3. /\ new.first = b.first /\ new.reverted = b.reverted
          /\ new.image = b.image /\ new.hosts = b.hosts
      BY DEF BenchRecord
    <2>4. OneTree(new) /\ OneContainer(new)
      BY <1>2, <1>3, <2>2, <2>3 DEF OneTree, OneContainer, Measuring
    <2> QED BY <1>3, <2>1, <2>2, <2>4, OwnStep DEF Alone
  <1>4. ASSUME b.step = "running",
               Now(p, [b EXCEPT !.step = "container", !.alive = {}]), Alone
        PROVE  BenchInv'
    <2> DEFINE new == [b EXCEPT !.step = "container", !.alive = {}]
    <2>1. new \in BenchRecord /\ OneTree(new) /\ OneContainer(new)
      BY <1>2, <1>4 DEF BenchRecord, OneTree, OneContainer, Measuring
    <2> QED BY <1>4, <2>1, OwnStep DEF Alone
  <1>5. CASE StartContainer(p)
    BY <1>1, <1>3, <1>5, GiveUpInv DEF StartContainer, Doing, ImageRun
  <1>6. CASE EndContainer(p)
    BY <1>1, <1>4, <1>6, GiveUpInv DEF EndContainer, Doing
  <1>7. CASE ClientFails(p)
    BY <1>7, GiveUpInv DEF ClientFails, Timeout
  <1> QED BY <1>5, <1>6, <1>7

\* A publication measures nothing.
LEMMA PublicationInv ==
    ASSUME BenchInv, NEW p \in Procs, Report(p) \/ PublishOn(p)
    PROVE  BenchInv'
  <1>1. Resting \in BenchRecord /\ OneTree(Resting) /\ OneContainer(Resting)
    BY DEF Resting, BenchRecord, OneTree, OneContainer, Measuring
  <1>2. bench[p] \in BenchRecord /\ OneTree(bench[p]) /\ OneContainer(bench[p])
    BY DEF BenchInv, BenchType
  <1>3. CASE Report(p)
    <2> DEFINE new == [Resting EXCEPT !.step = "publish"]
    <2>1. new \in BenchRecord /\ OneTree(new) /\ OneContainer(new)
      BY DEF Resting, BenchRecord, OneTree, OneContainer, Measuring
    <2> QED BY <1>3, <2>1, OwnStep, GiveUpInv DEF Report
  <1>4. CASE PublishOn(p)
    <2>1. CASE me'[p].pc = "idle"
      BY <1>1, <1>4, <2>1, OwnStep DEF PublishOn
    <2>2. CASE me'[p].pc # "idle"
      BY <1>2, <1>4, <2>2, OwnStep DEF PublishOn
    <2> QED BY <2>1, <2>2
  <1> QED BY <1>3, <1>4

\* An edit makes the tree another one than a benchmark began with, or puts it
\* back and is remembered.
LEMMA EditInv ==
    ASSUME BenchInv, Edit
    PROVE  BenchInv'
  <1>1. ASSUME NEW p \in Procs
        PROVE  /\ bench'[p] \in BenchRecord
               /\ OneTree(bench[p])' /\ OneContainer(bench[p])'
    <2>1. PICK b \in BenchRecord : b = bench[p]
      BY DEF BenchInv, BenchType
    <2>2. OneTree(b) /\ OneContainer(b) /\ tree \in Trees /\ tree' \in Trees
      BY <2>1 DEF BenchInv, BenchType, Edit
    <2>3. PICK back \in BOOLEAN :
              /\ bench'[p] = [b EXCEPT !.reverted = back]
              /\ b.step \in Measuring => back = (tree' = b.first)
      <3>1. CASE b.step \in Measuring
        BY <2>1, <3>1 DEF Edit
      <3>2. CASE b.step \notin Measuring
        BY <2>1, <3>2 DEF Edit, BenchRecord
      <3> QED BY <3>1, <3>2
    <2>4. /\ bench'[p] \in BenchRecord
          /\ bench'[p].reverted = back
          /\ bench'[p].step = b.step /\ bench'[p].first = b.first
          /\ bench'[p].image = b.image /\ bench'[p].images = b.images
          /\ bench'[p].hosts = b.hosts /\ bench'[p].alive = b.alive
      BY <2>3 DEF BenchRecord
    <2>5. OneTree(bench[p])'
      BY <2>2, <2>3, <2>4 DEF OneTree
    <2> QED BY <2>2, <2>4, <2>5 DEF OneContainer
  <1>2. BenchType'
    BY <1>1 DEF BenchType, Edit
  <1> QED BY <1>1, <1>2 DEF BenchInv

\* Every step keeps what the benchmarks have measured to one tree.
LEMMA BenchStep == BenchInv /\ [Next]_vars => BenchInv'
  <1> SUFFICES ASSUME BenchInv, [Next]_vars
               PROVE  BenchInv'
    OBVIOUS
  <1>1. ASSUME UNCHANGED <<tree, bench>>
        PROVE  BenchInv'
    BY <1>1 DEF BenchInv, BenchType, OneTree, OneContainer
  <1>2. CASE Edit
    BY <1>2, EditInv
  <1>3. CASE Build \/ RecoverPair \/ UNCHANGED vars
    BY <1>1, <1>3 DEF Build, RecoverPair, vars
  <1>4. ASSUME NEW p \in Procs, Measure(p)
        PROVE  BenchInv'
    BY <1>4, PrepareInv, HostInv, ContainerInv, PublicationInv DEF Measure
  <1> QED BY <1>2, <1>3, <1>4 DEF Next

-----------------------------------------------------------------------------
\* Only Report lets a benchmark publish.
LEMMA OnlyReportPublishes ==
    ASSUME BenchInv, [Next]_vars, NEW p \in Procs, Publishes(p)
    PROVE  bench[p].step = "container" /\ Unchanged(p)
           /\ (bench[p].image = None \/ bench[p].images # {})
  <1>1. PICK b \in BenchRecord : b = bench[p]
    BY DEF BenchInv, BenchType
  <1>2. b.step # "publish" /\ bench'[p].step = "publish"
    BY <1>1 DEF Publishes, Doing
  <1>3. bench'[p] # Resting /\ bench'[p] # b
    BY <1>2 DEF Resting
  <1>4. ~Edit
    <2>1. SUFFICES ASSUME Edit
                   PROVE  FALSE
      OBVIOUS
    <2>2. \E back : bench'[p] = [b EXCEPT !.reverted = back]
      BY <1>1, <2>1 DEF Edit
    <2> QED BY <1>2, <2>2 DEF BenchRecord
  <1>5. PICK q \in Procs : Measure(q)
    BY <1>1, <1>3, <1>4 DEF Next, vars, Build, RecoverPair
  <1>6. bench[q] \in BenchRecord /\ bench \in [Procs -> BenchRecord]
    BY DEF BenchInv, BenchType
  <1>7. q = p
    <2>1. \E new : Now(q, new)
      BY <1>5 DEF Measure, ReadManifest, Probe, Resolve, MeasureImage, HostRun,
           AuditInvariance, StartContainer, EndContainer, ClientFails, Timeout,
           Report, PublishOn, GiveUp
    <2> QED BY <1>1, <1>3, <1>6, <2>1 DEF Now
  <1>8. ~GiveUp(p)
    BY <1>3, <1>6 DEF Now, GiveUp
  <1>9. ~ReadManifest(p) /\ ~Probe(p)
    <2> SUFFICES ASSUME ReadManifest(p) \/ Probe(p)
                 PROVE  FALSE
      OBVIOUS
    <2>1. \/ bench'[p] = [Resting EXCEPT !.step = "probe", !.first = tree]
          \/ bench'[p] = [b EXCEPT !.step = "resolve"]
      BY <1>1, <1>6, <1>8 DEF Now, ReadManifest, Probe
    <2> QED BY <1>2, <2>1 DEF BenchRecord, Resting
  <1>10. ~Resolve(p)
    <2> SUFFICES ASSUME Resolve(p)
                 PROVE  FALSE
      OBVIOUS
    <2>1. \/ bench'[p] = [b EXCEPT !.step = "size"]
          \/ bench'[p] = [b EXCEPT !.step = "size", !.image = tag]
      BY <1>1, <1>6, <1>8 DEF Now, Resolve
    <2> QED BY <1>2, <2>1 DEF BenchRecord
  <1>11. ~MeasureImage(p)
    <2> SUFFICES ASSUME MeasureImage(p)
                 PROVE  FALSE
      OBVIOUS
    <2>1. \E image : bench'[p] = [b EXCEPT !.step = "host", !.image = image]
      BY <1>1, <1>6, <1>8 DEF Now, MeasureImage
    <2> QED BY <1>2, <2>1 DEF BenchRecord
  <1>12. ~HostRun(p)
    BY <1>1, <1>2, <1>6, <1>8 DEF Now, HostRun, BenchRecord
  <1>13. ~AuditInvariance(p)
    <2> SUFFICES ASSUME AuditInvariance(p)
                 PROVE  FALSE
      OBVIOUS
    <2>1. \E step \in {"host", "container"} :
             bench'[p] = [b EXCEPT !.step = step, !.hosts = @ \cup {tree}]
      BY <1>1, <1>6, <1>8 DEF Now, AuditInvariance
    <2> QED BY <1>2, <2>1 DEF BenchRecord
  <1>14. ~StartContainer(p)
    <2> SUFFICES ASSUME StartContainer(p)
                 PROVE  FALSE
      OBVIOUS
    <2>1. bench'[p] = [b EXCEPT !.step = "running",
                         !.alive = @ \cup {Cardinality(@) + 1},
                         !.images = @ \cup {ImageRun(p)}]
      BY <1>1, <1>6, <1>8 DEF Now, StartContainer
    <2> QED BY <1>2, <2>1 DEF BenchRecord
  <1>15. ~EndContainer(p) /\ ~ClientFails(p)
    <2> SUFFICES ASSUME EndContainer(p) \/ ClientFails(p)
                 PROVE  FALSE
      OBVIOUS
    <2>1. bench'[p] = [b EXCEPT !.step = "container", !.alive = {}]
      BY <1>1, <1>6, <1>8 DEF Now, EndContainer, ClientFails, Timeout
    <2> QED BY <1>2, <2>1 DEF BenchRecord
  <1>16. ~PublishOn(p)
    BY <1>1, <1>3, <1>6 DEF Now, PublishOn
  <1>17. Report(p)
    BY <1>5, <1>7, <1>9, <1>10, <1>11, <1>12, <1>13, <1>14, <1>15, <1>16 DEF Measure
  <1> QED BY <1>8, <1>17 DEF Report, Doing

\* The invariant.
THEOREM BenchInvariance == Spec => []BenchInv
  BY BenchInit, BenchStep, PTL DEF Spec

\* What a published report shows was measured on one source tree, whoever edits
\* the tree, builds images or moves the tag meanwhile.
THEOREM PublishedReportIsOfOneTree == Spec => ReportFromOneTree
  <1>1. BenchInv /\ [Next]_vars
            => [\A p \in Procs : Publishes(p) =>
                   /\ bench[p].images \in {{}, {bench[p].first}}
                   /\ bench[p].image # None => bench[p].images # {}
                   /\ bench[p].hosts = {bench[p].first} \/ bench[p].reverted]_vars
    <2> SUFFICES ASSUME BenchInv, [Next]_vars, NEW p \in Procs, Publishes(p)
                 PROVE  /\ bench[p].images \in {{}, {bench[p].first}}
                        /\ bench[p].image # None => bench[p].images # {}
                        /\ bench[p].hosts = {bench[p].first} \/ bench[p].reverted
      OBVIOUS
    <2> QED BY OnlyReportPublishes
            DEF BenchInv, BenchType, OneTree, Unchanged, Measuring
  <1> QED BY <1>1, BenchInvariance, PTL DEF Spec, ReportFromOneTree

\* Containers run one by one, and none is left behind by a report.
THEOREM ContainersNeverOverlap == Spec => ContainersOneByOne
  <1>1. BenchInv /\ BenchInv' /\ [Next]_vars
            => [\A p \in Procs :
                   /\ Cardinality(bench'[p].alive) <= 1
                   /\ Publishes(p) => bench[p].alive = {}]_vars
    <2> SUFFICES ASSUME BenchInv, BenchInv', [Next]_vars, NEW p \in Procs
                 PROVE  /\ Cardinality(bench'[p].alive) <= 1
                        /\ Publishes(p) => bench[p].alive = {}
      OBVIOUS
    <2>1. bench'[p].alive \in {{}, {1}}
      BY DEF BenchInv, OneContainer
    <2>2. Cardinality({}) = 0 /\ Cardinality({1}) = 1
      BY FS_EmptySet, FS_Singleton
    <2>3. Publishes(p) => bench[p].alive = {}
      BY OnlyReportPublishes DEF BenchInv, OneContainer
    <2>4. Cardinality(bench'[p].alive) \in {0, 1}
      BY <2>1, <2>2
    <2> QED BY <2>3, <2>4
  <1> QED BY <1>1, BenchInvariance, PTL DEF Spec, ContainersOneByOne

-----------------------------------------------------------------------------
\* The steps of the benchmarks on the pair are those of ReportPair.
THEOREM PairInvariance == Spec => []PairInv
  <1>1. Init => PairInv
    BY PairInit DEF Init
  <1>2. PairInv /\ [Next]_vars => PairInv'
    <2> SUFFICES ASSUME PairInv, [Next]_vars
                 PROVE  PairInv'
      OBVIOUS
    <2>1. CASE UNCHANGED pairVars
      BY <2>1, PairStep
    <2>2. CASE \E p \in Procs : Measure(p)
      <3>1. PICK p \in Procs : Measure(p)
        BY <2>2
      <3>2. UNCHANGED pairVars \/ Start(p) \/ Work(p)
        BY <3>1 DEF Measure, ReadManifest, Probe, Resolve, MeasureImage, HostRun,
             AuditInvariance, StartContainer, EndContainer, ClientFails, Timeout,
             Report, PublishOn, GiveUp, Alone
      <3> QED BY <3>2, PairStep
    <2>3. CASE Edit \/ Build
      BY <2>1, <2>3 DEF Edit, Build
    <2>4. CASE RecoverPair
      BY <2>4, PairStep DEF RecoverPair
    <2>5. CASE UNCHANGED vars
      BY <2>1, <2>5 DEF vars
    <2> QED BY <2>2, <2>3, <2>4, <2>5 DEF Next
  <1> QED BY <1>1, <1>2, PTL DEF Spec

\* Two publications are never at work together, however many benchmarks end at
\* the same time: the marker that the first creates exclusively keeps the others out,
\* until one that has removed its marker rolls back and meets another, or is cut short.
THEOREM OneAtWork == Spec => []OnePublisher
  BY PairInvariance, PairPromises, PTL

\* Wherever publications died or failed, a pair without a marker matches, but for a
\* rollback that the last directory sync started with the marker gone: while that one
\* moves the files, and from then on if it was cut short or met another publication.
THEOREM NoMarkerNoMix == Spec => []UnmarkedPairMatches
  BY PairInvariance, PairPromises, PTL

\* A rollback that comes to its end restored the pair its publication found, whichever
\* step failed, also the last directory sync, after which there is no marker: until
\* such a rollback meets another publication or is cut short.
THEOREM FailureRestores == Spec => []RollbackRestores
  BY PairInvariance, PairPromises, PTL

\* As long as a marker stands, the pair it was made over can be put back, unless
\* the new one is complete or the rollback failed: with the same exception.
THEOREM OldPairSurvives == Spec => []OldPairKept
  BY PairInvariance, PairPromises, PTL
=============================================================================
