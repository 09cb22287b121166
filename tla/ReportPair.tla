----------------------------- MODULE ReportPair -----------------------------
(***************************************************************************)
(* _publish_report_pair of the benchmark tool: the JSON and the Markdown   *)
(* report are two files that must change together.  A marker file, created *)
(* exclusively, stands while they may differ; the old files are kept as    *)
(* backups and put back if anything fails.  Publications of one pair may   *)
(* run beside each other, and may die anywhere.                            *)
(***************************************************************************)
EXTENDS Naturals

CONSTANTS
    Procs,          \* processes that publish
    MaxReports,     \* bound: reports, the one there at the start included
    MaxFaults       \* bound: failed file operations and crashes together

ASSUME ReportPairAssumption == MaxReports \in Nat \ {0} /\ MaxFaults \in Nat

VARIABLES
    file,       \* file[o]: report whose text output o holds, 0 if missing
    marker,     \* report whose publication made the marker, 0 if none
    backup,     \* backup[t][o]: report in the backup publication t made of o
    before,     \* before[t]: the pair when publication t made its marker
    me,         \* me[p]: where process p is, and its local variables
    started,    \* reports so far
    faults,
    \* Auxiliary: they record what was not as the code means it, and guard no step.
    unguarded,  \* so far a rollback without its marker was cut short, or met
                \* another publication, at work or dead with its marker left
    spoiled     \* publications whose rollback itself failed

pairVars == <<file, marker, backup, before, me, started, faults, unguarded, spoiled>>
ghosts == <<before, started>>

-----------------------------------------------------------------------------
\* 1: JSON, 2: Markdown, the order of `contents`.
Outputs == 1..2
Reports == 1..MaxReports
Neither == [o \in Outputs |-> 0]
\* Where a process works on the files, and, of these, where it undoes its work.
Undoing == {"undo_unlink", "undo_restore", "undo_sync", "undo_unmark"}
Guarded == {"stage", "backup", "publish", "sync", "unmark"} \cup Undoing
Idle == [pc |-> "idle", tok |-> 0, out |-> 1, published |-> {}, kept |-> {}]

At(p, place) == me[p].pc = place
Fault == faults < MaxFaults /\ faults' = faults + 1
NoFault == UNCHANGED faults
Become(p, l) == me' = [me EXCEPT ![p] = l]
Goto(p, place) == Become(p, [me[p] EXCEPT !.pc = place, !.out = 1])
\* The next round of a loop over the outputs, or what comes after the loop.
Onwards(l, place) == IF l.out = 1 THEN [l EXCEPT !.out = 2]
                     ELSE [l EXCEPT !.pc = place, !.out = 1]

\* The rollback of p has the two files apart.
Rearranging(p) == me[p].pc \in {"undo_unlink", "undo_restore"}
\* p may roll back: under its marker, or with no marker there and nobody else at
\* work.
Undisturbed(p) ==
    \/ marker = me[p].tok
    \/ marker = 0 /\ \A q \in Procs \ {p} : me[q].pc \notin Guarded
\* p stops here, and nothing tells others that the two files are apart.
CutShort(p) == Rearranging(p) /\ marker # me[p].tok

\* (A bug of the code: a failure goes straight to the `finally` clause.)
FailsUndone(p) == Goto(p, "sweep") /\ UNCHANGED <<unguarded, spoiled>> /\ Fault
\* except BaseException: the rollback, whether or not the marker is still there.
Fails(p) ==
    /\ Goto(p, "undo_unlink")
    /\ unguarded' = (unguarded \/ ~Undisturbed(p))
    /\ UNCHANGED spoiled /\ Fault

\* An exception in the rollback leaves the marker, and goes to `finally`.
RollbackFails(p) ==
    /\ Goto(p, "sweep")
    /\ unguarded' = (unguarded \/ CutShort(p))
    /\ spoiled' = spoiled \cup {me[p].tok} /\ Fault

Smooth == NoFault /\ UNCHANGED <<unguarded, spoiled>>

-----------------------------------------------------------------------------
Start(p) ==
    /\ At(p, "idle") /\ started < MaxReports
    /\ started' = started + 1
    /\ Become(p, [Idle EXCEPT !.pc = "mark", !.tok = started + 1])
    /\ UNCHANGED <<file, marker, backup, before>> /\ Smooth

\* A rollback that goes on when the marker of p is made had none.
MakesMarker(p) ==
    /\ marker' = me[p].tok /\ before' = [before EXCEPT ![me[p].tok] = file]
    /\ unguarded' = (unguarded \/ (marker = 0 /\ \E q \in Procs : me[q].pc \in Undoing))

\* (A bug of the code: the marker is opened with "wb".)
MarkOver(p) ==
    /\ At(p, "mark")
    /\ MakesMarker(p) /\ Goto(p, "stage") /\ NoFault
    /\ UNCHANGED <<file, backup, started, spoiled>>

\* Mode "xb" fails if there is a marker; a failure after that (write, fsync)
\* leaves the marker, and nothing to roll back.
Mark(p) ==
    /\ At(p, "mark")
    /\ UNCHANGED <<file, backup, started, spoiled>>
    /\ \/ marker = 0 /\ MakesMarker(p) /\ Goto(p, "stage") /\ NoFault
       \/ marker = 0 /\ MakesMarker(p) /\ Become(p, Idle) /\ Fault
       \/ /\ Become(p, Idle) /\ UNCHANGED <<marker, before, unguarded>>
          /\ IF marker # 0 THEN NoFault ELSE Fault

\* Both texts are written to files of their own and synced.
Stage(p) ==
    /\ At(p, "stage")
    /\ UNCHANGED <<file, marker, backup, ghosts>>
    /\ \/ Goto(p, "backup") /\ Smooth
       \/ Fails(p)

BackUp(p) ==
    /\ At(p, "backup")
    /\ UNCHANGED <<marker, ghosts>>
    /\ LET o == me[p].out
           t == me[p].tok
       IN \/ /\ file[o] # 0
             /\ backup' = [backup EXCEPT ![t][o] = file[o]]
             /\ file' = [file EXCEPT ![o] = 0]
             /\ Become(p, Onwards([me[p] EXCEPT !.kept = @ \cup {o}], "publish"))
             /\ Smooth
          \/ /\ file[o] = 0 /\ UNCHANGED <<file, backup>>
             /\ Become(p, Onwards(me[p], "publish")) /\ Smooth
          \/ Fails(p) /\ UNCHANGED <<file, backup>>

Publish(p) ==
    /\ At(p, "publish")
    /\ UNCHANGED <<marker, backup, ghosts>>
    /\ LET o == me[p].out
       IN \/ /\ file' = [file EXCEPT ![o] = me[p].tok]
             /\ Become(p, Onwards([me[p] EXCEPT !.published = @ \cup {o}], "sync"))
             /\ Smooth
          \/ Fails(p) /\ UNCHANGED file

Sync(p) ==
    /\ At(p, "sync")
    /\ UNCHANGED <<file, marker, backup, ghosts>>
    /\ \/ Goto(p, "unmark") /\ Smooth
       \/ Fails(p)

\* marker.unlink() removes whatever marker is there.
Unmark(p) ==
    /\ At(p, "unmark")
    /\ UNCHANGED <<file, backup, ghosts>>
    /\ \/ marker # 0 /\ marker' = 0 /\ Goto(p, "sync_unmark") /\ Smooth
       \/ UNCHANGED marker /\ Fails(p)

\* The directory is synced once more: a failure here still rolls back, with the
\* marker gone.
SyncUnmark(p) ==
    /\ At(p, "sync_unmark")
    /\ UNCHANGED <<file, marker, backup, ghosts>>
    /\ \/ Goto(p, "sweep") /\ Smooth
       \/ Fails(p)

-----------------------------------------------------------------------------
(* The rollback.                                                           *)

UndoUnlink(p) ==
    /\ At(p, "undo_unlink")
    /\ UNCHANGED <<marker, backup, ghosts>>
    /\ LET o == me[p].out
       IN \/ /\ file' = [file EXCEPT ![o] = IF o \in me[p].published THEN 0 ELSE @]
             /\ Become(p, Onwards(me[p], "undo_restore")) /\ Smooth
          \/ o \in me[p].published /\ UNCHANGED file /\ RollbackFails(p)

\* (A bug of the code: only what was replaced is put back.)
PutsBackPublished(p, o) == o \in me[p].kept \cap me[p].published
PutsBack(p, o) == o \in me[p].kept

UndoRestore(p) ==
    /\ At(p, "undo_restore")
    /\ UNCHANGED <<marker, ghosts>>
    /\ LET o == me[p].out
           t == me[p].tok
       IN \/ /\ PutsBack(p, o)
             /\ file' = [file EXCEPT ![o] = backup[t][o]]
             /\ backup' = [backup EXCEPT ![t][o] = 0]
             /\ Become(p, Onwards(me[p], "undo_sync")) /\ Smooth
          \/ /\ ~PutsBack(p, o) /\ UNCHANGED <<file, backup>>
             /\ Become(p, Onwards(me[p], "undo_sync")) /\ Smooth
          \/ /\ PutsBack(p, o) /\ UNCHANGED <<file, backup>>
             /\ RollbackFails(p)

UndoSync(p) ==
    /\ At(p, "undo_sync")
    /\ UNCHANGED <<file, marker, backup, ghosts>>
    /\ \/ Goto(p, "undo_unmark") /\ Smooth
       \/ RollbackFails(p)

\* A missing marker is no error here.
UndoUnmark(p) ==
    /\ At(p, "undo_unmark")
    /\ UNCHANGED <<file, backup, ghosts>>
    /\ \/ marker' = 0 /\ Goto(p, "sweep") /\ Smooth
       \/ marker' \in {marker, 0} /\ RollbackFails(p)

\* (A bug of the code: `finally` clears the marker away too.)
SweepAll(p) ==
    /\ At(p, "sweep")
    /\ Become(p, Idle) /\ Smooth
    /\ marker' = 0
    /\ backup' = [backup EXCEPT ![me[p].tok] = Neither]
    /\ UNCHANGED <<file, ghosts>>

\* `finally`: the backups go, needed or not; it stops at the first failure.
Sweep(p) ==
    /\ At(p, "sweep")
    /\ Become(p, Idle)
    /\ UNCHANGED <<file, marker, ghosts, unguarded, spoiled>>
    /\ \/ backup' = [backup EXCEPT ![me[p].tok] = Neither] /\ NoFault
       \/ UNCHANGED backup /\ Fault
       \/ backup' = [backup EXCEPT ![me[p].tok][1] = 0] /\ Fault

-----------------------------------------------------------------------------
Crash(p) ==
    /\ ~At(p, "idle")
    /\ Become(p, Idle) /\ Fault
    /\ unguarded' = (unguarded \/ CutShort(p))
    /\ UNCHANGED <<file, marker, backup, ghosts, spoiled>>

\* "Review the pair and recover the marker explicitly": the operator settles on
\* one report that is still there, or on none, and removes the marker.
Recover ==
    /\ marker # 0 /\ \A p \in Procs : At(p, "idle")
    /\ \E v \in {file[1], file[2], backup[marker][1], backup[marker][2], 0} :
          file' = [o \in Outputs |-> v]
    /\ marker' = 0
    /\ UNCHANGED <<backup, me, ghosts>> /\ Smooth

Unpublished ==
    /\ file \in {[o \in Outputs |-> v] : v \in {0, 1}}
    /\ marker = 0
    /\ backup = [t \in Reports |-> Neither]
    /\ before = [t \in Reports |-> Neither]
    /\ me = [p \in Procs |-> Idle]
    /\ started = 1
    /\ unguarded = FALSE
    /\ spoiled = {}
    /\ faults = 0

\* What a publication does once it has started.
Work(p) ==
    \/ Mark(p) \/ Stage(p) \/ BackUp(p) \/ Publish(p) \/ Sync(p)
    \/ Unmark(p) \/ SyncUnmark(p) \/ UndoUnlink(p) \/ UndoRestore(p)
    \/ UndoSync(p) \/ UndoUnmark(p) \/ Sweep(p) \/ Crash(p)

-----------------------------------------------------------------------------
\* Two publications of a pair are never at work together, although nothing but
\* the exclusive creation of the marker keeps them apart: until one rolls back with
\* its marker gone (the last directory sync failed) and meets another, or is cut
\* short.
OnePublisher ==
    ~unguarded =>
        \A p, q \in Procs :
            me[p].pc \in Guarded /\ me[q].pc \in Guarded => p = q

\* Without a marker the two reports belong together, wherever a publication died
\* or failed, the last directory sync included: but while a rollback whose marker is
\* gone moves them, and once one was cut short or met another publication.
UnmarkedPairMatches ==
    ~unguarded /\ marker = 0 /\ (\A p \in Procs : ~Rearranging(p))
        => file[1] = file[2]

\* A publication that fails, at whatever step, leaves the pair as it found it when
\* it made its marker: until a rollback whose marker is gone meets another
\* publication, or is cut short.
RollbackRestores ==
    ~unguarded =>
        \A p \in Procs : At(p, "undo_unmark") => file = before[me[p].tok]

\* While the marker stands, the old pair is still there, in place or as a
\* backup, unless the rollback itself failed or the new pair is complete: with the
\* same exception.
OldPairKept ==
    ~unguarded /\ marker # 0 /\ marker \notin spoiled =>
        \/ file = [o \in Outputs |-> marker]
        \/ \A o \in Outputs : before[marker][o] \in {file[o], backup[marker][o]}
=============================================================================
