------------------------------ MODULE Benchmark ------------------------------
(***************************************************************************)
(* tools/benchmark_runtime.py: measure the reference routers on the host   *)
(* and in containers, then publish what was measured as a pair of reports  *)
(* (ReportPair).  While a benchmark measures, others edit the source tree, *)
(* build images and move the tag it was given.                             *)
(***************************************************************************)
EXTENDS ReportPair, FiniteSets

CONSTANTS
    Trees,          \* contents the source tree may have (its manifests)
    None            \* in place of one of them

ASSUME BenchmarkAssumption == None \notin Trees

VARIABLES
    tree,       \* the source tree as it is now
    tag,        \* the tree from which the tagged image was built: its identity,
                \* and the label SOURCE_MANIFEST_SHA256 it carries
    bench       \* bench[p]: what benchmark p is at, and its local variables

vars == <<pairVars, tree, tag, bench>>
-----------------------------------------------------------------------------
\* step; first: the manifest read at the start; reverted: the tree was changed
\* since, and lately changed back; image: the resolved content ID; hosts, images:
\* the trees the runs so far ran; alive: its containers that still run.
Resting == [step |-> "none", first |-> None, reverted |-> FALSE, image |-> None,
            hosts |-> {}, images |-> {}, alive |-> {}]

Measuring == {"probe", "resolve", "size", "host", "container", "running"}
Doing(p, step) == bench[p].step = step
Now(p, b) == bench' = [bench EXCEPT ![p] = b]
Alone == UNCHANGED <<pairVars, tree, tag>>
GiveUp(p) == Now(p, Resting) /\ Alone

Init ==
    /\ Unpublished
    /\ tree \in Trees /\ tag \in Trees
    /\ bench = [p \in Procs |-> Resting]

-----------------------------------------------------------------------------
(* Others. *)

Edit ==
    /\ tree' \in Trees \ {tree}
    /\ bench' = [p \in Procs |->
                   [bench[p] EXCEPT !.reverted =
                      IF bench[p].step \in Measuring THEN tree' = bench[p].first ELSE @]]
    /\ UNCHANGED <<pairVars, tag>>

Build ==
    /\ tag # tree /\ tag' = tree
    /\ UNCHANGED <<pairVars, tree, bench>>

-----------------------------------------------------------------------------
(* One benchmark. *)

ReadManifest(p) ==
    /\ Doing(p, "none") /\ started < MaxReports
    /\ Now(p, [Resting EXCEPT !.step = "probe", !.first = tree]) /\ Alone

\* The official mode wants an Apple Silicon host with a local Colima daemon.
Probe(p) ==
    /\ Doing(p, "probe")
    /\ GiveUp(p) \/ (Now(p, [bench[p] EXCEPT !.step = "resolve"]) /\ Alone)

Bound(p) == tag = bench[p].first

\* The tag is resolved, once, to a content ID whose label must name the tree
\* whose manifest was read; local screening may do without an image.
Resolve(p) ==
    /\ Doing(p, "resolve")
    /\ \/ GiveUp(p)
       \/ Now(p, [bench[p] EXCEPT !.step = "size"]) /\ Alone
       \/ /\ Bound(p)
          /\ Now(p, [bench[p] EXCEPT !.step = "size", !.image = tag]) /\ Alone

\* A container measures the size of that image; with Docker gone by now, local
\* screening goes on without containers.
MeasureImage(p) ==
    /\ Doing(p, "size")
    /\ \/ GiveUp(p)
       \/ \E image \in {bench[p].image, None} :
             Now(p, [bench[p] EXCEPT !.step = "host", !.image = image]) /\ Alone

\* One run of a router, a repetition or the first of an audit, in a fresh process
\* that imports the tree as it is now.
HostRun(p) ==
    /\ Doing(p, "host")
    /\ \/ GiveUp(p)
       \/ Now(p, [bench[p] EXCEPT !.hosts = @ \cup {tree}]) /\ Alone

\* The repetitions of a router are followed by its audit: two fresh runs, the first
\* of which is a HostRun like theirs. The audit of the last one ends the host runs.
AuditInvariance(p) ==
    /\ Doing(p, "host") /\ bench[p].hosts # {}
    /\ \/ GiveUp(p)
       \/ \E step \in {"host", "container"} :
             Now(p, [bench[p] EXCEPT !.step = step, !.hosts = @ \cup {tree}]) /\ Alone

ImageRun(p) == bench[p].image

\* Repetitions and audits in containers of the resolved image, never pulled.
StartContainer(p) ==
    /\ Doing(p, "container") /\ bench[p].image # None
    /\ \/ GiveUp(p)
       \/ /\ Now(p, [bench[p] EXCEPT !.step = "running",
                        !.alive = @ \cup {Cardinality(@) + 1},
                        !.images = @ \cup {ImageRun(p)}])
          /\ Alone

\* The container ends and is removed (--rm); its output and metrics hold up, or
\* they do not (a limit was reached) and the benchmark ends.
EndContainer(p) ==
    /\ Doing(p, "running")
    /\ \/ Now(p, [bench[p] EXCEPT !.step = "container", !.alive = {}]) /\ Alone
       \/ GiveUp(p)

\* (A bug of the code: a timeout is recorded as a slow result.)
TimeoutGoesOn(p) == \E gone \in BOOLEAN :
    Now(p, [bench[p] EXCEPT !.step = "container",
              !.alive = IF gone THEN {} ELSE @]) /\ Alone
\* The client's time is up: docker stop, then docker rm --force, if the cidfile
\* had an ID by then; whether or not the container goes, the benchmark ends.
Timeout(p) == GiveUp(p)

ClientFails(p) == Doing(p, "running") /\ Timeout(p)

\* (A bug of the code: the manifest is read again, and not compared.)
UnchangedOrNot(p) == TRUE
Unchanged(p) == tree = bench[p].first

\* Official results must all be valid; then the tree's manifest must be the
\* first one still, and the publication of the report starts.
Report(p) ==
    /\ Doing(p, "container")
    /\ bench[p].image = None \/ bench[p].images # {}
    /\ \/ GiveUp(p)
       \/ /\ Unchanged(p) /\ Start(p)
          /\ Now(p, [Resting EXCEPT !.step = "publish"])
          /\ UNCHANGED <<tree, tag>>

PublishOn(p) ==
    /\ Doing(p, "publish")
    /\ Work(p)
    /\ Now(p, IF me'[p].pc = "idle" THEN Resting ELSE bench[p])
    /\ UNCHANGED <<tree, tag>>

RecoverPair == Recover /\ UNCHANGED <<tree, tag, bench>>

Measure(p) ==
    \/ ReadManifest(p) \/ Probe(p) \/ Resolve(p) \/ MeasureImage(p)
    \/ HostRun(p) \/ AuditInvariance(p) \/ StartContainer(p) \/ EndContainer(p) \/ ClientFails(p)
    \/ Report(p) \/ PublishOn(p)

Next == Edit \/ Build \/ RecoverPair \/ \E p \in Procs : Measure(p)

Spec == Init /\ [][Next]_vars

-----------------------------------------------------------------------------
Publishes(p) == ~Doing(p, "publish") /\ bench'[p].step = "publish"

(* A report that is published is about one source tree: every container it has
   results of ran an image built from the tree whose manifest it shows, wherever
   the tag went; and so did every host process, unless the tree was changed and
   changed back before the manifest was read again, which main cannot see. *)
ReportFromOneTree ==
    [][\A p \in Procs : Publishes(p) =>
           /\ bench[p].images \in {{}, {bench[p].first}}
           /\ bench[p].image # None => bench[p].images # {}
           /\ bench[p].hosts = {bench[p].first} \/ bench[p].reverted]_vars

(* The containers of a benchmark never run side by side, and none is left
   running when its report is published: a container that outlives its client
   ends the benchmark that started it. *)
ContainersOneByOne ==
    [][\A p \in Procs :
           /\ Cardinality(bench'[p].alive) <= 1
           /\ Publishes(p) => bench[p].alive = {}]_vars
=============================================================================
