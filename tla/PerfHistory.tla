----------------------------- MODULE PerfHistory -----------------------------
(***************************************************************************)
(* tools/perf_snapshot.py: one invocation after the other builds the       *)
(* workloads, runs them on the simulator of a tree, records a snapshot in  *)
(* docs/perf_history.json and renders docs/PERFORMANCE.md from it.  Any    *)
(* tool may fail, a workload may not pass, the tree under test may be      *)
(* committed to at any moment, and the process may be killed between any   *)
(* two steps, while it writes a file as well.                              *)
(*                                                                         *)
(* The tree is a number, the commits made to it so far, and what a         *)
(* workload reports on a core is the number of that core.                  *)
(***************************************************************************)
EXTENDS Naturals, Sequences

CONSTANTS
    Labels,
    Workloads,
    Metrics,          \* the keys of REPORT_FIELDS
    NewMetrics,       \* those the testbench of the first core does not print
    NoLabel,          \* --label is not given
    NoSnapshot,
    NoStore,          \* the history file cannot be loaded
    Dash,             \* a cell without a value
    MAX_COMMITS,      \* bounds of the model
    MAX_INVOCATIONS

ASSUME MetricsAssumption == "completion_cycles" \in Metrics \ NewMetrics
ASSUME LabelAssumption == NoLabel \notin Labels
ASSUME BoundsAssumption == MAX_COMMITS \in Nat /\ MAX_INVOCATIONS \in Nat

VARIABLES
    saved,        \* the list that can be read from the history file
    savedTorn,    \* it was truncated and not written to its end: none can
    table,        \* the same of the rendered table
    tableTorn,
    tree,         \* commits made to the tree under test
    phase,        \* where main() is
    args,         \* the label and the workloads asked for
    history,      \* the list main() loaded
    sim,          \* the core the simulator was compiled from
    results,      \* workload |-> metrics, of those that have passed
    status,       \* how the last invocation ended
    invocations

files == <<saved, savedTorn, table, tableTorn>>
locals == <<args, history, sim, results>>
vars == <<files, tree, phase, locals, status, invocations>>

-----------------------------------------------------------------------------
\* Reports, snapshots, the table

\* The report at the end of a simulation, external: a run that did not pass
\* has no cycle at which it passed.
Printed(core) == IF core = 0 THEN Metrics \ NewMetrics ELSE Metrics
Passing(core) == [m \in Printed(core) |-> core]
Failing(core) == [m \in Printed(core) \ {"completion_cycles"} |-> core]

ParseReport(report) == [m \in Metrics \intersect DOMAIN report |-> report[m]]

Cores == 0 .. MAX_COMMITS

Snapshot(label, commit, workloads) ==
    [label |-> label, commit |-> commit, workloads |-> workloads]

\* What some workloads report that all passed on one core.
PassedOn(core) == UNION {[ws -> {Passing(core)}] : ws \in SUBSET Workloads}

SoundSnapshots ==
    [label : Labels, commit : Cores, workloads : UNION {PassedOn(core) : core \in Cores}]

ASSUME StoreAssumption == NoStore \notin [Labels -> SoundSnapshots \union {NoSnapshot}]

\* A snapshot of that name would not be looked for: a mutant of what follows.
RecordedAtEnd(list, snap) == Append(list, snap)

\* The index the loop ends at would be replaced: another mutant.
RecordedAtLast(list, snap) ==
    IF list = <<>> THEN <<snap>> ELSE [list EXCEPT ![Len(list)] = snap]

\* The snapshot replaces the first of its name, or is a new one.
Recorded(list, snap) ==
    LET same == {i \in DOMAIN list : list[i].label = snap.label}
        first == CHOOSE i \in same : \A j \in same : i <= j
    IN  IF same = {} THEN Append(list, snap) ELSE [list EXCEPT ![first] = snap]

Cell(snap, w, m) ==
    IF w \in DOMAIN snap.workloads /\ m \in DOMAIN snap.workloads[w]
    THEN snap.workloads[w][m] ELSE Dash

Labeled(list) == [i \in DOMAIN list |-> list[i].label]

\* Snapshots without a value would get no cell: a mutant of what follows.
RenderedDense(list) ==
    [labels |-> Labeled(list),
     rows |-> [w \in Workloads |-> [m \in Metrics |->
                 LET valued == SelectSeq(list, LAMBDA snap : Cell(snap, w, m) # Dash)
                 IN  [i \in DOMAIN valued |-> Cell(valued[i], w, m)]]]]

\* A column for every snapshot, a row for every metric of a workload.
Rendered(list) ==
    [labels |-> Labeled(list),
     rows |-> [w \in Workloads |-> [m \in Metrics |->
                 [i \in DOMAIN list |-> Cell(list[i], w, m)]]]]

-----------------------------------------------------------------------------
NoArgs == [label |-> NoLabel, names |-> {}]
NoResults == [w \in {} |-> {}]

Init ==
    /\ saved = <<>> /\ savedTorn = FALSE
    /\ table = Rendered(<<>>) /\ tableTorn = FALSE
    /\ tree = 0
    /\ phase = "idle"
    /\ args = NoArgs /\ history = <<>> /\ sim = 0 /\ results = NoResults
    /\ status = "none"
    /\ invocations = 0

\* Somebody commits to the tree under test.
Commit ==
    /\ tree < MAX_COMMITS
    /\ tree' = tree + 1
    /\ UNCHANGED <<files, phase, locals, status, invocations>>

\* The process ends; what it held is gone.
Exit(how) ==
    /\ phase' = "idle" /\ status' = how
    /\ args' = NoArgs /\ history' = <<>> /\ sim' = 0 /\ results' = NoResults

Enter(next) == phase' = next /\ UNCHANGED status

Invoked ==
    /\ phase = "idle" /\ invocations < MAX_INVOCATIONS
    /\ invocations' = invocations + 1
    /\ UNCHANGED <<files, tree>>

Unreadable == savedTorn
\* A torn file would be taken for no file: a mutant of what stands above.
TornIsEmpty == FALSE

\* load_history does not survive a torn file.
LoadFails == Invoked /\ Unreadable /\ Exit("failed")

LoadHistory == ~Unreadable /\ history' = saved

InvokeRender ==
    /\ Invoked /\ LoadHistory /\ Enter("render")
    /\ UNCHANGED <<args, sim, results>>

\* The parser's own error, after the history was read.
RejectNoLabel == Invoked /\ ~Unreadable /\ Exit("usage")

\* --only names a subset of the workloads; without it they are all run.
Invoke(label, names) ==
    /\ Invoked /\ LoadHistory /\ Enter("build")
    /\ args' = [label |-> label, names |-> names]
    /\ UNCHANGED <<sim, results>>

\* All images are built, whichever workloads were asked for.
BuildImages ==
    /\ phase = "build" /\ Enter("compile")
    /\ UNCHANGED <<files, tree, locals, invocations>>

CompileSim ==
    /\ phase = "compile" /\ Enter("run")
    /\ sim' = tree
    /\ UNCHANGED <<files, tree, args, history, results, invocations>>

RunWorkload(name) ==
    /\ phase = "run" /\ name \in args.names \ DOMAIN results
    /\ \E report \in {Passing(sim), Failing(sim)} :
         LET metrics == ParseReport(report)
         IN  IF "completion_cycles" \notin DOMAIN metrics
             THEN Exit("failed")
             ELSE /\ Enter("run")
                  /\ results' = [w \in DOMAIN results \union {name} |->
                                   IF w = name THEN metrics ELSE results[w]]
                  /\ UNCHANGED <<args, history, sim>>
    /\ UNCHANGED <<files, tree, invocations>>

\* The assembler, the compiler or make fails.
ToolFails ==
    /\ phase \in {"build", "compile"} /\ Exit("failed")
    /\ UNCHANGED <<files, tree, invocations>>

\* The commit is asked for when all runs are over.
TakeSnapshot ==
    /\ phase = "run" /\ DOMAIN results = args.names
    /\ history' = Recorded(history, Snapshot(args.label, tree, results))
    /\ Enter("write")
    /\ UNCHANGED <<files, tree, args, sim, results, invocations>>

\* write_text truncates the file, which destroys what it held, and then writes
\* it; what is written is no history before its last bracket.
TruncateHistory ==
    /\ phase = "write" /\ Enter("writing")
    /\ saved' = <<>> /\ savedTorn' = TRUE
    /\ UNCHANGED <<table, tableTorn, tree, locals, invocations>>

WriteHistory ==
    /\ phase = "writing" /\ Enter("render")
    /\ saved' = history /\ savedTorn' = FALSE
    /\ UNCHANGED <<table, tableTorn, tree, locals, invocations>>

TruncateTable ==
    /\ phase = "render" /\ Enter("rendering")
    /\ table' = Rendered(<<>>) /\ tableTorn' = TRUE
    /\ UNCHANGED <<saved, savedTorn, tree, locals, invocations>>

WriteTable ==
    /\ phase = "rendering" /\ Exit("ok")
    /\ table' = Rendered(history) /\ tableTorn' = FALSE
    /\ UNCHANGED <<saved, savedTorn, tree, invocations>>

Kill ==
    /\ phase # "idle" /\ Exit("killed")
    /\ UNCHANGED <<files, tree, invocations>>

Next ==
    \/ Commit
    \/ LoadFails \/ InvokeRender \/ RejectNoLabel
    \/ \E l \in Labels, names \in SUBSET Workloads \ {{}} : Invoke(l, names)
    \/ BuildImages \/ CompileSim \/ ToolFails
    \/ \E name \in Workloads : RunWorkload(name)
    \/ TakeSnapshot \/ TruncateHistory \/ WriteHistory \/ TruncateTable \/ WriteTable
    \/ Kill

Spec == Init /\ [][Next]_vars

-----------------------------------------------------------------------------
\* Properties

TypeOK ==
    /\ saved \in Seq(SoundSnapshots) /\ history \in Seq(SoundSnapshots)
    /\ savedTorn \in BOOLEAN /\ tableTorn \in BOOLEAN /\ (savedTorn => saved = <<>>)
    /\ tree \in Cores /\ sim \in Cores
    /\ phase \in {"idle", "build", "compile", "run", "write", "writing", "render", "rendering"}
    /\ args \in [label : Labels \union {NoLabel}, names : SUBSET Workloads]
    /\ results \in PassedOn(sim)
    /\ status \in {"none", "failed", "usage", "ok", "killed"}
    /\ invocations \in 0 .. MAX_INVOCATIONS

Unique(list) == \A i, j \in DOMAIN list : list[i].label = list[j].label => i = j

\* However often a label is recorded, the history has one snapshot of that label
\* ("replaces an existing snapshot with the same name", perf_snapshot.py:198).
LabelsUnique == TypeOK /\ Unique(saved)

StoreOf(list) ==
    [l \in Labels |-> IF \E i \in DOMAIN list : list[i].label = l
                      THEN list[CHOOSE i \in DOMAIN list : list[i].label = l]
                      ELSE NoSnapshot]

\* What is stored: what the file holds or, while a process is rewriting it, what
\* this process holds of it.  When nobody is, a torn file stores nothing.
Stored ==
    IF phase = "writing" THEN StoreOf(history)
    ELSE IF savedTorn THEN NoStore ELSE StoreOf(saved)

Abstract == INSTANCE SnapshotStore WITH store <- Stored, Snapshots <- SoundSnapshots

\* "The snapshot is stored under --label in docs/perf_history.json"
\* (perf_snapshot.py:8), where it "replaces an existing snapshot with the same
\* name" (:198): an invocation records one sound snapshot under its own label or
\* nothing at all, whatever fails, and every snapshot stays.  A process killed
\* between truncating and writing the file takes all of them with it.
ImplementsStore == Abstract!Spec

\* Short of that, the promise is kept: until the file is lost, an invocation
\* records one sound snapshot under its own label or nothing; only a process
\* killed while it writes the file loses it; and no later invocation begins a new
\* history over a lost one as if there had been none.
ImplementsFragileStore ==
    /\ Abstract!FragileSpec
    /\ [][Stored # NoStore /\ Stored' = NoStore => phase = "writing" /\ status' = "killed"]_vars

\* When an invocation has returned 0 the table on disk shows each snapshot of
\* the history in its own column: every value of it, and nothing else.
TableAgrees ==
    phase = "idle" /\ status = "ok" =>
        /\ ~savedTorn /\ ~tableTorn
        /\ Len(table.labels) = Len(saved)
        /\ \A i \in DOMAIN saved, w \in Workloads, m \in Metrics :
             LET column == table.rows[w][m]
                 snap == StoreOf(saved)[table.labels[i]]
             IN  Len(column) = Len(saved) /\ column[i] = Cell(snap, w, m)
=============================================================================
