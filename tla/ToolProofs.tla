------------------------------ MODULE ToolProofs -----------------------------
(***************************************************************************)
(* Theorems of two of the repository's tools.                              *)
(*                                                                         *)
(* tools/perf_snapshot.py: the performance history keeps one sound         *)
(* snapshot for each label and the table follows it, for every set of      *)
(* labels, workloads and metrics, any number of invocations and any        *)
(* failure or kill between two steps.                                      *)
(*                                                                         *)
(* tools/lockstep_random.py: in every program of the generator, of any     *)
(* length and over any registers it may overwrite, an access is to an      *)
(* address that the generator knows, and control stays in the group it     *)
(* runs and returns behind a call.  A group is annotated with what is      *)
(* known at each of its instructions; the annotation of every group a      *)
(* generator function can emit is inductive on its own, and the bases      *)
(* carry from one group to the next.                                       *)
(***************************************************************************)
EXTENDS PerfHistory, RandomProgram, SequenceTheorems, FiniteSetTheorems, WellFoundedInduction, TLAPS

-----------------------------------------------------------------------------
(* The performance history.                                                *)

\* Where the loaded list stands against the file: equal until the snapshot is
\* taken and after it was written, one recording ahead in between.  While the
\* file is truncated the loaded list is the only one.
ListFollows ==
    /\ phase \in {"build", "compile", "run", "render", "rendering"} => history = saved
    /\ phase = "write" => \E snap \in SoundSnapshots : history = Recorded(saved, snap)
    /\ phase = "writing" => Unique(history)

\* Only a write in progress, or a process killed in it, leaves a file torn.
TornOnlyInWrite ==
    /\ phase \in {"build", "compile", "run", "write", "render", "rendering"} => ~savedTorn
    /\ phase = "writing" => savedTorn

TableFollows ==
    phase = "idle" /\ status = "ok" => ~savedTorn /\ ~tableTorn /\ table = Rendered(saved)

\* The label of an invocation that is recording: it asked for one.
HasLabel ==
    phase \in {"build", "compile", "run", "write", "writing"} => args.label \in Labels

\* No workload has run before the simulator is compiled.
NothingRun == phase \in {"idle", "build", "compile"} => results = NoResults

HistoryIInv ==
    /\ TypeOK /\ LabelsUnique /\ ListFollows /\ TornOnlyInWrite /\ TableFollows
    /\ HasLabel /\ NothingRun

-----------------------------------------------------------------------------
\* A sound snapshot has a label.
LEMMA SoundHasLabel ==
  ASSUME NEW snap \in SoundSnapshots
  PROVE  snap.label \in Labels
BY DEF SoundSnapshots

\* Where a list has the label already, recording is an assignment to its place.
LEMMA RecordedReplaces ==
  ASSUME NEW list \in Seq(SoundSnapshots), Unique(list), NEW snap,
         NEW k \in DOMAIN list, list[k].label = snap.label
  PROVE  Recorded(list, snap) = [list EXCEPT ![k] = snap]
<1> DEFINE same == {i \in DOMAIN list : list[i].label = snap.label}
           first == CHOOSE i \in same : \A j \in same : i <= j
<1>1. same = {k}
  BY DEF Unique
<1>2. k \in Nat
  OBVIOUS
<1>3. k \in same /\ \A j \in same : k <= j
  BY <1>1, <1>2
<1>4. first = k
  BY <1>1, <1>3
<1> QED BY <1>1, <1>4 DEF Recorded

LEMMA RecordedAppends ==
  ASSUME NEW list, NEW snap, \A i \in DOMAIN list : list[i].label # snap.label
  PROVE  Recorded(list, snap) = Append(list, snap)
BY DEF Recorded

\* Recording keeps the list well-typed and its labels apart.
LEMMA RecordedUnique ==
  ASSUME NEW list \in Seq(SoundSnapshots), Unique(list), NEW snap \in SoundSnapshots
  PROVE  Recorded(list, snap) \in Seq(SoundSnapshots) /\ Unique(Recorded(list, snap))
<1>1. CASE \E k \in DOMAIN list : list[k].label = snap.label
  <2>1. PICK k \in DOMAIN list : list[k].label = snap.label
    BY <1>1
  <2>2. Recorded(list, snap) = [list EXCEPT ![k] = snap]
    BY <2>1, RecordedReplaces
  <2> QED BY <2>1, <2>2 DEF Unique
<1>2. CASE \A k \in DOMAIN list : list[k].label # snap.label
  <2>1. Recorded(list, snap) = Append(list, snap)
    BY <1>2, RecordedAppends
  <2> QED BY <1>2, <2>1 DEF Unique
<1> QED BY <1>1, <1>2

\* In a list without repeated labels the store is read off any place.
LEMMA StoreAt ==
  ASSUME NEW list \in Seq(SoundSnapshots), Unique(list), NEW k \in DOMAIN list
  PROVE  list[k].label \in Labels /\ StoreOf(list)[list[k].label] = list[k]
<1>1. list[k] \in SoundSnapshots
  OBVIOUS
<1>2. list[k].label \in Labels
  BY <1>1, SoundHasLabel
<1>3. (CHOOSE i \in DOMAIN list : list[i].label = list[k].label) = k
  BY DEF Unique
<1> QED BY <1>2, <1>3 DEF StoreOf

\* Recording changes the store at the snapshot's label and nowhere else.
LEMMA RecordedStore ==
  ASSUME NEW list \in Seq(SoundSnapshots), Unique(list), NEW snap \in SoundSnapshots
  PROVE  StoreOf(Recorded(list, snap)) = [StoreOf(list) EXCEPT ![snap.label] = snap]
<1> DEFINE new == Recorded(list, snap)
<1>1. new \in Seq(SoundSnapshots) /\ Unique(new)
  BY RecordedUnique
<1>2. snap.label \in Labels
  BY SoundHasLabel
<1>3. /\ \E k \in DOMAIN new : new[k] = snap
      /\ \A k \in DOMAIN list : list[k].label # snap.label => k \in DOMAIN new /\ new[k] = list[k]
      /\ \A k \in DOMAIN new : new[k] # snap => k \in DOMAIN list /\ new[k] = list[k]
  <2>1. CASE \E k \in DOMAIN list : list[k].label = snap.label
    <3>1. PICK k \in DOMAIN list : list[k].label = snap.label
      BY <2>1
    <3>2. new = [list EXCEPT ![k] = snap]
      BY <3>1, RecordedReplaces
    <3> QED BY <3>1, <3>2
  <2>2. CASE \A k \in DOMAIN list : list[k].label # snap.label
    <3>1. new = Append(list, snap)
      BY <2>2, RecordedAppends
    <3> QED BY <3>1
  <2> QED BY <2>1, <2>2
<1> HIDE DEF new
<1>4. ASSUME NEW l \in Labels
      PROVE  StoreOf(new)[l] = [StoreOf(list) EXCEPT ![snap.label] = snap][l]
  <2>1. CASE l = snap.label
    <3>1. PICK k \in DOMAIN new : new[k] = snap
      BY <1>3
    <3>2. StoreOf(new)[l] = snap
      BY <1>1, <2>1, <3>1, StoreAt
    <3> QED BY <2>1, <3>2 DEF StoreOf
  <2>2. CASE l # snap.label /\ \E k \in DOMAIN list : list[k].label = l
    <3>1. PICK k \in DOMAIN list : list[k].label = l
      BY <2>2
    <3>2. k \in DOMAIN new /\ new[k] = list[k]
      BY <1>3, <2>2, <3>1
    <3>3. StoreOf(new)[l] = list[k] /\ StoreOf(list)[l] = list[k]
      BY <1>1, <3>1, <3>2, StoreAt
    <3> QED BY <2>2, <3>3 DEF StoreOf
  <2>3. CASE l # snap.label /\ \A k \in DOMAIN list : list[k].label # l
    <3>1. \A k \in DOMAIN new : new[k].label # l
      BY <1>3, <2>3
    <3>2. StoreOf(new)[l] = NoSnapshot /\ StoreOf(list)[l] = NoSnapshot
      BY <2>3, <3>1 DEF StoreOf
    <3> QED BY <2>3, <3>2 DEF StoreOf
  <2> QED BY <2>1, <2>2, <2>3
<1> QED BY <1>4 DEF StoreOf, new

-----------------------------------------------------------------------------
\* What the last workload passed with is a sound part of the snapshot.
LEMMA ParsePassing ==
  ASSUME NEW core
  PROVE  /\ ParseReport(Passing(core)) = Passing(core)
         /\ "completion_cycles" \notin DOMAIN ParseReport(Failing(core))
<1>1. Printed(core) \subseteq Metrics
  BY DEF Printed
<1> QED BY <1>1 DEF ParseReport, Passing, Failing

LEMMA ResultsSound ==
  ASSUME TypeOK, args.label \in Labels
  PROVE  Snapshot(args.label, tree, results) \in SoundSnapshots
<1>1. results \in UNION {PassedOn(core) : core \in Cores}
  BY DEF TypeOK
<1> QED BY <1>1 DEF TypeOK, SoundSnapshots, Snapshot

LEMMA NoResultsPassed ==
  ASSUME NEW core
  PROVE  NoResults \in PassedOn(core)
<1>1. NoResults \in [{} -> {Passing(core)}]
  BY DEF NoResults
<1> QED BY <1>1 DEF PassedOn

LEMMA InitIInv == Init => HistoryIInv
<1> SUFFICES ASSUME Init PROVE HistoryIInv
  OBVIOUS
<1> USE DEF Init
<1>1. <<>> \in Seq(SoundSnapshots)
  OBVIOUS
<1>2. results \in PassedOn(sim)
  BY NoResultsPassed
<1>3. args \in [label : Labels \union {NoLabel}, names : SUBSET Workloads]
  BY DEF NoArgs
<1>4. tree \in Cores /\ sim \in Cores /\ invocations \in 0 .. MAX_INVOCATIONS
  BY BoundsAssumption DEF Cores
<1>5. saved \in Seq(SoundSnapshots) /\ history \in Seq(SoundSnapshots)
  BY <1>1
<1>6. TypeOK
  BY <1>2, <1>3, <1>4, <1>5 DEF TypeOK
<1>7. LabelsUnique
  BY <1>6 DEF LabelsUnique, Unique
<1> QED BY <1>6, <1>7 DEF HistoryIInv, ListFollows, TornOnlyInWrite, TableFollows, HasLabel, NothingRun

\* What an ended process leaves is well-typed.
LEMMA ExitTypes ==
  ASSUME NEW how, Exit(how)
  PROVE  /\ history' \in Seq(SoundSnapshots) /\ sim' \in Cores
         /\ args' \in [label : Labels \union {NoLabel}, names : SUBSET Workloads]
         /\ results' \in PassedOn(sim')
<1>1. results' \in PassedOn(sim')
  BY NoResultsPassed DEF Exit
<1>2. sim' \in Cores
  BY BoundsAssumption DEF Exit, Cores
<1> QED BY <1>1, <1>2 DEF Exit, NoArgs

LEMMA CommitKeeps == HistoryIInv /\ Commit => HistoryIInv'
<1> SUFFICES ASSUME HistoryIInv, Commit PROVE HistoryIInv'
  OBVIOUS
<1>1. TypeOK'
  BY BoundsAssumption DEF HistoryIInv, TypeOK, Commit, Cores, files, locals
<1> QED BY <1>1 DEF HistoryIInv, Commit, files, locals, LabelsUnique, ListFollows,
                    TornOnlyInWrite, TableFollows, HasLabel, NothingRun

LEMMA InvocationKeeps ==
  ASSUME HistoryIInv,
         \/ LoadFails \/ InvokeRender \/ RejectNoLabel
         \/ \E l \in Labels, names \in SUBSET Workloads \ {{}} : Invoke(l, names)
  PROVE  HistoryIInv'
<1> USE DEF HistoryIInv
<1>1. CASE LoadFails \/ RejectNoLabel
  <2>1. PICK how \in {"failed", "usage"} : Exit(how) /\ Invoked
    BY <1>1 DEF LoadFails, RejectNoLabel
  <2>2. TypeOK'
    BY <2>1, ExitTypes, BoundsAssumption DEF TypeOK, Invoked, Exit, files
  <2> QED BY <2>1, <2>2 DEF Invoked, Exit, files, LabelsUnique, ListFollows, TornOnlyInWrite,
                            TableFollows, HasLabel, NothingRun
<1>2. CASE InvokeRender
  <2>1. TypeOK'
    BY <1>2, BoundsAssumption DEF TypeOK, InvokeRender, Invoked, LoadHistory, Unreadable, Enter, files
  <2> QED BY <1>2, <2>1 DEF InvokeRender, Invoked, LoadHistory, Unreadable, Enter, files, LabelsUnique,
                            ListFollows, TornOnlyInWrite, TableFollows, HasLabel, NothingRun
<1>3. ASSUME NEW l \in Labels, NEW names \in SUBSET Workloads, Invoke(l, names)
      PROVE  HistoryIInv'
  <2>1. TypeOK'
    BY <1>3, BoundsAssumption DEF TypeOK, Invoke, Invoked, LoadHistory, Unreadable, Enter, files
  <2> QED BY <1>3, <2>1 DEF Invoke, Invoked, LoadHistory, Unreadable, Enter, files, LabelsUnique, ListFollows,
                            TornOnlyInWrite, TableFollows, HasLabel, NothingRun
<1> QED BY <1>1, <1>2, <1>3

\* The steps from the images to the results.
LEMMA RunsKeep ==
  ASSUME HistoryIInv,
         BuildImages \/ CompileSim \/ ToolFails \/ \E name \in Workloads : RunWorkload(name)
  PROVE  HistoryIInv'
<1> USE DEF HistoryIInv
<1>1. CASE BuildImages
  <2>1. TypeOK'
    BY <1>1 DEF TypeOK, BuildImages, Enter, files, locals
  <2> QED BY <1>1, <2>1 DEF BuildImages, Enter, files, locals, LabelsUnique, ListFollows,
                            TornOnlyInWrite, TableFollows, HasLabel, NothingRun
<1>2. CASE CompileSim
  <2>1. results' \in PassedOn(sim')
    BY <1>2, NoResultsPassed DEF CompileSim, NothingRun
  <2>2. TypeOK'
    BY <1>2, <2>1 DEF TypeOK, CompileSim, Enter, files
  <2> QED BY <1>2, <2>2 DEF CompileSim, Enter, files, LabelsUnique, ListFollows,
                            TornOnlyInWrite, TableFollows, HasLabel, NothingRun
<1>3. ASSUME UNCHANGED <<files, tree, invocations>>, Exit("failed") PROVE HistoryIInv'
  <2>1. TypeOK'
    BY <1>3, ExitTypes DEF TypeOK, Exit, files
  <2> QED BY <1>3, <2>1 DEF Exit, files, LabelsUnique, ListFollows, TornOnlyInWrite,
                            TableFollows, HasLabel, NothingRun
<1>4. CASE ToolFails
  BY <1>3, <1>4 DEF ToolFails
<1>5. ASSUME NEW name \in Workloads, RunWorkload(name) PROVE HistoryIInv'
  <2>1. PICK report \in {Passing(sim), Failing(sim)} :
          LET metrics == ParseReport(report)
          IN  IF "completion_cycles" \notin DOMAIN metrics
              THEN Exit("failed")
              ELSE /\ Enter("run")
                   /\ results' = [w \in DOMAIN results \union {name} |->
                                    IF w = name THEN metrics ELSE results[w]]
                   /\ UNCHANGED <<args, history, sim>>
    BY <1>5 DEF RunWorkload
  <2>2. CASE "completion_cycles" \notin DOMAIN ParseReport(report)
    BY <1>3, <1>5, <2>1, <2>2 DEF RunWorkload
  <2>3. CASE "completion_cycles" \in DOMAIN ParseReport(report)
    <3>1. ParseReport(report) = Passing(sim)
      BY <2>3, ParsePassing
    <3>2. /\ phase = "run" /\ Enter("run")
          /\ results' = [w \in DOMAIN results \union {name} |->
                           IF w = name THEN Passing(sim) ELSE results[w]]
          /\ UNCHANGED <<files, tree, invocations, args, history, sim>>
      BY <1>5, <2>1, <2>3, <3>1 DEF RunWorkload
    <3>3. results' \in PassedOn(sim)
      <4>1. PICK ws \in SUBSET Workloads : results \in [ws -> {Passing(sim)}]
        BY DEF TypeOK, PassedOn
      <4>2. results' \in [ws \union {name} -> {Passing(sim)}]
        BY <3>2, <4>1
      <4> QED BY <4>2 DEF PassedOn
    <3>4. TypeOK'
      BY <3>2, <3>3 DEF TypeOK, Enter, files
    <3> QED BY <3>2, <3>4 DEF Enter, files, LabelsUnique, ListFollows, TornOnlyInWrite,
                              TableFollows, HasLabel, NothingRun
  <2> QED BY <2>2, <2>3
<1> QED BY <1>1, <1>2, <1>4, <1>5

\* The snapshot and the two files.
LEMMA WritesKeep ==
  ASSUME HistoryIInv,
         TakeSnapshot \/ TruncateHistory \/ WriteHistory \/ TruncateTable \/ WriteTable
  PROVE  HistoryIInv'
<1> USE DEF HistoryIInv
<1>1. CASE TakeSnapshot
  <2>1. Snapshot(args.label, tree, results) \in SoundSnapshots
    BY <1>1, ResultsSound DEF TakeSnapshot, HasLabel
  <2>2. history' = Recorded(saved, Snapshot(args.label, tree, results))
    BY <1>1 DEF TakeSnapshot, ListFollows
  <2>3. history' \in Seq(SoundSnapshots)
    BY <2>1, <2>2, RecordedUnique DEF TypeOK, LabelsUnique
  <2>4. TypeOK'
    BY <1>1, <2>3 DEF TypeOK, TakeSnapshot, Enter, files
  <2>5. ListFollows'
    BY <1>1, <2>1, <2>2 DEF TakeSnapshot, Enter, files, ListFollows
  <2> QED BY <1>1, <2>4, <2>5 DEF TakeSnapshot, Enter, files, LabelsUnique, TornOnlyInWrite,
                                  TableFollows, HasLabel, NothingRun
<1>2. CASE TruncateHistory
  <2>1. Unique(history)
    BY <1>2, RecordedUnique DEF TruncateHistory, ListFollows, TypeOK, LabelsUnique
  <2>2. saved' \in Seq(SoundSnapshots) /\ Unique(saved')
    BY <1>2 DEF TruncateHistory, Unique
  <2>3. TypeOK'
    BY <1>2, <2>2 DEF TypeOK, TruncateHistory, Enter, locals
  <2>4. LabelsUnique'
    BY <2>2, <2>3 DEF LabelsUnique, Unique
  <2>5. ListFollows'
    BY <1>2, <2>1 DEF TruncateHistory, Enter, locals, ListFollows, Unique
  <2> QED BY <1>2, <2>3, <2>4, <2>5 DEF TruncateHistory, Enter, locals, TornOnlyInWrite,
                                        TableFollows, HasLabel, NothingRun
<1>3. CASE WriteHistory
  <2>1. Unique(history)
    BY <1>3 DEF WriteHistory, ListFollows
  <2>2. TypeOK'
    BY <1>3 DEF TypeOK, WriteHistory, Enter, locals
  <2> QED BY <1>3, <2>1, <2>2 DEF WriteHistory, Enter, locals, LabelsUnique, ListFollows,
                                  TornOnlyInWrite, TableFollows, HasLabel, NothingRun
<1>4. CASE TruncateTable
  <2>1. TypeOK'
    BY <1>4 DEF TypeOK, TruncateTable, Enter, locals
  <2> QED BY <1>4, <2>1 DEF TruncateTable, Enter, locals, LabelsUnique, ListFollows,
                            TornOnlyInWrite, TableFollows, HasLabel, NothingRun
<1>5. CASE WriteTable
  <2>1. TypeOK'
    BY <1>5, ExitTypes DEF TypeOK, WriteTable, Exit
  <2> QED BY <1>5, <2>1 DEF WriteTable, Exit, LabelsUnique, ListFollows, TornOnlyInWrite,
                            TableFollows, HasLabel, NothingRun
<1> QED BY <1>1, <1>2, <1>3, <1>4, <1>5

LEMMA KillKeeps == HistoryIInv /\ Kill => HistoryIInv'
<1> SUFFICES ASSUME HistoryIInv, Kill PROVE HistoryIInv'
  OBVIOUS
<1>1. TypeOK'
  BY ExitTypes DEF HistoryIInv, TypeOK, Kill, Exit, files
<1> QED BY <1>1 DEF HistoryIInv, Kill, Exit, files, LabelsUnique, ListFollows, TornOnlyInWrite,
                    TableFollows, HasLabel, NothingRun

LEMMA NextIInv == HistoryIInv /\ [Next]_vars => HistoryIInv'
<1> SUFFICES ASSUME HistoryIInv, [Next]_vars PROVE HistoryIInv'
  OBVIOUS
<1>1. CASE UNCHANGED vars
  <2>1. TypeOK'
    BY <1>1 DEF HistoryIInv, TypeOK, vars, files, locals
  <2> QED BY <1>1, <2>1 DEF HistoryIInv, vars, files, locals, LabelsUnique, ListFollows,
                            TornOnlyInWrite, TableFollows, HasLabel, NothingRun
<1> QED BY <1>1, CommitKeeps, InvocationKeeps, RunsKeep, WritesKeep, KillKeeps DEF Next

-----------------------------------------------------------------------------
\* The inductive invariant holds of every reachable state.
THEOREM Invariant == Spec => []HistoryIInv
BY InitIInv, NextIInv, PTL DEF Spec

\* The history file never has two snapshots of one label: recording a label
\* again replaces its snapshot, and a killed process records it or does not.
THEOREM LabelsStayUnique == Spec => []LabelsUnique
<1>1. HistoryIInv => LabelsUnique
  BY DEF HistoryIInv
<1> QED BY <1>1, Invariant, PTL

\* The table an invocation leaves when it returns 0 is the one of the history
\* in the file, column by column.
THEOREM TableStaysTrue == Spec => []TableAgrees
<1>1. HistoryIInv => TableAgrees
  <2> SUFFICES ASSUME HistoryIInv, phase = "idle", status = "ok" PROVE TableAgrees
    BY DEF TableAgrees
  <2>1. ~savedTorn /\ ~tableTorn /\ table = Rendered(saved)
    BY DEF HistoryIInv, TableFollows
  <2>2. Len(table.labels) = Len(saved) /\ \A i \in DOMAIN saved : table.labels[i] = saved[i].label
    BY <2>1 DEF Rendered, Labeled, HistoryIInv, TypeOK
  <2>3. ASSUME NEW i \in DOMAIN saved, NEW w \in Workloads, NEW m \in Metrics
        PROVE  /\ Len(table.rows[w][m]) = Len(saved)
               /\ table.rows[w][m][i] = Cell(StoreOf(saved)[table.labels[i]], w, m)
    <3>1. table.rows[w][m] = [j \in DOMAIN saved |-> Cell(saved[j], w, m)]
      BY <2>1 DEF Rendered
    <3>2. StoreOf(saved)[table.labels[i]] = saved[i]
      BY <2>2, StoreAt DEF HistoryIInv, TypeOK, LabelsUnique
    <3> QED BY <3>1, <3>2 DEF HistoryIInv, TypeOK
  <2> QED BY <2>1, <2>2, <2>3 DEF TableAgrees
<1> QED BY <1>1, Invariant, PTL

\* A store is not a lost one.
LEMMA StoreThere ==
  ASSUME NEW list \in Seq(SoundSnapshots)
  PROVE  StoreOf(list) # NoStore
<1>1. ASSUME NEW l \in Labels PROVE StoreOf(list)[l] \in SoundSnapshots \union {NoSnapshot}
  <2>1. CASE \E i \in DOMAIN list : list[i].label = l
    <3> DEFINE i == CHOOSE k \in DOMAIN list : list[k].label = l
    <3>1. i \in DOMAIN list
      BY <2>1
    <3>2. list[i] \in SoundSnapshots
      BY <3>1
    <3> QED BY <2>1, <3>2 DEF StoreOf
  <2>2. CASE ~\E i \in DOMAIN list : list[i].label = l
    BY <2>2 DEF StoreOf
  <2> QED BY <2>1, <2>2
<1>2. StoreOf(list) \in [Labels -> SoundSnapshots \union {NoSnapshot}]
  BY <1>1 DEF StoreOf
<1> QED BY <1>2, StoreAssumption

\* What truncating the file does to what is stored: the snapshot is recorded.
LEMMA TruncateRecords ==
  ASSUME HistoryIInv, TruncateHistory
  PROVE  Stored # NoStore /\ Abstract!Next /\ Stored' # NoStore
<1>1. PICK snap \in SoundSnapshots : history = Recorded(saved, snap)
  BY DEF TruncateHistory, HistoryIInv, ListFollows
<1>2. Stored = StoreOf(saved)
  BY DEF TruncateHistory, HistoryIInv, TornOnlyInWrite, Stored
<1>3. Stored' = StoreOf(history)
  BY DEF TruncateHistory, Enter, locals, Stored, StoreOf
<1>4. StoreOf(history) = [StoreOf(saved) EXCEPT ![snap.label] = snap]
  BY <1>1, RecordedStore DEF HistoryIInv, TypeOK, LabelsUnique
<1>5. snap.label \in Labels
  BY SoundHasLabel
<1>6. Stored # NoStore /\ Stored' # NoStore
  BY <1>2, <1>3, StoreThere DEF HistoryIInv, TypeOK
<1>7. Abstract!Record(snap.label)
  BY <1>2, <1>3, <1>4 DEF Abstract!Record
<1> QED BY <1>5, <1>6, <1>7 DEF Abstract!Next

\* A process killed while it writes loses the store, and one killed elsewhere
\* leaves what is stored alone.
LEMMA KillLoses ==
  ASSUME HistoryIInv, Kill
  PROVE  \/ phase # "writing" /\ Stored' = Stored
         \/ /\ phase = "writing" /\ status' = "killed"
            /\ Stored # NoStore /\ Stored' = NoStore
<1>1. CASE phase = "writing"
  <2>1. Stored = StoreOf(history) /\ Stored # NoStore
    BY <1>1, StoreThere DEF HistoryIInv, TypeOK, Stored
  <2>2. Stored' = NoStore /\ status' = "killed"
    BY <1>1 DEF HistoryIInv, TornOnlyInWrite, Kill, Exit, files, Stored
  <2> QED BY <1>1, <2>1, <2>2
<1>2. CASE phase # "writing"
  BY <1>2 DEF Kill, Exit, files, Stored, StoreOf
<1> QED BY <1>1, <1>2

\* No other step touches what is stored; the one that ends the writing puts
\* into the file what the process held.
LEMMA OthersKeepStored ==
  ASSUME HistoryIInv, [Next]_vars, ~TruncateHistory, ~Kill
  PROVE  Stored' = Stored
<1>1. CASE WriteHistory
  BY <1>1 DEF WriteHistory, Enter, locals, Stored, StoreOf
<1>2. CASE ~WriteHistory
  <2>1. \/ UNCHANGED <<saved, savedTorn, phase, history>>
        \/ UNCHANGED <<saved, savedTorn>> /\ phase # "writing" /\ phase' # "writing"
    BY <1>2 DEF Next, vars, files, locals, Commit, LoadFails, InvokeRender, RejectNoLabel, Invoke,
                Invoked, BuildImages, CompileSim, ToolFails, RunWorkload, TakeSnapshot,
                TruncateTable, WriteTable, Exit, Enter
  <2> QED BY <2>1 DEF Stored, StoreOf
<1> QED BY <1>1, <1>2

\* The history file implements the store that a process killed while it writes
\* loses, and nothing else does: what is stored changes by one sound snapshot of
\* one label, or is lost for good.
THEOREM HistoryImplementsFragileStore == Spec => ImplementsFragileStore
<1> DEFINE OnlyKillLoses ==
             Stored # NoStore /\ Stored' = NoStore => phase = "writing" /\ status' = "killed"
<1>1. Init => Abstract!Init
  BY DEF Init, Abstract!Init, Stored, StoreOf
<1>2. HistoryIInv /\ [Next]_vars => [Abstract!FragileNext]_Stored /\ [OnlyKillLoses]_vars
  <2> SUFFICES ASSUME HistoryIInv, [Next]_vars
               PROVE  [Abstract!FragileNext]_Stored /\ OnlyKillLoses
    OBVIOUS
  <2>1. CASE TruncateHistory
    BY <2>1, TruncateRecords DEF Abstract!FragileNext
  <2>2. CASE Kill
    BY <2>2, KillLoses DEF Abstract!FragileNext, Abstract!Lose
  <2>3. CASE ~TruncateHistory /\ ~Kill
    BY <2>3, OthersKeepStored
  <2> QED BY <2>1, <2>2, <2>3
<1> QED BY <1>1, <1>2, Invariant, PTL DEF Spec, ImplementsFragileStore, Abstract!FragileSpec

-----------------------------------------------------------------------------
(* Induction over a set of numbers, and flattening.                        *)

\* Induction over the numbers up to n.
LEMMA FromOneOn ==
  ASSUME NEW T, NEW n \in Nat, 1 \in T, \A i \in 1 .. n - 1 : i \in T => i + 1 \in T
  PROVE  \A i \in 1 .. n : i \in T
<1> DEFINE Bad == {i \in Nat : i \in 1 .. n /\ i \notin T}
<1>1. SUFFICES ASSUME Bad # {} PROVE FALSE
  OBVIOUS
<1>2. \E x \in Bad : \A y \in Bad : ~ (<<y, x>> \in OpToRel(<, Nat))
  BY <1>1, NatLessThanWellFounded, WFMin
<1>3. PICK x \in Bad : \A y \in Bad : ~ (<<y, x>> \in OpToRel(<, Nat))
  BY <1>2
<1>4. \A y \in Bad : ~ (y < x)
  BY <1>3 DEF OpToRel
<1>5. x \in 1 .. n /\ x \notin T /\ x # 1 /\ x - 1 \in 1 .. n - 1
  OBVIOUS
<1>6. x - 1 \notin T
  BY <1>5
<1>7. x - 1 \in Bad /\ x - 1 < x
  BY <1>5, <1>6
<1> QED BY <1>4, <1>7

\* Flattening is concatenation from the left.
LEMMA Flattening ==
  ASSUME NEW s, Len(s) \in Nat \ {0}
  PROVE  \E f : /\ f[1] = s[1] /\ \A i \in 1 .. Len(s) - 1 : f[i + 1] = f[i] \o s[i + 1]
                /\ FlattenSeq(s) = f[Len(s)]
<1> DEFINE n == Len(s)
           Upto(m, f) == f = [i \in 1 .. m |-> IF i = 1 THEN s[i] ELSE f[i - 1] \o s[i]]
           T == {m \in Nat : \E f : Upto(m, f)}
<1>1. 1 \in T
  <2>1. Upto(1, [i \in 1 .. 1 |-> s[1]])
    OBVIOUS
  <2> QED BY <2>1
<1>2. ASSUME NEW m \in 1 .. n - 1, m \in T PROVE m + 1 \in T
  <2>1. PICK f : Upto(m, f)
    BY <1>2
  <2>2. \A i \in 1 .. m : f[i] = IF i = 1 THEN s[i] ELSE f[i - 1] \o s[i]
    BY <2>1
  <2>3. PICK v : v = f[m] \o s[m + 1]
    OBVIOUS
  <2>4. PICK g : g = [i \in 1 .. m + 1 |-> IF i = m + 1 THEN v ELSE f[i]]
    OBVIOUS
  <2>5. m \in Nat /\ m >= 1 /\ m + 1 \in 1 .. m + 1 /\ m + 1 - 1 = m /\ m + 1 \in Nat
    OBVIOUS
  <2>6. /\ g[m + 1] = v /\ \A i \in 1 .. m : g[i] = f[i]
        /\ g = [i \in 1 .. m + 1 |-> g[i]]
    BY <2>4, <2>5
  <2>7. \A i \in 1 .. m + 1 : g[i] = IF i = 1 THEN s[i] ELSE g[i - 1] \o s[i]
    <3> SUFFICES ASSUME NEW i \in 1 .. m + 1
                 PROVE  g[i] = IF i = 1 THEN s[i] ELSE g[i - 1] \o s[i]
      OBVIOUS
    <3>1. CASE i = m + 1
      <4>1. i - 1 = m /\ i # 1 /\ m \in 1 .. m
        BY <2>5, <3>1
      <4>2. g[i - 1] = f[m]
        BY <2>6, <4>1, Zenon
      <4>3. g[i] = v
        BY <2>6, <3>1, Zenon
      <4>4. s[i] = s[m + 1]
        BY <3>1, Zenon
      <4>5. g[i] = g[i - 1] \o s[i]
        BY <2>3, <4>2, <4>3, <4>4, Zenon
      <4> QED BY <4>1, <4>5, Zenon
    <3>2. CASE i # m + 1 /\ i # 1
      <4>1. i \in 1 .. m /\ i - 1 \in 1 .. m
        BY <3>2
      <4> QED BY <2>2, <2>6, <3>2, <4>1
    <3>3. CASE i = 1
      <4>1. 1 \in 1 .. m
        BY <2>5
      <4>2. f[1] = s[1] /\ g[1] = f[1]
        BY <2>2, <2>6, <4>1
      <4> QED BY <3>3, <4>2
    <3> QED BY <3>1, <3>2, <3>3
  <2>8. Upto(m + 1, g)
    BY <2>6, <2>7
  <2>9. \E h : Upto(m + 1, h)
    BY <2>8
  <2> HIDE DEF Upto
  <2> QED BY <2>5, <2>9
<1> HIDE DEF T
<1>3. n \in T
  <2>1. \A i \in 1 .. n : i \in T
    BY <1>1, <1>2, FromOneOn
  <2> QED BY <2>1
<1>4. PICK f : Upto(n, f)
  BY <1>3 DEF T
<1>5. PICK F : F = CHOOSE h : Upto(n, h)
  OBVIOUS
<1>6. Upto(n, F)
  BY <1>4, <1>5
<1>7. FlattenSeq(s) = F[n] /\ \A i \in 1 .. n : F[i] = IF i = 1 THEN s[i] ELSE F[i - 1] \o s[i]
  <2>1. FlattenSeq(s) = F[n]
    BY <1>5 DEF FlattenSeq
  <2> QED BY <1>6, <2>1
<1>8. F[1] = s[1]
  <2>1. 1 \in 1 .. n
    OBVIOUS
  <2> QED BY <1>7, <2>1
<1>9. ASSUME NEW i \in 1 .. n - 1 PROVE F[i + 1] = F[i] \o s[i + 1]
  <2>1. i + 1 \in 1 .. n /\ i + 1 # 1 /\ i + 1 - 1 = i
    OBVIOUS
  <2>2. PICK j \in 1 .. n : j = i + 1
    BY <2>1
  <2>3. F[j] = IF j = 1 THEN s[j] ELSE F[j - 1] \o s[j]
    BY <1>7
  <2>4. j # 1 /\ j - 1 = i
    BY <2>1, <2>2
  <2>5. F[j] = F[j - 1] \o s[j]
    BY <2>3, <2>4
  <2> QED BY <2>2, <2>4, <2>5
<1> QED BY <1>7, <1>8, <1>9

\* The elements of a concatenation.
LEMMA Joined ==
  ASSUME NEW S, NEW a \in Seq(S), NEW b \in Seq(S)
  PROVE  /\ a \o b \in Seq(S) /\ Len(a \o b) = Len(a) + Len(b)
         /\ \A k \in 1 .. Len(a) : (a \o b)[k] = a[k]
         /\ \A k \in 1 .. Len(b) : (a \o b)[Len(a) + k] = b[k]
BY ConcatProperties

\* What is closed under concatenation holds pieces of any number.
LEMMA FlattenClosed ==
  ASSUME NEW T, <<>> \in T, \A a, b \in T : a \o b \in T,
         NEW n \in Nat, NEW S, S \subseteq T, NEW s \in [1 .. n -> S]
  PROVE  FlattenSeq(s) \in T
<1>1. s \in Seq(S) /\ Len(s) = n
  OBVIOUS
<1>2. CASE n = 0
  <2>1. FlattenSeq(s) = s /\ s = <<>>
    BY <1>1, <1>2 DEF FlattenSeq
  <2> QED BY <2>1
<1>3. CASE n # 0
  <2>1. PICK f : /\ f[1] = s[1] /\ \A i \in 1 .. n - 1 : f[i + 1] = f[i] \o s[i + 1]
                 /\ FlattenSeq(s) = f[n]
    BY <1>1, <1>3, Flattening
  <2> DEFINE U == {i \in 1 .. n : f[i] \in T}
  <2>2. 1 \in U
    <3>1. 1 \in 1 .. n /\ f[1] = s[1] /\ s[1] \in S
      BY <1>3, <2>1
    <3> QED BY <3>1
  <2>3. ASSUME NEW i \in 1 .. n - 1, i \in U PROVE i + 1 \in U
    <3>1. i + 1 \in 1 .. n
      OBVIOUS
    <3>2. f[i + 1] = f[i] \o s[i + 1] /\ s[i + 1] \in T /\ f[i] \in T
      BY <2>1, <2>3, <3>1
    <3> QED BY <3>1, <3>2
  <2> HIDE DEF U
  <2>4. \A i \in 1 .. n : i \in U
    BY <2>2, <2>3, FromOneOn
  <2>5. n \in U
    BY <1>3, <2>4
  <2> QED BY <2>1, <2>5 DEF U
<1> QED BY <1>2, <1>3

-----------------------------------------------------------------------------
(* Blocks: code that reaches memory through the bases only and jumps to    *)
(* the start of an instruction of its own, or to its end.                  *)

Op == {"write", "other", "set", "ladata", "lacode", "addi", "addgp", "andi", "branch", "bnez",
       "jal", "jalr", "trap", "tail", "load", "store", "amo", "lr", "sc"}
Halfword == [op : Op, rd : Int, rs : Int, n : Int, at : SUBSET (Int \X Int), faults : BOOLEAN]

Plain == {"write", "other", "load", "store"}
Jumps == {"branch", "bnez", "jal"}
Blockwise == Plain \union Jumps \union {"set", "addi", "trap"}

BaseAt(r) == IF r = gp THEN 2048 ELSE IF r = s1 THEN 0 ELSE 1024

\* An aligned access of a size at m in the data area.
Allowed(m, size) == m % size = 0 /\ m >= 0 /\ m + size <= 4 * DATA_WORDS

\* The accesses of an instruction whose pointer is at p in the data area.
Reaches(i, p) ==
  \A a \in i.at : IF i.faults THEN (p + a[1]) % a[2] # 0 ELSE Allowed(p + a[1], a[2])

\* An instruction of O that writes a register of W.
Sound(i, W, O) ==
  /\ i.op \in O /\ i.rd \in W \union {0}
  /\ i.op \in MemoryOps => i.rs \in BASE_REGS /\ Reaches(i, BaseAt(i.rs))

Start(g, k) == k \in 1 .. Len(g) + 1 /\ (k <= Len(g) => g[k] # SecondHalf)

Block(g, W, O) ==
  /\ g \in Seq(Halfword)
  /\ \A k \in 1 .. Len(g) : g[k] = SecondHalf => k > 1 /\ Start(g, k + 1)
  /\ \A k \in 1 .. Len(g) : g[k] # SecondHalf =>
       /\ Sound(g[k], W, O)
       /\ g[k].op \in Jumps => Start(g, k + g[k].n)
       /\ g[k].op = "trap" => (g[k].n = 3 <=> ~Start(g, k + 1))

\* A block begins and ends with the start of an instruction.
LEMMA BlockStart ==
  ASSUME NEW g, NEW W, NEW O, Block(g, W, O)
  PROVE  /\ Start(g, 1) /\ Start(g, Len(g) + 1)
         /\ Len(g) \in Nat /\ DOMAIN g = 1 .. Len(g)
BY DEF Block, Start

\* Fewer demands.
LEMMA BlockWider ==
  ASSUME NEW g, NEW W, NEW O, Block(g, W, O), NEW V, W \subseteq V, NEW Q, O \subseteq Q
  PROVE  Block(g, V, Q)
BY DEF Block, Sound

\* What comes next is an instruction, or the end.
LEMMA AfterStarts ==
  ASSUME NEW g, NEW W, NEW O, Block(g, W, O), group = g, NEW k \in 1 .. Len(g), g[k] # SecondHalf
  PROVE  Start(g, After(k)) /\ After(k) \in {k + 1, k + 2} /\ (After(k) = k + 2 <=> ~Start(g, k + 1))
BY DEF Block, Start, After

\* No code at all is a block.
LEMMA BlockEmpty == \A W, O : Block(<<>>, W, O)
BY DEF Block, Start

\* One block behind the other.
LEMMA BlockConcat ==
  ASSUME NEW a, NEW b, NEW W, NEW O, Block(a, W, O), Block(b, W, O)
  PROVE  Block(a \o b, W, O)
<1> DEFINE g == a \o b
<1>1. a \in Seq(Halfword) /\ b \in Seq(Halfword) /\ Len(a) \in Nat /\ Len(b) \in Nat
  BY DEF Block
<1>2. /\ g \in Seq(Halfword) /\ Len(g) = Len(a) + Len(b)
      /\ \A k \in 1 .. Len(a) : g[k] = a[k]
      /\ \A k \in 1 .. Len(b) : g[Len(a) + k] = b[k]
  BY <1>1, ConcatProperties
<1> HIDE DEF g
<1>3. \A k \in 1 .. Len(a) + 1 : Start(g, k) <=> Start(a, k)
  <2>1. \A k \in 1 .. Len(a) : Start(g, k) <=> Start(a, k)
    BY <1>1, <1>2 DEF Start
  <2>2. Start(a, Len(a) + 1)
    BY <1>1 DEF Start
  <2>3. Start(b, 1)
    BY BlockStart
  <2>4. Len(b) > 0 => g[Len(a) + 1] = b[1]
    BY <1>1, <1>2
  <2>5. Start(g, Len(a) + 1)
    BY <1>1, <1>2, <2>3, <2>4 DEF Start
  <2> QED BY <1>1, <2>1, <2>2, <2>5
<1>4. \A k \in 1 .. Len(b) + 1 : Start(g, Len(a) + k) <=> Start(b, k)
  BY <1>1, <1>2 DEF Start
<1>5. ASSUME NEW k \in 1 .. Len(g)
      PROVE  /\ g[k] = SecondHalf => k > 1 /\ Start(g, k + 1)
             /\ g[k] # SecondHalf =>
                  /\ Sound(g[k], W, O)
                  /\ g[k].op \in Jumps => Start(g, k + g[k].n)
                  /\ g[k].op = "trap" => (g[k].n = 3 <=> ~Start(g, k + 1))
  <2>1. CASE k <= Len(a)
    <3>1. g[k] = a[k] /\ k \in 1 .. Len(a) /\ k + 1 \in 1 .. Len(a) + 1
      BY <1>1, <1>2, <2>1
    <3>2. g[k].op \in Jumps => (Start(a, k + g[k].n) => Start(g, k + g[k].n))
      BY <1>3, <3>1 DEF Start
    <3> QED BY <1>3, <3>1, <3>2 DEF Block
  <2>2. CASE k > Len(a)
    <3>1. PICK m \in 1 .. Len(b) : k = Len(a) + m
      <4>1. k - Len(a) \in 1 .. Len(b) /\ k = Len(a) + (k - Len(a))
        BY <1>1, <1>2, <2>2
      <4> QED BY <4>1
    <3>2. g[k] = b[m] /\ m + 1 \in 1 .. Len(b) + 1 /\ k + 1 = Len(a) + (m + 1)
      BY <1>1, <1>2, <3>1
    <3>3. ASSUME NEW d, Start(b, m + d), d \in Int PROVE Start(g, k + d)
      <4>1. m + d \in 1 .. Len(b) + 1 /\ k + d = Len(a) + (m + d)
        BY <1>1, <3>1, <3>3 DEF Start
      <4> QED BY <1>4, <3>3, <4>1
    <3>4. b[m].n \in Int
      <4>1. b[m] \in Halfword
        BY <1>1
      <4> QED BY <4>1 DEF Halfword
    <3>5. /\ b[m] = SecondHalf => Start(b, m + 1)
          /\ b[m] # SecondHalf =>
                  /\ Sound(b[m], W, O)
                  /\ b[m].op \in Jumps => Start(b, m + b[m].n)
                  /\ b[m].op = "trap" => (b[m].n = 3 <=> ~Start(b, m + 1))
      BY DEF Block
    <3>6. Start(g, k + 1) <=> Start(b, m + 1)
      BY <1>4, <3>2
    <3>7. k > 1 \/ g[k] # SecondHalf
      BY <1>1, <3>1, <3>2 DEF Block
    <3> QED BY <3>2, <3>3, <3>4, <3>5, <3>6, <3>7
  <2> QED BY <1>1, <1>2, <2>1, <2>2
<1> QED BY <1>2, <1>5 DEF Block, g

\* The fields of an instruction, and what encodes it.
LEMMA HalfwordType ==
  ASSUME NEW i \in Halfword
  PROVE  /\ i.op \in Op /\ i.rd \in Int /\ i.rs \in Int /\ i.n \in Int
         /\ SecondHalf \in Halfword /\ SecondHalf.op = "tail"
         /\ Wide(i) \in Seq(Halfword) /\ Len(Wide(i)) = 2 /\ Wide(i)[1] = i /\ Wide(i)[2] = SecondHalf
         /\ Short(i) \in Seq(Halfword) /\ Len(Short(i)) = 1 /\ Short(i)[1] = i
<1>1. SecondHalf \in Halfword /\ SecondHalf.op = "tail"
  BY DEF SecondHalf, Instr, Halfword, Op
<1>2. i.op \in Op /\ i.rd \in Int /\ i.rs \in Int /\ i.n \in Int
  BY DEF Halfword
<1> QED BY <1>1, <1>2 DEF Wide, Short

\* An instruction in front of a block, which it may jump into or over.
LEMMA BlockHead ==
  ASSUME NEW W, NEW O, NEW b, Block(b, W, O), NEW h \in Halfword, h.op # "tail", Sound(h, W, O),
         NEW c, c \in {Wide(h), Short(h)},
         h.op \in Jumps => Start(b, 1 + h.n - Len(c)),
         h.op = "trap" => (h.n = 3 <=> Len(c) = 2)
  PROVE  Block(c \o b, W, O)
<1> DEFINE g == c \o b
<1>1. /\ h.n \in Int /\ h # SecondHalf /\ c \in Seq(Halfword) /\ Len(c) \in {1, 2} /\ c[1] = h
      /\ Len(c) = 2 => c[2] = SecondHalf
  BY HalfwordType
<1>2. b \in Seq(Halfword) /\ Len(b) \in Nat /\ Start(b, 1)
  BY BlockStart DEF Block
<1>3. /\ g \in Seq(Halfword) /\ Len(g) = Len(c) + Len(b)
      /\ \A k \in 1 .. Len(c) : g[k] = c[k]
      /\ \A k \in 1 .. Len(b) : g[Len(c) + k] = b[k]
  BY <1>1, <1>2, ConcatProperties
<1> HIDE DEF g
<1>4. \A k \in 1 .. Len(b) + 1 : Start(g, Len(c) + k) <=> Start(b, k)
  BY <1>1, <1>2, <1>3 DEF Start
<1>5. Start(g, Len(c) + 1)
  BY <1>2, <1>4
<1>6. g[1] = h /\ (Len(c) = 2 => g[2] = SecondHalf)
  BY <1>1, <1>3
<1>7. Start(g, 2) <=> Len(c) = 1
  BY <1>1, <1>2, <1>3, <1>5, <1>6 DEF Start
<1>8. h.op \in Jumps => Start(g, 1 + h.n)
  <2>1. ASSUME h.op \in Jumps PROVE Start(g, 1 + h.n)
    <3>1. 1 + h.n - Len(c) \in 1 .. Len(b) + 1 /\ Start(b, 1 + h.n - Len(c))
      BY <2>1 DEF Start
    <3>2. Start(g, Len(c) + (1 + h.n - Len(c)))
      BY <1>4, <3>1
    <3> QED BY <1>1, <3>2
  <2> QED BY <2>1
<1>9. ASSUME NEW k \in 1 .. Len(g)
      PROVE  /\ g[k] = SecondHalf => k > 1 /\ Start(g, k + 1)
             /\ g[k] # SecondHalf =>
                  /\ Sound(g[k], W, O)
                  /\ g[k].op \in Jumps => Start(g, k + g[k].n)
                  /\ g[k].op = "trap" => (g[k].n = 3 <=> ~Start(g, k + 1))
  <2>1. CASE k = 1
    BY <1>1, <1>6, <1>7, <1>8, <2>1
  <2>2. CASE k = 2 /\ Len(c) = 2
    BY <1>5, <1>6, <2>2
  <2>3. CASE k > Len(c)
    <3>1. PICK m \in 1 .. Len(b) : k = Len(c) + m
      <4>1. k - Len(c) \in 1 .. Len(b) /\ k = Len(c) + (k - Len(c))
        BY <1>1, <1>2, <1>3, <2>3
      <4> QED BY <4>1
    <3>2. g[k] = b[m] /\ m + 1 \in 1 .. Len(b) + 1 /\ k + 1 = Len(c) + (m + 1) /\ k > 1
      <4>1. m + 1 \in 1 .. Len(b) + 1 /\ k + 1 = Len(c) + (m + 1) /\ k > 1
        <5>1. Len(c) \in {1, 2} /\ Len(b) \in Nat /\ m \in 1 .. Len(b) /\ k = Len(c) + m
          BY <1>1, <1>2, <3>1
        <5> QED BY ONLY <5>1
      <4>2. g[k] = b[m]
        BY <1>3, <3>1
      <4> QED BY ONLY <4>1, <4>2
    <3>3. ASSUME NEW d, Start(b, m + d), d \in Int PROVE Start(g, k + d)
      <4>1. m + d \in 1 .. Len(b) + 1 /\ k + d = Len(c) + (m + d)
        BY <1>1, <1>2, <3>1, <3>3 DEF Start
      <4> QED BY <1>4, <3>3, <4>1
    <3>4. b[m].n \in Int
      <4>1. b[m] \in Halfword
        BY <1>2
      <4> QED BY <4>1 DEF Halfword
    <3>5. /\ b[m] = SecondHalf => Start(b, m + 1)
          /\ b[m] # SecondHalf =>
                  /\ Sound(b[m], W, O)
                  /\ b[m].op \in Jumps => Start(b, m + b[m].n)
                  /\ b[m].op = "trap" => (b[m].n = 3 <=> ~Start(b, m + 1))
      BY DEF Block
    <3>6. Start(g, k + 1) <=> Start(b, m + 1)
      BY <1>4, <3>2
    <3> QED BY <3>2, <3>3, <3>4, <3>5, <3>6
  <2> QED BY <1>1, <1>3, <2>1, <2>2, <2>3
<1> QED BY <1>3, <1>9 DEF Block, g

\* One instruction that does not jump.
LEMMA BlockOne ==
  ASSUME NEW W, NEW O, NEW h \in Halfword, h.op # "tail", Sound(h, W, O), h.op \notin Jumps
  PROVE  /\ (h.op = "trap" => h.n = 3) => Block(Wide(h), W, O)
         /\ (h.op = "trap" => h.n # 3) => Block(Short(h), W, O)
<1>1. /\ Wide(h) \in Seq(Halfword) /\ Short(h) \in Seq(Halfword)
      /\ Len(Wide(h)) = 2 /\ Len(Short(h)) = 1
  BY HalfwordType
<1>2. Wide(h) \o <<>> = Wide(h) /\ Short(h) \o <<>> = Short(h)
  BY <1>1, ConcatEmptySeq
<1>3. (h.op = "trap" => h.n = 3) => Block(Wide(h) \o <<>>, W, O)
  BY <1>1, BlockEmpty, BlockHead
<1>4. ASSUME h.op = "trap" => h.n # 3 PROVE Block(Short(h) \o <<>>, W, O)
  <2>1. h.op = "trap" => (h.n = 3 <=> Len(Short(h)) = 2)
    BY <1>1, <1>4
  <2>2. Block(<<>>, W, O) /\ Short(h) \in {Wide(h), Short(h)}
    BY BlockEmpty
  <2> QED BY <2>1, <2>2, BlockHead
<1> QED BY <1>2, <1>3, <1>4

\* A branch behind a block, back into it.
LEMMA BlockBack ==
  ASSUME NEW W, NEW O, NEW b, Block(b, W, O), NEW h \in Halfword, h.op \in Jumps, Sound(h, W, O),
         Start(b, Len(b) + 1 + h.n)
  PROVE  Block(b \o Wide(h), W, O)
<1> DEFINE g == b \o Wide(h)
<1>1. /\ h.n \in Int /\ h # SecondHalf /\ Wide(h) \in Seq(Halfword) /\ Len(Wide(h)) = 2
      /\ Wide(h)[1] = h /\ Wide(h)[2] = SecondHalf /\ h.op # "trap"
  BY HalfwordType DEF Jumps
<1>2. b \in Seq(Halfword) /\ Len(b) \in Nat /\ Start(b, Len(b) + 1)
  BY BlockStart DEF Block
<1>3. /\ g \in Seq(Halfword) /\ Len(g) = Len(b) + 2
      /\ \A k \in 1 .. Len(b) : g[k] = b[k]
      /\ g[Len(b) + 1] = h /\ g[Len(b) + 2] = SecondHalf
  <2>3. PICK c : c = Wide(h)
    OBVIOUS
  <2>1. /\ g \in Seq(Halfword) /\ Len(g) = Len(b) + Len(c)
        /\ \A i \in 1 .. Len(b) + Len(c) : g[i] = IF i <= Len(b) THEN b[i] ELSE c[i - Len(b)]
    BY <1>1, <1>2, <2>3, ConcatProperties
  <2>2. g[Len(b) + 1] = Wide(h)[1] /\ g[Len(b) + 2] = Wide(h)[2]
    <3> HIDE DEF g
    <3>4. Len(c) = 2
      BY <1>1, <2>3
    <3>1. PICK k \in Nat, m \in Nat : k = Len(b) + 1 /\ m = Len(b) + 2
      BY <1>2
    <3>2. /\ k \in 1 .. Len(b) + Len(c) /\ ~(k <= Len(b)) /\ k - Len(b) = 1
          /\ m \in 1 .. Len(b) + Len(c) /\ ~(m <= Len(b)) /\ m - Len(b) = 2
      BY <1>2, <3>1, <3>4
    <3>3. g[k] = c[k - Len(b)] /\ g[m] = c[m - Len(b)]
      BY <2>1, <3>2
    <3> QED BY <2>3, <3>1, <3>2, <3>3
  <2> QED BY <1>1, <1>2, <2>3, <2>1, <2>2
<1> HIDE DEF g
<1>4. \A k \in 1 .. Len(b) + 1 : Start(g, k) <=> Start(b, k)
  <2>1. \A k \in 1 .. Len(b) : Start(g, k) <=> Start(b, k)
    BY <1>2, <1>3 DEF Start
  <2>2. Start(g, Len(b) + 1)
    BY <1>1, <1>2, <1>3 DEF Start
  <2> QED BY <1>2, <2>1, <2>2
<1>5. Start(g, Len(g) + 1)
  BY <1>2, <1>3 DEF Start
<1>6. ASSUME NEW k \in 1 .. Len(g)
      PROVE  /\ g[k] = SecondHalf => k > 1 /\ Start(g, k + 1)
             /\ g[k] # SecondHalf =>
                  /\ Sound(g[k], W, O)
                  /\ g[k].op \in Jumps => Start(g, k + g[k].n)
                  /\ g[k].op = "trap" => (g[k].n = 3 <=> ~Start(g, k + 1))
  <2>1. CASE k <= Len(b)
    <3>1. g[k] = b[k] /\ k \in 1 .. Len(b) /\ k + 1 \in 1 .. Len(b) + 1
      BY <1>2, <1>3, <2>1
    <3>2. g[k].op \in Jumps => (Start(b, k + g[k].n) => Start(g, k + g[k].n))
      BY <1>4, <3>1 DEF Start
    <3> QED BY <1>4, <3>1, <3>2 DEF Block
  <2>2. CASE k = Len(b) + 1
    <3>1. Start(g, Len(b) + 1 + h.n)
      BY <1>4 DEF Start
    <3> QED BY <1>1, <1>3, <2>2, <3>1
  <2>3. CASE k = Len(b) + 2
    BY <1>2, <1>3, <1>5, <2>3
  <2> QED BY <1>2, <1>3, <2>1, <2>2, <2>3
<1> QED BY <1>3, <1>6 DEF Block, g

\* Any number of blocks.
LEMMA BlockFlatten ==
  ASSUME NEW W, NEW O, NEW n \in Nat, NEW S, \A b \in S : Block(b, W, O), NEW s \in [1 .. n -> S]
  PROVE  Block(FlattenSeq(s), W, O)
<1> DEFINE T == {g \in Seq(Halfword) : Block(g, W, O)}
<1>1. \A g : g \in T <=> Block(g, W, O)
  BY DEF Block
<1> HIDE DEF T
<1>2. <<>> \in T
  BY <1>1, BlockEmpty
<1>3. \A a, b \in T : a \o b \in T
  BY <1>1, BlockConcat
<1>4. S \subseteq T
  BY <1>1
<1>5. FlattenSeq(s) \in T
  BY <1>2, <1>3, <1>4, FlattenClosed
<1> QED BY <1>1, <1>5

-----------------------------------------------------------------------------
(* Instructions, and where they may access.                                *)

\* The instructions that compute, field by field.
LEMMA Instructions ==
  /\ Other \in Halfword /\ Other.op = "other" /\ Other.rd = 0
  /\ \A rd \in Int : Write(rd) \in Halfword /\ Write(rd).op = "write" /\ Write(rd).rd = rd
  /\ \A rd, n \in Int :
       /\ /\ SetNum(rd, n) \in Halfword /\ SetNum(rd, n).op = "set" /\ SetNum(rd, n).rd = rd
          /\ SetNum(rd, n).n = n
       /\ /\ LaData(rd, n) \in Halfword /\ LaData(rd, n).op = "ladata" /\ LaData(rd, n).rd = rd
          /\ LaData(rd, n).n = n
       /\ /\ LaCode(rd, n) \in Halfword /\ LaCode(rd, n).op = "lacode" /\ LaCode(rd, n).rd = rd
          /\ LaCode(rd, n).n = n
  /\ \A rd, rs \in Int :
       /\ AddGp(rd, rs) \in Halfword /\ AddGp(rd, rs).op = "addgp" /\ AddGp(rd, rs).rd = rd
       /\ AddGp(rd, rs).rs = rs
  /\ \A rd, rs, n \in Int :
       /\ /\ Addi(rd, rs, n) \in Halfword /\ Addi(rd, rs, n).op = "addi" /\ Addi(rd, rs, n).rd = rd
          /\ Addi(rd, rs, n).rs = rs /\ Addi(rd, rs, n).n = n
       /\ /\ Andi(rd, rs, n) \in Halfword /\ Andi(rd, rs, n).op = "andi" /\ Andi(rd, rs, n).rd = rd
          /\ Andi(rd, rs, n).n = n
BY DEF Write, Other, SetNum, LaData, LaCode, Addi, AddGp, Andi, Instr, Halfword, Op

\* a code address in a register among them,
LEMMA CodeLoad ==
  ASSUME NEW rd \in Int, NEW n \in Int
  PROVE  /\ LaCode(rd, n) \in Halfword /\ LaCode(rd, n).op = "lacode"
         /\ LaCode(rd, n).rd = rd /\ LaCode(rd, n).n = n
BY DEF LaCode, Instr, Halfword, Op

\* The instructions that may go elsewhere, field by field.
LEMMA JumpInstructions ==
  /\ \A n \in Int :
       /\ Branch(n) \in Halfword /\ Branch(n).op = "branch" /\ Branch(n).rd = 0 /\ Branch(n).n = n
       /\ Trap(n) \in Halfword /\ Trap(n).op = "trap" /\ Trap(n).rd = 0 /\ Trap(n).n = n
  /\ \A rs, n \in Int :
       /\ Bnez(rs, n) \in Halfword /\ Bnez(rs, n).op = "bnez" /\ Bnez(rs, n).rd = 0
       /\ Bnez(rs, n).rs = rs /\ Bnez(rs, n).n = n
  /\ \A rd, n \in Int :
       /\ Jal(rd, n) \in Halfword /\ Jal(rd, n).op = "jal" /\ Jal(rd, n).rd = rd
       /\ Jal(rd, n).n = n
  /\ \A rd, rs \in Int :
       /\ Jalr(rd, rs) \in Halfword /\ Jalr(rd, rs).op = "jalr" /\ Jalr(rd, rs).rd = rd
       /\ Jalr(rd, rs).rs = rs
BY DEF Branch, Bnez, Jal, Jalr, Trap, Instr, Halfword, Op

\* The instructions that access memory,
LEMMA MemoryInstructions ==
  \A op, rd, rs, at :
    Access(op, rd, rs, at) =
      [op |-> op, rd |-> rd, rs |-> rs, n |-> 0, at |-> at, faults |-> FALSE]
<1> SUFFICES ASSUME NEW op, NEW rd, NEW rs, NEW at
             PROVE  Access(op, rd, rs, at) =
                      [op |-> op, rd |-> rd, rs |-> rs, n |-> 0, at |-> at, faults |-> FALSE]
  OBVIOUS
<1>1. PICK i : i = Access(op, rd, rs, at)
  OBVIOUS
<1>2. i = [op |-> op, rd |-> rd, rs |-> rs, n |-> 0, at |-> at, faults |-> FALSE]
  BY <1>1 DEF Access, Instr
<1> QED BY <1>1, <1>2, Zenon

\* and those that are meant to fault.
LEMMA MisalignedInstructions ==
  \A op, rd, rs, at :
    Misaligned(Access(op, rd, rs, at)) =
      [op |-> op, rd |-> rd, rs |-> rs, n |-> 0, at |-> at, faults |-> TRUE]
<1> SUFFICES ASSUME NEW op, NEW rd, NEW rs, NEW at
             PROVE  Misaligned(Access(op, rd, rs, at)) =
                      [op |-> op, rd |-> rd, rs |-> rs, n |-> 0, at |-> at, faults |-> TRUE]
  OBVIOUS
<1>1. PICK i, m : i = Access(op, rd, rs, at) /\ m = Misaligned(i)
  OBVIOUS
<1>2. i = [op |-> op, rd |-> rd, rs |-> rs, n |-> 0, at |-> at, faults |-> FALSE]
  BY <1>1, MemoryInstructions
<1>3. m = [i EXCEPT !.faults = TRUE]
  BY <1>1 DEF Misaligned
<1>4. m = [op |-> op, rd |-> rd, rs |-> rs, n |-> 0, at |-> at, faults |-> TRUE]
  BY <1>2, <1>3
<1> QED BY <1>1, <1>4, Zenon

\* A set of accesses that are good, or misaligned all of them, from p on.
Fits(S, p) ==
  /\ S \in SUBSET (Int \X Int)
  /\ \A a \in S : Allowed(p + a[1], a[2])
Odd(S, p) ==
  /\ S \in SUBSET (Int \X Int)
  /\ \A a \in S : (p + a[1]) % a[2] # 0

\* Every offset from gp that may be drawn stays in the data area.
LEMMA OffsetsFit ==
  ASSUME NEW size \in Sizes
  PROVE  /\ DataOffset(size) \in SUBSET (-2048 .. 2048 - size)
         /\ \A off \in DataOffset(size) : (2048 + off) % size = 0
         /\ Fits(Offsets(size), 2048)
<1>1. ASSUME NEW off \in DataOffset(size)
      PROVE  off \in Int /\ off >= -2048 /\ off <= 2048 - size /\ (2048 + off) % size = 0
  <2>1. PICK o \in {-2048, 2048 - size, -64, 63} : off = o - (o % size)
    BY <1>1 DEF DataOffset, Draw, AlignDown, Sizes
  <2>2. CASE size = 1
    BY <2>1, <2>2
  <2>3. CASE size = 2
    BY <2>1, <2>3
  <2>4. CASE size = 4
    BY <2>1, <2>4
  <2> QED BY <2>2, <2>3, <2>4 DEF Sizes
<1>2. \A a \in Offsets(size) : a = <<a[1], a[2]>> /\ a[1] \in DataOffset(size) /\ a[2] = size
  BY DEF Offsets
<1>3. DataOffset(size) \subseteq -2048 .. 2048 - size
  BY <1>1 DEF Sizes
<1>4. Offsets(size) \subseteq Int \X Int
  BY <1>1 DEF Offsets, Sizes
<1>5. \A a \in Offsets(size) : Allowed(2048 + a[1], a[2])
  BY <1>1, <1>2 DEF Allowed, DATA_WORDS, Sizes
<1> QED BY <1>1, <1>3, <1>4, <1>5 DEF Fits

\* So does every access of a size drawn first,
LEMMA AnyAccessFits == Fits(AnyAccess, 2048)
BY OffsetsFit DEF AnyAccess, Fits

\* every scaled offset of a compressed access,
LEMMA WordsFit ==
  /\ Fits(Words(0, 32), 0) /\ Fits(Words(0, 64), 1024) /\ Fits(Words(-512, 511), 2048)
BY DEF Words, Draw, Fits, Allowed, DATA_WORDS

Near ==
  UNION {{<<base + AlignDown(k, size), size>> : k \in 0..3} :
         base \in {AlignDown(b, 4) : b \in Draw(-64, 64)}, size \in Sizes}

\* and every access that overlaps a store near gp.
LEMMA NearFits == Fits(Near, 2048)
<1>1. ASSUME NEW a \in Near
      PROVE  \E m, size \in Int : a = <<m, size>> /\ Allowed(2048 + m, size)
  <2>1. PICK base \in {-64, 60}, size \in {1, 2, 4}, k \in 0 .. 3 : a = <<base + (k - (k % size)), size>>
    BY <1>1 DEF Near, Draw, AlignDown, Sizes
  <2>2. CASE size = 1
    BY <2>1, <2>2 DEF Allowed, DATA_WORDS
  <2>3. CASE size = 2
    BY <2>1, <2>3 DEF Allowed, DATA_WORDS
  <2>4. CASE size = 4
    BY <2>1, <2>4 DEF Allowed, DATA_WORDS
  <2> QED BY <2>2, <2>3, <2>4
<1>2. Near \subseteq Int \X Int
  BY <1>1
<1>3. \A a \in Near : Allowed(2048 + a[1], a[2])
  BY <1>1
<1> QED BY <1>2, <1>3 DEF Fits

-----------------------------------------------------------------------------
(* What the generator functions emit.                                      *)

\* Loads and stores at the bases.
LEMMA BaseAccess ==
  ASSUME NEW F \in SUBSET Int, NEW rd \in F \union {0}, NEW base \in BASE_REGS,
         NEW at, Fits(at, BaseAt(base))
  PROVE  /\ Block(Wide(Load(rd, base, at)), F, Plain) /\ Block(Short(Load(rd, base, at)), F, Plain)
         /\ Block(Wide(Store(base, at)), F, Plain) /\ Block(Short(Store(base, at)), F, Plain)
<1>1. PICK l, s : l = Load(rd, base, at) /\ s = Store(base, at)
  OBVIOUS
<1>2. /\ l \in Halfword /\ l.op = "load" /\ l.rd = rd /\ l.rs = base /\ l.at = at /\ l.faults = FALSE
      /\ s \in Halfword /\ s.op = "store" /\ s.rd = 0 /\ s.rs = base /\ s.at = at /\ s.faults = FALSE
  <2>1. /\ l = [op |-> "load", rd |-> rd, rs |-> base, n |-> 0, at |-> at, faults |-> FALSE]
        /\ s = [op |-> "store", rd |-> 0, rs |-> base, n |-> 0, at |-> at, faults |-> FALSE]
    BY <1>1, MemoryInstructions DEF Load, Store
  <2>2. rd \in Int /\ 0 \in Int /\ base \in Int /\ at \in SUBSET (Int \X Int)
    BY DEF BASE_REGS, Fits
  <2> QED BY <2>1, <2>2 DEF Halfword, Op
<1>3. Sound(l, F, Plain) /\ Sound(s, F, Plain)
  BY <1>2 DEF Sound, Plain, Reaches, Fits
<1> QED BY <1>1, <1>2, <1>3, BlockOne DEF Jumps

\* One instruction that reaches no memory.
LEMMA WriteBlocks ==
  ASSUME NEW F \in SUBSET Int, NEW rd \in F
  PROVE  /\ Block(Wide(Write(rd)), F, {"write"}) /\ Block(Short(Write(rd)), F, {"write"})
         /\ Block(Wide(Write(rd)), F, Plain) /\ Block(Short(Write(rd)), F, Plain)
         /\ Block(Wide(Other), F, Plain)
<1>1. PICK i, o : i = Write(rd) /\ o = Other
  OBVIOUS
<1>2. i \in Halfword /\ i.op = "write" /\ i.rd = rd /\ o \in Halfword /\ o.op = "other" /\ o.rd = 0
  BY <1>1, Instructions
<1>3. Sound(i, F, {"write"}) /\ Sound(i, F, Plain) /\ Sound(o, F, Plain)
  BY <1>2 DEF Sound, Plain, MemoryOps
<1> QED BY <1>1, <1>2, <1>3, BlockOne DEF Jumps

\* Alternatives behind alternatives.
LEMMA ThenBlocks ==
  ASSUME NEW W, NEW O, NEW A, NEW B, \A a \in A : Block(a, W, O), \A b \in B : Block(b, W, O)
  PROVE  \A c \in Then(A, B) : Block(c, W, O)
<1> SUFFICES ASSUME NEW c \in Then(A, B) PROVE Block(c, W, O)
  OBVIOUS
<1>1. PICK a \in A, b \in B : c = a \o b
  BY DEF Then
<1> QED BY <1>1, BlockConcat

\* Bodies of blocks are blocks.
LEMMA BodyBlocks ==
  ASSUME NEW W, NEW O, NEW G, \A b \in G : Block(b, W, O), NEW lo \in Nat, NEW bound \in Nat
  PROVE  \A c \in Bodies(G, lo, bound) : Block(c, W, O)
<1> SUFFICES ASSUME NEW c \in Bodies(G, lo, bound) PROVE Block(c, W, O)
  OBVIOUS
<1>1. PICK k \in (IF lo < bound THEN lo ELSE bound) .. bound :
         \E s \in [1 .. k -> G] : c = FlattenSeq(s)
  BY DEF Bodies
<1>2. PICK s \in [1 .. k -> G] : c = FlattenSeq(s)
  BY <1>1
<1>3. k \in Nat
  OBVIOUS
<1> QED BY <1>2, <1>3, BlockFlatten

\* The simple groups.
LEMMA SimpleBlocks ==
  ASSUME NEW F \in SUBSET Int
  PROVE  /\ \A c \in GenAlu(F) : Block(c, F, Plain)
         /\ \A c \in GenLoad(F) : Block(c, F, Plain)
         /\ \A c \in GenStore : Block(c, F, Plain)
         /\ \A c \in GenSimple(F) : Block(c, F, Plain)
         /\ \A c \in GenLi(F) : Block(c, F, Plain)
         /\ \A c \in GenCsr(F) : Block(c, F, Plain)
         /\ Block(Wide(Other), F, Plain)
<1>1. \A rd \in F : Block(Wide(Write(rd)), F, Plain) /\ Block(Short(Write(rd)), F, Plain)
  BY WriteBlocks
<1>2. Fits(AnyAccess, BaseAt(gp)) /\ gp \in BASE_REGS
  BY AnyAccessFits DEF BaseAt, gp, BASE_REGS
<1>3. \A rd \in F \union {0} : /\ Block(Wide(Load(rd, gp, AnyAccess)), F, Plain)
                               /\ Block(Wide(Store(gp, AnyAccess)), F, Plain)
  BY <1>2, BaseAccess
<1>4. Block(Wide(Other), F, Plain)
  <2>1. PICK o : o = Other
    OBVIOUS
  <2>2. o \in Halfword /\ o.op = "other" /\ o.rd = 0
    BY <2>1, Instructions
  <2>3. Sound(o, F, Plain)
    BY <2>2 DEF Sound, Plain, MemoryOps
  <2> QED BY <2>1, <2>2, <2>3, BlockOne DEF Jumps
<1>5. /\ \A c \in GenAlu(F) : Block(c, F, Plain)
      /\ \A c \in GenAluImm(F) : Block(c, F, Plain)
      /\ \A c \in GenUpper(F) : Block(c, F, Plain)
      /\ \A c \in GenCompressedAlu(F) : Block(c, F, Plain)
      /\ \A c \in GenLi(F) : Block(c, F, Plain)
      /\ \A c \in GenCsr(F) : Block(c, F, Plain)
  <2>1. \A c \in GenAlu(F) : Block(c, F, Plain)
    BY ONLY <1>1 DEF GenAlu
  <2>2. \A c \in GenAluImm(F) : Block(c, F, Plain)
    BY ONLY <1>1 DEF GenAluImm
  <2>3. \A c \in GenUpper(F) : Block(c, F, Plain)
    BY ONLY <1>1 DEF GenUpper
  <2>4. \A c \in GenCompressedAlu(F) : Block(c, F, Plain)
    BY ONLY <1>1 DEF GenCompressedAlu, CRegs
  <2>5. \A c \in GenLi(F) : Block(c, F, Plain)
    BY ONLY <1>1 DEF GenLi
  <2>6. \A c \in GenCsr(F) : Block(c, F, Plain)
    BY ONLY <1>1 DEF GenCsr
  <2> QED BY ONLY <2>1, <2>2, <2>3, <2>4, <2>5, <2>6
<1>6. /\ \A c \in GenLoad(F) : Block(c, F, Plain)
      /\ \A c \in GenStore : Block(c, F, Plain)
  BY <1>3 DEF GenLoad, GenStore
<1>7. \A c \in GenSimple(F) : Block(c, F, Plain)
  BY <1>5, <1>6 DEF GenSimple
<1> QED BY <1>4, <1>5, <1>6, <1>7

\* The groups of loads and stores, floating-point ones among them.
LEMMA MemoryBlocks ==
  ASSUME NEW F \in SUBSET Int, BODY \in Nat
  PROVE  /\ \A c \in GenStoreLoadPair(F) : Block(c, F, Plain)
         /\ \A c \in GenStoreBurst(F) : Block(c, F, Plain)
         /\ \A c \in GenCompressedMem(F) : Block(c, F, Plain)
         /\ \A c \in GenFp(F) : Block(c, F, Plain)
<1>1. /\ Fits(Near, BaseAt(gp)) /\ Fits(Offsets(4), BaseAt(gp))
      /\ Fits(Words(0, 32), BaseAt(s1)) /\ Fits(Words(0, 64), BaseAt(sp))
      /\ {gp, s1, sp} \subseteq BASE_REGS
  <2>1. BaseAt(gp) = 2048 /\ BaseAt(s1) = 0 /\ BaseAt(sp) = 1024 /\ {gp, s1, sp} \subseteq BASE_REGS
    BY DEF BaseAt, gp, s1, sp, BASE_REGS
  <2>2. Fits(Near, 2048) /\ Fits(Offsets(4), 2048) /\ Fits(Words(0, 32), 0) /\ Fits(Words(0, 64), 1024)
    <3>1. Fits(Near, 2048) /\ Fits(Offsets(4), 2048)
      <4>1. 4 \in Sizes
        BY ONLY DEF Sizes
      <4>2. Fits(Offsets(4), 2048)
        BY ONLY <4>1, OffsetsFit
      <4> QED BY ONLY <4>2, NearFits
    <3>2. Fits(Words(0, 32), 0) /\ Fits(Words(0, 64), 1024)
      BY WordsFit
    <3> QED BY ONLY <3>1, <3>2
  <2> QED BY <2>1, <2>2
<1>2. \A c \in GenStoreLoadPair(F) : Block(c, F, Plain)
  <2> DEFINE st == {Wide(Store(gp, Near))}
             between == Bodies(GenAlu(F), 0, 1)
             loads == {Wide(Load(rd, gp, Near)) : rd \in F}
             after == loads \union Then(loads, GenAlu(F))
  <2>1. /\ \A c \in st : Block(c, F, Plain)
        /\ \A c \in loads : Block(c, F, Plain)
    BY <1>1, BaseAccess
  <2>2. \A c \in between : Block(c, F, Plain)
    BY SimpleBlocks, BodyBlocks
  <2>3. GenStoreLoadPair(F) = Then(Then(st, between), after)
    BY DEF GenStoreLoadPair, Near
  <2> HIDE DEF st, between, loads
  <2>4. \A c \in Then(loads, GenAlu(F)) : Block(c, F, Plain)
    BY <2>1, SimpleBlocks, ThenBlocks
  <2>5. \A c \in after : Block(c, F, Plain)
    BY <2>1, <2>4
  <2> HIDE DEF after
  <2>6. \A c \in Then(st, between) : Block(c, F, Plain)
    BY <2>1, <2>2, ThenBlocks
  <2>7. \A c \in Then(Then(st, between), after) : Block(c, F, Plain)
    BY <2>5, <2>6, ThenBlocks
  <2> QED BY <2>3, <2>7
<1>3. \A c \in GenStoreBurst(F) : Block(c, F, Plain)
  <2> DEFINE burst == Bodies(GenStore, 5, BODY)
  <2>1. \A c \in burst : Block(c, F, Plain)
    BY SimpleBlocks, BodyBlocks
  <2> HIDE DEF burst
  <2>2. \A c \in Then(burst, GenLoad(F)) : Block(c, F, Plain)
    BY <2>1, SimpleBlocks, ThenBlocks
  <2> QED BY <2>1, <2>2 DEF GenStoreBurst, burst
<1>4. \A rd \in F \union {0} :
         /\ Block(Short(Load(rd, s1, Words(0, 32))), F, Plain)
         /\ Block(Short(Load(rd, sp, Words(0, 64))), F, Plain)
         /\ Block(Short(Store(s1, Words(0, 32))), F, Plain)
         /\ Block(Short(Store(sp, Words(0, 64))), F, Plain)
         /\ Block(Wide(Load(rd, gp, Offsets(4))), F, Plain)
         /\ Block(Wide(Store(gp, Offsets(4))), F, Plain)
  BY <1>1, BaseAccess
<1>5. \A c \in GenCompressedMem(F) : Block(c, F, Plain)
  BY <1>4 DEF GenCompressedMem, CRegs
<1>6. \A c \in GenFp(F) : Block(c, F, Plain)
  BY <1>4, SimpleBlocks, WriteBlocks DEF GenFp
<1> QED BY <1>2, <1>3, <1>5, <1>6

\* A load or a store that is misaligned wherever it was drawn.
LEMMA FaultingBlocks ==
  ASSUME NEW F \in SUBSET Int, NEW rd \in F \union {0}, NEW at, Odd(at, 2048)
  PROVE  /\ Block(Wide(Misaligned(Load(rd, gp, at))), F, Blockwise)
         /\ Block(Wide(Misaligned(Store(gp, at))), F, Blockwise)
<1>1. PICK m, t : m = Misaligned(Load(rd, gp, at)) /\ t = Misaligned(Store(gp, at))
  OBVIOUS
<1>2. /\ m = [op |-> "load", rd |-> rd, rs |-> gp, n |-> 0, at |-> at, faults |-> TRUE]
      /\ t = [op |-> "store", rd |-> 0, rs |-> gp, n |-> 0, at |-> at, faults |-> TRUE]
  BY <1>1, MisalignedInstructions DEF Load, Store
<1>3. /\ m.op = "load" /\ m.rd = rd /\ m.rs = gp /\ m.at = at /\ m.faults = TRUE
      /\ t.op = "store" /\ t.rd = 0 /\ t.rs = gp /\ t.at = at /\ t.faults = TRUE
  BY <1>2
<1>4. m \in Halfword /\ t \in Halfword
  BY <1>2 DEF Halfword, Op, Odd, gp
<1>5. /\ m \in Halfword /\ m.op = "load" /\ m.rd = rd /\ m.rs = gp /\ m.at = at /\ m.faults = TRUE
      /\ t \in Halfword /\ t.op = "store" /\ t.rd = 0 /\ t.rs = gp /\ t.at = at /\ t.faults = TRUE
  BY <1>3, <1>4
<1>6. Sound(m, F, Blockwise) /\ Sound(t, F, Blockwise)
  <2>1. BaseAt(gp) = 2048 /\ gp \in BASE_REGS
    BY DEF BaseAt, gp, BASE_REGS
  <2> QED BY <1>5, <2>1 DEF Sound, Plain, Blockwise, Reaches, Odd
<1> QED BY <1>1, <1>5, <1>6, BlockOne DEF Jumps

\* The traps, but for the AMO at a pointer of its own.
Word == {<<0, 4>>}
Halfway == {4 * n + 2 : n \in Draw(-16, 16)}
PointedTraps(F) ==
  {Wide(Addi(addr, gp, off)) \o Wide(Misaligned(Access("amo", rd, addr, Word))) :
     addr \in F, rd \in F, off \in Halfway}

\* Every other trap resumes behind itself.
LEMMA TrapBlocks ==
  ASSUME NEW F \in SUBSET Int, NEW c \in GenTrap(F), c \notin PointedTraps(F)
  PROVE  Block(c, F, Blockwise)
<1> DEFINE odd == {<<off + 1, size>> : off \in DataOffset(4), size \in {2, 4}}
           stores == {<<off + 2, 4>> : off \in DataOffset(4)}
                     \union {<<off + 1, 2>> : off \in DataOffset(4)}
<1>1. Odd(odd, 2048) /\ Odd(stores, 2048)
  <2>1. \A off \in DataOffset(4) : off \in Int /\ (2048 + off) % 4 = 0
    <3> SUFFICES ASSUME NEW off \in DataOffset(4) PROVE off \in Int /\ (2048 + off) % 4 = 0
      OBVIOUS
    <3>1. off \in {AlignDown(o, 4) : o \in {-2048, 2044, -64, 63}}
      BY DEF DataOffset, Draw
    <3>2. PICK o \in {-2048, 2044, -64, 63} : off = o - (o % 4)
      BY <3>1 DEF AlignDown
    <3> QED BY <3>2
  <2>2. \A off \in Int : (2048 + off) % 4 = 0 =>
          /\ (2048 + (off + 1)) % 4 # 0 /\ (2048 + (off + 1)) % 2 # 0
          /\ (2048 + (off + 2)) % 4 # 0
    OBVIOUS
  <2>3. odd \in SUBSET (Int \X Int) /\ stores \in SUBSET (Int \X Int)
    BY <2>1
  <2>4. \A a \in odd : (2048 + a[1]) % a[2] # 0
    BY <2>1, <2>2
  <2>5. \A a \in stores : (2048 + a[1]) % a[2] # 0
    BY <2>1, <2>2
  <2> QED BY <2>3, <2>4, <2>5 DEF Odd
<1>2. GenTrap(F) = UNION {{Wide(Trap(3)), Short(Trap(0)), Short(Trap(2)), Wide(Other)},
                          {Wide(Misaligned(Load(rd, gp, odd))) : rd \in F},
                          {Wide(Misaligned(Store(gp, stores)))},
                          PointedTraps(F)}
  BY DEF GenTrap, PointedTraps, Halfway, Word
<1> HIDE DEF odd, stores
<1>3. CASE c \in {Wide(Trap(3)), Short(Trap(0)), Short(Trap(2))}
  <2>1. PICK t \in {Trap(0), Trap(2), Trap(3)} :
               (c = Wide(t) /\ t.n = 3) \/ (c = Short(t) /\ t.n # 3)
    <3>1. Trap(0).n = 0 /\ Trap(2).n = 2 /\ Trap(3).n = 3
      BY JumpInstructions
    <3>2. PICK z, y, x : z = Trap(0) /\ y = Trap(2) /\ x = Trap(3)
      OBVIOUS
    <3>3. z.n # 3 /\ y.n # 3 /\ x.n = 3
      BY <3>1, <3>2
    <3>4. c = Wide(x) \/ c = Short(z) \/ c = Short(y)
      BY <1>3, <3>2
    <3>5. x \in {Trap(0), Trap(2), Trap(3)} /\ y \in {Trap(0), Trap(2), Trap(3)}
          /\ z \in {Trap(0), Trap(2), Trap(3)}
      BY <3>2
    <3> QED BY <3>3, <3>4, <3>5
  <2>2. t \in Halfword /\ t.op = "trap" /\ t.rd = 0
    BY JumpInstructions
  <2>3. Sound(t, F, Blockwise)
    BY <2>2 DEF Sound, Blockwise, MemoryOps
  <2> QED BY <2>1, <2>2, <2>3, BlockOne DEF Jumps
<1>4. CASE c = Wide(Other)
  <2>1. Block(c, F, Plain)
    BY <1>4, SimpleBlocks
  <2> QED BY <2>1, BlockWider DEF Blockwise
<1>5. CASE c \in {Wide(Misaligned(Load(rd, gp, odd))) : rd \in F}
  BY <1>1, <1>5, FaultingBlocks
<1>6. CASE c = Wide(Misaligned(Store(gp, stores)))
  <2>1. 0 \in F \union {0}
    OBVIOUS
  <2> QED BY <1>1, <1>6, <2>1, FaultingBlocks
<1> QED BY <1>2, <1>3, <1>4, <1>5, <1>6

\* A jump of h over the block b behind it.
LEMMA OverBlocks ==
  ASSUME NEW W, NEW b, Block(b, W, Blockwise), NEW h \in Halfword, h.op \in {"branch", "jal"},
         h.rd \in W \union {0}, NEW c, c \in {Wide(h), Short(h)}, h.n = Len(c) + Len(b)
  PROVE  Block(c \o b, W, Blockwise)
<1>1. Sound(h, W, Blockwise)
  BY DEF Sound, Blockwise, Jumps, MemoryOps
<1>2. Len(c) \in {1, 2}
  BY HalfwordType
<1>3. Start(b, 1 + h.n - Len(c))
  <2>1. Len(b) \in Nat /\ Start(b, Len(b) + 1)
    BY BlockStart
  <2>2. 1 + h.n - Len(c) = Len(b) + 1
    BY <1>2, <2>1
  <2> QED BY <2>1, <2>2
<1>4. /\ h.op # "tail" /\ h.op # "trap"
  OBVIOUS
<1> QED BY <1>1, <1>3, <1>4, BlockHead

\* A branch over a body,
LEMMA BranchBlocks ==
  ASSUME NEW F \in SUBSET Int, BODY \in Nat
  PROVE  \A c \in GenForwardBranch(F) : Block(c, F, Blockwise)
<1> SUFFICES ASSUME NEW c \in GenForwardBranch(F) PROVE Block(c, F, Blockwise)
  OBVIOUS
<1>1. PICK body \in Bodies(GenSimple(F), 0, BODY) : c \in Over(body)
  BY DEF GenForwardBranch
<1>2. Block(body, F, Plain)
  BY SimpleBlocks, BodyBlocks
<1>3. Block(body, F, Blockwise)
  BY <1>2, BlockWider DEF Blockwise
<1>4. Len(body) \in Nat
  BY <1>2, BlockStart
<1>5. PICK h, w, d : /\ d \in {1, 2} /\ h = Branch(d + Len(body)) /\ w \in {Wide(h), Short(h)}
                     /\ Len(w) = d /\ c = w \o body
  <2>1. \A d \in {1, 2} : Branch(d + Len(body)) \in Halfword
    BY <1>4, JumpInstructions
  <2>2. CASE c = Short(Branch(1 + Len(body))) \o body
    BY <2>1, <2>2, HalfwordType
  <2>3. CASE c = Wide(Branch(2 + Len(body))) \o body
    BY <2>1, <2>3, HalfwordType
  <2> QED BY <1>1, <2>2, <2>3 DEF Over
<1>6. h \in Halfword /\ h.op = "branch" /\ h.rd = 0 /\ h.n = d + Len(body)
  BY <1>4, <1>5, JumpInstructions
<1> QED BY <1>3, <1>5, <1>6, OverBlocks

\* and a jump over one.
LEMMA JumpBlocks ==
  ASSUME NEW F \in SUBSET Int, BODY \in Nat
  PROVE  \A c \in GenJump(F) : Block(c, F, Blockwise)
<1> SUFFICES ASSUME NEW c \in GenJump(F) PROVE Block(c, F, Blockwise)
  OBVIOUS
<1>1. PICK body \in Bodies(GenSimple(F), 1, BODY) :
             c \in {Short(Jal(0, 1 + Len(body))) \o body}
                   \union {Wide(Jal(rd, 2 + Len(body))) \o body : rd \in F \union {0}}
  BY DEF GenJump
<1>2. Block(body, F, Plain)
  BY SimpleBlocks, BodyBlocks
<1>3. Block(body, F, Blockwise)
  BY <1>2, BlockWider DEF Blockwise
<1>4. Len(body) \in Nat
  BY <1>2, BlockStart
<1>5. \A d \in {1, 2}, rd \in F \union {0} :
         LET j == Jal(rd, d + Len(body))
         IN  j \in Halfword /\ j.op = "jal" /\ j.rd = rd /\ j.n = d + Len(body)
  BY <1>4, JumpInstructions
<1>6. CASE c = Short(Jal(0, 1 + Len(body))) \o body
  <2>1. PICK h : h = Jal(0, 1 + Len(body))
    OBVIOUS
  <2>2. h \in Halfword /\ h.op = "jal" /\ h.rd = 0 /\ h.n = 1 + Len(body)
    BY <1>5, <2>1
  <2>3. Len(Short(h)) = 1
    BY <2>2, HalfwordType
  <2> QED BY <1>3, <1>6, <2>1, <2>2, <2>3, OverBlocks
<1>7. ASSUME NEW rd \in F \union {0}, c = Wide(Jal(rd, 2 + Len(body))) \o body
      PROVE  Block(c, F, Blockwise)
  <2>1. PICK h : h = Jal(rd, 2 + Len(body))
    OBVIOUS
  <2>2. h \in Halfword /\ h.op = "jal" /\ h.rd = rd /\ h.n = 2 + Len(body)
    BY <1>5, <2>1
  <2>3. Len(Wide(h)) = 2
    BY <2>2, HalfwordType
  <2> QED BY <1>3, <1>7, <2>1, <2>2, <2>3, OverBlocks
<1> QED BY <1>1, <1>6, <1>7

\* The starts of a block behind another one.
LEMMA StartBehind ==
  ASSUME NEW W, NEW O, NEW a, NEW b, Block(a, W, O), Block(b, W, O), NEW k \in 1 .. Len(b) + 1
  PROVE  Len(a \o b) = Len(a) + Len(b) /\ (Start(a \o b, Len(a) + k) <=> Start(b, k))
<1> DEFINE g == a \o b
<1>1. a \in Seq(Halfword) /\ b \in Seq(Halfword) /\ Len(a) \in Nat /\ Len(b) \in Nat
  BY DEF Block
<1>2. /\ Len(g) = Len(a) + Len(b)
      /\ \A m \in 1 .. Len(b) : g[Len(a) + m] = b[m]
  BY <1>1, ConcatProperties
<1> HIDE DEF g
<1>3. Start(g, Len(a) + k) <=> Start(b, k)
  <2>1. PICK la \in Nat, lb \in Nat, j \in Nat : la = Len(a) /\ lb = Len(b) /\ j = k
    BY <1>1
  <2>2. j \in 1 .. lb + 1
    BY <2>1
  <2>3. la + j \in 1 .. la + lb + 1 /\ (la + j <= la + lb <=> j <= lb)
    BY ONLY <2>2, la \in Nat, lb \in Nat, j \in Nat
  <2>4. j <= lb => g[la + j] = b[j]
    <3>1. j <= lb => j \in 1 .. lb
      BY ONLY <2>2, lb \in Nat, j \in Nat
    <3> QED BY ONLY <1>2, <2>1, <3>1
  <2>5. Len(g) = la + lb
    BY ONLY <1>2, <2>1
  <2>6. Start(g, la + j) <=> (j <= lb => g[la + j] # SecondHalf)
    BY ONLY <2>3, <2>5 DEF Start
  <2>7. Start(b, j) <=> (j <= lb => b[j] # SecondHalf)
    BY ONLY <2>1, <2>2 DEF Start
  <2> QED BY ONLY <2>1, <2>4, <2>6, <2>7
<1> QED BY <1>2, <1>3 DEF g

\* The branch of a loop goes back to the start of its body.
LEMMA LoopBlocks ==
  ASSUME NEW F \in SUBSET Int, BODY \in Nat
  PROVE  \A c \in GenLoop(F) : Block(c, F \union {LOOP_REG}, Blockwise)
<1> DEFINE W == F \union {LOOP_REG}
<1> SUFFICES ASSUME NEW c \in GenLoop(F) PROVE Block(c, W, Blockwise)
  OBVIOUS
<1>1. PICK n \in Draw(2, 7), body \in Bodies(GenSimple(F), 2, BODY) :
        c = Wide(SetNum(LOOP_REG, n)) \o body \o Wide(Addi(LOOP_REG, LOOP_REG, -1))
              \o Wide(Bnez(LOOP_REG, -(2 + Len(body))))
  BY DEF GenLoop, BodyRegs
<1>2. Block(body, F, Plain)
  BY SimpleBlocks, BodyBlocks
<1>3. Block(body, W, Blockwise) /\ Len(body) \in Nat /\ body \in Seq(Halfword)
  <2>1. F \subseteq W /\ Plain \subseteq Blockwise
    BY DEF Blockwise
  <2> QED BY <1>2, <2>1, BlockWider, BlockStart DEF Block
<1>4. PICK s, d, b : /\ s = SetNum(LOOP_REG, n) /\ d = Addi(LOOP_REG, LOOP_REG, -1)
                     /\ b = Bnez(LOOP_REG, -(2 + Len(body)))
  OBVIOUS
<1>5. /\ s \in Halfword /\ s.op = "set" /\ s.rd = LOOP_REG
      /\ d \in Halfword /\ d.op = "addi" /\ d.rd = LOOP_REG
      /\ b \in Halfword /\ b.op = "bnez" /\ b.rd = 0 /\ b.n = -(2 + Len(body))
  <2>1. LOOP_REG \in Int /\ n \in Int /\ -1 \in Int /\ -(2 + Len(body)) \in Int
    BY <1>3 DEF LOOP_REG, Draw
  <2>2. s \in Halfword /\ s.op = "set" /\ s.rd = LOOP_REG
    <3>1. /\ SetNum(LOOP_REG, n) \in Halfword /\ SetNum(LOOP_REG, n).op = "set"
          /\ SetNum(LOOP_REG, n).rd = LOOP_REG
      BY <2>1, Instructions
    <3> QED BY <1>4, <3>1
  <2>3. d \in Halfword /\ d.op = "addi" /\ d.rd = LOOP_REG
    <3>1. /\ Addi(LOOP_REG, LOOP_REG, -1) \in Halfword /\ Addi(LOOP_REG, LOOP_REG, -1).op = "addi"
          /\ Addi(LOOP_REG, LOOP_REG, -1).rd = LOOP_REG
      BY <2>1, Instructions
    <3> QED BY <1>4, <3>1
  <2>4. b \in Halfword /\ b.op = "bnez" /\ b.rd = 0 /\ b.n = -(2 + Len(body))
    <3>1. PICK z \in Int : z = -(2 + Len(body))
      BY <2>1
    <3>2. b = Bnez(LOOP_REG, z)
      BY <1>4, <3>1
    <3>3. /\ Bnez(LOOP_REG, z) \in Halfword /\ Bnez(LOOP_REG, z).op = "bnez"
          /\ Bnez(LOOP_REG, z).rd = 0 /\ Bnez(LOOP_REG, z).n = z
      BY <2>1, JumpInstructions
    <3> QED BY <3>1, <3>2, <3>3
  <2> QED BY <2>2, <2>3, <2>4
<1>6. Sound(s, W, Blockwise) /\ Sound(d, W, Blockwise) /\ Sound(b, W, Blockwise)
  BY <1>5 DEF Sound, Blockwise, Plain, Jumps, MemoryOps
<1>7. Block(Wide(s), W, Blockwise) /\ Block(Wide(d), W, Blockwise)
  BY <1>5, <1>6, BlockOne DEF Jumps
<1> HIDE DEF W
<1>8. Block(Wide(s) \o body, W, Blockwise)
  BY <1>3, <1>7, BlockConcat
<1>9. Block(Wide(s) \o body \o Wide(d), W, Blockwise)
  BY <1>7, <1>8, BlockConcat
<1>10. PICK g, a : g = Wide(s) \o body \o Wide(d) /\ a = Wide(s) \o body
  OBVIOUS
<1>11. Len(g) = Len(body) + 4 /\ Start(g, 3)
  <2>1. Len(Wide(s)) = 2 /\ Len(Wide(d)) = 2
    BY <1>5, HalfwordType
  <2>2. 1 \in 1 .. Len(body) + 1 /\ Start(body, 1)
    BY <1>3, BlockStart
  <2>3. Len(a) = 2 + Len(body) /\ Start(a, 3)
    <3>1. Len(a) = Len(Wide(s)) + Len(body) /\ Start(a, Len(Wide(s)) + 1)
      BY <1>3, <1>7, <1>10, <2>2, StartBehind
    <3> QED BY <2>1, <3>1
  <2>4. Len(g) = Len(a) + Len(Wide(d))
    <3>1. 1 \in 1 .. Len(Wide(d)) + 1
      BY <2>1
    <3> QED BY <1>7, <1>8, <1>10, <3>1, StartBehind
  <2>5. CASE Len(body) = 0
    <3>1. Start(Wide(d), 1) /\ 1 \in 1 .. Len(Wide(d)) + 1
      BY <1>7, <2>1, BlockStart
    <3>2. Start(g, Len(a) + 1)
      BY <1>7, <1>8, <1>10, <3>1, StartBehind
    <3> QED BY <1>3, <2>1, <2>3, <2>4, <2>5, <3>2
  <2>6. CASE Len(body) # 0
    <3>1. a \in Seq(Halfword) /\ Wide(d) \in Seq(Halfword)
      BY <1>7, <1>8, <1>10 DEF Block
    <3>2. 3 \in 1 .. Len(a)
      BY <1>3, <2>3, <2>6
    <3>3. g[3] = a[3]
      BY <1>10, <3>1, <3>2, ConcatProperties
    <3> QED BY <1>3, <2>1, <2>3, <2>4, <3>2, <3>3 DEF Start
  <2> QED BY <1>3, <2>1, <2>3, <2>4, <2>5, <2>6
<1>12. Start(g, Len(g) + 1 + b.n)
  <2>1. Len(g) + 1 + b.n = 3
    BY <1>3, <1>5, <1>11
  <2> QED BY <1>11, <2>1
<1>13. Block(g \o Wide(b), W, Blockwise)
  BY <1>5, <1>6, <1>9, <1>10, <1>12, BlockBack DEF Jumps
<1> QED BY <1>1, <1>4, <1>10, <1>13

\* A path that a late branch may squash.
LEMMA PathBlocks ==
  ASSUME NEW F \in SUBSET Int, BODY \in Nat, NEW lo \in Nat, PATH \in Nat
  PROVE  \A c \in Bodies(GenWrongPathOp(F), lo, PATH) : Block(c, F, Blockwise)
<1>1. ASSUME NEW c \in GenWrongPathOp(F) PROVE Block(c, F, Blockwise)
  <2>1. CASE c \in GenForwardBranch(F)
    BY <2>1, BranchBlocks
  <2>2. CASE c \notin GenForwardBranch(F)
    <3>1. \/ c \in GenStore \/ c \in GenLoad(F) \/ c \in GenFp(F) \/ c \in GenStoreLoadPair(F)
          \/ c \in GenCsr(F) \/ c \in GenAlu(F) \/ c \in GenSimple(F)
      BY ONLY <2>2, c \in GenWrongPathOp(F) DEF GenWrongPathOp
    <3>2. Block(c, F, Plain)
      BY <3>1, SimpleBlocks, MemoryBlocks
    <3> QED BY <3>2, BlockWider DEF Blockwise
  <2> QED BY <2>1, <2>2
<1> QED BY <1>1, BodyBlocks

\* A branch that waits for a divide.
LEMMA FpBranchBlocks ==
  ASSUME NEW F \in SUBSET Int, BODY \in Nat, PATH \in Nat
  PROVE  \A c \in GenFpBranch(F) : Block(c, F, Blockwise)
<1> DEFINE H(rd, bit) == Wide(Other) \o Wide(Store(gp, Offsets(4)))
                           \o Wide(Load(rd, gp, Offsets(4))) \o Wide(Write(bit))
           head == {H(rd, bit) : rd \in F, bit \in F}
<1>1. \A h \in head : Block(h, F, Blockwise)
  <2> HIDE DEF H
  <2> SUFFICES ASSUME NEW rd \in F, NEW bit \in F PROVE Block(H(rd, bit), F, Blockwise)
    OBVIOUS
  <2>1. Fits(Offsets(4), BaseAt(gp)) /\ gp \in BASE_REGS
    <3>1. BaseAt(gp) = 2048 /\ gp \in BASE_REGS
      BY ONLY DEF BaseAt, gp, BASE_REGS
    <3>2. 4 \in Sizes
      BY ONLY DEF Sizes
    <3>3. Fits(Offsets(4), 2048)
      BY ONLY <3>2, OffsetsFit
    <3> QED BY ONLY <3>1, <3>3
  <2>2. PICK o, s, l, w : /\ o = Wide(Other) /\ s = Wide(Store(gp, Offsets(4)))
                          /\ l = Wide(Load(rd, gp, Offsets(4))) /\ w = Wide(Write(bit))
    OBVIOUS
  <2>3. Block(o, F, Plain) /\ Block(w, F, Plain)
    BY <2>2, WriteBlocks
  <2>4. Block(s, F, Plain) /\ Block(l, F, Plain)
    BY <2>1, <2>2, BaseAccess
  <2>5. Block(o \o s \o l \o w, F, Plain)
    BY <2>3, <2>4, BlockConcat
  <2>6. Block(o \o s \o l \o w, F, Blockwise)
    BY <2>5, BlockWider DEF Blockwise
  <2> QED BY <2>2, <2>6 DEF H
<1> SUFFICES ASSUME NEW c \in GenFpBranch(F) PROVE Block(c, F, Blockwise)
  OBVIOUS
<1>6. GenFpBranch(F) = UNION {Then(head, {Wide(Branch(2 + Len(path))) \o path}) :
                              path \in Bodies(GenWrongPathOp(F), 3, PATH)}
  BY DEF GenFpBranch
<1> HIDE DEF head
<1>2. PICK path \in Bodies(GenWrongPathOp(F), 3, PATH) :
             c \in Then(head, {Wide(Branch(2 + Len(path))) \o path})
  BY <1>6
<1>3. Block(path, F, Blockwise)
  BY PathBlocks
<1>4. Block(Wide(Branch(2 + Len(path))) \o path, F, Blockwise)
  <2>1. PICK h : h = Branch(2 + Len(path))
    OBVIOUS
  <2>2. Len(path) \in Nat
    BY <1>3, BlockStart
  <2>4. h \in Halfword /\ h.op = "branch" /\ h.rd = 0 /\ h.n = 2 + Len(path)
    BY <2>1, <2>2, JumpInstructions
  <2>3. h \in Halfword /\ h.op = "branch" /\ h.rd = 0 /\ h.n = 2 + Len(path) /\ Len(Wide(h)) = 2
    BY <2>4, HalfwordType
  <2> QED BY <1>3, <2>1, <2>3, OverBlocks
<1>5. \A d \in {Wide(Branch(2 + Len(path))) \o path} : Block(d, F, Blockwise)
  BY <1>4
<1> QED BY <1>1, <1>2, <1>5, ThenBlocks

\* A branch that waits for a load, and the jump behind its first path.
LEMMA LateBranchBlocks ==
  ASSUME NEW F \in SUBSET Int, BODY \in Nat, PATH \in Nat
  PROVE  \A c \in GenLateBranch(F) : Block(c, F, Blockwise)
<1> DEFINE H(val, bit, adds) == Wide(Load(val, gp, Words(-512, 511))) \o adds \o Wide(Write(bit))
           head == {H(val, bit, adds) : val \in F, bit \in F, adds \in {<<>>} \union GenAlu(F)}
           either(path, other) == Wide(Branch(4 + Len(path))) \o path
                                    \o Wide(Jal(0, 2 + Len(other))) \o other
           filler == Wide(Other)
<1>1. ASSUME NEW val \in F, NEW bit \in F, NEW adds \in {<<>>} \union GenAlu(F)
      PROVE  Block(H(val, bit, adds), F, Blockwise)
  <2>1. Fits(Words(-512, 511), BaseAt(gp)) /\ gp \in BASE_REGS /\ val \in F \union {0}
    BY WordsFit DEF BaseAt, gp, BASE_REGS
  <2>2. Block(Wide(Load(val, gp, Words(-512, 511))), F, Plain)
    BY <2>1, BaseAccess
  <2>3. Block(Wide(Write(bit)), F, Plain)
    BY WriteBlocks
  <2>4. Block(adds, F, Plain)
    BY BlockEmpty, SimpleBlocks
  <2>5. PICK l, w : l = Wide(Load(val, gp, Words(-512, 511))) /\ w = Wide(Write(bit))
    OBVIOUS
  <2>6. Block(l \o adds, F, Plain)
    BY <2>2, <2>4, <2>5, BlockConcat
  <2>7. Block(l \o adds \o w, F, Plain)
    BY <2>3, <2>5, <2>6, BlockConcat
  <2>8. Block(l \o adds \o w, F, Blockwise)
    BY <2>7, BlockWider DEF Blockwise
  <2> QED BY <2>5, <2>8
<1>2. ASSUME NEW path, NEW other, Block(path, F, Blockwise), Block(other, F, Blockwise)
      PROVE  Block(either(path, other), F, Blockwise)
  <2>1. PICK j, b, x, y : /\ j = Jal(0, 2 + Len(other)) /\ b = Branch(4 + Len(path))
                          /\ x = Wide(j) \o other /\ y = path \o x
    OBVIOUS
  <2>2. Len(path) \in Nat /\ Len(other) \in Nat
    BY <1>2, BlockStart
  <2>3. j \in Halfword /\ j.op = "jal" /\ j.rd = 0 /\ j.n = 2 + Len(other)
    BY <2>1, <2>2, JumpInstructions
  <2>4. b \in Halfword /\ b.op = "branch" /\ b.rd = 0 /\ b.n = 4 + Len(path)
    BY <2>1, <2>2, JumpInstructions
  <2>5. Len(Wide(j)) = 2 /\ Len(Wide(b)) = 2 /\ Wide(j) \in Seq(Halfword) /\ Wide(b) \in Seq(Halfword)
    BY <2>3, <2>4, HalfwordType
  <2>6. Block(x, F, Blockwise)
    BY <1>2, <2>1, <2>3, <2>5, OverBlocks
  <2>7. Block(y, F, Blockwise)
    BY <1>2, <2>1, <2>6, BlockConcat
  <2>8. Len(x) = 2 + Len(other) /\ Start(x, 3)
    <3>1. other \in Seq(Halfword)
      BY <1>2 DEF Block
    <3>2. PICK w : w = Wide(j)
      OBVIOUS
    <3>3. /\ Len(x) = 2 + Len(other)
          /\ \A k \in 1 .. Len(other) : x[2 + k] = other[k]
      <4>1. x = w \o other /\ w \in Seq(Halfword) /\ Len(w) = 2
        BY <2>1, <2>5, <3>2
      <4>2. /\ Len(w \o other) = Len(w) + Len(other)
            /\ \A k \in 1 .. Len(other) : (w \o other)[Len(w) + k] = other[k]
        <5>1. Len(w) \in Nat /\ Len(other) \in Nat /\ w \in Seq(Halfword) /\ other \in Seq(Halfword)
          BY <2>2, <3>1, <4>1
        <5> QED BY ONLY <5>1, ConcatProperties
      <4> QED BY <4>1, <4>2
    <3>4. Start(other, 1)
      BY <1>2, BlockStart
    <3>5. Len(other) # 0 => x[3] = other[1]
      <4>1. Len(other) # 0 => 1 \in 1 .. Len(other)
        BY <2>2
      <4> QED BY <3>3, <4>1
    <3> QED BY <2>2, <3>3, <3>4, <3>5 DEF Start
  <2>9. Len(y) = Len(path) + Len(x) /\ Start(y, Len(path) + 3)
    <3>1. 3 \in 1 .. Len(x) + 1
      BY <2>2, <2>8
    <3>2. Len(path \o x) = Len(path) + Len(x) /\ (Start(path \o x, Len(path) + 3) <=> Start(x, 3))
      BY <1>2, <2>6, <3>1, StartBehind
    <3> QED BY <2>1, <2>8, <3>2
  <2>10. Sound(b, F, Blockwise)
    BY <2>4 DEF Sound, Blockwise, Jumps, MemoryOps
  <2>11. Start(y, 1 + b.n - Len(Wide(b)))
    <3>1. 1 + b.n - Len(Wide(b)) = Len(path) + 3
      BY <2>2, <2>4, <2>5
    <3> QED BY <2>9, <3>1
  <2>12. b.op # "tail" /\ b.op # "trap" /\ Wide(b) \in {Wide(b), Short(b)}
    BY <2>4
  <2>13. Block(Wide(b) \o y, F, Blockwise)
    BY <2>4, <2>7, <2>10, <2>11, <2>12, BlockHead
  <2>14. Wide(b) \o path \o Wide(j) \o other = Wide(b) \o y
    <3>1. PICK v, w : v = Wide(b) /\ w = Wide(j)
      OBVIOUS
    <3>2. v \in Seq(Halfword) /\ w \in Seq(Halfword) /\ path \in Seq(Halfword) /\ other \in Seq(Halfword)
      BY <1>2, <2>5, <3>1 DEF Block
    <3>3. PICK a, z : a = v \o path /\ z = w \o other
      OBVIOUS
    <3>4. a \in Seq(Halfword) /\ z \in Seq(Halfword)
      BY ONLY <3>2, <3>3, ConcatProperties
    <3>5. (a \o w) \o other = a \o (w \o other)
      <4>1. a \in Seq(Halfword) /\ w \in Seq(Halfword) /\ other \in Seq(Halfword)
        BY <3>2, <3>4
      <4> QED BY ONLY <4>1, ConcatAssociative, SMT
    <3>6. (v \o path) \o z = v \o (path \o z)
      <4>1. v \in Seq(Halfword) /\ path \in Seq(Halfword) /\ z \in Seq(Halfword)
        BY <3>2, <3>4
      <4> QED BY ONLY <4>1, ConcatAssociative, SMT
    <3> QED BY ONLY <2>1, <3>1, <3>3, <3>5, <3>6, Zenon
  <2> QED BY <2>1, <2>13, <2>14, Zenon
<1> SUFFICES ASSUME NEW c \in GenLateBranch(F) PROVE Block(c, F, Blockwise)
  OBVIOUS
<1>3. GenLateBranch(F) =
        UNION {Then(head, {either(path, filler), either(filler, path)}) :
               path \in Bodies(GenWrongPathOp(F), 1, PATH)}
  BY DEF GenLateBranch
<1>4. Block(filler, F, Blockwise)
  <2>1. Block(filler, F, Plain)
    BY SimpleBlocks
  <2> QED BY <2>1, BlockWider DEF Blockwise
<1> HIDE DEF H, either, filler
<1>5. \A h \in head : Block(h, F, Blockwise)
  BY <1>1
<1> HIDE DEF head
<1>6. PICK path \in Bodies(GenWrongPathOp(F), 1, PATH) :
        c \in Then(head, {either(path, filler), either(filler, path)})
  BY <1>3
<1>7. Block(path, F, Blockwise)
  BY PathBlocks
<1>8. \A d \in {either(path, filler), either(filler, path)} : Block(d, F, Blockwise)
  BY <1>2, <1>4, <1>7
<1> QED BY <1>5, <1>6, <1>8, ThenBlocks

-----------------------------------------------------------------------------
(* What is known where.  At every instruction of a group the generator     *)
(* knows the content of one register, and whether an lr.w made a           *)
(* reservation; where it needs nothing it knows gp.                        *)

Register == FREE_REGS \union BASE_REGS \union {LOOP_REG}
Overwritten == FREE_REGS \union {LOOP_REG}

Fact(reg, vals, held) == [reg |-> reg, vals |-> vals, held |-> held]
NoFact == Fact(gp, {Data(2048)}, FALSE)
Free(f) == f.reg = gp /\ Data(2048) \in f.vals /\ ~f.held

\* The instruction behind the one at k.
Following(g, k) == IF Start(g, k + 1) THEN k + 1 ELSE k + 2

\* The register and its content outlive i.
Keeps(i, f, h) == h.reg = f.reg /\ f.vals \subseteq h.vals /\ i.rd # f.reg

\* The content that i, at k of g, leaves in its destination.
Makes(g, i, k, f, h) ==
  /\ h.reg = i.rd /\ i.rd # 0
  /\ \/ i.op = "addi" /\ i.rs = f.reg /\ \A v \in f.vals : Plus(v, i.n) \in h.vals
     \/ i.op = "andi" /\ Num(0) \in h.vals /\ Num(i.n) \in h.vals
     \/ /\ i.op = "addgp" /\ i.rs = f.reg
        /\ \A v \in f.vals : v.base = "num" /\ Data(2048 + v.n) \in h.vals
     \/ i.op = "lacode" /\ Code(k + i.n) \in h.vals
     \/ i.op \in {"jal", "jalr"} /\ Code(Following(g, k)) \in h.vals

\* f before i, at k of g, gives h behind it.
Gives(g, i, k, f, h) ==
  \/ Free(h)
  \/ /\ Keeps(i, f, h) \/ Makes(g, i, k, f, h)
     /\ h.held => (f.held /\ i.op \notin MemoryOps) \/ (i.op = "lr" /\ ~i.faults)

\* The base or the pointer that i accesses memory by.
Points(i, f) ==
  \/ i.rs \in BASE_REGS /\ Reaches(i, BaseAt(i.rs))
  \/ i.rs = f.reg /\ \A v \in f.vals : v.base = "data" /\ Reaches(i, v.n)

\* Where the instruction at k of g may go.
Proper(g, K, k, i) ==
  /\ i.rd \in Overwritten \union {0}
  /\ \/ /\ i.op \in {"write", "set", "lacode", "addi", "andi", "addgp", "other"}
        /\ Gives(g, i, k, K[k], K[Following(g, k)])
     \/ /\ i.op \in MemoryOps /\ Points(i, K[k]) /\ (i.op = "sc" => K[k].held)
        /\ Gives(g, i, k, K[k], K[Following(g, k)])
     \/ /\ i.op = "trap" /\ (i.n = 3 <=> ~Start(g, k + 1))
        /\ Gives(g, i, k, K[k], K[Following(g, k)])
     \/ /\ i.op \in {"branch", "bnez"} /\ Start(g, k + i.n)
        /\ Gives(g, i, k, K[k], K[Following(g, k)]) /\ Gives(g, i, k, K[k], K[k + i.n])
     \/ i.op = "jal" /\ Start(g, k + i.n) /\ Gives(g, i, k, K[k], K[k + i.n])
     \/ /\ i.op = "jalr" /\ i.rs = K[k].reg
        /\ \E t \in Int : /\ Start(g, t) /\ K[k].vals \subseteq {Code(t)}
                          /\ Gives(g, i, k, K[k], K[t])
                          /\ i.rd = 0 => \E m \in DOMAIN g : /\ g[m].op \in {"jal", "jalr"}
                                                             /\ g[m].rd = 1 /\ g[m] # SecondHalf
                                                             /\ t = Following(g, m)

Annotated(g, K) ==
  /\ g \in Seq(Halfword) /\ Free(K[1])
  /\ \A k \in 1 .. Len(g) : g[k] = SecondHalf => k > 1 /\ Start(g, k + 1)
  /\ \A k \in 1 .. Len(g) : g[k] # SecondHalf => Proper(g, K, k, g[k])

\* What follows an instruction, and that the hart goes there.
LEMMA FollowingStarts ==
  ASSUME NEW g \in Seq(Halfword), NEW k \in 1 .. Len(g), g[k] # SecondHalf,
         \A m \in 1 .. Len(g) : g[m] = SecondHalf => m > 1 /\ Start(g, m + 1)
  PROVE  /\ Start(g, Following(g, k)) /\ Following(g, k) \in {k + 1, k + 2}
         /\ Following(g, k) \in 1 .. Len(g) + 1
         /\ Following(g, k) = k + 2 <=> ~Start(g, k + 1)
         /\ group = g => After(k) = Following(g, k)
<1>1. Len(g) \in Nat
  OBVIOUS
<1>2. Start(g, k + 1) \/ (k + 1 \in 1 .. Len(g) /\ g[k + 1] = SecondHalf)
  BY <1>1 DEF Start
<1>3. Following(g, k) \in {k + 1, k + 2} /\ (Following(g, k) = k + 2 <=> ~Start(g, k + 1))
  BY <1>1 DEF Following
<1>4. Start(g, Following(g, k))
  BY <1>2 DEF Following
<1>5. group = g => After(k) = Following(g, k)
  BY <1>1, <1>2 DEF After, Following, Start
<1> QED BY <1>3, <1>4, <1>5 DEF Start

\* The bases are known everywhere.
LEMMA NoFactFree == Free(NoFact)
BY DEF NoFact, Fact, Free

\* Nothing has to be known in a block.
LEMMA BlockAnnotated ==
  ASSUME NEW g, Block(g, Overwritten, Blockwise)
  PROVE  \E K : Annotated(g, K)
<1> DEFINE K == [k \in 1 .. Len(g) + 1 |-> NoFact]
<1>1. /\ g \in Seq(Halfword) /\ Len(g) \in Nat
      /\ \A k \in 1 .. Len(g) : g[k] = SecondHalf => k > 1 /\ Start(g, k + 1)
  BY BlockStart DEF Block
<1>2. \A k \in 1 .. Len(g) + 1 : Free(K[k])
  BY NoFactFree
<1>3. ASSUME NEW k \in 1 .. Len(g), g[k] # SecondHalf PROVE Proper(g, K, k, g[k])
  <2>1. PICK i : i = g[k]
    OBVIOUS
  <2>2. /\ Sound(i, Overwritten, Blockwise)
        /\ i.op \in Jumps => Start(g, k + i.n)
        /\ i.op = "trap" => (i.n = 3 <=> ~Start(g, k + 1))
    BY <1>3, <2>1 DEF Block
  <2>3. Following(g, k) \in 1 .. Len(g) + 1
    BY <1>1, <1>3, FollowingStarts
  <2>4. Gives(g, i, k, K[k], K[Following(g, k)])
    BY <1>2, <2>3 DEF Gives
  <2>5. i.op \in Jumps => Gives(g, i, k, K[k], K[k + i.n])
    BY <1>2, <2>2 DEF Gives, Start
  <2> HIDE DEF K
  <2>6. i.op \in Blockwise /\ i.rd \in Overwritten \union {0}
    BY <2>2 DEF Sound
  <2>7. i.op \in MemoryOps => Points(i, K[k]) /\ i.op # "sc"
    BY <2>2 DEF Sound, Points, Blockwise, Plain, Jumps
  <2>8. CASE i.op \in {"trap", "branch", "bnez"}
    BY <2>1, <2>2, <2>4, <2>5, <2>6, <2>8 DEF Proper, Jumps
  <2>9. CASE i.op \in {"write", "other", "set", "addi"}
    BY <2>1, <2>4, <2>6, <2>9 DEF Proper
  <2>10. CASE i.op \in {"load", "store"}
    BY <2>1, <2>4, <2>6, <2>7, <2>10 DEF Proper, MemoryOps
  <2>11. CASE i.op = "jal"
    BY <2>1, <2>2, <2>5, <2>6, <2>11 DEF Proper, Jumps
  <2> QED BY <2>6, <2>8, <2>9, <2>10, <2>11 DEF Blockwise, Plain, Jumps
<1> QED BY <1>1, <1>2, <1>3 DEF Annotated

-----------------------------------------------------------------------------
(* Straight code of 32-bit instructions.                                   *)

\* g is the instructions of s, each of two halfwords.
Linear(g, s) ==
  /\ g \in Seq(Halfword) /\ s \in Seq(Halfword) /\ Len(g) = 2 * Len(s)
  /\ \A m \in 1 .. Len(s) : g[2 * m - 1] = s[m] /\ g[2 * m] = SecondHalf

\* One instruction is straight code,
LEMMA LinearOne == \A i \in Halfword : Linear(Wide(i), <<i>>)
<1> SUFFICES ASSUME NEW i \in Halfword PROVE Linear(Wide(i), <<i>>)
  OBVIOUS
<1>1. /\ Wide(i) \in Seq(Halfword) /\ Len(Wide(i)) = 2
      /\ Wide(i)[1] = i /\ Wide(i)[2] = SecondHalf
  BY HalfwordType
<1>2. PICK g, s : g = Wide(i) /\ s = <<i>>
  OBVIOUS
<1>3. /\ g \in Seq(Halfword) /\ Len(g) = 2 /\ g[1] = i /\ g[2] = SecondHalf
      /\ s \in Seq(Halfword) /\ Len(s) = 1 /\ s[1] = i
  BY <1>1, <1>2
<1>4. \A m \in 1 .. Len(s) : g[2 * m - 1] = s[m] /\ g[2 * m] = SecondHalf
  <2>1. \A m \in 1 .. 1 : m = 1
    OBVIOUS
  <2> QED BY <1>3, <2>1
<1>5. Linear(g, s)
  BY <1>3, <1>4 DEF Linear
<1> QED BY <1>2, <1>5

\* and so is straight code behind straight code.
LEMMA LinearConcat ==
  ASSUME NEW g, NEW s, NEW h, NEW t, Linear(g, s), Linear(h, t)
  PROVE  Linear(g \o h, s \o t)
<1>1. /\ g \in Seq(Halfword) /\ s \in Seq(Halfword) /\ h \in Seq(Halfword) /\ t \in Seq(Halfword)
      /\ Len(g) \in Nat /\ Len(s) \in Nat /\ Len(h) \in Nat /\ Len(t) \in Nat
      /\ Len(g) = 2 * Len(s) /\ Len(h) = 2 * Len(t)
  BY DEF Linear
<1>2. PICK c, u : c = g \o h /\ u = s \o t
  OBVIOUS
<1>3. /\ c \in Seq(Halfword) /\ Len(c) = Len(g) + Len(h)
      /\ \A k \in 1 .. Len(g) : c[k] = g[k]
      /\ \A k \in 1 .. Len(h) : c[Len(g) + k] = h[k]
  <2>1. /\ g \o h \in Seq(Halfword) /\ Len(g \o h) = Len(g) + Len(h)
        /\ \A k \in 1 .. Len(g) : (g \o h)[k] = g[k]
        /\ \A k \in 1 .. Len(h) : (g \o h)[Len(g) + k] = h[k]
    <3>1. g \in Seq(Halfword) /\ h \in Seq(Halfword)
      BY <1>1
    <3> QED BY ONLY <3>1, Joined
  <2> QED BY <1>2, <2>1
<1>4. /\ u \in Seq(Halfword) /\ Len(u) = Len(s) + Len(t)
      /\ \A k \in 1 .. Len(s) : u[k] = s[k]
      /\ \A k \in 1 .. Len(t) : u[Len(s) + k] = t[k]
  <2>1. /\ s \o t \in Seq(Halfword) /\ Len(s \o t) = Len(s) + Len(t)
        /\ \A k \in 1 .. Len(s) : (s \o t)[k] = s[k]
        /\ \A k \in 1 .. Len(t) : (s \o t)[Len(s) + k] = t[k]
    BY <1>1, Joined
  <2> QED BY <1>2, <2>1
<1>5. ASSUME NEW m \in 1 .. Len(u) PROVE c[2 * m - 1] = u[m] /\ c[2 * m] = SecondHalf
  <2>1. CASE m <= Len(s)
    <3>1. m \in 1 .. Len(s) /\ 2 * m - 1 \in 1 .. Len(g) /\ 2 * m \in 1 .. Len(g)
      BY <1>1, <2>1
    <3>2. g[2 * m - 1] = s[m] /\ g[2 * m] = SecondHalf
      BY <3>1 DEF Linear
    <3> QED BY <1>3, <1>4, <3>1, <3>2
  <2>2. CASE m > Len(s)
    <3>1. PICK j \in 1 .. Len(t) : m = Len(s) + j
      <4>1. m - Len(s) \in 1 .. Len(t) /\ m = Len(s) + (m - Len(s))
        BY <1>1, <1>4, <2>2
      <4> QED BY <4>1
    <3>2. /\ 2 * j - 1 \in 1 .. Len(h) /\ 2 * j \in 1 .. Len(h)
          /\ 2 * m - 1 = Len(g) + (2 * j - 1) /\ 2 * m = Len(g) + 2 * j
      BY <1>1, <3>1
    <3>3. h[2 * j - 1] = t[j] /\ h[2 * j] = SecondHalf
      BY DEF Linear
    <3>4. c[Len(g) + (2 * j - 1)] = h[2 * j - 1] /\ c[Len(g) + 2 * j] = h[2 * j]
      BY <1>3, <3>2
    <3>5. u[m] = t[j]
      BY <1>4, <3>1
    <3> QED BY <3>2, <3>3, <3>4, <3>5
  <2> QED BY <1>1, <1>4, <2>1, <2>2
<1>6. Len(c) = 2 * Len(u)
  BY <1>1, <1>3, <1>4
<1>7. Linear(c, u)
  BY <1>3, <1>4, <1>5, <1>6 DEF Linear
<1> QED BY <1>2, <1>7

\* f before i and h behind it, where i jumps nowhere.
Passes(g, i, k, f, h) ==
  /\ i.rd \in Overwritten \union {0}
  /\ i.op \in {"write", "addi", "andi", "addgp"} \union MemoryOps
  /\ i.op \in MemoryOps => Points(i, f)
  /\ i.op = "sc" => f.held
  /\ Gives(g, i, k, f, h)

\* A fact for each instruction annotates straight code.
LEMMA LinearAnnotated ==
  ASSUME NEW g, NEW s, Linear(g, s), NEW L, Free(L[1]),
         \A m \in 1 .. Len(s) : Passes(g, s[m], 2 * m - 1, L[m], L[m + 1])
  PROVE  \E K : Annotated(g, K)
<1> DEFINE n == Len(s)
           K == [k \in 1 .. 2 * n + 1 |-> IF k % 2 = 1 THEN L[(k + 1) \div 2] ELSE NoFact]
<1>1. /\ g \in Seq(Halfword) /\ n \in Nat /\ Len(g) = 2 * n
      /\ \A m \in 1 .. n : g[2 * m - 1] = s[m] /\ g[2 * m] = SecondHalf
  BY DEF Linear
<1>2. \A m \in 1 .. n + 1 : K[2 * m - 1] = L[m]
  <2> SUFFICES ASSUME NEW m \in 1 .. n + 1 PROVE K[2 * m - 1] = L[m]
    OBVIOUS
  <2>1. /\ 2 * m - 1 \in 1 .. 2 * n + 1 /\ (2 * m - 1) % 2 = 1
        /\ ((2 * m - 1) + 1) \div 2 = m
    BY <1>1
  <2> QED BY <2>1
<1>3. K[1] = L[1]
  <2>1. 1 \in 1 .. n + 1 /\ 2 * 1 - 1 = 1
    BY <1>1
  <2>2. K[2 * 1 - 1] = L[1]
    BY <1>2, <2>1
  <2> QED BY <2>1, <2>2
<1> HIDE DEF n, K
<1>4. SecondHalf.op = "tail"
  BY DEF SecondHalf, Instr
<1>5. \A m \in 1 .. n : s[m] # SecondHalf
  <2> SUFFICES ASSUME NEW m \in 1 .. n PROVE s[m] # SecondHalf
    OBVIOUS
  <2>1. Passes(g, s[m], 2 * m - 1, L[m], L[m + 1])
    BY DEF n
  <2> QED BY <1>4, <2>1 DEF Passes, MemoryOps
<1>6. \A m \in 1 .. n + 1 : Start(g, 2 * m - 1)
  <2> SUFFICES ASSUME NEW m \in 1 .. n + 1 PROVE Start(g, 2 * m - 1)
    OBVIOUS
  <2>1. 2 * m - 1 \in 1 .. 2 * n + 1
    BY <1>1
  <2>2. CASE m = n + 1
    BY <1>1, <2>1, <2>2 DEF Start
  <2>3. CASE m \in 1 .. n
    BY <1>1, <1>5, <2>1, <2>3 DEF Start
  <2> QED BY <1>1, <2>2, <2>3
<1>7. \A k \in 1 .. Len(g) : \E m \in 1 .. n : k = 2 * m - 1 \/ k = 2 * m
  <2> SUFFICES ASSUME NEW k \in 1 .. Len(g) PROVE \E m \in 1 .. n : k = 2 * m - 1 \/ k = 2 * m
    OBVIOUS
  <2>1. (k + 1) \div 2 \in 1 .. n /\ (k = 2 * ((k + 1) \div 2) - 1 \/ k = 2 * ((k + 1) \div 2))
    BY <1>1
  <2> QED BY <2>1
<1>8. ASSUME NEW k \in 1 .. Len(g)
      PROVE  /\ g[k] = SecondHalf => k > 1 /\ Start(g, k + 1)
             /\ g[k] # SecondHalf => Proper(g, K, k, g[k])
  <2>1. PICK m \in 1 .. n : k = 2 * m - 1 \/ k = 2 * m
    BY <1>7
  <2>2. CASE k = 2 * m
    <3>1. m + 1 \in 1 .. n + 1 /\ 2 * (m + 1) - 1 = k + 1 /\ k > 1
      BY <1>1, <2>2
    <3>2. Start(g, 2 * (m + 1) - 1)
      BY <1>6, <3>1
    <3> QED BY <1>1, <2>2, <3>1, <3>2
  <2>3. CASE k = 2 * m - 1
    <3>1. g[k] = s[m] /\ s[m] # SecondHalf /\ g[k + 1] = SecondHalf /\ k + 1 = 2 * m
      BY <1>1, <1>5, <2>3
    <3>2. Following(g, k) = 2 * (m + 1) - 1
      <4>1. ~Start(g, k + 1)
        BY <1>1, <2>3, <3>1 DEF Start
      <4> QED BY <1>1, <2>3, <4>1 DEF Following
    <3>3. K[Following(g, k)] = L[m + 1] /\ K[k] = L[m]
      <4>1. m + 1 \in 1 .. n + 1 /\ m \in 1 .. n + 1
        BY <1>1
      <4> QED BY <1>2, <2>3, <3>2, <4>1
    <3>4. Passes(g, s[m], 2 * m - 1, L[m], L[m + 1])
      BY DEF n
    <3>5. Passes(g, g[k], k, K[k], K[Following(g, k)])
      BY <2>3, <3>1, <3>3, <3>4, Zenon
    <3> QED BY <3>1, <3>5 DEF Proper, Passes
  <2> QED BY <2>1, <2>2, <2>3
<1>9. Annotated(g, K)
  BY <1>1, <1>3, <1>8 DEF Annotated
<1> QED BY <1>9

\* A fact about a register that holds a pointer.
Pointer(f, reg, n) == f.reg = reg /\ Data(n) \in f.vals /\ \A v \in f.vals : v = Data(n)

\* Facts of that kind, with a reservation and without.
LEMMA PointerExists ==
  ASSUME NEW reg, NEW n
  PROVE  /\ \E f : Pointer(f, reg, n) /\ ~f.held
         /\ \E f : Pointer(f, reg, n) /\ f.held
<1>1. PICK S : S = {Data(n)}
  OBVIOUS
<1>2. PICK f, h : /\ f = [reg |-> reg, vals |-> S, held |-> FALSE]
                  /\ h = [reg |-> reg, vals |-> S, held |-> TRUE]
  OBVIOUS
<1>3. f.reg = reg /\ f.vals = S /\ ~f.held /\ h.reg = reg /\ h.vals = S /\ h.held
  BY <1>2
<1> QED BY <1>1, <1>3 DEF Pointer

\* A pointer: gp and an offset.
LEMMA PointerPasses ==
  ASSUME NEW g, NEW k, NEW addr \in FREE_REGS, NEW off \in Int, NEW h,
         NEW p \in Int, p = 2048 + off, Pointer(h, addr, p), ~h.held
  PROVE  /\ Addi(addr, gp, off) \in Halfword
         /\ Passes(g, Addi(addr, gp, off), k, NoFact, h)
<1>1. PICK i : i = Addi(addr, gp, off)
  OBVIOUS
<1>2. addr \in Int /\ gp \in Int /\ addr # 0 /\ addr \in Overwritten
  BY FreeAssumption DEF gp, Overwritten
<1>3. i \in Halfword /\ i.op = "addi" /\ i.rd = addr /\ i.rs = gp /\ i.n = off
  <2>1. /\ Addi(addr, gp, off) \in Halfword /\ Addi(addr, gp, off).op = "addi"
        /\ Addi(addr, gp, off).rd = addr /\ Addi(addr, gp, off).rs = gp /\ Addi(addr, gp, off).n = off
    BY <1>2, Instructions
  <2> QED BY <1>1, <2>1
<1>4. NoFact.reg = gp /\ \A v \in NoFact.vals : Plus(v, off) = Data(2048 + off)
  BY DEF NoFact, Fact, Plus, Data, Content
<1>5. Makes(g, i, k, NoFact, h) /\ ~h.held
  BY <1>2, <1>3, <1>4 DEF Makes, Pointer
<1>6. Passes(g, i, k, NoFact, h)
  BY <1>2, <1>3, <1>5 DEF Passes, Gives, MemoryOps
<1> QED BY <1>1, <1>3, <1>6

\* An access by a pointer that reaches no further than the words it may.
LEMMA AccessPasses ==
  ASSUME NEW g, NEW k, NEW f, NEW h, NEW op \in {"load", "amo", "lr", "sc"},
         NEW rd \in FREE_REGS, NEW rs \in FREE_REGS, NEW at \in SUBSET (Int \X Int), NEW faults \in BOOLEAN, NEW i,
         i = [op |-> op, rd |-> rd, rs |-> rs, n |-> 0, at |-> at, faults |-> faults],
         f.reg = rs, \A v \in f.vals : v.base = "data" /\ Reaches(i, v.n),
         op = "sc" => f.held,
         Free(h) \/ (op = "lr" /\ ~faults /\ h.reg = rs /\ f.vals \subseteq h.vals /\ rd # rs)
  PROVE  i \in Halfword /\ Passes(g, i, k, f, h)
<1>1. rd \in Int /\ rs \in Int /\ rd \in Overwritten
  BY FreeAssumption DEF Overwritten
<1>2. i \in Halfword
  BY <1>1 DEF Halfword, Op
<1>3. i.op = op /\ i.rd = rd /\ i.rs = rs /\ i.faults = faults
  OBVIOUS
<1>4. Points(i, f)
  BY <1>3 DEF Points
<1>5. Gives(g, i, k, f, h)
  <2>1. CASE Free(h)
    BY <2>1 DEF Gives
  <2>2. CASE op = "lr" /\ ~faults /\ h.reg = rs /\ f.vals \subseteq h.vals /\ rd # rs
    BY <1>3, <2>2 DEF Gives, Keeps
  <2> QED BY <2>1, <2>2
<1> QED BY <1>1, <1>2, <1>3, <1>4, <1>5 DEF Passes, MemoryOps

\* The access to the word at p itself.
LEMMA WordReaches ==
  ASSUME NEW i, i.at = Word, NEW p \in Int, IF i.faults THEN p % 4 # 0 ELSE Allowed(p, 4)
  PROVE  Reaches(i, p)
<1>1. \A a \in i.at : a[1] = 0 /\ a[2] = 4
  BY DEF Word
<1>2. p + 0 = p
  OBVIOUS
<1> QED BY <1>1, <1>2 DEF Reaches

\* An AMO at a misaligned pointer.
LEMMA PointedTrapsAnnotated ==
  ASSUME NEW c \in PointedTraps(FREE_REGS)
  PROVE  \E K : Annotated(c, K)
<1>1. PICK addr \in FREE_REGS, rd \in FREE_REGS, off \in Halfway :
        c = Wide(Addi(addr, gp, off)) \o Wide(Misaligned(Access("amo", rd, addr, Word)))
  BY DEF PointedTraps
<1>2. off \in Int /\ (2048 + off) % 4 # 0
  <2>1. PICK n \in {-16, 15} : off = 4 * n + 2
    BY DEF Halfway, Draw
  <2> QED BY <2>1
<1>3. PICK a, m : a = Addi(addr, gp, off) /\ m = Misaligned(Access("amo", rd, addr, Word))
  OBVIOUS
<1>4. m = [op |-> "amo", rd |-> rd, rs |-> addr, n |-> 0, at |-> Word, faults |-> TRUE]
  BY <1>3, MisalignedInstructions
<1>5. PICK q \in Int : q = 2048 + off /\ q % 4 # 0
  BY <1>2
<1>6. PICK p : Pointer(p, addr, q) /\ ~p.held
  BY PointerExists
<1>7. m.at = Word /\ m.faults = TRUE /\ Data(q).base = "data" /\ Data(q).n = q
  BY <1>4 DEF Data, Content
<1>8. Reaches(m, q)
  <2>1. IF m.faults THEN q % 4 # 0 ELSE Allowed(q, 4)
    BY <1>5, <1>7
  <2> QED BY <1>7, <2>1, WordReaches
<1>9. a \in Halfword /\ \A g, k : Passes(g, a, k, NoFact, p)
  <2>1. \A g, k : /\ Addi(addr, gp, off) \in Halfword
                  /\ Passes(g, Addi(addr, gp, off), k, NoFact, p)
    <3> SUFFICES ASSUME NEW g, NEW k
                 PROVE  /\ Addi(addr, gp, off) \in Halfword
                        /\ Passes(g, Addi(addr, gp, off), k, NoFact, p)
      OBVIOUS
    <3>1. addr \in FREE_REGS /\ off \in Int /\ q \in Int /\ q = 2048 + off /\ Pointer(p, addr, q) /\ ~p.held
      BY <1>2, <1>5, <1>6
    <3> QED BY ONLY <3>1, PointerPasses
  <2> QED BY <1>3, <2>1
<1>10. m \in Halfword /\ \A g, k : Passes(g, m, k, p, NoFact)
  <2>1. Word \in SUBSET (Int \X Int)
    BY DEF Word
  <2>2. p.reg = addr /\ \A v \in p.vals : v.base = "data" /\ Reaches(m, v.n)
    BY <1>6, <1>7, <1>8 DEF Pointer
  <2>3. ASSUME NEW g, NEW k PROVE m \in Halfword /\ Passes(g, m, k, p, NoFact)
    <3>1. /\ "amo" \in {"load", "amo", "lr", "sc"} /\ rd \in FREE_REGS /\ addr \in FREE_REGS
          /\ TRUE \in BOOLEAN /\ "amo" # "sc" /\ Free(NoFact)
          /\ m = [op |-> "amo", rd |-> rd, rs |-> addr, n |-> 0, at |-> Word, faults |-> TRUE]
      BY <1>4, NoFactFree
    <3> QED BY ONLY <2>1, <2>2, <3>1, AccessPasses
  <2> QED BY <2>3
<1> DEFINE s == <<a>> \o <<m>>
           L == <<NoFact, p, NoFact>>
<1>11. Linear(c, s)
  BY <1>1, <1>3, <1>9, <1>10, LinearOne, LinearConcat
<1>12. Len(s) = 2 /\ s[1] = a /\ s[2] = m
  OBVIOUS
<1>13. \A j \in 1 .. Len(s) : Passes(c, s[j], 2 * j - 1, L[j], L[j + 1])
  BY <1>9, <1>10, <1>12
<1>14. Free(L[1])
  BY NoFactFree
<1> HIDE DEF s, L
<1> QED BY <1>11, <1>13, <1>14, LinearAnnotated

\* What follows the pointer of an atomic group.
ScTail(addr, e) ==
  \/ \E rd2 \in FREE_REGS : e = Wide(Access("sc", rd2, addr, Word))
  \/ \E other \in FREE_REGS, rd2 \in FREE_REGS :
        e = Wide(Addi(other, addr, 4)) \o Wide(Access("sc", rd2, other, Word))
AtomicTail(addr, d) ==
  \/ \E rd \in FREE_REGS : d = Wide(Access("amo", rd, addr, Word))
  \/ \E rd \in FREE_REGS : \E e :
        rd # addr /\ d = Wide(Access("lr", rd, addr, Word)) \o e /\ ScTail(addr, e)

\* The shapes of an atomic group.
LEMMA AtomicCases ==
  ASSUME NEW c \in GenAtomic(FREE_REGS)
  PROVE  \E addr \in FREE_REGS, off \in {-64, 60} : \E d :
           c = Wide(Addi(addr, gp, off)) \o d /\ AtomicTail(addr, d)
<1> DEFINE pointer(addr) == {Wide(Addi(addr, gp, off)) : off \in {4 * n : n \in Draw(-16, 16)}}
           amo(addr) == {Wide(Access("amo", rd, addr, Word)) : rd \in Destinations(FREE_REGS, {addr})}
           sc(addr) == {Wide(Access("sc", rd2, addr, Word)) : rd2 \in FREE_REGS}
           apart(addr, rd) == UNION {Then({Wide(Addi(other, addr, 4))}, sc(other)) :
                                     other \in Destinations(FREE_REGS, {addr, rd})}
           pair(addr) == UNION {Then({Wide(Access("lr", rd, addr, Word))}, sc(addr) \union apart(addr, rd)) :
                                rd \in Destinations(FREE_REGS, {addr})}
<1>1. GenAtomic(FREE_REGS) = UNION {Then(pointer(addr), amo(addr) \union pair(addr)) : addr \in FREE_REGS}
  BY DEF GenAtomic, Word
<1> HIDE DEF pointer, amo, pair
<1>2. PICK addr \in FREE_REGS : c \in Then(pointer(addr), amo(addr) \union pair(addr))
  BY <1>1
<1>3. PICK p \in pointer(addr), d \in amo(addr) \union pair(addr) : c = p \o d
  BY <1>2 DEF Then
<1>4. PICK off \in {-64, 60} : p = Wide(Addi(addr, gp, off))
  BY DEF pointer, Draw
<1>5. CASE d \in amo(addr)
  <2>1. PICK rd \in FREE_REGS : d = Wide(Access("amo", rd, addr, Word))
    BY <1>5 DEF amo, Destinations
  <2>2. AtomicTail(addr, d)
    BY <2>1 DEF AtomicTail
  <2> QED BY <1>3, <1>4, <2>2
<1>6. CASE d \in pair(addr)
  <2> HIDE DEF sc, apart
  <2>1. PICK rd \in Destinations(FREE_REGS, {addr}) :
          d \in Then({Wide(Access("lr", rd, addr, Word))}, sc(addr) \union apart(addr, rd))
    BY <1>6 DEF pair
  <2>2. PICK e \in sc(addr) \union apart(addr, rd) : d = Wide(Access("lr", rd, addr, Word)) \o e
    BY <2>1 DEF Then
  <2>3. rd \in FREE_REGS /\ rd # addr
    BY DEF Destinations
  <2>4. CASE e \in sc(addr)
    <3>1. PICK rd2 \in FREE_REGS : e = Wide(Access("sc", rd2, addr, Word))
      BY <2>4 DEF sc
    <3>2. ScTail(addr, e)
      BY <3>1 DEF ScTail
    <3>3. AtomicTail(addr, d)
      BY <2>2, <2>3, <3>2 DEF AtomicTail
    <3> QED BY <1>3, <1>4, <3>3
  <2>5. CASE e \in apart(addr, rd)
    <3>1. PICK other \in Destinations(FREE_REGS, {addr, rd}) :
            e \in Then({Wide(Addi(other, addr, 4))}, sc(other))
      BY <2>5 DEF apart
    <3>2. PICK q \in sc(other) : e = Wide(Addi(other, addr, 4)) \o q
      BY <3>1 DEF Then
    <3>3. PICK rd2 \in FREE_REGS : q = Wide(Access("sc", rd2, other, Word))
      BY DEF sc
    <3>4. other \in FREE_REGS
      BY DEF Destinations
    <3>5. ScTail(addr, e)
      BY <3>2, <3>3, <3>4 DEF ScTail
    <3>6. AtomicTail(addr, d)
      BY <2>2, <2>3, <3>5 DEF AtomicTail
    <3> QED BY <1>3, <1>4, <3>6
  <2> QED BY <2>4, <2>5
<1> QED BY <1>5, <1>6

\* An instruction that is not misaligned and accesses the word at a pointer.
LEMMA WordPasses ==
  ASSUME NEW op \in {"amo", "lr", "sc"}, NEW rd \in FREE_REGS, NEW rs \in FREE_REGS,
         NEW q \in Int, Allowed(q, 4), NEW f, Pointer(f, rs, q), op = "sc" => f.held, NEW i,
         i = Access(op, rd, rs, Word), NEW g, NEW k, NEW h,
         Free(h) \/ (op = "lr" /\ Pointer(h, rs, q) /\ rd # rs)
  PROVE  i \in Halfword /\ Passes(g, i, k, f, h)
<1>1. i = [op |-> op, rd |-> rd, rs |-> rs, n |-> 0, at |-> Word, faults |-> FALSE]
  BY MemoryInstructions
<1>2. i.at = Word /\ ~i.faults /\ Data(q).base = "data" /\ Data(q).n = q
  BY <1>1 DEF Data, Content
<1>3. Reaches(i, q)
  BY <1>2, WordReaches
<1>4. f.reg = rs /\ \A v \in f.vals : v.base = "data" /\ Reaches(i, v.n)
  BY <1>2, <1>3 DEF Pointer
<1>5. Word \in SUBSET (Int \X Int)
  BY DEF Word
<1>6. PICK b \in BOOLEAN : ~b /\ i = [op |-> op, rd |-> rd, rs |-> rs, n |-> 0, at |-> Word, faults |-> b]
  BY <1>1
<1>7. Free(h) \/ (op = "lr" /\ ~b /\ h.reg = rs /\ f.vals \subseteq h.vals /\ rd # rs)
  BY <1>6 DEF Pointer
<1> QED BY <1>4, <1>5, <1>6, <1>7, AccessPasses

\* The address behind a pointer.
LEMMA NextWordPasses ==
  ASSUME NEW g, NEW k, NEW addr \in FREE_REGS, NEW other \in FREE_REGS, NEW q \in Int, NEW q4 \in Int,
         q4 = q + 4, NEW f, Pointer(f, addr, q), f.held, NEW h, Pointer(h, other, q4)
  PROVE  /\ Addi(other, addr, 4) \in Halfword /\ Passes(g, Addi(other, addr, 4), k, f, h)
<1>1. PICK i : i = Addi(other, addr, 4)
  OBVIOUS
<1>2. addr \in Int /\ other \in Int /\ other # 0 /\ other \in Overwritten
  BY FreeAssumption DEF Overwritten
<1>3. i \in Halfword /\ i.op = "addi" /\ i.rd = other /\ i.rs = addr /\ i.n = 4
  <2>1. /\ Addi(other, addr, 4) \in Halfword /\ Addi(other, addr, 4).op = "addi"
        /\ Addi(other, addr, 4).rd = other /\ Addi(other, addr, 4).rs = addr /\ Addi(other, addr, 4).n = 4
    BY <1>2, Instructions
  <2> QED BY <1>1, <2>1
<1>4. Plus(Data(q), 4) = Data(q4)
  BY DEF Plus, Data, Content
<1>5. Makes(g, i, k, f, h)
  BY <1>2, <1>3, <1>4 DEF Makes, Pointer
<1>6. Passes(g, i, k, f, h)
  BY <1>2, <1>3, <1>5 DEF Passes, Gives, MemoryOps
<1> QED BY <1>1, <1>3, <1>6

\* The pointer lives until the AMO or the sc.w, and so does the reservation.
LEMMA AtomicAnnotated ==
  ASSUME NEW c \in GenAtomic(FREE_REGS)
  PROVE  \E K : Annotated(c, K)
<1>0. PICK addr \in FREE_REGS, o \in {-64, 60} :
           \E d : c = Wide(Addi(addr, gp, o)) \o d /\ AtomicTail(addr, d)
  BY AtomicCases
<1>1. PICK d : c = Wide(Addi(addr, gp, o)) \o d /\ AtomicTail(addr, d)
  BY <1>0
<1>2. PICK off \in Int, q \in Int, q4 \in Int :
        /\ off = o /\ q = 2048 + off /\ q4 = q + 4
        /\ Allowed(q, 4) /\ Allowed(q4, 4)
  BY DEF Allowed, DATA_WORDS
<1>3. PICK a : a = Addi(addr, gp, off)
  OBVIOUS
<1>4. c = Wide(a) \o d
  BY <1>1, <1>2, <1>3
<1>5. PICK p : Pointer(p, addr, q) /\ ~p.held
  BY PointerExists
<1>6. PICK r : Pointer(r, addr, q) /\ r.held
  BY PointerExists
<1>7. a \in Halfword /\ \A g, k : Passes(g, a, k, NoFact, p)
  BY <1>2, <1>3, <1>5, PointerPasses
<1>8. Free(NoFact)
  BY NoFactFree
<1>9. ASSUME NEW rd \in FREE_REGS, d = Wide(Access("amo", rd, addr, Word))
      PROVE  \E K : Annotated(c, K)
  <2>1. PICK m : m = Access("amo", rd, addr, Word)
    OBVIOUS
  <2>2. m \in Halfword /\ \A g, k : Passes(g, m, k, p, NoFact)
    BY <1>2, <1>5, <1>8, <2>1, WordPasses
  <2> DEFINE s == <<a>> \o <<m>>
             L == <<NoFact, p, NoFact>>
  <2>3. Linear(c, s)
    BY <1>4, <1>7, <1>9, <2>1, <2>2, LinearOne, LinearConcat
  <2>4. Len(s) = 2 /\ s[1] = a /\ s[2] = m
    OBVIOUS
  <2>5. \A j \in 1 .. Len(s) : Passes(c, s[j], 2 * j - 1, L[j], L[j + 1])
    BY <1>7, <2>2, <2>4
  <2>6. Free(L[1])
    BY <1>8
  <2> HIDE DEF s, L
  <2> QED BY <2>3, <2>5, <2>6, LinearAnnotated
<1>10. ASSUME NEW rd \in FREE_REGS, NEW e, rd # addr, d = Wide(Access("lr", rd, addr, Word)) \o e,
              NEW rd2 \in FREE_REGS, e = Wide(Access("sc", rd2, addr, Word))
       PROVE  \E K : Annotated(c, K)
  <2>1. PICK l, m : l = Access("lr", rd, addr, Word) /\ m = Access("sc", rd2, addr, Word)
    OBVIOUS
  <2>2. l \in Halfword /\ \A g, k : Passes(g, l, k, p, r)
    BY <1>2, <1>5, <1>6, <1>10, <2>1, WordPasses
  <2>3. m \in Halfword /\ \A g, k : Passes(g, m, k, r, NoFact)
    BY <1>2, <1>6, <1>8, <2>1, WordPasses
  <2> DEFINE s == <<a>> \o (<<l>> \o <<m>>)
             L == <<NoFact, p, r, NoFact>>
  <2>4. Linear(c, s)
    <3>1. Linear(d, <<l>> \o <<m>>)
      BY <1>10, <2>1, <2>2, <2>3, LinearOne, LinearConcat
    <3> QED BY <1>4, <1>7, <3>1, LinearOne, LinearConcat
  <2>5. Len(s) = 3 /\ s[1] = a /\ s[2] = l /\ s[3] = m
    OBVIOUS
  <2>6. \A j \in 1 .. Len(s) : Passes(c, s[j], 2 * j - 1, L[j], L[j + 1])
    BY <1>7, <2>2, <2>3, <2>5
  <2>7. Free(L[1])
    BY <1>8
  <2> HIDE DEF s, L
  <2> QED BY <2>4, <2>6, <2>7, LinearAnnotated
<1>11. ASSUME NEW rd \in FREE_REGS, NEW e, rd # addr, d = Wide(Access("lr", rd, addr, Word)) \o e,
              NEW other \in FREE_REGS, NEW rd2 \in FREE_REGS,
              e = Wide(Addi(other, addr, 4)) \o Wide(Access("sc", rd2, other, Word))
       PROVE  \E K : Annotated(c, K)
  <2>1. PICK l, b, m : /\ l = Access("lr", rd, addr, Word) /\ b = Addi(other, addr, 4)
                       /\ m = Access("sc", rd2, other, Word)
    OBVIOUS
  <2>2. PICK t : Pointer(t, other, q4) /\ t.held
    BY PointerExists
  <2>3. l \in Halfword /\ \A g, k : Passes(g, l, k, p, r)
    BY <1>2, <1>5, <1>6, <1>11, <2>1, WordPasses
  <2>4. b \in Halfword /\ \A g, k : Passes(g, b, k, r, t)
    BY <1>2, <1>6, <2>1, <2>2, NextWordPasses
  <2>5. m \in Halfword /\ \A g, k : Passes(g, m, k, t, NoFact)
    BY <1>2, <1>8, <2>1, <2>2, WordPasses
  <2> DEFINE s == <<a>> \o (<<l>> \o (<<b>> \o <<m>>))
             L == <<NoFact, p, r, t, NoFact>>
  <2>6. Linear(c, s)
    <3>1. Linear(e, <<b>> \o <<m>>)
      BY <1>11, <2>1, <2>4, <2>5, LinearOne, LinearConcat
    <3>2. Linear(d, <<l>> \o (<<b>> \o <<m>>))
      BY <1>11, <2>1, <2>3, <3>1, LinearOne, LinearConcat
    <3> QED BY <1>4, <1>7, <3>2, LinearOne, LinearConcat
  <2>7. Len(s) = 4 /\ s[1] = a /\ s[2] = l /\ s[3] = b /\ s[4] = m
    OBVIOUS
  <2>8. \A j \in 1 .. Len(s) : Passes(c, s[j], 2 * j - 1, L[j], L[j + 1])
    BY <1>7, <2>3, <2>4, <2>5, <2>7
  <2>9. Free(L[1])
    BY <1>8
  <2> HIDE DEF s, L
  <2> QED BY <2>6, <2>8, <2>9, LinearAnnotated
<1> QED BY <1>1, <1>9, <1>10, <1>11 DEF AtomicTail, ScTail

\* Dependency chains: every step of a load is behind the one it needs.
ChainLink(s, m) ==
  /\ s[m].rd \in FREE_REGS
  /\ \/ s[m].op = "write"
     \/ s[m].op = "andi" /\ s[m].n = 1020
     \/ /\ s[m].op = "addgp" /\ m > 1 /\ s[m - 1].op = "andi" /\ s[m - 1].rd = s[m].rs
     \/ /\ s[m].op = "load" /\ m > 1 /\ s[m - 1].op = "addgp" /\ s[m - 1].rd = s[m].rs
        /\ s[m].at = {<<-1024, 4>>} /\ ~s[m].faults

Chain(g) == \E s : Linear(g, s) /\ \A m \in 1 .. Len(s) : ChainLink(s, m)

\* A chain behind a chain.
LEMMA ChainConcat ==
  ASSUME NEW g, NEW h, Chain(g), Chain(h)
  PROVE  Chain(g \o h)
<1>1. PICK s : Linear(g, s) /\ \A m \in 1 .. Len(s) : ChainLink(s, m)
  BY DEF Chain
<1>2. PICK t : Linear(h, t) /\ \A m \in 1 .. Len(t) : ChainLink(t, m)
  BY DEF Chain
<1>3. Linear(g \o h, s \o t)
  BY <1>1, <1>2, LinearConcat
<1>4. PICK u : u = s \o t
  OBVIOUS
<1>5. s \in Seq(Halfword) /\ t \in Seq(Halfword) /\ Len(s) \in Nat /\ Len(t) \in Nat
  BY <1>1, <1>2 DEF Linear
<1>6. /\ Len(u) = Len(s) + Len(t)
      /\ \A m \in 1 .. Len(s) : u[m] = s[m]
      /\ \A m \in 1 .. Len(t) : u[Len(s) + m] = t[m]
  <2>1. s \in Seq(Halfword) /\ t \in Seq(Halfword)
    BY <1>5
  <2>2. /\ Len(s \o t) = Len(s) + Len(t)
        /\ \A m \in 1 .. Len(s) : (s \o t)[m] = s[m]
        /\ \A m \in 1 .. Len(t) : (s \o t)[Len(s) + m] = t[m]
    BY ONLY <2>1, Joined
  <2> QED BY <1>4, <2>2
<1>7. ASSUME NEW m \in 1 .. Len(u) PROVE ChainLink(u, m)
  <2>1. CASE m <= Len(s)
    <3>1. m \in 1 .. Len(s) /\ u[m] = s[m] /\ (m > 1 => u[m - 1] = s[m - 1])
      BY <1>5, <1>6, <2>1
    <3> QED BY <1>1, <3>1 DEF ChainLink
  <2>2. CASE m > Len(s)
    <3>1. PICK j \in 1 .. Len(t) : m = Len(s) + j
      <4>1. m - Len(s) \in 1 .. Len(t) /\ m = Len(s) + (m - Len(s))
        BY <1>5, <1>6, <2>2
      <4> QED BY <4>1
    <3>2. u[m] = t[j]
      BY <1>6, <3>1
    <3>3. j > 1 => m > 1 /\ u[m - 1] = t[j - 1]
      <4>1. ASSUME j > 1 PROVE m > 1 /\ u[m - 1] = t[j - 1]
        <5>1. j - 1 \in 1 .. Len(t) /\ m - 1 = Len(s) + (j - 1) /\ m > 1
          BY <1>5, <3>1, <4>1
        <5> QED BY <1>6, <5>1
      <4> QED BY <4>1
    <3>4. ChainLink(t, j)
      BY <1>2
    <3> QED BY <3>2, <3>3, <3>4 DEF ChainLink
  <2> QED BY <1>5, <1>6, <2>1, <2>2
<1> QED BY <1>3, <1>4, <1>7 DEF Chain

ChainLoad(r, tmp) ==
  Wide(Andi(tmp, r, ChainMask)) \o Wide(AddGp(tmp, tmp)) \o Wide(Load(r, tmp, {<<-1024, 4>>}))

\* The pieces of a dependency chain.
LEMMA ChainPieces ==
  ASSUME NEW r \in FREE_REGS, NEW tmp \in FREE_REGS
  PROVE  /\ Chain(<<>>) /\ Chain(Wide(Write(r)))
         /\ Chain(ChainLoad(r, tmp))
<1>0. r \in Int /\ tmp \in Int /\ ChainMask = 1020
  BY FreeAssumption DEF ChainMask
<1>1. Chain(<<>>)
  <2>1. Linear(<<>>, <<>>) /\ Len(<<>>) = 0
    BY DEF Linear
  <2>2. \A m \in 1 .. Len(<<>>) : ChainLink(<<>>, m)
    BY <2>1
  <2> QED BY <2>1, <2>2 DEF Chain
<1>2. Chain(Wide(Write(r)))
  <2>1. PICK w, s : w = Write(r) /\ s = <<w>>
    OBVIOUS
  <2>2. w \in Halfword /\ w.op = "write" /\ w.rd = r
    BY <1>0, <2>1, Instructions
  <2>3. Linear(Wide(w), s)
    BY <2>1, <2>2, LinearOne
  <2>4. Len(s) = 1 /\ s[1] = w
    BY <2>1
  <2>5. \A m \in 1 .. Len(s) : ChainLink(s, m)
    BY <2>2, <2>4 DEF ChainLink
  <2> QED BY <2>1, <2>3, <2>5 DEF Chain
<1>3. Chain(ChainLoad(r, tmp))
  <2>a. PICK a : a = Andi(tmp, r, ChainMask)
    OBVIOUS
  <2>b. PICK b : b = AddGp(tmp, tmp)
    OBVIOUS
  <2>s. PICK S : S = {<<-1024, 4>>}
    OBVIOUS
  <2>l. PICK l : l = Load(r, tmp, S)
    OBVIOUS
  <2>1. /\ a = Andi(tmp, r, ChainMask) /\ b = AddGp(tmp, tmp) /\ S = {<<-1024, 4>>}
        /\ l = Load(r, tmp, S)
    BY ONLY <2>a, <2>b, <2>s, <2>l, Zenon
  <2>2. a \in Halfword /\ a.op = "andi" /\ a.rd = tmp /\ a.n = 1020
    <3>1. PICK mask \in Int : mask = ChainMask /\ mask = 1020
      BY <1>0
    <3>2. /\ Andi(tmp, r, mask) \in Halfword /\ Andi(tmp, r, mask).op = "andi"
          /\ Andi(tmp, r, mask).rd = tmp /\ Andi(tmp, r, mask).n = mask
      BY <1>0, Instructions
    <3> QED BY <2>1, <3>1, <3>2
  <2>3. b \in Halfword /\ b.op = "addgp" /\ b.rd = tmp /\ b.rs = tmp
    <3>1. /\ AddGp(tmp, tmp) \in Halfword /\ AddGp(tmp, tmp).op = "addgp"
          /\ AddGp(tmp, tmp).rd = tmp /\ AddGp(tmp, tmp).rs = tmp
      BY <1>0, Instructions
    <3> QED BY <2>1, <3>1
  <2>4. l = [op |-> "load", rd |-> r, rs |-> tmp, n |-> 0, at |-> S, faults |-> FALSE]
    BY <2>1, MemoryInstructions DEF Load
  <2>5. S \in SUBSET (Int \X Int)
    BY <2>1
  <2>6. l \in Halfword
    BY <1>0, <2>4, <2>5 DEF Halfword, Op
  <2>7. l.op = "load" /\ l.rd = r /\ l.rs = tmp /\ l.at = S /\ ~l.faults
    BY <2>4
  <2> DEFINE s == (<<a>> \o <<b>>) \o <<l>>
  <2>9. Linear(Wide(a) \o Wide(b) \o Wide(l), s)
    BY <2>2, <2>3, <2>6, LinearOne, LinearConcat
  <2>10. Len(s) = 3 /\ s[1] = a /\ s[2] = b /\ s[3] = l
    OBVIOUS
  <2> HIDE DEF s
  <2>11. ChainLink(s, 1)
    BY <2>2, <2>10 DEF ChainLink
  <2>12. ChainLink(s, 2)
    BY <2>2, <2>3, <2>10 DEF ChainLink
  <2>13. ChainLink(s, 3)
    BY <2>1, <2>3, <2>7, <2>10 DEF ChainLink
  <2>14. \A m \in 1 .. Len(s) : ChainLink(s, m)
    BY <2>10, <2>11, <2>12, <2>13
  <2>15. Chain(Wide(a) \o Wide(b) \o Wide(l))
    BY <2>9, <2>14 DEF Chain
  <2> QED BY <2>1, <2>15 DEF ChainLoad
<1> QED BY <1>1, <1>2, <1>3

\* What the generator function emits is a chain.
LEMMA DepChainIsChain ==
  ASSUME NEW c \in GenDepChain(FREE_REGS), BODY \in Nat
  PROVE  Chain(c)
<1> DEFINE load(r) == {ChainLoad(r, tmp) : tmp \in FREE_REGS}
           chain(r) == Bodies({Wide(Write(r))} \union load(r), 4, BODY)
<1>1. GenDepChain(FREE_REGS) = UNION {Then({Wide(Write(r))}, chain(r)) : r \in FREE_REGS}
  BY DEF GenDepChain, ChainLoad
<1> HIDE DEF chain
<1>2. PICK r \in FREE_REGS : c \in Then({Wide(Write(r))}, chain(r))
  BY <1>1
<1>3. PICK d \in chain(r) : c = Wide(Write(r)) \o d
  BY <1>2 DEF Then
<1>4. \A p \in {Wide(Write(r))} \union load(r) : Chain(p)
  BY ChainPieces
<1> HIDE DEF load
<1>5. PICK P : P = {Wide(Write(r))} \union load(r)
  OBVIOUS
<1>6. PICK k \in Nat : \E s \in [1 .. k -> P] : d = FlattenSeq(s)
  <2>1. PICK k \in (IF 4 < BODY THEN 4 ELSE BODY) .. BODY : \E s \in [1 .. k -> P] : d = FlattenSeq(s)
    BY <1>5 DEF chain, Bodies
  <2> QED BY <2>1
<1>7. PICK s \in [1 .. k -> P] : d = FlattenSeq(s)
  BY <1>6
<1> DEFINE T == {g \in Seq(Halfword) : Chain(g)}
<1>8. \A g : g \in T <=> Chain(g)
  BY DEF Chain, Linear
<1> HIDE DEF T
<1>9. <<>> \in T /\ (\A a, b \in T : a \o b \in T) /\ P \subseteq T
  BY <1>4, <1>5, <1>8, ChainPieces, ChainConcat
<1>10. FlattenSeq(s) \in T
  BY <1>9, FlattenClosed
<1> QED BY <1>3, <1>7, <1>8, <1>10, ChainPieces, ChainConcat

\* A load of a chain is at gp and at most 1020 from it, less 1024.
LEMMA ChainAnnotated ==
  ASSUME NEW c, Chain(c)
  PROVE  \E K : Annotated(c, K)
<1>1. PICK s : Linear(c, s) /\ \A m \in 1 .. Len(s) : ChainLink(s, m)
  BY DEF Chain
<1> DEFINE n == Len(s)
<1>2. n \in Nat /\ \A m \in 1 .. n : s[m] \in Halfword /\ s[m].rs \in Int /\ s[m].n \in Int
  <2>1. s \in Seq(Halfword)
    BY <1>1 DEF Linear
  <2>2. n \in Nat /\ \A m \in 1 .. n : s[m] \in Halfword
    BY <2>1
  <2> QED BY <2>2 DEF Halfword
<1> HIDE DEF n
<1> DEFINE N == {Num(0), Num(1020)}
           D == {Data(2048), Data(3068)}
<1> HIDE DEF N, D
<1> DEFINE L == [m \in 1 .. n + 1 |->
                   IF m <= n /\ s[m].op = "addgp" THEN [reg |-> s[m].rs, vals |-> N, held |-> FALSE]
                   ELSE IF m <= n /\ s[m].op = "load" THEN [reg |-> s[m].rs, vals |-> D, held |-> FALSE]
                   ELSE NoFact]
<1>4. \A m \in 1 .. n : ChainLink(s, m)
  BY <1>1 DEF n
<1>5. \A m \in 1 .. n + 1 : m = n + 1 \/ s[m].op \notin {"addgp", "load"} => Free(L[m])
  BY <1>2, NoFactFree
<1>6. \A m \in 1 .. n : s[m].op = "addgp" => L[m].reg = s[m].rs /\ L[m].vals = N /\ ~L[m].held
  BY <1>2
<1>7. \A m \in 1 .. n : s[m].op = "load" => L[m].reg = s[m].rs /\ L[m].vals = D /\ ~L[m].held
  BY <1>2
<1> HIDE DEF L
<1>8. Free(L[1])
  <2>1. CASE n = 0
    BY <1>5, <2>1
  <2>2. CASE n # 0
    <3>1. 1 \in 1 .. n /\ 1 \in 1 .. n + 1
      BY <1>2, <2>2
    <3>2. s[1].op \notin {"addgp", "load"}
      BY <1>4, <3>1 DEF ChainLink
    <3> QED BY <1>5, <3>1, <3>2
  <2> QED BY <2>1, <2>2
<1>9. ASSUME NEW m \in 1 .. n PROVE Passes(c, s[m], 2 * m - 1, L[m], L[m + 1])
  <2>1. PICK i, f, h : i = s[m] /\ f = L[m] /\ h = L[m + 1]
    OBVIOUS
  <2>2. ChainLink(s, m) /\ i \in Halfword /\ i.rd \in FREE_REGS /\ i.n \in Int
    BY <1>2, <1>4, <2>1 DEF ChainLink
  <2>3. i.rd \in Overwritten /\ i.rd # 0
    BY <2>2, FreeAssumption DEF Overwritten
  <2>4. i.op \in {"write", "andi", "addgp", "load"}
    BY <2>1, <2>2 DEF ChainLink
  <2>5. i.op \in MemoryOps => Points(i, f)
    <3>1. ASSUME i.op = "load" PROVE Points(i, f)
      <4>1. f.reg = i.rs /\ f.vals = D
        BY <1>7, <2>1, <3>1
      <4>2. i.at = {<<-1024, 4>>} /\ ~i.faults
        BY <2>1, <2>2, <3>1 DEF ChainLink
      <4>3. \A v \in D : v.base = "data" /\ v.n \in {2048, 3068}
        BY DEF D, Data, Content
      <4>4. \A v \in D : Reaches(i, v.n)
        BY <4>2, <4>3 DEF Reaches, Allowed, DATA_WORDS
      <4> QED BY <4>1, <4>3, <4>4 DEF Points
    <3> QED BY <2>4, <3>1 DEF MemoryOps
  <2>6. Gives(c, i, 2 * m - 1, f, h)
    <3>1. m + 1 \in 1 .. n + 1
      BY <1>2
    <3>2. CASE m = n
      <4>1. Free(L[m + 1])
        BY <1>5, <3>1, <3>2
      <4> QED BY <2>1, <4>1 DEF Gives
    <3>3. CASE m < n
      <4>1. PICK j \in 1 .. n : j = m + 1
        BY <1>2, <3>3
      <4>2. ChainLink(s, j) /\ j - 1 = m
        BY <1>4, <4>1
      <4>3. CASE s[j].op \notin {"addgp", "load"}
        BY <1>5, <2>1, <4>1, <4>3, <3>1 DEF Gives
      <4>4. CASE s[j].op = "addgp"
        <5>1. i.op = "andi" /\ i.n = 1020 /\ i.rd = s[j].rs
          <6>1. s[j - 1].op = "andi" /\ s[j - 1].rd = s[j].rs
            BY <4>2, <4>4 DEF ChainLink
          <6> QED BY <2>1, <2>2, <4>2, <6>1 DEF ChainLink
        <5>2. h.reg = i.rd /\ Num(0) \in h.vals /\ Num(1020) \in h.vals /\ ~h.held
          BY <1>6, <2>1, <4>1, <4>4, <5>1 DEF N
        <5>3. Makes(c, i, 2 * m - 1, f, h)
          BY <2>3, <5>1, <5>2 DEF Makes
        <5> QED BY <5>2, <5>3 DEF Gives
      <4>5. CASE s[j].op = "load"
        <5>1. i.op = "addgp" /\ i.rd = s[j].rs
          <6>1. s[j - 1].op = "addgp" /\ s[j - 1].rd = s[j].rs
            BY <4>2, <4>5 DEF ChainLink
          <6> QED BY <2>1, <4>2, <6>1
        <5>2. h.reg = i.rd /\ Data(2048) \in h.vals /\ Data(3068) \in h.vals /\ ~h.held
          BY <1>7, <2>1, <4>1, <4>5, <5>1 DEF D
        <5>3. f.reg = i.rs /\ f.vals = N
          BY <1>6, <2>1, <5>1
        <5>4. \A v \in N : v.base = "num" /\ Data(2048 + v.n) \in {Data(2048), Data(3068)}
          BY DEF N, Num, Data, Content
        <5>5. Makes(c, i, 2 * m - 1, f, h)
          BY <2>3, <5>1, <5>2, <5>3, <5>4 DEF Makes
        <5> QED BY <5>2, <5>5 DEF Gives
      <4> QED BY <4>3, <4>4, <4>5
    <3> QED BY <1>2, <3>2, <3>3
  <2>7. Passes(c, i, 2 * m - 1, f, h)
    BY <2>3, <2>4, <2>5, <2>6 DEF Passes, MemoryOps
  <2> QED BY <2>1, <2>7
<1>10. \A m \in 1 .. Len(s) : Passes(c, s[m], 2 * m - 1, L[m], L[m + 1])
  BY <1>9 DEF n
<1> QED BY <1>1, <1>8, <1>10, LinearAnnotated

-----------------------------------------------------------------------------
(* Calls.                                                                  *)

\* A jump over a leaf, the leaf, its return, and the call: a jal, or an address
\* in a register and a jalr.
CallLayout(g, h, d, body, over, ret, x, y) ==
  LET b == Len(body)
      q == h + b + d + 1
  IN  /\ g \in Seq(Halfword) /\ h \in {1, 2} /\ d \in {1, 2} /\ b \in Nat
      /\ over.op = "jal" /\ over.rd = 0 /\ over.n = h + b + d
      /\ ret.op = "jalr" /\ ret.rd = 0 /\ ret.rs = 1
      /\ x.n = -(b + d)
      /\ g[1] = over /\ (h = 2 => g[2] = SecondHalf)
      /\ \A m \in 1 .. b : g[h + m] = body[m]
      /\ g[h + b + 1] = ret /\ (d = 2 => g[h + b + 2] = SecondHalf)
      /\ g[q] = x
      /\ \/ /\ x.op = "jal" /\ x.rd = 1
            /\ Len(g) = q \/ (Len(g) = q + 1 /\ g[q + 1] = SecondHalf)
         \/ /\ x.op = "lacode" /\ x.rd \in FREE_REGS /\ y.op = "jalr" /\ y.rd = 1 /\ y.rs = x.rd
            /\ g[q + 1] = SecondHalf /\ g[q + 2] = y
            /\ Len(g) = q + 2 \/ (Len(g) = q + 3 /\ g[q + 3] = SecondHalf)

\* The link is known in the leaf up to its return.
LEMMA CallAnnotated ==
  ASSUME NEW g, NEW h \in Nat, NEW d \in Nat, NEW body, NEW over, NEW ret, NEW x, NEW y,
         Block(body, LeafRegs(FREE_REGS), Plain),
         CallLayout(g, h, d, body, over, ret, x, y)
  PROVE  \E K : Annotated(g, K)
<1>20. Len(body) \in Nat /\ h \in {1, 2} /\ d \in {1, 2} /\ Len(g) \in Nat
  <2>1. Len(body) \in Nat /\ h \in {1, 2} /\ d \in {1, 2} /\ g \in Seq(Halfword)
    BY DEF CallLayout
  <2> QED BY ONLY <2>1
<1>21. PICK b \in Nat, len \in Nat : b = Len(body) /\ len = Len(g)
  BY ONLY <1>20
<1>22. PICK r \in Nat, q \in Nat, R \in Nat : r = h + b + 1 /\ q = h + b + d + 1 /\ R = len + 1
  <2>1. h + b + 1 \in Nat /\ h + b + d + 1 \in Nat /\ len + 1 \in Nat
    BY <1>20
  <2> QED BY ONLY <2>1, Zenon
<1>0. /\ b = Len(body) /\ len = Len(g) /\ h \in {1, 2} /\ d \in {1, 2}
      /\ r = h + b + 1 /\ q = h + b + d + 1 /\ R = len + 1
  BY ONLY <1>20, <1>21, <1>22
<1>1. /\ g \in Seq(Halfword) /\ h \in {1, 2} /\ d \in {1, 2}
      /\ over.op = "jal" /\ over.rd = 0 /\ over.n = h + b + d
      /\ ret.op = "jalr" /\ ret.rd = 0 /\ ret.rs = 1
      /\ x.n = -(b + d)
      /\ g[1] = over /\ (h = 2 => g[2] = SecondHalf)
      /\ \A m \in 1 .. b : g[h + m] = body[m]
      /\ g[r] = ret /\ (d = 2 => g[r + 1] = SecondHalf)
      /\ g[q] = x
  BY <1>0 DEF CallLayout
<1>2. \/ /\ x.op = "jal" /\ x.rd = 1
         /\ Len(g) = q \/ (Len(g) = q + 1 /\ g[q + 1] = SecondHalf)
      \/ /\ x.op = "lacode" /\ x.rd \in FREE_REGS /\ y.op = "jalr" /\ y.rd = 1 /\ y.rs = x.rd
         /\ g[q + 1] = SecondHalf /\ g[q + 2] = y
         /\ Len(g) = q + 2 \/ (Len(g) = q + 3 /\ g[q + 3] = SecondHalf)
  BY <1>0 DEF CallLayout
<1>3. PICK j \in Nat :
        /\ g[j].op \in {"jal", "jalr"} /\ g[j].rd = 1 /\ (len = j \/ len = j + 1)
        /\ len = j + 1 => g[j + 1] = SecondHalf
        /\ \/ j = q /\ x.op = "jal" /\ x.rd = 1
           \/ /\ j = q + 2 /\ x.op = "lacode" /\ x.rd \in FREE_REGS
              /\ y.op = "jalr" /\ y.rd = 1 /\ y.rs = x.rd /\ g[j] = y /\ g[q + 1] = SecondHalf
  <2>1. CASE /\ x.op = "jal" /\ x.rd = 1
             /\ Len(g) = q \/ (Len(g) = q + 1 /\ g[q + 1] = SecondHalf)
    <3>1. PICK j \in Nat : j = q
      OBVIOUS
    <3> QED BY <1>0, <1>1, <2>1, <3>1
  <2>2. CASE /\ x.op = "lacode" /\ x.rd \in FREE_REGS /\ y.op = "jalr" /\ y.rd = 1 /\ y.rs = x.rd
             /\ g[q + 1] = SecondHalf /\ g[q + 2] = y
             /\ Len(g) = q + 2 \/ (Len(g) = q + 3 /\ g[q + 3] = SecondHalf)
    <3>1. PICK j \in Nat : j = q + 2
      OBVIOUS
    <3>2. j + 1 = q + 3
      BY <3>1
    <3> QED BY <1>0, <2>2, <3>1, <3>2
  <2> QED BY <1>2, <2>1, <2>2
<1>4. /\ h \in {1, 2} /\ d \in {1, 2} /\ r = h + b + 1 /\ q = r + d /\ R = len + 1
      /\ j = q \/ j = q + 2
      /\ len = j \/ len = j + 1
      /\ len = Len(g) /\ b = Len(body)
  BY <1>0, <1>3
<1>5. SecondHalf.op = "tail"
  BY DEF SecondHalf, Instr
<1>7. Start(g, 1) /\ Start(g, r) /\ Start(g, q) /\ Start(g, j) /\ Start(g, R)
  <2>1. 1 \in 1 .. Len(g) /\ r \in 1 .. Len(g) /\ q \in 1 .. Len(g) /\ j \in 1 .. Len(g)
    BY <1>4
  <2>2. g[q] # SecondHalf /\ g[j] # SecondHalf /\ g[1] # SecondHalf /\ g[r] # SecondHalf
    BY <1>1, <1>3, <1>4, <1>5
  <2> QED BY <1>4, <2>1, <2>2 DEF Start
<1>8. \A m \in 1 .. b + 1 : Start(g, h + m) <=> Start(body, m)
  <2>1. ASSUME NEW m \in 1 .. b PROVE Start(g, h + m) <=> Start(body, m)
    <3>1. h + m \in 1 .. Len(g) /\ g[h + m] = body[m] /\ m \in 1 .. Len(body)
      BY <1>1, <1>4
    <3> QED BY <3>1, <1>4 DEF Start
  <2>2. Start(body, b + 1)
    BY <1>4, BlockStart
  <2>3. Start(g, h + (b + 1))
    <3>1. h + (b + 1) = r
      BY <1>4
    <3> QED BY <1>7, <3>1
  <2>4. \A m \in 1 .. b + 1 : m \in 1 .. b \/ m = b + 1
    OBVIOUS
  <2> QED BY <2>1, <2>2, <2>3, <2>4
<1>9. Start(g, h + 1)
  <2>1. Start(body, 1)
    BY BlockStart
  <2>2. 1 \in 1 .. b + 1
    OBVIOUS
  <2> QED BY ONLY <1>8, <2>1, <2>2
<1>10. \A k \in 1 .. Len(g) : \/ k = 1 \/ (h = 2 /\ k = 2) \/ \E m \in 1 .. b : k = h + m
                              \/ k = r \/ (d = 2 /\ k = r + 1) \/ k = q \/ (j = q + 2 /\ k \in {q + 1, q + 2})
                              \/ (k = j + 1 /\ Len(g) = j + 1)
  <2>1. ASSUME NEW k \in 1 .. Len(g), k > h, k < r PROVE \E m \in 1 .. b : k = h + m
    <3>1. k - h \in 1 .. b /\ k = h + (k - h)
      BY <1>4, <2>1
    <3> QED BY <3>1
  <2>2. ASSUME NEW k \in 1 .. Len(g), k <= h PROVE k = 1 \/ (h = 2 /\ k = 2)
    BY <1>4, <2>2
  <2>3. ASSUME NEW k \in 1 .. Len(g), k >= r
        PROVE  \/ k = r \/ (d = 2 /\ k = r + 1) \/ k = q \/ (j = q + 2 /\ k \in {q + 1, q + 2})
               \/ (k = j + 1 /\ Len(g) = j + 1)
    <3>1. PICK n \in Int : n = Len(g) /\ n \in {j, j + 1} /\ k <= n
      BY <1>4
    <3>2. r \in Int /\ q = r + d /\ d \in {1, 2} /\ (j = q \/ j = q + 2)
      BY <1>4
    <3>3. k \in Int /\ k >= r /\ q \in Nat
      BY <2>3
    <3>4. \/ k = r \/ (d = 2 /\ k = r + 1) \/ k = q \/ (j = q + 2 /\ k \in {q + 1, q + 2})
          \/ (k = j + 1 /\ n = j + 1)
      BY ONLY <3>1, <3>2, <3>3
    <3> QED BY <3>1, <3>4
  <2>4. \A k \in 1 .. Len(g) : k <= h \/ (k > h /\ k < r) \/ k >= r
    BY <1>4
  <2> QED BY <2>1, <2>2, <2>3, <2>4
<1>11. ASSUME NEW k \in 1 .. Len(g), g[k] = SecondHalf PROVE k > 1 /\ Start(g, k + 1)
  <2>1. k # 1 /\ k # r /\ k # q /\ k # j
    BY <1>1, <1>3, <1>4, <1>5, <1>11
  <2>2. CASE h = 2 /\ k = 2
    BY <1>4, <1>9, <2>2
  <2>3. ASSUME NEW m \in 1 .. b, k = h + m PROVE Start(g, k + 1)
    <3>1. body[m] = SecondHalf
      BY <1>1, <1>11, <2>3
    <3>2. Start(body, m + 1) /\ m + 1 \in 1 .. b + 1
      BY <1>4, <3>1 DEF Block
    <3>3. Start(g, h + (m + 1)) /\ h + (m + 1) = k + 1
      BY <1>1, <1>8, <2>3, <3>2
    <3> QED BY <3>3
  <2>4. CASE d = 2 /\ k = r + 1
    <3>1. k + 1 = q
      BY <1>4, <2>4
    <3> QED BY <1>7, <2>1, <3>1
  <2>5. CASE j = q + 2 /\ k = q + 1
    <3>1. k + 1 = j
      BY <2>5
    <3> QED BY <1>7, <2>1, <3>1
  <2>6. CASE k = j + 1 /\ Len(g) = j + 1
    <3>1. k + 1 = R
      BY <1>4, <2>6
    <3> QED BY <1>7, <2>1, <3>1
  <2> QED BY <1>10, <2>1, <2>2, <2>3, <2>4, <2>5, <2>6
<1>12. /\ Following(g, q) = (IF j = q THEN R ELSE j)
       /\ Following(g, j) = R
  <2>1. len = j => Start(g, j + 1)
    BY <1>4, <1>7
  <2>2. len = j + 1 => ~Start(g, j + 1)
    BY <1>3, <1>4 DEF Start
  <2>3. j = q + 2 => ~Start(g, q + 1)
    BY <1>3, <1>4 DEF Start
  <2> QED BY <1>4, <2>1, <2>2, <2>3 DEF Following
<1>13. PICK link : link.reg = 1 /\ ~link.held /\ Code(R) \in link.vals /\ \A v \in link.vals : v = Code(R)
  <2>1. PICK S : S = {Code(R)}
    OBVIOUS
  <2>2. PICK l : l = [reg |-> 1, vals |-> S, held |-> FALSE]
    OBVIOUS
  <2>3. l.reg = 1 /\ ~l.held /\ l.vals = S
    BY <2>2
  <2> QED BY <2>1, <2>3
<1>13a. PICK e \in Nat : e = h + 1
  BY <1>4
<1>14. PICK entry : /\ e = h + 1
                    /\ entry.reg = x.rd /\ ~entry.held
                    /\ Code(e) \in entry.vals /\ \A v \in entry.vals : v = Code(e)
  <2>2. PICK S : S = {Code(e)}
    OBVIOUS
  <2>3. PICK l : l = [reg |-> x.rd, vals |-> S, held |-> FALSE]
    OBVIOUS
  <2>4. l.reg = x.rd /\ ~l.held /\ l.vals = S
    BY <2>3
  <2> QED BY <1>13a, <2>2, <2>4
<1> DEFINE K == [k \in 1 .. R |-> IF k > h /\ k <= r THEN link
                                  ELSE IF j = q + 2 /\ k = j THEN entry ELSE NoFact]
<1>15. /\ \A k \in h + 1 .. r : K[k] = link
       /\ Free(K[1]) /\ Free(K[q]) /\ Free(K[R])
       /\ j = q + 2 => K[j] = entry
  <2>1. h + 1 .. r \subseteq 1 .. R /\ 1 \in 1 .. R /\ q \in 1 .. R /\ R \in 1 .. R /\ j \in 1 .. R
    BY <1>4
  <2>2. /\ \A k \in h + 1 .. r : K[k] = link
        /\ K[1] = NoFact /\ K[q] = NoFact /\ K[R] = NoFact
        /\ j = q + 2 => K[j] = entry
    BY <1>4, <2>1
  <2> QED BY <2>2, NoFactFree
<1> HIDE DEF K
<1>16. ASSUME NEW k \in 1 .. Len(g), g[k] # SecondHalf PROVE Proper(g, K, k, g[k])
  <2>1. CASE k = 1
    <3>1. 1 + over.n = q
      BY <1>0, <1>1
    <3>2. Start(g, 1 + over.n) /\ Gives(g, over, 1, K[1], K[1 + over.n])
      BY <1>7, <1>15, <3>1 DEF Gives
    <3> QED BY <1>1, <2>1, <3>2 DEF Proper
  <2>2. ASSUME NEW m \in 1 .. b, k = h + m PROVE Proper(g, K, k, g[k])
    <3>1. PICK i : i = g[k]
      OBVIOUS
    <3>2. i = body[m] /\ i # SecondHalf
      BY <1>1, <1>16, <2>2, <3>1
    <3>3. Sound(i, LeafRegs(FREE_REGS), Plain)
      BY <1>4, <3>2 DEF Block
    <3>4. i.rd \in Overwritten \union {0} /\ i.rd # 1 /\ i.op \in Plain
      BY <3>3 DEF Sound, LeafRegs, Overwritten
    <3>5. Start(g, k + 1) => k + 1 <= r
      BY <1>4, <2>2
    <3>6. ~Start(g, k + 1) => k + 2 <= r
      <4>1. ASSUME m = b PROVE Start(g, k + 1)
        <5>1. k + 1 = r
          BY <1>4, <2>2, <4>1
        <5> QED BY <1>7, <5>1
      <4> QED BY <1>4, <2>2, <4>1
    <3>7. k \in h + 1 .. r /\ Following(g, k) \in h + 1 .. r
      BY <1>4, <2>2, <3>5, <3>6 DEF Following
    <3>8. K[k] = link /\ K[Following(g, k)] = link
      BY <1>15, <3>7
    <3>9. Gives(g, i, k, K[k], K[Following(g, k)])
      BY <1>13, <3>4, <3>8 DEF Gives, Keeps
    <3>10. i.op \in MemoryOps => Points(i, K[k]) /\ i.op # "sc"
      BY <3>3 DEF Sound, Points, Plain
    <3> QED BY <3>1, <3>4, <3>9, <3>10 DEF Proper, Plain, MemoryOps
  <2>3. CASE k = r
    <3>1. r \in h + 1 .. r
      BY <1>4
    <3>2. K[r] = link /\ ret.rs = K[r].reg /\ K[r].vals \subseteq {Code(R)}
      BY <1>1, <1>13, <1>15, <3>1
    <3>3. Gives(g, ret, r, K[r], K[R])
      BY <1>15 DEF Gives
    <3>4. \E m \in DOMAIN g : /\ g[m].op \in {"jal", "jalr"}
                              /\ g[m].rd = 1 /\ g[m] # SecondHalf
                              /\ R = Following(g, m)
      <4>1. j \in DOMAIN g /\ g[j] # SecondHalf
        <5>1. g[j] # SecondHalf
          BY <1>3, <1>5
        <5>2. j \in 1 .. Len(g) /\ DOMAIN g = 1 .. Len(g)
          BY <1>1, <1>4
        <5> QED BY <5>1, <5>2
      <4>2. g[j].op \in {"jal", "jalr"} /\ g[j].rd = 1
        BY <1>3
      <4>3. R = Following(g, j)
        BY <1>12
      <4> QED BY ONLY <4>1, <4>2, <4>3, Zenon
    <3>5. ret = g[k] /\ ret.rd = 0 /\ ret.op = "jalr" /\ R \in Int /\ Start(g, R)
      BY <1>1, <1>7, <2>3
    <3>6. Proper(g, K, r, ret)
      BY ONLY <3>2, <3>3, <3>4, <3>5 DEF Proper
    <3> QED BY ONLY <2>3, <3>5, <3>6, Zenon
  <2>4. e \in h + 1 .. r /\ K[e] = link /\ q + x.n = e /\ Start(g, e)
    <3>1. e \in h + 1 .. r /\ q + x.n = e /\ e = h + 1
      BY <1>0, <1>1, <1>14
    <3> QED BY <1>9, <1>15, <3>1
  <2>5. CASE k = q /\ x.op = "jal"
    <3>1. j = q /\ x.rd = 1
      BY <1>3, <2>5
    <3>2. Makes(g, x, q, K[q], K[e])
      BY <1>12, <1>13, <2>4, <2>5, <3>1 DEF Makes
    <3>3. Gives(g, x, q, K[q], K[q + x.n]) /\ Start(g, q + x.n)
      BY <1>13, <2>4, <3>2 DEF Gives
    <3>4. x.rd \in Overwritten \union {0}
      BY <3>1, FreeAssumption DEF Overwritten
    <3> QED BY <1>1, <2>5, <3>3, <3>4 DEF Proper
  <2>6. CASE k = q /\ x.op # "jal"
    <3>1. j = q + 2 /\ x.op = "lacode" /\ x.rd \in FREE_REGS /\ x.rd # 0
      BY <1>3, <2>6, FreeAssumption
    <3>2. K[Following(g, q)] = entry
      BY <1>12, <1>15, <3>1
    <3>3. Makes(g, x, q, K[q], entry)
      BY <1>14, <2>4, <3>1 DEF Makes
    <3>4. Gives(g, x, q, K[q], K[Following(g, q)])
      BY <1>14, <3>2, <3>3 DEF Gives
    <3> QED BY <1>1, <2>6, <3>1, <3>4 DEF Proper, Overwritten
  <2>7. CASE k = j /\ j = q + 2
    <3>1. x.op = "lacode" /\ y.op = "jalr" /\ y.rd = 1 /\ y.rs = x.rd /\ g[j] = y
      BY <1>3, <1>4, <2>7
    <3>2. K[j] = entry /\ y.rs = K[j].reg /\ K[j].vals \subseteq {Code(e)}
      BY <1>14, <1>15, <2>7, <3>1
    <3>3. Makes(g, y, j, K[j], K[e])
      BY <1>12, <1>13, <2>4, <3>1 DEF Makes
    <3>4. Gives(g, y, j, K[j], K[e])
      BY <1>13, <2>4, <3>3 DEF Gives
    <3>5. y.rd \in Overwritten \union {0} /\ y.rd # 0
      BY <3>1, FreeAssumption DEF Overwritten
    <3> QED BY <1>14, <2>4, <2>7, <3>1, <3>2, <3>4, <3>5 DEF Proper
  <2>8. k = 1 \/ (\E m \in 1 .. b : k = h + m) \/ k = r \/ k = q \/ (k = j /\ j = q + 2)
    <3>1. ~(h = 2 /\ k = 2) /\ ~(d = 2 /\ k = r + 1)
      BY <1>1, <1>16
    <3>2. ~(j = q + 2 /\ k = q + 1) /\ ~(k = j + 1 /\ Len(g) = j + 1)
      BY <1>3, <1>4, <1>16
    <3> QED BY <1>4, <1>10, <3>1, <3>2
  <2> QED BY <2>1, <2>2, <2>3, <2>5, <2>6, <2>7, <2>8
<1>17. Annotated(g, K)
  BY <1>1, <1>11, <1>15, <1>16 DEF Annotated
<1> QED BY <1>17

\* An instruction of one or two halfwords.
LEMMA Encoded ==
  ASSUME NEW i \in Halfword, NEW c, c \in {Wide(i), Short(i)}
  PROVE  /\ c \in Seq(Halfword) /\ Len(c) \in {1, 2} /\ c[1] = i
         /\ Len(c) = 2 => c[2] = SecondHalf
         /\ c = Wide(i) => Len(c) = 2
         /\ c = Short(i) => Len(c) = 1
BY HalfwordType

\* The parts of a call: the jump over the leaf, its body and return, and the call of it.
CallParts(over, ret, x, y, body, J, w, D) ==
  /\ over \in Halfword /\ ret \in Halfword /\ x \in Halfword /\ y \in Halfword
  /\ body \in Seq(Halfword) /\ J \in {Wide(over), Short(over)} /\ w \in {Wide(ret), Short(ret)}
  /\ \/ D \in {Wide(x), Short(x)} /\ x.op = "jal" /\ x.rd = 1
     \/ /\ D \in {Wide(x) \o Wide(y), Wide(x) \o Short(y)}
        /\ x.op = "lacode" /\ x.rd \in FREE_REGS /\ y.op = "jalr" /\ y.rd = 1 /\ y.rs = x.rd
  /\ over.op = "jal" /\ over.rd = 0 /\ over.n = Len(J) + Len(body) + Len(w)
  /\ ret.op = "jalr" /\ ret.rd = 0 /\ ret.rs = 1 /\ x.n = -(Len(body) + Len(w))

\* They are put behind one another.
LEMMA PartsLayout ==
  ASSUME NEW over, NEW ret, NEW x, NEW y, NEW body, NEW J, NEW w, NEW D,
         CallParts(over, ret, x, y, body, J, w, D)
  PROVE  /\ CallLayout((J \o (body \o w)) \o D, Len(J), Len(w), body, over, ret, x, y)
         /\ Len(J) \in Nat /\ Len(w) \in Nat
<1> USE DEF CallParts
<1>1. /\ J \in Seq(Halfword) /\ Len(J) \in {1, 2} /\ J[1] = over /\ (Len(J) = 2 => J[2] = SecondHalf)
      /\ w \in Seq(Halfword) /\ Len(w) \in {1, 2} /\ w[1] = ret /\ (Len(w) = 2 => w[2] = SecondHalf)
  BY Encoded
<1>2. PICK h \in Nat, d \in Nat, b \in Nat : h = Len(J) /\ d = Len(w) /\ b = Len(body)
  <2>1. Len(J) \in Nat /\ Len(w) \in Nat /\ Len(body) \in Nat
    BY <1>1
  <2> QED BY <2>1
<1>3. PICK p : p = body \o w
  OBVIOUS
<1>4. /\ p \in Seq(Halfword) /\ Len(p) = b + d
      /\ \A k \in 1 .. b : p[k] = body[k]
      /\ \A k \in 1 .. d : p[b + k] = w[k]
  <2>1. body \in Seq(Halfword) /\ w \in Seq(Halfword)
    BY <1>1
  <2>2. /\ body \o w \in Seq(Halfword) /\ Len(body \o w) = Len(body) + Len(w)
        /\ \A k \in 1 .. Len(body) : (body \o w)[k] = body[k]
        /\ \A k \in 1 .. Len(w) : (body \o w)[Len(body) + k] = w[k]
    BY ONLY <2>1, Joined
  <2> QED BY <1>2, <1>3, <2>2
<1>5. PICK f : f = J \o p
  OBVIOUS
<1>6. /\ f \in Seq(Halfword) /\ Len(f) = h + (b + d)
      /\ \A k \in 1 .. h : f[k] = J[k]
      /\ \A k \in 1 .. b + d : f[h + k] = p[k]
  <2>1. J \in Seq(Halfword) /\ p \in Seq(Halfword)
    BY <1>1, <1>4
  <2>2. /\ J \o p \in Seq(Halfword) /\ Len(J \o p) = Len(J) + Len(p)
        /\ \A k \in 1 .. Len(J) : (J \o p)[k] = J[k]
        /\ \A k \in 1 .. Len(p) : (J \o p)[Len(J) + k] = p[k]
    BY ONLY <2>1, Joined
  <2> QED BY <1>2, <1>4, <1>5, <2>2
<1>7. /\ D \in Seq(Halfword) /\ D[1] = x
      /\ \/ /\ x.op = "jal" /\ x.rd = 1
            /\ Len(D) = 1 \/ (Len(D) = 2 /\ D[2] = SecondHalf)
         \/ /\ x.op = "lacode" /\ x.rd \in FREE_REGS /\ y.op = "jalr" /\ y.rd = 1 /\ y.rs = x.rd
            /\ D[2] = SecondHalf /\ D[3] = y
            /\ Len(D) = 3 \/ (Len(D) = 4 /\ D[4] = SecondHalf)
  <2>1. CASE D \in {Wide(x), Short(x)} /\ x.op = "jal" /\ x.rd = 1
    <3>1. D \in Seq(Halfword) /\ Len(D) \in {1, 2} /\ D[1] = x /\ (Len(D) = 2 => D[2] = SecondHalf)
      BY <2>1, Encoded
    <3> QED BY <2>1, <3>1
  <2>2. CASE /\ D \in {Wide(x) \o Wide(y), Wide(x) \o Short(y)}
             /\ x.op = "lacode" /\ x.rd \in FREE_REGS /\ y.op = "jalr" /\ y.rd = 1 /\ y.rs = x.rd
    <3>1. PICK X, Y : X = Wide(x) /\ Y \in {Wide(y), Short(y)} /\ D = X \o Y
      BY <2>2
    <3>2. /\ X \in Seq(Halfword) /\ Len(X) = 2 /\ X[1] = x /\ X[2] = SecondHalf
          /\ Y \in Seq(Halfword) /\ Y[1] = y /\ (Len(Y) = 1 \/ (Len(Y) = 2 /\ Y[2] = SecondHalf))
      BY <3>1, Encoded
    <3>3. /\ D \in Seq(Halfword) /\ Len(D) = 2 + Len(Y)
          /\ \A k \in 1 .. 2 : D[k] = X[k]
          /\ \A k \in 1 .. Len(Y) : D[2 + k] = Y[k]
      <4>1. X \in Seq(Halfword) /\ Y \in Seq(Halfword)
        BY <3>2
      <4>2. /\ X \o Y \in Seq(Halfword) /\ Len(X \o Y) = Len(X) + Len(Y)
            /\ \A k \in 1 .. Len(X) : (X \o Y)[k] = X[k]
            /\ \A k \in 1 .. Len(Y) : (X \o Y)[Len(X) + k] = Y[k]
        BY ONLY <4>1, Joined
      <4> QED BY <3>1, <3>2, <4>2
    <3>4. D[1] = X[1] /\ D[2] = X[2] /\ D[3] = Y[1] /\ (Len(Y) = 2 => D[4] = Y[2])
      <4>1. PICK n \in {1, 2} : n = Len(Y)
        BY <3>2
      <4>2. \A k \in 1 .. n : D[2 + k] = Y[k]
        BY <3>3, <4>1
      <4>3. D[3] = Y[1] /\ (n = 2 => D[4] = Y[2])
        <5>1. 1 \in 1 .. n /\ (n = 2 => 2 \in 1 .. n) /\ 2 + 1 = 3 /\ 2 + 2 = 4
          OBVIOUS
        <5> QED BY <4>2, <5>1
      <4> QED BY <3>2, <3>3, <4>1, <4>3
    <3>5. Len(D) = 3 \/ (Len(D) = 4 /\ Len(Y) = 2)
      <4>1. PICK n \in {1, 2} : n = Len(Y)
        BY <3>2
      <4>2. Len(D) = 2 + n
        BY <3>3, <4>1
      <4>3. CASE n = 1
        BY <4>2, <4>3
      <4>4. CASE n = 2
        BY <4>1, <4>2, <4>4
      <4> QED BY <4>3, <4>4
    <3> QED BY <2>2, <3>2, <3>3, <3>4, <3>5
  <2> QED BY <2>1, <2>2
<1>8. PICK g : g = f \o D
  OBVIOUS
<1>9. PICK e \in Nat : e = h + b + d
  OBVIOUS
<1>10. /\ g \in Seq(Halfword) /\ Len(g) = e + Len(D)
       /\ \A k \in 1 .. e : g[k] = f[k]
       /\ \A k \in 1 .. Len(D) : g[e + k] = D[k]
  <2>1. f \in Seq(Halfword) /\ D \in Seq(Halfword) /\ Len(f) = e
    BY <1>6, <1>7, <1>9
  <2>2. /\ f \o D \in Seq(Halfword) /\ Len(f \o D) = Len(f) + Len(D)
        /\ \A k \in 1 .. Len(f) : (f \o D)[k] = f[k]
        /\ \A k \in 1 .. Len(D) : (f \o D)[Len(f) + k] = D[k]
    <3>1. f \in Seq(Halfword) /\ D \in Seq(Halfword)
      BY <2>1
    <3> QED BY ONLY <3>1, Joined
  <2> QED BY <1>8, <2>1, <2>2
<1>11. h \in {1, 2} /\ d \in {1, 2}
  BY <1>1, <1>2
<1>12. g[1] = over /\ (h = 2 => g[2] = SecondHalf)
  <2>1. 1 \in 1 .. h /\ 1 \in 1 .. e /\ (h = 2 => 2 \in 1 .. h /\ 2 \in 1 .. e)
    BY <1>9, <1>11
  <2> QED BY <1>1, <1>2, <1>6, <1>10, <2>1
<1>13. \A m \in 1 .. b : g[h + m] = body[m]
  <2> SUFFICES ASSUME NEW m \in 1 .. b PROVE g[h + m] = body[m]
    OBVIOUS
  <2>1. h + m \in 1 .. e /\ m \in 1 .. b + d
    BY <1>9
  <2> QED BY <1>4, <1>6, <1>10, <2>1
<1>14. \A m \in 1 .. d : g[h + b + m] = w[m]
  <2> SUFFICES ASSUME NEW m \in 1 .. d PROVE g[h + b + m] = w[m]
    OBVIOUS
  <2>1. h + (b + m) \in 1 .. e /\ b + m \in 1 .. b + d /\ h + b + m = h + (b + m)
    BY <1>9
  <2> QED BY <1>4, <1>6, <1>10, <2>1
<1>15. g[h + b + 1] = ret /\ (d = 2 => g[h + b + 2] = SecondHalf)
  <2>1. 1 \in 1 .. d /\ (d = 2 => 2 \in 1 .. d)
    BY <1>11
  <2>2. w[1] = ret /\ (d = 2 => w[2] = SecondHalf)
    BY <1>1, <1>2
  <2> QED BY <1>14, <2>1, <2>2
<1>16. PICK q \in Nat : q = e + 1
  OBVIOUS
<1>17. g[q] = x
  <2>1. 1 \in 1 .. Len(D)
    BY <1>7
  <2> QED BY <1>7, <1>10, <1>16, <2>1
<1>18. \/ /\ x.op = "jal" /\ x.rd = 1
          /\ Len(g) = q \/ (Len(g) = q + 1 /\ g[q + 1] = SecondHalf)
       \/ /\ x.op = "lacode" /\ x.rd \in FREE_REGS /\ y.op = "jalr" /\ y.rd = 1 /\ y.rs = x.rd
          /\ g[q + 1] = SecondHalf /\ g[q + 2] = y
          /\ Len(g) = q + 2 \/ (Len(g) = q + 3 /\ g[q + 3] = SecondHalf)
  <2>1. q + 1 = e + 2 /\ q + 2 = e + 3 /\ q + 3 = e + 4
    BY <1>16
  <2>2. PICK n \in Nat : n = Len(D)
    BY <1>7
  <2>3. Len(g) = e + n /\ \A k \in 2 .. n : g[e + k] = D[k]
    BY <1>10, <2>2
  <2>4. CASE /\ x.op = "jal" /\ x.rd = 1
             /\ Len(D) = 1 \/ (Len(D) = 2 /\ D[2] = SecondHalf)
    <3>1. CASE n = 1
      <4>1. Len(g) = q
        BY ONLY <1>16, <2>3, <3>1, e \in Nat
      <4> QED BY <2>4, <4>1
    <3>2. CASE n = 2
      <4>1. 2 \in 2 .. n /\ Len(g) = q + 1 /\ D[2] = SecondHalf
        <5>1. 2 \in 2 .. n /\ Len(g) = q + 1
          BY ONLY <1>16, <2>3, <3>2, e \in Nat
        <5>2. D[2] = SecondHalf
          BY <2>2, <2>4, <3>2
        <5> QED BY ONLY <5>1, <5>2
      <4>2. g[q + 1] = SecondHalf
        BY <2>1, <2>3, <4>1
      <4> QED BY <2>4, <4>1, <4>2
    <3> QED BY <2>2, <2>4, <3>1, <3>2
  <2>5. CASE /\ x.op = "lacode" /\ x.rd \in FREE_REGS /\ y.op = "jalr" /\ y.rd = 1 /\ y.rs = x.rd
             /\ D[2] = SecondHalf /\ D[3] = y
             /\ Len(D) = 3 \/ (Len(D) = 4 /\ D[4] = SecondHalf)
    <3>1. n \in {3, 4} /\ (n = 4 => D[4] = SecondHalf)
      <4>1. n = 3 \/ (n = 4 /\ D[4] = SecondHalf)
        BY ONLY <2>2, <2>5, Zenon
      <4> QED BY ONLY <4>1
    <3>2. 2 \in 2 .. n /\ 3 \in 2 .. n /\ (n = 4 => 4 \in 2 .. n)
      BY <3>1
    <3>3. g[e + 2] = D[2] /\ g[e + 3] = D[3] /\ (n = 4 => g[e + 4] = D[4])
      BY <2>3, <3>2
    <3>4. g[q + 1] = SecondHalf /\ g[q + 2] = y /\ (n = 4 => g[q + 3] = SecondHalf)
      BY <2>1, <2>5, <3>1, <3>3
    <3>5. Len(g) = q + 2 \/ (Len(g) = q + 3 /\ n = 4)
      BY <1>16, <2>3, <3>1
    <3> QED BY <2>5, <3>4, <3>5
  <2> QED BY <1>7, <2>4, <2>5
<1>19. q = h + b + d + 1 /\ over.n = h + b + d /\ x.n = -(b + d)
  BY <1>2, <1>9, <1>16
<1>20. CallLayout(g, h, d, body, over, ret, x, y)
  BY <1>2, <1>10, <1>11, <1>12, <1>13, <1>15, <1>17, <1>18, <1>19 DEF CallLayout
<1> QED BY <1>2, <1>3, <1>5, <1>8, <1>20

\* What the generator function emits is a call of that layout.
LEMMA CallBlocks ==
  ASSUME NEW c \in GenCall(FREE_REGS)
  PROVE  \E K : Annotated(c, K)
<1> DEFINE rets == {Short(Jalr(0, 1)), Wide(Jalr(0, 1))}
           function == Then(Bodies(GenSimple(LeafRegs(FREE_REGS)), 1, BODY), rets)
           call(back) ==
             {Wide(Jal(1, -back)), Short(Jal(1, -back))}
             \union {Wide(LaCode(tmp, -back)) \o Short(Jalr(1, tmp)) : tmp \in FREE_REGS \ {1}}
             \union {Wide(LaCode(tmp, -back)) \o Wide(Jalr(1, tmp)) : tmp \in FREE_REGS \ {1}}
           calls(f) == Then({Short(Jal(0, 1 + Len(f))) \o f, Wide(Jal(0, 2 + Len(f))) \o f}, call(Len(f)))
<1>1. GenCall(FREE_REGS) = UNION {calls(f) : f \in function}
  BY DEF GenCall
<1> HIDE DEF function, calls
<1>2. PICK f \in function : c \in calls(f)
  BY <1>1
<1> HIDE DEF call
<1>3. PICK a \in {Short(Jal(0, 1 + Len(f))) \o f, Wide(Jal(0, 2 + Len(f))) \o f}, D \in call(Len(f)) :
         c = a \o D
  BY <1>2 DEF calls, Then
<1> HIDE DEF rets
<1>4. PICK body \in Bodies(GenSimple(LeafRegs(FREE_REGS)), 1, BODY), w \in rets : f = body \o w
  BY DEF function, Then
<1>5. FREE_REGS \in SUBSET Int /\ LeafRegs(FREE_REGS) \in SUBSET Int /\ BODY \in Nat
  BY FreeAssumption, BoundAssumption DEF LeafRegs
<1>6. Block(body, LeafRegs(FREE_REGS), Plain)
  BY <1>5, SimpleBlocks, BodyBlocks
<1>7. body \in Seq(Halfword) /\ Len(body) \in Nat
  BY <1>6, BlockStart DEF Block
<1>8. PICK ret : ret = Jalr(0, 1)
  OBVIOUS
<1>9. ret \in Halfword /\ ret.op = "jalr" /\ ret.rd = 0 /\ ret.rs = 1
  BY <1>8, JumpInstructions
<1>10. w \in {Wide(ret), Short(ret)}
  BY <1>8 DEF rets
<1>11. w \in Seq(Halfword) /\ Len(w) \in {1, 2}
  BY <1>9, <1>10, Encoded
<1>12. PICK n \in Nat : n = Len(f) /\ n = Len(body) + Len(w)
  <2>1. body \in Seq(Halfword) /\ w \in Seq(Halfword)
    BY <1>7, <1>11
  <2>2. Len(body \o w) = Len(body) + Len(w)
    BY ONLY <2>1, Joined
  <2> QED BY <1>4, <1>7, <1>11, <2>2
<1>12a. PICK over \in Halfword : \E J :
          /\ J \in {Wide(over), Short(over)}
          /\ over.op = "jal" /\ over.rd = 0 /\ over.n = Len(J) + n /\ a = J \o f
  <2>1. ASSUME NEW k \in {1, 2} PROVE /\ Jal(0, k + n) \in Halfword /\ Jal(0, k + n).op = "jal"
                                     /\ Jal(0, k + n).rd = 0 /\ Jal(0, k + n).n = k + n
    BY JumpInstructions
  <2>2. CASE a = Short(Jal(0, 1 + Len(f))) \o f
    <3>1. PICK over, J : over = Jal(0, 1 + n) /\ J = Short(over)
      OBVIOUS
    <3>2. over \in Halfword /\ over.op = "jal" /\ over.rd = 0 /\ over.n = 1 + n
      BY <2>1, <3>1
    <3>3. Len(J) = 1
      BY <3>1, <3>2, Encoded
    <3> QED BY <1>12, <2>2, <3>1, <3>2, <3>3
  <2>3. CASE a = Wide(Jal(0, 2 + Len(f))) \o f
    <3>1. PICK over, J : over = Jal(0, 2 + n) /\ J = Wide(over)
      OBVIOUS
    <3>2. over \in Halfword /\ over.op = "jal" /\ over.rd = 0 /\ over.n = 2 + n
      BY <2>1, <3>1
    <3>3. Len(J) = 2
      BY <3>1, <3>2, Encoded
    <3> QED BY <1>12, <2>3, <3>1, <3>2, <3>3
  <2> QED BY <1>3, <2>2, <2>3
<1>13. PICK J :
          /\ J \in {Wide(over), Short(over)}
          /\ over.op = "jal" /\ over.rd = 0 /\ over.n = Len(J) + n /\ a = J \o f
  BY <1>12a
<1>14. PICK x \in Halfword, y \in Halfword :
          /\ x.n = -n
          /\ \/ D \in {Wide(x), Short(x)} /\ x.op = "jal" /\ x.rd = 1
             \/ /\ D \in {Wide(x) \o Wide(y), Wide(x) \o Short(y)}
                /\ x.op = "lacode" /\ x.rd \in FREE_REGS /\ y.op = "jalr" /\ y.rd = 1 /\ y.rs = x.rd
  <2>1. PICK m \in Int : m = -n
    OBVIOUS
  <2>2. D \in call(n) /\ call(n) = {Wide(Jal(1, m)), Short(Jal(1, m))}
             \union {Wide(LaCode(tmp, m)) \o Short(Jalr(1, tmp)) : tmp \in FREE_REGS \ {1}}
             \union {Wide(LaCode(tmp, m)) \o Wide(Jalr(1, tmp)) : tmp \in FREE_REGS \ {1}}
    BY <1>12, <2>1 DEF call
  <2>3. CASE D \in {Wide(Jal(1, m)), Short(Jal(1, m))}
    <3>1. PICK x : x = Jal(1, m)
      OBVIOUS
    <3>2. x \in Halfword /\ x.op = "jal" /\ x.rd = 1 /\ x.n = m
      BY <3>1, JumpInstructions
    <3> QED BY <2>1, <2>3, <3>1, <3>2
  <2>4. ASSUME NEW tmp \in FREE_REGS,
               D = Wide(LaCode(tmp, m)) \o Short(Jalr(1, tmp)) \/ D = Wide(LaCode(tmp, m)) \o Wide(Jalr(1, tmp))
        PROVE  \E x \in Halfword, y \in Halfword :
                  /\ x.n = -n
                  /\ D \in {Wide(x) \o Wide(y), Wide(x) \o Short(y)}
                  /\ x.op = "lacode" /\ x.rd \in FREE_REGS /\ y.op = "jalr" /\ y.rd = 1 /\ y.rs = x.rd
    <3>1. PICK x, y : x = LaCode(tmp, m) /\ y = Jalr(1, tmp)
      OBVIOUS
    <3>2. tmp \in Int
      BY <1>5
    <3>3. x \in Halfword /\ x.op = "lacode" /\ x.rd = tmp /\ x.n = m
      <4>1. /\ LaCode(tmp, m) \in Halfword /\ LaCode(tmp, m).op = "lacode"
            /\ LaCode(tmp, m).rd = tmp /\ LaCode(tmp, m).n = m
        BY ONLY <3>2, m \in Int, CodeLoad
      <4> QED BY ONLY <3>1, <4>1, Zenon
    <3>4. y \in Halfword /\ y.op = "jalr" /\ y.rd = 1 /\ y.rs = tmp
      BY ONLY <3>1, <3>2, JumpInstructions
    <3>5. D \in {Wide(x) \o Wide(y), Wide(x) \o Short(y)}
      BY ONLY <2>4, <3>1, Zenon
    <3> QED BY ONLY <2>1, <3>3, <3>4, <3>5, tmp \in FREE_REGS
  <2>5. D \in {Wide(Jal(1, m)), Short(Jal(1, m))}
        \/ \E tmp \in FREE_REGS : \/ D = Wide(LaCode(tmp, m)) \o Short(Jalr(1, tmp))
                                  \/ D = Wide(LaCode(tmp, m)) \o Wide(Jalr(1, tmp))
    BY <2>2
  <2> QED BY <2>3, <2>4, <2>5
<1>15. CallLayout((J \o (body \o w)) \o D, Len(J), Len(w), body, over, ret, x, y)
       /\ Len(J) \in Nat /\ Len(w) \in Nat
  <2>1. J \in {Wide(over), Short(over)} /\ over.n = Len(J) + Len(body) + Len(w) /\ x.n = -(Len(body) + Len(w))
    <3>1. Len(J) \in {1, 2}
      BY <1>13, Encoded
    <3>2. J \in {Wide(over), Short(over)} /\ over.n = Len(J) + n /\ x.n = -n
      BY <1>13, <1>14
    <3>3. Len(J) + n = Len(J) + Len(body) + Len(w) /\ -n = -(Len(body) + Len(w))
      BY ONLY <1>7, <1>11, <1>12, <3>1
    <3> QED BY ONLY <3>2, <3>3, Zenon
  <2>2. over.op = "jal" /\ over.rd = 0
    BY <1>13
  <2>3. CallParts(over, ret, x, y, body, J, w, D)
    BY ONLY <1>7, <1>9, <1>10, <1>14, <2>1, <2>2, over \in Halfword, x \in Halfword, y \in Halfword, Zenon
       DEF CallParts
  <2> QED BY ONLY <2>3, PartsLayout
<1>16. c = (J \o (body \o w)) \o D
  BY <1>3, <1>4, <1>13
<1> QED BY <1>6, <1>15, <1>16, CallAnnotated


-----------------------------------------------------------------------------
(* Every group.                                                            *)

\* Every group of every generator function can be annotated.
LEMMA GroupsAnnotated ==
  ASSUME NEW name \in DOMAIN Groups, NEW c \in Groups[name]
  PROVE  \E K : Annotated(c, K)
<1>1. FREE_REGS \in SUBSET Int /\ FREE_REGS \subseteq Overwritten /\ BODY \in Nat /\ PATH \in Nat
  BY FreeAssumption, BoundAssumption DEF Overwritten
<1>2. ASSUME Block(c, FREE_REGS, Blockwise) PROVE \E K : Annotated(c, K)
  <2>1. Block(c, Overwritten, Blockwise)
    BY <1>1, <1>2, BlockWider
  <2> QED BY <2>1, BlockAnnotated
<1>3. ASSUME Block(c, FREE_REGS, Plain) PROVE \E K : Annotated(c, K)
  <2>1. Block(c, FREE_REGS, Blockwise)
    BY <1>3, BlockWider DEF Blockwise
  <2> QED BY <1>2, <2>1
<1>4. CASE c \in GenSimple(FREE_REGS) \union GenLi(FREE_REGS) \union GenCsr(FREE_REGS) \union GenFence
  BY <1>1, <1>3, <1>4, SimpleBlocks DEF GenFence
<1>5. CASE c \in GenStoreLoadPair(FREE_REGS) \union GenStoreBurst(FREE_REGS)
                 \union GenCompressedMem(FREE_REGS) \union GenFp(FREE_REGS)
  BY <1>1, <1>3, <1>5, MemoryBlocks
<1>6. CASE c \in GenForwardBranch(FREE_REGS) \union GenJump(FREE_REGS)
  BY <1>1, <1>2, <1>6, BranchBlocks, JumpBlocks
<1>7. CASE c \in GenLateBranch(FREE_REGS) \union GenFpBranch(FREE_REGS)
  BY <1>1, <1>2, <1>7, LateBranchBlocks, FpBranchBlocks
<1>8. CASE c \in GenLoop(FREE_REGS)
  <2>1. Block(c, Overwritten, Blockwise)
    BY <1>1, <1>8, LoopBlocks DEF Overwritten
  <2> QED BY <2>1, BlockAnnotated
<1>9. CASE c \in GenTrap(FREE_REGS)
  <2>1. CASE c \in PointedTraps(FREE_REGS)
    BY <2>1, PointedTrapsAnnotated
  <2>2. CASE c \notin PointedTraps(FREE_REGS)
    BY <1>1, <1>2, <1>9, <2>2, TrapBlocks
  <2> QED BY <2>1, <2>2
<1>10. CASE c \in GenAtomic(FREE_REGS)
  BY <1>10, AtomicAnnotated
<1>11. CASE c \in GenDepChain(FREE_REGS)
  BY <1>1, <1>11, DepChainIsChain, ChainAnnotated
<1>12. CASE c \in GenCall(FREE_REGS)
  BY <1>12, CallBlocks
<1>13. \/ c \in GenSimple(FREE_REGS) \union GenLi(FREE_REGS) \union GenCsr(FREE_REGS) \union GenFence
       \/ c \in GenStoreLoadPair(FREE_REGS) \union GenStoreBurst(FREE_REGS)
                 \union GenCompressedMem(FREE_REGS) \union GenFp(FREE_REGS)
       \/ c \in GenForwardBranch(FREE_REGS) \union GenJump(FREE_REGS)
       \/ c \in GenLateBranch(FREE_REGS) \union GenFpBranch(FREE_REGS)
       \/ c \in GenLoop(FREE_REGS) \union GenTrap(FREE_REGS) \union GenAtomic(FREE_REGS)
       \/ c \in GenDepChain(FREE_REGS) \union GenCall(FREE_REGS)
  BY DEF Groups
<1> QED BY <1>4, <1>5, <1>6, <1>7, <1>8, <1>9, <1>10, <1>11, <1>12, <1>13

-----------------------------------------------------------------------------
(* The prologue and the seeds.                                             *)

\* Three addresses, and then words into registers that are not bases.
Opens(g, s) ==
  /\ Linear(g, s) /\ Len(s) >= 3
  /\ s[1].op = "ladata" /\ s[1].rd = gp /\ s[1].n = 2048
  /\ s[2].op = "ladata" /\ s[2].rd = s1 /\ s[2].n = 0
  /\ s[3].op = "ladata" /\ s[3].rd = sp /\ s[3].n = 1024
  /\ \A m \in 4 .. Len(s) : s[m].op = "write" /\ s[m].rd \in Overwritten

Words32(g) == \E s : Linear(g, s) /\ \A m \in 1 .. Len(s) : s[m].op = "write" /\ s[m].rd \in Overwritten

\* No word at all,
LEMMA Words32Empty == Words32(<<>>)
<1>1. Linear(<<>>, <<>>) /\ Len(<<>>) = 0
  BY DEF Linear
<1> QED BY <1>1 DEF Words32

\* one word,
LEMMA Words32One == \A r \in Overwritten : Words32(Wide(Write(r)))
<1> SUFFICES ASSUME NEW r \in Overwritten PROVE Words32(Wide(Write(r)))
  OBVIOUS
<1>1. PICK w, s : w = Write(r) /\ s = <<w>>
  OBVIOUS
<1>2. w \in Halfword /\ w.op = "write" /\ w.rd = r
  <2>1. r \in Int
    BY FreeAssumption DEF Overwritten, LOOP_REG
  <2> QED BY <1>1, <2>1, Instructions
<1>3. Linear(Wide(w), s)
  BY <1>1, <1>2, LinearOne
<1>4. Len(s) = 1 /\ s[1] = w
  BY <1>1
<1> QED BY <1>1, <1>2, <1>3, <1>4 DEF Words32

\* s in front of t.
LEMMA Behind ==
  ASSUME NEW s \in Seq(Halfword), NEW t \in Seq(Halfword)
  PROVE  /\ s \o t \in Seq(Halfword) /\ Len(s \o t) = Len(s) + Len(t)
         /\ \A m \in 1 .. Len(s) : (s \o t)[m] = s[m]
         /\ \A m \in 1 .. Len(s \o t) : m > Len(s) => \E j \in 1 .. Len(t) : (s \o t)[m] = t[j]
<1>1. /\ s \o t \in Seq(Halfword) /\ Len(s \o t) = Len(s) + Len(t)
      /\ \A k \in 1 .. Len(s) : (s \o t)[k] = s[k]
      /\ \A k \in 1 .. Len(t) : (s \o t)[Len(s) + k] = t[k]
  BY ONLY s \in Seq(Halfword), t \in Seq(Halfword), Joined
<1>2. PICK u : u = s \o t
  OBVIOUS
<1>3. ASSUME NEW m \in 1 .. Len(u), m > Len(s) PROVE \E j \in 1 .. Len(t) : u[m] = t[j]
  <2>1. m - Len(s) \in 1 .. Len(t) /\ m = Len(s) + (m - Len(s))
    BY <1>1, <1>2, <1>3
  <2> QED BY <1>1, <1>2, <2>1
<1> QED BY <1>1, <1>2, <1>3

\* and words behind words.
LEMMA Words32Concat ==
  ASSUME NEW a, NEW b, Words32(a), Words32(b)
  PROVE  Words32(a \o b)
<1>1. PICK s : Linear(a, s) /\ \A m \in 1 .. Len(s) : s[m].op = "write" /\ s[m].rd \in Overwritten
  BY DEF Words32
<1>2. PICK t : Linear(b, t) /\ \A m \in 1 .. Len(t) : t[m].op = "write" /\ t[m].rd \in Overwritten
  BY DEF Words32
<1>3. PICK u : u = s \o t
  OBVIOUS
<1>4. Linear(a \o b, u)
  BY <1>1, <1>2, <1>3, LinearConcat
<1>5. s \in Seq(Halfword) /\ t \in Seq(Halfword) /\ Len(s) \in Nat
  <2>1. s \in Seq(Halfword) /\ t \in Seq(Halfword)
    BY <1>1, <1>2 DEF Linear
  <2> QED BY ONLY <2>1
<1>6. /\ \A m \in 1 .. Len(s) : u[m] = s[m]
      /\ \A m \in 1 .. Len(u) : m > Len(s) => \E j \in 1 .. Len(t) : u[m] = t[j]
  <2>1. /\ \A m \in 1 .. Len(s) : (s \o t)[m] = s[m]
        /\ \A m \in 1 .. Len(s \o t) : m > Len(s) => \E j \in 1 .. Len(t) : (s \o t)[m] = t[j]
    BY ONLY <1>5, Behind
  <2> QED BY ONLY <1>3, <2>1, Zenon
<1>7. ASSUME NEW m \in 1 .. Len(u) PROVE u[m].op = "write" /\ u[m].rd \in Overwritten
  <2>1. CASE m > Len(s)
    <3>1. PICK j \in 1 .. Len(t) : u[m] = t[j]
      BY <1>6, <2>1
    <3> QED BY <1>2, <3>1
  <2>2. CASE m <= Len(s)
    <3>1. m \in 1 .. Len(s)
      BY <1>5, <2>2
    <3> QED BY <1>1, <1>6, <3>1
  <2> QED BY <1>5, <2>1, <2>2
<1> QED BY <1>4, <1>7 DEF Words32

\* The registers that are seeded.
LEMMA Seeded ==
  /\ Cardinality(FREE_REGS) \in Nat
  /\ SetToSeq(FREE_REGS \union {LOOP_REG}) \in [1 .. Cardinality(FREE_REGS) + 1 -> Overwritten]
<1>1. IsFiniteSet(FREE_REGS)
  <2>1. IsFiniteSet(1 .. 30) /\ FREE_REGS \in SUBSET (1 .. 30)
    <3>1. 1 \in Int /\ 30 \in Int
      OBVIOUS
    <3>2. IsFiniteSet(1 .. 30)
      BY ONLY <3>1, FS_Interval
    <3>3. FREE_REGS \in SUBSET (1 .. 30)
      BY FreeAssumption
    <3> QED BY <3>2, <3>3
  <2> QED BY <2>1, FS_Subset
<1>2. PICK S : S = FREE_REGS \union {LOOP_REG}
  OBVIOUS
<1>3. LOOP_REG \notin FREE_REGS
  BY FreeAssumption DEF LOOP_REG
<1>4. IsFiniteSet(S) /\ Cardinality(S) = Cardinality(FREE_REGS) + 1
  BY <1>1, <1>2, <1>3, FS_AddElement
<1>5. Cardinality(FREE_REGS) \in Nat /\ ExistsBijection(1 .. Cardinality(S), S)
  BY <1>1, <1>4, FS_CardinalityType
<1>6. PICK f \in [1 .. Cardinality(S) -> S] : IsInjective(f)
  <2>1. PICK f \in Bijection(1 .. Cardinality(S), S) : TRUE
    BY <1>5 DEF ExistsBijection
  <2>2. f \in [1 .. Cardinality(S) -> S] /\ \A a, b \in 1 .. Cardinality(S) : f[a] = f[b] => a = b
    BY <2>1 DEF Bijection, Injection, IsInjective
  <2>3. DOMAIN f = 1 .. Cardinality(S)
    BY <2>2
  <2> QED BY <2>2, <2>3 DEF IsInjective
<1>7. SetToSeq(S) \in [1 .. Cardinality(S) -> S]
  BY <1>6 DEF SetToSeq
<1> QED BY <1>2, <1>4, <1>5, <1>7 DEF Overwritten

\* The seeds write words into registers that are not bases.
LEMMA SeedsAreWords == Words32(Seeds)
<1>0. PICK n \in Nat : n = Cardinality(FREE_REGS) + 1
  BY Seeded
<1>1. PICK f : n = Cardinality(FREE_REGS) + 1 /\ f = SetToSeq(FREE_REGS \union {LOOP_REG})
  BY <1>0
<1>2. f \in [1 .. n -> Overwritten]
  BY <1>1, Seeded
<1>3. PICK s : s = [k \in 1 .. n |-> Wide(Write(f[k]))]
  OBVIOUS
<1>4. Seeds = FlattenSeq(s)
  BY <1>1, <1>3 DEF Seeds
<1> DEFINE T == {g \in Seq(Halfword) : Words32(g)}
<1>5. \A g : g \in T <=> Words32(g)
  BY DEF Words32, Linear
<1> HIDE DEF T
<1>6. <<>> \in T /\ \A a, b \in T : a \o b \in T
  BY <1>5, Words32Empty, Words32Concat
<1>7. s \in [1 .. n -> T]
  <2>1. \A k \in 1 .. n : Wide(Write(f[k])) \in T
    BY <1>2, <1>5, Words32One
  <2> QED BY <1>3, <2>1
<1>8. FlattenSeq(s) \in T
  BY <1>6, <1>7, FlattenClosed
<1> QED BY <1>4, <1>5, <1>8

\* The prologue sets the bases, in this order.
LEMMA PrologueOpens == \E s : Opens(Prologue \o Seeds, s)
<1>1. PICK t : Linear(Seeds, t) /\ \A m \in 1 .. Len(t) : t[m].op = "write" /\ t[m].rd \in Overwritten
  BY SeedsAreWords DEF Words32
<1>2. PICK a, b, c : a = LaData(gp, 2048) /\ b = LaData(s1, 0) /\ c = LaData(sp, 1024)
  OBVIOUS
<1>3. /\ a \in Halfword /\ a.op = "ladata" /\ a.rd = gp /\ a.n = 2048
      /\ b \in Halfword /\ b.op = "ladata" /\ b.rd = s1 /\ b.n = 0
      /\ c \in Halfword /\ c.op = "ladata" /\ c.rd = sp /\ c.n = 1024
  BY <1>2 DEF LaData, Instr, Halfword, Op, gp, s1, sp
<1> DEFINE p == (<<a>> \o <<b>>) \o <<c>>
           u == p \o t
<1>4. Prologue = Wide(a) \o Wide(b) \o Wide(c)
  BY <1>2 DEF Prologue
<1>5. Linear(Prologue, p)
  BY <1>3, <1>4, LinearOne, LinearConcat
<1>6. Len(p) = 3 /\ p[1] = a /\ p[2] = b /\ p[3] = c
  OBVIOUS
<1> HIDE DEF p
<1>7. Linear(Prologue \o Seeds, u)
  BY <1>1, <1>5, LinearConcat
<1>8. p \in Seq(Halfword) /\ t \in Seq(Halfword)
  BY <1>1, <1>5 DEF Linear
<1>9. /\ u \in Seq(Halfword) /\ Len(u) = Len(p) + Len(t)
      /\ \A m \in 1 .. Len(p) : u[m] = p[m]
      /\ \A m \in 1 .. Len(u) : m > Len(p) => \E j \in 1 .. Len(t) : u[m] = t[j]
  BY <1>8, Behind
<1> HIDE DEF u
<1>10. u[1] = a /\ u[2] = b /\ u[3] = c /\ Len(u) >= 3
  BY <1>6, <1>8, <1>9
<1>11. ASSUME NEW m \in 4 .. Len(u) PROVE u[m].op = "write" /\ u[m].rd \in Overwritten
  <2>1. m \in 1 .. Len(u) /\ m > Len(p)
    BY <1>6
  <2>2. PICK j \in 1 .. Len(t) : u[m] = t[j]
    BY <1>9, <2>1
  <2> QED BY <1>1, <2>2
<1> QED BY <1>3, <1>7, <1>10, <1>11 DEF Opens

-----------------------------------------------------------------------------
(* The invariant: the hart is at the start of an instruction, and what the *)
(* generator knows there holds.                                            *)

BaseKept(r) == regs[r] = Data(BaseAt(r))
BasesKept == \A r \in BASE_REGS : BaseKept(r)

Holds(f) ==
  /\ f.reg \in Register /\ regs[f.reg] \in f.vals
  /\ f.held => resv # NoReservation

\* In the prologue and the seeds, at instruction m.
Opening ==
  \E s : /\ Opens(group, s)
         /\ \E m \in 1 .. Len(s) + 1 : /\ pc = 2 * m - 1
                                       /\ m > 1 => BaseKept(gp)
                                       /\ m > 2 => BaseKept(s1)
                                       /\ m > 3 => BaseKept(sp)

\* In a group that was emitted, or between two.
Emitted ==
  /\ BasesKept
  /\ \E K : Annotated(group, K) /\ Start(group, pc) /\ Holds(K[pc])

ProgramIInv ==
  /\ regs = [r \in Register |-> regs[r]]
  /\ group = <<>> => pc = 1
  /\ Opening \/ Emitted

\* No group overwrites a base.
LEMMA Bases ==
  /\ BASE_REGS = {sp, gp, s1} /\ BASE_REGS \subseteq Register
  /\ gp \notin Overwritten /\ s1 \notin Overwritten /\ sp \notin Overwritten
  /\ 0 \notin Register /\ Overwritten \subseteq Register
  /\ BaseAt(gp) = 2048 /\ BaseAt(s1) = 0 /\ BaseAt(sp) = 1024
BY FreeAssumption DEF BASE_REGS, sp, gp, s1, Overwritten, Register, LOOP_REG, BaseAt

\* A program starts at its prologue.
LEMMA ProgramInitIInv == ProgramInit => ProgramIInv
<1> SUFFICES ASSUME ProgramInit PROVE ProgramIInv
  OBVIOUS
<1>1. PICK s : Opens(group, s)
  BY PrologueOpens DEF ProgramInit
<1>2. s \in Seq(Halfword) /\ group \in Seq(Halfword) /\ Len(s) \in Nat /\ Len(s) >= 3 /\ Len(group) = 2 * Len(s)
  <2>1. s \in Seq(Halfword) /\ group \in Seq(Halfword) /\ Len(s) >= 3 /\ Len(group) = 2 * Len(s)
    BY <1>1 DEF Opens, Linear
  <2> QED BY <2>1
<1>3. pc = 1
  BY DEF ProgramInit
<1>4. Opening
  <2>1. 1 \in 1 .. Len(s) + 1 /\ pc = 2 * 1 - 1
    BY <1>2, <1>3
  <2> QED BY <1>1, <2>1 DEF Opening
<1>5. regs = [r \in Register |-> regs[r]]
  BY DEF ProgramInit, Register
<1> QED BY <1>3, <1>4, <1>5 DEF ProgramIInv

\* What is known behind an instruction holds behind it.
LEMMA KnownBehind ==
  ASSUME BasesKept, NEW g, NEW i, NEW k, NEW f, NEW h, Holds(f), Gives(g, i, k, f, h),
         i.rd \in Overwritten \union {0},
         \A r \in Register : r # i.rd => regs'[r] = regs[r],
         Makes(g, i, k, f, h) => regs'[i.rd] \in h.vals,
         f.held /\ i.op \notin MemoryOps => resv' # NoReservation,
         i.op = "lr" /\ ~i.faults => resv' # NoReservation
  PROVE  BasesKept' /\ Holds(h)'
<1>1. \A r \in BASE_REGS : r \in Register /\ r # i.rd
  BY Bases DEF BASE_REGS
<1>2. BasesKept'
  BY <1>1 DEF BasesKept, BaseKept
<1>3. CASE Free(h)
  <2>1. regs'[gp] = Data(2048) /\ gp \in Register
    BY <1>2, Bases DEF BasesKept, BaseKept
  <2> QED BY <1>2, <1>3, <2>1 DEF Free, Holds
<1>4. CASE Keeps(i, f, h)
  <2>1. h.reg \in Register /\ regs'[h.reg] = regs[f.reg] /\ regs[f.reg] \in h.vals
    BY <1>4 DEF Keeps, Holds
  <2>2. h.held => (f.held /\ i.op \notin MemoryOps) \/ (i.op = "lr" /\ ~i.faults) \/ Free(h)
    BY DEF Gives
  <2> QED BY <1>2, <1>3, <2>1, <2>2 DEF Holds
<1>5. CASE Makes(g, i, k, f, h)
  <2>1. h.reg \in Register /\ regs'[h.reg] \in h.vals
    BY <1>5, Bases DEF Makes
  <2>2. h.held => (f.held /\ i.op \notin MemoryOps) \/ (i.op = "lr" /\ ~i.faults) \/ Free(h)
    BY DEF Gives
  <2> QED BY <1>2, <1>3, <2>1, <2>2 DEF Holds
<1> QED BY <1>3, <1>4, <1>5 DEF Gives

\* The prologue and the seeds access no memory and jump nowhere.
LEMMA OpeningStarts ==
  ASSUME Opening
  PROVE  /\ group # <<>> /\ group \in Seq(Halfword) /\ Start(group, pc)
         /\ Running => At.op \in {"ladata", "write"}
         /\ pc = Len(group) + 1 => BasesKept
<1>0. PICK s : /\ Opens(group, s)
               /\ \E m \in 1 .. Len(s) + 1 : /\ pc = 2 * m - 1
                                             /\ m > 1 => BaseKept(gp)
                                             /\ m > 2 => BaseKept(s1)
                                             /\ m > 3 => BaseKept(sp)
  BY DEF Opening
<1>1. PICK m \in 1 .. Len(s) + 1 :
        /\ Opens(group, s) /\ pc = 2 * m - 1
        /\ m > 1 => BaseKept(gp)
        /\ m > 2 => BaseKept(s1)
        /\ m > 3 => BaseKept(sp)
  BY <1>0
<1>2. /\ s \in Seq(Halfword) /\ group \in Seq(Halfword) /\ Len(s) >= 3 /\ Len(group) = 2 * Len(s)
      /\ \A j \in 1 .. Len(s) : group[2 * j - 1] = s[j] /\ group[2 * j] = SecondHalf
  BY <1>1 DEF Opens, Linear
<1>3. Len(s) \in Nat /\ DOMAIN group = 1 .. Len(group)
  BY <1>2
<1>4. \A j \in 1 .. Len(s) : s[j].op \in {"ladata", "write"}
  <2> SUFFICES ASSUME NEW j \in 1 .. Len(s) PROVE s[j].op \in {"ladata", "write"}
    OBVIOUS
  <2>1. j = 1 \/ j = 2 \/ j = 3 \/ j \in 4 .. Len(s)
    BY <1>3
  <2> QED BY <1>1, <2>1 DEF Opens
<1>5. Running => m \in 1 .. Len(s) /\ At = s[m]
  BY <1>1, <1>2, <1>3 DEF Running, At
<1>6. m \in 1 .. Len(s) => group[pc] # SecondHalf
  <2>1. SecondHalf.op = "tail"
    BY DEF SecondHalf, Instr
  <2>2. m \in 1 .. Len(s) => group[pc] = s[m]
    BY <1>1, <1>2
  <2> QED BY <1>4, <2>1, <2>2
<1>7. Start(group, pc)
  BY <1>1, <1>2, <1>3, <1>6 DEF Start
<1>8. pc = Len(group) + 1 => m > 3
  BY <1>1, <1>2, <1>3
<1>9. group # <<>>
  BY <1>2, <1>3
<1>10. pc = Len(group) + 1 => BasesKept
  BY <1>1, <1>8, Bases DEF BasesKept
<1> QED BY <1>2, <1>4, <1>5, <1>7, <1>9, <1>10

\* A step there sets a base or leaves those that are set.
LEMMA OpeningStep ==
  ASSUME ProgramIInv, Opening, Running, Hart
  PROVE  ProgramIInv' /\ Opening'
<1>0. PICK s : /\ Opens(group, s)
               /\ \E m \in 1 .. Len(s) + 1 : /\ pc = 2 * m - 1
                                             /\ m > 1 => BaseKept(gp)
                                             /\ m > 2 => BaseKept(s1)
                                             /\ m > 3 => BaseKept(sp)
  BY DEF Opening
<1>1. PICK m \in 1 .. Len(s) + 1 :
        /\ Opens(group, s) /\ pc = 2 * m - 1
        /\ m > 1 => BaseKept(gp)
        /\ m > 2 => BaseKept(s1)
        /\ m > 3 => BaseKept(sp)
  BY <1>0
<1>2. /\ s \in Seq(Halfword) /\ group \in Seq(Halfword) /\ Len(s) >= 3 /\ Len(group) = 2 * Len(s)
      /\ \A j \in 1 .. Len(s) : group[2 * j - 1] = s[j] /\ group[2 * j] = SecondHalf
  BY <1>1 DEF Opens, Linear
<1>3. Len(s) \in Nat /\ DOMAIN group = 1 .. Len(group)
  BY <1>2
<1>4. m \in 1 .. Len(s) /\ At = s[m]
  BY <1>1, <1>2, <1>3 DEF Running, At
<1>5. At.op \in {"ladata", "write"}
  BY OpeningStarts
<1>6. /\ \E v \in Result(At) : Set(At.rd, v)
      /\ pc' = After(pc) /\ group' = group
  <2>1. Compute
    BY <1>5 DEF Hart, NoResult, Reach, BranchTo, JumpTo, JumpToRegister, Trapped, MemoryOps
  <2> QED BY <2>1 DEF Compute
<1>7. pc' = 2 * (m + 1) - 1 /\ m + 1 \in 1 .. Len(s) + 1
  <2>1. group[pc + 1] = SecondHalf /\ pc < Len(group)
    <3>1. pc + 1 = 2 * m /\ pc < Len(group)
      BY <1>1, <1>2, <1>3, <1>4
    <3> QED BY <1>2, <1>4, <3>1
  <2>2. pc' = pc + 2
    BY <1>6, <2>1 DEF After
  <2> QED BY <1>1, <1>3, <1>4, <2>2
<1>8. PICK v \in Result(At) : regs' = IF At.rd = 0 THEN regs ELSE [regs EXCEPT ![At.rd] = v]
  BY <1>6 DEF Set
<1>9. regs = [r \in Register |-> regs[r]]
  BY DEF ProgramIInv
<1>10. regs' = [r \in Register |-> regs'[r]]
  BY <1>8, <1>9
<1>11. At.rd \in Register /\ At.rd # 0
  <2>1. m = 1 \/ m = 2 \/ m = 3 \/ m \in 4 .. Len(s)
    BY <1>3, <1>4
  <2>2. CASE m = 1
    BY <1>1, <1>4, <2>2, Bases DEF Opens
  <2>3. CASE m = 2
    BY <1>1, <1>4, <2>3, Bases DEF Opens
  <2>4. CASE m = 3
    BY <1>1, <1>4, <2>4, Bases DEF Opens
  <2>5. CASE m \in 4 .. Len(s)
    BY <1>1, <1>4, <2>5, Bases DEF Opens
  <2> QED BY <2>1, <2>2, <2>3, <2>4, <2>5
<1>12. regs'[At.rd] = v /\ \A r \in Register : r # At.rd => regs'[r] = regs[r]
  BY <1>8, <1>9, <1>11
<1>13. /\ m = 1 => At.rd = gp /\ v = Data(BaseAt(gp))
       /\ m = 2 => At.rd = s1 /\ v = Data(BaseAt(s1))
       /\ m = 3 => At.rd = sp /\ v = Data(BaseAt(sp))
       /\ m > 3 => At.rd \in Overwritten
  <2>1. At.op = "ladata" => v = Data(At.n)
    BY <1>8 DEF Result
  <2>2. m > 3 => m \in 4 .. Len(s)
    BY <1>3, <1>4
  <2> QED BY <1>1, <1>4, <2>1, <2>2, Bases DEF Opens
<1>14. /\ m + 1 > 1 => BaseKept(gp)'
       /\ m + 1 > 2 => BaseKept(s1)'
       /\ m + 1 > 3 => BaseKept(sp)'
  <2>0. gp # s1 /\ gp # sp /\ s1 # sp /\ gp \in Register /\ s1 \in Register /\ sp \in Register
    BY Bases DEF gp, s1, sp
  <2>1. m = 1 \/ m = 2 \/ m = 3 \/ m > 3
    BY <1>3, <1>4
  <2>2. CASE m = 1
    BY <1>12, <1>13, <2>0, <2>2 DEF BaseKept
  <2>3. CASE m = 2
    BY <1>1, <1>12, <1>13, <2>0, <2>3 DEF BaseKept
  <2>4. CASE m = 3
    BY <1>1, <1>12, <1>13, <2>0, <2>4 DEF BaseKept
  <2>5. CASE m > 3
    <3>1. At.rd # gp /\ At.rd # s1 /\ At.rd # sp
      BY <1>13, <2>5, Bases
    <3>2. BaseKept(gp) /\ BaseKept(s1) /\ BaseKept(sp)
      BY <1>1, <1>4, <2>5
    <3> QED BY <1>12, <2>0, <3>1, <3>2 DEF BaseKept
  <2> QED BY <2>1, <2>2, <2>3, <2>4, <2>5
<1>15. Opening'
  BY <1>1, <1>6, <1>7, <1>14 DEF Opening
<1>16. group' # <<>>
  BY <1>6, OpeningStarts
<1> QED BY <1>10, <1>15, <1>16 DEF ProgramIInv

-----------------------------------------------------------------------------
(* Groups begin and end.                                                   *)

\* Nothing is known at the first instruction that the bases do not give.
LEMMA AtFirst ==
  ASSUME BasesKept', NEW K, Annotated(group', K), pc' = 1
  PROVE  Emitted'
<1>1. Free(K[1]) /\ Start(group', 1)
  <2>1. Len(group') \in Nat
    BY DEF Annotated
  <2> QED BY <2>1 DEF Annotated, Start
<1>2. gp \in Register /\ regs'[gp] = Data(2048)
  BY Bases DEF BasesKept, BaseKept
<1>3. Holds(K[1])'
  BY <1>1, <1>2 DEF Holds, Free
<1> QED BY <1>1, <1>3 DEF Emitted

\* A group that is emitted is annotated, and the bases hold at its start.
LEMMA EmitStep ==
  ASSUME ProgramIInv, NEW name \in DOMAIN Groups, Emit(name)
  PROVE  ProgramIInv'
<1>1. group = <<>> /\ pc = 1 /\ group' \in Groups[name] /\ UNCHANGED <<pc, regs, resv>>
  BY DEF Emit, ProgramIInv
<1>2. Emitted
  BY <1>1, OpeningStarts DEF ProgramIInv
<1>3. PICK K : Annotated(group', K)
  BY <1>1, GroupsAnnotated
<1>4. BasesKept' /\ pc' = 1
  BY <1>1, <1>2 DEF Emitted, BasesKept, BaseKept
<1>5. Emitted'
  BY <1>3, <1>4, AtFirst
<1> QED BY <1>1, <1>4, <1>5 DEF ProgramIInv

\* Behind a group the bases still hold.
LEMMA EndGroupStep ==
  ASSUME ProgramIInv, EndGroup
  PROVE  ProgramIInv'
<1>1. /\ pc = Len(group) + 1 /\ group' = <<>> /\ pc' = 1
      /\ regs' = [r \in DOMAIN regs |-> IF r \in BASE_REGS THEN regs[r] ELSE Junk]
  BY DEF EndGroup
<1>2. BasesKept
  BY <1>1, OpeningStarts DEF ProgramIInv, Emitted
<1>3. DOMAIN regs = Register
  <2>1. regs = [r \in Register |-> regs[r]]
    BY DEF ProgramIInv
  <2> QED BY <2>1
<1>4. BasesKept'
  BY <1>1, <1>2, <1>3, Bases DEF BasesKept, BaseKept
<1>5. PICK K : Annotated(<<>>, K)
  <2>1. Block(<<>>, Overwritten, Blockwise)
    BY BlockEmpty
  <2> QED BY <2>1, BlockAnnotated
<1>6. Emitted'
  BY <1>1, <1>4, <1>5, AtFirst
<1>7. regs' = [r \in Register |-> regs'[r]]
  BY <1>1, <1>3
<1> QED BY <1>1, <1>6, <1>7 DEF ProgramIInv

-----------------------------------------------------------------------------
(* The hart in a group.                                                    *)

\* The hart is at an instruction of the group that K annotates.
Here(K) ==
  /\ Running /\ regs = [r \in Register |-> regs[r]]
  /\ BasesKept /\ Annotated(group, K) /\ Start(group, pc) /\ Holds(K[pc])

\* What the annotation says of the instruction at pc.
LEMMA HereFacts ==
  ASSUME NEW K, Here(K)
  PROVE  /\ group \in Seq(Halfword) /\ Len(group) \in Nat /\ pc \in 1 .. Len(group)
         /\ At = group[pc] /\ At \in Halfword /\ Proper(group, K, pc, At)
         /\ At.rd \in Overwritten \union {0}
         /\ Start(group, After(pc)) /\ After(pc) = Following(group, pc)
         /\ After(pc) \in {pc + 1, pc + 2} /\ (After(pc) = pc + 2 <=> ~Start(group, pc + 1))
<1>1. /\ group \in Seq(Halfword)
      /\ \A k \in 1 .. Len(group) : group[k] = SecondHalf => k > 1 /\ Start(group, k + 1)
      /\ \A k \in 1 .. Len(group) : group[k] # SecondHalf => Proper(group, K, k, group[k])
  BY DEF Here, Annotated
<1>2. Len(group) \in Nat /\ pc \in 1 .. Len(group)
  BY <1>1 DEF Here, Running
<1>3. At = group[pc] /\ At \in Halfword /\ At # SecondHalf
  <2>1. At = group[pc]
    BY DEF At
  <2>2. group[pc] # SecondHalf
    <3>1. Start(group, pc)
      BY DEF Here
    <3> QED BY ONLY <1>2, <3>1 DEF Start
  <2> QED BY ONLY <1>1, <1>2, <2>1, <2>2
<1>4. Proper(group, K, pc, At)
  BY <1>1, <1>2, <1>3
<1>5. At.rd \in Overwritten \union {0}
  BY <1>4 DEF Proper
<1>6. /\ Start(group, Following(group, pc)) /\ Following(group, pc) \in {pc + 1, pc + 2}
      /\ Following(group, pc) = pc + 2 <=> ~Start(group, pc + 1)
      /\ After(pc) = Following(group, pc)
  BY <1>1, <1>2, <1>3, FollowingStarts
<1> QED BY <1>1, <1>2, <1>3, <1>4, <1>5, <1>6

\* The hart reaches t, and what is known there holds.
LEMMA Arrives ==
  ASSUME NEW K, Here(K), NEW t, pc' = t, group' = group, Start(group, t),
         Gives(group, At, pc, K[pc], K[t]),
         regs' = [r \in Register |-> regs'[r]],
         \A r \in Register : r # At.rd => regs'[r] = regs[r],
         Makes(group, At, pc, K[pc], K[t]) => regs'[At.rd] \in K[t].vals,
         At.op \notin MemoryOps => resv' = resv,
         At.op = "lr" /\ ~At.faults => resv' # NoReservation
  PROVE  ProgramIInv' /\ Emitted'
<1>1. BasesKept /\ Holds(K[pc]) /\ Annotated(group, K) /\ Running
  BY DEF Here
<1>2. At.rd \in Overwritten \union {0}
  BY HereFacts
<1>3. K[pc].held /\ At.op \notin MemoryOps => resv' # NoReservation
  BY <1>1 DEF Holds
<1>4. BasesKept' /\ Holds(K[t])'
  BY <1>1, <1>2, <1>3, KnownBehind
<1>5. Emitted'
  BY <1>1, <1>4 DEF Emitted
<1>6. group # <<>>
  BY <1>1 DEF Running
<1> QED BY <1>5, <1>6 DEF ProgramIInv

\* A register that is written.
LEMMA Written ==
  ASSUME NEW K, Here(K), NEW v, Set(At.rd, v)
  PROVE  /\ regs' = [r \in Register |-> regs'[r]]
         /\ \A r \in Register : r # At.rd => regs'[r] = regs[r]
         /\ At.rd # 0 => regs'[At.rd] = v
<1>1. At.rd \in Overwritten \union {0}
  BY HereFacts
<1>2. At.rd # 0 => At.rd \in Register
  BY <1>1, Bases
<1>3. regs = [r \in Register |-> regs[r]]
  BY DEF Here
<1>4. CASE At.rd = 0
  BY <1>3, <1>4 DEF Set
<1>5. CASE At.rd # 0
  BY <1>2, <1>3, <1>5 DEF Set
<1> QED BY <1>4, <1>5

\* What is computed is what the annotation says.
LEMMA ComputeStep ==
  ASSUME NEW K, Here(K), Compute
  PROVE  ProgramIInv' /\ Emitted'
<1>1. /\ At.op \in {"write", "set", "ladata", "lacode", "addi", "andi", "addgp"}
      /\ pc' = After(pc) /\ group' = group /\ resv' = resv
  BY DEF Compute
<1>2. PICK v \in Result(At) : Set(At.rd, v)
  BY DEF Compute
<1>3. /\ Proper(group, K, pc, At) /\ Start(group, After(pc)) /\ After(pc) = Following(group, pc)
  BY HereFacts
<1>4. Gives(group, At, pc, K[pc], K[After(pc)])
  BY <1>1, <1>3 DEF Proper, MemoryOps
<1>5. /\ regs' = [r \in Register |-> regs'[r]]
      /\ \A r \in Register : r # At.rd => regs'[r] = regs[r]
      /\ At.rd # 0 => regs'[At.rd] = v
  BY <1>2, Written
<1>6. regs[K[pc].reg] \in K[pc].vals
  BY DEF Here, Holds
<1>7. ASSUME Makes(group, At, pc, K[pc], K[After(pc)]) PROVE regs'[At.rd] \in K[After(pc)].vals
  <2>1. At.rd # 0 /\ regs'[At.rd] = v
    BY <1>5, <1>7 DEF Makes
  <2>2. CASE At.op = "addi"
    BY <1>2, <1>6, <1>7, <2>1, <2>2 DEF Makes, Result
  <2>3. CASE At.op = "andi"
    BY <1>2, <1>7, <2>1, <2>3 DEF Makes, Result
  <2>4. CASE At.op = "addgp"
    <3>1. At.rs = K[pc].reg /\ \A w \in K[pc].vals : w.base = "num" /\ Data(2048 + w.n) \in K[After(pc)].vals
      BY <1>7, <2>4 DEF Makes
    <3>2. PICK w : w = regs[At.rs] /\ w.base = "num" /\ Data(2048 + w.n) \in K[After(pc)].vals
      BY <1>6, <3>1
    <3>3. regs[gp] = Data(2048)
      BY Bases DEF Here, BasesKept, BaseKept
    <3>4. v = Plus(Data(2048), w.n)
      BY <1>2, <2>4, <3>2, <3>3 DEF Result
    <3>5. v = Data(2048 + w.n)
      BY <3>4 DEF Plus, Data, Content
    <3> QED BY <2>1, <3>2, <3>5
  <2>5. CASE At.op = "lacode"
    BY <1>2, <1>7, <2>1, <2>5 DEF Makes, Result
  <2> QED BY <1>1, <1>7, <2>2, <2>3, <2>4, <2>5 DEF Makes
<1>8. At.op # "lr"
  BY <1>1
<1> QED BY <1>1, <1>3, <1>4, <1>5, <1>7, <1>8, Arrives

\* No register changes.
LEMMA NoResultStep ==
  ASSUME NEW K, Here(K), NoResult
  PROVE  ProgramIInv' /\ Emitted'
<1>1. At.op = "other" /\ pc' = After(pc) /\ group' = group /\ resv' = resv /\ regs' = regs
  BY DEF NoResult
<1>2. /\ Proper(group, K, pc, At) /\ Start(group, After(pc)) /\ After(pc) = Following(group, pc)
  BY HereFacts
<1>3. Gives(group, At, pc, K[pc], K[After(pc)])
  BY <1>1, <1>2 DEF Proper, MemoryOps
<1>4. ~Makes(group, At, pc, K[pc], K[After(pc)])
  BY <1>1 DEF Makes
<1>5. regs' = [r \in Register |-> regs'[r]]
  BY <1>1 DEF Here
<1> QED BY <1>1, <1>2, <1>3, <1>4, <1>5, Arrives

\* Every access is to an address that is known, and every sc.w follows an lr.w.
LEMMA Known ==
  ASSUME NEW K, Here(K), At.op \in MemoryOps
  PROVE  /\ regs[At.rs].base = "data"
         /\ \A a \in Accesses : IF At.faults THEN ~Aligned(a) ELSE Aligned(a) /\ InArea(a)
         /\ At.op = "sc" => resv # NoReservation
<1>1. Points(At, K[pc]) /\ (At.op = "sc" => K[pc].held)
  <2>1. Proper(group, K, pc, At)
    BY HereFacts
  <2> QED BY <2>1 DEF Proper, MemoryOps
<1>2. regs[K[pc].reg] \in K[pc].vals /\ (K[pc].held => resv # NoReservation)
  BY DEF Here, Holds
<1>3. regs[At.rs].base = "data" /\ Reaches(At, regs[At.rs].n)
  <2>1. CASE At.rs \in BASE_REGS /\ Reaches(At, BaseAt(At.rs))
    <3>1. regs[At.rs] = Data(BaseAt(At.rs))
      BY <2>1 DEF Here, BasesKept, BaseKept
    <3>2. Data(BaseAt(At.rs)).base = "data" /\ Data(BaseAt(At.rs)).n = BaseAt(At.rs)
      BY DEF Data, Content
    <3> QED BY <2>1, <3>1, <3>2
  <2>2. CASE At.rs = K[pc].reg /\ \A v \in K[pc].vals : v.base = "data" /\ Reaches(At, v.n)
    BY <1>2, <2>2
  <2> QED BY <1>1, <2>1, <2>2 DEF Points
<1>4. \A a \in Accesses : IF At.faults THEN ~Aligned(a) ELSE Aligned(a) /\ InArea(a)
  <2> SUFFICES ASSUME NEW a \in Accesses
               PROVE  IF At.faults THEN ~Aligned(a) ELSE Aligned(a) /\ InArea(a)
    OBVIOUS
  <2>1. PICK b \in At.at : a = <<regs[At.rs].n + b[1], b[2]>>
    BY DEF Accesses
  <2>2. a[1] = regs[At.rs].n + b[1] /\ a[2] = b[2]
    BY <2>1
  <2>3. IF At.faults THEN a[1] % a[2] # 0 ELSE Allowed(a[1], a[2])
    BY <1>3, <2>2 DEF Reaches
  <2> QED BY <2>3 DEF Aligned, InArea, Allowed
<1> QED BY <1>1, <1>2, <1>3, <1>4

\* An access overwrites rd, and an lr.w reserves an address of the area.
LEMMA ReachStep ==
  ASSUME NEW K, Here(K), Reach
  PROVE  ProgramIInv' /\ Emitted'
<1>1. At.op \in MemoryOps /\ Set(At.rd, Junk) /\ pc' = After(pc) /\ group' = group
  BY DEF Reach
<1>2. PICK a \in Accesses :
        /\ Aligned(a)
        /\ resv' = CASE At.op = "lr" -> a[1] [] At.op = "load" -> resv [] OTHER -> NoReservation
  BY DEF Reach
<1>3. InArea(a)
  BY <1>1, <1>2, Known
<1>4. At.op = "lr" => resv' # NoReservation
  BY <1>2, <1>3 DEF InArea, NoReservation
<1>5. /\ Proper(group, K, pc, At) /\ Start(group, After(pc)) /\ After(pc) = Following(group, pc)
  BY HereFacts
<1>6. Gives(group, At, pc, K[pc], K[After(pc)])
  BY <1>1, <1>5 DEF Proper, MemoryOps
<1>7. ~Makes(group, At, pc, K[pc], K[After(pc)])
  BY <1>1 DEF Makes, MemoryOps
<1>8. /\ regs' = [r \in Register |-> regs'[r]]
      /\ \A r \in Register : r # At.rd => regs'[r] = regs[r]
  BY <1>1, Written
<1> QED BY <1>1, <1>4, <1>5, <1>6, <1>7, <1>8, Arrives

\* Both ways of a branch are annotated.
LEMMA BranchToStep ==
  ASSUME NEW K, Here(K), BranchTo
  PROVE  ProgramIInv' /\ Emitted'
<1>1. At.op \in {"branch", "bnez"} /\ group' = group /\ resv' = resv /\ regs' = regs
      /\ (pc' = pc + At.n \/ pc' = After(pc))
  BY DEF BranchTo, GoTo
<1>2. /\ Proper(group, K, pc, At) /\ Start(group, After(pc)) /\ After(pc) = Following(group, pc)
  BY HereFacts
<1>3. PICK t : t = pc' /\ Start(group, t) /\ Gives(group, At, pc, K[pc], K[t])
  BY <1>1, <1>2 DEF Proper, MemoryOps
<1>4. ~Makes(group, At, pc, K[pc], K[t])
  BY <1>1 DEF Makes
<1>5. regs' = [r \in Register |-> regs'[r]]
  BY <1>1 DEF Here
<1> QED BY <1>1, <1>3, <1>4, <1>5, Arrives

\* A jump leaves its return address.
LEMMA JumpToStep ==
  ASSUME NEW K, Here(K), JumpTo
  PROVE  ProgramIInv' /\ Emitted'
<1>1. /\ At.op = "jal" /\ Set(At.rd, Code(After(pc)))
      /\ group' = group /\ resv' = resv /\ pc' = pc + At.n
  BY DEF JumpTo, GoTo
<1>2. Proper(group, K, pc, At) /\ After(pc) = Following(group, pc)
  BY HereFacts
<1>3. PICK t : t = pc + At.n /\ Start(group, t) /\ Gives(group, At, pc, K[pc], K[t])
  BY <1>1, <1>2 DEF Proper, MemoryOps
<1>4. /\ regs' = [r \in Register |-> regs'[r]]
      /\ \A r \in Register : r # At.rd => regs'[r] = regs[r]
      /\ At.rd # 0 => regs'[At.rd] = Code(After(pc))
  BY <1>1, Written
<1>5. Makes(group, At, pc, K[pc], K[t]) => regs'[At.rd] \in K[t].vals
  BY <1>1, <1>2, <1>4 DEF Makes
<1> QED BY <1>1, <1>3, <1>4, <1>5, Arrives DEF MemoryOps

\* A return goes behind a call.
LEMMA JumpToRegisterStep ==
  ASSUME NEW K, Here(K), JumpToRegister
  PROVE  /\ ProgramIInv' /\ Emitted'
         /\ At.rd = 0 => \E k \in DOMAIN group : IsCall(k) /\ After(k) = pc'
<1>1. /\ At.op = "jalr" /\ Set(At.rd, Code(After(pc)))
      /\ group' = group /\ resv' = resv
      /\ pc' = IF regs[At.rs].base = "code" THEN regs[At.rs].n ELSE Outside
  BY DEF JumpToRegister, GoTo
<1>2. Proper(group, K, pc, At) /\ After(pc) = Following(group, pc) /\ group \in Seq(Halfword)
  BY HereFacts
<1>3. /\ At.rs = K[pc].reg
      /\ \E t \in Int : /\ Start(group, t) /\ K[pc].vals \subseteq {Code(t)}
                        /\ Gives(group, At, pc, K[pc], K[t])
                        /\ At.rd = 0 => \E m \in DOMAIN group : /\ group[m].op \in {"jal", "jalr"}
                                                             /\ group[m].rd = 1 /\ group[m] # SecondHalf
                                                             /\ t = Following(group, m)
  BY <1>1, <1>2 DEF Proper, MemoryOps
<1>4. PICK t \in Int : /\ Start(group, t) /\ K[pc].vals \subseteq {Code(t)}
                       /\ Gives(group, At, pc, K[pc], K[t])
                       /\ At.rd = 0 => \E m \in DOMAIN group : /\ group[m].op \in {"jal", "jalr"}
                                                             /\ group[m].rd = 1 /\ group[m] # SecondHalf
                                                             /\ t = Following(group, m)
  BY <1>3
<1>5. pc' = t
  <2>1. regs[At.rs] = Code(t)
    BY <1>3, <1>4 DEF Here, Holds
  <2>2. Code(t).base = "code" /\ Code(t).n = t
    BY DEF Code, Content
  <2> QED BY <1>1, <2>1, <2>2
<1>6. /\ regs' = [r \in Register |-> regs'[r]]
      /\ \A r \in Register : r # At.rd => regs'[r] = regs[r]
      /\ At.rd # 0 => regs'[At.rd] = Code(After(pc))
  BY <1>1, Written
<1>7. Makes(group, At, pc, K[pc], K[t]) => regs'[At.rd] \in K[t].vals
  BY <1>1, <1>2, <1>6 DEF Makes
<1>8. ProgramIInv' /\ Emitted'
  BY <1>1, <1>4, <1>5, <1>6, <1>7, Arrives DEF MemoryOps
<1>9. ASSUME At.rd = 0 PROVE \E k \in DOMAIN group : IsCall(k) /\ After(k) = pc'
  <2>1. PICK m \in DOMAIN group : /\ group[m].op \in {"jal", "jalr"}
                                  /\ group[m].rd = 1 /\ group[m] # SecondHalf
                                  /\ t = Following(group, m)
    BY <1>4, <1>9
  <2>2. m \in 1 .. Len(group)
    BY <1>2
  <2>3. \A k \in 1 .. Len(group) : group[k] = SecondHalf => k > 1 /\ Start(group, k + 1)
    BY DEF Here, Annotated
  <2>4. After(m) = Following(group, m)
    BY <1>2, <2>1, <2>2, <2>3, FollowingStarts
  <2> QED BY <1>5, <2>1, <2>4 DEF IsCall
<1> QED BY <1>8, <1>9

\* The handler comes back behind the instruction that trapped.
LEMMA TrappedStep ==
  ASSUME NEW K, Here(K), Trapped
  PROVE  ProgramIInv' /\ Emitted'
<1>1. /\ At.op = "trap" \/ (At.op \in MemoryOps /\ \E a \in Accesses : ~Aligned(a))
      /\ group' = group /\ resv' = resv /\ regs' = regs /\ pc' = Resumes(pc)
  BY DEF Trapped, GoTo
<1>2. /\ Proper(group, K, pc, At) /\ Start(group, After(pc)) /\ After(pc) = Following(group, pc)
      /\ After(pc) \in {pc + 1, pc + 2} /\ (After(pc) = pc + 2 <=> ~Start(group, pc + 1))
      /\ At = group[pc] /\ pc \in Nat
  BY HereFacts
<1>3. Gives(group, At, pc, K[pc], K[After(pc)])
  BY <1>1, <1>2 DEF Proper, MemoryOps
<1>4. pc' = After(pc)
  <2>1. CASE At.op = "trap"
    <3>1. At.n = 3 <=> ~Start(group, pc + 1)
      BY <1>2, <2>1 DEF Proper, MemoryOps
    <3>2. LowBits(pc) = At.n
      BY <1>2, <2>1 DEF LowBits
    <3> QED BY <1>1, <1>2, <3>1, <3>2 DEF Resumes
  <2>2. CASE At.op # "trap"
    <3>1. LowBits(pc) = IF After(pc) = pc + 2 THEN 3 ELSE 0
      BY <1>2, <2>2 DEF LowBits
    <3> QED BY <1>1, <1>2, <3>1 DEF Resumes
  <2> QED BY <2>1, <2>2
<1>5. ~Makes(group, At, pc, K[pc], K[After(pc)])
  BY <1>1 DEF Makes, MemoryOps
<1>6. regs' = [r \in Register |-> regs'[r]]
  BY <1>1 DEF Here
<1>7. ~(At.op = "lr" /\ ~At.faults)
  <2>1. ASSUME At.op \in MemoryOps, ~At.faults PROVE \A a \in Accesses : Aligned(a)
    BY <2>1, Known
  <2> QED BY <1>1, <2>1 DEF MemoryOps
<1> QED BY <1>1, <1>2, <1>3, <1>4, <1>5, <1>6, <1>7, Arrives

-----------------------------------------------------------------------------
(* The theorems.                                                           *)

\* The step before, seen from its successor.
LEMMA OpeningBehind == Opening' => Start(group', pc')
<1>1. Opening => Start(group, pc)
  BY OpeningStarts
<1>2. Opening' => Start(group, pc)'
  BY <1>1, PTL
<1> QED BY <1>2

\* Every step of the hart.
LEMMA HartStep ==
  ASSUME ProgramIInv, Running, Hart
  PROVE  /\ ProgramIInv' /\ group' = group /\ Start(group, pc')
         /\ At.op = "jalr" /\ At.rd = 0 => \E k \in DOMAIN group : IsCall(k) /\ After(k) = pc'
<1>1. group' = group
  BY DEF Hart, Compute, NoResult, Reach, BranchTo, JumpTo, JumpToRegister, Trapped, GoTo
<1>2. CASE Opening
  <2>1. ProgramIInv' /\ Opening'
    BY <1>2, OpeningStep
  <2>2. Start(group', pc')
    BY <2>1, OpeningBehind
  <2>3. At.op # "jalr"
    BY <1>2, OpeningStarts
  <2> QED BY <1>1, <2>1, <2>2, <2>3
<1>3. CASE Emitted
  <2>1. PICK K : Here(K)
    BY <1>3 DEF Emitted, Here, ProgramIInv
  <2>2. /\ ProgramIInv' /\ Emitted'
        /\ At.op = "jalr" /\ At.rd = 0 => \E k \in DOMAIN group : IsCall(k) /\ After(k) = pc'
    <3>1. CASE JumpToRegister
      BY <2>1, <3>1, JumpToRegisterStep
    <3>2. CASE Compute
      BY <2>1, <3>2, ComputeStep DEF Compute
    <3>3. CASE NoResult
      BY <2>1, <3>3, NoResultStep DEF NoResult
    <3>4. CASE Reach
      BY <2>1, <3>4, ReachStep DEF Reach, MemoryOps
    <3>5. CASE BranchTo
      BY <2>1, <3>5, BranchToStep DEF BranchTo
    <3>6. CASE JumpTo
      BY <2>1, <3>6, JumpToStep DEF JumpTo
    <3>7. CASE Trapped
      BY <2>1, <3>7, TrappedStep DEF Trapped, MemoryOps
    <3> QED BY <3>1, <3>2, <3>3, <3>4, <3>5, <3>6, <3>7 DEF Hart
  <2>3. Start(group', pc')
    BY <2>2 DEF Emitted
  <2> QED BY <1>1, <2>2, <2>3
<1> QED BY <1>2, <1>3 DEF ProgramIInv

\* Every step keeps the invariant.
LEMMA ProgramNextIInv == ProgramIInv /\ [ProgramNext]_programVars => ProgramIInv'
<1> SUFFICES ASSUME ProgramIInv, [ProgramNext]_programVars PROVE ProgramIInv'
  OBVIOUS
<1>1. ASSUME UNCHANGED <<group, pc, regs, resv>> PROVE ProgramIInv'
  BY <1>1 DEF ProgramIInv, Opening, Emitted, BasesKept, BaseKept, Holds
<1>2. CASE UNCHANGED programVars
  BY <1>1, <1>2 DEF programVars
<1>3. CASE Pass
  BY <1>1, <1>3 DEF Pass
<1>4. CASE EndGroup
  BY <1>4, EndGroupStep
<1>5. CASE Hart
  <2>1. Running
    BY <1>5 DEF Hart, Compute, NoResult, Reach, BranchTo, JumpTo, JumpToRegister, Trapped
  <2> QED BY <1>5, <2>1, HartStep
<1>6. CASE \E name \in DOMAIN Groups : Emit(name)
  BY <1>6, EmitStep
<1>7. ProgramNext => EndGroup \/ Pass \/ Hart \/ \E name \in DOMAIN Groups : Emit(name)
  <2>1. {"simple", "li", "storeLoadPair", "storeBurst", "compressedMem", "atomic", "csr", "fence",
         "forwardBranch", "jump", "loop", "call", "trap", "fp", "lateBranch", "fpBranch", "depChain"}
          \subseteq DOMAIN Groups
    BY DEF Groups
  <2> QED BY <2>1 DEF ProgramNext, Simple, Li, StoreLoadPair, StoreBurst, CompressedMem, Atomic, CsrGroup,
             FenceGroup, ForwardBranch, Jump, Loop, Call, TrapGroup, Fp, LateBranch, FpBranch, DepChain
<1> QED BY <1>2, <1>3, <1>4, <1>5, <1>6, <1>7

\* It holds throughout.
LEMMA ProgramInvariant == ProgramSpec => []ProgramIInv
BY ProgramInitIInv, ProgramNextIInv, PTL DEF ProgramSpec

\* The accesses follow from it.
LEMMA ProgramIInvAccesses == ProgramIInv => AccessesKnown
<1> SUFFICES ASSUME ProgramIInv, Running, At.op \in MemoryOps
             PROVE  /\ regs[At.rs].base = "data"
                    /\ \A a \in Accesses : IF At.faults THEN ~Aligned(a) ELSE Aligned(a) /\ InArea(a)
                    /\ At.op = "sc" => resv # NoReservation
  BY DEF AccessesKnown
<1>1. CASE Opening
  BY <1>1, OpeningStarts DEF MemoryOps
<1>2. CASE Emitted
  <2>1. PICK K : Here(K)
    BY <1>2 DEF Emitted, Here, ProgramIInv
  <2> QED BY <2>1, Known
<1> QED BY <1>1, <1>2 DEF ProgramIInv

\* A step of a running hart is a step of its own: no group is emitted or ended.
LEMMA ProgramNextControl ==
  ProgramIInv /\ [ProgramNext]_programVars =>
    [Running =>
         /\ pc' \in 1..Len(group) + 1
         /\ pc' \in DOMAIN group => group[pc'] # SecondHalf
         /\ At.op = "jalr" /\ At.rd = 0 =>
              \E k \in DOMAIN group : IsCall(k) /\ After(k) = pc']_programVars
<1> SUFFICES ASSUME ProgramIInv, ProgramNext, Running
             PROVE  /\ pc' \in 1..Len(group) + 1
                    /\ pc' \in DOMAIN group => group[pc'] # SecondHalf
                    /\ At.op = "jalr" /\ At.rd = 0 =>
                         \E k \in DOMAIN group : IsCall(k) /\ After(k) = pc'
  OBVIOUS
<1>1. group \in Seq(Halfword) /\ pc \in 1 .. Len(group) /\ group # <<>>
  <2>1. group \in Seq(Halfword)
    BY OpeningStarts DEF ProgramIInv, Emitted, Annotated
  <2> QED BY <2>1 DEF Running
<1>2. Hart
  BY <1>1 DEF ProgramNext, Simple, Li, StoreLoadPair, StoreBurst, CompressedMem, Atomic, CsrGroup,
     FenceGroup, ForwardBranch, Jump, Loop, Call, TrapGroup, Fp, LateBranch, FpBranch, DepChain,
     Emit, EndGroup, Pass
<1>3. /\ Start(group, pc')
      /\ At.op = "jalr" /\ At.rd = 0 => \E k \in DOMAIN group : IsCall(k) /\ After(k) = pc'
  BY <1>2, HartStep
<1>4. Len(group) \in Nat /\ DOMAIN group = 1 .. Len(group)
  BY <1>1
<1> QED BY <1>3, <1>4 DEF Start

\* Every program that is emitted reaches its data where the generator thinks
\* it does, aligned when it should be, and every sc.w follows an lr.w.
THEOREM ProgramAccessesKnown == ProgramSpec => []AccessesKnown
BY ProgramInvariant, ProgramIInvAccesses, PTL

\* Control never leaves a group but at its end, and returns go behind calls.
THEOREM ProgramControlKept == ProgramSpec => ControlKept
BY ProgramInvariant, ProgramNextControl, PTL DEF ProgramSpec, ControlKept
=============================================================================
