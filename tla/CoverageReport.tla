---------------------------- MODULE CoverageReport --------------------------
(***************************************************************************)
(* tools/verification_report.py: counters summed over log files, and the   *)
(* coverage bins that are hit.  A line of a log is [marks, counts]: the    *)
(* markers its text contains (RAND COV: begins with), and the values its   *)
(* key=value pairs give.                                                   *)
(***************************************************************************)
EXTENDS Integers, SequencesExt, FiniteSetsExt

Groups == {"stats", "lsu", "atom", "ooo", "rec", "rand_cov"}

\* Markers in the order they are looked for, each with its group.
Markers == <<[mark |-> "TB STATS", group |-> "stats"], [mark |-> "TB LSU", group |-> "lsu"],
             [mark |-> "TB ATOM", group |-> "atom"], [mark |-> "TB REC", group |-> "rec"],
             [mark |-> "TB OOO", group |-> "ooo"], [mark |-> "RAND COV", group |-> "rand_cov"]>>

\* The group of a line, "none" for a line without a marker.
GroupOf(line) ==
  LET first == SelectInSeq(Markers, LAMBDA m : m.mark \in line.marks)
  IN IF first = 0 THEN "none" ELSE Markers[first].group

\* A counter is a function from the keys met so far.
Get(counter, key) == IF key \in DOMAIN counter THEN counter[key] ELSE 0

Updated(counter, counts) ==
  [k \in DOMAIN counter \union DOMAIN counts |-> Get(counter, k) + Get(counts, k)]

None == [k \in {} |-> 0]
NoCounts == [g \in Groups |-> None]

ParseLog(lines) ==
  LET Add(groups, line) ==
        IF GroupOf(line) = "none" THEN groups
        ELSE [groups EXCEPT ![GroupOf(line)] = Updated(@, line.counts)]
  IN FoldLeft(Add, NoCounts, lines)

\* Mutated: the counters of a log replace those of the logs before it.
MergeGroupsReplacing(logs) ==
  FoldLeft(LAMBDA merged, log : [g \in Groups |-> IF log[g] = None THEN merged[g] ELSE log[g]],
           NoCounts, logs)
MergeGroups(logs) ==
  FoldLeft(LAMBDA merged, log : [g \in Groups |-> Updated(merged[g], log[g])], NoCounts, logs)

-----------------------------------------------------------------------------
(* The bins, by the group their counters are in.                           *)

Bin(group, keys) == [group |-> group, keys |-> keys]

\* l2_hit is a bin only of a build with an L2.
Bins(merged) ==
  [ooo_backend |-> Bin("ooo", {"dual_dispatch", "dual_commit", "dispatch_stall", "rob_full",
                               "lsu_busy", "cdb_conflict"}),
   branch_recovery |-> Bin("stats", {"mispredicts", "flushes"}),
   early_recovery |-> Bin("rec", {"recoveries", "load_squash", "memq_squash", "rs_squash", "nested"}),
   cache_behavior |-> Bin("stats", {"ic_fetch", "ic_fill", "ic_prefetch", "dc_hit", "dc_miss"}
                            \union {k \in {"l2_hit"} : Get(merged["stats"], "l2") > 0}),
   csr_trap |-> Bin("ooo", {"traps", "mrets"}),
   memory_ordering |-> Bin("lsu", {"sb_enq", "sb_fwd", "sq_fwd", "sb_drain", "sb_conflict_stall",
                                   "fence_wait"}),
   atomic_paths |-> Bin("atom", {"commits", "writes", "sc_success", "sc_fail", "res_set", "res_clear"}),
   random_instruction_classes |->
     Bin("rand_cov", {"base_load_imm", "base_alu", "base_alui", "base_muldiv", "base_storeload",
                      "base_branch", "frontend_branch", "frontend_jump", "frontend_call",
                      "frontend_patch", "atomic_amo", "atomic_lrsc_success", "atomic_lrsc_fail",
                      "atomic_fence"})]

Hit(merged, bin) == {k \in bin.keys : Get(merged[bin.group], k) > 0}

\* main: "error" without a single log; else how many bins are hit, how many
\* there are, and which are missing.
Report(logs) ==
  IF logs = <<>> THEN [kind |-> "error"]
  ELSE LET merged == MergeGroups([i \in DOMAIN logs |-> ParseLog(logs[i])])
           bins == Bins(merged)
           Keys(b) == {<<b, k>> : k \in bins[b].keys}
           HitKeys(b) == {<<b, k>> : k \in Hit(merged, bins[b])}
           all == UNION {Keys(b) : b \in DOMAIN bins}
           hit == UNION {HitKeys(b) : b \in DOMAIN bins}
       IN [kind |-> "report", hit |-> Cardinality(hit), total |-> Cardinality(all),
           missing |-> all \ hit]
=============================================================================
