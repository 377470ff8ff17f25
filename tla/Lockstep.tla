------------------------------- MODULE Lockstep -----------------------------
(***************************************************************************)
(* tools/lockstep.py: a batch of programs, each built, run on Spike and on *)
(* the RTL, and compared (LockstepTrace), on a pool of worker threads.     *)
(*                                                                         *)
(* A source file is [stem, code]; Codes gives for every code [exec,        *)
(* assembles, fits]: what it executes, and whether it builds.  Everything  *)
(* a job starts (the assembler, the linker, Spike, vvp) may fail, hang     *)
(* until its timeout or, for the RTL, log something else than the program  *)
(* did; at most MAX_FAULTS of these happen in a batch.                     *)
(***************************************************************************)
EXTENDS LockstepTrace, FiniteSets

CONSTANTS
  Codes,
  Requests,         \* command lines: [programs, directed, random, no_directed,
                    \*                 keep, require, workers]
  MAX_FAULTS,
  NoFile

VARIABLES
  args,             \* the command line
  status,           \* of main: "start", "compile", "pool", "aborting",
                    \*          "exit 0", "exit 1", "skipped 0", "skipped 1"
  file,             \* work directory -> [elf, log]
  phase,            \* of each job
  ref,              \* the trace a job read from Spike
  seen,             \* the log lines and the output a job read from its RTL run
  outcome,          \* of each job: a verdict of Compare, "failed" or "raised"
  made,             \* what its RTL really did (for the properties)
  faulty            \* jobs something went wrong for (for the properties)

vars == <<args, status, file, phase, ref, seen, outcome, made, faulty>>

-----------------------------------------------------------------------------
(* main: the jobs, named after the stem of their source.  A job's work     *)
(* directory is its name.                                                  *)

JobsOf(a) ==
  (IF a.programs # <<>> THEN a.programs
   ELSE IF a.no_directed THEN <<>> ELSE a.directed) \o a.random

Jobs == DOMAIN JobsOf(args)
Source(j) == JobsOf(args)[j]
Dir(j) == Source(j).stem
Code(j) == Codes[Source(j).code]

\* No two jobs share a work directory.  Nothing in the tool sees to it: two
\* sources of one stem, or one called random_1.s beside --random, would.
DistinctNames(a) == \A i, j \in DOMAIN JobsOf(a) :
                       JobsOf(a)[i].stem = JobsOf(a)[j].stem => i = j

Idle == [log |-> <<>>, pass |-> FALSE, assert |-> FALSE]

\* With --keep the directories may hold the files of an earlier invocation.
Init ==
  /\ args \in {a \in Requests : DistinctNames(a)}
  /\ status = "start"
  /\ \E old \in IF args.keep THEN BOOLEAN ELSE {FALSE} :
       file = [d \in {Dir(j) : j \in Jobs} |->
                 LET code == (CHOOSE s \in ToSet(JobsOf(args)) : s.stem = d).code
                 IN [elf |-> NoFile, log |-> IF old THEN RtlLog(Codes[code].exec) ELSE NoFile]]
  /\ phase = [j \in Jobs |-> "queued"]
  /\ ref = [j \in Jobs |-> Trace(<<>>, <<>>)]
  /\ seen = [j \in Jobs |-> Idle]
  /\ outcome = [j \in Jobs |-> "none"]
  /\ made = [j \in Jobs |-> Idle]
  /\ faulty = {}

MayFail == Cardinality(faulty) < MAX_FAULTS

CheckTools ==
  /\ status = "start"
  /\ \/ status' = "compile"
     \/ status' = IF args.require THEN "skipped 1" ELSE "skipped 0"
  /\ UNCHANGED <<args, file, phase, ref, seen, outcome, made, faulty>>

\* A failing compilation leaves main by an exception nobody catches.
CompileRtl ==
  /\ status = "compile"
  /\ status' \in {"pool", "exit 1"}
  /\ UNCHANGED <<args, file, phase, ref, seen, outcome, made, faulty>>

-----------------------------------------------------------------------------
(* run_one, in a worker thread.                                            *)

Working == {j \in Jobs : phase[j] \in {"build", "spike", "rtl", "compare"}}

NextJob(j) == phase[j] = "queued" /\ \A i \in Jobs : i < j => phase[i] # "queued"
CancelsAtAbort == status = "pool"
TakesJobs == status \in {"pool", "aborting"}

\* The pool takes the jobs in the order they were submitted, and goes on to
\* take them while main leaves it by an exception.
Start(j) ==
  /\ TakesJobs
  /\ NextJob(j) /\ Cardinality(Working) < args.workers
  /\ phase' = [phase EXCEPT ![j] = "build"]
  /\ UNCHANGED <<args, status, file, ref, seen, outcome, made, faulty>>

Finish(j, result) ==
  /\ phase' = [phase EXCEPT ![j] = "finished"]
  /\ outcome' = [outcome EXCEPT ![j] = result]

\* A tool of job j fails or times out.
ToolFails(j) ==
  /\ MayFail
  /\ Finish(j, "failed")
  /\ faulty' = faulty \union {j}
  /\ UNCHANGED <<args, status, file, ref, seen, made>>

Build(j) ==
  /\ phase[j] = "build"
  /\ \/ /\ Code(j).assembles
        /\ file' = [file EXCEPT ![Dir(j)].elf = Source(j).code]
        /\ IF Code(j).fits
           THEN phase' = [phase EXCEPT ![j] = "spike"] /\ UNCHANGED outcome
           ELSE Finish(j, "failed")
     \/ /\ ~Code(j).assembles
        /\ Finish(j, "failed")
        /\ UNCHANGED file
  /\ UNCHANGED <<args, status, ref, seen, made, faulty>>

BuildFails(j) == phase[j] = "build" /\ ToolFails(j)

SpikeTrace == [c \in DOMAIN Codes |-> ParseSpikeLog(SpikeLog(Codes[c].exec))]

\* Spike runs the elf file to its end and its log is read back.
RunSpike(j) ==
  /\ phase[j] = "spike"
  /\ phase' = [phase EXCEPT ![j] = "rtl"]
  /\ ref' = [ref EXCEPT ![j] = SpikeTrace[file[Dir(j)].elf]]
  /\ UNCHANGED <<args, status, file, seen, outcome, made, faulty>>

SpikeFails(j) == phase[j] = "spike" /\ ToolFails(j)

-----------------------------------------------------------------------------
(* The RTL run, external: the log vvp writes and what the testbench says.  *)

Reaches(line, code) == line.kind = "S" /\ line.addr = SSEG /\ LowBytes(line.data, line.size) = code

Run(log, pass, assert) == [log |-> log, pass |-> pass, assert |-> assert]

\* The testbench stops some lines after the pass or fail code reached SSEG.
RightRuns == [c \in DOMAIN Codes |->
  LET log == RtlLog(Codes[c].exec)
      stop == SelectInSeq(log, LAMBDA l : l.kind = "S" /\ l.addr = SSEG)
  IN IF stop = 0 THEN {Run(log, FALSE, FALSE)}
     ELSE {Run(SubSeq(log, 1, n), Reaches(log[stop], PASS_CODE), FALSE) : n \in stop .. Len(log)}]

\* A line that says something else.
Damaged(line) ==
  IF line.kind = "R"
  THEN {[line EXCEPT !.pc = @ + 2], [line EXCEPT !.rd = IF @ = 0 THEN 1 ELSE 0],
        [line EXCEPT !.value = @ + 1], [line EXCEPT !.kind = "X"]}
  ELSE {[line EXCEPT !.addr = @ + 1], [line EXCEPT !.data = @ + 1],
        [line EXCEPT !.size = (@ + 1) % 3]}

\* From line i on nothing retires any more, and stores are still made.
RetiresNoMore(log, i) ==
  SubSeq(log, 1, i - 1) \o SelectSeq(SubSeq(log, i, Len(log)), LAMBDA l : l.kind = "S")

\* One line wrong, missing, repeated or made too early, or the core hangs or only
\* stops retiring; the testbench says what the log shows or what it would say of
\* a right run.  Or only an assertion of the testbench fails.
WrongRuns == [c \in DOMAIN Codes |->
  LET log == RtlLog(Codes[c].exec)
      logs == UNION {{ReplaceAt(log, i, l) : l \in Damaged(log[i])}
                     \union {RemoveAt(log, i), InsertAt(log, i, log[i]),
                             <<log[i]>> \o RemoveAt(log, i), SubSeq(log, 1, i),
                             RetiresNoMore(log, i)} : i \in DOMAIN log}
      saw(l) == \E i \in DOMAIN l : Reaches(l[i], PASS_CODE)
  IN {Run(l, pass, FALSE) : l \in logs, pass \in {saw(log), FALSE}}
     \union {Run(log, saw(log), TRUE), Run(log, FALSE, FALSE)}]

\* vvp writes the log into the work directory; when it does not start, the log
\* of an earlier run may still be there, and is read.  Its exit status is not
\* looked at.
ReadRun(j, run, wrote) ==
  LET log == IF wrote THEN run.log ELSE file[Dir(j)].log
      read == IF log = NoFile THEN <<>> ELSE log
  IN /\ file' = [file EXCEPT ![Dir(j)].log = log]
     /\ made' = [made EXCEPT ![j] = run]
     /\ IF Unreadable(read)
        THEN Finish(j, "raised") /\ UNCHANGED seen
        ELSE /\ phase' = [phase EXCEPT ![j] = "compare"]
             /\ seen' = [seen EXCEPT ![j] = [run EXCEPT !.log = read]]
             /\ UNCHANGED outcome

RunRtl(j) ==
  /\ phase[j] = "rtl"
  /\ \E run \in RightRuns[file[Dir(j)].elf] : ReadRun(j, run, TRUE)
  /\ UNCHANGED <<args, status, ref, faulty>>

RtlGoesWrong(j) ==
  /\ phase[j] = "rtl" /\ MayFail
  /\ \/ \E run \in WrongRuns[file[Dir(j)].elf] : ReadRun(j, run, TRUE)
     \/ ReadRun(j, Idle, FALSE)
  /\ faulty' = faulty \union {j}
  /\ UNCHANGED <<args, status, ref>>

RtlTimesOut(j) == phase[j] = "rtl" /\ ToolFails(j)

CompareTraces(j) ==
  /\ phase[j] = "compare"
  /\ Finish(j, Compare(ParseRtlLog(seen[j].log), ref[j], seen[j]))
  /\ UNCHANGED <<args, status, file, ref, seen, made, faulty>>

-----------------------------------------------------------------------------
(* main: results are collected as jobs finish, in any order.  A job that   *)
(* raised makes main leave by its exception, once every job has ended.     *)

Collect(j) ==
  /\ status = "pool" /\ phase[j] = "finished"
  /\ phase' = [phase EXCEPT ![j] = "collected"]
  /\ status' = IF outcome[j] = "raised" THEN "aborting" ELSE status
  /\ ref' = [ref EXCEPT ![j] = Trace(<<>>, <<>>)]
  /\ seen' = [seen EXCEPT ![j] = Idle]
  /\ made' = [made EXCEPT ![j] = Idle]
  /\ UNCHANGED <<args, file, outcome, faulty>>

ExitStatusOfMismatches ==
  IF \E j \in Jobs : outcome[j] \notin {"match", "failed"} THEN "exit 1" ELSE "exit 0"
ExitStatus == IF \E j \in Jobs : outcome[j] # "match" THEN "exit 1" ELSE "exit 0"

Report ==
  /\ status = "pool" /\ \A j \in Jobs : phase[j] = "collected"
  /\ status' = ExitStatus
  /\ UNCHANGED <<args, file, phase, ref, seen, outcome, made, faulty>>

Abort ==
  /\ status = "aborting" /\ \A j \in Jobs : phase[j] \in {"finished", "collected"}
  /\ status' = "exit 1"
  /\ UNCHANGED <<args, file, phase, ref, seen, outcome, made, faulty>>

Next ==
  \/ CheckTools \/ CompileRtl \/ Report \/ Abort
  \/ \E j \in Jobs :
       \/ Start(j) \/ Build(j) \/ BuildFails(j) \/ RunSpike(j) \/ SpikeFails(j)
       \/ RunRtl(j) \/ RtlGoesWrong(j) \/ RtlTimesOut(j) \/ CompareTraces(j) \/ Collect(j)

\* Every external command runs under a timeout of subprocess.run, so every
\* step that can be taken is taken in the end.
Spec == Init /\ [][Next]_vars /\ WF_vars(Next)

-----------------------------------------------------------------------------
(* Properties.  Effects are those on the architectural state: a register   *)
(* other than x0, and the bytes of memory.                                 *)

RetireEffect(r) == <<r.pc, IF r.rd = 0 THEN <<>> ELSE <<r.rd, r.value>>>>

ByteAt(data, k) == (data \div 2 ^ (BYTE * k)) % 2 ^ BYTE
StoreEffect(s) == {<<s.addr + k, ByteAt(s.data, k)>> : k \in 0 .. Bytes(s.size) - 1}

Retired(exec) == SelectSeq(exec, LAMBDA c : ~c.traps)
Stored(exec) == SelectSeq(Retired(exec), LAMBDA c : c.mem \in {"store", "amo"})

LoggedRetires(run) == SelectSeq(run.log, LAMBDA l : l.kind = "R" /\ l.pc >= TEXT_BASE)
LoggedStores(run) == SelectSeq(run.log, LAMBDA l : l.kind = "S")

\* The retirements of an execution ahead of its first store to SSEG; all of them
\* when there is none.
BeforeSseg(exec) ==
  LET retired == Retired(exec)
      sseg == SelectInSeq(retired, LAMBDA c : c.mem \in {"store", "amo"} /\ c.addr = SSEG)
  IN IF sseg = 0 THEN retired ELSE SubSeq(retired, 1, sseg - 1)

RetireEffects(retires) == [i \in DOMAIN retires |-> RetireEffect(retires[i])]

\* Of what came before the SSEG store, everything that retired.
RetiresAll(run, exec) == IsPrefix(RetireEffects(BeforeSseg(exec)), RetireEffects(LoggedRetires(run)))

\* Of what came before the SSEG store, nothing else than that.
RetiresNothingElse(run, exec) ==
  LET logged == LoggedRetires(run)
      before == BeforeSseg(exec)
      n == IF Len(logged) < Len(before) THEN Len(logged) ELSE Len(before)
  IN IsPrefix(RetireEffects(SubSeq(logged, 1, n)), RetireEffects(before))

\* Every store up to the one to SSEG, byte for byte.
StoresAll(run, exec) ==
  LET stores == LoggedStores(run)
      stored == Stored(exec)
      sseg == SelectInSeq(stored, LAMBDA c : c.addr = SSEG)
  IN \A i \in 1 .. sseg : i \in DOMAIN stores /\ StoreEffect(stores[i]) = StoreEffect(stored[i])

\* The first store to SSEG carries the pass code.
Passes(exec) ==
  LET codes == SelectSeq(Stored(exec), LAMBDA c : c.addr = SSEG)
  IN codes # <<>> /\ LowBytes(codes[1].data, codes[1].size) = PASS_CODE

Good(code) == code.assembles /\ code.fits /\ Passes(code.exec)

\* A program reported as matching made on the RTL, in this very run, every
\* store that Spike says it makes up to a pass code in SSEG, byte for byte; it
\* retired on the way nothing else than Spike's instructions, in their order, and
\* no assertion failed (compare, the two parsers, a stale log under --keep).
\* That it retired all of them is what RetiredBeforeSseg claims.
VerdictSound ==
  \A j \in Jobs :
    phase[j] = "finished" /\ outcome[j] = "match" =>
      LET exec == Code(j).exec
      IN /\ StoresAll(made[j], exec) /\ RetiresNothingElse(made[j], exec)
         /\ Passes(exec) /\ made[j].pass /\ ~made[j].assert

\* "Everything Spike retired before the SSEG store must also have retired,
\* identically, on the RTL" (lockstep.py:285): so it did for every program that
\* is reported as matching.  The code compares as far as both traces go, and
\* counts the stores only; a run that goes on storing but not retiring matches.
RetiredBeforeSseg ==
  \A j \in Jobs :
    phase[j] = "finished" /\ outcome[j] = "match" => RetiresAll(made[j], Code(j).exec)

\* A good program that nothing went wrong for is not reported as a mismatch:
\* not for the boot ROM, the trampoline, a value written to x0, the high
\* bytes of a stored register, or where the testbench stopped.
NoFalseAlarm ==
  \A j \in Jobs :
    phase[j] = "finished" /\ j \notin faulty /\ Good(Code(j)) => outcome[j] = "match"

\* Exit status 0 of a run that was not skipped means that every program asked
\* for was compared and matched; and a batch with nothing wrong exits with 0.
\* (Failures on any thread, in any order, and jobs behind one that raised.)
ExitStatusExact ==
  /\ status = "exit 0" => \A j \in Jobs : phase[j] = "collected" /\ outcome[j] = "match"
  /\ status = "exit 1" /\ (\E j \in Jobs : phase[j] # "queued") =>
       \E j \in Jobs : j \in faulty \/ ~Good(Code(j))
  /\ status = "skipped 0" => ~args.require

\* Whatever fails, hangs or raises, the batch ends.
EventuallyExits == <>(status \in {"exit 0", "exit 1", "skipped 0", "skipped 1"})
=============================================================================
