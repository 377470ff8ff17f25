------------------------------- MODULE OooCore ------------------------------
(***************************************************************************)
(* The out-of-order back end (otter_mcu_ooo.sv): dispatch, reservation     *)
(* stations with value and speculative wake-up, two ALUs, the branch unit, *)
(* a pipelined and an iterative unit, CSR accesses at the head, the common *)
(* data buses, branch recovery at execute and in-order commit.  One step   *)
(* is one clock cycle; the definitions without parameters are the signals  *)
(* of that cycle.                                                          *)
(*                                                                         *)
(* The program is a constant of a behaviour.  What the front end delivers  *)
(* (how many instructions, with which prediction), how long a division     *)
(* takes and when an interrupt rises are choices of the step.              *)
(*                                                                         *)
(* Renaming is taken as RenameRecovery shows it: the mapping of a register *)
(* is the youngest instruction in flight that writes it, and a branch      *)
(* holds a checkpoint while it is unresolved.                              *)
(***************************************************************************)
EXTENDS Tags, FiniteSets, Sequences

CONSTANTS Reg, NoReg, NoTag, Garbage,
          Programs,       \* set of [code, handler] records (see InOrderMachine)
          CKPTS,          \* unresolved branches that may be in flight
          RS_ALU, RS_BR, RS_MUL, RS_DIV,   \* slots of each station
          MUL_STAGES      \* depth of the pipelined units

\* What dispatch sees of an instruction; the operations are InOrderMachine's.
Operation == {"alu", "mul", "div", "br", "csr", "ser", "exc", "flt", "mret", "fencei"}
Instruction ==
  {i \in [op : Operation, rd : Reg \cup {NoReg}, rs1 : Reg \cup {NoReg},
          rs2 : Reg \cup {NoReg}, next : Nat] :
     i.op \in {"mret", "fencei"} => i.rd = NoReg}

ASSUME CoreAssumption ==
  /\ NoTag \notin Tag /\ NoReg \notin Reg
  /\ {CKPTS, RS_ALU, RS_BR, RS_MUL, RS_DIV} \subseteq Nat /\ MUL_STAGES \in Nat \ {0}
  /\ \A p \in Programs : p.code \in Seq(Instruction) /\ p.handler \in Nat

VARIABLES
  prog,                   \* the program being run
  fpc,                    \* program counter of the next instruction to dispatch
  irq,                    \* "off", "pending", "over"
  rob, head, used,        \* reorder buffer
  rs,                     \* [class -> set of waiting entries]
  alu_e, alu1_e, br_e,    \* issue-to-execute registers
  mul,                    \* [1 .. MUL_STAGES -> cell]
  div,                    \* the iterative unit
  serial_in_flight,
  regs, csr, epc          \* committed architectural state

vars == <<prog, fpc, irq, rob, head, used, rs, alu_e, alu1_e, br_e, mul, div,
          serial_in_flight, regs, csr, epc>>

ISA == INSTANCE InOrderMachine WITH pc <- fpc
Station == INSTANCE ReservationStation
Arbiter == INSTANCE CdbArbiter WITH REQUESTERS <- 3

Code(p) == prog.code[p]
PC == DOMAIN prog.code

Class == {"alu", "br", "mul", "div"}
Slots == [alu |-> RS_ALU, br |-> RS_BR, mul |-> RS_MUL, div |-> RS_DIV]

\* Execution class of an instruction; "none" completes at dispatch or acts at
\* the head.  A faulting instruction ("flt") faults in the iterative unit.
ClassOf(p) == CASE Code(p).op \in Class -> Code(p).op
                [] Code(p).op = "flt"   -> "div"
                [] OTHER                -> "none"

IsControl(p) == Code(p).op = "br"
IsSystem(p) == Code(p).op \in {"csr", "ser", "mret", "fencei"}
Faults(p) == Code(p).op \in {"exc", "flt"}

-----------------------------------------------------------------------------
(* Reorder buffer.                                                         *)

Idle == [live |-> FALSE, pc |-> 0, done |-> FALSE, val |-> Garbage, src |-> Garbage]

tail == TagPlus(head, used)
head1 == TagPlus(head, 1)
rob_free == ROB_SIZE - used
Younger(t, b) == TagYounger(t, b, head)
Live == {t \in Tag : rob[t].live}
Unresolved == {t \in Live : IsControl(rob[t].pc) /\ ~rob[t].done}

\* An exception at decode writes nothing.
DestOf(p) == IF Code(p).op = "exc" THEN NoReg ELSE Code(p).rd

Writers(r) == {t \in Live : r # NoReg /\ DestOf(rob[t].pc) = r}
NewestWriter(r) == CHOOSE t \in Writers(r) : \A u \in Writers(r) : ~Younger(u, t)

-----------------------------------------------------------------------------
(* Common data buses.                                                      *)

None == [tag |-> NoTag, v1 |-> Garbage, v2 |-> Garbage, pred |-> 0]
Bubble == [tag |-> NoTag, val |-> Garbage]
NoDivision == [tag |-> NoTag, val |-> Garbage, done |-> FALSE]

Result(t, v1, v2) ==
  LET p == rob[t].pc
  IN  IF IsControl(p) THEN ISA!Term(p, <<>>, <<>>) ELSE ISA!Term(p, v1, v2)

OwnerDriving(e) == e.tag # NoTag
BusFree == {j \in 0 .. 2 : ~OwnerDriving(IF j = 0 THEN alu_e
                                         ELSE IF j = 1 THEN alu1_e ELSE br_e)}

mul_out == mul[MUL_STAGES]
h0_csr == rob[head].live /\ Code(rob[head].pc).op \in {"csr", "ser"}

MUL_REQ == 0
DIV_REQ == 1
CSR_REQ == 2

\* Requests, and the value each would broadcast.  A fast CSR access at the
\* head broadcasts the CSR it reads.
Request ==
  [i \in 0 .. 2 |->
     CASE i = MUL_REQ -> mul_out.tag
       [] i = DIV_REQ -> IF div.done THEN div.tag ELSE NoTag
       [] i = CSR_REQ -> IF h0_csr /\ ~rob[head].done THEN head ELSE NoTag]
RequestValue == <<mul_out.val, div.val, csr>>

Grants == Arbiter!Granted(Request, head, BusFree)
GrantedTo(i) == i \in Grants

\* Everything on the three buses this cycle.
Cdb ==
  {[tag |-> e.tag, val |-> Result(e.tag, e.v1, e.v2)] :
     e \in {x \in {alu_e, alu1_e, br_e} : OwnerDriving(x)}}
  \cup {[tag |-> Request[i], val |-> RequestValue[i + 1]] : i \in Grants}

-----------------------------------------------------------------------------
(* Commit.                                                                 *)

h0 == rob[head]
h1 == rob[head1]
h0_ready == h0.live /\ h0.done
trap_take == h0_ready /\ Faults(h0.pc)
commit0 == h0_ready /\ ~Faults(h0.pc)
commit1 ==
  /\ commit0 /\ ~IsSystem(h0.pc)
  /\ h1.live /\ h1.done /\ ~Faults(h1.pc)
  /\ ~IsSystem(h1.pc) /\ ~IsControl(h1.pc)
mret_commit == commit0 /\ Code(h0.pc).op = "mret"
fencei_commit == commit0 /\ Code(h0.pc).op = "fencei"
commit_count == IF commit1 THEN 2 ELSE IF commit0 THEN 1 ELSE 0

\* A CSR access returns the CSR as it commits, not what it broadcast.
commit0_value == IF h0_csr THEN csr ELSE h0.val

-----------------------------------------------------------------------------
(* Issue, and recovery at execute.                                         *)

\* What leaves a station on issue port n, with its operands resolved.
Issued(class, n) ==
  LET offer == Station!Offered(rs[class], head, n)
  IN  IF offer = {} THEN None
      ELSE LET e == CHOOSE x \in offer : TRUE
           IN  [tag |-> e.tag, v1 |-> Station!Resolved(e.o1, Cdb),
                v2 |-> Station!Resolved(e.o2, Cdb), pred |-> e.pred]

alu_sel == Issued("alu", 0)
alu1_sel == Issued("alu", 1)
br_sel == Issued("br", 0)
mul_sel == Issued("mul", 0)
div_sel == Issued("div", 0)

\* Tags the ALUs will drive next cycle.
wk == {alu_sel.tag, alu1_sel.tag} \ {NoTag}

mispredict ==
  OwnerDriving(br_e) /\ br_e.pred # ISA!NextPc(rob[br_e.tag].pc)

\* Mutated: the pipeline moves although its result is refused.
mul_advanceAlways == TRUE
mul_advance == mul_out.tag # NoTag => GrantedTo(MUL_REQ)

-----------------------------------------------------------------------------
(* Dispatch.                                                               *)

\* A bundle is a sequence of up to two [pc, pred], pred being the program
\* counter fetch goes on at.  Control and system instructions end a bundle,
\* except a branch predicted not taken, which one plain instruction follows.
Predictions(p) == IF IsControl(p) THEN {p + 1, Code(p).next} ELSE {p + 1}
Barrier(p) == IsControl(p) \/ IsSystem(p)

MayFollow(s, p) ==
  /\ p = s.pred /\ p \in PC
  /\ Barrier(s.pc) => IsControl(s.pc) /\ s.pred = s.pc + 1 /\ ~Barrier(p)

SlotsAt(p) == {[pc |-> p, pred |-> n] : n \in Predictions(p)}
Bundles ==
  IF fpc \notin PC THEN {<<>>}
  ELSE {<<s>> : s \in SlotsAt(fpc)}
       \cup UNION {UNION {{<<s, t>> : t \in SlotsAt(p)} :
                            p \in {q \in PC : MayFollow(s, q)}} : s \in SlotsAt(fpc)}

\* An operand as dispatch finds it: committed, finished in the reorder
\* buffer, or still to come.  A broadcast of this very cycle is not seen.
Operand(r) ==
  IF r = NoReg THEN Station!Value(<<>>)
  ELSE IF Writers(r) = {} THEN Station!Value(regs[r])
  ELSE LET t == NewestWriter(r)
       IN  IF rob[t].done THEN Station!Value(rob[t].val) ELSE Station!Wait(t)

\* Mutated: the second slot looks past the first.
Operand1PastSlot0(r, p0) == Operand(r)

\* The second slot waits for the first if it reads what the first writes.
Operand1(r, p0) ==
  IF r # NoReg /\ DestOf(p0) = r THEN Station!Wait(tail) ELSE Operand(r)

csr_fast(p) == Code(p).op = "csr" /\ Operand(Code(p).rs1).st = "val"

\* Mutated: a free slot is not asked for.
RoomForFewer(p, n) ==
  ClassOf(p) # "none" => Slots[ClassOf(p)] - Cardinality(rs[ClassOf(p)]) >= n - 1

Room(p, n) ==
  ClassOf(p) # "none" => Slots[ClassOf(p)] - Cardinality(rs[ClassOf(p)]) >= n

CkptAvail(p) == IsControl(p) => Cardinality(Unresolved) < CKPTS

\* Mutated: a serializing instruction does not wait for older ones.
CanDispatch0AnySystem(p) ==
  /\ ~serial_in_flight /\ irq # "pending"
  /\ rob_free >= 1 /\ Room(p, 1) /\ CkptAvail(p)

CanDispatch0(p) ==
  /\ ~serial_in_flight /\ irq # "pending"
  /\ rob_free >= 1 /\ Room(p, 1) /\ CkptAvail(p)
  /\ IsSystem(p) => used = 0 \/ (csr_fast(p) /\ ~h0_csr)

CanDispatch1(p0, p) ==
  /\ CkptAvail(p)
  /\ ~IsSystem(p0) /\ ~IsSystem(p)
  /\ Code(p0).op # "exc" /\ Code(p).op # "exc"
  /\ rob_free >= 2
  /\ Room(p, IF ClassOf(p) = ClassOf(p0) THEN 2 ELSE 1)

\* How much of the offered bundle dispatches in a cycle without recovery.
Accepted(b) ==
  IF b = <<>> \/ ~CanDispatch0(b[1].pc) THEN <<>>
  ELSE IF Len(b) = 2 /\ CanDispatch1(b[1].pc, b[2].pc) THEN b
  ELSE <<b[1]>>

RobEntry(p) ==
  [live |-> TRUE, pc |-> p, val |-> Garbage,
   done |-> ClassOf(p) = "none" /\ ~csr_fast(p),
   src |-> IF Code(p).op \in {"csr", "ser"} THEN Operand(Code(p).rs1).val ELSE Garbage]

RsEntry(d, i) ==
  LET Op(r) == IF i = 1 THEN Operand(r) ELSE Operand1(r, d[1].pc)
  IN  [tag |-> TagPlus(tail, i - 1), pred |-> d[i].pred,
       o1 |-> Op(Code(d[i].pc).rs1), o2 |-> Op(Code(d[i].pc).rs2)]

Inserted(class, d) ==
  {RsEntry(d, i) : i \in {j \in DOMAIN d : ClassOf(d[j].pc) = class}}

-----------------------------------------------------------------------------
Init ==
  /\ prog \in Programs
  /\ fpc = 1 /\ irq = "off"
  /\ rob = [t \in Tag |-> Idle] /\ head = 0 /\ used = 0
  /\ rs = [c \in Class |-> {}]
  /\ alu_e = None /\ alu1_e = None /\ br_e = None
  /\ mul = [s \in 1 .. MUL_STAGES |-> Bubble] /\ div = NoDivision
  /\ serial_in_flight = FALSE
  /\ regs = [r \in Reg |-> <<0, r>>] /\ csr = <<0, 0>> /\ epc = 0

\* Mutated: an entry misses the broadcasts of the cycle it is inserted in.
NextStationDeafInsert(class, d, taken, recover) ==
  LET w == IF class = "div" THEN {} ELSE wk
      kept == {e \in rs[class] : e.tag \notin taken
                                  /\ ~(recover /\ Younger(e.tag, br_e.tag))}
  IN  {Station!WokenEntry(e, Cdb, w) : e \in kept} \cup Inserted(class, d)

\* Stations: wake everything, the inserted entries included, then drop what
\* was taken and what is squashed.  Only the ALU, branch and multiply
\* stations accept tag-only wake-ups.
NextStation(class, d, taken, recover) ==
  LET w == IF class = "div" THEN {} ELSE wk
      kept == {e \in rs[class] : e.tag \notin taken
                                  /\ ~(recover /\ Younger(e.tag, br_e.tag))}
  IN  {Station!WokenEntry(e, Cdb, w) : e \in kept \cup Inserted(class, d)}

\* Mutated: a recovery does not reach what moves on in its own cycle.
SurvivingAlways(x, recover, gone) == x

\* Work that a recovery squashes in the cycle it would move on.
Surviving(x, recover, gone) ==
  IF x.tag # NoTag /\ recover /\ Younger(x.tag, br_e.tag) THEN gone ELSE x

\* Mutated: the live bits of the pipeline ignore a recovery.
NextMulUnsquashed(recover) ==
  [s \in 1 .. MUL_STAGES |->
     IF ~mul_advance THEN mul[s]
     ELSE IF s > 1 THEN mul[s - 1]
     ELSE IF mul_sel = None THEN Bubble
     ELSE [tag |-> mul_sel.tag, val |-> Result(mul_sel.tag, mul_sel.v1, mul_sel.v2)]]

NextMul(recover) ==
  [s \in 1 .. MUL_STAGES |->
     LET incoming ==
           IF ~mul_advance THEN mul[s]
           ELSE IF s > 1 THEN mul[s - 1]
           ELSE IF mul_sel = None THEN Bubble
           ELSE [tag |-> mul_sel.tag, val |-> Result(mul_sel.tag, mul_sel.v1, mul_sel.v2)]
     IN  Surviving(incoming, recover, Bubble)]

div_start(recover) ==
  div = NoDivision /\ Surviving(div_sel, recover, None) # None

NextDiv(recover, finish) ==
  IF div = NoDivision
  THEN IF div_start(recover)
       THEN [tag |-> div_sel.tag, done |-> FALSE,
             val |-> Result(div_sel.tag, div_sel.v1, div_sel.v2)]
       ELSE NoDivision
  ELSE IF Surviving(div, recover, NoDivision) = NoDivision THEN NoDivision
  ELSE IF div.done THEN IF GrantedTo(DIV_REQ) THEN NoDivision ELSE div
  ELSE [tag |-> div.tag, val |-> div.val, done |-> finish]

Completed(t) ==
  IF \E c \in Cdb : c.tag = t
  THEN [live |-> rob[t].live, pc |-> rob[t].pc, done |-> TRUE,
        val |-> (CHOOSE c \in Cdb : c.tag = t).val, src |-> rob[t].src]
  ELSE rob[t]

Retiring(t) == TagAge(t, head) < commit_count

\* Committed registers: the second slot is the younger and wins.
CommittedRegs ==
  LET one == IF commit0 THEN ISA!Written(regs, DestOf(h0.pc), commit0_value) ELSE regs
  IN  IF commit1 THEN ISA!Written(one, DestOf(h1.pc), h1.val) ELSE one

CommitEffects ==
  /\ regs' = CommittedRegs
  /\ csr' = IF commit0 /\ h0_csr THEN ISA!Term(h0.pc, h0.src, <<>>) ELSE csr

\* Everything but dispatch, in a cycle without flush: execution, wake-up,
\* completion and commit; d is what dispatches.
Advance(d, recover, finish) ==
  /\ rob' = [t \in Tag |->
       IF \E i \in DOMAIN d : t = TagPlus(tail, i - 1)
       THEN RobEntry(d[CHOOSE i \in DOMAIN d : t = TagPlus(tail, i - 1)].pc)
       ELSE IF Retiring(t) \/ (recover /\ Younger(t, br_e.tag)) THEN Idle
       ELSE Completed(t)]
  /\ head' = TagPlus(head, commit_count)
  /\ used' = IF recover THEN TagAge(br_e.tag, head) + 1 - commit_count
                        ELSE used + Len(d) - commit_count
  /\ rs' = [alu |-> NextStation("alu", d, wk, recover),
            br  |-> NextStation("br", d, {br_sel.tag}, recover),
            mul |-> NextStation("mul", d, IF mul_advance THEN {mul_sel.tag} ELSE {}, recover),
            div |-> NextStation("div", d, IF div_start(recover) THEN {div_sel.tag} ELSE {}, recover)]
  /\ alu_e' = Surviving(alu_sel, recover, None)
  /\ alu1_e' = Surviving(alu1_sel, recover, None)
  /\ br_e' = Surviving(br_sel, recover, None)
  /\ mul' = NextMul(recover)
  /\ div' = NextDiv(recover, finish)
  /\ CommitEffects
  /\ UNCHANGED <<prog, epc>>

flushing == trap_take \/ mret_commit \/ fencei_commit

\* A cycle in which the front end offers bundle b.
Cycle(b, finish) ==
  LET d == Accepted(b)
  IN  /\ ~flushing /\ ~mispredict
      /\ Advance(d, FALSE, finish)
      /\ fpc' = IF d = <<>> THEN fpc ELSE d[Len(d)].pred
      /\ serial_in_flight' =
           IF d # <<>> /\ IsSystem(d[1].pc) /\ ~csr_fast(d[1].pc) THEN TRUE
           ELSE serial_in_flight /\ ~(commit0 /\ IsSystem(h0.pc))
      /\ UNCHANGED irq

\* The branch in execution was mispredicted: fetch restarts where it goes.
Recover(finish) ==
  /\ mispredict /\ ~flushing
  /\ Advance(<<>>, TRUE, finish)
  /\ fpc' = ISA!NextPc(rob[br_e.tag].pc)
  /\ serial_in_flight' = (serial_in_flight /\ ~(commit0 /\ IsSystem(h0.pc)))
  /\ UNCHANGED irq

\* Everything in flight is dropped and fetch restarts at target.
EmptyPipeline(target) ==
  /\ rob' = [t \in Tag |-> Idle] /\ head' = 0 /\ used' = 0
  /\ rs' = [c \in Class |-> {}]
  /\ alu_e' = None /\ alu1_e' = None /\ br_e' = None
  /\ mul' = [s \in 1 .. MUL_STAGES |-> Bubble] /\ div' = NoDivision
  /\ serial_in_flight' = FALSE
  /\ fpc' = target
  /\ UNCHANGED prog

\* A trap, mret or fence.i commits; it takes priority over a recovery.
FlushAtCommit ==
  /\ flushing
  /\ EmptyPipeline(IF trap_take THEN prog.handler
                   ELSE IF mret_commit THEN epc ELSE h0.pc + 1)
  /\ epc' = IF trap_take THEN h0.pc ELSE epc
  /\ CommitEffects
  /\ UNCHANGED irq

\* An interrupt rises at any time, and may be withdrawn or masked again;
\* while it is pending nothing dispatches, and it is taken once the buffer is
\* empty and the front end has an instruction whose address it can save.  A
\* behaviour has at most one.
InterruptLine ==
  /\ \/ irq = "off" /\ irq' = "pending"
     \/ irq = "pending" /\ irq' = "over"
  /\ UNCHANGED <<prog, fpc, rob, head, used, rs, alu_e, alu1_e, br_e, mul, div,
                 serial_in_flight, regs, csr, epc>>

TakeInterrupt ==
  /\ used = 0 /\ irq = "pending" /\ fpc \in PC
  /\ EmptyPipeline(prog.handler)
  /\ epc' = fpc /\ irq' = "over"
  /\ UNCHANGED <<regs, csr>>

\* The front end may have nothing to offer in a cycle, and a division may
\* take any number of cycles.
Next ==
  \/ \E b \in Bundles \cup {<<>>}, finish \in BOOLEAN : Cycle(b, finish)
  \/ \E finish \in BOOLEAN : Recover(finish)
  \/ FlushAtCommit
  \/ InterruptLine
  \/ TakeInterrupt

\* The clock does not stop; the front end delivers and divisions end, again
\* and again.
Fairness ==
  /\ WF_vars(\E b \in Bundles : Cycle(b, TRUE))
  /\ WF_vars(Recover(TRUE)) /\ WF_vars(FlushAtCommit) /\ WF_vars(TakeInterrupt)

Spec == Init /\ [][Next]_vars
FairSpec == Spec /\ Fairness

-----------------------------------------------------------------------------
(* Properties.                                                             *)

Operands == {"val", "wait", "spec"}
WaitingEntries == UNION {rs[c] : c \in Class}

TypeOK ==
  /\ fpc \in Nat /\ epc \in Nat /\ irq \in {"off", "pending", "over"}
  /\ head \in Tag /\ used \in 0 .. ROB_SIZE
  /\ \A t \in Tag : rob[t].live <=> TagAge(t, head) < used
  /\ \A c \in Class : Cardinality(rs[c]) <= Slots[c]
  /\ \A e \in WaitingEntries : e.tag \in Tag /\ e.o1.st \in Operands /\ e.o2.st \in Operands
  /\ serial_in_flight \in BOOLEAN

\* Where the unfinished instruction t currently is.
InExecution == {alu_e.tag, alu1_e.tag, br_e.tag} \ {NoTag}
InUnits == ({mul[s].tag : s \in 1 .. MUL_STAGES} \cup {div.tag}) \ {NoTag}
InStations == {e.tag : e \in WaitingEntries}
AtHeadOnly == {t \in Live : Code(rob[t].pc).op = "csr" /\ ~rob[t].done}

(* The buses of a cycle carry distinct, unfinished, live instructions.     *)
CdbSound ==
  /\ \A a, b \in Cdb : a # b => a.tag # b.tag
  /\ \A c \in Cdb : c.tag \in Live /\ ~rob[c.tag].done

(* The ring and its occupancy fit together (TypeOK), and every unfinished  *)
(* instruction in flight is in exactly one place: waiting in one station,  *)
(* in one unit, or a fast CSR access waiting for the head;                 *)
(* and nothing else is anywhere.  A squash, a same-cycle selection or a    *)
(* refused bus neither loses an instruction nor leaves a ghost of one,     *)
(* and no ghost is broadcast (CdbSound).                                   *)
InFlightOnce ==
  LET places == <<InStations, InExecution, InUnits, AtHeadOnly>>
      occupied == {e.tag : e \in {x \in {alu_e, alu1_e, br_e} : x.tag # NoTag}}
  IN  /\ TypeOK
      /\ UNION {places[i] : i \in 1 .. 4} = {t \in Live : ~rob[t].done}
      /\ \A i, j \in 1 .. 4 : i # j => places[i] \cap places[j] = {}
      /\ Cardinality(InStations) = Cardinality(WaitingEntries)
      /\ \A a, b \in {alu_e, alu1_e, br_e} : a # b => a.tag # b.tag
      /\ \A i, j \in 1 .. MUL_STAGES :
           i # j /\ mul[i].tag # NoTag => mul[i].tag # mul[j].tag
      /\ div.tag # NoTag => \A i \in 1 .. MUL_STAGES : mul[i].tag # div.tag
      /\ occupied \subseteq Live
      /\ CdbSound

(* An operand that waits has a producer that will still broadcast: older,  *)
(* in flight and unfinished.  An operand woken by tag only has its         *)
(* producer executing in an ALU right now, so the value it is about to     *)
(* leave with is on a bus.  Together: no wake-up is lost or early, across  *)
(* squashes, same-cycle insertion and tag reuse.                           *)
NoLostWakeup ==
  \A e \in WaitingEntries : \A o \in {e.o1, e.o2} :
    /\ o.st = "wait" => /\ o.tag \in Live /\ ~rob[o.tag].done
                        /\ Younger(e.tag, o.tag)
    /\ o.st = "spec" => o.tag \in {alu_e.tag, alu1_e.tag}

(* The architectural view: the oldest instruction in flight, or the one    *)
(* fetch is at when nothing is, is the next of the program.                *)
Arch == INSTANCE InOrderMachine
  WITH pc <- IF used > 0 THEN rob[head].pc ELSE fpc

(* The core implements the in-order machine: registers, CSR, program       *)
(* counter and saved exception address change exactly as if one or two     *)
(* instructions had just run in program order, whatever was speculated,    *)
(* executed out of order, squashed or interrupted; traps and interrupts    *)
(* are precise.                                                            *)
ImplementsInOrder == Arch!Spec

(* Commit never starves: every program runs to its end.                    *)
EventuallyHalts == <>(used = 0 /\ fpc \notin PC)

=============================================================================
