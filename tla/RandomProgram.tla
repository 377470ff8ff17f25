--------------------------- MODULE RandomProgram ---------------------------
(***************************************************************************)
(* tools/lockstep_random.py: the programs the random generator writes, and *)
(* what a hart does that runs one.  Spike is the oracle of these programs, *)
(* so nothing in them checks itself: what has to be right is that they     *)
(* stay inside their data, that control comes back from every call, loop   *)
(* and trap, and that they end.                                            *)
(*                                                                         *)
(* A generator function is the set of groups of instructions it may emit.  *)
(* A draw of the random generator is one of its two extreme values; a      *)
(* register's content is a pointer into the data area, an address in the   *)
(* group, a number, or Junk, which is any word at all.  A group is run as  *)
(* soon as it is drawn: groups are emitted one after the other, a label    *)
(* belongs to one group, and ControlKept says that nothing ever goes back  *)
(* to an earlier one.                                                      *)
(***************************************************************************)
EXTENDS Integers, Sequences, FiniteSets, SequencesExt

CONSTANTS
    FREE_REGS,  \* the registers a program may overwrite, x31 and the bases left out
    LENGTH,     \* lines of a program, seeds included
    BODY,       \* bound of the model: simple groups in a body
    PATH        \* bound of the model: groups on a path of a late branch

VARIABLES
    profile,  \* which list of generator functions is drawn from
    lines,    \* instructions emitted so far (labels, lines too, are left out)
    group,    \* the group being run, one element per halfword
    pc,       \* a halfword of it, or the one after it
    regs,     \* register |-> content
    resv,     \* the reservation an lr.w made
    passed    \* LOCKSTEP_PASS reached

programVars == <<profile, lines, group, pc, regs, resv, passed>>

-----------------------------------------------------------------------------
\* Registers and what they hold

DATA_WORDS == 1024
BASE_REGS == {2, 3, 9}
LOOP_REG == 31
sp == 2
gp == 3
s1 == 9

\* The bases and x31 stay out of it; x1, the link of a call, is one of them.
ASSUME FreeAssumption == FREE_REGS \subseteq 1..30 \ {2, 3, 9} /\ 1 \in FREE_REGS
ASSUME BoundAssumption == BODY \in Nat /\ PATH \in Nat

\* Compressed register-register forms only reach x8-x15.
CRegs(free) == {r \in free : r \in 8..15}

Content(base, n) == [base |-> base, n |-> n]
Junk == Content("junk", 0)
Data(off) == Content("data", off)
Code(at) == Content("code", at)
Num(n) == Content("num", n)

Plus(v, n) == IF v.base \in {"data", "num"} THEN [v EXCEPT !.n = @ + n] ELSE Junk

NoReservation == -1

-----------------------------------------------------------------------------
\* Instructions.  "at" is the set of <<offset, size>> pairs an access may have
\* been drawn with, "faults" says that it is meant to be misaligned.

Instr(op, rd, rs, n) == [op |-> op, rd |-> rd, rs |-> rs, n |-> n,
                         at |-> {}, faults |-> FALSE]

SecondHalf == Instr("tail", 0, 0, 0)

Wide(i) == <<i, SecondHalf>>
Short(i) == <<i>>

Write(rd) == Instr("write", rd, 0, 0)          \* any word into rd
Other == Instr("other", 0, 0, 0)               \* no integer register written
SetNum(rd, n) == Instr("set", rd, 0, n)
LaData(rd, off) == Instr("ladata", rd, 0, off)
LaCode(rd, at) == Instr("lacode", rd, 0, at)   \* at is relative to it
Addi(rd, rs, n) == Instr("addi", rd, rs, n)
AddGp(rd, rs) == Instr("addgp", rd, rs, 0)
Andi(rd, rs, mask) == Instr("andi", rd, rs, mask)
Branch(by) == Instr("branch", 0, 0, by)        \* on sources that hold any word
Bnez(rs, by) == Instr("bnez", 0, rs, by)
Jal(rd, by) == Instr("jal", rd, 0, by)
Jalr(rd, rs) == Instr("jalr", rd, rs, 0)
Trap(low) == Instr("trap", 0, 0, low)          \* low: its two lowest bits

Access(op, rd, base, at) == [Instr(op, rd, base, 0) EXCEPT !.at = at]
Load(rd, base, at) == Access("load", rd, base, at)
Store(base, at) == Access("store", 0, base, at)
Misaligned(i) == [i EXCEPT !.faults = TRUE]

-----------------------------------------------------------------------------
\* Draws

Draw(lo, hi) == {lo, hi - 1}
AlignDown(n, size) == n - (n % size)
Sizes == {1, 2, 4}

\* An offset from gp, the middle of the data area, aligned to the size.
DataOffset(size) ==
    {AlignDown(off, size) : off \in Draw(-2048, 2048 - size + 1) \union Draw(-64, 64)}

Offsets(size) == DataOffset(size) \X {size}
AnyAccess == UNION {Offsets(size) : size \in Sizes}

\* The bodies of at least lo groups: the least that may be drawn and one more,
\* up to the bound.
Bodies(groups, lo, bound) ==
    LET few == IF lo < bound THEN lo ELSE bound
    IN  {FlattenSeq(s) : s \in UNION {[1..k -> groups] : k \in few..bound}}

Then(as, bs) == {a \o b : a \in as, b \in bs}

-----------------------------------------------------------------------------
\* Generator functions: the groups each may emit, over the registers "free"

GenLi(free) == {Wide(Write(rd)) : rd \in free}
GenAlu(free) == {Wide(Write(rd)) : rd \in free}
GenAluImm(free) == {Wide(Write(rd)) : rd \in free}
GenUpper(free) == {Wide(Write(rd)) : rd \in free}

\* The register forms 5 to 7 of the nine only take x8-x15.
GenCompressedAlu(free) ==
    {Short(Write(rd)) : rd \in free} \union {Short(Write(rd)) : rd \in CRegs(free)}

GenLoad(free) == {Wide(Load(rd, gp, AnyAccess)) : rd \in free}
GenStore == {Wide(Store(gp, AnyAccess))}

GenSimple(free) ==
    UNION {GenAlu(free), GenAluImm(free), GenCompressedAlu(free), GenUpper(free),
           GenLoad(free), GenStore}

\* A store and a load that overlap its bytes, up to two ALU instructions
\* between them, and perhaps a consumer of what was loaded.
GenStoreLoadPair(free) ==
    LET near == UNION {{<<base + AlignDown(k, size), size>> : k \in 0..3} :
                       base \in {AlignDown(b, 4) : b \in Draw(-64, 64)}, size \in Sizes}
        between == Bodies(GenAlu(free), 0, 1)
        loads == {Wide(Load(rd, gp, near)) : rd \in free}
    IN  Then(Then({Wide(Store(gp, near))}, between), loads \union Then(loads, GenAlu(free)))

\* Back-to-back stores that overflow the store buffer.
GenStoreBurst(free) ==
    LET burst == Bodies(GenStore, 5, BODY) IN burst \union Then(burst, GenLoad(free))

Words(lo, hi) == {4 * n : n \in Draw(lo, hi)} \X {4}

GenCompressedMem(free) ==
    UNION {{Short(Load(rd, s1, Words(0, 32))) : rd \in CRegs(free)},
           {Short(Store(s1, Words(0, 32))), Short(Store(sp, Words(0, 64)))},
           {Short(Load(rd, sp, Words(0, 64))) : rd \in free}}

\* A destination that may be the address itself: a mutant of what follows.
AnyDestination(free, addrs) == free

\* The address has to live on for the sc.w.
Destinations(free, addrs) == free \ addrs

\* lr.w and sc.w, at one address or at two that differ, or an AMO.
GenAtomic(free) ==
    LET word == {<<0, 4>>}
        pointer(addr) == {Wide(Addi(addr, gp, off)) : off \in {4 * n : n \in Draw(-16, 16)}}
        amo(addr) == {Wide(Access("amo", rd, addr, word)) : rd \in Destinations(free, {addr})}
        sc(addr) == {Wide(Access("sc", rd2, addr, word)) : rd2 \in free}
        apart(addr, rd) == UNION {Then({Wide(Addi(other, addr, 4))}, sc(other)) :
                                  other \in Destinations(free, {addr, rd})}
        pair(addr) == UNION {Then({Wide(Access("lr", rd, addr, word))},
                                  sc(addr) \union apart(addr, rd)) :
                             rd \in Destinations(free, {addr})}
    IN  UNION {Then(pointer(addr), amo(addr) \union pair(addr)) : addr \in free}

GenCsr(free) == {Wide(Write(rd)) : rd \in free}

\* Arithmetic, loads and stores of f registers, reads of fflags and fcsr, frm.
GenFp(free) ==
    UNION {{Wide(Other)},
           {Wide(Load(0, gp, Offsets(4))), Wide(Store(gp, Offsets(4)))},
           {Short(Load(0, s1, Words(0, 32))), Short(Store(s1, Words(0, 32)))},
           {Short(Load(0, sp, Words(0, 64))), Short(Store(sp, Words(0, 64)))},
           {Wide(Write(rd)) : rd \in free}}

\* A trapping instruction: an environment call, a breakpoint or an illegal one,
\* of four bytes or of two, or a misaligned access.  The third "illegal" word,
\* 0x02001033, is mulh x0, x0, x0 and does not trap.
GenTrap(free) ==
    LET odd == {<<off + 1, size>> : off \in DataOffset(4), size \in {2, 4}}
        stores == {<<off + 2, 4>> : off \in DataOffset(4)}
                  \union {<<off + 1, 2>> : off \in DataOffset(4)}
    IN  UNION {{Wide(Trap(3)), Short(Trap(0)), Short(Trap(2)), Wide(Other)},
               {Wide(Misaligned(Load(rd, gp, odd))) : rd \in free},
               {Wide(Misaligned(Store(gp, stores)))},
               {Wide(Addi(addr, gp, off)) \o Wide(Misaligned(Access("amo", rd, addr, {<<0, 4>>}))) :
                   addr \in free, rd \in free, off \in {4 * n + 2 : n \in Draw(-16, 16)}}}

GenFence == {Wide(Other)}

\* A body that a branch may skip.
Over(body) == {Short(Branch(1 + Len(body))) \o body, Wide(Branch(2 + Len(body))) \o body}

GenForwardBranch(free) == UNION {Over(body) : body \in Bodies(GenSimple(free), 0, BODY)}

GenJump(free) ==
    UNION {{Short(Jal(0, 1 + Len(body))) \o body}
           \union {Wide(Jal(rd, 2 + Len(body))) \o body : rd \in free \union {0}} :
           body \in Bodies(GenSimple(free), 1, BODY)}

\* The registers a body may overwrite, the counter among them: a mutant.
BodyRegsWithCounter(free) == free \union {LOOP_REG}
BodyRegs(free) == free

GenLoop(free) ==
    {Wide(SetNum(LOOP_REG, n)) \o body \o Wide(Addi(LOOP_REG, LOOP_REG, -1))
        \o Wide(Bnez(LOOP_REG, -(2 + Len(body)))) :
        n \in Draw(2, 7), body \in Bodies(GenSimple(BodyRegs(free)), 2, BODY)}

\* A leaf may overwrite anything: a mutant of what follows.
LeafRegsWithLink(free) == free

\* A leaf keeps the link, x1, and the alternate link, x5.
LeafRegs(free) == free \ {1, 5}

\* The leaf is emitted where it is called and jumped over.
GenCall(free) ==
    LET ret == {Short(Jalr(0, 1)), Wide(Jalr(0, 1))}
        function == Then(Bodies(GenSimple(LeafRegs(free)), 1, BODY), ret)
        call(back) ==
            {Wide(Jal(1, -back)), Short(Jal(1, -back))}
            \union {Wide(LaCode(tmp, -back)) \o Short(Jalr(1, tmp)) : tmp \in free \ {1}}
            \union {Wide(LaCode(tmp, -back)) \o Wide(Jalr(1, tmp)) : tmp \in free \ {1}}
    IN  UNION {Then({Short(Jal(0, 1 + Len(f))) \o f, Wide(Jal(0, 2 + Len(f))) \o f},
                    call(Len(f))) : f \in function}

-----------------------------------------------------------------------------
\* Out-of-order stress: only in the profile "ooo"

\* One instruction for a path that a late branch may squash.
GenWrongPathOp(free) ==
    UNION {GenStore, GenLoad(free), GenFp(free), GenStoreLoadPair(free), GenCsr(free),
           GenForwardBranch(free), GenAlu(free), GenSimple(free)}

\* The branch depends on a bit of a word that was loaded.  Only one of the two
\* paths is run, so the other one is left to be filled by anything.
GenLateBranch(free) ==
    LET head == {Wide(Load(val, gp, Words(-512, 511))) \o adds \o Wide(Write(bit)) :
                    val \in free, bit \in free, adds \in {<<>>} \union GenAlu(free)}
        paths == Bodies(GenWrongPathOp(free), 1, PATH)
        filler == Wide(Other)
        either(path, other) == Wide(Branch(4 + Len(path))) \o path
                                 \o Wide(Jal(0, 2 + Len(other))) \o other
    IN  UNION {Then(head, {either(path, filler), either(filler, path)}) : path \in paths}

\* A branch fed by an FP divide through a store and a load of the same word.
GenFpBranch(free) ==
    LET head == {Wide(Other) \o Wide(Store(gp, Offsets(4))) \o Wide(Load(rd, gp, Offsets(4)))
                    \o Wide(Write(bit)) : rd \in free, bit \in free}
    IN  UNION {Then(head, {Wide(Branch(2 + Len(path))) \o path}) :
               path \in Bodies(GenWrongPathOp(free), 3, PATH)}

\* The bits a dependency chain keeps of a word: the mutant keeps two more.
ChainMaskOfArea == 4 * DATA_WORDS - 4
ChainMask == 1020

\* A serial chain through arithmetic and loads, whose address is the last result.
GenDepChain(free) ==
    LET load(r) == {Wide(Andi(tmp, r, ChainMask)) \o Wide(AddGp(tmp, tmp))
                      \o Wide(Load(r, tmp, {<<-1024, 4>>})) : tmp \in free}
        chain(r) == Bodies({Wide(Write(r))} \union load(r), 4, BODY)
    IN  UNION {Then({Wide(Write(r))}, chain(r)) : r \in free}

-----------------------------------------------------------------------------
\* The program: a prologue, a seed for every register, the groups

Prologue ==
    Wide(LaData(gp, 2048)) \o Wide(LaData(s1, 0)) \o Wide(LaData(sp, 1024))

Seeds == FlattenSeq([k \in 1..Cardinality(FREE_REGS) + 1 |->
                        Wide(Write(SetToSeq(FREE_REGS \union {LOOP_REG})[k]))])

Lines(code) == Cardinality({k \in DOMAIN code : code[k] # SecondHalf})

ProgramInit ==
    /\ profile \in {"default", "ooo"}
    /\ lines = Lines(Seeds)
    /\ group = Prologue \o Seeds
    /\ pc = 1
    /\ regs = [r \in FREE_REGS \union BASE_REGS \union {LOOP_REG} |-> Junk]
    /\ resv = NoReservation
    /\ passed = FALSE

\* The end of a group: no later one knows what it left in a register that is
\* not a base.
EndGroup ==
    /\ group # <<>> /\ pc = Len(group) + 1
    /\ group' = <<>>
    /\ pc' = 1
    /\ regs' = [r \in DOMAIN regs |-> IF r \in BASE_REGS THEN regs[r] ELSE Junk]
    /\ resv' = NoReservation
    /\ UNCHANGED <<profile, lines, passed>>

Groups ==
    [simple |-> GenSimple(FREE_REGS),
     li |-> GenLi(FREE_REGS),
     storeLoadPair |-> GenStoreLoadPair(FREE_REGS),
     storeBurst |-> GenStoreBurst(FREE_REGS),
     compressedMem |-> GenCompressedMem(FREE_REGS),
     atomic |-> GenAtomic(FREE_REGS),
     csr |-> GenCsr(FREE_REGS),
     fence |-> GenFence,
     forwardBranch |-> GenForwardBranch(FREE_REGS),
     jump |-> GenJump(FREE_REGS),
     loop |-> GenLoop(FREE_REGS),
     call |-> GenCall(FREE_REGS),
     trap |-> GenTrap(FREE_REGS),
     fp |-> GenFp(FREE_REGS),
     lateBranch |-> GenLateBranch(FREE_REGS),
     fpBranch |-> GenFpBranch(FREE_REGS),
     depChain |-> GenDepChain(FREE_REGS)]

\* The next group, drawn while the program is short.
Emit(name) ==
    /\ group = <<>> /\ lines < LENGTH
    /\ group' \in Groups[name]
    /\ lines' = lines + Lines(group')
    /\ UNCHANGED <<profile, pc, regs, resv, passed>>

Simple == Emit("simple")
Li == Emit("li")
StoreLoadPair == Emit("storeLoadPair")
StoreBurst == Emit("storeBurst")
CompressedMem == Emit("compressedMem")
Atomic == Emit("atomic")
CsrGroup == Emit("csr")
FenceGroup == Emit("fence")
ForwardBranch == Emit("forwardBranch")
Jump == Emit("jump")
Loop == Emit("loop")
Call == Emit("call")
TrapGroup == Emit("trap")
Fp == Emit("fp")
LateBranch == profile = "ooo" /\ Emit("lateBranch")
FpBranch == profile = "ooo" /\ Emit("fpBranch")
DepChain == profile = "ooo" /\ Emit("depChain")

\* LOCKSTEP_PASS follows the last line.
Pass ==
    /\ group = <<>> /\ lines >= LENGTH /\ ~passed
    /\ passed' = TRUE
    /\ UNCHANGED <<profile, lines, group, pc, regs, resv>>

-----------------------------------------------------------------------------
\* The hart

Running == pc \in DOMAIN group
At == group[pc]
After(k) == IF k < Len(group) /\ group[k + 1] = SecondHalf THEN k + 2 ELSE k + 1

Set(rd, v) == regs' = (IF rd = 0 THEN regs ELSE [regs EXCEPT ![rd] = v])

\* What an instruction that accesses no memory leaves in rd.
Result(i) ==
    CASE i.op = "write" -> {Junk}
      [] i.op = "set" -> {Num(i.n)}
      [] i.op = "ladata" -> {Data(i.n)}
      [] i.op = "lacode" -> {Code(pc + i.n)}
      [] i.op = "addi" -> {Plus(regs[i.rs], i.n)}
      [] i.op = "andi" -> {Num(0), Num(i.n)}
      [] i.op = "addgp" -> {IF regs[i.rs].base = "num" THEN Plus(regs[gp], regs[i.rs].n) ELSE Junk}

Compute ==
    /\ Running /\ At.op \in {"write", "set", "ladata", "lacode", "addi", "andi", "addgp"}
    /\ \E v \in Result(At) : Set(At.rd, v)
    /\ pc' = After(pc)
    /\ UNCHANGED <<profile, lines, group, resv, passed>>

NoResult ==
    /\ Running /\ At.op = "other"
    /\ pc' = After(pc)
    /\ UNCHANGED <<profile, lines, group, regs, resv, passed>>

MemoryOps == {"load", "store", "amo", "lr", "sc"}
Accesses == {<<regs[At.rs].n + a[1], a[2]>> : a \in At.at}
Aligned(a) == a[1] % a[2] = 0

\* A load or a store; an sc.w ends the reservation.
Reach ==
    /\ Running /\ At.op \in MemoryOps
    /\ \E a \in Accesses :
          /\ Aligned(a)
          /\ resv' = CASE At.op = "lr" -> a[1] [] At.op = "load" -> resv [] OTHER -> NoReservation
    /\ Set(At.rd, Junk)
    /\ pc' = After(pc)
    /\ UNCHANGED <<profile, lines, group, passed>>

GoTo(k) ==
    /\ pc' = k
    /\ UNCHANGED <<profile, lines, group, resv, passed>>

\* A conditional branch, on a register it knows or on any word.
BranchTo ==
    /\ Running /\ At.op \in {"branch", "bnez"}
    /\ LET known == At.op = "bnez" /\ regs[At.rs].base = "num"
       IN  \/ (known => regs[At.rs].n # 0) /\ GoTo(pc + At.n)
           \/ (known => regs[At.rs].n = 0) /\ GoTo(After(pc))
    /\ UNCHANGED regs

JumpTo ==
    /\ Running /\ At.op = "jal"
    /\ Set(At.rd, Code(After(pc)))
    /\ GoTo(pc + At.n)

\* Where a register that holds no code address sends the hart: outside.
Outside == 0

JumpToRegister ==
    /\ Running /\ At.op = "jalr"
    /\ Set(At.rd, Code(After(pc)))
    /\ GoTo(IF regs[At.rs].base = "code" THEN regs[At.rs].n ELSE Outside)

\* The two lowest bits at k: 3 in every 32-bit encoding, something else in one
\* of 16 bits.
LowBits(k) == IF group[k].op = "trap" THEN group[k].n ELSE IF After(k) = k + 2 THEN 3 ELSE 0

\* The handler would step over two bytes always: a mutant of what follows.
ResumesByTwo(k) == k + 1

\* The handler reads the encoding at mepc and steps over two or four bytes; t0
\* is kept in mscratch meanwhile.
Resumes(k) == IF LowBits(k) = 3 THEN k + 2 ELSE k + 1

Trapped ==
    /\ Running
    /\ \/ At.op = "trap"
       \/ At.op \in MemoryOps /\ \E a \in Accesses : ~Aligned(a)
    /\ GoTo(Resumes(pc))
    /\ UNCHANGED regs

Hart == Compute \/ NoResult \/ Reach \/ BranchTo \/ JumpTo \/ JumpToRegister \/ Trapped

ProgramNext ==
    \/ Simple \/ Li \/ StoreLoadPair \/ StoreBurst \/ CompressedMem \/ Atomic \/ CsrGroup
    \/ FenceGroup \/ ForwardBranch \/ Jump \/ Loop \/ Call \/ TrapGroup \/ Fp
    \/ LateBranch \/ FpBranch \/ DepChain
    \/ EndGroup \/ Pass
    \/ Hart

\* The generator writes a whole program, and a hart does not stop.
ProgramSpec == ProgramInit /\ [][ProgramNext]_programVars /\ WF_programVars(ProgramNext)

-----------------------------------------------------------------------------
\* Properties

InArea(a) == a[1] >= 0 /\ a[1] + a[2] <= 4 * DATA_WORDS

\* Every access of a program is to an address the generator knows, inside
\* lockstep_data; it is misaligned exactly when gen_trap wanted it to be; and an
\* sc.w follows an lr.w with no store in between, so that Spike and the core
\* agree on whether it succeeds (lockstep_random.py:240-243).
AccessesKnown ==
    Running /\ At.op \in MemoryOps =>
        /\ regs[At.rs].base = "data"
        /\ \A a \in Accesses : IF At.faults THEN ~Aligned(a) ELSE Aligned(a) /\ InArea(a)
        /\ At.op = "sc" => resv # NoReservation

\* A call is a jump that leaves its return address in x1.
IsCall(k) == group[k].op \in {"jal", "jalr"} /\ group[k].rd = 1

\* Every step ends at the start of an instruction of the group or at the group's
\* end, after a trap too, and a return goes behind the call that was made last.
ControlKept ==
    [][Running =>
         /\ pc' \in 1..Len(group) + 1
         /\ pc' \in DOMAIN group => group[pc'] # SecondHalf
         /\ At.op = "jalr" /\ At.rd = 0 =>
              \E k \in DOMAIN group : IsCall(k) /\ After(k) = pc']_programVars

\* Every program passes in the end: no loop, call or trap holds it up.
EventuallyPasses == <>passed
=============================================================================
