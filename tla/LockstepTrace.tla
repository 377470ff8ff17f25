---------------------------- MODULE LockstepTrace ---------------------------
(***************************************************************************)
(* What tools/lockstep.py compares: the retirement log of Spike and the    *)
(* one of the RTL testbench, how each is parsed into a trace, and the      *)
(* comparison that decides.  A log is a sequence of lines, a line a record *)
(* of what the parser tells apart.                                         *)
(*                                                                         *)
(* An execution is the sequence of instructions the program runs, as       *)
(*   [pc, rd, value, csr, mem, addr, data, size, traps]                    *)
(* where value is what the write port carries, also when rd is x0, and     *)
(* data the whole register a store takes its low bytes from.               *)
(***************************************************************************)
EXTENDS Integers, SequencesExt

CONSTANTS
  TEXT_BASE,               \* where programs start; the boot ROM lies below
  SSEG,                    \* address of the pass/fail register
  PASS_CODE, FAIL_CODE,
  BYTE                     \* bits in a byte of the instance

Bytes(size) == 2 ^ size
LowBytes(data, size) == data % 2 ^ (BYTE * Bytes(size))

-----------------------------------------------------------------------------
(* Spike's log.  A commit line lists what the instruction wrote as words:  *)
(* a register and its value, a CSR and its value, "mem" and an address,    *)
(* followed for a store by as many digits as it writes.                    *)

Word(kind, n, digits) == [kind |-> kind, n |-> n, digits |-> digits]
Hex(n, digits) == Word("hex", n, digits)

WordsOf(c) ==
  (IF c.csr THEN <<Word("csr", 1, 0), Hex(1, 8)>> ELSE <<>>)
  \o (IF c.rd = 0 THEN <<>>
      ELSE <<IF c.rd < 32 THEN Word("x", c.rd, 0) ELSE Word("f", c.rd - 32, 0),
             Hex(c.value, 8)>>)
  \o (IF c.mem \in {"load", "amo"} THEN <<Word("mem", 0, 0), Hex(c.addr, 8)>> ELSE <<>>)
  \o (IF c.mem \in {"store", "amo"}
      THEN <<Word("mem", 0, 0), Hex(c.addr, 8),
             Hex(LowBytes(c.data, c.size), 2 * Bytes(c.size))>>
      ELSE <<>>)

SpikeLine(kind, pc, words) == [kind |-> kind, pc |-> pc, words |-> words]

SpikeLog(exec) ==
  LET Lines(c) == <<SpikeLine("disasm", c.pc, <<>>),
                    IF c.traps THEN SpikeLine("exception", c.pc, <<>>)
                    ELSE SpikeLine("commit", c.pc, WordsOf(c))>>
      BootRom == <<SpikeLine("disasm", 0, <<>>),
                   SpikeLine("commit", 0, <<Word("x", 5, 0), Hex(0, 8)>>)>>
  IN BootRom \o FlattenSeq([i \in DOMAIN exec |-> Lines(exec[i])])

-----------------------------------------------------------------------------
(* The testbench's log: R lines for retirements, the trampoline at the     *)
(* reset vector included, S lines for stores with the whole register.      *)

RLine(pc, rd, value) == [kind |-> "R", pc |-> pc, rd |-> rd, value |-> value]
SLine(addr, data, size) == [kind |-> "S", addr |-> addr, data |-> data, size |-> size]

RtlLog(exec) ==
  LET Lines(c) ==
        (IF c.traps THEN <<>> ELSE <<RLine(c.pc, c.rd, c.value)>>)
        \o (IF c.mem \in {"store", "amo"} /\ ~c.traps
            THEN <<SLine(c.addr, c.data, c.size)>> ELSE <<>>)
  IN <<RLine(0, 0, 4)>> \o FlattenSeq([i \in DOMAIN exec |-> Lines(exec[i])])

-----------------------------------------------------------------------------
(* Parsing.                                                                *)

Retire(pc, rd, value) == [pc |-> pc, rd |-> rd, value |-> value]
Store(addr, data, size) == [addr |-> addr, data |-> data, size |-> size]
Trace(retires, stores) == [retires |-> retires, stores |-> stores]

KeyWithValue(r) == <<r.pc, r.rd, r.value>>
Key(r) == <<r.pc, r.rd, IF r.rd # 0 THEN r.value ELSE 0>>

SizeOfDigits == [d \in {2, 4, 8} |-> CASE d = 2 -> 0 [] d = 4 -> 1 [] d = 8 -> 2]

\* Words are taken two or three at a time; "next" is the first word not taken.
ParseWords(words) ==
  LET Register(s, i, rd) == [s EXCEPT !.rd = rd, !.value = words[i + 1].n, !.next = i + 2]
      Stored(i) == i + 2 \in DOMAIN words /\ words[i + 2].kind = "hex"
      Take(s, i) ==
        IF i < s.next THEN s
        ELSE CASE words[i].kind = "x" -> Register(s, i, words[i].n)
               [] words[i].kind = "f" -> Register(s, i, 32 + words[i].n)
               [] words[i].kind = "mem" /\ Stored(i) ->
                    [s EXCEPT !.next = i + 3,
                              !.stores = Append(@, Store(words[i + 1].n, words[i + 2].n,
                                                         SizeOfDigits[words[i + 2].digits]))]
               [] OTHER -> [s EXCEPT !.next = i + 2]
  IN FoldLeftDomain(Take, [next |-> 1, rd |-> 0, value |-> 0, stores |-> <<>>], words)

FromAnywhere(line) == line.kind = "commit"
FromText(line) == line.kind = "commit" /\ line.pc >= TEXT_BASE

ParseSpikeLog(lines) ==
  LET commits == SelectSeq(lines, FromText)
      parsed == [i \in DOMAIN commits |-> ParseWords(commits[i].words)]
  IN Trace([i \in DOMAIN commits |-> Retire(commits[i].pc, parsed[i].rd, parsed[i].value)],
           FlattenSeq([i \in DOMAIN parsed |-> parsed[i].stores]))

\* An R line whose value the simulator printed as x is not a number, and the
\* exception is not one that run_one catches.
Unreadable(lines) == \E i \in DOMAIN lines : lines[i].kind = "X"

ParseRtlLog(lines) ==
  LET rs == SelectSeq(lines, LAMBDA l : l.kind = "R" /\ l.pc >= TEXT_BASE)
      ss == SelectSeq(lines, LAMBDA l : l.kind = "S")
  IN Trace([i \in DOMAIN rs |-> Retire(rs[i].pc, rs[i].rd, rs[i].value)],
           [i \in DOMAIN ss |-> Store(ss[i].addr, LowBytes(ss[i].data, ss[i].size), ss[i].size)])

-----------------------------------------------------------------------------
(* Comparing.  Positions count from 1; 0 stands for "no such store".       *)

FirstStoreIndex(trace, addr) == SelectInSeq(trace.stores, LAMBDA s : s.addr = addr)

ShorterThanNeeded(rtl, sseg) == Len(rtl.stores) + 1 < sseg
StoppedEarly(rtl, sseg) == Len(rtl.stores) < sseg

Common(s, t) == DOMAIN s \intersect DOMAIN t

\* What the testbench printed: whether it saw the pass code, and whether an
\* assertion of it failed.
Compare(rtl, ref, output) ==
  LET sseg == FirstStoreIndex(ref, SSEG) IN
  IF sseg = 0 THEN "runaway"
  ELSE IF \E i \in Common(rtl.retires, ref.retires) : Key(rtl.retires[i]) # Key(ref.retires[i])
  THEN "retire differs"
  ELSE IF \E i \in Common(rtl.stores, ref.stores) : rtl.stores[i] # ref.stores[i]
  THEN "memory write differs"
  ELSE IF StoppedEarly(rtl, sseg) THEN "stopped early"
  ELSE IF ref.stores[sseg].data = FAIL_CODE THEN "unexpected trap"
  ELSE IF ~output.pass THEN "no TB PASS"
  ELSE IF output.assert THEN "assertion failed"
  ELSE "match"
=============================================================================
