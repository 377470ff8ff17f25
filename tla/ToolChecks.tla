----------------------------- MODULE ToolChecks -----------------------------
(***************************************************************************)
(* The tools that compute a result from their input alone, each run once   *)
(* on any input: the floating-point reference and the program generated    *)
(* from it, the assembler check, the coverage report, the memory images.   *)
(***************************************************************************)
EXTENDS FpReference, AssemblerCheck, CoverageReport, MemImage

CONSTANTS Draws,          \* sequences of random operand pairs
          Counts,         \* values of check_assembler.py --count
          Logs,           \* sequences of log files
          Payloads,       \* programs of MemImage
          Offsets         \* offsets of a jump

VARIABLE ran              \* [tool, in, out], or [tool |-> "none"]

Ran(tool, in, out) == ran' = [tool |-> tool, in |-> in, out |-> out]

ToolInit == ran = [tool |-> "none"]

\* fp_ref.py vectors: the specials, then random pairs, related or not.
FpVector ==
  \E op \in {"add", "sub", "mul", "div"}, rm \in Modes, a \in RandomOperands :
    \E b \in RandomOperands \union RelatedOperands(a) :
      Ran("fp", [op |-> op, rm |-> rm, a |-> a, b |-> b], Compute(op, a, b, rm))

FpProgram ==
  \E draws \in Draws : Ran("table", OperandPairs(draws), Final(OperandPairs(draws)))

\* Instruction i of a stream of "count".
AssemblerLine ==
  \E count \in Counts, rvc \in BOOLEAN : \E i \in 0 .. count - 1 :
    \E d \in Drawn(IF rvc THEN KindsRvc ELSE Kinds32, i) :
      Ran("line", [count |-> count, rvc |-> rvc, i |-> i], d)

\* What the two assemblers make of a stream, and what the tool makes of that.
\* Instructions differ, but for the last two of a compressed stream.
Encodings == <<1, 2, 3, 3>>
Repo(fault, i) ==
  CASE fault = "none" -> Encodings
    [] fault = "wrong" -> [Encodings EXCEPT ![i] = @ + 1]
    [] fault = "longer" -> InsertAt(Encodings, i + 1, 4)
    [] fault = "shorter" -> RemoveAt(Encodings, i)
AssemblerRun ==
  \E installed, require \in BOOLEAN, fault \in {"none", "wrong", "longer", "shorter"},
     i \in DOMAIN Encodings, bad \in 1 .. 2 :
    Ran("assemblers", [installed |-> installed, require |-> require, repo |-> Repo(fault, i)],
        ExitCode(installed, require,
                 [s \in 1 .. 2 |-> [gnu |-> Encodings,
                                    repo |-> Repo(IF s = bad THEN fault ELSE "none", i)]]))

ReportRun == \E logs \in Logs : Ran("report", logs, Report(logs))

ImageRun ==
  \E payload \in Payloads :
    \/ Ran("elf_to_mem", payload, ElfToMem(payload))
    \/ Ran("build_program", payload, BuildImage(payload))

JalRun == \E rd \in 0 .. 31, offset \in Offsets : Ran("jal", <<rd, offset>>, EncodeJal(rd, offset))

ToolNext ==
  /\ ran.tool = "none"
  /\ \/ FpVector \/ FpProgram \/ AssemblerLine \/ AssemblerRun \/ ReportRun \/ ImageRun \/ JalRun

ToolSpec == ToolInit /\ [][ToolNext]_ran

-----------------------------------------------------------------------------
(* What correct rounding is, without computing it.  Infinity counts as the *)
(* power of two above the largest finite number.                           *)

Wide(r) == IF IsInf(r) THEN IF Sign(r) = 1 THEN Minus(Pow2(BIAS + 1)) ELSE Pow2(BIAS + 1)
           ELSE Value(r)
Mag(q) == IF q[1] < 0 THEN Minus(q) ELSE q
Gap(p, q) == Mag(Plus(p, Minus(q)))
Leq(p, q) == ~Less(q, p)
Numbers == {r \in Patterns : ~IsNan(r)}

\* Where the rounding mode goes for a value of this sign.
TowardZero(rm, negative) == rm = "RTZ" \/ (rm = "RDN" /\ ~negative) \/ (rm = "RUP" /\ negative)
Away(rm, negative) == (rm = "RDN" /\ negative) \/ (rm = "RUP" /\ ~negative)

\* No number lies between r and x on the side r is taken from, or nearer to x.
CorrectlyRounded(x, rm, r) ==
  LET neg == x[1] < 0
      Between(lo, c, hi) == Less(lo, Mag(Wide(c))) /\ Leq(Mag(Wide(c)), hi)
  IN /\ Sign(r) = IF neg THEN 1 ELSE 0
     /\ CASE TowardZero(rm, neg) ->
               /\ ~IsInf(r) /\ Leq(Mag(Wide(r)), Mag(x))
               /\ \A c \in Numbers : ~IsInf(c) => ~Between(Mag(Wide(r)), c, Mag(x))
          [] Away(rm, neg) ->
               /\ IsInf(r) \/ Leq(Mag(x), Mag(Wide(r)))
               /\ \A c \in Numbers : ~(Leq(Mag(x), Mag(Wide(c))) /\ Less(Mag(Wide(c)), Mag(Wide(r))))
          [] OTHER ->
               \A c \in Numbers :
                 \/ Less(Gap(x, Wide(r)), Gap(x, Wide(c)))
                 \/ Less(Pow2(BIAS + 1), Mag(x)) /\ IsInf(r)
                 \/ /\ Same(Gap(x, Wide(r)), Gap(x, Wide(c)))
                    /\ \/ Same(Wide(r), Wide(c))
                       \/ IF rm = "RNE" THEN Frac(r) % 2 = 0 ELSE Less(Mag(Wide(c)), Mag(Wide(r)))

\* Whether a magnitude is at least 2^e once it is rounded as if exponents had
\* no bound.
Reaches(x, rm, e) ==
  LET neg == x[1] < 0
      step == Pow2(e - 1 - FRAC_BITS)
      Short(q) == Plus(Pow2(e), Minus(q))
  IN CASE TowardZero(rm, neg) -> Leq(Pow2(e), Mag(x))
       [] Away(rm, neg) -> Less(Short(step), Mag(x))
       [] OTHER -> Leq(Short(Times(step, <<1, 2>>)), Mag(x))

RightFlags(x, rm, r) ==
  LET over == Reaches(x, rm, BIAS + 1)
      inexact == over \/ ~Same(x, Wide(r))
  IN {f \in {"OF"} : over} \union {f \in {"NX"} : inexact}
     \union {f \in {"UF"} : inexact /\ ~Reaches(x, rm, MIN_NORMAL_EXP)}

Indeterminate(op, a, b) ==
  \/ op = "add" /\ IsInf(a) /\ IsInf(b) /\ Sign(a) # Sign(b)
  \/ op = "sub" /\ IsInf(a) /\ IsInf(b) /\ Sign(a) = Sign(b)
  \/ op = "mul" /\ (IsInf(a) \/ IsInf(b)) /\ (IsZero(a) \/ IsZero(b))
  \/ op = "div" /\ ((IsZero(a) /\ IsZero(b)) \/ (IsInf(a) /\ IsInf(b)))

Exact(op, a, b) ==
  CASE op = "add" -> Plus(Value(a), Value(b))
    [] op = "sub" -> Plus(Value(a), Minus(Value(b)))
    [] op = "mul" -> Times(Value(a), Value(b))
    [] op = "div" -> Over(Value(a), Value(b))

\* The reference's result and flags are right for every operation, mode and
\* pair of operands: the nearest number on the side the mode asks for, zeros
\* and infinities with their signs, exceptions as IEEE 754 raises them with
\* tininess after rounding (compute and everything under it).
FpExact ==
  ran.tool = "fp" =>
    LET op == ran.in.op
        rm == ran.in.rm
        a == ran.in.a
        b == ran.in.b
        r == ran.out[1]
        flags == ran.out[2]
        nan == IsNan(a) \/ IsNan(b)
        finite == ~nan /\ ~IsInf(a) /\ ~IsInf(b) /\ ~(op = "div" /\ IsZero(b))
        scaling == op \in {"mul", "div"}
        x == Exact(op, a, b)
    IN /\ IsNan(r) <=> nan \/ Indeterminate(op, a, b)
       /\ IsNan(r) => r = CANONICAL_NAN
       /\ "NV" \in flags <=> IsSnan(a) \/ IsSnan(b) \/ (~nan /\ Indeterminate(op, a, b))
       /\ "DZ" \in flags <=> op = "div" /\ IsZero(b) /\ ~nan /\ ~IsInf(a) /\ ~IsZero(a)
       /\ scaling /\ ~IsNan(r) => Sign(r) = XorSign(a, b)
       /\ finite /\ x[1] # 0 =>
            CorrectlyRounded(x, rm, r) /\ flags = RightFlags(x, rm, r)
       /\ finite /\ x[1] = 0 =>
            /\ IsZero(r) /\ flags = {}
            /\ ~scaling =>
                 LET signs == {Sign(a), Sign(IF op = "sub" THEN Negated(b) ELSE b)}
                 IN Sign(r) = IF IsZero(a) /\ IsZero(b) /\ Cardinality(signs) = 1
                              THEN CHOOSE s \in signs : TRUE
                              ELSE IF rm = "RDN" THEN 1 ELSE 0
       /\ ~finite /\ ~IsNan(r) =>
            /\ flags \subseteq {"DZ"}
            /\ IF scaling
               THEN IsInf(r) <=> IsInf(a) \/ (op = "mul" /\ IsInf(b)) \/ (op = "div" /\ IsZero(b))
               ELSE r = IF IsInf(a) THEN a ELSE IF op = "sub" THEN Negated(b) ELSE b
       /\ ~finite /\ ~IsNan(r) /\ ~IsInf(r) => IsZero(r)

\* The generated program leaves the operand table alone, and stores the two
\* results of every pair, and of no other, in the pair's own two words inside
\* the space reserved for them.
FpTableExact ==
  ran.tool = "table" =>
    LET pairs == ran.in
        memory == ran.out
        rm(k) == DynamicMode(PAIRS - k)
        Op(op, k) == Compute(op, pairs[k + 1][1], pairs[k + 1][2], rm(k))[1]
    IN /\ Len(pairs) = PAIRS
       /\ DOMAIN memory = DOMAIN InitialMemory(pairs)
       /\ \A k \in 0 .. PAIRS - 1 :
            /\ memory[8 * k] = pairs[k + 1][1] /\ memory[8 * k + 4] = pairs[k + 1][2]
            /\ memory[fp_results + 8 * k + 4] = Op("div", k)
            /\ memory[fp_results + 8 * k] =
                 Compute("mul", Compute("add", Op("add", k), Op("sub", k), rm(k))[1], Op("mul", k), rm(k))[1]

\* Field widths of the encoding forms, and how far a branch reaches, from the
\* instruction set: [lowest, highest, multiple of, zero allowed].
Field ==
  [R |-> <<0, 0, 1, TRUE>>, I |-> <<-2048, 2047, 1, TRUE>>, shift |-> <<0, 31, 1, TRUE>>,
   S |-> <<-2048, 2047, 1, TRUE>>, B |-> <<0, 0, 1, TRUE>>, J |-> <<0, 0, 1, TRUE>>,
   U |-> <<0, 1048575, 1, TRUE>>, csr |-> <<0, 0, 1, TRUE>>, csri |-> <<0, 31, 1, TRUE>>,
   amo |-> <<0, 0, 1, TRUE>>, system |-> <<0, 0, 1, TRUE>>,
   CIW |-> <<0, 1020, 4, FALSE>>, CL |-> <<0, 124, 4, TRUE>>, CI |-> <<-32, 31, 1, FALSE>>,
   CLI |-> <<-32, 31, 1, TRUE>>, CI16 |-> <<-512, 496, 16, FALSE>>, CLUI |-> <<-32, 31, 1, FALSE>>,
   Cshift |-> <<1, 31, 1, FALSE>>, CA |-> <<0, 0, 1, TRUE>>, CJ |-> <<0, 0, 1, TRUE>>,
   CB |-> <<0, 0, 1, TRUE>>, CLSP |-> <<0, 252, 4, TRUE>>, CSS |-> <<0, 252, 4, TRUE>>,
   CR |-> <<0, 0, 1, TRUE>>]
Reach == [B |-> 4096, J |-> 1048576, CJ |-> 2048, CB |-> 256]

\* Every operand the generator can draw has an encoding, and a branch to
\* either of its labels reaches it if it is defined.
OperandsEncodable ==
  ran.tool = "line" =>
    LET field == Field[ran.out.form]
        places == LabelPlaces(ran.in.count)
        bytes == IF ran.in.rvc THEN 2 ELSE 4
    IN /\ field[1] <= ran.out.imm /\ ran.out.imm <= field[2]
       /\ ran.out.imm % field[3] = 0 /\ (ran.out.imm = 0 => field[4])
       /\ ran.out.target \in DOMAIN places =>
            LET offset == bytes * (places[ran.out.target] - ran.in.i)
            IN -Reach[ran.out.form] <= offset /\ offset < Reach[ran.out.form]

\* "Nearest label behind and ahead of instruction i" (labels,
\* check_assembler.py:61): whichever of the two a branch names, the stream
\* defines it.  The label behind the stream is numbered count // CHUNK + 1,
\* which leaves the last chunk of a whole number of chunks without the one ahead.
LabelsResolve ==
  ran.tool = "line" => ran.out.target \in DOMAIN LabelPlaces(ran.in.count) \union {NoTarget}

\* No other label is ever missing: the one behind an instruction is defined, and
\* so is the one ahead, in any stream whose last chunk is cut short and in any
\* chunk but the last.
OtherLabelsResolve ==
  ran.tool = "line" =>
    \/ ran.out.target \in DOMAIN LabelPlaces(ran.in.count) \union {NoTarget}
    \/ /\ ran.in.count % CHUNK = 0 /\ ran.in.i >= ran.in.count - CHUNK
       /\ ran.out.target = Ahead(ran.in.i)

\* The check "compares the encodings word for word" (check_assembler.py:8): exit
\* status 0 of a run that had both assemblers means that they made the same of
\* either stream.  What the repository's puts behind GNU's last word is not
\* looked at.
SameWords ==
  ran.tool = "assemblers" /\ ran.in.installed /\ ran.out = 0 => ran.in.repo = Encodings

\* Exit status 0 means that nothing was compared, or that either image of the
\* repository's assembler has every word of GNU's in its place: an encoding that
\* is wrong, missing, or one too many ahead of another fails the check.  Status 1
\* means that something differs, or that nothing could be compared although it had to be.
AssemblerVerdict ==
  ran.tool = "assemblers" =>
    /\ ran.out = 0 =>
         IF ran.in.installed THEN IsPrefix(Encodings, ran.in.repo) ELSE ~ran.in.require
    /\ ran.out = 1 =>
         IF ran.in.installed THEN ran.in.repo # Encodings ELSE ran.in.require

\* What the comparison of the two assemblers rests on, and its verdict.
AssemblerCheckSound == OperandsEncodable /\ OtherLabelsResolve /\ AssemblerVerdict

\* A bin is missing from the report exactly if no line of any log counts it,
\* however the counts are spread over logs; the L2's bin is there only if a
\* log of a build with the L2 is.
ReportExact ==
  ran.tool = "report" /\ ran.out.kind = "report" =>
    LET lines == UNION {ToSet(ran.in[i]) : i \in DOMAIN ran.in}
        Seen(group, key) == \E l \in lines : GroupOf(l) = group /\ Get(l.counts, key) > 0
        bins == Bins(MergeGroups([i \in DOMAIN ran.in |-> ParseLog(ran.in[i])]))
    IN /\ \A b \in DOMAIN bins : \A k \in bins[b].keys :
            <<b, k>> \in ran.out.missing <=> ~Seen(bins[b].group, k)
       /\ "l2_hit" \in bins.cache_behavior.keys <=> Seen("stats", "l2")
       /\ ran.out.hit = ran.out.total - Cardinality(ran.out.missing)

\* Reading an image back gives the program's bytes at their addresses and
\* zeros around them; behind the reset vector of a lockstep image is a jump to
\* the program that links nothing; every jump decodes to its offset; and only
\* a program that does not fit is refused.
ImageExact ==
  /\ ran.tool = "elf_to_mem" =>
       IF Size(ran.in) > MEM_BYTES THEN ran.out = TooLarge
       ELSE \A a \in 0 .. MEM_BYTES - 1 :
              LoadedByte(ran.out, a) = IF a \in DOMAIN ran.in THEN ran.in[a] ELSE {}
  /\ ran.tool = "build_program" =>
       IF Size(ran.in) > MEM_BYTES - JUMP_TARGET THEN ran.out = TooLarge
       ELSE /\ \A a \in 4 .. MEM_BYTES - 1 :
                 LoadedByte(ran.out, a) =
                   IF a - JUMP_TARGET \in DOMAIN ran.in THEN ran.in[a - JUMP_TARGET] ELSE {}
            /\ IsJal(ran.out[0]) /\ JalTarget(ran.out[0]) = JUMP_TARGET
            /\ LinkRegister(ran.out[0]) = {}
  /\ ran.tool = "jal" =>
       /\ IsJal(ran.out) /\ JalTarget(ran.out) = ran.in[2]
       /\ LinkRegister(ran.out) = {b \in Bits(5) : (ran.in[1] \div 2 ^ b) % 2 = 1}
=============================================================================
