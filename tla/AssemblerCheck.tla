---------------------------- MODULE AssemblerCheck --------------------------
(***************************************************************************)
(* tools/check_assembler.py: random instructions assembled by the          *)
(* repository's assembler and by GNU as, and compared.                     *)
(*                                                                         *)
(* A line is [label], or an instruction [form, imm, target]: its encoding  *)
(* form, its immediate and the label it refers to.  Mnemonics and          *)
(* registers are left out, and so are draws from the middle of a range.    *)
(***************************************************************************)
EXTENDS Integers, SequencesExt

CONSTANTS CHUNK,            \* instructions between labels
          NoTarget

Ends(lo, hi) == {lo, (lo + hi) \div 2, hi}

\* imm(): the ends of the range, 0, 1, -1, or anything in it.
Imm(bits, signed) ==
  IF signed THEN Ends(-(2 ^ (bits - 1)), 2 ^ (bits - 1) - 1) \union {0, 1, -1}
  ELSE Ends(0, 2 ^ bits - 1) \union {0, 1}

\* labels(): the nearest label behind instruction i and the next one ahead.
Behind(i) == i \div CHUNK
Ahead(i) == i \div CHUNK + 1

Forms(form, imms) == {[form |-> form, imm |-> imm] : imm \in imms}
\* The zero that c.addi and its like do not encode: a mutant of what follows.
Any6 == Ends(-32, 31) \union {0}
Nz6 == Ends(-32, -1) \union Ends(1, 31)

\* gen_32bit, by kind: what an instruction of it can be, apart from a target.
Kinds32 ==
  Forms("R", {0}) \union Forms("I", Imm(12, TRUE)) \union Forms("shift", Ends(0, 31))
  \union Forms("S", Imm(12, TRUE)) \union Forms("B", {0}) \union Forms("J", {0})
  \union Forms("U", Imm(20, FALSE)) \union Forms("csr", {0}) \union Forms("csri", Ends(0, 31))
  \union Forms("amo", {0}) \union Forms("system", {0})

\* gen_compressed, with the register drawn for c.lui.
KindsRvc ==
  Forms("CIW", {4 * n : n \in Ends(1, 255)})
  \union Forms("CL", {4 * n : n \in Ends(0, 31)}) \union Forms("CI", Nz6)
  \union Forms("CLI", Ends(-32, 31)) \union Forms("CI16", {16 * n : n \in Nz6})
  \union Forms("CLUI", Ends(-32, -1) \union Ends(1, 31)) \union Forms("Cshift", Ends(1, 31))
  \union Forms("CA", {0}) \union Forms("CJ", {0}) \union Forms("CB", {0})
  \union Forms("CLSP", {4 * n : n \in Ends(0, 63)}) \union Forms("CSS", {4 * n : n \in Ends(0, 63)}) \union Forms("CR", {0})

Targeted == {"B", "J", "CJ", "CB"}

\* What instruction i can be.
Drawn(kinds, i) ==
  UNION {{[form |-> k.form, imm |-> k.imm, target |-> t] :
            t \in IF k.form \in Targeted THEN {Behind(i), Ahead(i)} ELSE {NoTarget}} : k \in kinds}

\* The numbers of the labels of a program of "count" instructions, and the
\* instruction each one stands before; the last stands behind all of them.
LabelPlacesWithoutLast(count) ==
  [n \in {i \div CHUNK : i \in 0 .. count - 1} |-> n * CHUNK]
LabelPlaces(count) ==
  LET last == count \div CHUNK + 1
  IN [n \in {i \div CHUNK : i \in 0 .. count - 1} \union {last} |->
        IF n = last THEN count ELSE n * CHUNK]

-----------------------------------------------------------------------------
(* Comparing.  An image is the sequence of its units, words of "unit"      *)
(* bytes; a byte behind its end reads as zero.                             *)

UnitAt(image, i) == IF i \in DOMAIN image THEN image[i] ELSE 0

MismatchesOfCommon(repo, gnu) ==
  {i \in DOMAIN gnu \intersect DOMAIN repo : gnu[i] # repo[i]}
Mismatches(repo, gnu) == {i \in DOMAIN gnu : UnitAt(repo, i) # gnu[i]}

\* main: nothing is compared when GNU binutils are missing; the two streams,
\* 32-bit and compressed, count together.
ExitCode(installed, require, streams) ==
  IF ~installed THEN IF require THEN 1 ELSE 0
  ELSE IF \E i \in DOMAIN streams : Mismatches(streams[i].repo, streams[i].gnu) # {} THEN 1 ELSE 0

=============================================================================
