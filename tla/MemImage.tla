------------------------------- MODULE MemImage -----------------------------
(***************************************************************************)
(* Memory images: tools/elf_to_mem.py, and the image that                  *)
(* tools/lockstep.py builds around a program, with a jump to it at the     *)
(* reset vector.  Bytes and words are the sets of their one bits, so that  *)
(* "|" is union and a shift moves every member.                            *)
(***************************************************************************)
EXTENDS Integers, FiniteSets

CONSTANTS
  MEM_BYTES,       \* size of the memory, a multiple of four
  JUMP_TARGET      \* TEXT_BASE, where the linker script puts programs

WORD_BYTES == 4
Bits(n) == 0 .. n - 1

ShiftLeft(bits, by) == {b + by : b \in bits}
TooLarge == "too large"

-----------------------------------------------------------------------------
(* Words of a .mem file, one to a line, line i for the bytes from 4 * i.   *)

\* The first byte taken as the highest: a mutant of what follows.
EmitMemBigEndian(image) ==
  [line \in 0 .. MEM_BYTES \div WORD_BYTES - 1 |->
     UNION {ShiftLeft(image[WORD_BYTES * line + 3 - k], 8 * k) : k \in 0 .. WORD_BYTES - 1}]

EmitMem(image) ==
  [line \in 0 .. MEM_BYTES \div WORD_BYTES - 1 |->
     UNION {ShiftLeft(image[WORD_BYTES * line + k], 8 * k) : k \in 0 .. WORD_BYTES - 1}]

\* The payload at "base" of an image of zeros; a function from 0 of bytes.
Placed(payload, base) ==
  [a \in 0 .. MEM_BYTES - 1 |-> IF a - base \in DOMAIN payload THEN payload[a - base] ELSE {}]

Size(payload) == Cardinality(DOMAIN payload)

\* elf_to_mem.py, a flat image from address zero.
ElfToMem(payload) ==
  IF Size(payload) > MEM_BYTES THEN TooLarge ELSE EmitMem(Placed(payload, 0))

-----------------------------------------------------------------------------
(* lockstep.py.                                                            *)

\* The bits of an offset of 21 bits, two's complement.
OffsetBits(offset) == {b \in Bits(21) : (offset \div 2 ^ b) % 2 = 1}

\* imm[20] to bit 31, imm[10:1] to 30..21, imm[11] to 20, imm[19:12] to 19..12.
EncodeJal(rd, offset) ==
  LET imm == OffsetBits(offset)
      Field(lo, hi, at) == ShiftLeft({b \in imm : b \in lo .. hi}, at - lo)
  IN Field(20, 20, 31) \union Field(1, 10, 21) \union Field(11, 11, 20) \union Field(12, 19, 12)
     \union ShiftLeft({b \in Bits(5) : (rd \div 2 ^ b) % 2 = 1}, 7)
     \union {0, 1, 2, 3, 5, 6}

ByteOf(word, k) == {b - 8 * k : b \in word \intersect (8 * k .. 8 * k + 7)}

Trampoline == EncodeJal(0, JUMP_TARGET)

BuildImage(payload) ==
  IF JUMP_TARGET + Size(payload) > MEM_BYTES THEN TooLarge
  ELSE EmitMem([a \in 0 .. MEM_BYTES - 1 |->
                  IF a < 4 THEN ByteOf(Trampoline, a) ELSE Placed(payload, JUMP_TARGET)[a]])

-----------------------------------------------------------------------------
(* What the processor finds in the image.                                  *)

LoadedByte(mem, a) == ByteOf(mem[a \div WORD_BYTES], a % WORD_BYTES)

\* The target of a jal at address zero, by the fields of the instruction
\* format: bit 20 of the immediate is its sign.
JalTarget(word) ==
  LET imm == {20 : b \in word \intersect {31}} \union {b - 20 : b \in word \intersect (21 .. 30)}
             \union {11 : b \in word \intersect {20}} \union (word \intersect (12 .. 19))
      Weight(b) == IF b = 20 THEN -(2 ^ 20) ELSE 2 ^ b
      sum[n \in 0 .. 21] == IF n = 0 THEN 0
                            ELSE sum[n - 1] + IF n - 1 \in imm THEN Weight(n - 1) ELSE 0
  IN sum[21]
IsJal(word) == word \intersect Bits(7) = {0, 1, 2, 3, 5, 6}
LinkRegister(word) == {b - 7 : b \in word \intersect (7 .. 11)}

=============================================================================
