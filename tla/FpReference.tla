----------------------------- MODULE FpReference ----------------------------
(***************************************************************************)
(* tools/fp_ref.py: the exact reference for the core's floating point, for *)
(* a binary format of any width.  A number is its bit pattern, a natural;  *)
(* an exact value is a fraction <<n, d>> with d > 0, not reduced.  Flags   *)
(* are a set.                                                              *)
(***************************************************************************)
EXTENDS Integers, Sequences

CONSTANTS
  EXP_BITS, FRAC_BITS,     \* 8 and 23 in the code
  PAIRS                    \* operand pairs of the generated table

Modes == {"RNE", "RTZ", "RDN", "RUP", "RMM"}

EXP_MAX == 2 ^ EXP_BITS - 1                    \* the exponent of infinities and NaNs
BIAS == 2 ^ (EXP_BITS - 1) - 1
MIN_NORMAL_EXP == 1 - BIAS
SIGN_BIT == 2 ^ (EXP_BITS + FRAC_BITS)
QUIET_BIT == 2 ^ (FRAC_BITS - 1)
INFINITY == EXP_MAX * 2 ^ FRAC_BITS
MAX_FINITE == INFINITY - 1
CANONICAL_NAN == INFINITY + QUIET_BIT
Patterns == 0 .. 2 * SIGN_BIT - 1

Sign(x) == x \div SIGN_BIT
Exp(x) == (x \div 2 ^ FRAC_BITS) % 2 ^ EXP_BITS
Frac(x) == x % 2 ^ FRAC_BITS

IsNan(x) == Exp(x) = EXP_MAX /\ Frac(x) # 0
IsSnan(x) == IsNan(x) /\ (x \div QUIET_BIT) % 2 = 0
IsInf(x) == Exp(x) = EXP_MAX /\ Frac(x) = 0
IsZero(x) == x % SIGN_BIT = 0
Negated(x) == (x + SIGN_BIT) % (2 * SIGN_BIT)
Signed(sign, x) == sign * SIGN_BIT + x

-----------------------------------------------------------------------------
(* Fractions.                                                              *)

Pow2(e) == IF e >= 0 THEN <<2 ^ e, 1>> ELSE <<1, 2 ^ (-e)>>
Times(p, q) == <<p[1] * q[1], p[2] * q[2]>>
Plus(p, q) == <<p[1] * q[2] + q[1] * p[2], p[2] * q[2]>>
Reciprocal(q) == IF q[1] > 0 THEN <<q[2], q[1]>> ELSE <<-q[2], -q[1]>>
Over(p, q) == Times(p, Reciprocal(q))
Minus(q) == <<-q[1], q[2]>>
Less(p, q) == p[1] * q[2] < q[1] * p[2]
Same(p, q) == p[1] * q[2] = q[1] * p[2]
Whole(n) == <<n, 1>>

Value(x) ==
  LET mag == IF Exp(x) = 0
             THEN Times(<<Frac(x), 2 ^ FRAC_BITS>>, Pow2(MIN_NORMAL_EXP))
             ELSE Times(<<2 ^ FRAC_BITS + Frac(x), 2 ^ FRAC_BITS>>, Pow2(Exp(x) - BIAS))
  IN IF Sign(x) = 1 THEN Minus(mag) ELSE mag

-----------------------------------------------------------------------------
(* Rounding.                                                               *)

\* A non-negative magnitude to an integer.
RoundInt(q, negative, rm) ==
  LET floor == q[1] \div q[2]
      rem == <<q[1] % q[2], q[2]>>
      half == <<1, 2>>
      up == /\ rem[1] # 0
            /\ CASE rm = "RNE" -> Less(half, rem) \/ (Same(half, rem) /\ floor % 2 = 1)
                 [] rm = "RTZ" -> FALSE
                 [] rm = "RDN" -> negative
                 [] rm = "RUP" -> ~negative
                 [] rm = "RMM" -> ~Less(rem, half)
  IN IF up THEN floor + 1 ELSE floor

BitLength(n) == CHOOSE k \in 0 .. 31 : n < 2 ^ k /\ (k > 0 => n >= 2 ^ (k - 1))

\* floor(log2(mag)) of a positive fraction, from an estimate put right.
Lowered(mag, guess) == IF Less(mag, Pow2(guess)) THEN guess - 1 ELSE guess
Raised(mag, low) ==
  CHOOSE e \in low .. low + 2 :
    /\ Less(mag, Pow2(e + 1))
    /\ \A k \in low .. e - 1 : ~Less(mag, Pow2(k + 1))
ExponentOf(mag) == Raised(mag, Lowered(mag, BitLength(mag[1]) - BitLength(mag[2])))

\* Tininess is decided on the exponent after rounding, not the one before.
TinyBeforeRounding(before, after) == before < MIN_NORMAL_EXP
Tiny(before, after) == after < MIN_NORMAL_EXP

\* The significand m of a number in 2^exp .. 2^(exp + 1), as <<exp, m>>: it may
\* have been rounded up to the next power of two.
Carried(exp, m) == IF m = 2 ^ (FRAC_BITS + 1) THEN <<exp + 1, m \div 2>> ELSE <<exp, m>>

Flags(inexact, tiny) == IF inexact THEN {"NX"} \union {f \in {"UF"} : tiny} ELSE {}

\* Multiples of the smallest number; 2 ^ FRAC_BITS of them are MIN_NORMAL.
Subnormal(sign, q, m, tiny) == <<Signed(sign, m), Flags(~Same(Whole(m), q), tiny)>>

Overflow(negative, sign, rm) ==
  LET to_max == rm = "RTZ" \/ (rm = "RDN" /\ ~negative) \/ (rm = "RUP" /\ negative)
  IN <<Signed(sign, IF to_max THEN MAX_FINITE ELSE INFINITY), {"OF", "NX"}>>

Normal(sign, mag, e, m, tiny) ==
  <<Signed(sign, (e + BIAS) * 2 ^ FRAC_BITS + (m % 2 ^ FRAC_BITS)),
    Flags(~Same(Times(Whole(m), Pow2(e - FRAC_BITS)), mag), tiny)>>

\* From the exponent before rounding, and the one and the significand after it.
Encoded(negative, sign, mag, rm, exp, rounded) ==
  LET e == rounded[1]
      tiny == Tiny(exp, e)
      q == Over(mag, Pow2(MIN_NORMAL_EXP - FRAC_BITS))
  IN IF e < MIN_NORMAL_EXP THEN Subnormal(sign, q, RoundInt(q, negative, rm), tiny)
     ELSE IF e > BIAS THEN Overflow(negative, sign, rm)
     ELSE Normal(sign, mag, e, rounded[2], tiny)

Rounded(negative, sign, mag, rm, exp) ==
  Encoded(negative, sign, mag, rm, exp,
          Carried(exp, RoundInt(Over(mag, Pow2(exp - FRAC_BITS)), negative, rm)))

RoundToFormat(exact, rm) ==
  LET negative == exact[1] < 0
      mag == IF negative THEN Minus(exact) ELSE exact
  IN Rounded(negative, IF negative THEN 1 ELSE 0, mag, rm, ExponentOf(mag))

-----------------------------------------------------------------------------
(* The four operations; <<bits, flags>>.                                   *)

NanResult(a, b) == <<CANONICAL_NAN, IF IsSnan(a) \/ IsSnan(b) THEN {"NV"} ELSE {}>>
Invalid == <<CANONICAL_NAN, {"NV"}>>

FpAdd(a, b, rm) ==
  LET exact == Plus(Value(a), Value(b)) IN
  IF IsNan(a) \/ IsNan(b) THEN NanResult(a, b)
  ELSE IF IsInf(a) /\ IsInf(b) THEN IF Sign(a) # Sign(b) THEN Invalid ELSE <<a, {}>>
  ELSE IF IsInf(a) THEN <<a, {}>>
  ELSE IF IsInf(b) THEN <<b, {}>>
  ELSE IF exact[1] = 0
  THEN IF Sign(a) = Sign(b) /\ IsZero(a) /\ IsZero(b) THEN <<a, {}>>
       ELSE <<IF rm = "RDN" THEN SIGN_BIT ELSE 0, {}>>
  ELSE RoundToFormat(exact, rm)

XorSign(a, b) == (Sign(a) + Sign(b)) % 2

FpMul(a, b, rm) ==
  IF IsNan(a) \/ IsNan(b) THEN NanResult(a, b)
  ELSE IF (IsInf(a) /\ IsZero(b)) \/ (IsZero(a) /\ IsInf(b)) THEN Invalid
  ELSE IF IsInf(a) \/ IsInf(b) THEN <<Signed(XorSign(a, b), INFINITY), {}>>
  ELSE IF IsZero(a) \/ IsZero(b) THEN <<Signed(XorSign(a, b), 0), {}>>
  ELSE RoundToFormat(Times(Value(a), Value(b)), rm)

FpDiv(a, b, rm) ==
  IF IsNan(a) \/ IsNan(b) THEN NanResult(a, b)
  ELSE IF (IsZero(a) /\ IsZero(b)) \/ (IsInf(a) /\ IsInf(b)) THEN Invalid
  ELSE IF IsInf(a) THEN <<Signed(XorSign(a, b), INFINITY), {}>>
  ELSE IF IsZero(b) THEN <<Signed(XorSign(a, b), INFINITY), {"DZ"}>>
  ELSE IF IsZero(a) \/ IsInf(b) THEN <<Signed(XorSign(a, b), 0), {}>>
  ELSE RoundToFormat(Over(Value(a), Value(b)), rm)

Compute(op, a, b, rm) ==
  CASE op = "add" -> FpAdd(a, b, rm)
    [] op = "sub" -> FpAdd(a, Negated(b), rm)
    [] op = "mul" -> FpMul(a, b, rm)
    [] op = "div" -> FpDiv(a, b, rm)

-----------------------------------------------------------------------------
(* Operands of the test vectors.                                           *)

One == BIAS * 2 ^ FRAC_BITS
PowerOfTwo(e) == (BIAS + e) * 2 ^ FRAC_BITS
MIN_NORMAL == 2 ^ FRAC_BITS

SPECIALS ==
  <<0, Negated(0), INFINITY, Negated(INFINITY),
    CANONICAL_NAN, INFINITY + QUIET_BIT \div 2, 2 * SIGN_BIT - 1,
    1, Negated(1), MIN_NORMAL - 1, QUIET_BIT, MIN_NORMAL, Negated(MIN_NORMAL),
    MAX_FINITE, Negated(MAX_FINITE), MAX_FINITE - 1,
    One, Negated(One), One + 1, One - 1, PowerOfTwo(1), One + QUIET_BIT,
    PowerOfTwo(-FRAC_BITS), PowerOfTwo(-FRAC_BITS - 1), PowerOfTwo(FRAC_BITS)>>

\* The last choice, any pattern at all, covers the others.
RandomOperands == Patterns

MaxOf(m, n) == IF m > n THEN m ELSE n

\* x is y with the bit of value "flip" inverted (none if 0).
Differs(x, y, flip) ==
  IF flip = 0 THEN x = y ELSE x = IF (y \div flip) % 2 = 1 THEN y - flip ELSE y + flip

\* Near -a, near a, or a scaled down by 2^shift with its fraction kept.
RelatedOperands(a) ==
  {x \in Patterns : \E flip \in {0, 1, 2, QUIET_BIT} : Differs(x, Negated(a), flip)}
  \union {(a + d) % (2 * SIGN_BIT) : d \in -3 .. 3}
  \union {Signed(Sign(a), MaxOf(0, Exp(a) - shift) * 2 ^ FRAC_BITS + Frac(a)) : shift \in 1 .. EXP_MAX}

-----------------------------------------------------------------------------
(* tools/gen_fp_lockstep.py: a generated program that runs the four        *)
(* operations over a table of operand pairs, in every static rounding mode *)
(* and the dynamic one, and stores results behind the table.  Addresses    *)
(* are in bytes from fp_operands; memory is word addressed.                *)

Ops == <<"add", "sub", "mul", "div">>
StaticModes == <<"RNE", "RTZ", "RDN", "RUP", "RMM">>

\* Every other special against the ones between them, then random pairs.
OperandPairs(draws) ==
  LET firsts == [i \in 1 .. (Len(SPECIALS) + 1) \div 2 |-> SPECIALS[2 * i - 1]]
      seconds == [i \in 1 .. Len(SPECIALS) \div 2 |-> SPECIALS[2 * i]]
      n == Len(seconds)
      crossed == [i \in 1 .. Len(firsts) * n |->
                    <<firsts[((i - 1) \div n) + 1], seconds[((i - 1) % n) + 1]>>]
  IN SubSeq(crossed \o draws, 1, PAIRS)

fp_results == 8 * PAIRS
ResultsEnd == fp_results + 4 * 2 * PAIRS

InitialMemory(pairs) ==
  [w \in {4 * i : i \in 0 .. ResultsEnd \div 4 - 1} |->
     IF w >= fp_results THEN 0 ELSE pairs[(w \div 8) + 1][IF w % 8 = 0 THEN 1 ELSE 2]]

\* The registers at the top of the loop, by iteration; remu of the pairs left.
PointersApart == [s0 |-> 8, s2 |-> 4]
Pointers == [s0 |-> 8, s2 |-> 8]
Top(k) == [s0 |-> k * Pointers.s0, s1 |-> PAIRS - k, s2 |-> fp_results + k * Pointers.s2]
DynamicMode(s1) == StaticModes[(s1 % 5) + 1]

\* f3 to f6 by the operation they come from, and what is stored of them.
Results(f1, f2, rm) ==
  [op \in {"add", "sub", "mul", "div"} |-> Compute(op, f1, f2, rm)[1]]
Combined(f, rm) == Compute("mul", Compute("add", f["add"], f["sub"], rm)[1], f["mul"], rm)[1]
WithResults(memory, at, f, rm) ==
  [memory EXCEPT ![at.s2] = Combined(f, rm), ![at.s2 + 4] = f["div"]]

\* One iteration on the memory it finds.  Each mode overwrites f3 to f6, the
\* dynamic one is the last, and the instructions without a mode use it too.
Iteration(memory, at) ==
  WithResults(memory, at, Results(memory[at.s0], memory[at.s0 + 4], DynamicMode(at.s1)),
         DynamicMode(at.s1))

\* The loop ends when s1 has been counted down to zero.
Final(pairs) ==
  LET after[k \in 0 .. PAIRS] ==
        IF k = 0 THEN InitialMemory(pairs) ELSE Iteration(after[k - 1], Top(k - 1))
  IN after[PAIRS]
=============================================================================
