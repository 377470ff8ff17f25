------------------------------ MODULE MCOooCore -----------------------------
EXTENDS OooCore

I(op, rd, rs1, rs2) == [op |-> op, rd |-> rd, rs1 |-> rs1, rs2 |-> rs2, next |-> 0]
B(rd, rs1, rs2, next) == [op |-> "br", rd |-> rd, rs1 |-> rs1, rs2 |-> rs2, next |-> next]
P(code, handler) == [code |-> code, handler |-> handler]

a == 1
b == 2
x == NoReg

\* Dependent chains through both ALUs and both other units.
Chain == P(<<I("alu", a, x, x), I("alu", b, a, x), I("mul", a, a, b),
             I("alu", b, b, b), I("div", b, a, b), I("alu", a, a, b)>>, 7)

\* Nested branches, resolved out of order behind a division.
Nested == P(<<I("div", a, x, x), B(b, a, x, 4), I("alu", a, b, x),
              B(x, x, x, 6), I("mul", b, a, x), I("alu", a, a, b)>>, 7)

\* Wrong-path producers and consumers of every unit.
WrongPath == P(<<I("mul", a, x, x), B(x, a, x, 7), I("alu", b, x, x), I("div", a, b, x),
                 I("mul", b, b, x), I("alu", b, a, b), I("alu", b, a, b)>>, 8)

\* CSR accesses: fast ones read at the head, a serial one stops dispatch.
Csrs == P(<<I("mul", b, x, x), I("csr", a, x, x), I("alu", a, a, b), I("csr", b, b, x),
            I("ser", a, a, x), I("alu", b, a, b)>>, 7)

\* A late fault, younger work in flight, and a handler.
Fault == P(<<I("mul", a, x, x), I("flt", b, a, x), B(x, x, x, 6), I("alu", a, b, x),
             I("exc", x, x, x), I("csr", b, a, x), I("alu", a, a, b)>>, 6)

\* Serializing flushes behind a branch; an interrupt handler that returns.
Return == P(<<B(b, x, x, 3), I("exc", x, x, x), I("alu", a, b, x), I("fencei", x, x, x),
              B(x, a, x, 8), I("csr", a, a, x), I("mret", x, x, x)>>, 6)

\* A division wakes both ALUs and the branch unit at once, so that all three
\* buses have an owner while a CSR access at the head or a product asks for one.
Buses == P(<<I("div", a, x, x), I("csr", b, b, x), I("alu", b, a, x), B(x, a, x, 5),
             I("alu", a, a, x), I("mul", b, x, x), I("mul", a, a, b), I("div", b, b, x)>>, 9)

\* Every unit of the wrong path is busy when the branch resolves.
WideWrongPath ==
  P(<<I("div", a, x, x), B(x, a, x, 9), I("alu", b, x, x), I("mul", a, b, x),
      I("alu", b, a, b), B(b, b, x, 8), I("mul", a, b, a), I("alu", b, a, b),
      I("alu", a, a, b)>>, 10)

WideFault ==
  P(<<I("div", a, x, x), I("mul", b, a, x), B(x, b, x, 5), I("exc", x, x, x),
      I("flt", b, b, x), I("alu", b, b, a), I("csr", a, b, x), I("mul", a, b, a)>>, 7)

\* Both units finish under two executing ALUs, and compete for the one bus left.
Contend == P(<<I("div", a, x, x), I("mul", b, x, x), I("alu", a, x, x), I("alu", b, x, x),
               I("mul", b, a, b), I("alu", a, a, b)>>, 7)

\* Two instructions retire in the cycle a younger branch recovers.
Retire == P(<<I("alu", a, x, x), I("alu", b, x, x), B(x, x, x, 6), I("alu", a, a, x),
              I("mul", b, a, x), I("alu", a, a, b), B(b, x, x, 8), I("alu", a, b, x)>>, 9)

Handwritten == {Chain, Nested, WrongPath, Csrs, Fault, Return, Buses, Contend,
                Retire, WideWrongPath, WideFault}

\* Every program of N instructions over a small alphabet; the handler is the
\* end of the program.
Short(N) ==
  {I("alu", a, b, x), I("mul", a, b, x), I("div", b, a, x), B(a, b, x, N),
   I("csr", b, a, x), I("flt", b, a, x)}
Alphabet(N) == Short(N) \union {I("alu", b, a, b), I("ser", a, b, x), B(x, x, x, 3)}

\* Control only goes forward, so every program ends.
Forward(code) ==
  \A p \in DOMAIN code : code[p].op = "br" => code[p].next > p

AllOf(N, alphabet) == {P(c, N + 1) : c \in {d \in [1 .. N -> alphabet] : Forward(d)}}

EveryProgram == Handwritten \union AllOf(3, Alphabet(3)) \union AllOf(4, Short(4))
=============================================================================
