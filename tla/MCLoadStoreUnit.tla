--------------------------- MODULE MCLoadStoreUnit --------------------------
EXTENDS LoadStoreUnit

\* Two words of one line, one of the next, and a device.
a == 0
b == 1
c == LINE_WORDS
d == 2 * LINE_WORDS

lo == {0}
hi == {1}
all == {0, 1}

I(op, word, mask) == [op |-> op, word |-> word, mask |-> mask]
LD(w, m) == I("ld", w, m)
ST(w, m) == I("st", w, m)
BR == I("br", a, {})
FENCEI == I("fencei", a, {})
LR(w) == I("lr", w, all)
SC(w) == I("sc", w, all)
AMO(w) == I("amo", w, all)

\* Every program of three instructions over a small alphabet.
Alphabet == {LD(a, all), LD(a, lo), ST(a, all), ST(a, hi), ST(a, {}), LD(c, all), ST(c, lo),
             LD(d, all), ST(d, all), BR, LR(a), SC(a), AMO(a), FENCEI}
AllOfThree == [1 .. 3 -> Alphabet]

\* Atomics, fence.i and traps among loads and stores, and nested branches.
Mixed ==
  {<<LR(a), ST(a, lo), SC(a), LD(a, all)>>,
   <<LR(a), ST(b, all), SC(a), LD(a, all)>>,
   <<LR(a), BR, ST(a, {}), SC(a), SC(a)>>,
   <<ST(a, all), LR(a), AMO(a), SC(a)>>,
   <<LD(a, all), BR, LD(c, all), AMO(c), LD(c, all)>>,
   <<BR, LD(a, all), LD(a, {}), AMO(a), LD(b, all)>>,
   <<LD(a, all), ST(a, hi), AMO(b), LD(a, all)>>,
   <<BR, LD(a, all), ST(a, {}), BR, ST(a, lo), LD(a, all)>>,
   <<ST(b, hi), BR, LD(b, all), FENCEI, ST(b, lo), LD(b, all)>>,
   <<ST(a, all), ST(a, hi), LD(a, lo), LD(a, all), ST(c, lo), LD(c, lo)>>,
   <<LD(c, all), ST(a, lo), LD(a, all), ST(c, all), LD(c, all)>>,
   <<BR, ST(d, all), LD(d, all), BR, ST(d, lo), LD(d, all)>>,
   <<BR, LD(d, all), ST(a, all), BR, LD(a, lo), AMO(a)>>,
   <<BR, ST(b, all), ST(b, lo), ST(a, lo), LD(c, all), LD(a, all)>>,
   <<BR, ST(b, all), ST(b, lo), ST(d, all), LD(c, all), LD(d, all)>>,
   <<BR, ST(b, all), ST(b, hi), ST(b, lo), ST(a, all), LD(c, all), LD(a, lo)>>,
   <<ST(d, {}), LD(d, all), BR, LD(d, {}), ST(d, all)>>}

EveryProgram == AllOfThree \union Mixed

=============================================================================
