------------------------------ MODULE DataCache -----------------------------
(***************************************************************************)
(* The data side behind the load/store unit: the cache (datacache.sv with  *)
(* cache_tags.sv), its controller (datacachefsm.sv), the committed stores  *)
(* waiting to be written (StoreBuffer.sv, here the queue it refines) and   *)
(* the single synchronous memory port (otter_memory_v1_07.sv).             *)
(*                                                                         *)
(* A load is [word, mask], the word it is in and the byte lanes it reads,  *)
(* or NoLoad.  Words outside the cacheable range are device registers and  *)
(* behave as memory here.  DSide is one clock cycle; LoadStoreUnit joins   *)
(* it to the unit that drives it.                                          *)
(***************************************************************************)
EXTENDS StoreForwarding

CONSTANTS WORDS,         \* words of memory
          LANES,         \* bytes of a word (4 in the code)
          LINE_WORDS,    \* words of a line (8 in the code)
          LINES,         \* lines of the cache (16 in the code)
          Uncached,      \* device words
          STOREBUF_DEPTH,
          NoLoad, NoLine

ASSUME DataCacheAssumption ==
  /\ WORDS \in Nat \ {0} /\ LANES \in Nat \ {0}
  /\ LINE_WORDS \in Nat \ {0} /\ LINES \in Nat \ {0}
  /\ Uncached \subseteq 0 .. WORDS - 1 /\ STOREBUF_DEPTH \in Nat \ {0}

Word == 0 .. WORDS - 1
Lane == 0 .. LANES - 1
Way == 0 .. LINES - 1
Offset == 0 .. LINE_WORDS - 1
LineOf(w) == w \div LINE_WORDS
OffsetOf(w) == w % LINE_WORDS
Cacheable(w) == w \notin Uncached

\* The cacheable range is whole lines (datacache.sv:85).
ASSUME LinesAssumption ==
  \A w \in Word : Cacheable(w) =>
    \A o \in Offset : /\ LineOf(w) * LINE_WORDS + o \in Word
                      /\ Cacheable(LineOf(w) * LINE_WORDS + o)

VARIABLES mem,             \* [Word -> [Lane -> value]]
          dout,            \* the word the port read last
          sb,              \* the store buffer, oldest first
          tags,            \* [Way -> line or NoLine]
          lines,           \* [Way -> [Offset -> [Lane -> value]]]
          victim,          \* the way a refill writes
          fill,            \* beat of the refill under way, 0 when there is none
          uncached_wait    \* an uncached read is in its second cycle

dsideVars == <<mem, dout, sb, tags, lines, victim, fill, uncached_wait>>

WaysOf(w) == {y \in Way : Cacheable(w) /\ tags[y] = LineOf(w)}
sb_full == Len(sb) = STOREBUF_DEPTH
sb_empty == sb = <<>>

-----------------------------------------------------------------------------
(* The controller, for the load ld in the load stage.                      *)

Cached(ld) == ld # NoLoad /\ Cacheable(ld.word)
hit(ld) == Cached(ld) /\ WaysOf(ld.word) # {}
loadForwardHit(ld) == Cached(ld) /\ ForwardHit(sb, ld.word, ld.mask)
loadForwardConflict(ld) == Cached(ld) /\ ForwardConflict(sb, ld.word, ld.mask)

cached_load_miss(ld) ==
  Cached(ld) /\ ~hit(ld) /\ ~loadForwardHit(ld) /\ ~loadForwardConflict(ld)
uncached_load(ld) == ld # NoLoad /\ ~Cacheable(ld.word)

busy == fill # 0 \/ uncached_wait
fill_write == fill # 0      \* enable_write

start_fill(ld) == cached_load_miss(ld) /\ ~busy /\ sb_empty

start_uncached_load(ld) == uncached_load(ld) /\ ~busy /\ sb_empty

\* Mutated: a load of a device does not wait for older stores.
load_waiting_for_storeCached(ld) == cached_load_miss(ld) /\ ~sb_empty
load_waiting_for_store(ld) == (cached_load_miss(ld) \/ uncached_load(ld)) /\ ~sb_empty

\* Mutated: stores drain during a refill.
drain_issueAlways == ~sb_empty /\ ~uncached_wait
drain_issue == ~sb_empty /\ ~busy

stall(ld) ==
  \/ fill_write \/ start_fill(ld)
  \/ loadForwardConflict(ld) \/ load_waiting_for_store(ld) \/ start_uncached_load(ld)

\* What the load returns in a cycle in which it is not stalled.
load_result(ld) ==
  IF loadForwardHit(ld) THEN Forwarded(sb, ld.word, ld.mask)
  ELSE IF hit(ld)
  THEN LET y == CHOOSE y \in WaysOf(ld.word) : TRUE
       IN  [l \in ld.mask |-> lines[y][OffsetOf(ld.word)][l]]
  ELSE [l \in ld.mask |-> dout[l]]

-----------------------------------------------------------------------------
(* The memory port and the cache arrays.  An atomic that is running owns   *)
(* the port; atomic is [reads, writes, word, data], or <<>> when none runs.*)

BeatWord(ld, beat) == LineOf(ld.word) * LINE_WORDS + beat

\* The word the port reads this cycle, if any.
PortReads(ld, atomic) ==
  IF atomic # <<>> THEN (IF atomic.reads THEN {atomic.word} ELSE {})
  ELSE IF start_fill(ld) THEN {BeatWord(ld, 0)}
  ELSE IF fill \in 1 .. LINE_WORDS - 1 THEN {BeatWord(ld, fill)}
  ELSE IF start_uncached_load(ld) THEN {ld.word}
  ELSE {}

PortWrites(atomic) ==
  IF atomic # <<>> THEN IF atomic.writes THEN <<[word |-> atomic.word, data |-> atomic.data]>>
                                         ELSE <<>>
  ELSE IF drain_issue THEN <<Head(sb)>> ELSE <<>>

\* A refill takes an invalid line if there is one; which valid line it takes
\* otherwise is the replacement policy's business.
Victims ==
  LET invalid == {y \in Way : tags[y] = NoLine}
  IN  IF invalid = {} THEN Way ELSE {CHOOSE y \in invalid : \A z \in invalid : y <= z}

\* Mutated: a drained store only goes to memory.
NextLinesWriteAround(ld, invalidates) ==
  IF fill_write
  THEN [lines EXCEPT ![victim] = [@ EXCEPT ![fill - 1] = dout]]
  ELSE lines

\* A refill beat, or a drained store merged into the line that has its word.
NextLines(ld, invalidates) ==
  IF fill_write
  THEN [lines EXCEPT ![victim] = [@ EXCEPT ![fill - 1] = dout]]
  ELSE IF drain_issue /\ ~invalidates
  THEN LET s == Head(sb)
       IN  [y \in Way |-> IF y \in WaysOf(s.word)
                          THEN [lines[y] EXCEPT ![OffsetOf(s.word)] = Merged(@, s.data)]
                          ELSE lines[y]]
  ELSE lines

\* The tag of a refilled line is published with its last word.
NextTags(ld, atomic, invalidates) ==
  [y \in Way |-> IF fill = LINE_WORDS /\ y = victim THEN LineOf(ld.word)
                 ELSE IF invalidates /\ ~fill_write /\ y \in WaysOf(atomic.word) THEN NoLine
                 ELSE tags[y]]

DSideInit ==
  /\ mem = [w \in Word |-> [l \in Lane |-> 0]]
  /\ dout = [l \in Lane |-> 0]
  /\ sb = <<>>
  /\ tags = [y \in Way |-> NoLine]
  /\ lines = [y \in Way |-> [o \in Offset |-> [l \in Lane |-> 0]]]
  /\ victim = 0 /\ fill = 0 /\ uncached_wait = FALSE

\* One cycle; entering is <<s>> when the store s commits, else <<>>.
DSide(ld, entering, atomic) ==
  LET reads  == PortReads(ld, atomic)
      writes == PortWrites(atomic)
      invalidates == atomic # <<>> /\ atomic.writes /\ Cacheable(atomic.word)
  IN  /\ mem' = IF writes = <<>> THEN mem ELSE Written(mem, writes[1])
      /\ dout' = IF reads = {} THEN dout ELSE mem[CHOOSE w \in reads : TRUE]
      /\ sb' = (IF drain_issue THEN Tail(sb) ELSE sb)
               \o (IF sb_full THEN <<>> ELSE entering)
      /\ lines' = NextLines(ld, invalidates)
      /\ tags' = NextTags(ld, atomic, invalidates)
      /\ victim' \in (IF start_fill(ld) THEN Victims ELSE {victim})
      /\ fill' = IF fill = LINE_WORDS THEN 0
                 ELSE IF fill # 0 \/ start_fill(ld) THEN fill + 1 ELSE 0
      /\ uncached_wait' = start_uncached_load(ld)

=============================================================================
