-------------------------- MODULE InstructionCache --------------------------
(***************************************************************************)
(* The instruction side of memory: the two copies of the instruction       *)
(* memory (imem.sv), one read at the program counter and one a line        *)
(* further, the cache with its one-line prefetch buffer (cache.sv over     *)
(* cache_tags.sv) and the miss controller (cachefsm.sv).                   *)
(*                                                                         *)
(* Code is an array of halfwords.  A halfword is a parcel [kind, len, ver]:*)
(* what the instruction that starts there is and how many halfwords it     *)
(* takes (a second halfword may be jumped to and is a parcel as well); ver *)
(* tells rewritten code from the old.  Addresses count halfwords and wrap  *)
(* at the end of the memory.                                               *)
(***************************************************************************)
EXTENDS Integers, Sequences

CONSTANTS CODE_LINES,    \* lines of instruction memory (2048 in the code)
          LINE_HALVES,   \* halfwords of a line (16 in the code)
          LINES,         \* lines of the cache (16 in the code)
          Images,        \* initial contents of the instruction memory
          NoLine

Parcel == [kind : {"plain", "branch", "jump", "system"}, len : {1, 2}, ver : Nat]
Half == 0 .. CODE_LINES * LINE_HALVES - 1

ASSUME InstructionCacheAssumption ==
  /\ CODE_LINES \in Nat \ {0} /\ LINES \in Nat \ {0}
  /\ LINE_HALVES \in Nat \ {0} /\ LINE_HALVES % 2 = 0
  /\ Images \subseteq [Half -> Parcel] /\ NoLine \notin Nat

Line == 0 .. CODE_LINES - 1
Way == 0 .. LINES - 1
Wrap(h) == h % (CODE_LINES * LINE_HALVES)
LineOf(h) == Wrap(h) \div LINE_HALVES
NextLine(l) == (l + 1) % CODE_LINES

VARIABLES code,          \* ram: [Half -> parcel], written by stores as well
          imem,          \* line_q and w0..w7: the line read at the PC
          ahead,         \* prefetch_line and pw0..pw7: the line after
          tags,          \* [Way -> line or NoLine]
          lines,         \* [Way -> contents of a line]
          prefetch,      \* the prefetch buffer, its line NoLine when invalid
          prefetch_used,
          fsm,           \* PS of the controller
          since          \* history: what each halfword was since the last fence.i

icacheVars == <<code, imem, ahead, tags, lines, prefetch, prefetch_used, fsm, since>>

LineData == [0 .. LINE_HALVES - 1 -> Parcel]

ICacheTypeOK ==
  /\ code \in [Half -> Parcel]
  /\ imem \in [line : Line, data : LineData] /\ ahead \in [line : Line, data : LineData]
  /\ tags \in [Way -> Line \cup {NoLine}] /\ lines \in [Way -> LineData]
  /\ prefetch \in [line : Line \cup {NoLine}, data : LineData]
  /\ prefetch_used \in BOOLEAN /\ fsm \in {"read_cache", "read_mem"}
  /\ since \in [Half -> SUBSET Parcel]

LineRead(l) == [line |-> l, data |-> [o \in 0 .. LINE_HALVES - 1 |-> code[l * LINE_HALVES + o]]]

-----------------------------------------------------------------------------
(* Lookup.  Both ports use it, each for the line of its word.              *)

WaysOf(l) == {y \in Way : tags[y] = l}
cache_hit(l) == WaysOf(l) # {}
prefetch_hit(l) == prefetch.line = l
Present(l) == cache_hit(l) \/ prefetch_hit(l)

Fetched(h) ==
  LET l == LineOf(h)  o == Wrap(h) % LINE_HALVES
  IN  IF cache_hit(l) THEN lines[CHOOSE y \in WaysOf(l) : TRUE][o] ELSE prefetch.data[o]

-----------------------------------------------------------------------------
(* The miss controller: a miss takes a cycle to notice and one to refill.  *)

update == fsm = "read_mem"
pc_stall(hit, miss) == update \/ (~hit /\ miss)

\* Mutated: without a hit the controller refills, asked for or not.
NextFsmUnasked(hit, miss) == IF ~update /\ ~hit THEN "read_mem" ELSE "read_cache"
NextFsm(hit, miss) == IF ~update /\ ~hit /\ miss THEN "read_mem" ELSE "read_cache"

-----------------------------------------------------------------------------
(* One cycle of memory, cache and controller with the program counter at   *)
(* pc.                                                                     *)

prefetch_only_hit(pc) == prefetch_hit(LineOf(pc)) /\ ~cache_hit(LineOf(pc))

\* Mutated: a hit in the cache does not read ahead.
prefetch_refreshOnMiss(pc) == update \/ prefetch_only_hit(pc)
prefetch_refresh(pc) == cache_hit(LineOf(pc)) \/ update \/ prefetch_only_hit(pc)

Victims ==
  LET invalid == {y \in Way : tags[y] = NoLine}
  IN  IF invalid = {} THEN Way ELSE {CHOOSE y \in invalid : \A z \in invalid : y <= z}

\* Installs the refilled or promoted line in way y.
NextWays(pc, y, invalidate) ==
  LET filled == IF update THEN imem.data ELSE prefetch.data
  IN  IF invalidate
      THEN tags' = [z \in Way |-> NoLine] /\ UNCHANGED lines
      ELSE IF update \/ prefetch_only_hit(pc)
      THEN tags' = [tags EXCEPT ![y] = LineOf(pc)] /\ lines' = [lines EXCEPT ![y] = filled]
      ELSE UNCHANGED <<tags, lines>>

\* Mutated: the buffer is tagged with the line after the current PC.
NextPrefetchFromPc(pc, invalidate) ==
  IF invalidate THEN [prefetch EXCEPT !.line = NoLine]
  ELSE IF prefetch_refresh(pc) THEN [ahead EXCEPT !.line = NextLine(LineOf(pc))]
  ELSE prefetch

\* Mutated: fence.i forgets the buffer.
NextPrefetchKept(pc, invalidate) ==
  IF ~invalidate /\ prefetch_refresh(pc) THEN ahead ELSE prefetch

NextPrefetch(pc, invalidate) ==
  IF invalidate THEN [prefetch EXCEPT !.line = NoLine]
  ELSE IF prefetch_refresh(pc) THEN ahead
  ELSE prefetch

\* A store of the data side is copied into both instruction memories.
Snooped(store) == [h \in Half |-> IF h \in DOMAIN store THEN store[h] ELSE code[h]]

ICacheInit ==
  /\ code \in Images
  /\ imem = LineRead(0) /\ ahead = LineRead(NextLine(0))
  /\ tags = [y \in Way |-> NoLine] /\ lines = [y \in Way |-> imem.data]
  /\ prefetch = [imem EXCEPT !.line = NoLine] /\ prefetch_used = FALSE
  /\ fsm = "read_cache"
  /\ since = [h \in Half |-> {code[h]}]

ICache(pc, hit, miss, invalidate, store) ==
  /\ code' = Snooped(store)
  /\ imem' = LineRead(LineOf(pc)) /\ ahead' = LineRead(NextLine(LineOf(pc)))
  /\ \E y \in Victims : NextWays(pc, y, invalidate)
  /\ prefetch' = NextPrefetch(pc, invalidate)
  /\ prefetch_used' = (/\ ~invalidate /\ ~prefetch_refresh(pc)
                       /\ (prefetch_used \/ prefetch_only_hit(pc)))
  /\ fsm' = NextFsm(hit, miss)
  /\ since' = [h \in Half |-> (IF invalidate THEN {} ELSE since[h]) \cup {Snooped(store)[h]}]

=============================================================================
