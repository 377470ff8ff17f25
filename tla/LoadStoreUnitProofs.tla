------------------------- MODULE LoadStoreUnitProofs -------------------------
(***************************************************************************)
(* Proofs about the load/store unit over the data side, for every size of  *)
(* the queues, of the cache and of memory, and for every program.          *)
(*                                                                         *)
(* The inductive invariant IInv has a part for each thing that carries the *)
(* argument: the ring of tags in flight (RingInv), program order on it and *)
(* system instructions alone in it (OrderInv), the one place each          *)
(* unfinished access is in (PlaceInv), the store queue (QueueInv), the     *)
(* load that looks past no store it needs (LoadInv), what the memory port  *)
(* read last (PortInv), an atomic that runs alone (AtomicInv) and the      *)
(* lines of the cache (CacheCoherent).  A cycle is followed part by part;  *)
(* a flush empties all of them but the data side.                          *)
(*                                                                         *)
(* ValueInv is about values: a finished load holds what the machine in     *)
(* program order would read, of the stores before it in the queue and of   *)
(* Coming, memory once the store buffer has drained.  With it every step   *)
(* is one or two steps of InOrderMemory, or none.                          *)
(***************************************************************************)
EXTENDS LoadStoreUnit, FiniteSetTheorems, SequenceTheorems, WellFoundedInduction, TLAPS
-----------------------------------------------------------------------------
(* The tag ring.                                                           *)

(* Advancing a tag stays on the ring.                                      *)
LEMMA TagPlusType ==
  ASSUME NEW t \in Tag, NEW k \in 0 .. ROB_SIZE
  PROVE  TagPlus(t, k) \in Tag
BY RobSizeAssumption DEF Tag, TagPlus

(* Ages are ring distances.                                                *)
LEMMA TagAgeType ==
  ASSUME NEW t \in Tag, NEW h \in Tag
  PROVE  TagAge(t, h) \in 0 .. ROB_SIZE - 1
BY RobSizeAssumption DEF Tag, TagAge

(* The tag an age away from the head is that tag: tags and ages determine  *)
(* each other.                                                             *)
LEMMA TagOfAge ==
  ASSUME NEW t \in Tag, NEW h \in Tag
  PROVE  TagPlus(h, TagAge(t, h)) = t
BY RobSizeAssumption DEF Tag, TagAge, TagPlus

(* The age of the tag k places after the head is k.                        *)
LEMMA AgeOfTag ==
  ASSUME NEW h \in Tag, NEW k \in 0 .. ROB_SIZE - 1
  PROVE  TagAge(TagPlus(h, k), h) = k
BY RobSizeAssumption DEF Tag, TagAge, TagPlus

(* Advances add up as long as they stay within one turn of the ring.       *)
LEMMA TagPlusPlus ==
  ASSUME NEW t \in Tag, NEW j \in 0 .. ROB_SIZE, NEW k \in 0 .. ROB_SIZE,
         j + k <= ROB_SIZE
  PROVE  TagPlus(TagPlus(t, j), k) = TagPlus(t, j + k)
BY RobSizeAssumption DEF Tag, TagPlus

(* When the head advances by k, every tag it did not pass becomes k        *)
(* younger, and the tags it passed wrap to the young end of the ring.      *)
LEMMA AgeAfterCommit ==
  ASSUME NEW t \in Tag, NEW h \in Tag, NEW k \in 0 .. 2
  PROVE  TagAge(t, TagPlus(h, k)) =
           IF TagAge(t, h) >= k THEN TagAge(t, h) - k
                                ELSE TagAge(t, h) - k + ROB_SIZE
BY RobSizeAssumption DEF Tag, TagAge, TagPlus

-----------------------------------------------------------------------------
(* Numbers and positions.                                                  *)

\* Every set of numbers has a least one.
LEMMA SetHasMin ==
  ASSUME NEW T \in SUBSET Nat, T # {}
  PROVE  \E x \in T : \A y \in T : x <= y
<1> DEFINE R == OpToRel(<, Nat)
<1>1. IsWellFoundedOn(R, Nat)
  BY NatLessThanWellFounded
<1>2. PICK x \in T : \A y \in T : ~ (<<y, x>> \in R)
  <2> HIDE DEF R
  <2> QED BY <1>1, WFMin
<1>3. \A y \in T : <<y, x>> \in R <=> y < x
  BY DEF OpToRel
<1>4. \A y \in T : ~ (y < x)
  <2> HIDE DEF R
  <2> QED BY <1>2, <1>3, Zenon
<1> HIDE DEF R
<1> QED BY <1>4

\* Every set of positions has a last one.
LEMMA SetHasMax ==
  ASSUME NEW n \in Nat, NEW S \in SUBSET (1 .. n), S # {}
  PROVE  \E x \in S : \A y \in S : y <= x
<1> DEFINE T == {n - i : i \in S}
<1>1. T \in SUBSET Nat /\ T # {}
  <2>1. \A i \in S : n - i \in Nat
    OBVIOUS
  <2> QED BY <2>1
<1>2. PICK t \in T : \A u \in T : t <= u
  <2> HIDE DEF T
  <2> QED BY <1>1, SetHasMin
<1>3. PICK x \in S : t = n - x
  BY <1>2
<1>4. \A y \in S : t <= n - y
  BY <1>2
<1> QED BY <1>3, <1>4

-----------------------------------------------------------------------------
(* What holds in every state.                                              *)

Datum == UNION {[m -> Nat] : m \in SUBSET Lane}
Cell == [Lane -> Nat]
LoadRecord == [tag : Tag, pc : Nat, squashed : BOOLEAN, word : Word, mask : SUBSET Lane]

\* The program counters in flight, and the one behind them.
PcAt(n) == IF n < used THEN rob[TagPlus(head, n)].pc ELSE fpc

RingInv ==
  /\ prog \in Programs /\ fpc \in 1 .. Len(prog) + 1
  /\ head \in Tag /\ used \in 0 .. ROB_SIZE
  /\ \A t \in Tag : rob[t].live <=> TagAge(t, head) < used
  /\ \A t \in Live : rob[t].pc \in PC

\* What is in flight is in program order, and a system instruction is alone.
OrderInv ==
  /\ \A n \in Nat : n < used =>
       /\ PcAt(n) < PcAt(n + 1)
       /\ Code(PcAt(n)).op # "br" => PcAt(n + 1) = PcAt(n) + 1
  /\ \A t \in Live : IsSystem(rob[t].pc) => used = 1

\* The accesses that have not finished, and the places they can be in.
Undone == {t \in Live : IsMem(rob[t].pc) /\ ~rob[t].done}
Loading == IF ld # NoLoad /\ ~ld.squashed THEN {ld.tag} ELSE {}
Running == IF at.state # "idle" THEN {at.tag} ELSE {}
Leaving == {out_q.tag} \ {NoTag}

PlaceInv ==
  /\ memq \cup Loading \cup Running \cup Leaving = Undone
  /\ memq \cap Loading = {} /\ memq \cap Running = {} /\ memq \cap Leaving = {}
  /\ Loading \cap Running = {} /\ Loading \cap Leaving = {} /\ Running \cap Leaving = {}
  /\ Cardinality(memq) <= QUEUE_ENTRIES
  /\ \A t \in Live \ memq : IsMem(rob[t].pc) => \A u \in memq : Younger(u, t)

\* The store queue: which stores, in which order, with which data.
IsQueued(t) == Op(t) = "st" /\ ~ISA!Faults(rob[t].pc) /\ t \notin memq
QueueInv ==
  /\ sq \in Seq([tag : Tag, word : Word, data : Datum]) /\ Len(sq) <= SQ_ENTRIES
  /\ {s.tag : s \in Elements(sq)} = {t \in Live : IsQueued(t)}
  /\ \A i, j \in DOMAIN sq : i < j => Younger(sq[j].tag, sq[i].tag)
  /\ \A i \in DOMAIN sq : /\ sq[i].word = Code(rob[sq[i].tag].pc).word
                          /\ sq[i].data = ISA!StoreOf(rob[sq[i].tag].pc).data

\* A load in the load stage looks past no store it needs.
LoadInv ==
  /\ ld = NoLoad \/ ld \in LoadRecord
  /\ ld # NoLoad => ld.mask # {}
  /\ ld # NoLoad /\ ~ld.squashed =>
       /\ ld.word = Code(rob[ld.tag].pc).word /\ ld.mask = Code(rob[ld.tag].pc).mask
       /\ Op(ld.tag) = "ld"
       /\ \A i \in DOMAIN sq : Younger(ld.tag, sq[i].tag) =>
            ~Overlaps(sq[i], ld.word, ld.mask)

DSideType ==
  /\ mem \in [Word -> Cell] /\ dout \in Cell
  /\ sb \in Seq([word : Word, data : Datum]) /\ Len(sb) <= STOREBUF_DEPTH
  /\ tags \in [Way -> {LineOf(w) : w \in {v \in Word : Cacheable(v)}} \cup {NoLine}]
  /\ lines \in [Way -> [Offset -> Cell]]
  /\ victim \in Way /\ fill \in 0 .. LINE_WORDS /\ uncached_wait \in BOOLEAN

\* What the port has read is what the refill or the load wants.
PortInv ==
  /\ fill # 0 => /\ ld # NoLoad /\ Cacheable(ld.word) /\ ~uncached_wait
                 /\ dout = mem[BeatWord(Load, fill - 1)]
  /\ uncached_wait => ld # NoLoad /\ ~Cacheable(ld.word) /\ dout = mem[ld.word]

\* A running atomic is alone in the whole unit.
AtomicInv ==
  /\ at.state \in {"idle", "read", "wait", "write"}
  /\ at = [state |-> at.state, tag |-> at.tag, old |-> at.old]
  /\ at.state = "idle" => at = NoAtomic
  /\ at.state # "idle" =>
       /\ at.tag = head /\ used = 1 /\ ISA!IsAtomic(rob[head].pc) /\ ~ISA!Faults(rob[head].pc)
       /\ sb = <<>> /\ ~busy /\ ld = NoLoad /\ atomic_commit = 0
  /\ at.state = "wait" => dout = mem[atCode.word]
  /\ at.state = "write" => at.old = mem[atCode.word]
  /\ atomic_commit # 0 =>
       /\ used = 1 /\ out_q.tag = head /\ atomic_commit = rob[head].pc
       /\ ISA!IsAtomic(rob[head].pc) /\ ~ISA!Faults(rob[head].pc)
  /\ reserved \in Word \cup {NoWord}

IInv ==
  /\ RingInv /\ OrderInv /\ PlaceInv /\ QueueInv /\ LoadInv /\ DSideType /\ PortInv
  /\ AtomicInv /\ CacheCoherent

-----------------------------------------------------------------------------
(* The reorder buffer over a cycle.                                        *)

\* What a cycle neither commits nor squashes.
Staying(br, squash) ==
  {t \in Live : TagAge(t, head) >= commit_count /\ ~(squash /\ Younger(t, br))}

\* A program holds instructions at positions from 1.
LEMMA ProgramFacts ==
  ASSUME RingInv
  PROVE  /\ prog \in Seq(Instruction) /\ PC = 1 .. Len(prog) /\ Len(prog) \in Nat
         /\ \A p \in PC : p \in Nat /\ Code(p) \in Instruction
BY LoadStoreAssumption DEF RingInv, PC, Code

\* The ages of the two entries commit looks at, and of any other.
LEMMA HeadFacts ==
  ASSUME RingInv
  PROVE  /\ TagAge(head, head) = 0
         /\ TagPlus(head, 1) \in Tag /\ TagAge(TagPlus(head, 1), head) = 1
         /\ \A t \in Tag : /\ TagAge(t, head) \in 0 .. ROB_SIZE - 1
                           /\ TagAge(t, head) = 0 => t = head
                           /\ TagAge(t, head) = 1 => t = TagPlus(head, 1)
                           /\ \A u \in Tag : TagAge(t, head) = TagAge(u, head) => t = u
         /\ used > 0 <=> head \in Live
         /\ used > 1 <=> TagPlus(head, 1) \in Live
<1>1. /\ ROB_SIZE \in Nat /\ ROB_SIZE >= 2 /\ head \in Tag /\ used \in 0 .. ROB_SIZE
  BY RobSizeAssumption DEF RingInv
<1>2. \A t \in Tag : TagAge(t, head) \in 0 .. ROB_SIZE - 1 /\ TagPlus(head, TagAge(t, head)) = t
  BY <1>1, TagAgeType, TagOfAge
<1>3. TagPlus(head, 0) = head
  BY <1>1 DEF TagPlus, Tag
<1>4. TagAge(head, head) = 0 /\ TagPlus(head, 1) \in Tag /\ TagAge(TagPlus(head, 1), head) = 1
  BY <1>1, AgeOfTag, TagPlusType DEF TagAge, Tag
<1>5. used > 0 <=> head \in Live
  BY <1>1, <1>4 DEF Live, RingInv
<1>6. used > 1 <=> TagPlus(head, 1) \in Live
  BY <1>1, <1>4 DEF Live, RingInv
<1> QED BY <1>2, <1>3, <1>4, <1>5, <1>6

\* Commit takes at most the two oldest, and they are finished without a fault.
LEMMA CommitFacts ==
  ASSUME RingInv
  PROVE  /\ commit_count \in 0 .. 2 /\ commit_count <= used
         /\ commit0 <=> commit_count >= 1
         /\ commit1 <=> commit_count = 2
         /\ commit0 => head \in Live
         /\ commit1 => TagPlus(head, 1) \in Live /\ TagPlus(head, 1) # head
         /\ \A t \in Tag : TagAge(t, head) < commit_count =>
              /\ t \in Live /\ rob[t].done /\ ~ISA!Faults(rob[t].pc)
              /\ t = head \/ (commit1 /\ t = TagPlus(head, 1))
<1>1. /\ used \in 0 .. ROB_SIZE /\ ROB_SIZE \in Nat
  BY RobSizeAssumption DEF RingInv
<1>2. commit0 => head \in Live /\ rob[head].done /\ ~ISA!Faults(rob[head].pc)
  BY DEF commit0, h0, Live, RingInv
<1>3. commit1 => /\ commit0
                 /\ TagPlus(head, 1) \in Live /\ rob[TagPlus(head, 1)].done
                 /\ ~ISA!Faults(rob[TagPlus(head, 1)].pc)
  BY HeadFacts DEF commit1, h1, Live
<1>4. commit_count \in 0 .. 2 /\ (commit0 <=> commit_count >= 1) /\ (commit1 <=> commit_count = 2)
  BY <1>3 DEF commit_count
<1>5. commit_count <= used
  BY <1>1, <1>2, <1>3, HeadFacts DEF commit_count
<1>6. \A t \in Tag : TagAge(t, head) < commit_count =>
              /\ t \in Live /\ rob[t].done /\ ~ISA!Faults(rob[t].pc)
              /\ t = head \/ (commit1 /\ t = TagPlus(head, 1))
  <2> SUFFICES ASSUME NEW t \in Tag, TagAge(t, head) < commit_count
               PROVE  /\ t \in Live /\ rob[t].done /\ ~ISA!Faults(rob[t].pc)
                      /\ t = head \/ (commit1 /\ t = TagPlus(head, 1))
    OBVIOUS
  <2>1. TagAge(t, head) \in Nat
    BY HeadFacts
  <2>2. CASE TagAge(t, head) = 0
    BY <1>2, <1>4, <2>2, HeadFacts
  <2>3. CASE TagAge(t, head) # 0
    <3>1. TagAge(t, head) = 1 /\ commit1
      BY <1>4, <2>1, <2>3
    <3> QED BY <1>3, <3>1, HeadFacts
  <2> QED BY <2>2, <2>3
<1>7. commit1 => TagPlus(head, 1) # head
  BY HeadFacts
<1> QED BY <1>2, <1>3, <1>4, <1>5, <1>6, <1>7

\* The tags of what dispatches follow the tail and are free.
LEMMA DispatchFacts ==
  ASSUME RingInv, NEW n \in 0 .. 2, CanDispatch(n)
  PROVE  /\ used + n <= ROB_SIZE /\ fpc + n <= Len(prog) + 1
         /\ Dispatched(n) \subseteq Tag
         /\ \A t \in Tag : t \in Dispatched(n) <=> /\ used <= TagAge(t, head)
                                                   /\ TagAge(t, head) < used + n
         /\ \A t \in Dispatched(n) : /\ TagAge(t, tail) = TagAge(t, head) - used
                                     /\ TagAge(t, tail) \in 0 .. n - 1
                                     /\ fpc + TagAge(t, tail) \in PC
                                     /\ t \notin Live
         /\ \A k \in 0 .. n - 1 : TagPlus(tail, k) = TagPlus(head, used + k)
<1>1. /\ ROB_SIZE \in Nat /\ ROB_SIZE >= 2 /\ head \in Tag /\ used \in 0 .. ROB_SIZE
      /\ fpc \in 1 .. Len(prog) + 1 /\ Len(prog) \in Nat /\ PC = 1 .. Len(prog)
  BY RobSizeAssumption, ProgramFacts DEF RingInv
<1>2. used + n <= ROB_SIZE /\ fpc + n <= Len(prog) + 1
  BY <1>1 DEF CanDispatch
<1>3. tail \in Tag
  BY <1>1, TagPlusType DEF tail
<1>4. ASSUME NEW k \in 0 .. n - 1
      PROVE  /\ TagPlus(tail, k) = TagPlus(head, used + k) /\ TagPlus(tail, k) \in Tag
             /\ TagAge(TagPlus(tail, k), head) = used + k
             /\ TagAge(TagPlus(tail, k), tail) = k
  <2>1. k \in 0 .. ROB_SIZE - 1 /\ used + k \in 0 .. ROB_SIZE - 1 /\ k \in 0 .. ROB_SIZE
    BY <1>1, <1>2
  <2>2. used + k <= ROB_SIZE
    BY <1>1, <2>1
  <2>3. TagPlus(tail, k) = TagPlus(head, used + k)
    BY <1>1, <2>1, <2>2, TagPlusPlus DEF tail
  <2> QED BY <1>1, <1>3, <2>1, <2>3, TagPlusType, AgeOfTag
<1>5. \A t \in Dispatched(n) : \E k \in 0 .. n - 1 : t = TagPlus(tail, k)
  BY DEF Dispatched
<1>6. Dispatched(n) \subseteq Tag
  BY <1>4, <1>5
<1>7. ASSUME NEW t \in Dispatched(n)
      PROVE  /\ TagAge(t, tail) = TagAge(t, head) - used
             /\ TagAge(t, tail) \in 0 .. n - 1
             /\ used <= TagAge(t, head) /\ TagAge(t, head) < used + n
             /\ fpc + TagAge(t, tail) \in PC
             /\ t \notin Live
  <2>1. PICK k \in 0 .. n - 1 : t = TagPlus(tail, k)
    BY <1>5
  <2>2. TagAge(t, tail) = k /\ TagAge(t, head) = used + k /\ t \in Tag
    BY <1>4, <2>1
  <2>3. t \notin Live
    BY <1>1, <1>6, <2>2 DEF Live, RingInv
  <2> QED BY <1>1, <1>2, <2>2, <2>3
<1>8. ASSUME NEW t \in Tag, used <= TagAge(t, head), TagAge(t, head) < used + n
      PROVE  t \in Dispatched(n)
  <2>1. TagAge(t, head) \in 0 .. ROB_SIZE - 1 /\ TagPlus(head, TagAge(t, head)) = t
    BY <1>1, TagAgeType, TagOfAge
  <2>2. PICK k \in Int : k = TagAge(t, head) - used
    BY <1>1, <2>1
  <2>3. k \in 0 .. n - 1 /\ used + k = TagAge(t, head)
    BY <1>1, <1>8, <2>1, <2>2
  <2>4. t = TagPlus(tail, k)
    BY <1>4, <2>1, <2>3
  <2> QED BY <2>3, <2>4 DEF Dispatched
<1> QED BY <1>2, <1>4, <1>6, <1>7, <1>8


\* What the program says does not change.
LEMMA StaticFacts ==
  ASSUME prog' = prog
  PROVE  /\ PC' = PC /\ Len(prog)' = Len(prog)
         /\ \A p : /\ Code(p)' = Code(p)
                   /\ IsMem(p)' <=> IsMem(p)
                   /\ IsSystem(p)' <=> IsSystem(p)
                   /\ ISA!Faults(p)' <=> ISA!Faults(p)
                   /\ ISA!IsAtomic(p)' <=> ISA!IsAtomic(p)
                   /\ ISA!StoreOf(p)' = ISA!StoreOf(p)
<1>1. ISA!StoreOf(0)' = ISA!StoreOf(0) /\ \A p : ISA!StoreOf(p)' = ISA!StoreOf(p)
  BY DEF ISA!StoreOf, ISA!Code
<1>2. \A p : ISA!IsAtomic(p)' <=> ISA!IsAtomic(p)
  BY DEF ISA!IsAtomic, ISA!Code
<1>3. \A p : ISA!Faults(p)' <=> ISA!Faults(p)
  BY DEF ISA!Faults, ISA!Code
<1> QED BY <1>1, <1>2, <1>3 DEF PC, Code, IsMem, IsSystem

\* What a cycle makes of the entry of a tag that stays.
Advanced(t, br, grant) ==
  IF t = br THEN Finished(rob[t], rob[t].val)
  ELSE IF grant /\ t = out_q.tag THEN Finished(rob[t], out_q.val)
  ELSE rob[t]

LEMMA CycleRob ==
  ASSUME RingInv, PlaceInv, NEW n \in 0 .. 2, NEW ready \in BOOLEAN, NEW grant \in BOOLEAN,
         NEW br \in Tag \cup {NoTag}, NEW squash \in BOOLEAN,
         Cycle(n, ready, grant, br, squash)
  PROVE  /\ prog' = prog /\ head' = TagPlus(head, commit_count) /\ head' \in Tag
         /\ used' \in 0 .. ROB_SIZE
         /\ Live' = Staying(br, squash) \cup Dispatched(n)
         /\ Staying(br, squash) \cap Dispatched(n) = {} /\ Staying(br, squash) \subseteq Live
         /\ Dispatched(n) \subseteq Tag
         /\ squash => /\ n = 0 /\ Dispatched(n) = {} /\ br \in Staying(br, squash)
                      /\ used' = TagAge(br, head) + 1 - commit_count
         /\ ~squash => used' = used + n - commit_count
         /\ \A t \in Staying(br, squash) : rob'[t] = Advanced(t, br, grant)
         /\ \A t \in Dispatched(n) : rob'[t] = RobEntry(fpc + TagAge(t, tail))
         /\ \A t \in Live' : /\ TagAge(t, head) >= commit_count
                             /\ TagAge(t, head') = TagAge(t, head) - commit_count
         /\ \A t \in Tag : t \in Live' <=> TagAge(t, head') < used'
         /\ \A t, u \in Live' : TagYounger(t, u, head') <=> Younger(t, u)
<1>1. /\ ROB_SIZE \in Nat /\ ROB_SIZE >= 2 /\ head \in Tag /\ used \in 0 .. ROB_SIZE
      /\ \A t \in Tag : rob[t].live <=> TagAge(t, head) < used
  BY RobSizeAssumption DEF RingInv
<1>2. /\ CanDispatch(n) /\ prog' = prog /\ head' = TagPlus(head, commit_count)
      /\ squash => n = 0 /\ br # NoTag
      /\ br # NoTag => br \in Live /\ ~rob[br].done
      /\ grant => out_q.tag # NoTag
      /\ rob' = [t \in Tag |->
           IF t \in Dispatched(n)
           THEN RobEntry(fpc + TagAge(t, tail))
           ELSE IF TagAge(t, head) < commit_count \/ (squash /\ Younger(t, br)) THEN Idle
           ELSE IF t = br THEN Finished(rob[t], rob[t].val)
           ELSE IF grant /\ t = out_q.tag THEN Finished(rob[t], out_q.val)
           ELSE rob[t]]
  BY DEF Cycle
<1>3. /\ commit_count \in 0 .. 2 /\ commit_count <= used
      /\ \A t \in Tag : TagAge(t, head) < commit_count => t \in Live /\ rob[t].done
  BY CommitFacts
<1>4. /\ used + n <= ROB_SIZE
      /\ Dispatched(n) \subseteq Tag
      /\ \A t \in Tag : t \in Dispatched(n) <=> /\ used <= TagAge(t, head)
                                                /\ TagAge(t, head) < used + n
      /\ \A t \in Dispatched(n) : t \notin Live
  BY <1>2, DispatchFacts
<1>5. \A t \in Tag : TagAge(t, head) \in 0 .. ROB_SIZE - 1
  BY HeadFacts
<1>0. used' = (IF squash THEN TagAge(br, head) + 1 ELSE used + n) - commit_count
  BY DEF Cycle
<1>21. /\ squash => used' = TagAge(br, head) + 1 - commit_count /\ TagAge(br, head) \in 0 .. ROB_SIZE - 1
       /\ ~squash => used' = used + n - commit_count
  <2>1. CASE squash
    <3>1. TagAge(br, head) \in 0 .. ROB_SIZE - 1
      BY <1>2, <1>5, <2>1 DEF Live
    <3> QED BY <1>0, <1>1, <1>3, <2>1, <3>1
  <2>2. CASE ~squash
    BY <1>0, <1>1, <1>3, <2>2
  <2> QED BY <2>1, <2>2
<1>6. Staying(br, squash) \subseteq Live /\ Live \subseteq Tag
  BY DEF Staying, Live
<1>7. Staying(br, squash) \cap Dispatched(n) = {}
  BY <1>4, <1>6
<1>8. squash => /\ n = 0 /\ Dispatched(n) = {} /\ br \in Staying(br, squash)
                /\ used' = TagAge(br, head) + 1 - commit_count
  <2> SUFFICES ASSUME squash
               PROVE  /\ n = 0 /\ Dispatched(n) = {} /\ br \in Staying(br, squash)
                      /\ used' = TagAge(br, head) + 1 - commit_count
    OBVIOUS
  <2>1. br \in Live /\ br \in Tag /\ ~rob[br].done /\ n = 0
    BY <1>2, <1>6
  <2>2. TagAge(br, head) >= commit_count
    BY <1>1, <1>3, <1>5, <2>1
  <2>3. ~Younger(br, br)
    BY <1>5, <2>1 DEF Younger, TagYounger
  <2>4. Dispatched(n) = {}
    BY <1>1, <1>4, <1>5, <2>1
  <2>5. br \in Staying(br, squash)
    BY <2>1, <2>2, <2>3 DEF Staying
  <2> QED BY <1>21, <2>1, <2>4, <2>5
<1>9. \A t \in Staying(br, squash) : rob'[t] = Advanced(t, br, grant)
  <2> SUFFICES ASSUME NEW t \in Staying(br, squash)
               PROVE  rob'[t] = Advanced(t, br, grant)
    OBVIOUS
  <2>1. /\ t \in Tag /\ t \notin Dispatched(n) /\ TagAge(t, head) >= commit_count
        /\ ~(squash /\ Younger(t, br))
    BY <1>6, <1>7 DEF Staying
  <2>2. ~(TagAge(t, head) < commit_count)
    BY <1>3, <1>5, <2>1
  <2> QED BY <1>2, <2>1, <2>2 DEF Advanced
<1>10. \A t \in Dispatched(n) : rob'[t] = RobEntry(fpc + TagAge(t, tail))
  BY <1>2, <1>4
<1>11. \A t \in Tag : t \notin Dispatched(n) /\ t \notin Staying(br, squash) => ~rob'[t].live
  <2> SUFFICES ASSUME NEW t \in Tag, t \notin Dispatched(n), t \notin Staying(br, squash)
               PROVE  ~rob'[t].live
    OBVIOUS
  <2>1. CASE t \notin Live
    <3>1. t # br /\ ~(grant /\ t = out_q.tag)
      BY <1>2, <2>1, LoadStoreAssumption DEF PlaceInv, Leaving, Undone
    <3>2. rob'[t] = rob[t] \/ rob'[t] = Idle
      BY <1>2, <3>1
    <3> QED BY <2>1, <3>2 DEF Live, Idle
  <2>2. CASE t \in Live
    <3>1. TagAge(t, head) < commit_count \/ (squash /\ Younger(t, br))
      BY <1>3, <1>5, <2>2 DEF Staying
    <3>2. rob'[t] = Idle
      BY <1>2, <3>1
    <3> QED BY <3>2 DEF Idle
  <2> QED BY <2>1, <2>2
<1>12. Live' = {t \in Tag : rob'[t].live}
  BY DEF Live
<1>13. Live' = Staying(br, squash) \cup Dispatched(n)
  <2>0. \A p, e, v : RobEntry(p).live /\ Finished(e, v).live
    BY DEF RobEntry, Finished
  <2>1. \A t \in Dispatched(n) : rob'[t].live
    BY <1>10, <2>0
  <2>2. \A t \in Staying(br, squash) : rob'[t].live
    <3> SUFFICES ASSUME NEW t \in Staying(br, squash) PROVE rob'[t].live
      OBVIOUS
    <3>1. \/ \E v : rob'[t] = Finished(rob[t], v)
          \/ rob'[t] = rob[t]
      BY <1>9 DEF Advanced
    <3>2. rob[t].live
      BY <1>6 DEF Live
    <3> QED BY <2>0, <3>1, <3>2
  <2> QED BY <1>4, <1>6, <1>11, <1>12, <2>1, <2>2
<1>14. head' \in Tag
  BY <1>1, <1>2, <1>3, TagPlusType
<1>15. \A t \in Live' : TagAge(t, head) >= commit_count
  <2>1. \A t \in Dispatched(n) : TagAge(t, head) >= used
    BY <1>4
  <2> QED BY <1>1, <1>3, <1>4, <1>5, <1>13, <2>1 DEF Staying
<1>16. \A t \in Live' : TagAge(t, head') = TagAge(t, head) - commit_count
  BY <1>1, <1>2, <1>3, <1>12, <1>15, AgeAfterCommit
<1>17. \A t, u \in Live' : TagYounger(t, u, head') <=> Younger(t, u)
  BY <1>3, <1>5, <1>12, <1>16 DEF Younger, TagYounger
<1>18. used' \in 0 .. ROB_SIZE
  <2>1. CASE squash
    <3>1. TagAge(br, head) \in 0 .. ROB_SIZE - 1 /\ TagAge(br, head) >= commit_count
      BY <1>5, <1>6, <1>8, <2>1 DEF Staying
    <3> QED BY <1>21, <1>1, <1>3, <2>1, <3>1
  <2>2. CASE ~squash
    BY <1>21, <1>1, <1>3, <1>4, <2>2
  <2> QED BY <2>1, <2>2
<1>19. ASSUME NEW t \in Tag
       PROVE  t \in Live' <=> TagAge(t, head') < used'
  <2>1. /\ TagAge(t, head) \in 0 .. ROB_SIZE - 1
        /\ TagAge(t, head') = IF TagAge(t, head) >= commit_count THEN TagAge(t, head) - commit_count
                              ELSE TagAge(t, head) - commit_count + ROB_SIZE
    BY <1>1, <1>2, <1>3, <1>5, AgeAfterCommit
  <2>2. t \in Live <=> TagAge(t, head) < used
    BY <1>1 DEF Live
  <2>3. t \in Live' <=> t \in Staying(br, squash) \/ t \in Dispatched(n)
    BY <1>13
  <2>4. t \in Staying(br, squash) <=> /\ t \in Live /\ TagAge(t, head) >= commit_count
                                      /\ squash => ~(TagAge(t, head) > TagAge(br, head))
    BY DEF Staying, Younger, TagYounger
  <2>5. CASE squash
    <3>1. br \in Live /\ TagAge(br, head) \in 0 .. ROB_SIZE - 1 /\ TagAge(br, head) < used
          /\ TagAge(br, head) >= commit_count
      BY <1>1, <1>5, <1>6, <1>8, <2>5 DEF Live, Staying
    <3>2. t \in Live' <=> t \in Staying(br, squash)
      BY <1>8, <2>3, <2>5
    <3>3. used' = TagAge(br, head) + 1 - commit_count
      BY <1>21, <2>5
    <3>4. t \in Live' <=> /\ TagAge(t, head) < used /\ TagAge(t, head) >= commit_count
                          /\ ~(TagAge(t, head) > TagAge(br, head))
      BY <2>2, <2>4, <2>5, <3>2
    <3>5. /\ TagAge(t, head) < used /\ TagAge(t, head) >= commit_count
          /\ ~(TagAge(t, head) > TagAge(br, head))
          <=> TagAge(t, head') < used'
      <4> HIDE DEF commit_count
      <4> QED BY <1>1, <1>3, <2>1, <3>1, <3>3
    <3> QED BY <3>4, <3>5
  <2>6. CASE ~squash
    <3>1. t \in Dispatched(n) <=> used <= TagAge(t, head) /\ TagAge(t, head) < used + n
      BY <1>4
    <3>2. used' = used + n - commit_count
      BY <1>21, <2>6
    <3> QED BY <1>1, <1>3, <1>4, <2>1, <2>2, <2>3, <2>4, <2>6, <3>1, <3>2
  <2> QED BY <2>5, <2>6
<1>20. ~squash => used' = used + n - commit_count
  BY <1>21
<1> QED
  BY <1>2, <1>4, <1>6, <1>7, <1>8, <1>9, <1>10, <1>13, <1>14, <1>15, <1>16, <1>17, <1>18, <1>19, <1>20

\* The ring after a cycle.
LEMMA CycleRing ==
  ASSUME RingInv, PlaceInv, NEW n \in 0 .. 2, NEW ready \in BOOLEAN, NEW grant \in BOOLEAN,
         NEW br \in Tag \cup {NoTag}, NEW squash \in BOOLEAN,
         Cycle(n, ready, grant, br, squash)
  PROVE  /\ RingInv'
         /\ \A t \in Staying(br, squash) : /\ rob'[t].pc = rob[t].pc /\ rob[t].pc \in PC
                                           /\ t \in Live /\ t \in Tag
         /\ \A t \in Dispatched(n) : rob'[t].pc = fpc + TagAge(t, tail) /\ rob'[t].pc \in PC
         /\ squash => /\ fpc' \in rob[br].pc + 1 .. Len(prog) + 1 /\ Code(rob[br].pc).op = "br"
                      /\ br \in Live
         /\ ~squash => fpc' = fpc + n
<1>1. /\ prog' = prog /\ head' \in Tag /\ used' \in 0 .. ROB_SIZE
      /\ Live' = Staying(br, squash) \cup Dispatched(n)
      /\ Staying(br, squash) \subseteq Live
      /\ squash => br \in Staying(br, squash)
      /\ \A t \in Staying(br, squash) : rob'[t] = Advanced(t, br, grant)
      /\ \A t \in Dispatched(n) : rob'[t] = RobEntry(fpc + TagAge(t, tail))
      /\ \A t \in Tag : t \in Live' <=> TagAge(t, head') < used'
  BY CycleRob
<1>2. CanDispatch(n)
  BY DEF Cycle
<1>3. /\ fpc + n <= Len(prog) + 1
      /\ \A t \in Dispatched(n) : fpc + TagAge(t, tail) \in PC
  BY <1>2, DispatchFacts
<1>4. /\ prog \in Programs /\ fpc \in 1 .. Len(prog) + 1 /\ Len(prog) \in Nat /\ PC = 1 .. Len(prog)
      /\ Live \subseteq Tag /\ \A t \in Live : rob[t].pc \in PC
  BY ProgramFacts DEF RingInv, Live
<1>5. \A p, e, v : RobEntry(p).pc = p /\ Finished(e, v).pc = e.pc
  BY DEF RobEntry, Finished
<1>6. ASSUME NEW t \in Staying(br, squash)
      PROVE  /\ rob'[t].pc = rob[t].pc /\ rob[t].pc \in PC /\ t \in Live /\ t \in Tag
  <2>1. \/ \E v : rob'[t] = Finished(rob[t], v)
        \/ rob'[t] = rob[t]
    BY <1>1 DEF Advanced
  <2> QED BY <1>1, <1>4, <1>5, <2>1
<1>7. ASSUME NEW t \in Dispatched(n)
      PROVE  rob'[t].pc = fpc + TagAge(t, tail) /\ rob'[t].pc \in PC
  BY <1>1, <1>3, <1>5
<1>8. fpc' \in IF squash THEN rob[br].pc + 1 .. Len(prog) + 1 ELSE {fpc + n}
  BY DEF Cycle
<1>9. squash => /\ fpc' \in rob[br].pc + 1 .. Len(prog) + 1 /\ Code(rob[br].pc).op = "br"
                /\ br \in Live /\ rob[br].pc \in PC
  BY <1>1, <1>4, <1>8 DEF Cycle, Op
<1>10. ~squash => fpc' = fpc + n
  BY <1>8
<1>11. fpc' \in 1 .. Len(prog) + 1
  <2>1. CASE squash
    BY <1>4, <1>9, <2>1
  <2>2. CASE ~squash
    BY <1>3, <1>4, <1>10, <2>2
  <2> QED BY <2>1, <2>2
<1>12. \A t \in Live' : rob'[t].pc \in PC'
  BY <1>1, <1>6, <1>7, StaticFacts
<1>13. \A t \in Tag : rob'[t].live <=> TagAge(t, head') < used'
  BY <1>1 DEF Live
<1>14. RingInv'
  BY <1>1, <1>4, <1>11, <1>12, <1>13 DEF RingInv
<1> QED BY <1>6, <1>7, <1>9, <1>10, <1>14

\* Where the program counters in flight come from.
LEMMA CyclePcs ==
  ASSUME RingInv, PlaceInv, NEW n \in 0 .. 2, NEW ready \in BOOLEAN, NEW grant \in BOOLEAN,
         NEW br \in Tag \cup {NoTag}, NEW squash \in BOOLEAN,
         Cycle(n, ready, grant, br, squash)
  PROVE  \A k \in 0 .. used' :
           PcAt(k)' = IF k = used' THEN fpc'
                      ELSE IF k + commit_count < used THEN PcAt(k + commit_count)
                      ELSE fpc + (k + commit_count - used)
<1> SUFFICES ASSUME NEW k \in 0 .. used'
             PROVE  PcAt(k)' = IF k = used' THEN fpc'
                      ELSE IF k + commit_count < used THEN PcAt(k + commit_count)
                      ELSE fpc + (k + commit_count - used)
  OBVIOUS
<1>1. /\ head' = TagPlus(head, commit_count) /\ head' \in Tag /\ used' \in 0 .. ROB_SIZE
      /\ Live' = Staying(br, squash) \cup Dispatched(n)
      /\ Staying(br, squash) \cap Dispatched(n) = {} /\ Staying(br, squash) \subseteq Live
      /\ Dispatched(n) \subseteq Tag
      /\ \A t \in Tag : t \in Live' <=> TagAge(t, head') < used'
      /\ \A t \in Live' : TagAge(t, head') = TagAge(t, head) - commit_count
  BY CycleRob
<1>2. /\ \A t \in Staying(br, squash) : rob'[t].pc = rob[t].pc
      /\ \A t \in Dispatched(n) : rob'[t].pc = fpc + TagAge(t, tail)
  BY CycleRing
<1>3. /\ ROB_SIZE \in Nat /\ head \in Tag /\ used \in 0 .. ROB_SIZE
      /\ \A t \in Tag : t \in Live <=> TagAge(t, head) < used
  BY RobSizeAssumption DEF RingInv, Live
<1>4. commit_count \in 0 .. 2
  BY CommitFacts
<1>5. CASE k = used'
  BY <1>1, <1>5 DEF PcAt
<1>6. CASE k # used'
  <2> DEFINE t == TagPlus(head', k)
  <2>1. k \in 0 .. ROB_SIZE - 1 /\ k < used'
    BY <1>1, <1>3, <1>6
  <2>2. t \in Tag /\ TagAge(t, head') = k
    BY <1>1, <1>3, <2>1, TagPlusType, AgeOfTag
  <2> HIDE DEF t
  <2>3. t \in Live' /\ TagAge(t, head) = k + commit_count
    <3>1. t \in Live'
      BY <1>1, <2>1, <2>2
    <3>2. TagAge(t, head') = TagAge(t, head) - commit_count /\ TagAge(t, head) \in 0 .. ROB_SIZE - 1
      BY <1>1, <1>3, <2>2, <3>1, TagAgeType
    <3> QED BY <1>4, <2>1, <2>2, <3>1, <3>2
  <2>4. PcAt(k)' = rob'[t].pc
    BY <2>1 DEF PcAt, t
  <2>5. TagPlus(head, k + commit_count) = t
    BY <1>3, <2>2, <2>3, TagOfAge
  <2>6. CASE t \in Staying(br, squash)
    <3>1. k + commit_count < used
      BY <1>1, <1>3, <2>2, <2>3, <2>6
    <3>2. PcAt(k + commit_count) = rob[t].pc
      BY <2>5, <3>1 DEF PcAt
    <3> QED BY <1>2, <1>6, <2>4, <2>6, <3>1, <3>2
  <2>7. CASE t \in Dispatched(n)
    <3>1. CanDispatch(n)
      BY DEF Cycle
    <3>2. used <= k + commit_count /\ TagAge(t, tail) = k + commit_count - used
      BY <1>3, <1>4, <2>1, <2>3, <2>2, <2>7, <3>1, DispatchFacts
    <3>3. fpc \in Nat
      BY ProgramFacts DEF RingInv
    <3>4. rob'[t].pc = fpc + (k + commit_count - used)
      BY <1>2, <1>3, <1>4, <2>7, <3>2
    <3>5. ~(k + commit_count < used)
      BY <1>3, <1>4, <2>1, <3>2
    <3> QED BY <1>6, <2>4, <3>4, <3>5
  <2> QED BY <1>1, <2>3, <2>6, <2>7
<1> QED BY <1>5, <1>6

\* What is in flight is in program order after a cycle.
LEMMA CycleOrder ==
  ASSUME RingInv, PlaceInv, OrderInv, NEW n \in 0 .. 2, NEW ready \in BOOLEAN, NEW grant \in BOOLEAN,
         NEW br \in Tag \cup {NoTag}, NEW squash \in BOOLEAN,
         Cycle(n, ready, grant, br, squash)
  PROVE  OrderInv'
<1>1. /\ head' = TagPlus(head, commit_count) /\ used' \in 0 .. ROB_SIZE
      /\ prog' = prog
      /\ Live' = Staying(br, squash) \cup Dispatched(n)
      /\ Staying(br, squash) \subseteq Live
      /\ Dispatched(n) \subseteq Tag
      /\ squash => /\ n = 0 /\ Dispatched(n) = {} /\ br \in Staying(br, squash)
                   /\ used' = TagAge(br, head) + 1 - commit_count
      /\ ~squash => used' = used + n - commit_count
      /\ \A t \in Tag : t \in Live' <=> TagAge(t, head') < used'
      /\ \A t \in Live' : TagAge(t, head) >= commit_count
  BY CycleRob
<1>2. /\ \A t \in Staying(br, squash) : rob'[t].pc = rob[t].pc
      /\ \A t \in Dispatched(n) : rob'[t].pc = fpc + TagAge(t, tail)
      /\ squash => /\ fpc' \in rob[br].pc + 1 .. Len(prog) + 1 /\ Code(rob[br].pc).op = "br"
                   /\ br \in Live /\ br \in Tag /\ rob[br].pc \in PC
      /\ ~squash => fpc' = fpc + n
  BY CycleRing DEF Live, RingInv
<1>3. \A k \in 0 .. used' :
         PcAt(k)' = IF k = used' THEN fpc'
                    ELSE IF k + commit_count < used THEN PcAt(k + commit_count)
                    ELSE fpc + (k + commit_count - used)
  BY CyclePcs
<1>4. /\ commit_count \in 0 .. 2 /\ commit_count <= used /\ used \in 0 .. ROB_SIZE /\ ROB_SIZE \in Nat
      /\ fpc \in Nat /\ Len(prog) \in Nat /\ PC = 1 .. Len(prog)
  BY CommitFacts, RobSizeAssumption, ProgramFacts DEF RingInv
<1>5. \A t \in Tag : /\ TagAge(t, head) \in 0 .. ROB_SIZE - 1
                     /\ TagAge(t, head) = 0 => t = head
                     /\ TagPlus(head, TagAge(t, head)) = t
  BY HeadFacts, TagOfAge DEF RingInv
<1>6. prog' = prog /\ \A p : Code(p)' = Code(p) /\ (IsSystem(p)' <=> IsSystem(p))
  BY <1>1, StaticFacts
<1>7. CanDispatch(n)
  BY DEF Cycle
<1>8. PcAt(used) = fpc
  BY <1>4 DEF PcAt
<1>9. ASSUME NEW k \in Nat, k < used'
      PROVE  /\ PcAt(k)' < PcAt(k + 1)'
             /\ Code(PcAt(k)').op # "br" => PcAt(k + 1)' = PcAt(k)' + 1
  <2>0. used' \in Nat
    BY <1>1, <1>4
  <2>1. k \in 0 .. used' /\ k + 1 \in 0 .. used' /\ k # used' /\ k \in Nat
    BY <1>9, <2>0
  <2>2. PcAt(k)' = IF k + commit_count < used THEN PcAt(k + commit_count)
                   ELSE fpc + (k + commit_count - used)
    BY <1>3, <2>1
  <2>3. PcAt(k + 1)' = IF k + 1 = used' THEN fpc'
                       ELSE IF k + 1 + commit_count < used THEN PcAt(k + 1 + commit_count)
                       ELSE fpc + (k + 1 + commit_count - used)
    BY <1>3, <2>1
  <2>4. CASE squash
    <3>1. /\ used' = TagAge(br, head) + 1 - commit_count /\ TagAge(br, head) < used
          /\ TagAge(br, head) \in Nat
      BY <1>1, <1>2, <1>4, <1>5, <2>4 DEF Live, RingInv
    <3>2. k + commit_count \in Nat /\ k + commit_count < used /\ PcAt(k)' = PcAt(k + commit_count)
      BY <1>1, <1>4, <2>1, <2>2, <3>1
    <3>3. CASE k + 1 = used'
      <4>1. k + commit_count = TagAge(br, head)
        BY <1>4, <2>1, <3>1, <3>3
      <4>2. PcAt(k)' = rob[br].pc
        BY <1>2, <1>5, <2>4, <3>1, <3>2, <4>1 DEF PcAt
      <4>3. PcAt(k + 1)' = fpc'
        BY <2>3, <3>3
      <4> QED BY <1>2, <1>4, <2>4, <4>2, <4>3
    <3>4. CASE k + 1 # used'
      <4>1. k + 1 + commit_count < used /\ (k + commit_count) + 1 = k + 1 + commit_count
        BY <1>1, <1>4, <2>1, <3>1, <3>4
      <4>2. PcAt(k + 1)' = PcAt((k + commit_count) + 1)
        BY <2>3, <3>4, <4>1
      <4> QED BY <3>2, <4>2 DEF OrderInv
    <3> QED BY <3>3, <3>4
  <2>5. CASE ~squash
    <3>1. used' = used + n - commit_count /\ fpc' = fpc + n
      BY <1>1, <1>2, <2>5
    <3>2. CASE k + commit_count < used
      <4>1. k + commit_count \in Nat /\ k + commit_count < used /\ PcAt(k)' = PcAt(k + commit_count)
            /\ (k + commit_count) + 1 = k + 1 + commit_count
        BY <1>4, <2>1, <2>2, <3>2
      <4>2. PcAt(k + 1)' = PcAt((k + commit_count) + 1)
        <5>1. CASE k + 1 + commit_count < used
          <6>1. k + 1 # used'
            BY <1>4, <2>1, <3>1, <5>1
          <6> QED BY <2>3, <4>1, <5>1, <6>1
        <5>2. CASE k + 1 + commit_count = used
          <6>1. PcAt(k + 1)' = fpc
            BY <1>4, <2>1, <2>3, <3>1, <5>2
          <6> QED BY <1>8, <4>1, <5>2, <6>1
        <5> QED BY <1>4, <2>1, <3>2, <5>1, <5>2
      <4> QED BY <4>1, <4>2 DEF OrderInv
    <3>3. CASE ~(k + commit_count < used)
      <4>1. PcAt(k)' = fpc + (k + commit_count - used)
        BY <2>2, <3>3
      <4>2. PcAt(k + 1)' = fpc + (k + 1 + commit_count - used)
        BY <1>4, <2>1, <2>3, <3>1, <3>3
      <4> QED BY <1>4, <2>1, <3>3, <4>1, <4>2
    <3> QED BY <3>2, <3>3
  <2> QED BY <2>4, <2>5
<1>10. ASSUME NEW t \in Live', IsSystem(rob'[t].pc)
       PROVE  used' = 1
  <2>1. CASE t \in Staying(br, squash)
    <3>1. t \in Live /\ t \in Tag /\ IsSystem(rob[t].pc) /\ used = 1 /\ TagAge(t, head) < used
      BY <1>1, <1>2, <1>10, <2>1 DEF OrderInv, Live, RingInv
    <3>2. n = 0
      BY <1>7, <3>1 DEF CanDispatch
    <3>3. TagAge(t, head) = 0 /\ t = head /\ commit_count = 0
      BY <1>1, <1>4, <1>5, <3>1
    <3>4. ~squash
      <4> SUFFICES ASSUME squash PROVE FALSE
        OBVIOUS
      <4>1. br = head
        BY <1>2, <1>5, <3>1 DEF Live, RingInv
      <4> QED BY <1>2, <3>1, <3>3, <4>1 DEF IsSystem, ISA!IsAtomic, ISA!Code, Code
    <3> QED BY <1>1, <3>1, <3>2, <3>3, <3>4
  <2>2. CASE t \in Dispatched(n)
    <3>1. TagAge(t, tail) \in 0 .. n - 1 /\ rob'[t].pc = fpc + TagAge(t, tail)
      BY <1>2, <1>7, <2>2, DispatchFacts
    <3>2. CASE TagAge(t, tail) = 0
      <4>1. n > 0 /\ IsSystem(fpc)
        BY <1>4, <1>10, <3>1, <3>2
      <4>2. used = 0 /\ n = 1
        BY <1>7, <4>1 DEF CanDispatch
      <4>3. ~squash
        BY <1>1, <2>2
      <4> QED BY <1>1, <1>4, <4>2, <4>3
    <3>3. CASE TagAge(t, tail) # 0
      <4>1. n = 2 /\ TagAge(t, tail) = 1
        BY <3>1, <3>3
      <4>2. ~IsSystem(fpc + 1)
        BY <1>7, <4>1 DEF CanDispatch
      <4> QED BY <1>10, <3>1, <4>1, <4>2
    <3> QED BY <3>2, <3>3
  <2> QED BY <1>1, <2>1, <2>2
<1> QED BY <1>6, <1>9, <1>10 DEF OrderInv

-----------------------------------------------------------------------------
(* Where the accesses are, over a cycle.                                   *)

\* The memory queue has an oldest access whenever it has one at all.
LEMMA OldestQueued ==
  ASSUME RingInv, PlaceInv, memq # {}
  PROVE  /\ qtag \in memq /\ qtag \in Live /\ qtag \in Tag /\ qtag \in Undone
         /\ \A u \in memq \ {qtag} : Younger(u, qtag)
         /\ rob[qtag].pc \in PC /\ qh = Code(rob[qtag].pc) /\ qh \in Instruction
<1>1. memq \subseteq Undone /\ Undone \subseteq Live /\ Live \subseteq Tag
  BY DEF PlaceInv, Undone, Live
<1>2. /\ \A t \in Tag : TagAge(t, head) \in Nat
      /\ \A t, u \in Tag : TagAge(t, head) = TagAge(u, head) => t = u
  BY HeadFacts, RobSizeAssumption
<1> DEFINE T == {TagAge(t, head) : t \in memq}
<1>3. T \in SUBSET Nat /\ T # {}
  BY <1>1, <1>2
<1>4. PICK x \in T : \A y \in T : x <= y
  <2> HIDE DEF T
  <2> QED BY <1>3, SetHasMin
<1>5. PICK t \in memq : x = TagAge(t, head)
  BY <1>4
<1>6. \A u \in memq \ {t} : Younger(u, t)
  <2> SUFFICES ASSUME NEW u \in memq, u # t
               PROVE  Younger(u, t)
    OBVIOUS
  <2>1. TagAge(t, head) <= TagAge(u, head) /\ TagAge(t, head) # TagAge(u, head)
    BY <1>1, <1>2, <1>4, <1>5
  <2> QED BY <1>1, <1>2, <2>1 DEF Younger, TagYounger
<1>7. qtag \in memq /\ \A u \in memq \ {qtag} : Younger(u, qtag)
  BY <1>6 DEF qtag
<1>8. rob[qtag].pc \in PC /\ qh = Code(rob[qtag].pc) /\ qh \in Instruction
  BY <1>1, <1>7, ProgramFacts DEF RingInv, qh
<1> QED BY <1>1, <1>7, <1>8

\* The rest of the unit while an atomic runs.
LoneAtomic(n, ready, grant, br, squash) ==
  /\ n = 0 /\ squash = FALSE /\ grant = FALSE /\ br = NoTag
  /\ commit_count = 0 /\ ~commit0 /\ ~commit1 /\ ~commit_store
  /\ Live = {head} /\ Undone = {head} /\ Running = {head} /\ at.tag = head
  /\ memq = {} /\ Leaving = {} /\ Loading = {} /\ out_q.tag = NoTag /\ sq = <<>>
  /\ ~head_take(ready, grant, squash)

\* A running atomic has the whole unit: nothing enters, commits or is squashed.
LEMMA AtomicAlone ==
  ASSUME RingInv, OrderInv, PlaceInv, QueueInv, AtomicInv, at.state # "idle",
         NEW n \in 0 .. 2, NEW ready \in BOOLEAN, NEW grant \in BOOLEAN,
         NEW br \in Tag \cup {NoTag}, NEW squash \in BOOLEAN,
         Cycle(n, ready, grant, br, squash)
  PROVE  LoneAtomic(n, ready, grant, br, squash)
<1>1. /\ at.tag = head /\ used = 1 /\ ISA!IsAtomic(rob[head].pc) /\ ~ISA!Faults(rob[head].pc)
      /\ Running = {head}
  BY DEF AtomicInv, Running
<1>2. head \in Undone /\ Undone \subseteq Live /\ Live \subseteq Tag
  BY <1>1 DEF PlaceInv, Undone, Live
<1>3. Live = {head}
  <2>1. \A t \in Live : TagAge(t, head) = 0
    BY <1>1, <1>2, HeadFacts, RobSizeAssumption DEF Live, RingInv
  <2> QED BY <1>2, <2>1, HeadFacts
<1>4. Undone = {head}
  BY <1>2, <1>3
<1>5. memq = {} /\ Leaving = {} /\ Loading = {} /\ out_q.tag = NoTag
  BY <1>1, <1>4 DEF PlaceInv, Leaving
<1>6. IsSystem(rob[head].pc) /\ Op(head) \notin {"st", "br"}
  BY <1>1 DEF IsSystem, ISA!IsAtomic, Op, Code, ISA!Code
<1>7. n = 0
  BY <1>3, <1>6 DEF Cycle, CanDispatch
<1>8. br = NoTag /\ squash = FALSE
  BY <1>3, <1>6 DEF Cycle
<1>9. grant = FALSE
  BY <1>5 DEF Cycle
<1>10. ~rob[head].done
  BY <1>2 DEF Undone
<1>11. ~commit0 /\ ~commit1 /\ ~commit_store /\ commit_count = 0
  BY <1>10 DEF commit0, commit1, commit_store, commit_count, h0
<1>12. sq = <<>>
  <2>1. \A t \in Live : ~IsQueued(t)
    BY <1>3, <1>6 DEF IsQueued
  <2>2. {s.tag : s \in Elements(sq)} = {}
    BY <2>1 DEF QueueInv
  <2>3. \A i \in DOMAIN sq : FALSE
    BY <2>2 DEF Elements
  <2> QED BY <2>3 DEF QueueInv
<1>13. ~head_take(ready, grant, squash)
  BY <1>5 DEF head_take, CanTake
<1> QED BY ONLY <1>1, <1>3, <1>4, <1>5, <1>7, <1>8, <1>9, <1>11, <1>12, <1>13 DEF LoneAtomic

\* What a cycle takes away from the unfinished accesses, and what it adds.
Squashed(br, squash) == {t \in Tag : squash /\ Younger(t, br)}
Granted(grant) == IF grant THEN {out_q.tag} ELSE {}
NewAccess(n) == {t \in Dispatched(n) : IsMem(fpc + TagAge(t, tail))}

LEMMA UndoneStep ==
  ASSUME RingInv, PlaceInv, NEW n \in 0 .. 2, NEW ready \in BOOLEAN, NEW grant \in BOOLEAN,
         NEW br \in Tag \cup {NoTag}, NEW squash \in BOOLEAN,
         Cycle(n, ready, grant, br, squash)
  PROVE  /\ Undone' = ((Undone \ Squashed(br, squash)) \ Granted(grant)) \cup NewAccess(n)
         /\ NewAccess(n) \cap Live = {}
         /\ \A t \in Live' : IsMem(rob[t].pc)' => t \in Live \/ t \in NewAccess(n)
<1>1. /\ prog' = prog
      /\ Live' = Staying(br, squash) \cup Dispatched(n)
      /\ Staying(br, squash) \cap Dispatched(n) = {} /\ Staying(br, squash) \subseteq Live
      /\ Dispatched(n) \subseteq Tag
      /\ \A t \in Staying(br, squash) : rob'[t] = Advanced(t, br, grant)
      /\ \A t \in Dispatched(n) : rob'[t] = RobEntry(fpc + TagAge(t, tail))
  BY CycleRob
<1>2. \A p : (IsMem(p)' <=> IsMem(p)) /\ Code(p)' = Code(p)
  BY <1>1, StaticFacts
<1>3. /\ \A t \in Tag : TagAge(t, head) < commit_count => rob[t].done
      /\ \A t \in Tag : TagAge(t, head) \in Int /\ commit_count \in Int
  BY CommitFacts, HeadFacts
<1>4. \A t \in Dispatched(n) : t \notin Live
  BY DispatchFacts DEF Cycle
<1>5. /\ \A p, e, v : /\ RobEntry(p).pc = p /\ RobEntry(p).done = (Code(p).op = "fencei")
                      /\ Finished(e, v).pc = e.pc /\ Finished(e, v).done
  BY DEF RobEntry, Finished
<1>6. \A p : IsMem(p) => Code(p).op # "fencei" /\ Code(p).op # "br"
  BY DEF IsMem
<1>7. ASSUME NEW t \in Staying(br, squash)
      PROVE  t \in Undone' <=> t \in (Undone \ Squashed(br, squash)) \ Granted(grant)
  <2>1. t \in Live /\ t \in Live' /\ t \notin Squashed(br, squash) /\ t \in Tag
    BY <1>1 DEF Staying, Squashed, Live
  <2>2. t \in Undone' <=> IsMem(rob'[t].pc) /\ ~rob'[t].done
    BY <1>2, <2>1 DEF Undone
  <2>3. t \in Undone <=> IsMem(rob[t].pc) /\ ~rob[t].done
    BY <2>1 DEF Undone
  <2>4. CASE t = br
    <3>1. ~IsMem(rob[t].pc)
      BY <1>6, <2>4, <2>1, LoadStoreAssumption DEF Cycle, Op
    <3>2. rob'[t].pc = rob[t].pc
      BY <1>1, <1>5, <2>4 DEF Advanced
    <3> QED BY <2>2, <2>3, <3>1, <3>2
  <2>5. CASE t # br /\ grant /\ t = out_q.tag
    <3>1. rob'[t].done
      BY <1>1, <1>5, <2>5 DEF Advanced
    <3>2. t \in Granted(grant)
      BY <2>5 DEF Granted
    <3> QED BY <2>2, <3>1, <3>2
  <2>6. CASE t # br /\ ~(grant /\ t = out_q.tag)
    <3>1. rob'[t] = rob[t]
      BY <1>1, <2>6 DEF Advanced
    <3>2. t \notin Granted(grant)
      BY <2>6 DEF Granted
    <3> QED BY <2>1, <2>2, <2>3, <3>1, <3>2
  <2> QED BY <2>4, <2>5, <2>6
<1>8. ASSUME NEW t \in Dispatched(n)
      PROVE  /\ t \in Undone' <=> t \in NewAccess(n)
             /\ IsMem(rob[t].pc)' => t \in NewAccess(n)
  <2>1. t \in Undone' <=> IsMem(rob'[t].pc) /\ ~rob'[t].done
    BY <1>1, <1>2 DEF Undone
  <2>2. IsMem(rob[t].pc)' <=> IsMem(rob'[t].pc)
    BY <1>1 DEF IsMem, Code
  <2>3. PICK p : p = fpc + TagAge(t, tail)
    OBVIOUS
  <2>4. rob'[t] = RobEntry(p)
    BY ONLY <1>1, <2>3, t \in Dispatched(n)
  <2>5. rob'[t].pc = p /\ rob'[t].done = (Code(p).op = "fencei")
    BY ONLY <1>5, <2>4
  <2>6. t \in NewAccess(n) <=> IsMem(p)
    BY ONLY <2>3, t \in Dispatched(n) DEF NewAccess
  <2>7. IsMem(p) => ~rob'[t].done
    BY ONLY <1>6, <2>5
  <2> QED BY ONLY <2>1, <2>2, <2>5, <2>6, <2>7
<1>9. ASSUME NEW t \in Undone, t \notin Squashed(br, squash)
      PROVE  t \in Staying(br, squash)
  <2>1. t \in Tag /\ t \in Live /\ ~rob[t].done
    BY DEF Undone, Live
  <2>2. TagAge(t, head) >= commit_count
    BY <1>3, <2>1
  <2> QED BY <1>9, <2>1, <2>2 DEF Squashed, Staying
<1>10. Undone' \subseteq Live'
  BY DEF Undone
<1>11. NewAccess(n) \subseteq Dispatched(n)
  BY DEF NewAccess
<1>12. Undone' = ((Undone \ Squashed(br, squash)) \ Granted(grant)) \cup NewAccess(n)
  <2>1. ASSUME NEW t \in Undone'
        PROVE  t \in ((Undone \ Squashed(br, squash)) \ Granted(grant)) \cup NewAccess(n)
    BY <1>1, <1>7, <1>8, <1>10
  <2>2. ASSUME NEW t \in (Undone \ Squashed(br, squash)) \ Granted(grant)
        PROVE  t \in Undone'
    BY <1>7, <1>9
  <2>3. ASSUME NEW t \in NewAccess(n)
        PROVE  t \in Undone'
    BY <1>8, <1>11
  <2> QED BY <2>1, <2>2, <2>3
<1> QED BY <1>1, <1>4, <1>8, <1>11, <1>12

\* The oldest queued access goes one way only.
ToOutput(ready, grant, squash) ==
  /\ head_take(ready, grant, squash)
  /\ TakeMisaligned(grant) \/ TakeStore(grant) \/ TakeForward(grant)

ToLoad(ready, grant, squash) == head_take(ready, grant, squash) /\ TakeLoad
ToAtomic(ready, grant, squash) == head_take(ready, grant, squash) /\ TakeAtomic

LEMMA TakeFacts ==
  ASSUME RingInv, PlaceInv, NEW ready \in BOOLEAN, NEW grant \in BOOLEAN, NEW squash \in BOOLEAN,
         head_take(ready, grant, squash)
  PROVE  /\ memq # {} /\ at.state = "idle" /\ squash = FALSE /\ Running = {}
         /\ qtag \in memq /\ qtag \in Undone /\ qtag \in Tag
         /\ \/ /\ ToOutput(ready, grant, squash) /\ head_out_free(grant)
               /\ ~TakeLoad /\ ~TakeAtomic
            \/ /\ ToLoad(ready, grant, squash) /\ ld = NoLoad
               /\ ~TakeMisaligned(grant) /\ ~TakeStore(grant) /\ ~TakeForward(grant) /\ ~TakeAtomic
            \/ /\ ToAtomic(ready, grant, squash) /\ ld = NoLoad
               /\ ~TakeMisaligned(grant) /\ ~TakeStore(grant) /\ ~TakeForward(grant) /\ ~TakeLoad
<1>1. memq # {} /\ at.state = "idle" /\ squash = FALSE /\ Running = {}
  BY DEF head_take, CanTake, Running
<1>2. qtag \in memq /\ qtag \in Undone /\ qtag \in Tag
  BY <1>1, OldestQueued
<1>3. \/ ToOutput(ready, grant, squash)
      \/ ToLoad(ready, grant, squash)
      \/ ToAtomic(ready, grant, squash)
  BY DEF head_take, ToOutput, ToLoad, ToAtomic
<1>4. CASE ToOutput(ready, grant, squash)
  BY <1>1, <1>2, <1>4
     DEF ToOutput, TakeMisaligned, TakeStore, TakeForward, TakeLoad, TakeAtomic
<1>5. CASE ToLoad(ready, grant, squash)
  BY <1>1, <1>2, <1>5
     DEF ToLoad, TakeMisaligned, TakeStore, TakeForward, TakeLoad, TakeAtomic
<1>6. CASE ToAtomic(ready, grant, squash)
  BY <1>1, <1>2, <1>6
     DEF ToAtomic, TakeMisaligned, TakeStore, TakeForward, TakeLoad, TakeAtomic
<1> QED BY <1>3, <1>4, <1>5, <1>6

\* The output buffer, the load stage and the atomic when the oldest queued
\* access moves on.
LEMMA TakeStep ==
  ASSUME RingInv, PlaceInv, NEW n, NEW ready \in BOOLEAN, NEW grant \in BOOLEAN,
         NEW br, NEW squash \in BOOLEAN,
         Cycle(n, ready, grant, br, squash), head_take(ready, grant, squash)
  PROVE  \/ /\ ToOutput(ready, grant, squash)
            /\ out_q'.tag = qtag /\ out_free(grant)
            /\ ld' = IF load_done /\ ld.squashed THEN NoLoad ELSE ld
            /\ at' = at
         \/ /\ ToLoad(ready, grant, squash) /\ ld = NoLoad
            /\ out_q' = IF grant THEN NoOutput ELSE out_q
            /\ ld' = [tag |-> qtag, pc |-> rob[qtag].pc, squashed |-> FALSE,
                      word |-> qh.word, mask |-> qh.mask]
            /\ at' = at
         \/ /\ ToAtomic(ready, grant, squash) /\ ld = NoLoad
            /\ out_q' = IF grant THEN NoOutput ELSE out_q
            /\ ld' = NoLoad
            /\ at' = [state |-> "read", tag |-> qtag, old |-> NoResult]
<1>1. /\ out_q' = NextOut(ready, grant, squash, br)
      /\ ld' = NextLoad(ready, grant, squash, br)
      /\ at' = NextAtomic(ready, grant, squash)
  BY DEF Cycle
<1>2. squash = FALSE /\ at.state = "idle"
  BY TakeFacts
<1>3. \A t, v : Completion(t, v).tag = t
  BY DEF Completion
<1>4. CASE ToOutput(ready, grant, squash) /\ head_out_free(grant) /\ ~TakeLoad /\ ~TakeAtomic
  <2>1. out_q'.tag = qtag
    BY <1>1, <1>3, <1>4 DEF NextOut, ToOutput
  <2>2. at' = at
    BY <1>1, <1>2, <1>4 DEF NextAtomic
  <2>3. out_free(grant) /\ (load_done => ld.squashed)
    BY <1>4 DEF head_out_free, load_claims_out
  <2>4. ld' = IF load_done /\ ld.squashed THEN NoLoad ELSE ld
    BY <1>1, <1>2, <1>4, <2>3 DEF NextLoad
  <2> QED BY <1>4, <2>1, <2>2, <2>3, <2>4
<1>5. ld = NoLoad => ~load_claims_out(grant) /\ ~load_done
  BY DEF load_claims_out, load_done
<1>6. CASE /\ ToLoad(ready, grant, squash) /\ ld = NoLoad
           /\ ~TakeMisaligned(grant) /\ ~TakeStore(grant) /\ ~TakeForward(grant) /\ ~TakeAtomic
  <2>1. out_q' = IF grant THEN NoOutput ELSE out_q
    BY <1>1, <1>2, <1>5, <1>6 DEF NextOut, ToLoad
  <2>2. at' = at
    BY <1>1, <1>2, <1>6 DEF NextAtomic
  <2>3. ld' = [tag |-> qtag, pc |-> rob[qtag].pc, squashed |-> FALSE,
               word |-> qh.word, mask |-> qh.mask]
    BY <1>1, <1>6 DEF NextLoad, ToLoad
  <2> QED BY <1>6, <2>1, <2>2, <2>3
<1>7. CASE /\ ToAtomic(ready, grant, squash) /\ ld = NoLoad
           /\ ~TakeMisaligned(grant) /\ ~TakeStore(grant) /\ ~TakeForward(grant) /\ ~TakeLoad
  <2>1. out_q' = IF grant THEN NoOutput ELSE out_q
    BY <1>1, <1>2, <1>5, <1>7 DEF NextOut, ToAtomic
  <2>2. at' = [state |-> "read", tag |-> qtag, old |-> NoResult]
    BY <1>1, <1>2, <1>7 DEF NextAtomic, ToAtomic
  <2>3. ld' = NoLoad
    BY <1>1, <1>2, <1>5, <1>7 DEF NextLoad
  <2> QED BY <1>7, <2>1, <2>2, <2>3
<1> QED BY <1>4, <1>6, <1>7, TakeFacts

\* The same when it does not.
LEMMA NoTakeStep ==
  ASSUME NEW n, NEW ready \in BOOLEAN, NEW grant \in BOOLEAN, NEW br, NEW squash \in BOOLEAN,
         Cycle(n, ready, grant, br, squash), ~head_take(ready, grant, squash), AtomicInv
  PROVE  /\ at.state = "idle" => at' = at
         /\ at.state = "read" => at' = [at EXCEPT !.state = "wait"]
         /\ at.state = "wait" =>
              at' = [at EXCEPT !.old = dout,
                               !.state = IF out_q.tag = NoTag THEN "write" ELSE "wait"]
         /\ at.state = "write" => at' = NoAtomic /\ out_q' = Completion(at.tag, atomic_result)
         /\ at.state # "write" /\ load_claims_out(grant) =>
              /\ out_q' = IF squash /\ Younger(ld.tag, br) THEN NoOutput
                          ELSE Completion(ld.tag, load_result(Load))
              /\ ld' = NoLoad
         /\ at.state # "write" /\ ~load_claims_out(grant) =>
              out_q' = IF grant \/ (squash /\ out_q.tag # NoTag /\ Younger(out_q.tag, br))
                       THEN NoOutput ELSE out_q
         /\ ~load_claims_out(grant) =>
              ld' = IF ld = NoLoad \/ (load_done /\ (ld.squashed \/ (squash /\ Younger(ld.tag, br))))
                    THEN NoLoad
                    ELSE IF squash /\ Younger(ld.tag, br) THEN [ld EXCEPT !.squashed = TRUE]
                    ELSE ld
<1>1. /\ out_q' = NextOut(ready, grant, squash, br)
      /\ ld' = NextLoad(ready, grant, squash, br)
      /\ at' = NextAtomic(ready, grant, squash)
  BY DEF Cycle
<1>2. at.state \in {"idle", "read", "wait", "write"}
  BY DEF AtomicInv
<1>3. at.state = "idle" => at' = at
  BY <1>1 DEF NextAtomic
<1>4. at.state = "read" => at' = [at EXCEPT !.state = "wait"]
  BY <1>1 DEF NextAtomic
<1>5. at.state = "wait" =>
              at' = [at EXCEPT !.old = dout,
                               !.state = IF out_q.tag = NoTag THEN "write" ELSE "wait"]
  BY <1>1 DEF NextAtomic
<1>6. at.state = "write" => at' = NoAtomic /\ out_q' = Completion(at.tag, atomic_result)
  BY <1>1 DEF NextAtomic, NextOut, atomic_valid
<1>7. at.state # "write" => out_q' =
        IF load_claims_out(grant)
        THEN IF squash /\ Younger(ld.tag, br) THEN NoOutput
             ELSE Completion(ld.tag, load_result(Load))
        ELSE IF grant \/ (squash /\ out_q.tag # NoTag /\ Younger(out_q.tag, br))
             THEN NoOutput ELSE out_q
  BY <1>1 DEF NextOut, atomic_valid
<1>8. ld' = IF ld # NoLoad /\ squash /\ Younger(ld.tag, br)
            THEN IF load_done THEN NoLoad ELSE [ld EXCEPT !.squashed = TRUE]
            ELSE IF load_done /\ (ld.squashed \/ out_free(grant)) THEN NoLoad
            ELSE ld
  BY <1>1 DEF NextLoad
<1>9. load_claims_out(grant) => ld' = NoLoad
  BY <1>8 DEF load_claims_out
<1>10. ~load_claims_out(grant) =>
              ld' = IF ld = NoLoad \/ (load_done /\ (ld.squashed \/ (squash /\ Younger(ld.tag, br))))
                    THEN NoLoad
                    ELSE IF squash /\ Younger(ld.tag, br) THEN [ld EXCEPT !.squashed = TRUE]
                    ELSE ld
  BY <1>8 DEF load_claims_out, load_done
<1> QED BY <1>3, <1>4, <1>5, <1>6, <1>7, <1>9, <1>10

\* What leaves the memory queue by its head.
Taken(ready, grant, squash) == IF head_take(ready, grant, squash) THEN {qtag} ELSE {}

\* How a cycle moves the accesses among the places, taken being what leaves
\* the memory queue.
Placement(taken, n, grant, br, squash) ==
  LET W == Squashed(br, squash)
      G == Granted(grant)
  IN  /\ memq' = ((memq \ taken) \ W) \cup NewAccess(n)
      /\ G \subseteq Leaving /\ (G # {} => G = Leaving)
      /\ \/ /\ taken = {} /\ Loading' = Loading \ W /\ Running' = Running /\ Running \cap W = {}
            /\ Leaving' = (Leaving \ G) \ W
         \/ /\ taken = {} /\ Loading' = {} /\ Running' = Running /\ Running \cap W = {}
            /\ Leaving \ G = {} /\ Leaving' = Loading \ W
         \/ /\ W = {} /\ Loading' = Loading /\ Running' = {} /\ Running = {}
            /\ Leaving \ G = {} /\ Leaving' = taken
         \/ /\ W = {} /\ Loading = {} /\ Loading' = taken /\ Running' = {} /\ Running = {}
            /\ Leaving' = Leaving \ G
         \/ /\ W = {} /\ Loading = {} /\ Loading' = {} /\ Running' = taken /\ Running = {}
            /\ Leaving' = Leaving \ G
         \/ /\ Loading = {} /\ Loading' = {} /\ Running' = {} /\ Leaving = {} /\ G = {} /\ W = {}
            /\ taken = {} /\ Leaving' = Running

\* The sets of places after a cycle, from those before it.
LEMMA PlaceMoves ==
  ASSUME RingInv, OrderInv, PlaceInv, QueueInv, LoadInv, AtomicInv,
         NEW n \in 0 .. 2, NEW ready \in BOOLEAN, NEW grant \in BOOLEAN,
         NEW br \in Tag \cup {NoTag}, NEW squash \in BOOLEAN,
         Cycle(n, ready, grant, br, squash)
  PROVE  /\ Taken(ready, grant, squash) \subseteq memq
         /\ Placement(Taken(ready, grant, squash), n, grant, br, squash)
<1> DEFINE W == Squashed(br, squash)
           G == Granted(grant)
           taken == Taken(ready, grant, squash)
<1>1. taken \in SUBSET memq /\ (head_take(ready, grant, squash) => W = {})
  BY TakeFacts DEF Squashed, Taken
<1>2. G \subseteq Leaving /\ (G # {} => G = Leaving)
  BY DEF Granted, Leaving, Cycle
<1>3. memq' = ((memq \ taken) \ W) \cup NewAccess(n)
  <2>1. memq \subseteq Tag
    BY DEF PlaceInv, Undone, Live
  <2>2. memq' = {t \in memq : /\ ~(head_take(ready, grant, squash) /\ t = qtag)
                           /\ ~(squash /\ Younger(t, br))}
             \cup {t \in Dispatched(n) : IsMem(fpc + TagAge(t, tail))}
    BY DEF Cycle
  <2>3. {t \in memq : /\ ~(head_take(ready, grant, squash) /\ t = qtag)
                      /\ ~(squash /\ Younger(t, br))} = (memq \ taken) \ W
    BY <2>1 DEF Squashed, Taken
  <2> HIDE DEF taken, W
  <2> QED BY <2>2, <2>3 DEF NewAccess
<1>4. NoOutput.tag = NoTag /\ NoAtomic.state = "idle" /\ \A t, v : Completion(t, v).tag = t
  BY DEF NoOutput, NoAtomic, Completion
<1>5. ld # NoLoad => /\ ld \in LoadRecord /\ ld.tag \in Tag
                     /\ [ld EXCEPT !.squashed = TRUE].squashed
  BY DEF LoadInv, LoadRecord
<1>6. Undone \subseteq Tag /\ Leaving \subseteq Tag /\ Loading \subseteq Tag /\ Running \subseteq Tag
  BY DEF PlaceInv, Undone, Live
<1>7. NoTag \notin Tag
  BY LoadStoreAssumption
<1>8. out_q.tag \in Tag \cup {NoTag} /\ Leaving = (IF out_q.tag = NoTag THEN {} ELSE {out_q.tag})
  BY <1>6 DEF Leaving
<1>9. Running \cap W = {}
  <2>1. CASE at.state # "idle"
    <3>1. LoneAtomic(n, ready, grant, br, squash)
      BY <2>1, AtomicAlone
    <3>2. squash = FALSE
      BY ONLY <3>1 DEF LoneAtomic
    <3> QED BY ONLY <3>2 DEF Squashed
  <2>2. CASE at.state = "idle"
    BY ONLY <2>2 DEF Running
  <2> QED BY <2>1, <2>2
<1>10. \A t \in Tag : t \in W <=> squash /\ Younger(t, br)
  BY DEF Squashed
<1>11. out_free(grant) => Leaving \ G = {}
  BY <1>8 DEF out_free, Granted
<1>12. out_q' = (IF grant THEN NoOutput ELSE out_q) => Leaving' = Leaving \ G
  BY <1>4, <1>8 DEF Leaving, Granted
<1> HIDE DEF W, G, Placement
<1>13. CASE head_take(ready, grant, squash)
  <2>0. taken = {qtag} /\ Running = {} /\ qtag \in Tag
    BY <1>13, TakeFacts DEF Taken
  <2>1. CASE /\ ToOutput(ready, grant, squash)
             /\ out_q'.tag = qtag /\ out_free(grant)
             /\ ld' = IF load_done /\ ld.squashed THEN NoLoad ELSE ld
             /\ at' = at
    <3>1. Loading' = Loading
      BY <2>1 DEF Loading, load_done
    <3>2. Running' = {}
      BY <2>0, <2>1 DEF Running
    <3>3. Leaving' = taken
      BY <1>7, <2>0, <2>1 DEF Leaving
    <3> QED BY <1>1, <1>2, <1>3, <1>11, <1>13, <2>0, <2>1, <3>1, <3>2, <3>3 DEF W, G, Placement
  <2>2. CASE /\ ToLoad(ready, grant, squash) /\ ld = NoLoad
             /\ out_q' = IF grant THEN NoOutput ELSE out_q
             /\ ld' = [tag |-> qtag, pc |-> rob[qtag].pc, squashed |-> FALSE,
                       word |-> qh.word, mask |-> qh.mask]
             /\ at' = at
    <3>0. qtag \in Live /\ rob[qtag].pc \in Nat /\ qh.word \in Word /\ qh.mask \in SUBSET Lane
      BY <1>13, TakeFacts, OldestQueued, ProgramFacts DEF Instruction
    <3>1. ld' \in LoadRecord /\ ld'.tag = qtag /\ ld'.squashed = FALSE
      BY <2>0, <2>2, <3>0 DEF LoadRecord
    <3>2. ld' # NoLoad
      BY <3>1, LoadStoreAssumption DEF LoadRecord
    <3>3. Loading = {} /\ Loading' = taken
      BY <2>0, <2>2, <3>1, <3>2 DEF Loading
    <3>4. Running' = {}
      BY <2>0, <2>2 DEF Running
    <3> QED BY <1>1, <1>2, <1>3, <1>12, <1>13, <2>0, <2>2, <3>3, <3>4 DEF W, G, Placement
  <2>3. CASE /\ ToAtomic(ready, grant, squash) /\ ld = NoLoad
             /\ out_q' = IF grant THEN NoOutput ELSE out_q
             /\ ld' = NoLoad
             /\ at' = [state |-> "read", tag |-> qtag, old |-> NoResult]
    <3>1. Loading = {} /\ Loading' = {}
      BY <2>3 DEF Loading
    <3>2. Running' = taken
      BY <2>0, <2>3 DEF Running
    <3> QED BY <1>1, <1>2, <1>3, <1>12, <1>13, <2>0, <2>3, <3>1, <3>2 DEF W, G, Placement
  <2> QED BY <1>13, <2>1, <2>2, <2>3, TakeStep
<1>14. CASE ~head_take(ready, grant, squash)
  <2>0. taken = {}
    BY <1>14 DEF Taken
  <2>1. CASE at.state = "write"
    <3>1. /\ squash = FALSE /\ grant = FALSE /\ Leaving = {} /\ Loading = {} /\ Running = {at.tag}
          /\ at.tag \in Tag
      <4>1. LoneAtomic(n, ready, grant, br, squash)
        BY <2>1, AtomicAlone
      <4> QED BY ONLY <4>1, <1>6, <2>1 DEF LoneAtomic, Running
    <3>2. at' = NoAtomic /\ out_q' = Completion(at.tag, atomic_result)
      BY <1>14, <2>1, NoTakeStep
    <3>3. Leaving' = Running
      BY <1>4, <1>7, <3>1, <3>2 DEF Leaving
    <3>4. Running' = {}
      BY <1>4, <3>2 DEF Running
    <3>5. ld = NoLoad
      BY <2>1 DEF AtomicInv
    <3>6. ld' = NoLoad
      BY <1>14, <3>5, NoTakeStep DEF load_claims_out, load_done
    <3>7. Loading' = {}
      BY <3>6 DEF Loading
    <3>8. W = {} /\ G = {}
      BY <3>1 DEF W, G, Squashed, Granted
    <3> QED BY <1>1, <1>2, <1>3, <2>0, <3>1, <3>3, <3>4, <3>7, <3>8 DEF W, G, Placement
  <2>2. CASE at.state # "write"
    <3>1. Running' = Running
      <4>1. at.state \in {"idle", "read", "wait"} /\ at = [state |-> at.state, tag |-> at.tag, old |-> at.old]
        BY <2>2 DEF AtomicInv
      <4>2. CASE at.state = "idle"
        BY <1>14, <4>2, NoTakeStep DEF Running
      <4>3. CASE at.state = "read"
        BY <1>14, <4>1, <4>3, NoTakeStep DEF Running
      <4>4. CASE at.state = "wait"
        BY <1>14, <4>1, <4>4, NoTakeStep DEF Running
      <4> QED BY <4>1, <4>2, <4>3, <4>4
    <3>2. CASE load_claims_out(grant)
      <4>1. /\ out_q' = IF squash /\ Younger(ld.tag, br) THEN NoOutput
                        ELSE Completion(ld.tag, load_result(Load))
            /\ ld' = NoLoad
        BY <1>14, <2>2, <3>2, NoTakeStep
      <4>2. /\ Loading = {ld.tag} /\ Loading' = {} /\ ld.tag \in Tag
            /\ Leaving \ G = {}
        BY <1>5, <1>11, <3>2, <4>1 DEF load_claims_out, load_done, Loading
      <4>3. Leaving' = Loading \ W
        BY <1>4, <1>7, <1>10, <4>1, <4>2 DEF Leaving
      <4> QED BY <1>1, <1>2, <1>3, <1>9, <2>0, <3>1, <4>2, <4>3 DEF W, G, Placement
    <3>3. CASE ~load_claims_out(grant)
      <4>1. out_q' = IF grant \/ (squash /\ out_q.tag # NoTag /\ Younger(out_q.tag, br))
                       THEN NoOutput ELSE out_q
        BY <1>14, <2>2, <3>3, NoTakeStep
      <4>2. ld' = IF ld = NoLoad \/ (load_done /\ (ld.squashed \/ (squash /\ Younger(ld.tag, br))))
                    THEN NoLoad
                    ELSE IF squash /\ Younger(ld.tag, br) THEN [ld EXCEPT !.squashed = TRUE]
                    ELSE ld
        BY <1>14, <2>2, <3>3, NoTakeStep
      <4>3. Leaving' = (Leaving \ G) \ W
        <5>1. CASE grant
          BY <1>4, <1>8, <4>1, <5>1 DEF Leaving, Granted, G
        <5>2. CASE ~grant
          BY <1>4, <1>8, <1>10, <4>1, <5>2 DEF Leaving, Granted, G
        <5> QED BY <5>1, <5>2
      <4>4. Loading' = Loading \ W
        <5>1. CASE ld = NoLoad \/ ld.squashed
          <6>1. Loading = {} /\ (ld' = NoLoad \/ ld'.squashed)
            BY <1>5, <4>2, <5>1 DEF Loading
          <6> QED BY <6>1 DEF Loading
        <5>2. CASE ld # NoLoad /\ ~ld.squashed /\ squash /\ Younger(ld.tag, br)
          <6>1. Loading = {ld.tag} /\ ld.tag \in W
            BY <1>5, <1>10, <5>2 DEF Loading
          <6>2. ld' = NoLoad \/ ld'.squashed
            BY <1>5, <4>2, <5>2
          <6> QED BY <6>1, <6>2 DEF Loading
        <5>3. CASE ld # NoLoad /\ ~ld.squashed /\ ~(squash /\ Younger(ld.tag, br))
          <6>1. ld' = ld /\ Loading = {ld.tag} /\ ld.tag \notin W
            BY <1>5, <1>10, <4>2, <5>3 DEF Loading
          <6> QED BY <6>1 DEF Loading
        <5> QED BY <5>1, <5>2, <5>3
      <4> QED BY <1>1, <1>2, <1>3, <1>9, <2>0, <3>1, <4>3, <4>4 DEF W, G, Placement
    <3> QED BY <3>2, <3>3
  <2> QED BY <2>1, <2>2
<1> QED BY <1>13, <1>14

\* No more accesses enter the memory queue than dispatch counted.
LEMMA QueueSize ==
  ASSUME RingInv, PlaceInv, NEW n \in 0 .. 2, CanDispatch(n)
  PROVE  IsFiniteSet(memq) /\ IsFiniteSet(memq \cup NewAccess(n)) /\ Cardinality(memq \cup NewAccess(n)) <= QUEUE_ENTRIES
<1> DEFINE P == {p \in fpc .. fpc + n - 1 : IsMem(p)}
           At(p) == TagPlus(tail, p - fpc)
<1>1. fpc \in Nat /\ ROB_SIZE \in Nat /\ QUEUE_ENTRIES \in Nat
  BY RobSizeAssumption, LoadStoreAssumption, ProgramFacts DEF RingInv
<1>2. IsFiniteSet(Tag) /\ memq \subseteq Tag
  <2>1. IsFiniteSet(0 .. ROB_SIZE - 1)
    BY <1>1, FS_Interval
  <2> QED BY <2>1 DEF Tag, PlaceInv, Undone, Live
<1>3. IsFiniteSet(memq) /\ Cardinality(memq) \in Nat
  BY <1>2, FS_Subset, FS_CardinalityType
<1>4. IsFiniteSet(P) /\ Cardinality(P) \in Nat
  <2>1. IsFiniteSet(fpc .. fpc + n - 1)
    BY <1>1, FS_Interval
  <2> QED BY <2>1, FS_Subset, FS_CardinalityType
<1>5. NewAccess(n) \subseteq {At(p) : p \in P}
  <2> SUFFICES ASSUME NEW t \in NewAccess(n)
               PROVE  t \in {At(p) : p \in P}
    OBVIOUS
  <2>1. t \in Dispatched(n) /\ IsMem(fpc + TagAge(t, tail))
    BY DEF NewAccess
  <2>2. PICK k \in 0 .. n - 1 : t = TagPlus(tail, k)
    BY <2>1 DEF Dispatched
  <2>3. tail \in Tag
    BY <1>1, TagPlusType DEF tail, RingInv
  <2>4. TagAge(t, tail) = k
    BY <2>2, <2>3, RobSizeAssumption, AgeOfTag
  <2>5. fpc + k \in P /\ (fpc + k) - fpc = k
    BY <1>1, <2>1, <2>4
  <2> QED BY <2>2, <2>5
<1>6. IsFiniteSet({At(p) : p \in P}) /\ Cardinality({At(p) : p \in P}) <= Cardinality(P)
  <2> DEFINE f == [p \in P |-> At(p)]
             T == {At(p) : p \in P}
  <2>1. f \in [P -> T] /\ \A t \in T : \E p \in P : f[p] = t
    <3> HIDE DEF P, At
    <3> QED OBVIOUS
  <2>2. f \in Surjection(P, T)
    <3> HIDE DEF P, f, T
    <3> QED BY <2>1 DEF Surjection
  <2>3. IsFiniteSet(T) /\ Cardinality(T) <= Cardinality(P)
    <3> HIDE DEF P, f, T
    <3> QED BY <1>4, <2>2, FS_Surjection
  <2> QED BY <2>3
<1> HIDE DEF P, At
<1>7. /\ IsFiniteSet(NewAccess(n)) /\ Cardinality(NewAccess(n)) \in Nat
      /\ Cardinality(NewAccess(n)) <= Cardinality({At(p) : p \in P})
      /\ Cardinality({At(p) : p \in P}) \in Nat
  BY <1>5, <1>6, FS_Subset, FS_CardinalityType
<1>8. /\ Cardinality(memq \cup NewAccess(n)) =
           Cardinality(memq) + Cardinality(NewAccess(n)) - Cardinality(memq \cap NewAccess(n))
      /\ IsFiniteSet(memq \cup NewAccess(n))
      /\ Cardinality(memq \cap NewAccess(n)) \in Nat
  <2>1. memq \cap NewAccess(n) \subseteq memq
    OBVIOUS
  <2> QED BY <1>3, <1>7, <2>1, FS_Union, FS_Subset, FS_CardinalityType
<1>9. Cardinality(memq) + Cardinality(P) <= QUEUE_ENTRIES
  BY DEF CanDispatch, MemOps, P
<1> QED BY <1>1, <1>3, <1>4, <1>6, <1>7, <1>8, <1>9

\* Every unfinished access is in one place after a cycle.
LEMMA CyclePlaces ==
  ASSUME RingInv, OrderInv, PlaceInv, QueueInv, LoadInv, AtomicInv,
         NEW n \in 0 .. 2, NEW ready \in BOOLEAN, NEW grant \in BOOLEAN,
         NEW br \in Tag \cup {NoTag}, NEW squash \in BOOLEAN,
         Cycle(n, ready, grant, br, squash)
  PROVE  PlaceInv'
<1> DEFINE W == Squashed(br, squash)
           G == Granted(grant)
           New == NewAccess(n)
           taken == Taken(ready, grant, squash)
<1>1. Undone' = ((Undone \ W) \ G) \cup New /\ New \cap Live = {}
  BY UndoneStep
<1>2. /\ memq \cup Loading \cup Running \cup Leaving = Undone
      /\ memq \cap Loading = {} /\ memq \cap Running = {} /\ memq \cap Leaving = {}
      /\ Loading \cap Running = {} /\ Loading \cap Leaving = {} /\ Running \cap Leaving = {}
      /\ Undone \subseteq Live
  BY DEF PlaceInv, Undone
<1>3. taken \subseteq memq /\ Placement(taken, n, grant, br, squash)
  BY PlaceMoves
<1>0. /\ memq' = ((memq \ taken) \ W) \cup New
      /\ G \subseteq Leaving /\ (G # {} => G = Leaving) /\ taken \subseteq memq
  BY <1>3 DEF Placement
<1>10. \/ /\ taken = {} /\ Loading' = Loading \ W /\ Running' = Running /\ Running \cap W = {}
            /\ Leaving' = (Leaving \ G) \ W
         \/ /\ taken = {} /\ Loading' = {} /\ Running' = Running /\ Running \cap W = {}
            /\ Leaving \ G = {} /\ Leaving' = Loading \ W
         \/ /\ W = {} /\ Loading' = Loading /\ Running' = {} /\ Running = {}
            /\ Leaving \ G = {} /\ Leaving' = taken
         \/ /\ W = {} /\ Loading = {} /\ Loading' = taken /\ Running' = {} /\ Running = {}
            /\ Leaving' = Leaving \ G
         \/ /\ W = {} /\ Loading = {} /\ Loading' = {} /\ Running' = taken /\ Running = {}
            /\ Leaving' = Leaving \ G
         \/ /\ Loading = {} /\ Loading' = {} /\ Running' = {} /\ Leaving = {} /\ G = {} /\ W = {}
            /\ taken = {} /\ Leaving' = Running
  BY <1>3 DEF Placement
<1>4. CanDispatch(n)
  BY DEF Cycle
<1> HIDE DEF W, G, New, taken
<1>5. memq' \cup Loading' \cup Running' \cup Leaving' = Undone'
  <2>1. memq \cap W \subseteq W /\ G \subseteq Leaving
    BY <1>0
  <2>2. CASE taken = {}
    <3>1. CASE /\ Loading' = Loading \ W /\ Running' = Running /\ Running \cap W = {}
               /\ Leaving' = (Leaving \ G) \ W
      BY <1>0, <1>1, <1>2, <2>2, <3>1
    <3>2. CASE /\ Loading' = {} /\ Running' = Running /\ Running \cap W = {}
               /\ Leaving \ G = {} /\ Leaving' = Loading \ W
      BY <1>0, <1>1, <1>2, <2>2, <3>2
    <3>3. CASE W = {} /\ Loading' = Loading /\ Running' = {} /\ Running = {} /\ Leaving \ G = {} /\ Leaving' = taken
      BY <1>0, <1>1, <1>2, <2>2, <3>3
    <3>4. CASE /\ W = {} /\ Loading = {} /\ Loading' = taken /\ Running' = {} /\ Running = {}
               /\ Leaving' = Leaving \ G
      BY <1>0, <1>1, <1>2, <2>2, <3>4
    <3>5. CASE /\ W = {} /\ Loading = {} /\ Loading' = {} /\ Running' = taken /\ Running = {}
               /\ Leaving' = Leaving \ G
      BY <1>0, <1>1, <1>2, <2>2, <3>5
    <3>6. CASE /\ Loading = {} /\ Loading' = {} /\ Running' = {} /\ Leaving = {} /\ G = {} /\ W = {}
               /\ Leaving' = Running
      BY <1>0, <1>1, <1>2, <2>2, <3>6
    <3> QED BY <1>10, <2>2, <3>1, <3>2, <3>3, <3>4, <3>5, <3>6
  <2>3. CASE taken # {}
    <3>1. W = {}
      BY <1>10, <2>3
    <3> QED BY <1>0, <1>1, <1>2, <1>10, <2>3, <3>1
  <2> QED BY <2>2, <2>3
<1>6. /\ memq' \cap Loading' = {} /\ memq' \cap Running' = {} /\ memq' \cap Leaving' = {}
      /\ Loading' \cap Running' = {} /\ Loading' \cap Leaving' = {} /\ Running' \cap Leaving' = {}
  BY <1>0, <1>1, <1>2, <1>10
<1>7. Cardinality(memq') <= QUEUE_ENTRIES
  <2>1. IsFiniteSet(memq \cup New) /\ Cardinality(memq \cup New) <= QUEUE_ENTRIES
    BY <1>4, QueueSize DEF New
  <2>2. memq' \subseteq memq \cup New
    BY <1>0
  <2> QED BY <2>1, <2>2, FS_Subset, FS_CardinalityType, LoadStoreAssumption
<1>8. ASSUME NEW t \in Live', t \notin memq', IsMem(rob[t].pc)', NEW u \in memq'
      PROVE  TagYounger(u, t, head')
  <2>1. /\ Live' = Staying(br, squash) \cup Dispatched(n)
        /\ Staying(br, squash) \cap Dispatched(n) = {} /\ Staying(br, squash) \subseteq Live
        /\ \A v, w \in Live' : TagYounger(v, w, head') <=> Younger(v, w)
        /\ prog' = prog /\ \A v \in Staying(br, squash) : rob'[v].pc = rob[v].pc
    BY CycleRob, CycleRing
  <2>2. t \in Live /\ t \in Staying(br, squash)
    <3>1. t \in Live \/ t \in New
      BY <1>8, UndoneStep DEF New
    <3>2. t \notin New
      BY <1>0, <1>8
    <3>3. \A v \in Dispatched(n) : v \notin Live
      BY <1>4, DispatchFacts
    <3> QED BY <2>1, <3>1, <3>2, <3>3
  <2>3. IsMem(rob[t].pc) /\ t \notin W /\ t \in Tag
    BY <1>8, <2>1, <2>2 DEF IsMem, Code, W, Squashed, Staying, Live
  <2>4. t \notin memq \/ t \in taken
    BY <1>0, <1>8, <2>3
  <2>5. u \in Live'
    BY <1>5 DEF Undone
  <2>6. Younger(u, t)
    <3>1. CASE u \in New
      <4>1. u \in Dispatched(n) /\ TagAge(u, head) >= used
        BY <1>4, <3>1, DispatchFacts DEF New, NewAccess
      <4>2. TagAge(t, head) < used /\ TagAge(t, head) \in Nat /\ used \in Nat
        BY <2>2, <2>3, HeadFacts, RobSizeAssumption DEF RingInv, Live
      <4>3. TagAge(u, head) \in Nat
        BY <1>4, <4>1, DispatchFacts, HeadFacts, RobSizeAssumption
      <4> QED BY <4>1, <4>2, <4>3 DEF Younger, TagYounger
    <3>2. CASE u \in memq /\ t \notin memq
      BY <2>2, <2>3, <3>2 DEF PlaceInv
    <3>3. CASE u \in memq /\ t \in taken /\ u \notin New
      <4>1. t = qtag /\ memq # {} /\ u # qtag
        BY <1>0, <3>3 DEF taken, Taken
      <4> QED BY <3>3, <4>1, OldestQueued
    <3> QED BY <1>0, <2>4, <3>1, <3>2, <3>3
  <2> QED BY <1>8, <2>1, <2>5, <2>6
<1>9. \A t \in Live' \ memq' : IsMem(rob[t].pc)' => \A u \in memq' : TagYounger(u, t, head')
  BY <1>8
<1>11. PlaceInv' <=> /\ memq' \cup Loading' \cup Running' \cup Leaving' = Undone'
      /\ memq' \cap Loading' = {} /\ memq' \cap Running' = {} /\ memq' \cap Leaving' = {}
      /\ Loading' \cap Running' = {} /\ Loading' \cap Leaving' = {} /\ Running' \cap Leaving' = {}
      /\ Cardinality(memq') <= QUEUE_ENTRIES
      /\ \A t \in Live' \ memq' : IsMem(rob[t].pc)' => \A u \in memq' : TagYounger(u, t, head')
  BY DEF PlaceInv, Younger
<1> QED BY <1>5, <1>6, <1>7, <1>9, <1>11

-----------------------------------------------------------------------------
(* The store queue over a cycle.                                           *)

StoreRecord == [tag : Tag, word : Word, data : Datum]

\* The store queue as a sequence.
LEMMA QueueTypes ==
  ASSUME QueueInv
  PROVE  /\ sq \in Seq(StoreRecord) /\ Len(sq) \in Nat /\ DOMAIN sq = 1 .. Len(sq)
         /\ \A i \in DOMAIN sq : /\ sq[i] \in StoreRecord
                                /\ sq[i].tag \in Tag /\ sq[i].word \in Word /\ sq[i].data \in Datum
<1>1. sq \in Seq(StoreRecord)
  BY DEF QueueInv, StoreRecord
<1>2. \A i \in DOMAIN sq : sq[i] \in StoreRecord
  BY <1>1
<1>3. \A s \in StoreRecord : s.tag \in Tag /\ s.word \in Word /\ s.data \in Datum
  BY DEF StoreRecord
<1> QED BY <1>1, <1>2, <1>3

\* A squash keeps the stores that are not younger than the branch: a prefix.
LEMMA KeptStores ==
  ASSUME RingInv, PlaceInv, QueueInv, NEW br \in Tag
  PROVE  /\ sq_keep(br) \in 0 .. Len(sq)
         /\ \A i \in DOMAIN sq : i <= sq_keep(br) <=> ~Younger(sq[i].tag, br)
<1> DEFINE older == {i \in DOMAIN sq : ~Younger(sq[i].tag, br)}
<1>1. /\ Len(sq) \in Nat
      /\ DOMAIN sq = 1 .. Len(sq) /\ \A i \in DOMAIN sq : sq[i].tag \in Tag
  BY QueueTypes
<1>2. \A t \in Tag : TagAge(t, head) \in Int
  BY HeadFacts
<1>3. \A i, j \in DOMAIN sq : i < j => (j \in older => i \in older)
  BY <1>1, <1>2 DEF QueueInv, Younger, TagYounger
<1>4. older = {} => sq_keep(br) = 0
  BY DEF sq_keep
<1>5. older # {} => sq_keep(br) \in older /\ \A j \in older : j <= sq_keep(br)
  <2> SUFFICES ASSUME older # {}
               PROVE  sq_keep(br) \in older /\ \A j \in older : j <= sq_keep(br)
    OBVIOUS
  <2>1. \E x \in older : \A y \in older : y <= x
    <3>1. older \in SUBSET (1 .. Len(sq))
      BY <1>1
    <3> HIDE DEF older
    <3> QED BY <1>1, <3>1, SetHasMax
  <2>2. sq_keep(br) = CHOOSE i \in older : \A j \in older : j <= i
    BY DEF sq_keep
  <2> HIDE DEF older
  <2> QED BY <2>1, <2>2
<1>6. CASE older = {}
  BY <1>1, <1>4, <1>6
<1>7. CASE older # {}
  <2>1. sq_keep(br) \in 1 .. Len(sq)
    BY <1>1, <1>5, <1>7
  <2>2. ASSUME NEW i \in DOMAIN sq
        PROVE  i <= sq_keep(br) <=> i \in older
    BY <1>1, <1>3, <1>5, <1>7, <2>1
  <2> QED BY <2>1, <2>2
<1> QED BY <1>6, <1>7

\* The store that commits is the oldest of the store queue, and no other
\* queued store commits with it.
LEMMA StoreQueueFront ==
  ASSUME RingInv, PlaceInv, QueueInv
  PROVE  /\ commit_store => /\ sq # <<>> /\ 1 \in DOMAIN sq
                            /\ sq[1].tag = (IF commit0 /\ IsStore(h0) THEN head
                                            ELSE TagPlus(head, 1))
                            /\ TagAge(sq[1].tag, head) < commit_count
         /\ \A i \in DOMAIN sq :
              (i > 1 \/ ~commit_store) => TagAge(sq[i].tag, head) >= commit_count
<1>0. /\ Len(sq) \in Nat
      /\ DOMAIN sq = 1 .. Len(sq) /\ \A i \in DOMAIN sq : sq[i].tag \in Tag
  BY QueueTypes
<1>1. /\ Len(sq) \in Nat
      /\ DOMAIN sq = 1 .. Len(sq) /\ \A i \in DOMAIN sq : sq[i].tag \in Tag
      /\ \A i, j \in DOMAIN sq : i < j => Younger(sq[j].tag, sq[i].tag)
  BY <1>0 DEF QueueInv
<1>2. \A i \in DOMAIN sq : sq[i].tag \in Live /\ Op(sq[i].tag) = "st"
  BY DEF QueueInv, Elements, IsQueued
<1>3. /\ TagAge(head, head) = 0 /\ TagAge(TagPlus(head, 1), head) = 1
      /\ \A t \in Tag : /\ TagAge(t, head) \in Nat
                        /\ TagAge(t, head) = 0 => t = head
                        /\ TagAge(t, head) = 1 => t = TagPlus(head, 1)
  BY HeadFacts, RobSizeAssumption
<1>4. /\ commit_count \in 0 .. 2
      /\ commit0 <=> commit_count >= 1
      /\ commit1 <=> commit_count = 2
      /\ \A t \in Tag : TagAge(t, head) < commit_count =>
              /\ t \in Live /\ rob[t].done /\ ~ISA!Faults(rob[t].pc)
              /\ t = head \/ (commit1 /\ t = TagPlus(head, 1))
  BY CommitFacts
<1>5. /\ IsStore(h0) <=> Op(head) = "st"
      /\ IsStore(h1) <=> Op(TagPlus(head, 1)) = "st"
      /\ commit1 => (IsStore(h1) => ~IsStore(h0))
  BY DEF IsStore, h0, h1, Op, commit1
<1>6. \A t \in Tag : t \in memq => ~rob[t].done
  BY DEF PlaceInv, Undone
<1>7. ASSUME NEW t \in Tag, TagAge(t, head) < commit_count, Op(t) = "st"
      PROVE  \E i \in DOMAIN sq : sq[i].tag = t
  <2>1. t \in Live /\ IsQueued(t)
    BY <1>4, <1>6, <1>7 DEF IsQueued
  <2> QED BY <2>1 DEF QueueInv, Elements
<1>8. ASSUME commit_store
      PROVE  /\ 1 \in DOMAIN sq /\ TagAge(sq[1].tag, head) < commit_count
             /\ sq[1].tag = (IF commit0 /\ IsStore(h0) THEN head ELSE TagPlus(head, 1))
             /\ \A i \in DOMAIN sq : i > 1 => TagAge(sq[i].tag, head) >= commit_count
  <2> DEFINE c == IF commit0 /\ IsStore(h0) THEN head ELSE TagPlus(head, 1)
  <2>1. c \in Tag /\ TagAge(c, head) < commit_count /\ Op(c) = "st"
    BY <1>3, <1>4, <1>5, <1>8, HeadFacts DEF commit_store, RingInv
  <2>2. PICK i \in DOMAIN sq : sq[i].tag = c
    <3> HIDE DEF c
    <3> QED BY <1>7, <2>1
  <2>3. i = 1
    <3> SUFFICES ASSUME i # 1 PROVE FALSE
      OBVIOUS
    <3>1. 1 \in DOMAIN sq /\ Younger(sq[i].tag, sq[1].tag)
      BY <1>1
    <3>2. TagAge(sq[1].tag, head) = 0 /\ TagAge(c, head) = 1 /\ sq[1].tag = head
      <4> HIDE DEF c
      <4> QED BY <1>1, <1>3, <1>4, <2>1, <2>2, <3>1 DEF Younger, TagYounger
    <3>3. c # head /\ Op(head) = "st" /\ commit0
      BY <1>2, <1>3, <1>4, <2>1, <3>1, <3>2
    <3> QED BY <1>5, <3>3
  <2>4. ASSUME NEW j \in DOMAIN sq, j > 1
        PROVE  TagAge(sq[j].tag, head) >= commit_count
    <3> SUFFICES ASSUME ~(TagAge(sq[j].tag, head) >= commit_count) PROVE FALSE
      OBVIOUS
    <3>1. sq[j].tag \in Tag /\ TagAge(sq[j].tag, head) < commit_count /\ Op(sq[j].tag) = "st"
      BY <1>1, <1>2, <1>3, <1>4
    <3>2. TagAge(sq[j].tag, head) > TagAge(c, head)
      BY <1>1, <2>2, <2>3, <2>4 DEF Younger, TagYounger
    <3>3. TagAge(sq[j].tag, head) = 1 /\ TagAge(c, head) = 0 /\ commit_count = 2
      <4> HIDE DEF c
      <4> QED BY <1>3, <1>4, <2>1, <3>1, <3>2
    <3>4. sq[j].tag = TagPlus(head, 1) /\ c = head
      <4> HIDE DEF c
      <4> QED BY <1>3, <2>1, <3>1, <3>3
    <3> QED BY <1>4, <1>5, <2>1, <3>1, <3>3, <3>4
  <2> QED BY <2>1, <2>2, <2>3, <2>4
<1>9. ASSUME ~commit_store, NEW i \in DOMAIN sq
      PROVE  TagAge(sq[i].tag, head) >= commit_count
  <2> SUFFICES ASSUME ~(TagAge(sq[i].tag, head) >= commit_count) PROVE FALSE
    OBVIOUS
  <2>1. sq[i].tag \in Tag /\ TagAge(sq[i].tag, head) < commit_count /\ Op(sq[i].tag) = "st"
    BY <1>1, <1>2, <1>3, <1>4
  <2>2. commit_store
    BY <1>3, <1>4, <1>5, <2>1 DEF commit_store
  <2> QED BY <1>9, <2>2
<1> QED BY <1>1, <1>8, <1>9

\* The first and the last store that stay, how many there are, and whether
\* another one enters behind them.
SqLo == IF commit_store THEN 2 ELSE 1
SqHi(br, squash) == IF squash THEN sq_keep(br) ELSE Len(sq)
SqKept(br, squash) == IF SqHi(br, squash) < SqLo THEN 0 ELSE SqHi(br, squash) - SqLo + 1
TakesStore(ready, grant, squash) == head_take(ready, grant, squash) /\ TakeStore(grant)

\* A store that enters is a queued one without a fault.
LEMMA EnteringStore ==
  ASSUME RingInv, PlaceInv, NEW ready \in BOOLEAN, NEW grant \in BOOLEAN, NEW squash \in BOOLEAN,
         TakesStore(ready, grant, squash)
  PROVE  /\ QueuedStore \in StoreRecord /\ QueuedStore.tag = qtag
         /\ QueuedStore.word = Code(rob[qtag].pc).word
         /\ QueuedStore.data = ISA!StoreOf(rob[qtag].pc).data
         /\ Op(qtag) = "st" /\ ~ISA!Faults(rob[qtag].pc) /\ Len(sq) < SQ_ENTRIES
         /\ qtag \in memq /\ qtag \in Undone /\ squash = FALSE
         /\ DOMAIN QueuedStore.data = qh.mask
<1>1. /\ qtag \in memq /\ qtag \in Undone /\ qtag \in Tag /\ squash = FALSE
      /\ rob[qtag].pc \in PC /\ qh = Code(rob[qtag].pc) /\ qh \in Instruction
      /\ rob[qtag].pc \in Nat
  BY TakeFacts, OldestQueued, ProgramFacts DEF TakesStore
<1>2. Op(qtag) = "st" /\ ~ISA!Faults(rob[qtag].pc) /\ Len(sq) < SQ_ENTRIES
  BY <1>1 DEF TakesStore, TakeStore, misaligned, Op, ISA!Faults, ISA!Code, Code
<1>3. ISA!StoreOf(rob[qtag].pc).data = [l \in qh.mask |-> rob[qtag].pc]
  BY <1>1 DEF ISA!StoreOf, ISA!Code, Code
<1>4. qh.mask \in SUBSET Lane /\ qh.word \in Word
  BY <1>1 DEF Instruction
<1>5. [l \in qh.mask |-> rob[qtag].pc] \in [qh.mask -> Nat]
  BY <1>1
<1>6. ISA!StoreOf(rob[qtag].pc).data \in Datum
  BY <1>3, <1>4, <1>5 DEF Datum
<1> QED BY <1>1, <1>2, <1>3, <1>4, <1>6 DEF QueuedStore, StoreRecord

LEMMA StoreQueueMoves ==
  ASSUME RingInv, PlaceInv, QueueInv, NEW n \in 0 .. 2, NEW ready \in BOOLEAN, NEW grant \in BOOLEAN,
         NEW br \in Tag \cup {NoTag}, NEW squash \in BOOLEAN,
         Cycle(n, ready, grant, br, squash)
  PROVE  /\ SqLo \in 1 .. 2 /\ SqHi(br, squash) \in 0 .. Len(sq)
         /\ SqKept(br, squash) \in 0 .. Len(sq)
         /\ sq' \in Seq(StoreRecord)
         /\ TakesStore(ready, grant, squash) => Len(sq') = SqKept(br, squash) + 1
         /\ ~TakesStore(ready, grant, squash) => Len(sq') = SqKept(br, squash)
         /\ \A i \in 1 .. SqKept(br, squash) :
              sq'[i] = sq[SqLo + i - 1] /\ SqLo + i - 1 \in DOMAIN sq
         /\ \A j \in DOMAIN sq : sq[j].tag \in Staying(br, squash) <=> SqLo <= j /\ j <= SqHi(br, squash)
         /\ TakesStore(ready, grant, squash) => sq'[SqKept(br, squash) + 1] = QueuedStore
<1>1. /\ sq \in Seq(StoreRecord) /\ Len(sq) \in Nat /\ DOMAIN sq = 1 .. Len(sq)
      /\ \A i \in DOMAIN sq : sq[i] \in StoreRecord
  BY QueueTypes
<1>2. /\ squash => br \in Tag
      /\ commit_store => 1 \in DOMAIN sq /\ TagAge(sq[1].tag, head) < commit_count
      /\ \A i \in DOMAIN sq :
              (i > 1 \/ ~commit_store) => TagAge(sq[i].tag, head) >= commit_count
      /\ \A i \in DOMAIN sq : sq[i].tag \in Live
      /\ commit_count \in 0 .. 2 /\ \A i \in DOMAIN sq : TagAge(sq[i].tag, head) \in Int
  <2>1. squash => br \in Tag
    BY DEF Cycle
  <2>2. /\ commit_store => 1 \in DOMAIN sq /\ TagAge(sq[1].tag, head) < commit_count
        /\ \A i \in DOMAIN sq : (i > 1 \/ ~commit_store) => TagAge(sq[i].tag, head) >= commit_count
    BY ONLY RingInv, PlaceInv, QueueInv, StoreQueueFront
  <2>3. ASSUME NEW i \in DOMAIN sq PROVE sq[i].tag \in Live
    <3>1. sq[i].tag \in {t \in Live : IsQueued(t)}
      BY ONLY QueueInv, i \in DOMAIN sq DEF QueueInv, Elements
    <3> QED BY ONLY <3>1
  <2>4. commit_count \in 0 .. 2
    BY ONLY RingInv, CommitFacts
  <2>5. ASSUME NEW i \in DOMAIN sq PROVE TagAge(sq[i].tag, head) \in Int
    <3>1. sq[i].tag \in Tag
      BY ONLY QueueInv, i \in DOMAIN sq, QueueTypes
    <3>2. TagAge(sq[i].tag, head) \in 0 .. ROB_SIZE - 1
      BY ONLY RingInv, <3>1, HeadFacts
    <3> QED BY ONLY <3>2
  <2> QED BY ONLY <2>1, <2>2, <2>3, <2>4, <2>5
<1>3. squash => /\ sq_keep(br) \in 0 .. Len(sq)
                /\ \A i \in DOMAIN sq : i <= sq_keep(br) <=> ~Younger(sq[i].tag, br)
  BY <1>2, KeptStores
<1>4. SqLo \in 1 .. 2 /\ SqHi(br, squash) \in 0 .. Len(sq)
  BY <1>1, <1>3 DEF SqLo, SqHi
<1>5. SqKept(br, squash) \in 0 .. Len(sq)
  BY <1>1, <1>4 DEF SqKept
<1>6. ASSUME NEW j \in DOMAIN sq
      PROVE  sq[j].tag \in Staying(br, squash) <=> SqLo <= j /\ j <= SqHi(br, squash)
  <2>1. TagAge(sq[j].tag, head) >= commit_count <=> SqLo <= j
    <3>1. CASE commit_store
      BY <1>1, <1>2, <3>1 DEF SqLo
    <3>2. CASE ~commit_store
      BY <1>1, <1>2, <3>2 DEF SqLo
    <3> QED BY <3>1, <3>2
  <2>2. ~(squash /\ Younger(sq[j].tag, br)) <=> j <= SqHi(br, squash)
    BY <1>1, <1>3 DEF SqHi
  <2> QED BY <1>2, <2>1, <2>2 DEF Staying
<1>7. SubSeq(sq, SqLo, SqHi(br, squash)) \in Seq(StoreRecord)
  <2>1. \A i \in SqLo .. SqHi(br, squash) : sq[i] \in StoreRecord
    BY <1>1, <1>4
  <2> QED BY <1>1, <1>4, <2>1
<1> DEFINE kept == SubSeq(sq, SqLo, SqHi(br, squash))
<1>8. /\ Len(kept) = SqKept(br, squash)
      /\ \A i \in 1 .. SqKept(br, squash) :
              kept[i] = sq[SqLo + i - 1] /\ SqLo + i - 1 \in DOMAIN sq
  BY <1>1, <1>4 DEF SqKept
<1>9. ~squash => (IF commit_store THEN Tail(sq) ELSE sq) = kept
  <2>1. commit_store => Tail(sq) = SubSeq(sq, 2, Len(sq))
    BY <1>1, <1>2
  <2>2. sq = SubSeq(sq, 1, Len(sq))
    BY <1>1
  <2> QED BY <2>1, <2>2 DEF SqLo, SqHi
<1>10. sq' = NextStoreQueue(ready, grant, squash, br)
  BY DEF Cycle
<1>11. TakesStore(ready, grant, squash) => ~squash /\ QueuedStore \in StoreRecord
  BY EnteringStore
<1>12. sq' = IF TakesStore(ready, grant, squash) THEN Append(kept, QueuedStore) ELSE kept
  <2>1. CASE squash
    BY <1>10, <1>11, <2>1 DEF NextStoreQueue, SqLo, SqHi
  <2>2. CASE ~squash
    BY <1>9, <1>10, <2>2 DEF NextStoreQueue, TakesStore
  <2> QED BY <2>1, <2>2
<1> HIDE DEF kept
<1>13. kept \in Seq(StoreRecord)
  BY <1>7 DEF kept
<1>14. CASE TakesStore(ready, grant, squash)
  <2>1. /\ sq' \in Seq(StoreRecord) /\ Len(sq') = SqKept(br, squash) + 1
        /\ sq'[SqKept(br, squash) + 1] = QueuedStore
        /\ \A i \in 1 .. SqKept(br, squash) : sq'[i] = kept[i]
    BY <1>5, <1>8, <1>11, <1>12, <1>13, <1>14
  <2> QED BY <1>4, <1>5, <1>6, <1>8, <1>14, <2>1
<1>15. CASE ~TakesStore(ready, grant, squash)
  BY <1>1, <1>4, <1>5, <1>6, <1>8, <1>12, <1>13, <1>15
<1> QED BY <1>14, <1>15

\* Which stores are in the queue after a cycle, whatever their places.
LEMMA StoreQueueContents ==
  ASSUME RingInv, PlaceInv, QueueInv, NEW n \in 0 .. 2, NEW ready \in BOOLEAN, NEW grant \in BOOLEAN,
         NEW br \in Tag \cup {NoTag}, NEW squash \in BOOLEAN,
         Cycle(n, ready, grant, br, squash)
  PROVE  /\ \A i \in DOMAIN sq' :
              \/ /\ TakesStore(ready, grant, squash) /\ sq'[i] = QueuedStore /\ i = Len(sq')
              \/ \E j \in DOMAIN sq : /\ j = SqLo + i - 1 /\ sq'[i] = sq[j]
                                      /\ sq[j].tag \in Staying(br, squash)
                                      /\ i <= SqKept(br, squash)
         /\ \A j \in DOMAIN sq : sq[j].tag \in Staying(br, squash) =>
              \E i \in DOMAIN sq' : sq'[i] = sq[j]
         /\ TakesStore(ready, grant, squash) => \E i \in DOMAIN sq' : sq'[i] = QueuedStore
         /\ DOMAIN sq' = 1 .. Len(sq') /\ Len(sq') \in Nat
<1> DEFINE m == SqKept(br, squash)
           hi == SqHi(br, squash)
           takes == TakesStore(ready, grant, squash)
<1>1. /\ SqLo \in 1 .. 2 /\ hi \in 0 .. Len(sq)
      /\ m \in 0 .. Len(sq)
      /\ sq' \in Seq(StoreRecord)
      /\ takes => Len(sq') = m + 1
      /\ ~takes => Len(sq') = m
  BY StoreQueueMoves
<1>2. Len(sq) \in Nat /\ DOMAIN sq = 1 .. Len(sq)
  BY QueueTypes
<1>11. \A i \in 1 .. m : sq'[i] = sq[SqLo + i - 1] /\ SqLo + i - 1 \in DOMAIN sq
  <2>1. \A i \in 1 .. SqKept(br, squash) : sq'[i] = sq[SqLo + i - 1] /\ SqLo + i - 1 \in DOMAIN sq
    <3> HIDE DEF m, hi, takes
    <3> QED BY <1>1, <1>2, StoreQueueMoves
  <2> QED BY <2>1
<1>12. \A j \in DOMAIN sq : sq[j].tag \in Staying(br, squash) <=> SqLo <= j /\ j <= hi
  BY StoreQueueMoves
<1>13. takes => sq'[m + 1] = QueuedStore
  BY StoreQueueMoves
<1>3. m = IF hi < SqLo THEN 0 ELSE hi - SqLo + 1
  BY DEF SqKept
<1> HIDE DEF m, hi, takes
<1>4. DOMAIN sq' = 1 .. Len(sq') /\ Len(sq') \in Nat
  BY <1>1
<1>14. SqLo \in Nat /\ hi \in Nat /\ m \in Nat
  BY <1>1, <1>2
<1>7. ASSUME NEW i \in DOMAIN sq'
      PROVE  \/ takes /\ sq'[i] = QueuedStore /\ i = Len(sq')
             \/ \E j \in DOMAIN sq : /\ j = SqLo + i - 1 /\ sq'[i] = sq[j]
                                      /\ sq[j].tag \in Staying(br, squash)
                                      /\ i <= m
  <2>1. i \in Nat /\ 1 <= i /\ i <= Len(sq')
    BY <1>4
  <2>2. CASE i <= m
    <3>1. i \in 1 .. m
      BY <1>14, <2>1, <2>2
    <3>2. sq'[i] = sq[SqLo + i - 1] /\ SqLo + i - 1 \in DOMAIN sq
      BY <1>11, <3>1
    <3>3. SqLo <= SqLo + i - 1 /\ SqLo + i - 1 <= hi
      BY <1>3, <1>14, <2>1, <2>2
    <3>4. sq[SqLo + i - 1].tag \in Staying(br, squash)
      BY <1>12, <3>2, <3>3
    <3> QED BY <2>2, <3>2, <3>4
  <2>3. CASE ~(i <= m)
    <3>1. takes /\ i = m + 1 /\ i = Len(sq')
      BY <1>1, <1>14, <2>1, <2>3
    <3> QED BY <1>13, <3>1
  <2> QED BY <2>2, <2>3
<1>8. ASSUME NEW j \in DOMAIN sq, sq[j].tag \in Staying(br, squash)
      PROVE  \E i \in DOMAIN sq' : sq'[i] = sq[j]
  <2>1. SqLo <= j /\ j <= hi
    BY <1>8, <1>12
  <2>2. j \in Nat
    BY <1>2
  <2>3. PICK i \in Int : i = j - SqLo + 1
    BY <1>14, <2>2
  <2>4. i \in 1 .. m /\ SqLo + i - 1 = j
    BY <1>3, <1>14, <2>1, <2>2, <2>3
  <2>5. i \in DOMAIN sq'
    <3>1. Len(sq') = m \/ Len(sq') = m + 1
      BY <1>1
    <3>2. i \in 1 .. Len(sq')
      BY <1>14, <2>4, <3>1
    <3> QED BY <1>4, <3>2
  <2> QED BY <1>11, <2>4, <2>5
<1>9. takes => m + 1 \in DOMAIN sq'
  BY <1>1, <1>4, <1>14
<1>10. takes => \E i \in DOMAIN sq' : sq'[i] = QueuedStore
  BY <1>9, <1>13
<1> QED BY <1>4, <1>7, <1>8, <1>10 DEF m, takes

\* The store queue is exact after a cycle.
LEMMA CycleStores ==
  ASSUME RingInv, OrderInv, PlaceInv, QueueInv, LoadInv, AtomicInv,
         NEW n \in 0 .. 2, NEW ready \in BOOLEAN, NEW grant \in BOOLEAN,
         NEW br \in Tag \cup {NoTag}, NEW squash \in BOOLEAN,
         Cycle(n, ready, grant, br, squash)
  PROVE  QueueInv'
<1> DEFINE takes == TakesStore(ready, grant, squash)
           stay == Staying(br, squash)
<1>1. /\ \A i \in DOMAIN sq' :
              \/ takes /\ sq'[i] = QueuedStore /\ i = Len(sq')
              \/ \E j \in DOMAIN sq : /\ j = SqLo + i - 1 /\ sq'[i] = sq[j]
                                      /\ sq[j].tag \in stay
                                      /\ i <= SqKept(br, squash)
      /\ \A j \in DOMAIN sq : sq[j].tag \in stay => \E i \in DOMAIN sq' : sq'[i] = sq[j]
      /\ takes => \E i \in DOMAIN sq' : sq'[i] = QueuedStore
      /\ DOMAIN sq' = 1 .. Len(sq') /\ Len(sq') \in Nat
  BY StoreQueueContents
<1>2. /\ Live' = stay \cup Dispatched(n)
      /\ stay \cap Dispatched(n) = {} /\ stay \subseteq Live
      /\ \A v, w \in Live' : TagYounger(v, w, head') <=> Younger(v, w)
      /\ prog' = prog /\ \A v \in stay : rob'[v].pc = rob[v].pc
  BY CycleRob, CycleRing
<1>3. /\ memq' = ((memq \ Taken(ready, grant, squash)) \ Squashed(br, squash)) \cup NewAccess(n)
      /\ NewAccess(n) \cap Live = {}
      /\ \A t \in Live' : IsMem(rob[t].pc)' => t \in Live \/ t \in NewAccess(n)
  BY PlaceMoves, UndoneStep DEF Placement
<1>4. takes =>
         /\ QueuedStore \in StoreRecord /\ QueuedStore.tag = qtag
         /\ QueuedStore.word = Code(rob[qtag].pc).word
         /\ QueuedStore.data = ISA!StoreOf(rob[qtag].pc).data
         /\ Op(qtag) = "st" /\ ~ISA!Faults(rob[qtag].pc) /\ Len(sq) < SQ_ENTRIES
         /\ qtag \in memq /\ qtag \in Undone /\ squash = FALSE
         /\ head_take(ready, grant, squash)
  BY EnteringStore DEF TakesStore
<1>5. \A p : Code(p)' = Code(p) /\ (ISA!Faults(p)' <=> ISA!Faults(p)) /\ ISA!StoreOf(p)' = ISA!StoreOf(p)
             /\ (IsMem(p)' <=> IsMem(p))
  BY <1>2, StaticFacts
<1>6. ASSUME NEW t \in stay
      PROVE  /\ Op(t)' = Op(t) /\ (ISA!Faults(rob[t].pc)' <=> ISA!Faults(rob[t].pc))
             /\ Code(rob[t].pc)' = Code(rob[t].pc)
             /\ ISA!StoreOf(rob[t].pc)' = ISA!StoreOf(rob[t].pc)
             /\ (IsMem(rob[t].pc)' <=> IsMem(rob[t].pc))
  BY <1>2 DEF Op, Code, ISA!Faults, ISA!Code, ISA!StoreOf, IsMem
<1>7. takes => qtag \in stay
  <2> SUFFICES ASSUME takes PROVE qtag \in stay
    OBVIOUS
  <2>1. qtag \in Live /\ ~rob[qtag].done /\ squash = FALSE /\ qtag \in Tag
    BY <1>4 DEF Undone, Live
  <2>2. TagAge(qtag, head) >= commit_count
    BY <2>1, CommitFacts, HeadFacts
  <2> QED BY <2>1, <2>2 DEF Staying
<1>8. \A t \in Live : Op(t) = "st" => IsMem(rob[t].pc)
  BY DEF Op, IsMem
<1>9. \A j \in DOMAIN sq : sq[j].tag \in Live /\ IsQueued(sq[j].tag)
  BY DEF QueueInv, Elements
<1> HIDE DEF takes, stay
<1>16. ASSUME NEW t \in stay, t \notin memq', Op(t) = "st", ~ISA!Faults(rob[t].pc)
       PROVE  IsQueued(t)'
  BY <1>6, <1>16 DEF IsQueued
<1>10. ASSUME NEW i \in DOMAIN sq'
       PROVE  \E t \in stay : /\ sq'[i].tag = t /\ IsQueued(t)'
                              /\ sq'[i].word = Code(rob[t].pc).word
                              /\ sq'[i].data = ISA!StoreOf(rob[t].pc).data
  <2>1. CASE takes /\ sq'[i] = QueuedStore
    <3>1. PICK t : t = qtag
      OBVIOUS
    <3>2. /\ sq'[i].tag = t /\ t \in stay /\ Op(t) = "st" /\ ~ISA!Faults(rob[t].pc)
          /\ sq'[i].word = Code(rob[t].pc).word /\ sq'[i].data = ISA!StoreOf(rob[t].pc).data
      BY <1>4, <1>7, <2>1, <3>1
    <3>3. t \in Taken(ready, grant, squash) /\ t \in Live
      BY <1>2, <1>4, <2>1, <3>1, <3>2 DEF Taken
    <3>4. t \notin memq'
      BY <1>3, <3>3
    <3> QED BY <1>16, <3>2, <3>4
  <2>2. CASE \E j \in DOMAIN sq : sq'[i] = sq[j] /\ sq[j].tag \in stay
    <3>1. PICK j \in DOMAIN sq : sq'[i] = sq[j] /\ sq[j].tag \in stay
      BY <2>2
    <3>2. PICK t : t = sq[j].tag
      OBVIOUS
    <3>3. /\ sq[j].word = Code(rob[t].pc).word
          /\ sq[j].data = ISA!StoreOf(rob[t].pc).data
      BY <3>2 DEF QueueInv
    <3>4. IsQueued(t) /\ t \in Live
      BY <1>9, <3>2
    <3>5. t \notin memq' /\ Op(t) = "st" /\ ~ISA!Faults(rob[t].pc)
      BY <1>3, <3>4 DEF IsQueued
    <3> QED BY <1>16, <3>1, <3>2, <3>3, <3>5
  <2> QED BY <1>1, <2>1, <2>2
<1>11. ASSUME NEW t \in Live', IsQueued(t)'
       PROVE  \E i \in DOMAIN sq' : sq'[i].tag = t
  <2>1. Op(t)' = "st" /\ ~ISA!Faults(rob[t].pc)' /\ t \notin memq' /\ IsMem(rob[t].pc)'
    BY <1>11 DEF IsQueued, Op, IsMem
  <2>2. t \in stay
    <3>1. t \notin NewAccess(n) /\ t \in Live
      BY <1>3, <2>1
    <3>2. \A v \in Dispatched(n) : v \notin Live
      BY DispatchFacts DEF Cycle
    <3> QED BY <1>2, <3>1, <3>2
  <2>3. Op(t) = "st" /\ ~ISA!Faults(rob[t].pc)
    BY <1>6, <2>1, <2>2
  <2>4. t \notin Squashed(br, squash) /\ t \in Live
    BY <1>2, <2>2 DEF Squashed, stay, Staying
  <2>5. CASE t \notin memq
    <3>1. IsQueued(t)
      BY <2>3, <2>5 DEF IsQueued
    <3>2. PICK j \in DOMAIN sq : sq[j].tag = t
      BY <2>4, <3>1 DEF QueueInv, Elements
    <3>3. PICK i \in DOMAIN sq' : sq'[i] = sq[j]
      BY <1>1, <2>2, <3>2
    <3> QED BY <3>2, <3>3
  <2>6. CASE t \in memq
    <3>1. head_take(ready, grant, squash) /\ t = qtag
      BY <1>3, <2>1, <2>4, <2>6 DEF Taken
    <3>2. qh = Code(rob[qtag].pc) /\ qh.op = "st"
      BY <2>3, <3>1 DEF qh, Op
    <3>3. ~misaligned
      BY <2>3, <3>1, <3>2 DEF misaligned, ISA!Faults, ISA!Code, Code
    <3>4. takes
      BY <3>1, <3>2, <3>3
         DEF takes, TakesStore, head_take, TakeMisaligned, TakeForward, TakeLoad, TakeAtomic
    <3> QED BY <1>1, <1>4, <3>1, <3>4
  <2> QED BY <2>5, <2>6
<1>12. {s.tag : s \in Elements(sq')} = {t \in Live' : IsQueued(t)'}
  <2>1. \A i \in DOMAIN sq' : \E t \in Live' : sq'[i].tag = t /\ IsQueued(t)'
    BY <1>2, <1>10
  <2>2. \A t : t \in {s.tag : s \in Elements(sq')} <=> \E i \in DOMAIN sq' : sq'[i].tag = t
    BY DEF Elements
  <2> QED BY <1>11, <2>1, <2>2
<1>13. ASSUME NEW i \in DOMAIN sq', NEW j \in DOMAIN sq', i < j
       PROVE  TagYounger(sq'[j].tag, sq'[i].tag, head')
  <2>1. sq'[i].tag \in Live' /\ sq'[j].tag \in Live'
    BY <1>2, <1>10
  <2>2. i # Len(sq') /\ i \in Int /\ j \in Int
    BY <1>1, <1>13
  <2>3. PICK a \in DOMAIN sq : a = SqLo + i - 1 /\ sq'[i] = sq[a] /\ sq[a].tag \in stay
    BY <1>1, <2>2
  <2>4. CASE takes /\ sq'[j] = QueuedStore
    <3>1. sq'[j].tag = qtag /\ qtag \in memq
      BY <1>4, <2>4
    <3>2. sq[a].tag \in Live /\ sq[a].tag \notin memq /\ IsMem(rob[sq[a].tag].pc)
      BY <1>8, <1>9 DEF IsQueued
    <3>3. Younger(qtag, sq[a].tag)
      BY <3>1, <3>2 DEF PlaceInv
    <3> QED BY <1>2, <2>1, <2>3, <3>1, <3>3
  <2>5. CASE \E b \in DOMAIN sq : b = SqLo + j - 1 /\ sq'[j] = sq[b]
    <3>1. PICK b \in DOMAIN sq : b = SqLo + j - 1 /\ sq'[j] = sq[b]
      BY <2>5
    <3>2. SqLo \in Int
      BY DEF SqLo
    <3>3. a < b
      BY <1>13, <2>2, <2>3, <3>1, <3>2
    <3>4. Younger(sq[b].tag, sq[a].tag)
      BY <3>3 DEF QueueInv
    <3> QED BY <1>2, <2>1, <2>3, <3>1, <3>4
  <2> QED BY <1>1, <2>4, <2>5
<1>14. sq' \in Seq(StoreRecord) /\ Len(sq') <= SQ_ENTRIES
  <2>1. /\ sq' \in Seq(StoreRecord) /\ SqKept(br, squash) \in 0 .. Len(sq)
        /\ takes => Len(sq') = SqKept(br, squash) + 1
        /\ ~takes => Len(sq') = SqKept(br, squash)
    BY StoreQueueMoves DEF takes
  <2>2. Len(sq) \in Nat /\ Len(sq) <= SQ_ENTRIES /\ SQ_ENTRIES \in Nat
    BY QueueTypes, LoadStoreAssumption DEF QueueInv
  <2>3. CASE takes
    BY <1>4, <2>1, <2>2, <2>3
  <2>4. CASE ~takes
    BY <2>1, <2>2, <2>4
  <2> QED BY <2>1, <2>3, <2>4
<1>15. \A i \in DOMAIN sq' : /\ sq'[i].word = (Code(rob[sq[i].tag].pc).word)'
                             /\ sq'[i].data = (ISA!StoreOf(rob[sq[i].tag].pc).data)'
  <2> SUFFICES ASSUME NEW i \in DOMAIN sq'
               PROVE  /\ sq'[i].word = (Code(rob[sq[i].tag].pc).word)'
                      /\ sq'[i].data = (ISA!StoreOf(rob[sq[i].tag].pc).data)'
    OBVIOUS
  <2>1. PICK t \in stay : /\ sq'[i].tag = t
                          /\ sq'[i].word = Code(rob[t].pc).word
                          /\ sq'[i].data = ISA!StoreOf(rob[t].pc).data
    BY <1>10
  <2>2. Code(rob[t].pc)' = Code(rob[t].pc) /\ ISA!StoreOf(rob[t].pc)' = ISA!StoreOf(rob[t].pc)
    BY <1>6
  <2> QED BY <2>1, <2>2
<1> QED BY <1>5, <1>12, <1>13, <1>14, <1>15 DEF QueueInv, StoreRecord, Younger

-----------------------------------------------------------------------------
(* The load stage over a cycle.                                            *)

\* The youngest store that writes a byte of an access is well defined.
LEMMA YoungestFacts ==
  ASSUME NEW q, NEW n \in Nat, DOMAIN q = 1 .. n, NEW word, NEW mask
  PROVE  /\ YoungestOverlap(q, word, mask) \in 0 .. n
         /\ YoungestOverlap(q, word, mask) = 0 <=> \A i \in DOMAIN q : ~Overlaps(q[i], word, mask)
         /\ YoungestOverlap(q, word, mask) # 0 =>
              /\ YoungestOverlap(q, word, mask) \in DOMAIN q
              /\ Overlaps(q[YoungestOverlap(q, word, mask)], word, mask)
              /\ \A j \in DOMAIN q : Overlaps(q[j], word, mask) => j <= YoungestOverlap(q, word, mask)
<1> DEFINE found == {i \in DOMAIN q : Overlaps(q[i], word, mask)}
<1>1. found = {} => YoungestOverlap(q, word, mask) = 0
  BY DEF YoungestOverlap
<1>2. found # {} =>
        /\ YoungestOverlap(q, word, mask) \in found
        /\ \A j \in found : j <= YoungestOverlap(q, word, mask)
  <2> SUFFICES ASSUME found # {}
               PROVE  /\ YoungestOverlap(q, word, mask) \in found
                      /\ \A j \in found : j <= YoungestOverlap(q, word, mask)
    OBVIOUS
  <2>1. YoungestOverlap(q, word, mask) = CHOOSE i \in found : \A j \in found : j <= i
    BY DEF YoungestOverlap
  <2>2. \E i \in found : \A j \in found : j <= i
    <3>1. found \in SUBSET (1 .. n)
      OBVIOUS
    <3> HIDE DEF found
    <3> QED BY <3>1, SetHasMax
  <2> HIDE DEF found
  <2> QED BY <2>1, <2>2
<1> QED BY <1>1, <1>2

\* What leaves the queue for the load stage looks past no older store.
LEMMA LoadsPastNoStore ==
  ASSUME QueueInv, TakeLoad
  PROVE  \A i \in DOMAIN sq : ~Overlaps(sq[i], qh.word, qh.mask)
<1>1. Len(sq) \in Nat /\ DOMAIN sq = 1 .. Len(sq)
  BY QueueTypes
<1>2. CASE sq = <<>>
  BY <1>1, <1>2
<1>3. CASE ~sq_fwd_hit /\ ~sq_fwd_block
  <2>1. YoungestOverlap(sq, qh.word, qh.mask) = 0
    BY <1>3 DEF sq_fwd_hit, sq_fwd_block, ForwardConflict
  <2> QED BY <1>1, <2>1, YoungestFacts
<1> QED BY <1>2, <1>3 DEF TakeLoad

\* What the load stage holds after a cycle.
LEMMA LoadMoves ==
  ASSUME RingInv, OrderInv, PlaceInv, QueueInv, LoadInv, AtomicInv,
         NEW n \in 0 .. 2, NEW ready \in BOOLEAN, NEW grant \in BOOLEAN,
         NEW br \in Tag \cup {NoTag}, NEW squash \in BOOLEAN,
         Cycle(n, ready, grant, br, squash)
  PROVE  \/ ld' = NoLoad
         \/ ld' = ld /\ (ld.squashed \/ ld.tag \in Staying(br, squash))
         \/ ld' = [ld EXCEPT !.squashed = TRUE] /\ ld # NoLoad /\ ~load_done
         \/ /\ ld = NoLoad /\ ToLoad(ready, grant, squash)
            /\ ld' = [tag |-> qtag, pc |-> rob[qtag].pc, squashed |-> FALSE,
                      word |-> qh.word, mask |-> qh.mask]
<1>1. ld # NoLoad => /\ ld \in LoadRecord /\ ld.tag \in Tag /\ ld.squashed \in BOOLEAN
  BY DEF LoadInv, LoadRecord
<1>2. \A t \in Undone : t \notin Squashed(br, squash) => t \in Staying(br, squash)
  <2> SUFFICES ASSUME NEW t \in Undone, t \notin Squashed(br, squash)
               PROVE  t \in Staying(br, squash)
    OBVIOUS
  <2>1. t \in Tag /\ t \in Live /\ ~rob[t].done
    BY DEF Undone, Live
  <2>2. TagAge(t, head) >= commit_count
    BY <2>1, CommitFacts, HeadFacts
  <2> QED BY <2>1, <2>2 DEF Squashed, Staying
<1>3. ld # NoLoad /\ ~ld.squashed => ld.tag \in Undone
  BY DEF PlaceInv, Loading
<1>4. CASE head_take(ready, grant, squash)
  <2>1. squash = FALSE
    BY <1>4, TakeFacts
  <2>2. Squashed(br, squash) = {}
    BY <2>1 DEF Squashed
  <2> QED BY <1>2, <1>3, <1>4, <2>2, TakeStep
<1>5. CASE ~head_take(ready, grant, squash)
  <2>1. CASE load_claims_out(grant)
    <3>1. at.state # "write"
      BY <2>1 DEF AtomicInv, load_claims_out, load_done
    <3> QED BY <1>5, <2>1, <3>1, NoTakeStep
  <2>2. CASE ~load_claims_out(grant)
    <3>1. ld' = IF ld = NoLoad \/ (load_done /\ (ld.squashed \/ (squash /\ Younger(ld.tag, br))))
                    THEN NoLoad
                    ELSE IF squash /\ Younger(ld.tag, br) THEN [ld EXCEPT !.squashed = TRUE]
                    ELSE ld
      BY <1>5, <2>2, NoTakeStep
    <3>2. CASE ld = NoLoad \/ (load_done /\ (ld.squashed \/ (squash /\ Younger(ld.tag, br))))
      BY <3>1, <3>2
    <3>3. CASE ~(ld = NoLoad \/ (load_done /\ (ld.squashed \/ (squash /\ Younger(ld.tag, br)))))
      <4>1. CASE squash /\ Younger(ld.tag, br)
        BY <3>1, <3>3, <4>1
      <4>2. CASE ~(squash /\ Younger(ld.tag, br))
        <5>1. ld' = ld
          BY <3>1, <3>3, <4>2
        <5>2. ~ld.squashed => ld.tag \in Staying(br, squash)
          BY <1>1, <1>2, <1>3, <3>3, <4>2 DEF Squashed
        <5> QED BY <5>1, <5>2
      <4> QED BY <4>1, <4>2
    <3> QED BY <3>2, <3>3
  <2> QED BY <2>1, <2>2
<1> QED BY <1>4, <1>5

LEMMA CycleLoad ==
  ASSUME RingInv, OrderInv, PlaceInv, QueueInv, LoadInv, AtomicInv,
         NEW n \in 0 .. 2, NEW ready \in BOOLEAN, NEW grant \in BOOLEAN,
         NEW br \in Tag \cup {NoTag}, NEW squash \in BOOLEAN,
         Cycle(n, ready, grant, br, squash)
  PROVE  LoadInv'
<1>1. /\ Live' = Staying(br, squash) \cup Dispatched(n)
      /\ \A v, w \in Live' : TagYounger(v, w, head') <=> Younger(v, w)
      /\ prog' = prog
      /\ \A v \in Staying(br, squash) : /\ rob'[v].pc = rob[v].pc /\ v \in Live /\ v \in Tag
  BY CycleRob, CycleRing
<1>2. ASSUME NEW t \in Staying(br, squash)
      PROVE  Op(t)' = Op(t) /\ Code(rob[t].pc)' = Code(rob[t].pc)
  BY <1>1 DEF Op, Code
<1>3. \A i \in DOMAIN sq' :
              \/ /\ TakesStore(ready, grant, squash) /\ sq'[i] = QueuedStore
              \/ \E j \in DOMAIN sq : sq'[i] = sq[j] /\ sq[j].tag \in Staying(br, squash)
  BY ONLY RingInv, PlaceInv, QueueInv, n \in 0 .. 2, ready \in BOOLEAN, grant \in BOOLEAN,
          br \in Tag \cup {NoTag}, squash \in BOOLEAN, Cycle(n, ready, grant, br, squash),
          StoreQueueContents
<1>4. ld # NoLoad => /\ ld \in LoadRecord /\ ld.mask # {}
                     /\ [ld EXCEPT !.squashed = TRUE] \in LoadRecord
                     /\ [ld EXCEPT !.squashed = TRUE].mask = ld.mask
                     /\ [ld EXCEPT !.squashed = TRUE].squashed
  BY DEF LoadInv, LoadRecord
<1>5. CASE ld' = NoLoad
  BY <1>5 DEF LoadInv
<1>6. CASE ld' = [ld EXCEPT !.squashed = TRUE] /\ ld # NoLoad
  BY <1>4, <1>6 DEF LoadInv
<1>7. CASE ld' = ld /\ ld # NoLoad /\ (ld.squashed \/ ld.tag \in Staying(br, squash))
  <2>1. CASE ld.squashed
    BY <1>4, <1>7, <2>1 DEF LoadInv
  <2>2. CASE ~ld.squashed
    <3>1. PICK t : t = ld.tag
      OBVIOUS
    <3>2. t \in Staying(br, squash) /\ t \in Undone /\ t \notin memq
      BY <1>7, <2>2, <3>1 DEF PlaceInv, Loading
    <3>3. /\ ld.word = Code(rob[t].pc).word /\ ld.mask = Code(rob[t].pc).mask
          /\ Op(t) = "ld"
          /\ \A i \in DOMAIN sq : Younger(t, sq[i].tag) => ~Overlaps(sq[i], ld.word, ld.mask)
      BY <1>7, <2>2, <3>1 DEF LoadInv
    <3>4. ASSUME NEW i \in DOMAIN sq', TagYounger(t, sq'[i].tag, head')
          PROVE  ~Overlaps(sq'[i], ld.word, ld.mask)
      <4>1. CASE TakesStore(ready, grant, squash) /\ sq'[i] = QueuedStore
        <5>1. /\ QueuedStore.tag = qtag /\ qtag \in memq /\ qtag \in Undone
              /\ head_take(ready, grant, squash) /\ squash = FALSE
          BY <4>1, EnteringStore DEF TakesStore
        <5>2. Younger(qtag, t)
          BY <3>2, <5>1 DEF PlaceInv, Undone
        <5>3. qtag \in Staying(br, squash)
          <6>1. qtag \in Live /\ ~rob[qtag].done /\ qtag \in Tag
            BY <5>1 DEF Undone, Live
          <6>2. TagAge(qtag, head) >= commit_count
            BY <6>1, CommitFacts, HeadFacts
          <6> QED BY <5>1, <6>1, <6>2 DEF Staying
        <5>4. Younger(t, qtag)
          BY <1>1, <3>2, <3>4, <4>1, <5>1, <5>3
        <5> QED BY <1>1, <3>2, <5>2, <5>3, <5>4, HeadFacts DEF Younger, TagYounger
      <4>2. CASE \E j \in DOMAIN sq : sq'[i] = sq[j] /\ sq[j].tag \in Staying(br, squash)
        <5>1. PICK j \in DOMAIN sq : sq'[i] = sq[j] /\ sq[j].tag \in Staying(br, squash)
          BY <4>2
        <5>2. Younger(t, sq[j].tag)
          BY <1>1, <3>2, <3>4, <5>1
        <5> QED BY <3>3, <5>1, <5>2
      <4> QED BY <1>3, <4>1, <4>2
    <3>5. Op(t)' = "ld" /\ ld.word = Code(rob[t].pc)'.word /\ ld.mask = Code(rob[t].pc)'.mask
      BY <1>2, <3>2, <3>3
    <3> QED BY <1>4, <1>7, <3>1, <3>4, <3>5 DEF LoadInv, Younger
  <2> QED BY <2>1, <2>2
<1>8. CASE /\ ld = NoLoad /\ ToLoad(ready, grant, squash)
           /\ ld' = [tag |-> qtag, pc |-> rob[qtag].pc, squashed |-> FALSE,
                     word |-> qh.word, mask |-> qh.mask]
  <2>1. /\ qtag \in Undone /\ qtag \in memq /\ qtag \in Tag /\ squash = FALSE
        /\ rob[qtag].pc \in Nat /\ qh = Code(rob[qtag].pc) /\ qh \in Instruction
        /\ ~TakeStore(grant)
    BY <1>8, TakeFacts, OldestQueued, ProgramFacts DEF ToLoad, TakeStore, TakeLoad
  <2>2. qh.op = "ld" /\ qh.mask # {} /\ \A i \in DOMAIN sq : ~Overlaps(sq[i], qh.word, qh.mask)
    BY <1>8, LoadsPastNoStore DEF ToLoad, TakeLoad, misaligned
  <2>3. ld' \in LoadRecord /\ ld'.tag = qtag /\ ld'.word = qh.word /\ ld'.mask = qh.mask
    BY <1>8, <2>1 DEF Instruction, LoadRecord
  <2>4. PICK t : t = qtag
    OBVIOUS
  <2>5. t \in Staying(br, squash)
    <3>1. t \in Live /\ ~rob[t].done /\ t \in Tag
      BY <2>1, <2>4 DEF Undone, Live
    <3>2. TagAge(t, head) >= commit_count
      BY <3>1, CommitFacts, HeadFacts
    <3> QED BY <2>1, <3>1, <3>2 DEF Staying
  <2>6. /\ Op(t)' = "ld" /\ qh.word = Code(rob[t].pc)'.word /\ qh.mask = Code(rob[t].pc)'.mask
    BY <1>2, <2>1, <2>2, <2>4, <2>5 DEF Op
  <2>7. \A i \in DOMAIN sq' : ~Overlaps(sq'[i], qh.word, qh.mask)
    BY <1>3, <2>1, <2>2 DEF TakesStore
  <2> QED BY <2>2, <2>3, <2>4, <2>6, <2>7 DEF LoadInv
<1> QED BY <1>5, <1>6, <1>7, <1>8, LoadMoves

-----------------------------------------------------------------------------
(* Words and lines.                                                        *)

\* A number is its quotient times the divisor plus its remainder,
LEMMA DivisionExact ==
  ASSUME NEW n \in Nat \ {0}, NEW a \in Int
  PROVE  a \div n \in Int /\ a % n \in 0 .. n - 1 /\ a = (a \div n) * n + (a % n)
OBVIOUS

\* and only its quotient and remainder are that.
LEMMA DivisionUnique ==
  ASSUME NEW n \in Nat \ {0}, NEW q \in Int, NEW r \in 0 .. n - 1
  PROVE  (q * n + r) % n = r /\ (q * n + r) \div n = q
<1> DEFINE a == q * n + r
           p == a \div n
           s == a % n
<1>1. a \in Int /\ p \in Int /\ s \in 0 .. n - 1 /\ a = p * n + s
  BY DivisionExact
<1>2. a = q * n + r
  OBVIOUS
<1> HIDE DEF a, p, s
<1>3. (p - q) * n = r - s
  BY <1>1, <1>2
<1>4. ~(p - q >= 1)
  <2> SUFFICES ASSUME p - q >= 1 PROVE FALSE
    OBVIOUS
  <2>1. (p - q) * n >= n
    BY <1>1
  <2> QED BY <1>1, <1>3, <2>1
<1>5. ~(p - q <= -1)
  <2> SUFFICES ASSUME p - q <= -1 PROVE FALSE
    OBVIOUS
  <2>1. (p - q) * n <= -n
    BY <1>1
  <2> QED BY <1>1, <1>3, <2>1
<1>6. p = q
  BY <1>1, <1>4, <1>5
<1>7. s = r
  BY <1>1, <1>2, <1>6
<1> QED BY <1>6, <1>7 DEF a, p, s

\* A word is its line and its offset in it.
LEMMA WordFacts ==
  ASSUME NEW w \in Word
  PROVE  /\ LineOf(w) \in Int /\ OffsetOf(w) \in Offset
         /\ w = LineOf(w) * LINE_WORDS + OffsetOf(w)
<1>1. LINE_WORDS \in Nat \ {0} /\ w \in Int
  BY DataCacheAssumption DEF Word
<1> QED BY <1>1, DivisionExact DEF LineOf, OffsetOf, Offset

CacheLine == {LineOf(w) : w \in {v \in Word : Cacheable(v)}}

\* The words of a cacheable line are cacheable, and they are its alone.
LEMMA LineFacts ==
  ASSUME NEW g \in CacheLine, NEW o \in Offset
  PROVE  /\ g \in Int /\ g # NoLine
         /\ g * LINE_WORDS + o \in Word /\ Cacheable(g * LINE_WORDS + o)
         /\ \A w \in Word : w = g * LINE_WORDS + o <=> LineOf(w) = g /\ OffsetOf(w) = o
<1>1. PICK v \in Word : Cacheable(v) /\ g = LineOf(v)
  BY DEF CacheLine
<1>2. g \in Int /\ LINE_WORDS \in Nat \ {0} /\ o \in 0 .. LINE_WORDS - 1
  BY <1>1, WordFacts, DataCacheAssumption DEF Offset
<1>3. g * LINE_WORDS + o \in Word /\ Cacheable(g * LINE_WORDS + o)
  BY <1>1, LinesAssumption
<1>4. LineOf(g * LINE_WORDS + o) = g /\ OffsetOf(g * LINE_WORDS + o) = o
  BY <1>2, DivisionUnique DEF LineOf, OffsetOf
<1>5. g # NoLine
  BY <1>1, LoadStoreAssumption
<1> QED BY <1>2, <1>3, <1>4, <1>5, WordFacts

\* Memory stays memory when a store is written to it.
LEMMA WrittenFacts ==
  ASSUME NEW m \in [Word -> Cell], NEW s, s.word \in Word, s.data \in Datum
  PROVE  /\ Written(m, s) \in [Word -> Cell]
         /\ Written(m, s)[s.word] = Merged(m[s.word], s.data)
         /\ \A w \in Word : w # s.word => Written(m, s)[w] = m[w]
<1>1. PICK k \in SUBSET Lane : s.data \in [k -> Nat]
  BY DEF Datum
<1>2. \A c \in Cell : Merged(c, s.data) \in Cell
  BY <1>1 DEF Merged, Cell
<1> QED BY <1>2 DEF Written

-----------------------------------------------------------------------------
(* The data side over a cycle.                                             *)

\* The load as the data side sees it.
LEMMA LoadFacts ==
  ASSUME LoadInv
  PROVE  /\ ld = NoLoad <=> Load = NoLoad
         /\ ld # NoLoad => /\ Load.word = ld.word /\ Load.mask = ld.mask
                           /\ ld.word \in Word /\ ld.mask \in SUBSET Lane
<1>1. CASE ld = NoLoad
  BY <1>1 DEF Load
<1>2. CASE ld # NoLoad
  <2>1. ld.word \in Word /\ ld.mask \in SUBSET Lane
    BY <1>2 DEF LoadInv, LoadRecord
  <2>2. Load = [word |-> ld.word, mask |-> ld.mask]
    BY <1>2 DEF Load
  <2>3. Load \in [word : Word, mask : SUBSET Lane]
    BY <2>1, <2>2
  <2> QED BY <1>2, <2>1, <2>2, <2>3, LoadStoreAssumption
<1> QED BY <1>1, <1>2

\* What a line is good for.
LEMMA TagFacts ==
  ASSUME DSideType, NEW y \in Way, tags[y] # NoLine
  PROVE  tags[y] \in CacheLine
BY DEF DSideType, CacheLine

\* A cycle of the data side when no atomic runs.
LEMMA DSideIdle ==
  ASSUME LoadInv, DSideType, at.state = "idle", DSideCycle
  PROVE  /\ mem' = IF drain_issue THEN Written(mem, Head(sb)) ELSE mem
         /\ dout' = IF start_fill(Load) THEN mem[BeatWord(Load, 0)]
                    ELSE IF fill \in 1 .. LINE_WORDS - 1 THEN mem[BeatWord(Load, fill)]
                    ELSE IF start_uncached_load(Load) THEN mem[Load.word]
                    ELSE dout
         /\ lines' = IF fill_write THEN [lines EXCEPT ![victim] = [@ EXCEPT ![fill - 1] = dout]]
                     ELSE IF drain_issue
                     THEN [y \in Way |-> IF y \in WaysOf(Head(sb).word)
                             THEN [lines[y] EXCEPT ![OffsetOf(Head(sb).word)] = Merged(@, Head(sb).data)]
                             ELSE lines[y]]
                     ELSE lines
         /\ tags' = [y \in Way |-> IF fill = LINE_WORDS /\ y = victim THEN LineOf(Load.word)
                                   ELSE tags[y]]
         /\ sb' = (IF drain_issue THEN Tail(sb) ELSE sb)
               \o (IF sb_full \/ ~commit_store THEN <<>>
                   ELSE <<[word |-> sq[1].word, data |-> sq[1].data]>>)
<1>1. AtomicPort = <<>>
  BY DEF AtomicPort
<1>2. mem' = IF drain_issue THEN Written(mem, Head(sb)) ELSE mem
  <2>1. PortWrites(AtomicPort) = IF drain_issue THEN <<Head(sb)>> ELSE <<>>
    BY <1>1 DEF PortWrites
  <2>2. mem' = IF PortWrites(AtomicPort) = <<>> THEN mem ELSE Written(mem, PortWrites(AtomicPort)[1])
    BY DEF DSideCycle, DSide
  <2>3. CASE drain_issue
    <3>1. PortWrites(AtomicPort) = <<Head(sb)>>
      BY <2>1, <2>3
    <3>2. PortWrites(AtomicPort) # <<>> /\ PortWrites(AtomicPort)[1] = Head(sb)
      BY <3>1
    <3> QED BY <2>2, <2>3, <3>2
  <2>4. CASE ~drain_issue
    BY <2>1, <2>2, <2>4
  <2> QED BY <2>3, <2>4
<1>3. dout' = IF start_fill(Load) THEN mem[BeatWord(Load, 0)]
                    ELSE IF fill \in 1 .. LINE_WORDS - 1 THEN mem[BeatWord(Load, fill)]
                    ELSE IF start_uncached_load(Load) THEN mem[Load.word]
                    ELSE dout
  <2>1. PortReads(Load, AtomicPort) =
          IF start_fill(Load) THEN {BeatWord(Load, 0)}
          ELSE IF fill \in 1 .. LINE_WORDS - 1 THEN {BeatWord(Load, fill)}
          ELSE IF start_uncached_load(Load) THEN {Load.word}
          ELSE {}
    BY <1>1 DEF PortReads
  <2>2. dout' = IF PortReads(Load, AtomicPort) = {} THEN dout
                ELSE mem[CHOOSE w \in PortReads(Load, AtomicPort) : TRUE]
    BY DEF DSideCycle, DSide
  <2>3. \A x : (CHOOSE w \in {x} : TRUE) = x /\ {x} # {}
    OBVIOUS
  <2>4. CASE start_fill(Load)
    BY <2>1, <2>2, <2>3, <2>4
  <2>5. CASE ~start_fill(Load) /\ fill \in 1 .. LINE_WORDS - 1
    BY <2>1, <2>2, <2>3, <2>5
  <2>6. CASE ~start_fill(Load) /\ ~(fill \in 1 .. LINE_WORDS - 1) /\ start_uncached_load(Load)
    BY <2>1, <2>2, <2>3, <2>6
  <2>7. CASE ~start_fill(Load) /\ ~(fill \in 1 .. LINE_WORDS - 1) /\ ~start_uncached_load(Load)
    BY <2>1, <2>2, <2>7
  <2> QED BY <2>4, <2>5, <2>6, <2>7
<1>4. lines' = NextLines(Load, FALSE) /\ tags' = NextTags(Load, AtomicPort, FALSE)
  BY <1>1 DEF DSideCycle, DSide
<1>5. lines' = IF fill_write THEN [lines EXCEPT ![victim] = [@ EXCEPT ![fill - 1] = dout]]
                     ELSE IF drain_issue
                     THEN [y \in Way |-> IF y \in WaysOf(Head(sb).word)
                             THEN [lines[y] EXCEPT ![OffsetOf(Head(sb).word)] = Merged(@, Head(sb).data)]
                             ELSE lines[y]]
                     ELSE lines
  BY <1>4 DEF NextLines
<1>6. tags' = [y \in Way |-> IF fill = LINE_WORDS /\ y = victim THEN LineOf(Load.word)
                                   ELSE tags[y]]
  BY <1>4 DEF NextTags
<1>7. sb' = (IF drain_issue THEN Tail(sb) ELSE sb)
               \o (IF sb_full \/ ~commit_store THEN <<>>
                   ELSE <<[word |-> sq[1].word, data |-> sq[1].data]>>)
  BY DEF DSideCycle, DSide
<1> QED BY <1>2, <1>3, <1>5, <1>6, <1>7

\* A cycle of the data side while an atomic runs.
LEMMA DSideAtomic ==
  ASSUME LoadInv, DSideType, AtomicInv, at.state # "idle", ~commit_store, DSideCycle
  PROVE  /\ mem' = IF atomic_write_intent
                   THEN Written(mem, [word |-> atCode.word, data |-> ISA!StoreOf(rob[at.tag].pc).data])
                   ELSE mem
         /\ dout' = IF at.state = "read" THEN mem[atCode.word] ELSE dout
         /\ lines' = lines
         /\ tags' = [y \in Way |-> IF /\ atomic_write_intent /\ Cacheable(atCode.word)
                                      /\ y \in WaysOf(atCode.word)
                                   THEN NoLine ELSE tags[y]]
         /\ sb' = <<>> /\ victim' = victim /\ fill' = 0 /\ uncached_wait' = FALSE
<1>1. /\ AtomicPort = [reads |-> at.state = "read", writes |-> atomic_write_intent,
                       word |-> atCode.word, data |-> ISA!StoreOf(rob[at.tag].pc).data]
      /\ AtomicPort.reads = (at.state = "read") /\ AtomicPort.writes = atomic_write_intent
      /\ AtomicPort.word = atCode.word /\ AtomicPort.data = ISA!StoreOf(rob[at.tag].pc).data
  BY DEF AtomicPort
<1>2. AtomicPort # <<>>
  <2>1. "word" \in DOMAIN AtomicPort
    BY <1>1
  <2>2. DOMAIN << >> = {}
    OBVIOUS
  <2> QED BY <2>1, <2>2
<1>3. sb = <<>> /\ fill = 0 /\ uncached_wait = FALSE /\ ~busy /\ Load = NoLoad /\ ~drain_issue
      /\ ~fill_write
  BY LoadFacts DEF AtomicInv, busy, DSideType, drain_issue, sb_empty, fill_write
<1>4. ~start_fill(Load) /\ ~start_uncached_load(Load)
  BY <1>3 DEF start_fill, start_uncached_load, cached_load_miss, uncached_load, Cached
<1>5. LINE_WORDS # 0
  BY DataCacheAssumption
<1>6. mem' = IF atomic_write_intent
             THEN Written(mem, [word |-> atCode.word, data |-> ISA!StoreOf(rob[at.tag].pc).data])
             ELSE mem
  <2>1. PortWrites(AtomicPort) =
          IF atomic_write_intent
          THEN <<[word |-> atCode.word, data |-> ISA!StoreOf(rob[at.tag].pc).data]>> ELSE <<>>
    BY <1>1, <1>2 DEF PortWrites
  <2>2. mem' = IF PortWrites(AtomicPort) = <<>> THEN mem ELSE Written(mem, PortWrites(AtomicPort)[1])
    BY DEF DSideCycle, DSide
  <2>3. CASE atomic_write_intent
    <3>1. PICK e : e = [word |-> atCode.word, data |-> ISA!StoreOf(rob[at.tag].pc).data]
      OBVIOUS
    <3>2. PortWrites(AtomicPort) = <<e>>
      BY <2>1, <2>3, <3>1
    <3>3. PortWrites(AtomicPort) # <<>> /\ PortWrites(AtomicPort)[1] = e
      BY <3>2
    <3> QED BY <2>2, <2>3, <3>1, <3>3
  <2>4. CASE ~atomic_write_intent
    BY <2>1, <2>2, <2>4
  <2> QED BY <2>3, <2>4
<1>7. dout' = IF at.state = "read" THEN mem[atCode.word] ELSE dout
  <2>1. PortReads(Load, AtomicPort) = IF at.state = "read" THEN {atCode.word} ELSE {}
    BY <1>1, <1>2 DEF PortReads
  <2>2. dout' = IF PortReads(Load, AtomicPort) = {} THEN dout
                ELSE mem[CHOOSE w \in PortReads(Load, AtomicPort) : TRUE]
    BY DEF DSideCycle, DSide
  <2>3. \A x : (CHOOSE w \in {x} : TRUE) = x /\ {x} # {}
    OBVIOUS
  <2> QED BY <2>1, <2>2, <2>3
<1>8. lines' = lines
  BY <1>3 DEF DSideCycle, DSide, NextLines
<1>9. tags' = [y \in Way |-> IF /\ atomic_write_intent /\ Cacheable(atCode.word)
                                      /\ y \in WaysOf(atCode.word)
                                   THEN NoLine ELSE tags[y]]
  <2>1. tags' = NextTags(Load, AtomicPort, AtomicPort # <<>> /\ AtomicPort.writes /\ Cacheable(AtomicPort.word))
    BY DEF DSideCycle, DSide
  <2> QED BY <1>1, <1>2, <1>3, <1>5, <2>1 DEF NextTags
<1>10. sb' = <<>>
  <2>1. sb' = <<>> \o <<>>
    BY <1>3 DEF DSideCycle, DSide
  <2> QED BY <2>1
<1>11. victim' = victim /\ fill' = 0 /\ uncached_wait' = FALSE
  BY <1>3, <1>4, <1>5 DEF DSideCycle, DSide
<1> QED BY <1>6, <1>7, <1>8, <1>9, <1>10, <1>11

\* What the unit does to the data side's load in a step: a load it cannot
\* finish stays, and a store enters only where there is room.
LoadStays ==
  ld # NoLoad /\ ~load_done => ld' # NoLoad /\ ld'.word = ld.word /\ ld'.mask = ld.mask

StoreEnters ==
  /\ commit_store => sq[1].word \in Word /\ sq[1].data \in Datum /\ ~sb_full
  /\ at.state # "idle" => ~commit_store

\* A data side that is busy, or starts to be, holds its load.
LEMMA StalledLoad ==
  ASSUME LoadInv, LoadStays, ld # NoLoad,
         fill # 0 \/ start_fill(Load) \/ start_uncached_load(Load)
  PROVE  /\ ld' # NoLoad /\ ld'.word = ld.word /\ Load'.word = Load.word /\ Load'.word = ld.word
         /\ LineOf(ld'.word) = LineOf(ld.word)
<1>1. ~load_done
  BY DEF load_done, stall, fill_write
<1>2. ld' # NoLoad /\ ld'.word = ld.word
  BY <1>1 DEF LoadStays
<1>3. Load' = [word |-> ld'.word, mask |-> ld'.mask]
  BY <1>2 DEF Load
<1> QED BY <1>2, <1>3, LoadFacts

\* The refill and the uncached read over a cycle.
LEMMA FillFacts ==
  ASSUME LoadInv, DSideType, PortInv, AtomicInv, DSideCycle
  PROVE  /\ LINE_WORDS \in Nat \ {0} /\ fill \in 0 .. LINE_WORDS
         /\ start_fill(Load) => /\ fill = 0 /\ ~drain_issue /\ ld # NoLoad
                                /\ Cacheable(ld.word) /\ ~start_uncached_load(Load)
         /\ start_uncached_load(Load) => /\ fill = 0 /\ ~drain_issue /\ ld # NoLoad
                                         /\ ~Cacheable(ld.word)
         /\ fill # 0 => ~drain_issue /\ ~start_fill(Load) /\ ~start_uncached_load(Load) /\ victim' = victim
         /\ ~start_fill(Load) => victim' = victim
         /\ fill' = IF fill = LINE_WORDS THEN 0
                    ELSE IF fill # 0 \/ start_fill(Load) THEN fill + 1 ELSE 0
         /\ fill' \in 0 .. LINE_WORDS
         /\ uncached_wait' = start_uncached_load(Load) /\ uncached_wait' \in BOOLEAN
         /\ victim' \in Way
<1>1. LINE_WORDS \in Nat \ {0} /\ LINES \in Nat \ {0} /\ fill \in 0 .. LINE_WORDS
  BY DataCacheAssumption DEF DSideType
<1>2. start_fill(Load) => /\ fill = 0 /\ ~drain_issue /\ ld # NoLoad
                                /\ Cacheable(ld.word) /\ ~start_uncached_load(Load)
  BY LoadFacts DEF start_fill, cached_load_miss, Cached, busy, drain_issue, start_uncached_load, uncached_load
<1>3. start_uncached_load(Load) => /\ fill = 0 /\ ~drain_issue /\ ld # NoLoad /\ ~Cacheable(ld.word)
  BY LoadFacts DEF start_uncached_load, uncached_load, busy, drain_issue
<1>4. fill # 0 => ~drain_issue /\ ~start_fill(Load) /\ ~start_uncached_load(Load)
  BY <1>2, <1>3 DEF busy, drain_issue
<1>5. ~start_fill(Load) => victim' = victim
  BY DEF DSideCycle, DSide
<1>6. /\ fill' = IF fill = LINE_WORDS THEN 0
                 ELSE IF fill # 0 \/ start_fill(Load) THEN fill + 1 ELSE 0
      /\ uncached_wait' = start_uncached_load(Load)
  BY DEF DSideCycle, DSide
<1>7. uncached_wait' \in BOOLEAN
  BY <1>6 DEF start_uncached_load, uncached_load
<1>8. victim' \in Way
  <2>1. Victims \subseteq Way
    <3> DEFINE invalid == {y \in Way : tags[y] = NoLine}
    <3>1. CASE invalid = {}
      BY <3>1 DEF Victims
    <3>2. CASE invalid # {}
      <4>1. Victims = {CHOOSE y \in invalid : \A z \in invalid : y <= z}
        BY <3>2 DEF Victims
      <4>2. invalid \in SUBSET Nat
        BY <1>1 DEF Way
      <4>3. \E y \in invalid : \A z \in invalid : y <= z
        <5> HIDE DEF invalid
        <5> QED BY <3>2, <4>2, SetHasMin
      <4>4. (CHOOSE y \in invalid : \A z \in invalid : y <= z) \in invalid
        <5> HIDE DEF invalid
        <5> QED BY <4>3
      <4> QED BY <4>1, <4>4
    <3> QED BY <3>1, <3>2
  <2>2. victim' \in Victims \/ victim' = victim
    BY DEF DSideCycle, DSide
  <2> QED BY <2>1, <2>2 DEF DSideType
<1>9. fill' \in 0 .. LINE_WORDS
  BY <1>1, <1>6
<1> QED BY <1>1, <1>2, <1>3, <1>4, <1>5, <1>6, <1>7, <1>8, <1>9

\* The data side's values keep their types.
LEMMA StepDSideType ==
  ASSUME LoadInv, DSideType, PortInv, AtomicInv, RingInv, OrderInv, StoreEnters, DSideCycle
  PROVE  DSideType'
<1>1. /\ mem \in [Word -> Cell] /\ dout \in Cell /\ lines \in [Way -> [Offset -> Cell]]
      /\ sb \in Seq([word : Word, data : Datum]) /\ Len(sb) \in Nat /\ Len(sb) <= STOREBUF_DEPTH
      /\ tags \in [Way -> CacheLine \cup {NoLine}] /\ victim \in Way /\ fill \in 0 .. LINE_WORDS
      /\ STOREBUF_DEPTH \in Nat \ {0} /\ LINE_WORDS \in Nat \ {0}
  BY DataCacheAssumption DEF DSideType, CacheLine
<1>2. fill' \in 0 .. LINE_WORDS /\ uncached_wait' \in BOOLEAN /\ victim' \in Way
  BY FillFacts
<1>3. CASE at.state = "idle"
  <2>1. drain_issue => /\ Head(sb) \in [word : Word, data : Datum] /\ Tail(sb) \in Seq([word : Word, data : Datum])
                       /\ Len(Tail(sb)) = Len(sb) - 1 /\ Len(sb) > 0
                       /\ Head(sb).word \in Word /\ Head(sb).data \in Datum
    <3> SUFFICES ASSUME sb # <<>>
                 PROVE  /\ Head(sb) \in [word : Word, data : Datum] /\ Tail(sb) \in Seq([word : Word, data : Datum])
                        /\ Len(Tail(sb)) = Len(sb) - 1 /\ Len(sb) > 0
                        /\ Head(sb).word \in Word /\ Head(sb).data \in Datum
      BY DEF drain_issue, sb_empty
    <3>1. Head(sb) \in [word : Word, data : Datum] /\ Tail(sb) \in Seq([word : Word, data : Datum])
      BY <1>1, HeadTailProperties
    <3>2. Len(Tail(sb)) = Len(sb) - 1
      BY <1>1, HeadTailProperties
    <3>3. Len(sb) > 0
      BY <1>1
    <3> QED BY <3>1, <3>2, <3>3
  <2>2. mem' \in [Word -> Cell]
    <3>1. mem' = IF drain_issue THEN Written(mem, Head(sb)) ELSE mem
      BY <1>3, DSideIdle
    <3>2. PICK s : s = Head(sb)
      OBVIOUS
    <3>3. drain_issue => s.word \in Word /\ s.data \in Datum
      BY ONLY <2>1, <3>2
    <3>4. drain_issue => Written(mem, s) \in [Word -> Cell]
      BY ONLY <1>1, <3>3, WrittenFacts
    <3> QED BY ONLY <1>1, <3>1, <3>2, <3>4
  <2>3. dout' \in Cell
    <3>1. start_fill(Load) => BeatWord(Load, 0) \in Word
      <4> SUFFICES ASSUME start_fill(Load) PROVE BeatWord(Load, 0) \in Word
        OBVIOUS
      <4>1. ld # NoLoad /\ ld.word \in Word /\ Cacheable(ld.word) /\ Load.word = ld.word
        BY FillFacts, LoadFacts
      <4>2. 0 \in Offset
        BY <1>1 DEF Offset
      <4> QED BY <4>1, <4>2, LinesAssumption DEF BeatWord
    <3>2. fill \in 1 .. LINE_WORDS - 1 => BeatWord(Load, fill) \in Word
      <4> SUFFICES ASSUME fill \in 1 .. LINE_WORDS - 1 PROVE BeatWord(Load, fill) \in Word
        OBVIOUS
      <4>1. ld # NoLoad /\ ld.word \in Word /\ Cacheable(ld.word) /\ Load.word = ld.word
        BY <1>1, LoadFacts DEF PortInv
      <4>2. fill \in Offset
        BY <1>1 DEF Offset
      <4> QED BY <4>1, <4>2, LinesAssumption DEF BeatWord
    <3>3. start_uncached_load(Load) => Load.word \in Word
      BY FillFacts, LoadFacts
    <3>4. dout' \in {mem[w] : w \in Word} \cup {dout}
      BY <1>3, <3>1, <3>2, <3>3, DSideIdle
    <3> QED BY <1>1, <3>4
  <2>4. lines' \in [Way -> [Offset -> Cell]]
    <3>1. CASE fill_write
      <4>1. lines' = [lines EXCEPT ![victim] = [@ EXCEPT ![fill - 1] = dout]]
        BY <1>3, <3>1, DSideIdle
      <4>2. [lines[victim] EXCEPT ![fill - 1] = dout] \in [Offset -> Cell]
        BY <1>1
      <4> QED BY <1>1, <4>1, <4>2
    <3>2. CASE ~fill_write /\ drain_issue
      <4>1. lines' = [y \in Way |-> IF y \in WaysOf(Head(sb).word)
                             THEN [lines[y] EXCEPT ![OffsetOf(Head(sb).word)] = Merged(@, Head(sb).data)]
                             ELSE lines[y]]
        BY <1>3, <3>2, DSideIdle
      <4>2. OffsetOf(Head(sb).word) \in Offset
        BY <2>1, <3>2, WordFacts
      <4>3. PICK k \in SUBSET Lane : Head(sb).data \in [k -> Nat]
        BY <2>1, <3>2 DEF Datum
      <4>4. \A c \in Cell : Merged(c, Head(sb).data) \in Cell
        BY <4>3 DEF Merged, Cell
      <4>5. ASSUME NEW y \in Way
            PROVE  [lines[y] EXCEPT ![OffsetOf(Head(sb).word)] = Merged(@, Head(sb).data)] \in [Offset -> Cell]
        <5>1. lines[y] \in [Offset -> Cell] /\ lines[y][OffsetOf(Head(sb).word)] \in Cell
          BY <1>1, <4>2
        <5> QED BY <4>2, <4>4, <5>1
      <4> QED BY <1>1, <4>1, <4>5
    <3>3. CASE ~fill_write /\ ~drain_issue
      BY <1>1, <1>3, <3>3, DSideIdle
    <3> QED BY <3>1, <3>2, <3>3
  <2>5. tags' \in [Way -> CacheLine \cup {NoLine}]
    <3>1. tags' = [y \in Way |-> IF fill = LINE_WORDS /\ y = victim THEN LineOf(Load.word) ELSE tags[y]]
      BY <1>3, DSideIdle
    <3>2. fill = LINE_WORDS => LineOf(Load.word) \in CacheLine
      BY <1>1, LoadFacts DEF PortInv, CacheLine
    <3> QED BY <1>1, <3>1, <3>2
  <2>6. sb' \in Seq([word : Word, data : Datum]) /\ Len(sb') <= STOREBUF_DEPTH
    <3>1. PICK a : a = IF drain_issue THEN Tail(sb) ELSE sb
      OBVIOUS
    <3>2. PICK b : b = IF sb_full \/ ~commit_store THEN <<>> ELSE <<[word |-> sq[1].word, data |-> sq[1].data]>>
      OBVIOUS
    <3>3. sb' = a \o b
      BY <1>3, <3>1, <3>2, DSideIdle
    <3>4. a \in Seq([word : Word, data : Datum]) /\ Len(a) <= Len(sb)
      BY <1>1, <2>1, <3>1
    <3>5. b \in Seq([word : Word, data : Datum]) /\ Len(b) <= 1 /\ (sb_full => Len(b) = 0)
      <4>1. CASE sb_full \/ ~commit_store
        BY <3>2, <4>1
      <4>2. CASE ~sb_full /\ commit_store
        <5>1. [word |-> sq[1].word, data |-> sq[1].data] \in [word : Word, data : Datum]
          BY <4>2 DEF StoreEnters
        <5> QED BY <3>2, <4>2, <5>1
      <4> QED BY <4>1, <4>2
    <3>6. Len(a \o b) = Len(a) + Len(b) /\ a \o b \in Seq([word : Word, data : Datum])
      BY <3>4, <3>5
    <3>7. Len(a) \in Nat /\ Len(b) \in Nat
      BY <3>4, <3>5
    <3>8. CASE sb_full
      BY <1>1, <3>3, <3>4, <3>5, <3>6, <3>7, <3>8
    <3>9. CASE ~sb_full
      <4>1. Len(sb) < STOREBUF_DEPTH
        BY <1>1, <3>9 DEF sb_full
      <4> QED BY <1>1, <3>3, <3>4, <3>5, <3>6, <3>7, <4>1
    <3> QED BY <3>8, <3>9
  <2> QED BY <1>2, <2>2, <2>3, <2>4, <2>5, <2>6 DEF DSideType, CacheLine
<1>4. CASE at.state # "idle"
  <2>1. head \in Live /\ at.tag = head
    BY <1>4, HeadFacts DEF AtomicInv
  <2>2. rob[head].pc \in PC
    BY <2>1 DEF RingInv
  <2>3. atCode.word \in Word /\ atCode.mask \in SUBSET Lane /\ rob[at.tag].pc \in Nat
    BY <2>1, <2>2, ProgramFacts DEF atCode, Instruction
  <2>4. PICK d : d = ISA!StoreOf(rob[at.tag].pc).data
    OBVIOUS
  <2>5. d \in Datum
    <3>1. d = [l \in atCode.mask |-> rob[at.tag].pc]
      BY <2>4 DEF ISA!StoreOf, ISA!Code, atCode, Code
    <3> QED BY <2>3, <3>1 DEF Datum
  <2>6. mem' \in [Word -> Cell]
    <3>1. mem' = IF atomic_write_intent THEN Written(mem, [word |-> atCode.word, data |-> d]) ELSE mem
      BY <1>4, <2>4, DSideAtomic DEF StoreEnters
    <3>2. PICK s : s = [word |-> atCode.word, data |-> d]
      OBVIOUS
    <3>3. s.word \in Word /\ s.data \in Datum
      BY <2>3, <2>5, <3>2
    <3>4. Written(mem, s) \in [Word -> Cell]
      BY <1>1, <3>3, WrittenFacts
    <3> QED BY <1>1, <3>1, <3>2, <3>4
  <2>7. dout' \in Cell
    <3>1. dout' = IF at.state = "read" THEN mem[atCode.word] ELSE dout
      BY <1>4, DSideAtomic DEF StoreEnters
    <3> QED BY ONLY <1>1, <2>3, <3>1
  <2>8. lines' = lines /\ sb' = <<>>
    BY <1>4, DSideAtomic DEF StoreEnters
  <2>9. tags' \in [Way -> CacheLine \cup {NoLine}]
    BY <1>1, <1>4, DSideAtomic DEF StoreEnters
  <2> QED BY <1>1, <1>2, <2>6, <2>7, <2>8, <2>9 DEF DSideType, CacheLine
<1> QED BY <1>3, <1>4

\* The port keeps reading what its load wants.
LEMMA StepPort ==
  ASSUME LoadInv, DSideType, PortInv, AtomicInv, LoadStays, StoreEnters, DSideCycle
  PROVE  PortInv'
<1>1. CASE at.state = "idle"
  <2>1. mem' = IF drain_issue THEN Written(mem, Head(sb)) ELSE mem
    BY <1>1, DSideIdle
  <2>2. CASE start_fill(Load)
    <3>1. /\ fill = 0 /\ fill' = 1 /\ ~uncached_wait' /\ mem' = mem /\ dout' = mem[BeatWord(Load, 0)]
          /\ ld # NoLoad /\ Cacheable(ld.word)
      BY <1>1, <2>1, <2>2, FillFacts, DSideIdle
    <3>2. ld' # NoLoad /\ ld'.word = ld.word /\ Load'.word = Load.word
      BY <2>2, <3>1, StalledLoad
    <3>3. BeatWord(Load, fill - 1)' = BeatWord(Load, 0)
      BY <3>1, <3>2 DEF BeatWord
    <3> QED BY <3>1, <3>2, <3>3 DEF PortInv
  <2>3. CASE fill \in 1 .. LINE_WORDS - 1
    <3>1. /\ fill # 0 /\ fill' = fill + 1 /\ fill' - 1 = fill /\ ~uncached_wait' /\ mem' = mem
      BY <2>1, <2>3, FillFacts
    <3>2. dout' = mem[BeatWord(Load, fill)]
      BY <1>1, <2>3, <3>1, FillFacts, DSideIdle
    <3>3. ld # NoLoad /\ Cacheable(ld.word)
      BY <3>1 DEF PortInv
    <3>4. ld' # NoLoad /\ ld'.word = ld.word /\ Load'.word = Load.word
      BY <3>1, <3>3, StalledLoad
    <3>5. BeatWord(Load, fill - 1)' = BeatWord(Load, fill)
      BY <3>1, <3>4 DEF BeatWord
    <3> QED BY <3>1, <3>2, <3>3, <3>4, <3>5 DEF PortInv
  <2>4. CASE start_uncached_load(Load)
    <3>1. /\ fill = 0 /\ ~start_fill(Load) /\ fill' = 0 /\ uncached_wait' /\ mem' = mem
          /\ ld # NoLoad /\ ~Cacheable(ld.word)
      BY <2>1, <2>4, FillFacts
    <3>2. dout' = mem[Load.word] /\ Load.word = ld.word
      BY <1>1, <2>4, <3>1, DSideIdle, LoadFacts
    <3>3. ld' # NoLoad /\ ld'.word = ld.word
      BY <2>4, <3>1, StalledLoad
    <3> QED BY <3>1, <3>2, <3>3 DEF PortInv
  <2>5. CASE ~start_fill(Load) /\ ~(fill \in 1 .. LINE_WORDS - 1) /\ ~start_uncached_load(Load)
    <3>1. fill' = 0 /\ ~uncached_wait'
      BY <2>5, FillFacts
    <3> QED BY <3>1 DEF PortInv
  <2> QED BY <2>2, <2>3, <2>4, <2>5
<1>2. CASE at.state # "idle"
  <2>1. fill' = 0 /\ uncached_wait' = FALSE
    BY <1>2, DSideAtomic DEF StoreEnters
  <2> QED BY <2>1 DEF PortInv
<1> QED BY <1>1, <1>2

\* A refill's copies stay current.
LEMMA StepRefill ==
  ASSUME LoadInv, DSideType, PortInv, AtomicInv, CacheCoherent, LoadStays, StoreEnters, DSideCycle
  PROVE  RefillExact'
<1> SUFFICES ASSUME NEW o \in Offset, o + 1 < fill'
             PROVE  ld' # NoLoad /\ lines'[victim'][o] = mem'[BeatWord(Load, o)']
  BY DEF RefillExact, Offset
<1>1. o \in Nat
  BY DataCacheAssumption DEF Offset
<1>2. CASE at.state = "idle"
  <2>1. fill \in 1 .. LINE_WORDS - 1 /\ fill' = fill + 1 /\ fill \in Nat
    BY <1>1, FillFacts
  <2>2. ~drain_issue /\ victim' = victim /\ mem' = mem /\ fill_write
    BY <1>2, <2>1, FillFacts, DSideIdle DEF fill_write
  <2>3. ld # NoLoad /\ dout = mem[BeatWord(Load, fill - 1)]
    BY <2>1 DEF PortInv
  <2>4. ld' # NoLoad /\ Load'.word = Load.word
    BY <2>1, <2>3, StalledLoad
  <2>5. BeatWord(Load, o)' = BeatWord(Load, o)
    BY <2>4 DEF BeatWord
  <2>6. lines' = [lines EXCEPT ![victim] = [@ EXCEPT ![fill - 1] = dout]]
    BY <1>2, <2>2, DSideIdle
  <2>7. lines \in [Way -> [Offset -> Cell]] /\ victim \in Way /\ fill - 1 \in Offset
    BY <2>1, DataCacheAssumption DEF DSideType, Offset
  <2>8. lines'[victim] = [lines[victim] EXCEPT ![fill - 1] = dout] /\ lines[victim] \in [Offset -> Cell]
    BY <2>6, <2>7
  <2>9. CASE o = fill - 1
    BY <2>2, <2>3, <2>4, <2>5, <2>7, <2>8, <2>9
  <2>10. CASE o # fill - 1
    <3>1. o + 1 < fill
      BY <1>1, <2>1, <2>10
    <3>2. lines[victim][o] = mem[BeatWord(Load, o)]
      BY <3>1 DEF CacheCoherent, RefillExact
    <3>3. lines'[victim][o] = lines[victim][o]
      BY <2>7, <2>8, <2>10
    <3> QED BY <2>2, <2>4, <2>5, <3>2, <3>3
  <2> QED BY <2>9, <2>10
<1>3. CASE at.state # "idle"
  <2>1. fill' = 0
    BY <1>3, DSideAtomic DEF StoreEnters
  <2> QED BY <1>1, <2>1
<1> QED BY <1>2, <1>3

\* The lines the cache answers from.
LinesExact ==
  \A y \in Way : tags[y] # NoLine /\ ~(fill > 1 /\ y = victim) =>
    \A o \in Offset : lines[y][o] = mem[tags[y] * LINE_WORDS + o]

LEMMA StepLines ==
  ASSUME RingInv, LoadInv, DSideType, PortInv, AtomicInv, CacheCoherent,
         LoadStays, StoreEnters, DSideCycle
  PROVE  LinesExact'
<1> SUFFICES ASSUME NEW y \in Way, tags'[y] # NoLine, ~(fill' > 1 /\ y = victim'), NEW o \in Offset
             PROVE  lines'[y][o] = mem'[tags'[y] * LINE_WORDS + o]
  BY DEF LinesExact, Way, Offset
<1>1. /\ o \in 0 .. LINE_WORDS - 1 /\ LINE_WORDS \in Nat \ {0} /\ fill \in 0 .. LINE_WORDS
      /\ lines \in [Way -> [Offset -> Cell]] /\ victim \in Way /\ mem \in [Word -> Cell]
      /\ lines[y] \in [Offset -> Cell]
  BY DataCacheAssumption DEF Offset, DSideType
<1>2. ASSUME tags[y] # NoLine, ~(fill > 1 /\ y = victim)
      PROVE  lines[y][o] = mem[tags[y] * LINE_WORDS + o]
  BY <1>2 DEF CacheCoherent
<1>3. ASSUME NEW s, s.word \in Word, s.data \in Datum, tags[y] # NoLine, y \notin WaysOf(s.word)
      PROVE  Written(mem, s)[tags[y] * LINE_WORDS + o] = mem[tags[y] * LINE_WORDS + o]
  <2>1. tags[y] \in CacheLine
    BY <1>3, TagFacts
  <2>2. /\ tags[y] * LINE_WORDS + o \in Word /\ Cacheable(tags[y] * LINE_WORDS + o)
        /\ LineOf(tags[y] * LINE_WORDS + o) = tags[y]
    BY <2>1, LineFacts
  <2>3. tags[y] * LINE_WORDS + o # s.word
    BY <1>3, <2>2 DEF WaysOf
  <2> QED BY <1>1, <1>3, <2>2, <2>3, WrittenFacts
<1>4. CASE at.state # "idle"
  <2>1. head \in Live /\ at.tag = head
    BY <1>4, HeadFacts DEF AtomicInv
  <2>2. rob[head].pc \in PC
    BY <2>1 DEF RingInv
  <2>3. atCode.word \in Word /\ atCode.mask \in SUBSET Lane /\ rob[at.tag].pc \in Nat
    BY <2>1, <2>2, ProgramFacts DEF atCode, Instruction
  <2>4. PICK s : s = [word |-> atCode.word, data |-> ISA!StoreOf(rob[at.tag].pc).data]
    OBVIOUS
  <2>5. s.word = atCode.word /\ s.data = [l \in atCode.mask |-> rob[at.tag].pc]
    BY <2>4 DEF ISA!StoreOf, ISA!Code, atCode, Code
  <2>6. s.data \in Datum
    BY <2>3, <2>5 DEF Datum
  <2>7. /\ mem' = IF atomic_write_intent THEN Written(mem, s) ELSE mem
        /\ lines' = lines
        /\ tags'[y] = IF atomic_write_intent /\ Cacheable(atCode.word) /\ y \in WaysOf(atCode.word)
                      THEN NoLine ELSE tags[y]
    BY <1>4, <2>4, DSideAtomic DEF StoreEnters
  <2>8. tags'[y] = tags[y] /\ (atomic_write_intent => y \notin WaysOf(atCode.word))
    BY <2>7 DEF WaysOf
  <2>9. fill = 0
    BY <1>4 DEF AtomicInv, busy
  <2>10. lines[y][o] = mem[tags[y] * LINE_WORDS + o]
    BY <1>2, <2>8, <2>9
  <2>11. CASE atomic_write_intent
    BY <1>3, <2>3, <2>5, <2>6, <2>7, <2>8, <2>10, <2>11
  <2>12. CASE ~atomic_write_intent
    BY <2>7, <2>8, <2>10, <2>12
  <2> QED BY <2>11, <2>12
<1>5. CASE at.state = "idle" /\ fill # 0
  <2>1. ~drain_issue /\ victim' = victim /\ mem' = mem /\ fill_write
    BY <1>5, FillFacts, DSideIdle DEF fill_write
  <2>2. /\ lines' = [lines EXCEPT ![victim] = [@ EXCEPT ![fill - 1] = dout]]
        /\ tags'[y] = IF fill = LINE_WORDS /\ y = victim THEN LineOf(Load.word) ELSE tags[y]
    BY <1>5, <2>1, DSideIdle
  <2>3. CASE y # victim
    <3>1. lines'[y] = lines[y] /\ tags'[y] = tags[y]
      BY <1>1, <2>2, <2>3
    <3> QED BY <1>2, <2>1, <2>3, <3>1
  <2>4. CASE y = victim
    <3>1. fill = LINE_WORDS
      BY <1>1, <1>5, <2>1, <2>4, FillFacts
    <3>2. tags'[y] = LineOf(Load.word) /\ ld # NoLoad
      BY <1>5, <2>2, <2>4, <3>1 DEF PortInv
    <3>3. lines'[y] = [lines[y] EXCEPT ![fill - 1] = dout]
      BY <1>1, <2>2, <2>4
    <3>4. tags'[y] * LINE_WORDS + o = BeatWord(Load, o)
      BY <3>2 DEF BeatWord
    <3>5. CASE o = fill - 1
      <4>1. dout = mem[BeatWord(Load, o)]
        BY <1>5, <3>5 DEF PortInv
      <4> QED BY <1>1, <2>1, <3>3, <3>4, <3>5, <4>1
    <3>6. CASE o # fill - 1
      <4>1. o + 1 < fill
        BY <1>1, <3>1, <3>6
      <4>2. lines[victim][o] = mem[BeatWord(Load, o)]
        BY <4>1 DEF CacheCoherent, RefillExact
      <4>3. lines'[y][o] = lines[y][o]
        BY <1>1, <3>3, <3>6
      <4> QED BY <2>1, <2>4, <3>4, <4>2, <4>3
    <3> QED BY <3>5, <3>6
  <2> QED BY <2>3, <2>4
<1>6. CASE at.state = "idle" /\ fill = 0
  <2>1. tags'[y] = tags[y] /\ ~fill_write
    BY <1>1, <1>6, DSideIdle DEF fill_write
  <2>2. lines[y][o] = mem[tags[y] * LINE_WORDS + o]
    BY <1>2, <1>6, <2>1
  <2>3. CASE ~drain_issue
    BY <1>6, <2>1, <2>2, <2>3, DSideIdle
  <2>4. CASE drain_issue
    <3>1. PICK s : s = Head(sb)
      OBVIOUS
    <3>2. s.word \in Word /\ s.data \in Datum
      <4>1. sb \in Seq([word : Word, data : Datum]) /\ sb # <<>>
        BY <2>4 DEF DSideType, drain_issue, sb_empty
      <4>2. s \in [word : Word, data : Datum]
        BY <3>1, <4>1, HeadTailProperties
      <4> QED BY <4>2
    <3>3. /\ mem' = Written(mem, s)
          /\ lines' = [z \in Way |-> IF z \in WaysOf(s.word)
                             THEN [lines[z] EXCEPT ![OffsetOf(s.word)] = Merged(@, s.data)]
                             ELSE lines[z]]
      BY <1>6, <2>1, <2>4, <3>1, DSideIdle
    <3>4. CASE y \notin WaysOf(s.word)
      <4>1. lines'[y] = lines[y]
        BY <3>3, <3>4
      <4> QED BY <1>3, <2>1, <2>2, <3>2, <3>3, <3>4, <4>1
    <3>5. CASE y \in WaysOf(s.word)
      <4>1. tags[y] = LineOf(s.word) /\ Cacheable(s.word)
        BY <3>5 DEF WaysOf
      <4>2. lines'[y] = [lines[y] EXCEPT ![OffsetOf(s.word)] = Merged(@, s.data)]
        BY <3>3, <3>5
      <4>3. tags[y] \in CacheLine
        BY <2>1, TagFacts
      <4>4. /\ tags[y] * LINE_WORDS + o \in Word
            /\ s.word = tags[y] * LINE_WORDS + o <=> OffsetOf(s.word) = o
        BY <3>2, <4>1, <4>3, LineFacts
      <4>5. CASE OffsetOf(s.word) = o
        <5>1. s.word = tags[y] * LINE_WORDS + o
          BY <4>4, <4>5
        <5>2. mem'[s.word] = Merged(mem[s.word], s.data)
          BY <1>1, <3>2, <3>3, WrittenFacts
        <5>3. lines'[y][o] = Merged(lines[y][o], s.data)
          BY <1>1, <4>2, <4>5
        <5> QED BY <2>1, <2>2, <5>1, <5>2, <5>3
      <4>6. CASE OffsetOf(s.word) # o
        <5>1. lines'[y][o] = lines[y][o]
          BY <1>1, <4>2, <4>6
        <5>2. mem'[tags[y] * LINE_WORDS + o] = mem[tags[y] * LINE_WORDS + o]
          BY <1>1, <3>2, <3>3, <4>4, <4>6, WrittenFacts
        <5> QED BY <2>1, <2>2, <5>1, <5>2
      <4> QED BY <4>5, <4>6
    <3> QED BY <3>4, <3>5
  <2> QED BY <2>3, <2>4
<1> QED BY <1>4, <1>5, <1>6

-----------------------------------------------------------------------------
(* The data side and the atomic sequence over a cycle of the unit.         *)

\* The unit keeps its side of the bargain with the data side.
LEMMA CycleBargain ==
  ASSUME RingInv, OrderInv, PlaceInv, QueueInv, LoadInv, AtomicInv,
         NEW n \in 0 .. 2, NEW ready \in BOOLEAN, NEW grant \in BOOLEAN,
         NEW br \in Tag \cup {NoTag}, NEW squash \in BOOLEAN,
         Cycle(n, ready, grant, br, squash)
  PROVE  LoadStays /\ StoreEnters
<1>1. LoadStays
  <2> SUFFICES ASSUME ld # NoLoad, ~load_done
               PROVE  ld' # NoLoad /\ ld'.word = ld.word /\ ld'.mask = ld.mask
    BY DEF LoadStays
  <2>1. ld \in LoadRecord
    BY DEF LoadInv
  <2>2. ld' = ld \/ ld' = [ld EXCEPT !.squashed = TRUE]
    <3>1. CASE head_take(ready, grant, squash)
      BY <3>1, TakeStep
    <3>2. CASE ~head_take(ready, grant, squash)
      <4>1. ~load_claims_out(grant)
        BY DEF load_claims_out
      <4> QED BY <3>2, <4>1, NoTakeStep
    <3> QED BY <3>1, <3>2
  <2>3. [ld EXCEPT !.squashed = TRUE] \in LoadRecord /\ [ld EXCEPT !.squashed = TRUE].word = ld.word
        /\ [ld EXCEPT !.squashed = TRUE].mask = ld.mask
    BY <2>1 DEF LoadRecord
  <2>4. NoLoad \notin LoadRecord
    BY LoadStoreAssumption DEF LoadRecord
  <2> QED BY <2>2, <2>3, <2>4
<1>2. commit_store => sq[1].word \in Word /\ sq[1].data \in Datum
  BY StoreQueueFront, QueueTypes
<1>3. commit_store => ~sb_full
  BY DEF commit_store, commit0, commit1
<1>4. at.state # "idle" => ~commit_store
  <2>1. at.state # "idle" => LoneAtomic(n, ready, grant, br, squash)
    BY AtomicAlone
  <2> QED BY ONLY <2>1 DEF LoneAtomic
<1> QED BY <1>1, <1>2, <1>3, <1>4 DEF StoreEnters

\* The reservation is of a word.
LEMMA ReservedFacts ==
  ASSUME RingInv, AtomicInv
  PROVE  NextReserved \in Word \cup {NoWord}
<1>1. atomic_commit # 0 => Code(atomic_commit).word \in Word
  <2> SUFFICES ASSUME atomic_commit # 0 PROVE Code(atomic_commit).word \in Word
    OBVIOUS
  <2>1. head \in Live /\ atomic_commit = rob[head].pc
    BY HeadFacts DEF AtomicInv
  <2>2. atomic_commit \in PC
    BY <2>1 DEF RingInv
  <2> QED BY <2>2, ProgramFacts DEF Instruction
<1> QED BY <1>1 DEF AtomicInv, NextReserved

\* A step of the atomic sequence.
LEMMA AtomicRuns ==
  ASSUME RingInv, OrderInv, PlaceInv, QueueInv, LoadInv, DSideType, PortInv, AtomicInv,
         NEW n \in 0 .. 2, NEW ready \in BOOLEAN, NEW grant \in BOOLEAN,
         NEW br \in Tag \cup {NoTag}, NEW squash \in BOOLEAN,
         Cycle(n, ready, grant, br, squash), at.state # "idle"
  PROVE  AtomicInv'
<1>1. /\ n = 0 /\ squash = FALSE /\ grant = FALSE /\ br = NoTag /\ commit_count = 0
      /\ ~commit_store /\ Live = {head} /\ at.tag = head /\ out_q.tag = NoTag
      /\ ~head_take(ready, grant, squash)
  <2>1. LoneAtomic(n, ready, grant, br, squash)
    BY AtomicAlone
  <2> QED BY ONLY <2>1 DEF LoneAtomic
<1>2. /\ used = 1 /\ ISA!IsAtomic(rob[head].pc) /\ ~ISA!Faults(rob[head].pc)
      /\ sb = <<>> /\ ~busy /\ ld = NoLoad /\ atomic_commit = 0
      /\ at = [state |-> at.state, tag |-> at.tag, old |-> at.old]
  BY DEF AtomicInv
<1>3. head' = head /\ used' = 1 /\ prog' = prog
  <2>1. head' = TagPlus(head, 0) /\ used' = used + n - commit_count /\ prog' = prog
    BY <1>1, CycleRob
  <2>2. TagPlus(head, 0) = head
    BY RobSizeAssumption DEF RingInv, TagPlus, Tag
  <2> QED BY <1>1, <1>2, <2>1, <2>2
<1>4. rob'[head].pc = rob[head].pc
  <2>1. head \in Staying(br, squash)
    BY <1>1, HeadFacts DEF Staying
  <2> QED BY <2>1, CycleRing
<1>5. ISA!IsAtomic(rob[head].pc)' /\ ~ISA!Faults(rob[head].pc)'
  BY <1>2, <1>3, <1>4 DEF ISA!IsAtomic, ISA!Faults, ISA!Code
<1>6. reserved' \in Word \cup {NoWord}
  BY ReservedFacts DEF Cycle
<1>7. DSideCycle /\ atomic_commit' = IF atomic_valid THEN rob[at.tag].pc ELSE 0
  BY DEF Cycle
<1>8. sb' = <<>> /\ fill' = 0 /\ uncached_wait' = FALSE /\ ~busy'
  BY <1>1, <1>7, DSideAtomic DEF busy
<1>9. ld' = NoLoad
  <2>1. ~load_claims_out(grant)
    BY <1>2 DEF load_claims_out, load_done
  <2> QED BY <1>1, <1>2, <2>1, NoTakeStep
<1>10. mem' = IF atomic_write_intent
              THEN Written(mem, [word |-> atCode.word, data |-> ISA!StoreOf(rob[at.tag].pc).data])
              ELSE mem
  BY <1>1, <1>7, DSideAtomic
<1>11. dout' = IF at.state = "read" THEN mem[atCode.word] ELSE dout
  BY <1>1, <1>7, DSideAtomic
<1>12. ASSUME at'.tag = head PROVE atCode' = atCode
  BY <1>1, <1>3, <1>4, <1>12 DEF atCode, Code
<1>13. CASE at.state = "read"
  <2>1. at' = [state |-> "wait", tag |-> head, old |-> at.old]
    BY <1>1, <1>2, <1>13, NoTakeStep
  <2>2. mem' = mem /\ dout' = mem[atCode.word] /\ atomic_commit' = 0
    BY <1>7, <1>10, <1>11, <1>13 DEF atomic_write_intent, atomic_valid
  <2>3. atCode' = atCode
    BY <1>12, <2>1
  <2>4. dout' = mem'[atCode'.word]
    BY <2>2, <2>3
  <2>5. at'.state = "wait" /\ at'.tag = head /\ at' = [state |-> at'.state, tag |-> at'.tag, old |-> at'.old]
    BY <2>1
  <2> QED BY <1>3, <1>5, <1>6, <1>8, <1>9, <2>2, <2>4, <2>5 DEF AtomicInv
<1>14. CASE at.state = "wait"
  <2>1. at' = [state |-> "write", tag |-> head, old |-> dout]
    BY <1>1, <1>2, <1>14, NoTakeStep
  <2>2. mem' = mem /\ atomic_commit' = 0
    BY <1>7, <1>10, <1>14 DEF atomic_write_intent, atomic_valid
  <2>3. atCode' = atCode
    BY <1>12, <2>1
  <2>4. at'.old = mem'[atCode'.word]
    BY <1>14, <2>1, <2>2, <2>3 DEF AtomicInv
  <2>5. at'.state = "write" /\ at'.tag = head /\ at' = [state |-> at'.state, tag |-> at'.tag, old |-> at'.old]
    BY <2>1
  <2> QED BY <1>3, <1>5, <1>6, <1>8, <1>9, <2>2, <2>4, <2>5 DEF AtomicInv
<1>15. CASE at.state = "write"
  <2>1. at' = NoAtomic /\ out_q' = Completion(head, atomic_result) /\ atomic_commit' = rob[head].pc
    BY <1>1, <1>7, <1>15, NoTakeStep DEF atomic_valid
  <2>2. at'.state = "idle" /\ at' = [state |-> at'.state, tag |-> at'.tag, old |-> at'.old]
        /\ out_q'.tag = head
    BY <2>1 DEF NoAtomic, Completion
  <2>3. at' = NoAtomic'
    BY <2>1 DEF NoAtomic
  <2> QED BY <1>3, <1>4, <1>5, <1>6, <2>1, <2>2, <2>3 DEF AtomicInv
<1> QED BY <1>13, <1>14, <1>15 DEF AtomicInv

LEMMA AtomicStarts ==
  ASSUME RingInv, OrderInv, PlaceInv, QueueInv, LoadInv, DSideType, PortInv, AtomicInv,
         NEW n \in 0 .. 2, NEW ready \in BOOLEAN, NEW grant \in BOOLEAN,
         NEW br \in Tag \cup {NoTag}, NEW squash \in BOOLEAN,
         Cycle(n, ready, grant, br, squash), at.state = "idle"
  PROVE  AtomicInv'
<1>1. reserved' \in Word \cup {NoWord}
  BY ReservedFacts DEF Cycle
<1>2. DSideCycle /\ atomic_commit' = 0
  BY DEF Cycle, atomic_valid
<1>3. CASE ToAtomic(ready, grant, squash)
  <2>1. /\ qtag = head /\ sq = <<>> /\ sb = <<>> /\ ~busy /\ ld = NoLoad
        /\ ~misaligned /\ qh.op \in {"lr", "sc", "amo"}
    BY <1>3 DEF ToAtomic, TakeAtomic, sb_empty
  <2>2. memq # {} /\ squash = FALSE /\ qtag \in Undone
    BY <1>3, TakeFacts DEF ToAtomic
  <2>3. head \in Live /\ ~rob[head].done /\ head \in Tag
    BY <2>1, <2>2 DEF Undone, Live
  <2>4. ISA!IsAtomic(rob[head].pc) /\ ~ISA!Faults(rob[head].pc)
    BY <2>1 DEF ISA!IsAtomic, ISA!Faults, ISA!Code, qh, Code, misaligned
  <2>5. IsSystem(rob[head].pc)
    BY <2>4 DEF IsSystem
  <2>6. used = 1
    BY <2>3, <2>5 DEF OrderInv
  <2>7. n = 0
    BY <2>3, <2>5 DEF Cycle, CanDispatch
  <2>8. ~commit0 /\ ~commit1 /\ commit_count = 0 /\ ~commit_store
    BY <2>3 DEF commit0, commit1, commit_count, commit_store, h0
  <2>9. head' = head /\ used' = 1 /\ prog' = prog
    <3>1. head' = TagPlus(head, 0) /\ used' = used + n - commit_count /\ prog' = prog
      BY <2>2, <2>8, CycleRob
    <3>2. TagPlus(head, 0) = head
      BY RobSizeAssumption DEF RingInv, TagPlus, Tag
    <3> QED BY <2>6, <2>7, <2>8, <3>1, <3>2
  <2>10. rob'[head].pc = rob[head].pc
    <3>1. head \in Staying(br, squash)
      BY <2>2, <2>3, <2>8, HeadFacts DEF Staying
    <3> QED BY <3>1, CycleRing
  <2>11. ISA!IsAtomic(rob[head].pc)' /\ ~ISA!Faults(rob[head].pc)'
    BY <2>4, <2>9, <2>10 DEF ISA!IsAtomic, ISA!Faults, ISA!Code
  <2>12. ld' = NoLoad /\ at' = [state |-> "read", tag |-> qtag, old |-> NoResult]
    <3>1. NextAtomic(ready, grant, squash) = [state |-> "read", tag |-> qtag, old |-> NoResult]
      BY <1>3 DEF NextAtomic, ToAtomic
    <3>2. at' = NextAtomic(ready, grant, squash)
      BY DEF Cycle
    <3>3. ~TakeLoad
      BY <2>1 DEF TakeLoad
    <3>4. NextLoad(ready, grant, squash, br) = NoLoad
      BY <2>1, <3>3 DEF NextLoad, load_done
    <3> QED BY <3>1, <3>2, <3>4 DEF Cycle
  <2>13. sb' = <<>>
    <3>1. ~drain_issue
      BY <2>1 DEF drain_issue, sb_empty
    <3>2. sb' = sb \o <<>>
      BY <1>2, <2>8, <3>1, DSideIdle
    <3> QED BY <2>1, <3>2
  <2>14. ~busy'
    <3>1. fill = 0
      BY <2>1 DEF busy
    <3>2. ~start_fill(Load) /\ ~start_uncached_load(Load)
      BY <2>1, FillFacts, <1>2
    <3>3. fill' = 0 /\ ~uncached_wait'
      BY <1>2, <3>1, <3>2, FillFacts
    <3> QED BY <3>3 DEF busy
  <2>15. at'.state = "read" /\ at'.tag = head /\ at' = [state |-> at'.state, tag |-> at'.tag, old |-> at'.old]
    BY <2>1, <2>12
  <2> QED BY <1>1, <1>2, <2>9, <2>11, <2>12, <2>13, <2>14, <2>15 DEF AtomicInv
<1>4. CASE ~ToAtomic(ready, grant, squash)
  <2>1. at' = at
    BY <1>4 DEF Cycle, NextAtomic, ToAtomic
  <2>2. at' = NoAtomic /\ at = NoAtomic
    BY <2>1 DEF AtomicInv
  <2>3. at'.state = "idle" /\ at' = [state |-> at'.state, tag |-> at'.tag, old |-> at'.old]
    BY <2>2 DEF NoAtomic
  <2>4. at' = NoAtomic'
    BY <2>2 DEF NoAtomic
  <2> QED BY <1>1, <1>2, <2>3, <2>4 DEF AtomicInv
<1> QED BY <1>3, <1>4

\* The lines and the refill stay coherent over any step of the data side.
LEMMA StepCoherent ==
  ASSUME RingInv, LoadInv, DSideType, PortInv, AtomicInv, CacheCoherent,
         LoadStays, StoreEnters, DSideCycle, AtomicInv'
  PROVE  CacheCoherent'
<1>1. PortExclusive'
  BY DEF AtomicInv, PortExclusive, sb_empty
<1> QED BY <1>1, StepRefill, StepLines DEF CacheCoherent, LinesExact

-----------------------------------------------------------------------------
(* A flush.                                                                *)

\* What a flush finds: a finished head, no store committing, no atomic.
LEMMA FlushFinds ==
  ASSUME RingInv, PlaceInv, AtomicInv, flush
  PROVE  /\ head \in Live /\ rob[head].done /\ h0 = rob[head] /\ h0.pc \in PC
         /\ ~commit_store /\ at.state = "idle"
<1>1. h0.live /\ h0.done /\ h0 = rob[head]
  BY DEF flush, trap_take, fence_i_commit, commit0, h0
<1>2. head \in Live
  BY <1>1 DEF Live, RingInv
<1>3. ~commit_store
  <2>1. CASE trap_take
    BY <2>1 DEF trap_take, commit_store, commit0, commit1
  <2>2. CASE fence_i_commit
    BY <2>2 DEF fence_i_commit, commit_store, commit1, IsStore, IsSystem
  <2> QED BY <2>1, <2>2 DEF flush
<1>4. at.state = "idle"
  <2> SUFFICES ASSUME at.state # "idle" PROVE FALSE
    OBVIOUS
  <2>1. head \in Undone
    BY DEF PlaceInv, Running, AtomicInv
  <2> QED BY <1>1, <2>1 DEF Undone
<1> QED BY <1>1, <1>2, <1>3, <1>4 DEF RingInv

\* After a flush nothing is in flight.
LEMMA FlushEmpties ==
  ASSUME IInv, Flush
  PROVE  RingInv' /\ OrderInv' /\ PlaceInv' /\ QueueInv' /\ LoadInv' /\ AtomicInv'
<1>1. /\ flush /\ rob' = [t \in Tag |-> Idle] /\ head' = 0 /\ used' = 0 /\ fpc' = h0.pc + 1
      /\ memq' = {} /\ sq' = <<>> /\ out_q' = NoOutput /\ at' = NoAtomic /\ prog' = prog
      /\ ld' = IF ld = NoLoad \/ load_done THEN NoLoad ELSE [ld EXCEPT !.squashed = TRUE]
      /\ reserved' = NextReserved
      /\ atomic_commit' = IF atomic_valid THEN rob[at.tag].pc ELSE 0
  BY DEF Flush
<1>2. RingInv /\ PlaceInv /\ LoadInv /\ AtomicInv
  BY DEF IInv
<1>3. h0.pc \in PC /\ at.state = "idle"
  BY <1>1, <1>2, FlushFinds
<1>4. \A t \in Tag : rob'[t] = Idle /\ ~rob'[t].live
  BY <1>1 DEF Idle
<1>5. Live' = {}
  BY <1>4 DEF Live
<1>6. Undone' = {}
  BY <1>5 DEF Undone
<1>7. ld' = NoLoad \/ (ld' \in LoadRecord /\ ld'.squashed /\ ld'.mask # {})
  <2>1. CASE ld = NoLoad \/ load_done
    BY <1>1, <2>1
  <2>2. CASE ~(ld = NoLoad \/ load_done)
    <3>1. ld \in LoadRecord /\ ld.mask # {}
      BY <1>2, <2>2 DEF LoadInv
    <3> QED BY <1>1, <2>2, <3>1 DEF LoadRecord
  <2> QED BY <2>1, <2>2
<1>8. RingInv'
  <2>1. fpc' \in 1 .. Len(prog') + 1
    BY <1>1, <1>2, <1>3, ProgramFacts
  <2>2. \A t \in Tag : TagAge(t, head') \in 0 .. ROB_SIZE - 1
    BY <1>1, TagAgeType, RobSizeAssumption DEF Tag
  <2>3. prog' \in Programs /\ head' \in Tag /\ used' \in 0 .. ROB_SIZE
    BY <1>1, <1>2, RobSizeAssumption DEF RingInv, Tag
  <2>4. \A t \in Tag : rob'[t].live <=> TagAge(t, head') < used'
    BY <1>1, <1>4, <2>2
  <2> QED BY <1>5, <2>1, <2>3, <2>4 DEF RingInv
<1>9. OrderInv'
  <2>1. \A k \in Nat : ~(k < used')
    BY <1>1
  <2> QED BY <1>5, <2>1 DEF OrderInv
<1>10. PlaceInv'
  <2>1. memq' = {} /\ Loading' = {} /\ Running' = {} /\ Leaving' = {}
    BY <1>1, <1>7 DEF Loading, Running, Leaving, NoAtomic, NoOutput
  <2>2. Cardinality(memq') <= QUEUE_ENTRIES
    BY <2>1, FS_EmptySet, LoadStoreAssumption
  <2> QED BY <1>5, <1>6, <2>1, <2>2 DEF PlaceInv
<1>11. QueueInv'
  <2>1. sq' \in Seq(StoreRecord) /\ Len(sq') = 0 /\ DOMAIN sq' = {} /\ Elements(sq') = {}
    BY <1>1 DEF Elements
  <2> QED BY <1>5, <2>1, LoadStoreAssumption DEF QueueInv, StoreRecord, Elements
<1>12. LoadInv'
  BY <1>7 DEF LoadInv
<1>13. AtomicInv'
  <2>1. at'.state = "idle" /\ at' = [state |-> at'.state, tag |-> at'.tag, old |-> at'.old]
        /\ at' = NoAtomic'
    BY <1>1 DEF NoAtomic
  <2>2. atomic_commit' = 0
    BY <1>1, <1>3 DEF atomic_valid
  <2>3. reserved' \in Word \cup {NoWord}
    BY <1>1, <1>2, ReservedFacts
  <2> QED BY <2>1, <2>2, <2>3 DEF AtomicInv
<1> QED BY <1>8, <1>9, <1>10, <1>11, <1>12, <1>13

\* A flush marks the load the data side is busy with, and lets it finish.
LEMMA FlushBargain ==
  ASSUME IInv, Flush
  PROVE  LoadStays /\ StoreEnters
<1>1. ~commit_store /\ at.state = "idle"
  BY FlushFinds DEF IInv, Flush
<1>2. LoadStays
  <2> SUFFICES ASSUME ld # NoLoad, ~load_done
               PROVE  ld' # NoLoad /\ ld'.word = ld.word /\ ld'.mask = ld.mask
    BY DEF LoadStays
  <2>1. ld \in LoadRecord /\ ld' = [ld EXCEPT !.squashed = TRUE]
    BY DEF IInv, LoadInv, Flush
  <2>2. NoLoad \notin LoadRecord
    BY LoadStoreAssumption DEF LoadRecord
  <2>3. ld' \in LoadRecord
    BY <2>1 DEF LoadRecord
  <2> QED BY <2>1, <2>2, <2>3 DEF LoadRecord
<1> QED BY <1>1, <1>2 DEF StoreEnters

-----------------------------------------------------------------------------
(* The invariant holds in every state.                                     *)

LEMMA InitIInv == ASSUME Init PROVE IInv
<1>1. /\ prog \in Programs /\ fpc = 1 /\ rob = [t \in Tag |-> Idle] /\ head = 0 /\ used = 0
      /\ memq = {} /\ sq = <<>> /\ ld = NoLoad /\ out_q = NoOutput /\ at = NoAtomic
      /\ reserved = NoWord /\ atomic_commit = 0
  BY DEF Init
<1>2. /\ mem = [w \in Word |-> [l \in Lane |-> 0]] /\ dout = [l \in Lane |-> 0] /\ sb = <<>>
      /\ tags = [y \in Way |-> NoLine] /\ victim = 0 /\ fill = 0 /\ uncached_wait = FALSE
      /\ lines = [y \in Way |-> [o \in Offset |-> [l \in Lane |-> 0]]]
  BY DEF Init, DSideInit
<1>3. \A t \in Tag : rob[t] = Idle /\ ~rob[t].live
  BY <1>1 DEF Idle
<1>4. Live = {}
  BY <1>3 DEF Live
<1>5. RingInv
  <2>1. prog \in Seq(Instruction)
    BY <1>1, LoadStoreAssumption
  <2>2. fpc \in 1 .. Len(prog) + 1
    BY <1>1, <2>1
  <2>3. \A t \in Tag : TagAge(t, head) \in 0 .. ROB_SIZE - 1
    BY <1>1, TagAgeType, RobSizeAssumption DEF Tag
  <2>4. head \in Tag /\ used \in 0 .. ROB_SIZE
    BY <1>1, RobSizeAssumption DEF Tag
  <2> QED BY <1>1, <1>3, <1>4, <2>2, <2>3, <2>4 DEF RingInv
<1>6. OrderInv
  <2>1. \A k \in Nat : ~(k < used)
    BY <1>1
  <2> QED BY <1>4, <2>1 DEF OrderInv
<1>7. PlaceInv
  <2>1. memq = {} /\ Loading = {} /\ Running = {} /\ Leaving = {} /\ Undone = {}
    BY <1>1, <1>4 DEF Loading, Running, Leaving, NoAtomic, NoOutput, Undone
  <2>2. Cardinality(memq) <= QUEUE_ENTRIES
    BY <2>1, FS_EmptySet, LoadStoreAssumption
  <2> QED BY <1>4, <2>1, <2>2 DEF PlaceInv
<1>8. QueueInv
  <2>1. sq \in Seq(StoreRecord) /\ Len(sq) = 0 /\ DOMAIN sq = {} /\ Elements(sq) = {}
    BY <1>1 DEF Elements
  <2> QED BY <1>4, <2>1, LoadStoreAssumption DEF QueueInv, StoreRecord, Elements
<1>9. LoadInv
  BY <1>1 DEF LoadInv
<1>10. DSideType
  <2>1. /\ LINES \in Nat \ {0} /\ LINE_WORDS \in Nat \ {0} /\ STOREBUF_DEPTH \in Nat \ {0}
    BY DataCacheAssumption
  <2>2. [l \in Lane |-> 0] \in Cell
    BY DEF Cell
  <2>3. victim \in Way /\ fill \in 0 .. LINE_WORDS /\ uncached_wait \in BOOLEAN
    <3>1. victim \in Way /\ fill \in 0 .. LINE_WORDS
      BY <1>2, <2>1 DEF Way
    <3>2. uncached_wait \in BOOLEAN
      BY <1>2
    <3> QED BY <3>1, <3>2
  <2>4. sb \in Seq([word : Word, data : Datum]) /\ Len(sb) <= STOREBUF_DEPTH
    BY <1>2, <2>1
  <2> QED BY <1>2, <2>2, <2>3, <2>4 DEF DSideType
<1>11. PortInv
  BY <1>2 DEF PortInv
<1>12. AtomicInv
  <2>1. at.state = "idle" /\ at = [state |-> at.state, tag |-> at.tag, old |-> at.old]
    BY <1>1 DEF NoAtomic
  <2> QED BY <1>1, <2>1 DEF AtomicInv
<1>13. CacheCoherent
  <2>1. at.state = "idle"
    BY <1>1 DEF NoAtomic
  <2>2. \A o \in Offset : ~(o + 1 < fill)
    BY <1>2, DataCacheAssumption DEF Offset
  <2> QED BY <1>2, <2>1, <2>2 DEF CacheCoherent, RefillExact, PortExclusive
<1> QED BY <1>5, <1>6, <1>7, <1>8, <1>9, <1>10, <1>11, <1>12, <1>13 DEF IInv

LEMMA StepIInv == ASSUME IInv, [Next]_vars PROVE IInv'
<1>1. /\ RingInv /\ OrderInv /\ PlaceInv /\ QueueInv /\ LoadInv /\ DSideType /\ PortInv
      /\ AtomicInv /\ CacheCoherent
  BY DEF IInv
<1>2. ASSUME NEW n \in 0 .. 2, NEW ready \in BOOLEAN, NEW grant \in BOOLEAN,
             NEW br \in Tag \cup {NoTag}, NEW squash \in BOOLEAN,
             Cycle(n, ready, grant, br, squash)
      PROVE  IInv'
  <2>1. LoadStays /\ StoreEnters
    BY <1>1, <1>2, CycleBargain
  <2>2. DSideCycle
    BY <1>2 DEF Cycle
  <2>3. RingInv' /\ OrderInv' /\ PlaceInv' /\ QueueInv' /\ LoadInv'
    BY <1>1, <1>2, CycleRing, CycleOrder, CyclePlaces, CycleStores, CycleLoad
  <2>4. AtomicInv'
    BY <1>1, <1>2, AtomicRuns, AtomicStarts
  <2>5. DSideType' /\ PortInv' /\ CacheCoherent'
    BY <1>1, <2>1, <2>2, <2>4, StepDSideType, StepPort, StepCoherent
  <2> QED BY <2>3, <2>4, <2>5 DEF IInv
<1>3. CASE Flush
  <2>1. LoadStays /\ StoreEnters
    BY <1>3, FlushBargain
  <2>2. DSideCycle
    BY <1>3 DEF Flush
  <2>3. RingInv' /\ OrderInv' /\ PlaceInv' /\ QueueInv' /\ LoadInv' /\ AtomicInv'
    BY <1>3, FlushEmpties
  <2>4. DSideType' /\ PortInv' /\ CacheCoherent'
    BY <1>1, <2>1, <2>2, <2>3, StepDSideType, StepPort, StepCoherent
  <2> QED BY <2>3, <2>4 DEF IInv
<1>4. CASE UNCHANGED vars
  <2>1. /\ UNCHANGED <<prog, fpc, rob, head, used, memq, sq, ld, out_q, at, reserved,
                       atomic_commit, results>>
        /\ UNCHANGED <<mem, dout, sb, tags, lines, victim, fill, uncached_wait>>
    BY <1>4 DEF vars, lsuVars, dsideVars
  <2>2. Live' = Live /\ Undone' = Undone /\ Loading' = Loading /\ Running' = Running /\ Leaving' = Leaving
    BY <2>1 DEF Live, Undone, Loading, Running, Leaving, IsMem, Code
  <2>3. RingInv'
    BY <1>1, <2>1, <2>2 DEF RingInv, PC
  <2>4. OrderInv'
    <3>1. \A k : PcAt(k)' = PcAt(k)
      BY <2>1 DEF PcAt
    <3> QED BY <1>1, <2>1, <2>2, <3>1 DEF OrderInv, Code, IsSystem, ISA!IsAtomic, ISA!Code
  <2>5. PlaceInv'
    BY <1>1, <2>1, <2>2 DEF PlaceInv, IsMem, Code, Younger
  <2>6. QueueInv'
    <3>1. \A p : /\ Code(p)' = Code(p) /\ (ISA!Faults(p)' <=> ISA!Faults(p))
                 /\ ISA!StoreOf(p)' = ISA!StoreOf(p)
      BY ONLY <2>1 DEF Code, ISA!Faults, ISA!StoreOf, ISA!Code
    <3>2. \A t : IsQueued(t)' <=> IsQueued(t)
      BY ONLY <2>1, <3>1 DEF IsQueued, Op, Code, ISA!Faults, ISA!Code
    <3>3. {t \in Live : IsQueued(t)}' = {t \in Live : IsQueued(t)}
      BY ONLY <2>2, <3>2
    <3>4. \A t, u : Younger(t, u)' <=> Younger(t, u)
      BY ONLY <2>1 DEF Younger
    <3>5. {s.tag : s \in Elements(sq)}' = {s.tag : s \in Elements(sq)}
      BY ONLY <2>1 DEF Elements
    <3>6. QueueInv
      BY <1>1
    <3> QED BY ONLY <2>1, <3>1, <3>3, <3>4, <3>5, <3>6 DEF QueueInv
  <2>7. LoadInv'
    BY <1>1, <2>1 DEF LoadInv, Op, Code, Younger
  <2>8. DSideType' /\ PortInv'
    BY <1>1, <2>1 DEF DSideType, PortInv, Load, BeatWord
  <2>9. AtomicInv'
    BY <1>1, <2>1 DEF AtomicInv, NoAtomic, atCode, Code, busy, ISA!IsAtomic, ISA!Faults, ISA!Code
  <2>10. CacheCoherent'
    BY <1>1, <2>1 DEF CacheCoherent, RefillExact, PortExclusive, Load, BeatWord, sb_empty, busy
  <2> QED BY <2>3, <2>4, <2>5, <2>6, <2>7, <2>8, <2>9, <2>10 DEF IInv
<1> QED BY <1>2, <1>3, <1>4 DEF Next

LEMMA Invariant == Spec => []IInv
<1>1. Init => IInv
  BY InitIInv
<1>2. IInv /\ [Next]_vars => IInv'
  BY StepIInv
<1> QED BY <1>1, <1>2, PTL DEF Spec

-----------------------------------------------------------------------------
(* What the runs check.                                                    *)

\* The places of the property are those of the invariant.
LEMMA PlacesAreExact ==
  ASSUME IInv
  PROVE  AccessOnce
<1>1. /\ RingInv /\ PlaceInv /\ QueueInv /\ DSideType /\ AtomicInv
  BY DEF IInv
<1>2. TypeOK
  BY <1>1 DEF TypeOK, RingInv, PlaceInv, QueueInv, DSideType, AtomicInv
<1> DEFINE places == <<memq, Loading, Running, Leaving>>
<1>3. /\ places[1] = memq /\ places[2] = Loading /\ places[3] = Running /\ places[4] = Leaving
  OBVIOUS
<1>4. \A i \in 1 .. 4 : i = 1 \/ i = 2 \/ i = 3 \/ i = 4
  OBVIOUS
<1>5. UNION {places[i] : i \in 1 .. 4} = Undone
  <2>1. UNION {places[i] : i \in 1 .. 4} = memq \cup Loading \cup Running \cup Leaving
    <3> HIDE DEF places
    <3>1. ASSUME NEW x \in UNION {places[i] : i \in 1 .. 4}
          PROVE  x \in memq \cup Loading \cup Running \cup Leaving
      <4>1. PICK i \in 1 .. 4 : x \in places[i]
        OBVIOUS
      <4> QED BY <1>3, <1>4, <4>1
    <3>2. ASSUME NEW x \in memq \cup Loading \cup Running \cup Leaving
          PROVE  \E i \in 1 .. 4 : x \in places[i]
      <4>1. /\ 1 \in 1 .. 4 /\ 2 \in 1 .. 4 /\ 3 \in 1 .. 4 /\ 4 \in 1 .. 4
        OBVIOUS
      <4> QED BY <1>3, <3>2, <4>1
    <3> QED BY <3>1, <3>2
  <2> QED BY <1>1, <2>1 DEF PlaceInv
<1>6. \A i, j \in 1 .. 4 : i # j => places[i] \cap places[j] = {}
  <2>1. /\ memq \cap Loading = {} /\ memq \cap Running = {} /\ memq \cap Leaving = {}
        /\ Loading \cap Running = {} /\ Loading \cap Leaving = {} /\ Running \cap Leaving = {}
    BY <1>1 DEF PlaceInv
  <2> HIDE DEF places
  <2> SUFFICES ASSUME NEW i \in 1 .. 4, NEW j \in 1 .. 4, i # j
               PROVE  places[i] \cap places[j] = {}
    OBVIOUS
  <2>2. CASE i = 1
    BY <1>3, <1>4, <2>1, <2>2
  <2>3. CASE i = 2
    BY <1>3, <1>4, <2>1, <2>3
  <2>4. CASE i = 3
    BY <1>3, <1>4, <2>1, <2>4
  <2>5. CASE i = 4
    BY <1>3, <1>4, <2>1, <2>5
  <2> QED BY <1>4, <2>2, <2>3, <2>4, <2>5
<1> QED BY <1>2, <1>5, <1>6 DEF AccessOnce, Undone, Loading, Running, Leaving

\* Every unfinished access in flight is in exactly one of the memory queue, the
\* load stage, the atomic sequence and the output buffer, and nothing wrong-path
\* is in any of them; the queues keep their bounds (LoadStoreUnit.sv).
THEOREM AccessesAreOnce == Spec => []AccessOnce
<1>1. IInv => AccessOnce
  BY PlacesAreExact
<1> QED BY <1>1, Invariant, PTL

\* The store queue holds exactly the stores in flight that have left the memory
\* queue without a fault, in program order, and its front entry is the store
\* that commits (LoadStoreUnit.sv).
THEOREM StoreQueueIsExact == Spec => []StoreQueueExact
<1>1. ASSUME IInv PROVE StoreQueueExact
  <2>1. RingInv /\ PlaceInv /\ QueueInv
    BY <1>1 DEF IInv
  <2>2. {s.tag : s \in Elements(sq)}
          = {t \in Live : Op(t) = "st" /\ ~ISA!Faults(rob[t].pc) /\ t \notin memq}
    BY <2>1 DEF QueueInv, IsQueued
  <2>3. \A i, j \in DOMAIN sq : i < j => Younger(sq[j].tag, sq[i].tag)
    BY <2>1 DEF QueueInv
  <2>4. commit_store => sq # <<>> /\ sq[1].tag = IF commit0 /\ IsStore(h0) THEN head
                                                 ELSE TagPlus(head, 1)
    BY <2>1, StoreQueueFront
  <2> QED BY <2>2, <2>3, <2>4 DEF StoreQueueExact
<1> QED BY <1>1, Invariant, PTL

\* A line the cache answers from equals memory, a refill's copies stay current,
\* and a running atomic has the memory port to itself (datacache.sv,
\* datacachefsm.sv, LoadStoreUnit.sv).
THEOREM CacheIsCoherent == Spec => []CacheCoherent
<1>1. IInv => CacheCoherent
  BY DEF IInv
<1> QED BY <1>1, Invariant, PTL

-----------------------------------------------------------------------------
(* What memory will hold.                                                  *)

WriterSet(q, w, l) == {i \in DOMAIN q : q[i].word = w /\ l \in Lanes(q[i])}

\* i is the last store of q that writes a byte.
IsLast(q, i, w, l) ==
  /\ i \in WriterSet(q, w, l)
  /\ \A j \in WriterSet(q, w, l) : j <= i

\* A byte that is written has a last writer, and only one.
LEMMA LastWriter ==
  ASSUME NEW q, NEW n \in Nat, DOMAIN q = 1 .. n, NEW S \in SUBSET (1 .. n), S # {}
  PROVE  /\ (CHOOSE i \in S : \A j \in S : j <= i) \in S
         /\ \A j \in S : j <= (CHOOSE i \in S : \A k \in S : k <= i)
         /\ \A i \in S : (\A j \in S : j <= i) => i = (CHOOSE k \in S : \A j \in S : j <= k)
<1>1. \E i \in S : \A j \in S : j <= i
  BY SetHasMax
<1>2. PICK c : c = CHOOSE i \in S : \A j \in S : j <= i
  OBVIOUS
<1>3. c \in S /\ \A j \in S : j <= c
  BY <1>1, <1>2
<1>4. ASSUME NEW i \in S, \A j \in S : j <= i PROVE i = c
  BY <1>3, <1>4
<1> QED BY <1>2, <1>3, <1>4

\* A byte of the image is its last writer's, or memory's.
LEMMA ImageFacts ==
  ASSUME NEW m \in [Word -> Cell], NEW q, NEW n \in Nat, DOMAIN q = 1 .. n,
         NEW w \in Word, NEW l \in Lane
  PROVE  /\ WriterSet(q, w, l) = {} => Image(m, q)[w][l] = m[w][l]
         /\ \A i : IsLast(q, i, w, l) => Image(m, q)[w][l] = q[i].data[l]
         /\ WriterSet(q, w, l) # {} => \E i : IsLast(q, i, w, l)
<1>1. DOMAIN m = Word /\ DOMAIN m[w] = Lane
  BY DEF Cell
<1>2. PICK S : S = WriterSet(q, w, l)
  OBVIOUS
<1>3. S \in SUBSET (1 .. n)
  BY <1>2 DEF WriterSet
<1>4. Image(m, q)[w][l] = IF S = {} THEN m[w][l]
                          ELSE q[CHOOSE i \in S : \A j \in S : j <= i].data[l]
  BY <1>1, <1>2 DEF Image, WriterSet
<1>5. CASE S = {}
  BY <1>2, <1>4, <1>5 DEF IsLast
<1>6. CASE S # {}
  <2>1. PICK c : c = CHOOSE i \in S : \A j \in S : j <= i
    OBVIOUS
  <2>2. c \in S /\ (\A j \in S : j <= c) /\ \A i \in S : (\A j \in S : j <= i) => i = c
    BY <1>3, <1>6, <2>1, LastWriter
  <2>3. Image(m, q)[w][l] = q[c].data[l]
    BY <1>4, <1>6, <2>1
  <2> QED BY <1>2, <1>6, <2>2, <2>3 DEF IsLast
<1> QED BY <1>5, <1>6

Pictures(m, q, w, l) ==
  /\ WriterSet(q, w, l) = {} => Image(m, q)[w][l] = m[w][l]
  /\ \A i : IsLast(q, i, w, l) => Image(m, q)[w][l] = q[i].data[l]
  /\ WriterSet(q, w, l) # {} => \E i : IsLast(q, i, w, l)

\* The same under a name.
LEMMA ImagePictures ==
  ASSUME NEW m \in [Word -> Cell], NEW q, NEW n \in Nat, DOMAIN q = 1 .. n,
         NEW w \in Word, NEW l \in Lane
  PROVE  Pictures(m, q, w, l)
BY ImageFacts, Zenon DEF Pictures

Store == [word : Word, data : Datum]

\* The lanes of a store are lanes, and its bytes numbers.
LEMMA StoreFacts ==
  ASSUME NEW s, s.word \in Word, s.data \in Datum
  PROVE  /\ Lanes(s) \in SUBSET Lane
         /\ \A l \in Lanes(s) : s.data[l] \in Nat
<1>1. PICK k \in SUBSET Lane : s.data \in [k -> Nat]
  BY DEF Datum
<1> QED BY <1>1 DEF Lanes

LEMMA ImageType ==
  ASSUME NEW m \in [Word -> Cell], NEW q \in Seq(Store)
  PROVE  /\ Image(m, q) \in [Word -> Cell]
         /\ Image(m, q) = [w \in Word |-> [l \in Lane |-> Image(m, q)[w][l]]]
<1>1. /\ Len(q) \in Nat /\ DOMAIN q = 1 .. Len(q)
  OBVIOUS
<1>2. ASSUME NEW i \in DOMAIN q PROVE q[i].word \in Word /\ q[i].data \in Datum
  <2>1. q[i] \in Store
    BY <1>1
  <2> QED BY <2>1 DEF Store
<1>3. ASSUME NEW w \in Word, NEW l \in Lane
      PROVE  Image(m, q)[w][l] \in Nat
  <2>0. /\ WriterSet(q, w, l) = {} => Image(m, q)[w][l] = m[w][l]
        /\ \A i : IsLast(q, i, w, l) => Image(m, q)[w][l] = q[i].data[l]
        /\ WriterSet(q, w, l) # {} => \E i : IsLast(q, i, w, l)
    <3>1. Pictures(m, q, w, l)
      BY <1>1, ImagePictures
    <3> QED BY ONLY <3>1 DEF Pictures
  <2>1. CASE WriterSet(q, w, l) = {}
    <3>1. m[w] \in Cell
      OBVIOUS
    <3>2. m[w][l] \in Nat
      BY <3>1 DEF Cell
    <3> QED BY ONLY <2>0, <2>1, <3>2
  <2>2. CASE WriterSet(q, w, l) # {}
    <3>1. PICK i : IsLast(q, i, w, l)
      BY ONLY <2>0, <2>2
    <3>2. i \in DOMAIN q /\ l \in Lanes(q[i])
      BY <3>1 DEF IsLast, WriterSet
    <3>3. q[i].data[l] \in Nat
      BY <1>2, <3>2, StoreFacts
    <3> QED BY ONLY <2>0, <3>1, <3>3
  <2> QED BY <2>1, <2>2
<1>4. DOMAIN Image(m, q) = Word /\ Image(m, q) = [w \in Word |-> Image(m, q)[w]]
  BY DEF Image
<1>5. \A w \in Word : Image(m, q)[w] = [l \in Lane |-> Image(m, q)[w][l]]
  <2>1. \A w \in Word : DOMAIN m[w] = Lane
    BY DEF Cell
  <2> QED BY <2>1 DEF Image
<1>6. \A w \in Word : Image(m, q)[w] \in Cell
  BY <1>3, <1>5 DEF Cell
<1> QED BY <1>4, <1>5, <1>6

\* Memories with the same bytes are the same.
LEMMA SameBytes ==
  ASSUME NEW m \in [Word -> Cell], NEW k \in [Word -> Cell],
         \A w \in Word : \A l \in Lane : m[w][l] = k[w][l]
  PROVE  m = k
<1>1. \A w \in Word : m[w] = k[w]
  BY DEF Cell
<1> QED BY <1>1

\* A byte of memory after a write.
LEMMA WrittenByte ==
  ASSUME NEW m \in [Word -> Cell], NEW s, s.word \in Word, s.data \in Datum,
         NEW w \in Word, NEW l \in Lane
  PROVE  Written(m, s)[w][l] = IF s.word = w /\ l \in Lanes(s) THEN s.data[l] ELSE m[w][l]
<1>1. CASE s.word # w
  BY <1>1, WrittenFacts
<1>2. CASE s.word = w
  <2>1. Written(m, s)[w] = Merged(m[w], s.data)
    BY <1>2, WrittenFacts
  <2>2. m[w] \in Cell
    OBVIOUS
  <2> QED BY <1>2, <2>1, <2>2 DEF Merged, Cell, Lanes
<1> QED BY <1>1, <1>2

LEMMA ImageEmpty ==
  ASSUME NEW m \in [Word -> Cell]
  PROVE  Image(m, <<>>) = m
<1>1. <<>> \in Seq(Store) /\ DOMAIN <<>> = 1 .. 0
  OBVIOUS
<1>2. ASSUME NEW w \in Word, NEW l \in Lane PROVE Image(m, <<>>)[w][l] = m[w][l]
  <2>1. WriterSet(<<>>, w, l) = {}
    BY DEF WriterSet
  <2> QED BY <1>1, <2>1, ImageFacts
<1>3. Image(m, <<>>) \in [Word -> Cell]
  BY <1>1, ImageType
<1> QED BY <1>2, <1>3, SameBytes

\* A store that enters is written last.
LEMMA ImageAppend ==
  ASSUME NEW m \in [Word -> Cell], NEW q \in Seq(Store), NEW s \in Store
  PROVE  Image(m, q \o <<s>>) = Written(Image(m, q), s)
<1> DEFINE r == q \o <<s>>
<1>1. /\ Len(q) \in Nat /\ DOMAIN q = 1 .. Len(q) /\ r \in Seq(Store)
      /\ Len(r) = Len(q) + 1 /\ DOMAIN r = 1 .. Len(q) + 1
      /\ r[Len(q) + 1] = s /\ \A i \in 1 .. Len(q) : r[i] = q[i]
  OBVIOUS
<1>2. s.word \in Word /\ s.data \in Datum
  BY DEF Store
<1>3. Image(m, q) \in [Word -> Cell] /\ Image(m, r) \in [Word -> Cell]
  BY <1>1, ImageType
<1> HIDE DEF r
<1>4. Written(Image(m, q), s) \in [Word -> Cell]
  BY <1>2, <1>3, WrittenFacts
<1>5. ASSUME NEW w \in Word, NEW l \in Lane
      PROVE  Image(m, r)[w][l] = Written(Image(m, q), s)[w][l]
  <2>1. WriterSet(r, w, l) = WriterSet(q, w, l)
           \cup (IF s.word = w /\ l \in Lanes(s) THEN {Len(q) + 1} ELSE {})
    BY <1>1 DEF WriterSet
  <2>2. WriterSet(q, w, l) \subseteq 1 .. Len(q)
    BY <1>1 DEF WriterSet
  <2>3. Written(Image(m, q), s)[w][l] =
          IF s.word = w /\ l \in Lanes(s) THEN s.data[l] ELSE Image(m, q)[w][l]
    BY <1>2, <1>3, WrittenByte
  <2>4. CASE s.word = w /\ l \in Lanes(s)
    <3>1. IsLast(r, Len(q) + 1, w, l)
      BY <1>1, <2>1, <2>2, <2>4 DEF IsLast
    <3>2. Image(m, r)[w][l] = r[Len(q) + 1].data[l]
      BY <1>1, <3>1, ImageFacts
    <3> QED BY <1>1, <2>3, <2>4, <3>2
  <2>5. CASE ~(s.word = w /\ l \in Lanes(s))
    <3>1. WriterSet(r, w, l) = WriterSet(q, w, l)
      BY <2>1, <2>5
    <3>2. CASE WriterSet(q, w, l) = {}
      <4>1. Image(m, r)[w][l] = m[w][l]
        BY <1>1, <3>1, <3>2, ImageFacts
      <4>2. Image(m, q)[w][l] = m[w][l]
        BY <1>1, <3>2, ImageFacts
      <4> QED BY <2>3, <2>5, <4>1, <4>2
    <3>3. CASE WriterSet(q, w, l) # {}
      <4>1. PICK i : IsLast(q, i, w, l)
        BY <1>1, <3>3, ImageFacts
      <4>2. IsLast(r, i, w, l) /\ i \in 1 .. Len(q)
        BY <2>2, <3>1, <4>1 DEF IsLast
      <4>3. Image(m, r)[w][l] = r[i].data[l]
        BY <1>1, <4>2, ImageFacts
      <4>4. Image(m, q)[w][l] = q[i].data[l]
        BY <1>1, <4>1, ImageFacts
      <4> QED BY <1>1, <2>3, <2>5, <4>2, <4>3, <4>4
    <3> QED BY <3>2, <3>3
  <2> QED BY <2>4, <2>5
<1> QED BY <1>3, <1>4, <1>5, SameBytes DEF r

\* A store that drains was going to be written anyway.
LEMMA ImageDrain ==
  ASSUME NEW m \in [Word -> Cell], NEW q \in Seq(Store), q # <<>>
  PROVE  Image(Written(m, Head(q)), Tail(q)) = Image(m, q)
<1>1. /\ Len(q) \in Nat /\ DOMAIN q = 1 .. Len(q) /\ Len(q) > 0
  OBVIOUS
<1>2. PICK s : s = Head(q)
  OBVIOUS
<1>3. PICK r : r = Tail(q)
  OBVIOUS
<1>4. s \in Store /\ r \in Seq(Store) /\ Len(r) = Len(q) - 1 /\ \A i \in 1 .. Len(r) : r[i] = q[i + 1]
  BY <1>2, <1>3, HeadTailProperties
<1>5. s = q[1] /\ DOMAIN r = 1 .. Len(r) /\ Len(r) \in Nat
  BY <1>2, <1>4
<1>6. s.word \in Word /\ s.data \in Datum
  BY <1>4 DEF Store
<1>7. Written(m, s) \in [Word -> Cell]
  BY <1>6, WrittenFacts
<1>8. Image(Written(m, s), r) \in [Word -> Cell] /\ Image(m, q) \in [Word -> Cell]
  BY <1>4, <1>7, ImageType
<1>9. ASSUME NEW w \in Word, NEW l \in Lane
      PROVE  Image(Written(m, s), r)[w][l] = Image(m, q)[w][l]
  <2>1. Written(m, s)[w][l] = IF s.word = w /\ l \in Lanes(s) THEN s.data[l] ELSE m[w][l]
    BY <1>6, WrittenByte
  <2>2. \A i \in 1 .. Len(r) : i \in WriterSet(r, w, l) <=> i + 1 \in WriterSet(q, w, l)
    BY <1>1, <1>4, <1>5 DEF WriterSet
  <2>3. 1 \in WriterSet(q, w, l) <=> s.word = w /\ l \in Lanes(s)
    BY <1>1, <1>5 DEF WriterSet
  <2>4. WriterSet(q, w, l) \subseteq 1 .. Len(q) /\ WriterSet(r, w, l) \subseteq 1 .. Len(r)
    BY <1>1, <1>5 DEF WriterSet
  <2>5. ASSUME NEW j \in WriterSet(q, w, l), j # 1
        PROVE  j - 1 \in WriterSet(r, w, l) /\ j \in 1 .. Len(q)
    <3>1. j \in 1 .. Len(q) /\ j - 1 \in 1 .. Len(r) /\ (j - 1) + 1 = j
      BY <1>1, <1>4, <2>4, <2>5
    <3> QED BY <2>2, <3>1
  <2>8. /\ WriterSet(q, w, l) = {} => Image(m, q)[w][l] = m[w][l]
        /\ \A i : IsLast(q, i, w, l) => Image(m, q)[w][l] = q[i].data[l]
    <3>1. PICK k : k = Len(q)
      OBVIOUS
    <3>2. /\ m \in [Word -> Cell] /\ k \in Nat /\ DOMAIN q = 1 .. k
          /\ w \in Word /\ l \in Lane
      BY <1>1, <3>1
    <3>3. Pictures(m, q, w, l)
      BY ONLY <3>2, ImagePictures
    <3> QED BY ONLY <3>3 DEF Pictures
  <2>9. /\ WriterSet(r, w, l) = {} => Image(Written(m, s), r)[w][l] = Written(m, s)[w][l]
        /\ \A i : IsLast(r, i, w, l) => Image(Written(m, s), r)[w][l] = r[i].data[l]
        /\ WriterSet(r, w, l) # {} => \E i : IsLast(r, i, w, l)
    <3>1. PICK z, k : z = Written(m, s) /\ k = Len(r)
      OBVIOUS
    <3>2. /\ z \in [Word -> Cell] /\ k \in Nat /\ DOMAIN r = 1 .. k
          /\ w \in Word /\ l \in Lane
      BY <1>5, <1>7, <3>1
    <3>3. Pictures(z, r, w, l)
      BY ONLY <3>2, ImagePictures
    <3>4. Pictures(Written(m, s), r, w, l)
      BY ONLY <3>1, <3>3
    <3> QED BY ONLY <3>4 DEF Pictures
  <2>6. CASE WriterSet(r, w, l) = {}
    <3>1. WriterSet(q, w, l) \subseteq {1}
      BY <2>5, <2>6
    <3>2. Image(Written(m, s), r)[w][l] = Written(m, s)[w][l]
      BY ONLY <2>6, <2>9
    <3>3. CASE 1 \in WriterSet(q, w, l)
      <4>1. IsLast(q, 1, w, l)
        BY <3>1, <3>3 DEF IsLast
      <4> QED BY ONLY <1>5, <2>1, <2>3, <2>8, <3>2, <3>3, <4>1
    <3>4. CASE 1 \notin WriterSet(q, w, l)
      <4>1. WriterSet(q, w, l) = {}
        BY <3>1, <3>4
      <4> QED BY ONLY <2>1, <2>3, <2>8, <3>2, <3>4, <4>1
    <3> QED BY <3>3, <3>4
  <2>7. CASE WriterSet(r, w, l) # {}
    <3>1. PICK i : IsLast(r, i, w, l)
      BY ONLY <2>7, <2>9
    <3>2. i \in 1 .. Len(r) /\ i + 1 \in WriterSet(q, w, l)
      BY <2>2, <2>4, <3>1 DEF IsLast
    <3>3. \A j \in WriterSet(q, w, l) : j <= i + 1
      <4> SUFFICES ASSUME NEW j \in WriterSet(q, w, l) PROVE j <= i + 1
        OBVIOUS
      <4>1. CASE j = 1
        BY <3>2, <4>1
      <4>2. CASE j # 1
        <5>1. j - 1 <= i /\ j \in Nat
          BY <2>5, <3>1, <4>2 DEF IsLast
        <5> QED BY <3>2, <5>1
      <4> QED BY <4>1, <4>2
    <3>4. IsLast(q, i + 1, w, l)
      BY <3>2, <3>3 DEF IsLast
    <3>5. Image(m, q)[w][l] = q[i + 1].data[l]
      BY ONLY <2>8, <3>4
    <3>6. Image(Written(m, s), r)[w][l] = r[i].data[l]
      BY ONLY <2>9, <3>1
    <3> QED BY <1>4, <3>2, <3>5, <3>6
  <2> QED BY <2>6, <2>7
<1> QED BY <1>2, <1>3, <1>8, <1>9, SameBytes

\* What memory will hold once the committed stores are written.
Coming == Image(mem, sb)

LEMMA ComingType ==
  ASSUME DSideType
  PROVE  /\ Coming \in [Word -> Cell] /\ sb \in Seq(Store) /\ Len(sb) \in Nat
         /\ DOMAIN sb = 1 .. Len(sb)
<1>1. sb \in Seq(Store)
  BY DEF DSideType, Store
<1> QED BY <1>1, ImageType DEF DSideType, Coming

\* The store that commits enters what memory will hold; draining does not
\* change it; an atomic writes with nothing on its way.
LEMMA StepComing ==
  ASSUME RingInv, LoadInv, DSideType, PortInv, AtomicInv, StoreEnters, DSideCycle
  PROVE  /\ commit_store =>
              Coming' = Written(Coming, [word |-> sq[1].word, data |-> sq[1].data])
         /\ atomic_write_intent => Coming' = Written(Coming, ISA!StoreOf(rob[at.tag].pc))
         /\ ~commit_store /\ ~atomic_write_intent => Coming' = Coming
<1>1. /\ mem \in [Word -> Cell] /\ sb \in Seq(Store) /\ Coming \in [Word -> Cell]
  BY ComingType DEF DSideType
<1>2. CASE at.state = "idle"
  <2>1. ~atomic_write_intent
    BY <1>2 DEF atomic_write_intent, atomic_valid
  <2>2. PICK m : m = IF drain_issue THEN Written(mem, Head(sb)) ELSE mem
    OBVIOUS
  <2>3. PICK q : q = IF drain_issue THEN Tail(sb) ELSE sb
    OBVIOUS
  <2>4. mem' = m /\ sb' = q \o (IF sb_full \/ ~commit_store THEN <<>>
                                ELSE <<[word |-> sq[1].word, data |-> sq[1].data]>>)
    BY <1>2, <2>2, <2>3, DSideIdle
  <2>5. m \in [Word -> Cell] /\ q \in Seq(Store) /\ Image(m, q) = Coming
    <3>1. CASE drain_issue
      <4>1. sb # <<>>
        BY <3>1 DEF drain_issue, sb_empty
      <4>2. Head(sb) \in Store /\ Tail(sb) \in Seq(Store)
        BY <1>1, <4>1, HeadTailProperties
      <4>3. Head(sb).word \in Word /\ Head(sb).data \in Datum
        BY <4>2 DEF Store
      <4> QED BY <1>1, <2>2, <2>3, <3>1, <4>1, <4>2, <4>3, WrittenFacts, ImageDrain DEF Coming
    <3>2. CASE ~drain_issue
      BY <1>1, <2>2, <2>3, <3>2 DEF Coming
    <3> QED BY <3>1, <3>2
  <2>6. CASE commit_store
    <3>1. PICK s : s = [word |-> sq[1].word, data |-> sq[1].data]
      OBVIOUS
    <3>2. s \in Store /\ ~sb_full
      BY <2>6, <3>1 DEF StoreEnters, Store
    <3>3. sb' = q \o <<s>>
      BY <2>4, <2>6, <3>1, <3>2
    <3>4. Image(m, q \o <<s>>) = Written(Image(m, q), s)
      BY <2>5, <3>2, ImageAppend
    <3> QED BY <2>1, <2>4, <2>5, <2>6, <3>1, <3>3, <3>4 DEF Coming
  <2>7. CASE ~commit_store
    <3>1. sb' = q
      BY <2>4, <2>5, <2>7
    <3> QED BY <2>1, <2>4, <2>5, <2>7, <3>1 DEF Coming
  <2> QED BY <2>6, <2>7
<1>3. CASE at.state # "idle"
  <2>1. ~commit_store
    BY <1>3 DEF StoreEnters
  <2>2. sb = <<>> /\ Coming = mem
    BY <1>1, <1>3, ImageEmpty DEF AtomicInv, Coming
  <2>3. PICK s : s = ISA!StoreOf(rob[at.tag].pc)
    OBVIOUS
  <2>4. s = [word |-> atCode.word, data |-> s.data]
    BY <2>3 DEF ISA!StoreOf, ISA!Code, atCode, Code
  <2>5. sb' = <<>> /\ mem' = IF atomic_write_intent THEN Written(mem, s) ELSE mem
    BY <1>3, <2>1, <2>3, <2>4, DSideAtomic
  <2>6. head \in Live /\ at.tag = head
    BY <1>3, HeadFacts DEF AtomicInv
  <2>7. atCode.word \in Word /\ atCode.mask \in SUBSET Lane /\ rob[at.tag].pc \in Nat
    BY <2>6, ProgramFacts DEF atCode, Instruction, RingInv
  <2>8. s.data = [l \in atCode.mask |-> rob[at.tag].pc] /\ s.word = atCode.word
    BY <2>3 DEF ISA!StoreOf, ISA!Code, atCode, Code
  <2>9. s.word \in Word /\ s.data \in Datum
    BY <2>7, <2>8 DEF Datum
  <2>10. mem' \in [Word -> Cell]
    BY <1>1, <2>5, <2>9, WrittenFacts
  <2>11. Coming' = mem'
    BY <2>5, <2>10, ImageEmpty DEF Coming
  <2> QED BY <2>1, <2>2, <2>3, <2>5, <2>11
<1> QED BY <1>2, <1>3

-----------------------------------------------------------------------------
(* What an access in flight sees.                                          *)

\* The stores in the store queue, older than t, that write a byte.
SeenStores(t, w, l) ==
  {i \in DOMAIN sq : Younger(t, sq[i].tag) /\ sq[i].word = w /\ l \in Lanes(sq[i])}

\* The byte as the machine in program order would read it at t.
Seen(t, w, l) ==
  LET S == SeenStores(t, w, l)
  IN  IF S = {} THEN Coming[w][l]
      ELSE sq[CHOOSE i \in S : \A j \in S : j <= i].data[l]

LoadValue(t) == [l \in Code(rob[t].pc).mask |-> Seen(t, Code(rob[t].pc).word, l)]

GoodLoad(t) == Op(t) = "ld" /\ ~ISA!Faults(rob[t].pc)
Silent(t) == Op(t) \in {"st", "br", "fencei"}

\* Loads that are finished, or leave, return what the machine in program order
\* would; nothing but loads and atomics returns anything; and nothing has been
\* returned yet from the oldest instruction in flight on.
ValueInv ==
  /\ \A t \in Live : GoodLoad(t) /\ rob[t].done => rob[t].val = LoadValue(t)
  /\ \A t \in Live : GoodLoad(t) /\ out_q.tag = t => out_q.val = LoadValue(t)
  /\ \A t \in Live : Silent(t) => rob[t].val = NoResult
  /\ \A t \in Live : Silent(t) /\ out_q.tag = t => out_q.val = NoResult
  /\ results = [p \in PC |-> results[p]]
  /\ \A p \in PC : p >= PcAt(0) => results[p] = NoResult

LEMMA SeenFacts ==
  ASSUME QueueInv, NEW t, NEW w, NEW l
  PROVE  /\ SeenStores(t, w, l) = {} => Seen(t, w, l) = Coming[w][l]
         /\ SeenStores(t, w, l) # {} =>
              \E i \in SeenStores(t, w, l) : \A j \in SeenStores(t, w, l) : j <= i
         /\ \A i \in SeenStores(t, w, l) :
              (\A j \in SeenStores(t, w, l) : j <= i) => Seen(t, w, l) = sq[i].data[l]
<1>1. /\ Len(sq) \in Nat /\ DOMAIN sq = 1 .. Len(sq)
  BY QueueTypes
<1>2. PICK S, v : S = SeenStores(t, w, l) /\ v = Seen(t, w, l)
  OBVIOUS
<1>3. S \in SUBSET (1 .. Len(sq))
  BY <1>1, <1>2 DEF SeenStores
<1>4. v = IF S = {} THEN Coming[w][l] ELSE sq[CHOOSE i \in S : \A j \in S : j <= i].data[l]
  BY <1>2 DEF Seen
<1>5. /\ S = {} => v = Coming[w][l]
      /\ S # {} => \E i \in S : \A j \in S : j <= i
      /\ \A i \in S : (\A j \in S : j <= i) => v = sq[i].data[l]
  <2>1. CASE S = {}
    BY <1>4, <2>1
  <2>2. CASE S # {}
    <3>1. PICK c : c = CHOOSE i \in S : \A j \in S : j <= i
      OBVIOUS
    <3>2. c \in S /\ (\A j \in S : j <= c) /\ \A i \in S : (\A j \in S : j <= i) => i = c
      BY <1>1, <1>3, <2>2, <3>1, LastWriter
    <3>3. v = sq[c].data[l]
      BY <1>4, <2>2, <3>1
    <3> QED BY <2>2, <3>2, <3>3
  <2> QED BY <2>1, <2>2
<1> QED BY <1>2, <1>5

\* What a cycle leaves in the store queue for an access that has left the memory
\* queue or is the next to leave it: the same stores, but for the one that commits.
LEMMA SeenMoves ==
  ASSUME RingInv, OrderInv, PlaceInv, QueueInv, LoadInv, AtomicInv,
         NEW n \in 0 .. 2, NEW ready \in BOOLEAN, NEW grant \in BOOLEAN,
         NEW br \in Tag \cup {NoTag}, NEW squash \in BOOLEAN,
         Cycle(n, ready, grant, br, squash),
         NEW t \in Staying(br, squash), t \notin memq \/ t = qtag, IsMem(rob[t].pc), NEW w, NEW l
  PROVE  /\ \A i \in SeenStores(t, w, l)' :
              \E j \in SeenStores(t, w, l) : j = SqLo + i - 1 /\ sq'[i] = sq[j]
         /\ \A j \in SeenStores(t, w, l) : j >= SqLo =>
              j - SqLo + 1 \in SeenStores(t, w, l)'
         /\ commit_store =>
              (1 \in SeenStores(t, w, l) <=> sq[1].word = w /\ l \in Lanes(sq[1]))
<1>1. /\ Live' = Staying(br, squash) \cup Dispatched(n) /\ head' \in Tag
      /\ \A v, u \in Live' : TagYounger(v, u, head') <=> Younger(v, u)
      /\ Staying(br, squash) \subseteq Live
  BY CycleRob
<1>2. /\ SqLo \in 1 .. 2 /\ SqHi(br, squash) \in 0 .. Len(sq) /\ SqKept(br, squash) \in 0 .. Len(sq)
      /\ TakesStore(ready, grant, squash) => Len(sq') = SqKept(br, squash) + 1
      /\ ~TakesStore(ready, grant, squash) => Len(sq') = SqKept(br, squash)
      /\ \A i \in 1 .. SqKept(br, squash) :
              sq'[i] = sq[SqLo + i - 1] /\ SqLo + i - 1 \in DOMAIN sq
      /\ \A j \in DOMAIN sq : sq[j].tag \in Staying(br, squash) <=> SqLo <= j /\ j <= SqHi(br, squash)
  BY StoreQueueMoves
<1>3. /\ \A i \in DOMAIN sq' :
              \/ /\ TakesStore(ready, grant, squash) /\ sq'[i] = QueuedStore /\ i = Len(sq')
              \/ \E j \in DOMAIN sq : /\ j = SqLo + i - 1 /\ sq'[i] = sq[j]
                                      /\ sq[j].tag \in Staying(br, squash)
                                      /\ i <= SqKept(br, squash)
      /\ \A j \in DOMAIN sq : sq[j].tag \in Staying(br, squash) =>
              \E i \in DOMAIN sq' : sq'[i] = sq[j]
      /\ TakesStore(ready, grant, squash) => \E i \in DOMAIN sq' : sq'[i] = QueuedStore
      /\ DOMAIN sq' = 1 .. Len(sq') /\ Len(sq') \in Nat
  BY StoreQueueContents
<1>4. /\ Len(sq) \in Nat /\ DOMAIN sq = 1 .. Len(sq) /\ \A j \in DOMAIN sq : sq[j].tag \in Tag
  BY QueueTypes
<1>5. /\ t \in Live /\ t \in Tag /\ TagAge(t, head) \in 0 .. ROB_SIZE - 1
      /\ TagAge(t, head) >= commit_count /\ ~(squash /\ Younger(t, br))
      /\ commit_count \in 0 .. 2 /\ ROB_SIZE \in Nat
      /\ \A u \in Tag : TagAge(u, head) \in 0 .. ROB_SIZE - 1
  BY CommitFacts, HeadFacts, RobSizeAssumption DEF Staying, Live
<1>6. ASSUME TakesStore(ready, grant, squash)
      PROVE  /\ ~Younger(t, qtag) /\ qtag \in Live' /\ QueuedStore.tag = qtag
  <2>1. qtag \in memq /\ qtag \in Undone /\ squash = FALSE /\ QueuedStore.tag = qtag
    BY <1>6, EnteringStore
  <2>2. (t # qtag => Younger(qtag, t)) /\ qtag \in Tag /\ qtag \in Live /\ ~rob[qtag].done
    BY <1>5, <2>1 DEF PlaceInv, Undone, Live
  <2>3. TagAge(qtag, head) >= commit_count
    BY <1>5, <2>2, CommitFacts
  <2>4. qtag \in Staying(br, squash)
    BY <2>1, <2>2, <2>3 DEF Staying
  <2> QED BY <1>1, <1>5, <2>1, <2>2, <2>4 DEF Younger, TagYounger
<1>7. ASSUME NEW i \in SeenStores(t, w, l)'
      PROVE  \E j \in SeenStores(t, w, l) : j = SqLo + i - 1 /\ sq'[i] = sq[j]
  <2>1. i \in DOMAIN sq' /\ TagYounger(t, sq'[i].tag, head') /\ sq'[i].word = w /\ l \in Lanes(sq'[i])
    BY DEF SeenStores, Younger, Lanes
  <2>2. CASE TakesStore(ready, grant, squash) /\ sq'[i] = QueuedStore
    BY <1>1, <1>6, <2>1, <2>2
  <2>3. CASE \E j \in DOMAIN sq : /\ j = SqLo + i - 1 /\ sq'[i] = sq[j]
                                  /\ sq[j].tag \in Staying(br, squash)
    <3>1. PICK j \in DOMAIN sq : j = SqLo + i - 1 /\ sq'[i] = sq[j] /\ sq[j].tag \in Staying(br, squash)
      BY <2>3
    <3>2. Younger(t, sq[j].tag)
      BY <1>1, <2>1, <3>1
    <3> QED BY <2>1, <3>1, <3>2 DEF SeenStores
  <2> QED BY <1>3, <2>1, <2>2, <2>3
<1>8. ASSUME NEW j \in SeenStores(t, w, l), j >= SqLo
      PROVE  j - SqLo + 1 \in SeenStores(t, w, l)'
  <2>1. j \in DOMAIN sq /\ Younger(t, sq[j].tag) /\ sq[j].word = w /\ l \in Lanes(sq[j])
    BY DEF SeenStores
  <2>2. PICK u : u = sq[j].tag
    OBVIOUS
  <2>3. u \in Live /\ u \in Tag
    BY <1>4, <2>1, <2>2 DEF QueueInv, Elements
  <2>4. TagAge(u, head) >= commit_count
    BY <1>2, <1>8, <2>1, <2>2, StoreQueueFront DEF SqLo
  <2>5. ~(squash /\ Younger(u, br))
    <3> SUFFICES ASSUME squash, Younger(u, br) PROVE FALSE
      OBVIOUS
    <3>1. br \in Tag
      BY DEF Cycle, Live
    <3>2. Younger(t, br)
      BY <1>5, <2>1, <2>2, <2>3, <3>1 DEF Younger, TagYounger
    <3> QED BY <1>5, <3>2
  <2>6. u \in Staying(br, squash)
    BY <2>3, <2>4, <2>5 DEF Staying
  <2>7. j <= SqHi(br, squash)
    BY <1>2, <2>1, <2>2, <2>6
  <2>8. j \in Nat /\ SqHi(br, squash) \in Nat /\ SqLo \in Nat
    BY <1>2, <1>4, <2>1
  <2>9. PICK i : i = j - SqLo + 1
    OBVIOUS
  <2>10. i \in 1 .. SqKept(br, squash) /\ SqLo + i - 1 = j
    BY <1>8, <2>7, <2>8, <2>9 DEF SqKept
  <2>11. sq'[i] = sq[j] /\ i \in DOMAIN sq'
    BY <1>2, <1>3, <2>10
  <2>12. TagYounger(t, u, head')
    BY <1>1, <2>1, <2>2, <2>6
  <2> QED BY <2>1, <2>2, <2>9, <2>11, <2>12 DEF SeenStores, Younger, Lanes
<1>9. ASSUME commit_store
      PROVE  1 \in SeenStores(t, w, l) <=> sq[1].word = w /\ l \in Lanes(sq[1])
  <2>1. 1 \in DOMAIN sq /\ TagAge(sq[1].tag, head) < commit_count /\ sq[1].tag \in Tag
    BY <1>4, <1>9, StoreQueueFront
  <2>2. Younger(t, sq[1].tag)
    BY <1>5, <2>1 DEF Younger, TagYounger
  <2> QED BY <2>1, <2>2 DEF SeenStores
<1> QED BY <1>7, <1>8, <1>9

\* What it sees does not change.
LEMMA SeenStays ==
  ASSUME RingInv, OrderInv, PlaceInv, QueueInv, LoadInv, AtomicInv, DSideType, PortInv,
         NEW n \in 0 .. 2, NEW ready \in BOOLEAN, NEW grant \in BOOLEAN,
         NEW br \in Tag \cup {NoTag}, NEW squash \in BOOLEAN,
         Cycle(n, ready, grant, br, squash), ~atomic_write_intent, QueueInv',
         NEW t \in Staying(br, squash), t \notin memq \/ t = qtag, IsMem(rob[t].pc),
         NEW w \in Word, NEW l \in Lane
  PROVE  Seen(t, w, l)' = Seen(t, w, l)
<1>1. /\ \A i \in SeenStores(t, w, l)' :
              \E j \in SeenStores(t, w, l) : j = SqLo + i - 1 /\ sq'[i] = sq[j]
      /\ \A j \in SeenStores(t, w, l) : j >= SqLo => j - SqLo + 1 \in SeenStores(t, w, l)'
      /\ commit_store =>
              (1 \in SeenStores(t, w, l) <=> sq[1].word = w /\ l \in Lanes(sq[1]))
  BY SeenMoves
<1>2. PICK S, v, k, x : S = SeenStores(t, w, l) /\ v = Seen(t, w, l) /\ k = SeenStores(t, w, l)' /\ x = Seen(t, w, l)'
  OBVIOUS
<1>3. /\ S = {} => v = Coming[w][l]
      /\ S # {} => \E i \in S : \A j \in S : j <= i
      /\ \A i \in S : (\A j \in S : j <= i) => v = sq[i].data[l]
  BY <1>2, SeenFacts
<1>4. /\ k = {} => x = Coming'[w][l]
      /\ k # {} => \E i \in k : \A j \in k : j <= i
      /\ \A i \in k : (\A j \in k : j <= i) => x = sq'[i].data[l]
  <2>1. Len(sq') \in Nat /\ DOMAIN sq' = 1 .. Len(sq')
    BY StoreQueueContents
  <2>2. k \in SUBSET (1 .. Len(sq'))
    BY <1>2, <2>1 DEF SeenStores
  <2>3. x = IF k = {} THEN Coming'[w][l] ELSE sq'[CHOOSE i \in k : \A j \in k : j <= i].data[l]
    BY <1>2 DEF Seen
  <2>4. CASE k = {}
    BY <2>3, <2>4
  <2>5. CASE k # {}
    <3>1. PICK c : c = CHOOSE i \in k : \A j \in k : j <= i
      OBVIOUS
    <3>2. c \in k /\ (\A j \in k : j <= c) /\ \A i \in k : (\A j \in k : j <= i) => i = c
      BY <2>1, <2>2, <2>5, <3>1, LastWriter
    <3>3. x = sq'[c].data[l]
      BY <2>3, <2>5, <3>1
    <3> QED BY <2>5, <3>2, <3>3
  <2> QED BY <2>4, <2>5
<1>5. /\ Coming \in [Word -> Cell]
      /\ commit_store => Coming' = Written(Coming, [word |-> sq[1].word, data |-> sq[1].data])
      /\ ~commit_store => Coming' = Coming
  <2>1. StoreEnters
    BY CycleBargain
  <2>2. DSideCycle
    BY DEF Cycle
  <2> QED BY <2>1, <2>2, StepComing, ComingType
<1>6. S \subseteq 1 .. Len(sq) /\ k \subseteq 1 .. Len(sq') /\ Len(sq) \in Nat /\ Len(sq') \in Nat
  <2>1. DOMAIN sq = 1 .. Len(sq) /\ DOMAIN sq' = 1 .. Len(sq') /\ Len(sq) \in Nat /\ Len(sq') \in Nat
    BY QueueTypes, StoreQueueContents
  <2> QED BY <1>2, <2>1 DEF SeenStores
<1>7. SqLo \in 1 .. 2 /\ (commit_store <=> SqLo = 2)
  BY DEF SqLo
<1>8. CASE k # {}
  <2>1. PICK i \in k : \A j \in k : j <= i
    BY <1>4, <1>8
  <2>2. PICK j \in S : j = SqLo + i - 1 /\ sq'[i] = sq[j]
    BY <1>1, <1>2, <2>1
  <2>3. \A u \in S : u <= j
    <3> SUFFICES ASSUME NEW u \in S PROVE u <= j
      OBVIOUS
    <3>1. u \in 1 .. Len(sq) /\ i \in 1 .. Len(sq')
      BY <1>6
    <3>2. CASE u >= SqLo
      <4>1. u - SqLo + 1 \in k
        BY <1>1, <1>2, <3>2
      <4>2. u - SqLo + 1 <= i
        BY <2>1, <4>1
      <4> QED BY <1>6, <1>7, <2>2, <3>1, <4>2
    <3>3. CASE ~(u >= SqLo)
      BY <1>6, <1>7, <2>2, <3>1, <3>3
    <3> QED BY <3>2, <3>3
  <2>4. v = sq[j].data[l] /\ x = sq'[i].data[l]
    BY <1>3, <1>4, <2>1, <2>2, <2>3
  <2> QED BY <1>2, <2>2, <2>4
<1>9. CASE k = {}
  <2>1. \A u \in S : u < SqLo /\ u \in Nat
    <3> SUFFICES ASSUME NEW u \in S PROVE u < SqLo /\ u \in Nat
      OBVIOUS
    <3>1. u \in Nat /\ ~(u >= SqLo)
      BY <1>1, <1>2, <1>6, <1>9
    <3> QED BY <1>7, <3>1
  <2>2. CASE ~commit_store
    <3>1. S = {}
      BY <1>6, <1>7, <2>1, <2>2
    <3> QED BY <1>2, <1>3, <1>4, <1>5, <1>9, <2>2, <3>1
  <2>3. CASE commit_store
    <3>1. PICK s : s = [word |-> sq[1].word, data |-> sq[1].data]
      OBVIOUS
    <3>2. sq[1].word \in Word /\ sq[1].data \in Datum
      BY <2>3, StoreQueueFront, QueueTypes
    <3>3. s.word = sq[1].word /\ s.data = sq[1].data /\ Lanes(s) = Lanes(sq[1])
      BY <3>1 DEF Lanes
    <3>4. x = IF s.word = w /\ l \in Lanes(s) THEN s.data[l] ELSE Coming[w][l]
      <4>1. Coming'[w][l] = Written(Coming, s)[w][l]
        BY <1>5, <2>3, <3>1
      <4> QED BY <1>4, <1>5, <1>9, <3>2, <3>3, <4>1, WrittenByte
    <3>5. S \subseteq {1}
      BY <1>6, <1>7, <2>1, <2>3
    <3>6. 1 \in S <=> s.word = w /\ l \in Lanes(s)
      BY <1>1, <1>2, <2>3, <3>3
    <3>7. CASE 1 \in S
      <4>1. v = sq[1].data[l]
        BY <1>3, <3>5, <3>7
      <4> QED BY <1>2, <3>3, <3>4, <3>6, <3>7, <4>1
    <3>8. CASE 1 \notin S
      <4>1. S = {}
        BY <3>5, <3>8
      <4> QED BY <1>2, <1>3, <3>4, <3>6, <3>8, <4>1
    <3> QED BY <3>7, <3>8
  <2> QED BY <2>2, <2>3
<1> QED BY <1>8, <1>9

\* Nor the load it may be.
LEMMA LoadValueStays ==
  ASSUME RingInv, OrderInv, PlaceInv, QueueInv, LoadInv, AtomicInv, DSideType, PortInv,
         NEW n \in 0 .. 2, NEW ready \in BOOLEAN, NEW grant \in BOOLEAN,
         NEW br \in Tag \cup {NoTag}, NEW squash \in BOOLEAN,
         Cycle(n, ready, grant, br, squash), ~atomic_write_intent, QueueInv',
         NEW t \in Staying(br, squash), t \notin memq \/ t = qtag, IsMem(rob[t].pc)
  PROVE  LoadValue(t)' = LoadValue(t)
<1>1. PICK i : i = Code(rob[t].pc)
  OBVIOUS
<1>2. i \in Instruction /\ Code(rob[t].pc)' = i
  <2>1. rob'[t].pc = rob[t].pc /\ rob[t].pc \in PC
    BY CycleRing
  <2>2. prog' = prog
    BY CycleRob
  <2> QED BY <1>1, <2>1, <2>2, ProgramFacts DEF Code
<1>3. i.word \in Word /\ i.mask \in SUBSET Lane
  BY <1>2 DEF Instruction
<1>4. \A l \in i.mask : Seen(t, i.word, l)' = Seen(t, i.word, l)
  BY <1>3, SeenStays
<1>5. LoadValue(t) = [l \in i.mask |-> Seen(t, i.word, l)]
  BY <1>1 DEF LoadValue
<1>6. LoadValue(t)' = [l \in i.mask |-> Seen(t, i.word, l)']
  BY <1>2 DEF LoadValue
<1> QED BY <1>4, <1>5, <1>6

-----------------------------------------------------------------------------
(* What loads return.                                                      *)

\* A load that forwards from the store queue as it leaves the memory queue.
LEMMA ForwardValue ==
  ASSUME RingInv, PlaceInv, QueueInv, memq # {}, sq_fwd_hit
  PROVE  Forwarded(sq, qh.word, qh.mask) = LoadValue(qtag)
<1>1. /\ qtag \in memq /\ qtag \in Live /\ qh = Code(rob[qtag].pc)
  BY OldestQueued
<1>2. /\ Len(sq) \in Nat /\ DOMAIN sq = 1 .. Len(sq)
  BY QueueTypes
<1>3. PICK w, mask, y : w = qh.word /\ mask = qh.mask /\ y = YoungestOverlap(sq, w, mask)
  OBVIOUS
<1>4. /\ y \in DOMAIN sq /\ Overlaps(sq[y], w, mask) /\ mask \subseteq Lanes(sq[y])
      /\ \A j \in DOMAIN sq : Overlaps(sq[j], w, mask) => j <= y
  BY <1>2, <1>3, YoungestFacts DEF sq_fwd_hit, ForwardHit, Covers
<1>5. \A i \in DOMAIN sq : Younger(qtag, sq[i].tag)
  <2> SUFFICES ASSUME NEW i \in DOMAIN sq PROVE Younger(qtag, sq[i].tag)
    OBVIOUS
  <2>1. PICK u : u = sq[i].tag
    OBVIOUS
  <2>2. u \in Live /\ Op(u) = "st" /\ u \notin memq
    BY <2>1 DEF QueueInv, Elements, IsQueued
  <2>3. IsMem(rob[u].pc)
    BY <2>2 DEF Op, IsMem
  <2> QED BY <1>1, <2>1, <2>2, <2>3 DEF PlaceInv
<1>6. ASSUME NEW l \in mask PROVE Seen(qtag, w, l) = sq[y].data[l]
  <2>1. y \in SeenStores(qtag, w, l)
    BY <1>4, <1>5 DEF SeenStores, Overlaps
  <2>2. \A j \in SeenStores(qtag, w, l) : j <= y
    BY <1>4 DEF SeenStores, Overlaps
  <2> QED BY <2>1, <2>2, SeenFacts
<1>7. LoadValue(qtag) = [l \in mask |-> Seen(qtag, w, l)]
  BY <1>1, <1>3 DEF LoadValue
<1>8. Forwarded(sq, qh.word, qh.mask) = [l \in mask |-> sq[y].data[l]]
  BY <1>3 DEF Forwarded
<1> QED BY <1>6, <1>7, <1>8

\* A load that leaves the load stage with what the data side gives it.
LEMMA LoadedValue ==
  ASSUME RingInv, QueueInv, LoadInv, DSideType, PortInv, CacheCoherent,
         load_done, ~ld.squashed
  PROVE  load_result(Load) = LoadValue(ld.tag)
<1>1. /\ ld # NoLoad /\ Load # NoLoad /\ Load.word = ld.word /\ Load.mask = ld.mask
      /\ ld.word \in Word /\ ld.mask \in SUBSET Lane
  BY LoadFacts DEF load_done
<1>2. PICK w, mask : w = ld.word /\ mask = ld.mask
  OBVIOUS
<1>3. /\ Code(rob[ld.tag].pc).word = w /\ Code(rob[ld.tag].pc).mask = mask
      /\ \A i \in DOMAIN sq : Younger(ld.tag, sq[i].tag) => ~Overlaps(sq[i], w, mask)
  BY <1>1, <1>2 DEF LoadInv
<1>4. ASSUME NEW l \in mask PROVE Seen(ld.tag, w, l) = Coming[w][l]
  <2>1. SeenStores(ld.tag, w, l) = {}
    BY <1>3 DEF SeenStores, Overlaps
  <2> QED BY <2>1, SeenFacts
<1>5. LoadValue(ld.tag) = [l \in mask |-> Coming[w][l]]
  BY <1>3, <1>4 DEF LoadValue
<1>6. /\ mem \in [Word -> Cell] /\ Len(sb) \in Nat /\ DOMAIN sb = 1 .. Len(sb)
      /\ w \in Word /\ mask \in SUBSET Lane
  BY <1>1, <1>2, ComingType DEF DSideType
<1>7. /\ ~fill_write /\ ~start_fill(Load) /\ ~loadForwardConflict(Load)
      /\ ~load_waiting_for_store(Load) /\ ~start_uncached_load(Load)
  BY DEF load_done, stall
<1>8. CASE loadForwardHit(Load)
  <2>1. PICK y : y = YoungestOverlap(sb, w, mask)
    OBVIOUS
  <2>2. /\ y \in DOMAIN sb /\ Overlaps(sb[y], w, mask) /\ mask \subseteq Lanes(sb[y])
        /\ \A j \in DOMAIN sb : Overlaps(sb[j], w, mask) => j <= y
    BY <1>1, <1>2, <1>6, <1>8, <2>1, YoungestFacts DEF loadForwardHit, ForwardHit, Covers
  <2>3. ASSUME NEW l \in mask PROVE Coming[w][l] = sb[y].data[l]
    <3>1. IsLast(sb, y, w, l)
      BY <2>2 DEF IsLast, WriterSet, Overlaps
    <3>2. l \in Lane
      BY <1>6
    <3> QED BY <1>6, <3>1, <3>2, ImageFacts DEF Coming
  <2>4. load_result(Load) = [l \in mask |-> sb[y].data[l]]
    BY <1>1, <1>2, <1>8, <2>1 DEF load_result, Forwarded
  <2> QED BY <1>5, <2>3, <2>4
<1>9. CASE ~loadForwardHit(Load) /\ hit(Load)
  <2>1. Cached(Load) /\ Cacheable(w) /\ WaysOf(w) # {}
    BY <1>1, <1>2, <1>9 DEF hit, Cached
  <2>2. YoungestOverlap(sb, w, mask) = 0
    BY <1>1, <1>2, <1>7, <1>9, <2>1 DEF loadForwardConflict, loadForwardHit, ForwardConflict
  <2>3. \A i \in DOMAIN sb : ~Overlaps(sb[i], w, mask)
    BY <1>6, <2>2, YoungestFacts
  <2>4. ASSUME NEW l \in mask PROVE Coming[w][l] = mem[w][l]
    <3>1. WriterSet(sb, w, l) = {}
      BY <2>3 DEF WriterSet, Overlaps
    <3>2. l \in Lane
      BY <1>6
    <3> QED BY <1>6, <3>1, <3>2, ImageFacts DEF Coming
  <2>5. PICK y : y = CHOOSE z \in WaysOf(w) : TRUE
    OBVIOUS
  <2>6. y \in WaysOf(w)
    BY <2>1, <2>5
  <2>7. y \in Way /\ tags[y] = LineOf(w)
    BY <2>6 DEF WaysOf
  <2>8. OffsetOf(w) \in Offset /\ w = LineOf(w) * LINE_WORDS + OffsetOf(w)
        /\ LineOf(w) # NoLine
    BY <1>6, WordFacts, LoadStoreAssumption
  <2>9. lines[y][OffsetOf(w)] = mem[w]
    <3>1. ~(fill > 1 /\ y = victim)
      BY <1>7 DEF fill_write, DSideType
    <3> QED BY <2>7, <2>8, <3>1 DEF CacheCoherent
  <2>10. load_result(Load) = [l \in mask |-> lines[y][OffsetOf(w)][l]]
    BY <1>1, <1>2, <1>9, <2>5 DEF load_result
  <2> QED BY <1>5, <2>4, <2>9, <2>10
<1>10. CASE ~loadForwardHit(Load) /\ ~hit(Load)
  <2>1. fill = 0
    BY <1>7 DEF fill_write
  <2>2. sb = <<>> /\ uncached_wait
    <3>1. cached_load_miss(Load) \/ uncached_load(Load)
      BY <1>1, <1>7, <1>10 DEF cached_load_miss, uncached_load, Cached
    <3> QED BY <1>7, <2>1, <3>1
            DEF load_waiting_for_store, start_fill, start_uncached_load, busy, sb_empty
  <2>3. dout = mem[w]
    BY <1>2, <2>2 DEF PortInv
  <2>4. Coming = mem
    BY <1>6, <2>2, ImageEmpty DEF Coming
  <2>5. load_result(Load) = [l \in mask |-> dout[l]]
    BY <1>1, <1>2, <1>10 DEF load_result
  <2> QED BY <1>5, <2>3, <2>4, <2>5
<1> QED BY <1>8, <1>9, <1>10

\* What is unfinished and not squashed stays.
LEMMA UndoneStays ==
  ASSUME RingInv, NEW br \in Tag \cup {NoTag}, NEW squash \in BOOLEAN,
         NEW t \in Undone, squash => ~Younger(t, br)
  PROVE  t \in Staying(br, squash) /\ t \in Live /\ IsMem(rob[t].pc)
<1>1. t \in Tag /\ t \in Live /\ ~rob[t].done /\ IsMem(rob[t].pc)
  BY DEF Undone, Live
<1>2. TagAge(t, head) >= commit_count
  BY <1>1, CommitFacts, HeadFacts
<1> QED BY <1>1, <1>2 DEF Staying

\* What the output buffer holds after a cycle.
OutKept(grant, br, squash) ==
  /\ out_q' = out_q /\ grant = FALSE
  /\ out_q.tag \in Leaving => out_q.tag \in Staying(br, squash)
OutStored(ready, grant, squash) ==
  /\ out_q' = Completion(qtag, NoResult) /\ head_take(ready, grant, squash)
  /\ misaligned \/ qh.op = "st"
OutForwarded(ready, grant, squash) ==
  /\ out_q' = Completion(qtag, Forwarded(sq, qh.word, qh.mask))
  /\ head_take(ready, grant, squash) /\ TakeForward(grant)
OutLoaded(br, squash) ==
  /\ out_q' = Completion(ld.tag, load_result(Load))
  /\ load_done /\ ~ld.squashed /\ ld.tag \in Undone /\ (squash => ~Younger(ld.tag, br))

LEMMA OutMoves ==
  ASSUME RingInv, OrderInv, PlaceInv, QueueInv, LoadInv, AtomicInv,
         NEW n \in 0 .. 2, NEW ready \in BOOLEAN, NEW grant \in BOOLEAN,
         NEW br \in Tag \cup {NoTag}, NEW squash \in BOOLEAN,
         Cycle(n, ready, grant, br, squash), at.state # "write"
  PROVE  \/ out_q' = NoOutput
         \/ OutKept(grant, br, squash)
         \/ OutStored(ready, grant, squash)
         \/ OutForwarded(ready, grant, squash)
         \/ OutLoaded(br, squash)
<1>1. load_claims_out(grant) => load_done /\ ~ld.squashed /\ ld.tag \in Undone
  BY DEF load_claims_out, load_done, PlaceInv, Loading
<1>2. ASSUME grant = FALSE, squash => out_q.tag = NoTag \/ ~Younger(out_q.tag, br), out_q' = out_q
      PROVE  OutKept(grant, br, squash)
  <2>1. out_q.tag \in Leaving => out_q.tag \in Undone /\ out_q.tag # NoTag
    BY DEF PlaceInv, Leaving
  <2> QED BY <1>2, <2>1, UndoneStays DEF OutKept
<1>3. CASE head_take(ready, grant, squash)
  <2>1. squash = FALSE
    BY <1>3, TakeFacts
  <2>2. CASE TakeMisaligned(grant) \/ TakeStore(grant)
    <3>1. out_q' = Completion(qtag, NoResult)
      BY <1>3, <2>2 DEF Cycle, NextOut
    <3> QED BY <1>3, <2>2, <3>1 DEF OutStored, TakeMisaligned, TakeStore
  <2>3. CASE ~(TakeMisaligned(grant) \/ TakeStore(grant)) /\ TakeForward(grant)
    <3>1. out_q' = Completion(qtag, Forwarded(sq, qh.word, qh.mask))
      BY <1>3, <2>3 DEF Cycle, NextOut
    <3> QED BY <1>3, <2>3, <3>1 DEF OutForwarded
  <2>4. CASE ~(TakeMisaligned(grant) \/ TakeStore(grant)) /\ ~TakeForward(grant)
    <3>1. ~ToOutput(ready, grant, squash)
      BY <2>4 DEF ToOutput
    <3>2. out_q' = IF grant THEN NoOutput ELSE out_q
      <4>1. ToLoad(ready, grant, squash) => qh.op = "ld"
        BY DEF ToLoad, TakeLoad
      <4> QED BY <1>3, <3>1, TakeStep
    <3> QED BY <1>2, <2>1, <3>2
  <2> QED BY <2>2, <2>3, <2>4
<1>4. CASE ~head_take(ready, grant, squash) /\ load_claims_out(grant)
  <2>1. out_q' = IF squash /\ Younger(ld.tag, br) THEN NoOutput
                 ELSE Completion(ld.tag, load_result(Load))
    BY <1>4, NoTakeStep
  <2> QED BY <1>1, <1>4, <2>1 DEF OutLoaded
<1>5. CASE ~head_take(ready, grant, squash) /\ ~load_claims_out(grant)
  <2>1. out_q' = IF grant \/ (squash /\ out_q.tag # NoTag /\ Younger(out_q.tag, br))
                 THEN NoOutput ELSE out_q
    BY <1>5, NoTakeStep
  <2> QED BY <1>2, <2>1
<1> QED BY <1>3, <1>4, <1>5

LEMMA OutTag ==
  ASSUME RingInv, OrderInv, PlaceInv, QueueInv, LoadInv, AtomicInv,
         NEW n \in 0 .. 2, NEW ready \in BOOLEAN, NEW grant \in BOOLEAN,
         NEW br \in Tag \cup {NoTag}, NEW squash \in BOOLEAN,
         Cycle(n, ready, grant, br, squash), at.state # "write"
  PROVE  out_q'.tag \in Live \cup {NoTag}
<1>1. Undone \subseteq Live /\ Leaving \subseteq Undone
  BY DEF Undone, PlaceInv
<1>2. head_take(ready, grant, squash) => qtag \in Undone
  BY TakeFacts
<1>3. CASE out_q' = NoOutput
  BY <1>3 DEF NoOutput
<1>4. CASE OutKept(grant, br, squash)
  BY <1>1, <1>4 DEF OutKept, Leaving
<1>5. CASE OutStored(ready, grant, squash)
  BY <1>1, <1>2, <1>5 DEF OutStored, Completion
<1>6. CASE OutForwarded(ready, grant, squash)
  BY <1>1, <1>2, <1>6 DEF OutForwarded, Completion
<1>7. CASE OutLoaded(br, squash)
  BY <1>1, <1>7 DEF OutLoaded, Completion
<1> QED BY <1>3, <1>4, <1>5, <1>6, <1>7, OutMoves

\* The oldest instruction in flight after a cycle is the one behind what committed.
LEMMA NextPc ==
  ASSUME RingInv, OrderInv, PlaceInv, NEW n \in 0 .. 2, NEW ready \in BOOLEAN, NEW grant \in BOOLEAN,
         NEW br \in Tag \cup {NoTag}, NEW squash \in BOOLEAN,
         Cycle(n, ready, grant, br, squash)
  PROVE  /\ PcAt(0)' = PcAt(commit_count)
         /\ PcAt(0) \in Nat /\ PcAt(commit_count) \in Nat /\ PcAt(0) <= PcAt(commit_count)
         /\ commit0 => PcAt(0) = h0.pc /\ h0.pc \in PC /\ h0.pc < PcAt(commit_count)
                       /\ (Code(h0.pc).op # "br" => PcAt(1) = h0.pc + 1)
         /\ commit1 => PcAt(1) = h1.pc /\ h1.pc \in PC /\ h1.pc < PcAt(2) /\ h0.pc < h1.pc
                       /\ PcAt(2) = h1.pc + 1
<1>1. /\ commit_count \in 0 .. 2 /\ commit_count <= used /\ used \in Nat /\ fpc \in Nat
      /\ (commit0 <=> commit_count >= 1) /\ (commit1 <=> commit_count = 2)
      /\ used' \in 0 .. ROB_SIZE /\ head \in Tag /\ ROB_SIZE \in Nat
  BY CommitFacts, CycleRob, ProgramFacts, RobSizeAssumption DEF RingInv
<1>2. \A k \in 0 .. 2 : PcAt(k) \in Nat /\ (k < used => PcAt(k) \in PC)
  <2> SUFFICES ASSUME NEW k \in 0 .. 2 PROVE PcAt(k) \in Nat /\ (k < used => PcAt(k) \in PC)
    OBVIOUS
  <2>1. CASE k < used
    <3>1. PICK t : t = TagPlus(head, k)
      OBVIOUS
    <3>2. k \in 0 .. ROB_SIZE - 1 /\ k \in 0 .. ROB_SIZE
      BY <1>1, <2>1 DEF RingInv
    <3>3. t \in Tag /\ TagAge(t, head) = k
      BY <1>1, <3>1, <3>2, TagPlusType, AgeOfTag
    <3>4. rob[t].pc \in PC
      BY <2>1, <3>3 DEF RingInv, Live
    <3> QED BY <2>1, <3>1, <3>4, ProgramFacts DEF PcAt
  <2>2. CASE ~(k < used)
    BY <1>1, <2>2 DEF PcAt
  <2> QED BY <2>1, <2>2
<1>3. TagPlus(head, 0) = head
  BY <1>1, RobSizeAssumption DEF Tag, TagPlus
<1>4. /\ commit0 => PcAt(0) = h0.pc /\ PcAt(0) < PcAt(1)
                    /\ (Code(h0.pc).op # "br" => PcAt(1) = h0.pc + 1)
      /\ commit1 => PcAt(1) = h1.pc /\ PcAt(1) < PcAt(2) /\ PcAt(2) = h1.pc + 1
  <2>1. commit0 => PcAt(0) = h0.pc /\ 0 < used
    BY <1>1, <1>3 DEF PcAt, h0
  <2>2. commit1 => PcAt(1) = h1.pc /\ 1 < used /\ Code(h1.pc).op # "br"
    BY <1>1 DEF PcAt, h1, commit1
  <2> QED BY <2>1, <2>2 DEF OrderInv
<1>5. /\ squash => /\ n = 0 /\ Dispatched(n) = {} /\ br \in Staying(br, squash)
                   /\ used' = TagAge(br, head) + 1 - commit_count
      /\ ~squash => used' = used + n - commit_count
  BY CycleRob
<1>6. PcAt(0)' = PcAt(commit_count)
  <2>1. PcAt(0)' = IF 0 = used' THEN fpc'
                   ELSE IF commit_count < used THEN PcAt(commit_count)
                   ELSE fpc + (commit_count - used)
    <3>1. PICK c \in 0 .. 2 : c = commit_count
      BY <1>1
    <3>2. \A k \in 0 .. used' :
            PcAt(k)' = IF k = used' THEN fpc'
                       ELSE IF k + c < used THEN PcAt(k + c)
                       ELSE fpc + (k + c - used)
      BY <3>1, CyclePcs
    <3>3. \A k \in 0 .. used' : k = 0 =>
            PcAt(k)' = IF k = used' THEN fpc'
                       ELSE IF c < used THEN PcAt(c)
                       ELSE fpc + (c - used)
      <4> SUFFICES ASSUME NEW k \in 0 .. used', k = 0
                   PROVE  PcAt(k)' = IF k = used' THEN fpc'
                       ELSE IF c < used THEN PcAt(c)
                       ELSE fpc + (c - used)
        OBVIOUS
      <4>1. k + c = c
        OBVIOUS
      <4>2. PcAt(k)' = IF k = used' THEN fpc'
                       ELSE IF k + c < used THEN PcAt(k + c)
                       ELSE fpc + (k + c - used)
        BY <3>2
      <4>3. PICK x, y : x = PcAt(k)' /\ y = used'
        OBVIOUS
      <4>4. x = IF k = y THEN fpc'
                ELSE IF c < used THEN PcAt(c) ELSE fpc + (c - used)
        <5>1. used \in Nat /\ fpc \in Nat /\ k \in Int /\ y \in Int
          BY <1>1, <4>3
        <5>2. CASE k = y
          BY <4>2, <4>3, <5>2
        <5>3. CASE k # y
          BY <4>1, <4>2, <4>3, <5>1, <5>3
        <5> QED BY <5>2, <5>3
      <4> QED BY <4>3, <4>4
    <3>4. 0 \in 0 .. used'
      BY <1>1
    <3> QED BY <3>1, <3>3, <3>4
  <2>2. ASSUME 0 = used' PROVE fpc' = fpc /\ commit_count = used
    <3>1. CASE squash
      <4>1. br \in Tag /\ TagAge(br, head) >= commit_count
        BY <1>5, <3>1 DEF Staying, Live
      <4> QED BY <1>1, <1>5, <2>2, <3>1, <4>1, HeadFacts
    <3>2. CASE ~squash
      <4>1. fpc' = fpc + n
        BY <3>2, CycleRing
      <4> QED BY <1>1, <1>5, <2>2, <3>2, <4>1
    <3> QED BY <3>1, <3>2
  <2> QED BY <1>1, <2>1, <2>2 DEF PcAt
<1>7. CASE commit_count = 0
  BY <1>1, <1>2, <1>4, <1>6, <1>7
<1>8. CASE commit_count = 1
  BY <1>1, <1>2, <1>4, <1>6, <1>8
<1>9. CASE commit_count = 2
  BY <1>1, <1>2, <1>4, <1>6, <1>9
<1> QED BY <1>1, <1>7, <1>8, <1>9

\* What was returned stays, and nothing is returned ahead of the program.
LEMMA CycleResults ==
  ASSUME RingInv, OrderInv, PlaceInv, ValueInv,
         NEW n \in 0 .. 2, NEW ready \in BOOLEAN, NEW grant \in BOOLEAN,
         NEW br \in Tag \cup {NoTag}, NEW squash \in BOOLEAN,
         Cycle(n, ready, grant, br, squash)
  PROVE  /\ results' = [p \in PC' |-> results'[p]]
         /\ \A p \in PC' : p >= PcAt(0)' => results'[p] = NoResult
<1>1. /\ PC' = PC /\ \A p \in PC : p \in Nat
  <2>1. prog' = prog
    BY CycleRob
  <2> QED BY <2>1, StaticFacts, ProgramFacts
<1>2. results = [p \in PC |-> results[p]] /\ \A p \in PC : p >= PcAt(0) => results[p] = NoResult
  BY DEF ValueInv
<1>3. PICK c : c = PcAt(commit_count)
  OBVIOUS
<1>4. /\ PcAt(0)' = c /\ PcAt(0) \in Nat /\ c \in Nat /\ PcAt(0) <= c
      /\ commit0 => h0.pc \in PC /\ h0.pc < c
      /\ commit1 => h1.pc \in PC /\ h1.pc < c
  <2>1. commit1 => commit_count = 2
    BY CommitFacts
  <2>2. /\ PcAt(0)' = c /\ PcAt(0) \in Nat /\ c \in Nat /\ PcAt(0) <= c
        /\ commit0 => h0.pc \in PC /\ h0.pc < c
    BY <1>3, NextPc
  <2>3. commit1 => h1.pc \in PC /\ h1.pc < PcAt(2)
    BY NextPc
  <2> QED BY <1>3, <2>1, <2>2, <2>3
<1>5. results' = IF commit1 THEN [Committed(h0) EXCEPT ![h1.pc] = h1.val]
                 ELSE IF commit0 THEN Committed(h0) ELSE results
  BY DEF Cycle
<1>6. \A p \in PC : p >= c => p >= PcAt(0) /\ (commit0 => p # h0.pc) /\ (commit1 => p # h1.pc)
  BY <1>1, <1>4
<1>7. PICK r : r = results'
  OBVIOUS
<1>8. r = [p \in PC |-> r[p]] /\ \A p \in PC : p >= c => r[p] = NoResult
  <2>1. CASE commit1
    <3>1. commit0
      BY <2>1 DEF commit1
    <3>2. r = [[results EXCEPT ![h0.pc] = h0.val] EXCEPT ![h1.pc] = h1.val]
      BY <1>5, <1>7, <2>1 DEF Committed
    <3> QED BY <1>2, <1>4, <1>6, <2>1, <3>1, <3>2
  <2>2. CASE ~commit1 /\ commit0
    <3>1. r = [results EXCEPT ![h0.pc] = h0.val]
      BY <1>5, <1>7, <2>2 DEF Committed
    <3> QED BY <1>2, <1>4, <1>6, <2>2, <3>1
  <2>3. CASE ~commit1 /\ ~commit0
    BY <1>2, <1>5, <1>6, <1>7, <2>3
  <2> QED BY <2>1, <2>2, <2>3
<1> QED BY <1>1, <1>4, <1>7, <1>8

\* What the entries of the reorder buffer and the output buffer hold.
EntryValues ==
  /\ \A t \in Live : GoodLoad(t) /\ rob[t].done => rob[t].val = LoadValue(t)
  /\ \A t \in Live : GoodLoad(t) /\ out_q.tag = t => out_q.val = LoadValue(t)
  /\ \A t \in Live : Silent(t) => rob[t].val = NoResult
  /\ \A t \in Live : Silent(t) /\ out_q.tag = t => out_q.val = NoResult

LEMMA CycleKinds ==
  ASSUME RingInv, PlaceInv,
         NEW n \in 0 .. 2, NEW ready \in BOOLEAN, NEW grant \in BOOLEAN,
         NEW br \in Tag \cup {NoTag}, NEW squash \in BOOLEAN,
         Cycle(n, ready, grant, br, squash), NEW t \in Staying(br, squash)
  PROVE  /\ t \in Live /\ rob'[t] = Advanced(t, br, grant)
         /\ (GoodLoad(t)' <=> GoodLoad(t)) /\ (Silent(t)' <=> Silent(t))
         /\ GoodLoad(t) => IsMem(rob[t].pc) /\ t # br
<1>1. /\ prog' = prog /\ rob'[t] = Advanced(t, br, grant)
  BY CycleRob
<1>2. t \in Live /\ rob'[t].pc = rob[t].pc
  BY CycleRing
<1>3. PICK p : p = rob[t].pc
  OBVIOUS
<1>4. Code(p)' = Code(p) /\ (ISA!Faults(p)' <=> ISA!Faults(p))
  BY <1>1, StaticFacts
<1>5. Op(t) = Code(p).op /\ Op(t)' = Code(p).op
  BY <1>2, <1>3, <1>4 DEF Op
<1>6. GoodLoad(t)' <=> Code(p).op = "ld" /\ ~ISA!Faults(p)
  BY <1>2, <1>3, <1>4, <1>5 DEF GoodLoad
<1>7. GoodLoad(t) <=> Code(p).op = "ld" /\ ~ISA!Faults(p)
  BY <1>3, <1>5 DEF GoodLoad
<1>8. Silent(t)' <=> Silent(t)
  BY <1>5 DEF Silent
<1>9. GoodLoad(t) => IsMem(rob[t].pc) /\ t # br
  <2>1. br # NoTag => Op(br) = "br"
    BY DEF Cycle
  <2>2. t # NoTag
    BY <1>2, LoadStoreAssumption DEF Live
  <2> QED BY <1>3, <1>5, <1>7, <2>1, <2>2 DEF IsMem
<1> QED BY <1>1, <1>2, <1>6, <1>7, <1>8, <1>9

\* A cycle in which no atomic writes.
LEMMA CycleEntries ==
  ASSUME RingInv, OrderInv, PlaceInv, QueueInv, LoadInv, AtomicInv, DSideType, PortInv,
         CacheCoherent, EntryValues,
         NEW n \in 0 .. 2, NEW ready \in BOOLEAN, NEW grant \in BOOLEAN,
         NEW br \in Tag \cup {NoTag}, NEW squash \in BOOLEAN,
         Cycle(n, ready, grant, br, squash), at.state # "write", QueueInv'
  PROVE  EntryValues'
<1>1. /\ Live' = Staying(br, squash) \cup Dispatched(n) /\ Dispatched(n) \subseteq Tag
      /\ \A t \in Dispatched(n) : rob'[t] = RobEntry(fpc + TagAge(t, tail))
  BY CycleRob
<1>2. \A t \in Dispatched(n) : t \notin Live
  <2>1. CanDispatch(n)
    BY DEF Cycle
  <2> QED BY <2>1, DispatchFacts
<1>3. NoTag \notin Tag
  BY LoadStoreAssumption
<1>4. Undone \subseteq Live /\ Leaving \subseteq Undone /\ memq \cap Leaving = {}
      /\ memq \cap Loading = {}
  BY DEF Undone, PlaceInv
<1>5. ~atomic_write_intent
  BY DEF atomic_write_intent, atomic_valid
<1>6. ASSUME NEW t \in Staying(br, squash), t \notin memq \/ t = qtag, IsMem(rob[t].pc)
      PROVE  LoadValue(t)' = LoadValue(t)
  BY <1>5, <1>6, LoadValueStays
<1>7. head_take(ready, grant, squash) => memq # {} /\ qtag \in memq /\ qtag \in Undone /\ squash = FALSE
  BY TakeFacts
<1>8. ASSUME NEW t \in Dispatched(n)
      PROVE  /\ rob'[t].val = NoResult /\ (GoodLoad(t)' => ~rob'[t].done)
             /\ out_q'.tag # t
  <2>1. t \in Tag /\ t \notin Live
    BY <1>1, <1>2
  <2>2. PICK p : p = fpc + TagAge(t, tail)
    OBVIOUS
  <2>3. rob'[t] = RobEntry(p)
    BY <1>1, <2>2
  <2>4. rob'[t].val = NoResult /\ rob'[t].pc = p /\ rob'[t].done = (Code(p).op = "fencei")
    BY <2>3 DEF RobEntry
  <2>5. GoodLoad(t)' => Code(p).op = "ld"
    <3>1. prog' = prog
      BY CycleRob
    <3>2. Code(p)' = Code(p)
      BY <3>1, StaticFacts
    <3> QED BY <2>4, <3>2 DEF GoodLoad, Op
  <2>6. out_q'.tag # t
    BY <1>3, <2>1, OutTag
  <2> QED BY <2>4, <2>5, <2>6
<1>9. ASSUME NEW t \in Staying(br, squash), GoodLoad(t)
      PROVE  rob'[t].done => rob'[t].val = LoadValue(t)'
  <2>1. t \in Live /\ rob'[t] = Advanced(t, br, grant) /\ IsMem(rob[t].pc) /\ t # br
    BY <1>9, CycleKinds
  <2>2. CASE grant /\ t = out_q.tag
    <3>1. rob'[t].val = out_q.val
      BY <2>1, <2>2 DEF Advanced, Finished
    <3>2. t \in Leaving
      BY <1>3, <2>1, <2>2 DEF Leaving, Live
    <3>3. t \notin memq
      BY <1>4, <3>2
    <3> QED BY <1>6, <1>9, <2>1, <2>2, <3>1, <3>3 DEF EntryValues
  <2>3. CASE ~(grant /\ t = out_q.tag)
    <3>1. rob'[t] = rob[t]
      BY <2>1, <2>3 DEF Advanced
    <3> SUFFICES ASSUME rob[t].done PROVE rob[t].val = LoadValue(t)'
      BY <3>1
    <3>2. t \notin memq
      BY DEF PlaceInv, Undone
    <3> QED BY <1>6, <1>9, <2>1, <3>2 DEF EntryValues
  <2> QED BY <2>2, <2>3
<1>10. ASSUME NEW t \in Staying(br, squash), GoodLoad(t), out_q'.tag = t
       PROVE  out_q'.val = LoadValue(t)'
  <2>1. t \in Live /\ t \in Tag /\ IsMem(rob[t].pc) /\ Op(t) = "ld" /\ ~ISA!Faults(rob[t].pc)
    BY <1>10, CycleKinds DEF GoodLoad, Live
  <2>2. out_q' # NoOutput
    BY <1>3, <1>10, <2>1 DEF NoOutput
  <2>3. CASE OutKept(grant, br, squash)
    <3>1. out_q' = out_q /\ t \in Leaving
      BY <1>3, <1>10, <2>1, <2>3 DEF OutKept, Leaving
    <3>2. t \notin memq
      BY <1>4, <3>1
    <3> QED BY <1>6, <1>10, <2>1, <3>1, <3>2 DEF EntryValues
  <2>4. CASE OutStored(ready, grant, squash)
    <3>1. t = qtag /\ memq # {} /\ (misaligned \/ qh.op = "st")
      BY <1>7, <1>10, <2>4 DEF OutStored, Completion
    <3>2. qh = Code(rob[t].pc)
      BY <3>1, OldestQueued
    <3>3. qh.mask = {}
      BY <2>1, <3>1, <3>2 DEF misaligned, Op
    <3> QED BY <2>1, <3>2, <3>3 DEF ISA!Faults, Op, Code, ISA!Code
  <2>5. CASE OutForwarded(ready, grant, squash)
    <3>1. t = qtag /\ memq # {} /\ sq_fwd_hit /\ out_q'.val = Forwarded(sq, qh.word, qh.mask)
      BY <1>7, <1>10, <2>5 DEF OutForwarded, Completion, TakeForward
    <3>2. out_q'.val = LoadValue(qtag)
      BY <3>1, ForwardValue
    <3>3. LoadValue(t)' = LoadValue(t)
      BY <1>6, <2>1, <3>1
    <3> QED BY <3>1, <3>2, <3>3
  <2>6. CASE OutLoaded(br, squash)
    <3>1. t = ld.tag /\ load_done /\ ~ld.squashed /\ out_q'.val = load_result(Load)
      BY <1>10, <2>6 DEF OutLoaded, Completion
    <3>2. out_q'.val = LoadValue(t)
      BY <3>1, LoadedValue
    <3>3. t \in Loading
      BY <3>1 DEF Loading, load_done
    <3>4. LoadValue(t)' = LoadValue(t)
      BY <1>4, <1>6, <2>1, <3>3
    <3> QED BY <3>2, <3>4
  <2> QED BY <2>2, <2>3, <2>4, <2>5, <2>6, OutMoves
<1>11. ASSUME NEW t \in Staying(br, squash), Silent(t)
       PROVE  rob'[t].val = NoResult
  <2>1. t \in Live /\ rob'[t] = Advanced(t, br, grant)
    BY CycleKinds
  <2> QED BY <1>11, <2>1 DEF EntryValues, Advanced, Finished
<1>12. ASSUME NEW t \in Staying(br, squash), Silent(t), out_q'.tag = t
       PROVE  out_q'.val = NoResult
  <2>1. t \in Live /\ t \in Tag /\ Op(t) \in {"st", "br", "fencei"}
    BY <1>12, CycleKinds DEF Silent, Live
  <2>2. CASE out_q' = NoOutput
    BY <2>2 DEF NoOutput
  <2>3. CASE OutKept(grant, br, squash)
    BY <1>12, <2>1, <2>3 DEF OutKept, EntryValues
  <2>4. CASE OutStored(ready, grant, squash)
    BY <2>4 DEF OutStored, Completion
  <2>5. CASE OutForwarded(ready, grant, squash)
    <3>1. t = qtag /\ memq # {} /\ qh.op = "ld"
      BY <1>7, <1>12, <2>5 DEF OutForwarded, Completion, TakeForward
    <3> QED BY <2>1, <3>1, OldestQueued DEF Op
  <2>6. CASE OutLoaded(br, squash)
    <3>1. t = ld.tag /\ ld # NoLoad /\ ~ld.squashed
      BY <1>12, <2>6 DEF OutLoaded, Completion, load_done
    <3> QED BY <2>1, <3>1 DEF LoadInv
  <2> QED BY <2>2, <2>3, <2>4, <2>5, <2>6, OutMoves
<1>13. ASSUME NEW t \in Live'
       PROVE  /\ GoodLoad(t)' /\ rob'[t].done => rob'[t].val = LoadValue(t)'
              /\ GoodLoad(t)' /\ out_q'.tag = t => out_q'.val = LoadValue(t)'
              /\ Silent(t)' => rob'[t].val = NoResult
              /\ Silent(t)' /\ out_q'.tag = t => out_q'.val = NoResult
  <2>1. CASE t \in Dispatched(n)
    BY <1>8, <2>1
  <2>2. CASE t \in Staying(br, squash)
    <3>1. (GoodLoad(t)' <=> GoodLoad(t)) /\ (Silent(t)' <=> Silent(t))
      BY <2>2, CycleKinds
    <3> QED BY <1>9, <1>10, <1>11, <1>12, <2>2, <3>1
  <2> QED BY <1>1, <2>1, <2>2
<1> QED BY <1>13 DEF EntryValues

\* A cycle in which an atomic writes: nothing else is in flight.
LEMMA AtomicEntries ==
  ASSUME RingInv, OrderInv, PlaceInv, QueueInv, AtomicInv,
         NEW n \in 0 .. 2, NEW ready \in BOOLEAN, NEW grant \in BOOLEAN,
         NEW br \in Tag \cup {NoTag}, NEW squash \in BOOLEAN,
         Cycle(n, ready, grant, br, squash), at.state = "write"
  PROVE  EntryValues'
<1>1. Live = {head} /\ n = 0
  <2>1. LoneAtomic(n, ready, grant, br, squash)
    BY AtomicAlone
  <2> QED BY ONLY <2>1 DEF LoneAtomic
<1>2. Dispatched(n) = {}
  BY <1>1 DEF Dispatched
<1>3. Live' = Staying(br, squash) /\ Staying(br, squash) \subseteq Live
  <2>1. Live' = Staying(br, squash) \cup Dispatched(n)
    BY CycleRob
  <2> QED BY <1>2, <2>1 DEF Staying
<1>4. ~GoodLoad(head) /\ ~Silent(head)
  <2>1. ISA!IsAtomic(rob[head].pc)
    BY DEF AtomicInv
  <2> QED BY <2>1 DEF GoodLoad, Silent, Op, Code, ISA!IsAtomic, ISA!Code
<1>5. ASSUME NEW t \in Live' PROVE ~GoodLoad(t)' /\ ~Silent(t)'
  <2>1. t \in Staying(br, squash) /\ t = head
    BY <1>1, <1>3
  <2>2. (GoodLoad(t)' <=> GoodLoad(t)) /\ (Silent(t)' <=> Silent(t))
    BY <2>1, CycleKinds
  <2> QED BY <1>4, <2>1, <2>2
<1> QED BY <1>5 DEF EntryValues

LEMMA ValueParts ==
  ValueInv <=> /\ EntryValues
               /\ results = [p \in PC |-> results[p]]
               /\ \A p \in PC : p >= PcAt(0) => results[p] = NoResult
BY DEF ValueInv, EntryValues

LEMMA FlushValues ==
  ASSUME IInv, ValueInv, Flush
  PROVE  ValueInv'
<1>1. /\ RingInv /\ PlaceInv /\ AtomicInv /\ flush
  BY DEF IInv, Flush
<1>2. head \in Live /\ h0 = rob[head] /\ h0.pc \in PC
  BY <1>1, FlushFinds
<1>3. /\ rob' = [t \in Tag |-> Idle] /\ used' = 0 /\ fpc' = h0.pc + 1
      /\ results' = results /\ prog' = prog
  BY DEF Flush
<1>4. Live' = {}
  BY <1>3 DEF Live, Idle
<1>5. EntryValues'
  BY <1>4 DEF EntryValues
<1>6. PC' = PC /\ \A p \in PC : p \in Nat
  BY <1>1, <1>3, StaticFacts, ProgramFacts
<1>7. PcAt(0)' = h0.pc + 1
  BY <1>3 DEF PcAt
<1>8. PcAt(0) = h0.pc
  <2>1. used > 0 /\ head \in Tag
    BY <1>1, <1>2, HeadFacts DEF RingInv
  <2>2. TagPlus(head, 0) = head
    BY <2>1, RobSizeAssumption DEF Tag, TagPlus
  <2> QED BY <2>1, <2>2 DEF PcAt, h0
<1>9. \A p \in PC : p >= h0.pc + 1 => p >= h0.pc
  BY <1>2, <1>6
<1>10. results = [p \in PC |-> results[p]] /\ \A p \in PC : p >= PcAt(0) => results[p] = NoResult
  BY DEF ValueInv
<1>11. \A p \in PC : p >= h0.pc + 1 => results[p] = NoResult
  BY <1>8, <1>9, <1>10
<1> QED BY <1>3, <1>5, <1>6, <1>7, <1>10, <1>11 DEF ValueInv, EntryValues

LEMMA StepValues == ASSUME IInv, ValueInv, [Next]_vars, IInv' PROVE ValueInv'
<1>1. /\ RingInv /\ OrderInv /\ PlaceInv /\ QueueInv /\ LoadInv /\ DSideType /\ PortInv
      /\ AtomicInv /\ CacheCoherent /\ EntryValues /\ QueueInv'
  BY ValueParts DEF IInv
<1>2. ASSUME NEW n \in 0 .. 2, NEW ready \in BOOLEAN, NEW grant \in BOOLEAN,
             NEW br \in Tag \cup {NoTag}, NEW squash \in BOOLEAN,
             Cycle(n, ready, grant, br, squash)
      PROVE  ValueInv'
  <2>1. EntryValues'
    BY <1>1, <1>2, CycleEntries, AtomicEntries
  <2>2. /\ results' = [p \in PC' |-> results'[p]]
        /\ \A p \in PC' : p >= PcAt(0)' => results'[p] = NoResult
    BY <1>1, <1>2, CycleResults
  <2> QED BY <2>1, <2>2 DEF ValueInv, EntryValues
<1>3. CASE Flush
  BY <1>3, FlushValues
<1>4. CASE UNCHANGED vars
  <2>1. /\ prog' = prog /\ fpc' = fpc /\ rob' = rob /\ head' = head /\ used' = used
        /\ sq' = sq /\ out_q' = out_q /\ results' = results /\ mem' = mem /\ sb' = sb
    BY <1>4 DEF vars, lsuVars, dsideVars
  <2>2. Coming' = Coming
    BY <2>1 DEF Coming
  <2>3. PC' = PC /\ Live' = Live /\ PcAt(0)' = PcAt(0)
    BY <2>1 DEF PC, Live, PcAt
  <2>4. ASSUME NEW t \in Live
        PROVE  /\ LoadValue(t)' = LoadValue(t) /\ (GoodLoad(t)' <=> GoodLoad(t))
               /\ (Silent(t)' <=> Silent(t))
    <3>1. \A p : Code(p)' = Code(p) /\ (ISA!Faults(p)' <=> ISA!Faults(p))
      BY <2>1, StaticFacts
    <3>2. \A w, l : Seen(t, w, l)' = Seen(t, w, l)
      BY <2>1, <2>2 DEF Seen, SeenStores, Younger
    <3> QED BY <2>1, <3>1, <3>2 DEF LoadValue, GoodLoad, Silent, Op
  <2>5. EntryValues'
    BY <1>1, <2>1, <2>3, <2>4 DEF EntryValues
  <2>6. /\ results = [p \in PC |-> results[p]]
        /\ \A p \in PC : p >= PcAt(0) => results[p] = NoResult
    BY DEF ValueInv
  <2> QED BY <2>1, <2>3, <2>5, <2>6 DEF ValueInv, EntryValues
<1> QED BY <1>2, <1>3, <1>4 DEF Next

LEMMA InitValues == ASSUME Init PROVE ValueInv
<1>1. rob = [t \in Tag |-> Idle] /\ results = [p \in PC |-> NoResult]
  BY DEF Init
<1>2. Live = {}
  BY <1>1 DEF Live, Idle
<1>3. \A p \in PC : results[p] = NoResult
  BY <1>1
<1>4. results = [p \in PC |-> results[p]]
  BY <1>1
<1> QED BY <1>2, <1>3, <1>4 DEF ValueInv

(* What is finished and still in flight holds the result a machine in      *)
(* program order would give it at its place, forwarded, read past queued   *)
(* stores, from a refill or from a device; wrong paths included.           *)
THEOREM LoadStoreUnitValues == Spec => []ValueInv
<1>1. Init => ValueInv
  BY InitValues
<1>2. IInv /\ IInv' /\ ValueInv /\ [Next]_vars => ValueInv'
  BY StepValues
<1> QED BY <1>1, <1>2, Invariant, PTL DEF Spec

-----------------------------------------------------------------------------
(* Refinement.                                                             *)

ArchPc ==
  IF used = 0 THEN fpc
  ELSE IF ~Performed THEN h0.pc
  ELSE IF used > 1 THEN h1.pc ELSE fpc
ArchReserved ==
  IF atomic_commit = 0 THEN reserved
  ELSE IF Code(atomic_commit).op = "lr" THEN Code(atomic_commit).word ELSE NoWord
ArchResults == IF Performed THEN [results EXCEPT ![h0.pc] = PerformedResult] ELSE results

StateOf(p, m, r, x) == [pc |-> p, memory |-> m, reserved |-> r, results |-> x]

\* The operators of the abstract machine are those of the unit.
LEMMA SameOperators ==
  /\ \A p : /\ Arch!Code(p) = Code(p) /\ Arch!StoreOf(p) = ISA!StoreOf(p)
            /\ (Arch!Faults(p) <=> ISA!Faults(p)) /\ (Arch!IsAtomic(p) <=> ISA!IsAtomic(p))
  /\ \A m, s : Arch!Written(m, s) = Written(m, s)
  /\ \A c, k : Arch!Bytes(c, k) = [l \in k |-> c[l]] /\ ISA!Bytes(c, k) = [l \in k |-> c[l]]
<1>1. \A p : Arch!Code(p) = Code(p) /\ ISA!Code(p) = Code(p)
  BY DEF Arch!Code, ISA!Code, Code
<1>2. \A p : /\ Arch!StoreOf(p) = ISA!StoreOf(p)
             /\ (Arch!Faults(p) <=> ISA!Faults(p)) /\ (Arch!IsAtomic(p) <=> ISA!IsAtomic(p))
  BY <1>1 DEF Arch!StoreOf, ISA!StoreOf, Arch!Faults, ISA!Faults, Arch!IsAtomic, ISA!IsAtomic
<1>3. \A m, s : Arch!Written(m, s) = Written(m, s)
  BY DEF Arch!Written, Written, Arch!Merged, Merged
<1>4. \A c, k : Arch!Bytes(c, k) = [l \in k |-> c[l]] /\ ISA!Bytes(c, k) = [l \in k |-> c[l]]
  BY DEF Arch!Bytes, ISA!Bytes
<1> QED BY <1>1, <1>2, <1>3, <1>4

\* An instruction that faults or is no atomic, when a load returns what memory
\* holds and nothing else returns anything.
PlainStep(p, m, x, q, v, i, stores) ==
  /\ i = Code(p) /\ (i.op \in {"ld", "st", "br", "fencei"} \/ ISA!Faults(p))
  /\ i.op = "br" => q \in p + 1 .. Len(prog) + 1
  /\ i.op # "br" => q = p + 1
  /\ i.op = "ld" /\ ~ISA!Faults(p) => v = [l \in i.mask |-> m[i.word][l]]
  /\ i.op # "ld" \/ ISA!Faults(p) => [x EXCEPT ![p] = v] = x
  /\ stores = (i.op = "st" /\ ~ISA!Faults(p))

PlainAfter(p, m, r, x, q, v, i, stores) ==
  StateOf(q, IF stores THEN Written(m, ISA!StoreOf(p)) ELSE m,
          IF stores /\ r = i.word THEN NoWord ELSE r, [x EXCEPT ![p] = v])

\* What it leaves.
LEMMA ExecOne ==
  ASSUME NEW p, NEW m, NEW r, NEW x, NEW q, NEW v, NEW i, NEW stores,
         PlainStep(p, m, x, q, v, i, stores)
  PROVE  PlainAfter(p, m, r, x, q, v, i, stores) \in Arch!Exec(StateOf(p, m, r, x))
<1>20. /\ i = Code(p) /\ (i.op \in {"ld", "st", "br", "fencei"} \/ ISA!Faults(p))
       /\ i.op = "br" => q \in p + 1 .. Len(prog) + 1
       /\ i.op # "br" => q = p + 1
       /\ i.op = "ld" /\ ~ISA!Faults(p) => v = [l \in i.mask |-> m[i.word][l]]
       /\ i.op # "ld" \/ ISA!Faults(p) => [x EXCEPT ![p] = v] = x
       /\ stores = (i.op = "st" /\ ~ISA!Faults(p))
  BY DEF PlainStep
<1> USE <1>20
<1>1. PICK s : s = StateOf(p, m, r, x)
  OBVIOUS
<1>2. s = [pc |-> p, memory |-> m, reserved |-> r, results |-> x]
  BY <1>1 DEF StateOf
<1>3. s.pc = p /\ s.memory = m /\ s.reserved = r /\ s.results = x
  BY <1>2
<1>4. /\ i = Arch!Code(s.pc) /\ (Arch!Faults(s.pc) <=> ISA!Faults(p))
      /\ Arch!StoreOf(s.pc) = ISA!StoreOf(p)
  BY <1>3, SameOperators
<1>5. Arch!Faults(s.pc) <=> i.op \notin {"br", "fencei"} /\ i.mask = {}
  BY <1>4 DEF Arch!Faults
<1>21. PICK t : t = PlainAfter(p, m, r, x, q, v, i, stores)
  OBVIOUS
<1>6. t = StateOf(q, IF stores THEN Written(m, ISA!StoreOf(p)) ELSE m,
                  IF stores /\ r = i.word THEN NoWord ELSE r, [x EXCEPT ![p] = v])
  BY ONLY <1>21 DEF PlainAfter
<1>7. PICK next : next = [s EXCEPT !.pc = @ + 1]
  OBVIOUS
<1>8. next = StateOf(p + 1, m, r, x)
  BY <1>2, <1>7 DEF StateOf
<1>9. CASE i.op = "br"
  <2>1. Arch!Exec(s) = {[s EXCEPT !.pc = k] : k \in s.pc + 1 .. Len(prog) + 1}
    BY <1>4, <1>5, <1>9 DEF Arch!Exec
  <2>2. t = StateOf(q, m, r, x)
    BY <1>6, <1>9
  <2>3. [s EXCEPT !.pc = q] = t
    BY <1>2, <2>2 DEF StateOf
  <2> QED BY <1>1, <1>3, <1>21, <1>9, <2>1, <2>3
<1>10. CASE i.op # "br" /\ (i.op = "fencei" \/ ISA!Faults(p))
  <2>1. Arch!Exec(s) = {[s EXCEPT !.pc = @ + 1]}
    BY <1>4, <1>5, <1>10 DEF Arch!Exec
  <2>2. ~stores /\ [x EXCEPT ![p] = v] = x /\ q = p + 1
    BY <1>10
  <2>3. t = StateOf(p + 1, m, r, x)
    BY <1>6, <2>2
  <2> QED BY <1>1, <1>21, <1>7, <1>8, <2>1, <2>3
<1>11. PICK old, after : /\ old = Arch!Bytes(s.memory[i.word], i.mask)
                         /\ after = Arch!Written(s.memory, Arch!StoreOf(s.pc))
  OBVIOUS
<1>12. old = [l \in i.mask |-> m[i.word][l]] /\ after = Written(m, ISA!StoreOf(p))
  BY <1>3, <1>4, <1>11, SameOperators
<1>13. CASE i.op = "ld" /\ ~ISA!Faults(p)
  <2>1. ~Arch!Faults(s.pc) /\ i.mask # {}
    BY <1>4, <1>5, <1>13
  <2>2. Arch!Exec(s) = {[next EXCEPT !.results = [s.results EXCEPT ![s.pc] = old]]}
    <3>1. i = Arch!Code(s.pc) /\ i.op = "ld"
      BY <1>4, <1>13
    <3> QED BY <1>7, <1>11, <2>1, <3>1, Zenon DEF Arch!Exec
  <2>3. ~stores /\ v = old /\ q = p + 1
    BY <1>12, <1>13
  <2>4. t = StateOf(p + 1, m, r, [x EXCEPT ![p] = old])
    BY <1>6, <2>3
  <2>5. [next EXCEPT !.results = [s.results EXCEPT ![s.pc] = old]] = t
    BY <1>3, <1>8, <2>4 DEF StateOf
  <2> QED BY <1>1, <1>21, <2>2, <2>5
<1>14. CASE i.op = "st" /\ ~ISA!Faults(p)
  <2>1. ~Arch!Faults(s.pc) /\ i.mask # {}
    BY <1>4, <1>5, <1>14
  <2>2. Arch!Exec(s) = {[next EXCEPT !.memory = after,
                                     !.reserved = IF @ = i.word THEN NoWord ELSE @]}
    <3>1. i = Arch!Code(s.pc) /\ i.op = "st"
      BY <1>4, <1>14
    <3> QED BY <1>7, <1>11, <2>1, <3>1, Zenon DEF Arch!Exec
  <2>3. stores /\ [x EXCEPT ![p] = v] = x /\ q = p + 1
    BY <1>14
  <2>6. PICK k : k = IF r = i.word THEN NoWord ELSE r
    OBVIOUS
  <2>4. t = StateOf(p + 1, after, k, x)
    BY <1>6, <1>12, <2>3, <2>6
  <2>5. [next EXCEPT !.memory = after, !.reserved = IF @ = i.word THEN NoWord ELSE @] = t
    <3>1. next.reserved = r
      BY <1>8 DEF StateOf
    <3>2. [next EXCEPT !.memory = after, !.reserved = IF next.reserved = i.word THEN NoWord
                                                      ELSE next.reserved]
            = [next EXCEPT !.memory = after, !.reserved = k]
      BY <2>6, <3>1, Zenon
    <3>3. [next EXCEPT !.memory = after] = StateOf(p + 1, after, r, x)
      BY <1>8 DEF StateOf
    <3>4. [StateOf(p + 1, after, r, x) EXCEPT !.reserved = k] = t
      BY <2>4 DEF StateOf
    <3>5. [next EXCEPT !.memory = after, !.reserved = k] = t
      BY <3>3, <3>4, Zenon
    <3> QED BY <3>2, <3>5, Zenon
  <2> QED BY <1>1, <1>21, <2>2, <2>5
<1> QED BY <1>9, <1>10, <1>13, <1>14

\* An atomic: what it returns and what it leaves in memory and reserved.
AtomicStep(p, m, r, i, old, after, v, mm, rr) ==
  /\ i = Code(p) /\ ISA!IsAtomic(p) /\ ~ISA!Faults(p)
  /\ old = [l \in i.mask |-> m[i.word][l]]
  /\ after = Written(m, ISA!StoreOf(p))
  /\ i.op # "sc" => v = old
  /\ i.op = "sc" => v = (r = i.word)
  /\ mm = IF i.op = "amo" \/ (i.op = "sc" /\ r = i.word) THEN after ELSE m
  /\ rr = IF i.op = "lr" THEN i.word ELSE NoWord

\* It is the atomic of the architecture.
LEMMA ExecAtomic ==
  ASSUME NEW p, NEW m, NEW r, NEW x, NEW i, NEW old, NEW after, NEW v, NEW mm, NEW rr,
         AtomicStep(p, m, r, i, old, after, v, mm, rr)
  PROVE  StateOf(p + 1, mm, rr, [x EXCEPT ![p] = v]) \in Arch!Exec(StateOf(p, m, r, x))
<1>20. /\ i = Code(p) /\ ISA!IsAtomic(p) /\ ~ISA!Faults(p)
       /\ old = [l \in i.mask |-> m[i.word][l]]
       /\ after = Written(m, ISA!StoreOf(p))
       /\ i.op # "sc" => v = old
       /\ i.op = "sc" => v = (r = i.word)
       /\ mm = IF i.op = "amo" \/ (i.op = "sc" /\ r = i.word) THEN after ELSE m
       /\ rr = IF i.op = "lr" THEN i.word ELSE NoWord
  BY DEF AtomicStep
<1> USE <1>20
<1>1. PICK s : s = StateOf(p, m, r, x)
  OBVIOUS
<1>2. s = [pc |-> p, memory |-> m, reserved |-> r, results |-> x]
  BY <1>1 DEF StateOf
<1>3. s.pc = p /\ s.memory = m /\ s.reserved = r /\ s.results = x
  BY <1>2
<1>4. /\ i = Arch!Code(s.pc) /\ ~Arch!Faults(s.pc) /\ Arch!StoreOf(s.pc) = ISA!StoreOf(p)
  BY <1>3, SameOperators
<1>5. i.mask # {} /\ i.op \in {"lr", "sc", "amo"}
  <2>1. i.op \in {"lr", "sc", "amo"}
    BY SameOperators DEF Arch!IsAtomic
  <2>2. ~(i.op \notin {"br", "fencei"} /\ i.mask = {})
    BY <1>4 DEF Arch!Faults
  <2> QED BY <2>1, <2>2
<1>6. PICK next : next = [s EXCEPT !.pc = @ + 1]
  OBVIOUS
<1>7. next = StateOf(p + 1, m, r, x)
  BY <1>2, <1>6 DEF StateOf
<1>8. old = Arch!Bytes(s.memory[i.word], i.mask) /\ after = Arch!Written(s.memory, Arch!StoreOf(s.pc))
  BY <1>3, <1>4, SameOperators
<1>9. PICK y : y = [s.results EXCEPT ![s.pc] = old]
  OBVIOUS
<1>10. CASE i.op = "lr"
  <2>1. Arch!Exec(s) = {[next EXCEPT !.results = y, !.reserved = i.word]}
    BY <1>4, <1>5, <1>6, <1>8, <1>9, <1>10, Zenon DEF Arch!Exec
  <2>2. [next EXCEPT !.results = y] = StateOf(p + 1, m, r, y)
    BY <1>7 DEF StateOf
  <2>3. [StateOf(p + 1, m, r, y) EXCEPT !.reserved = i.word] = StateOf(p + 1, m, i.word, y)
    BY DEF StateOf
  <2>4. y = [x EXCEPT ![p] = old]
    BY <1>3, <1>9
  <2>5. v = old /\ mm = m /\ rr = i.word
    BY <1>10
  <2> QED BY <1>1, <2>1, <2>2, <2>3, <2>4, <2>5, Zenon
<1>11. CASE i.op = "amo"
  <2>1. Arch!Exec(s) = {[next EXCEPT !.results = y, !.memory = after, !.reserved = NoWord]}
    BY <1>4, <1>5, <1>6, <1>8, <1>9, <1>11, Zenon DEF Arch!Exec
  <2>2. [next EXCEPT !.results = y] = StateOf(p + 1, m, r, y)
    BY <1>7 DEF StateOf
  <2>3. [StateOf(p + 1, m, r, y) EXCEPT !.memory = after] = StateOf(p + 1, after, r, y)
    BY DEF StateOf
  <2>4. [StateOf(p + 1, after, r, y) EXCEPT !.reserved = NoWord] = StateOf(p + 1, after, NoWord, y)
    BY DEF StateOf
  <2>5. y = [x EXCEPT ![p] = old]
    BY <1>3, <1>9
  <2>6. v = old /\ mm = after /\ rr = NoWord
    BY <1>11
  <2>7. Arch!Exec(s) = {StateOf(p + 1, after, NoWord, y)}
    BY <2>1, <2>2, <2>3, <2>4, Zenon
  <2> QED BY <1>1, <2>5, <2>6, <2>7
<1>12. CASE i.op = "sc"
  <2> DEFINE z == [s.results EXCEPT ![s.pc] = (s.reserved = i.word)]
             k == IF s.reserved = i.word THEN after ELSE next.memory
  <2>1. Arch!Exec(s) = {[next EXCEPT !.results = z, !.memory = k, !.reserved = NoWord]}
    BY <1>4, <1>5, <1>6, <1>8, <1>12, Zenon DEF Arch!Exec
  <2>2. next.memory = m
    BY <1>7 DEF StateOf
  <2>3. k = IF r = i.word THEN after ELSE m
    BY <1>3, <2>2, Zenon
  <2>4. z = [x EXCEPT ![p] = (r = i.word)]
    BY <1>3, Zenon
  <2> HIDE DEF z, k
  <2>5. [next EXCEPT !.results = z] = StateOf(p + 1, m, r, z)
    BY <1>7 DEF StateOf
  <2>6. [StateOf(p + 1, m, r, z) EXCEPT !.memory = k] = StateOf(p + 1, k, r, z)
    BY DEF StateOf
  <2>7. [StateOf(p + 1, k, r, z) EXCEPT !.reserved = NoWord] = StateOf(p + 1, k, NoWord, z)
    BY DEF StateOf
  <2>8. Arch!Exec(s) = {StateOf(p + 1, k, NoWord, z)}
    BY <2>1, <2>5, <2>6, <2>7, Zenon
  <2>9. mm = (IF r = i.word THEN after ELSE m) /\ rr = NoWord
    BY <1>12
  <2>10. z = [x EXCEPT ![p] = v]
    BY <1>12, <2>4, Zenon
  <2> QED BY <1>1, <2>3, <2>8, <2>9, <2>10, Zenon
<1> QED BY <1>5, <1>10, <1>11, <1>12, Zenon

LEMMA BecomesIs ==
  ASSUME NEW p, NEW m, NEW r, NEW x, prog' = prog,
         ArchPc' = p, Coming' = m, ArchReserved' = r, ArchResults' = x
  PROVE  Arch!Becomes(StateOf(p, m, r, x))
<1>1. PICK s : s = StateOf(p, m, r, x)
  OBVIOUS
<1>2. s.pc = p /\ s.memory = m /\ s.reserved = r /\ s.results = x
  BY <1>1 DEF StateOf
<1>3. Arch!Becomes(s)
  BY <1>2 DEF Arch!Becomes, ArchPc, Coming, ArchReserved, ArchResults
<1> QED BY <1>1, <1>3

LEMMA StateIs == Arch!State = StateOf(ArchPc, Coming, ArchReserved, ArchResults)
BY DEF Arch!State, StateOf, ArchPc, Coming, ArchReserved, ArchResults

\* An atomic that has acted is alone, and the program goes on behind it.
LEMMA PerformedFacts ==
  ASSUME RingInv, OrderInv, PlaceInv, AtomicInv
  PROVE  /\ Performed => /\ used = 1 /\ Live = {head} /\ at.state = "idle"
                         /\ PcAt(1) = fpc /\ IsSystem(rob[head].pc)
                         /\ Op(head) \in {"lr", "sc", "amo"}
         /\ ArchPc = IF Performed THEN fpc ELSE PcAt(0)
<1>1. /\ head \in Tag /\ used \in 0 .. ROB_SIZE /\ ROB_SIZE \in Nat /\ used \in Nat
  BY RobSizeAssumption DEF RingInv
<1>2. TagPlus(head, 0) = head
  BY <1>1, RobSizeAssumption DEF Tag, TagPlus
<1>3. ASSUME Performed
      PROVE  /\ used = 1 /\ Live = {head} /\ at.state = "idle" /\ PcAt(1) = fpc
             /\ IsSystem(rob[head].pc) /\ Op(head) \in {"lr", "sc", "amo"}
  <2>1. used > 0 /\ ISA!IsAtomic(rob[head].pc) /\ (rob[head].done \/ out_q.tag = head)
    BY <1>3 DEF Performed, h0
  <2>2. head \in Live
    BY <1>1, <2>1, HeadFacts
  <2>3. used = 1
    BY <2>1, <2>2 DEF OrderInv, IsSystem
  <2>4. Live = {head}
    <3>1. \A t \in Live : t \in Tag /\ TagAge(t, head) < 1
      BY <2>3 DEF RingInv, Live
    <3>2. \A t \in Live : TagAge(t, head) = 0
      BY <3>1, HeadFacts, <1>1
    <3> QED BY <2>2, <3>1, <3>2, HeadFacts
  <2>5. at.state = "idle"
    <3>1. at.state # "idle" => head \in Running
      BY DEF AtomicInv, Running
    <3>2. head \in Running => head \in Undone /\ head \notin Leaving
      BY DEF PlaceInv
    <3>3. head # NoTag
      BY <1>1, LoadStoreAssumption
    <3> QED BY <2>1, <3>1, <3>2, <3>3 DEF Undone, Leaving
  <2>6. PcAt(1) = fpc
    BY <2>3 DEF PcAt
  <2>7. IsSystem(rob[head].pc) /\ Op(head) \in {"lr", "sc", "amo"}
    BY <2>1 DEF IsSystem, Op, Code, ISA!IsAtomic, ISA!Code
  <2> QED BY <2>3, <2>4, <2>5, <2>6, <2>7
<1>4. ~Performed => ArchPc = PcAt(0)
  BY <1>1, <1>2 DEF ArchPc, PcAt, h0
<1>5. Performed => ArchPc = fpc
  BY <1>3 DEF ArchPc
<1> QED BY <1>3, <1>4, <1>5

\* No cycle makes an atomic act but the one in which it writes.
LEMMA PerformedWas ==
  ASSUME RingInv, OrderInv, PlaceInv, QueueInv, LoadInv, AtomicInv,
         NEW n \in 0 .. 2, NEW ready \in BOOLEAN, NEW grant \in BOOLEAN,
         NEW br \in Tag \cup {NoTag}, NEW squash \in BOOLEAN,
         Cycle(n, ready, grant, br, squash), at.state # "write", Performed'
  PROVE  Performed /\ commit_count = 0
<1>1. PICK t, p : t = head' /\ p = rob'[t].pc
  OBVIOUS
<1>2. used' > 0 /\ ISA!IsAtomic(p)' /\ ~ISA!Faults(p)' /\ (rob'[t].done \/ out_q'.tag = t)
  <2>1. h0' = rob'[t]
    BY <1>1 DEF h0
  <2> QED BY <1>1, <2>1 DEF Performed
<1>3. prog' = prog /\ t \in Tag /\ RingInv'
  BY <1>1, CycleRob, CycleRing
<1>4. ISA!IsAtomic(p) /\ ~ISA!Faults(p) /\ Code(p).op \in {"lr", "sc", "amo"}
  <2>1. ISA!IsAtomic(p) /\ ~ISA!Faults(p)
    BY <1>2, <1>3, StaticFacts
  <2> QED BY <2>1 DEF ISA!IsAtomic, ISA!Code, Code
<1>5. t \in Staying(br, squash) \cup Dispatched(n)
  <2>1. t \in Live'
    <3>1. TagAge(t, t) = 0
      BY <1>3, RobSizeAssumption DEF Tag, TagAge
    <3>2. rob'[t].live <=> TagAge(t, head') < used'
      BY <1>3 DEF RingInv
    <3> QED BY <1>1, <1>2, <1>3, <3>1, <3>2 DEF Live
  <2>2. Live' = Staying(br, squash) \cup Dispatched(n)
    BY CycleRob
  <2> QED BY <2>1, <2>2
<1>6. t \notin Dispatched(n)
  <2> SUFFICES ASSUME t \in Dispatched(n) PROVE FALSE
    OBVIOUS
  <2>1. CanDispatch(n)
    BY DEF Cycle
  <2>2. t \notin Live /\ rob'[t] = RobEntry(fpc + TagAge(t, tail))
    BY <2>1, DispatchFacts, CycleRob
  <2>3. rob'[t].done = (Code(p).op = "fencei")
    BY <1>1, <2>2 DEF RobEntry
  <2>4. out_q'.tag # t
    BY <1>3, <2>2, OutTag, LoadStoreAssumption
  <2> QED BY <1>2, <1>4, <2>3, <2>4
<1>7. t \in Staying(br, squash) /\ t \in Live /\ rob[t].pc = p /\ rob'[t] = Advanced(t, br, grant)
  BY <1>1, <1>5, <1>6, CycleRing, CycleRob
<1>8. used = 1 /\ t = head /\ commit_count = 0
  <2>1. used = 1
    BY <1>4, <1>7 DEF OrderInv, IsSystem
  <2>2. TagAge(t, head) < 1 /\ TagAge(t, head) >= commit_count
    BY <1>3, <1>7, <2>1 DEF RingInv, Live, Staying
  <2>3. TagAge(t, head) \in Nat /\ commit_count \in 0 .. 2
    BY <1>3, HeadFacts, CommitFacts, RobSizeAssumption
  <2> QED BY <1>3, <2>1, <2>2, <2>3, HeadFacts
<1>9. rob[t].done \/ out_q.tag = t
  <2>1. CASE rob'[t].done
    <3>1. t # br
      <4>1. br # NoTag => Op(br) = "br"
        BY DEF Cycle
      <4> QED BY <1>3, <1>4, <1>7, <4>1, LoadStoreAssumption DEF Op
    <3> QED BY <1>7, <2>1, <3>1 DEF Advanced
  <2>2. CASE out_q'.tag = t
    <3>1. t # NoTag
      BY <1>3, LoadStoreAssumption
    <3>2. CASE out_q' = NoOutput
      BY <2>2, <3>1, <3>2 DEF NoOutput
    <3>3. CASE OutKept(grant, br, squash)
      BY <2>2, <3>3 DEF OutKept
    <3>4. CASE OutStored(ready, grant, squash)
      <4>1. t = qtag /\ memq # {} /\ (qh.mask = {} \/ qh.op = "st")
        BY <2>2, <3>4, TakeFacts DEF OutStored, Completion, misaligned
      <4>2. qh = Code(p)
        BY <1>7, <4>1, OldestQueued
      <4> QED BY <1>4, <4>1, <4>2 DEF ISA!Faults, ISA!Code, Code
    <3>5. CASE OutForwarded(ready, grant, squash)
      <4>1. t = qtag /\ memq # {} /\ qh.op = "ld"
        BY <2>2, <3>5, TakeFacts DEF OutForwarded, Completion, TakeForward
      <4>2. qh = Code(p)
        BY <1>7, <4>1, OldestQueued
      <4> QED BY <1>4, <4>1, <4>2
    <3>6. CASE OutLoaded(br, squash)
      <4>1. t = ld.tag /\ ld # NoLoad /\ ~ld.squashed
        BY <2>2, <3>6 DEF OutLoaded, Completion, load_done
      <4>2. Op(t) = "ld"
        BY <4>1 DEF LoadInv
      <4> QED BY <1>4, <1>7, <4>2 DEF Op
    <3> QED BY <3>2, <3>3, <3>4, <3>5, <3>6, OutMoves
  <2> QED BY <1>2, <2>1, <2>2
<1> QED BY <1>4, <1>7, <1>8, <1>9 DEF Performed, h0

\* An atomic that has acted waits unchanged until it commits.
LEMMA PerformedStays ==
  ASSUME RingInv, OrderInv, PlaceInv, QueueInv, LoadInv, AtomicInv,
         NEW n \in 0 .. 2, NEW ready \in BOOLEAN, NEW grant \in BOOLEAN,
         NEW br \in Tag \cup {NoTag}, NEW squash \in BOOLEAN,
         Cycle(n, ready, grant, br, squash), Performed
  PROVE  /\ n = 0 /\ br = NoTag /\ squash = FALSE /\ fpc' = fpc /\ used' = 1 - commit_count
         /\ ~commit_store /\ ~commit1
         /\ commit_count = 0 => /\ Performed' /\ PerformedResult' = PerformedResult
                                /\ h0'.pc = h0.pc
<1>1. /\ used = 1 /\ Live = {head} /\ at.state = "idle" /\ IsSystem(rob[head].pc)
      /\ Op(head) \in {"lr", "sc", "amo"}
  BY PerformedFacts
<1>2. ISA!IsAtomic(rob[head].pc) /\ ~ISA!Faults(rob[head].pc) /\ (rob[head].done \/ out_q.tag = head)
  BY DEF Performed, h0
<1>3. n = 0 /\ br = NoTag /\ squash = FALSE
  <2>1. n = 0
    BY <1>1 DEF Cycle, CanDispatch
  <2>2. br = NoTag
    <3>1. br # NoTag => br \in Live /\ Op(br) = "br"
      BY DEF Cycle
    <3> QED BY <1>1, <3>1
  <2> QED BY <2>1, <2>2 DEF Cycle
<1>4. fpc' = fpc /\ commit_count \in 0 .. 2 /\ commit_count <= used
  <2>1. ~squash => fpc' = fpc + n
    BY CycleRing
  <2>2. fpc \in Nat
    BY ProgramFacts DEF RingInv
  <2> QED BY <1>3, <2>1, <2>2, CommitFacts
<1>5. used' = 1 - commit_count
  <2>1. ~squash => used' = used + n - commit_count
    BY CycleRob
  <2> QED BY <1>1, <1>3, <1>4, <2>1
<1>6. ~commit1
  BY <1>1, <1>4, CommitFacts
<1>7. ~commit_store
  BY <1>1, <1>6 DEF commit_store, IsStore, Op, h0
<1>8. ASSUME commit_count = 0
      PROVE  Performed' /\ PerformedResult' = PerformedResult /\ h0'.pc = h0.pc
  <2>1. head' = head /\ head \in Tag /\ head # NoTag /\ used' = 1
    <3>1. head' = TagPlus(head, commit_count) /\ head \in Tag
      BY CycleRob DEF RingInv
    <3> QED BY <1>5, <1>8, <3>1, RobSizeAssumption, LoadStoreAssumption DEF Tag, TagPlus
  <2>2. head \in Staying(br, squash)
    BY <1>1, <1>3, <1>8, <2>1, HeadFacts DEF Staying
  <2>3. rob'[head] = Advanced(head, br, grant) /\ rob'[head].pc = rob[head].pc /\ prog' = prog
    BY <2>2, CycleRob, CycleRing
  <2>4. rob'[head] = IF grant /\ head = out_q.tag THEN Finished(rob[head], out_q.val) ELSE rob[head]
    BY <1>3, <2>1, <2>3 DEF Advanced
  <2>5. PICK p : p = rob[head].pc
    OBVIOUS
  <2>6. /\ h0 = rob[head] /\ h0' = rob'[head] /\ h0.pc = p /\ h0'.pc = p
        /\ ISA!IsAtomic(p)' /\ ~ISA!Faults(p)'
    BY <1>2, <2>1, <2>3, <2>5, StaticFacts DEF h0
  <2>7. ASSUME rob'[head].done \/ out_q'.tag = head
        PROVE  Performed'
    BY <2>1, <2>6, <2>7 DEF Performed
  <2>8. Undone \subseteq {head} /\ (rob[head].done => Undone = {})
    BY <1>1 DEF Undone
  <2>9. CASE rob[head].done
    <3>1. out_q.tag = NoTag
      BY <2>8, <2>9 DEF PlaceInv, Leaving
    <3>2. rob'[head] = rob[head]
      BY <2>1, <2>4, <3>1
    <3> QED BY <2>6, <2>7, <2>9, <3>2 DEF PerformedResult
  <2>10. CASE ~rob[head].done /\ grant
    <3>1. rob'[head].done /\ rob'[head].val = out_q.val
      BY <1>2, <2>4, <2>10 DEF Finished
    <3> QED BY <2>6, <2>7, <2>10, <3>1 DEF PerformedResult
  <2>11. CASE ~rob[head].done /\ ~grant
    <3>1. out_q.tag = head /\ rob'[head] = rob[head]
      BY <1>2, <2>4, <2>11
    <3>2. head \in Leaving
      BY <2>1, <3>1 DEF Leaving
    <3>3. memq = {} /\ Loading = {}
      BY <2>8, <3>2 DEF PlaceInv
    <3>4. ~head_take(ready, grant, squash)
      BY <3>3 DEF head_take, CanTake
    <3>5. ~load_claims_out(grant)
      BY <3>3 DEF load_claims_out, load_done, Loading
    <3>6. out_q' = IF grant \/ (squash /\ out_q.tag # NoTag /\ Younger(out_q.tag, br))
                   THEN NoOutput ELSE out_q
      BY <1>1, <3>4, <3>5, NoTakeStep
    <3>7. out_q' = out_q
      BY <1>3, <2>11, <3>6
    <3> QED BY <2>6, <2>7, <2>11, <3>1, <3>7 DEF PerformedResult
  <2> QED BY <2>9, <2>10, <2>11
<1> QED BY <1>3, <1>4, <1>5, <1>6, <1>7, <1>8

\* The oldest instructions see no store but those before them.
LEMMA OldestSee ==
  ASSUME RingInv, PlaceInv, QueueInv, DSideType, NEW w, NEW l
  PROVE  /\ Seen(head, w, l) = Coming[w][l]
         /\ commit1 /\ ~IsStore(h0) => Seen(TagPlus(head, 1), w, l) = Coming[w][l]
         /\ commit1 /\ IsStore(h0) =>
              Seen(TagPlus(head, 1), w, l) =
                IF sq[1].word = w /\ l \in Lanes(sq[1]) THEN sq[1].data[l] ELSE Coming[w][l]
<1>1. /\ head \in Tag /\ TagAge(head, head) = 0 /\ TagPlus(head, 1) \in Tag
      /\ TagAge(TagPlus(head, 1), head) = 1
      /\ \A t \in Tag : TagAge(t, head) \in Nat /\ (TagAge(t, head) = 0 => t = head)
  BY HeadFacts, RobSizeAssumption DEF RingInv
<1>2. /\ DOMAIN sq = 1 .. Len(sq) /\ Len(sq) \in Nat /\ \A i \in DOMAIN sq : sq[i].tag \in Tag
  BY QueueTypes
<1>3. SeenStores(head, w, l) = {}
  BY <1>1, <1>2 DEF SeenStores, Younger, TagYounger
<1>4. \A i \in SeenStores(TagPlus(head, 1), w, l) : sq[i].tag = head /\ i \in DOMAIN sq
  <2> SUFFICES ASSUME NEW i \in SeenStores(TagPlus(head, 1), w, l)
               PROVE  sq[i].tag = head /\ i \in DOMAIN sq
    OBVIOUS
  <2>1. i \in DOMAIN sq /\ TagAge(sq[i].tag, head) < 1
    BY <1>1 DEF SeenStores, Younger, TagYounger
  <2> QED BY <1>1, <1>2, <2>1
<1>5. ASSUME commit1, ~IsStore(h0)
      PROVE  SeenStores(TagPlus(head, 1), w, l) = {}
  <2>1. \A i \in DOMAIN sq : Op(sq[i].tag) = "st"
    <3> SUFFICES ASSUME NEW i \in DOMAIN sq PROVE Op(sq[i].tag) = "st"
      OBVIOUS
    <3>1. PICK u : u = sq[i].tag
      OBVIOUS
    <3> QED BY <3>1 DEF QueueInv, Elements, IsQueued
  <2>2. Op(head) # "st"
    BY <1>5 DEF IsStore, h0, Op
  <2> QED BY <1>4, <2>1, <2>2
<1>6. ASSUME commit1, IsStore(h0)
      PROVE  Seen(TagPlus(head, 1), w, l) =
               IF sq[1].word = w /\ l \in Lanes(sq[1]) THEN sq[1].data[l] ELSE Coming[w][l]
  <2>1. commit_store /\ commit0 /\ commit_count = 2
    BY <1>6, CommitFacts DEF commit_store, commit1
  <2>2. /\ 1 \in DOMAIN sq /\ sq[1].tag = head
        /\ \A i \in DOMAIN sq : i > 1 => TagAge(sq[i].tag, head) >= 2
    <3>1. \A i \in DOMAIN sq : (i > 1 \/ ~commit_store) => TagAge(sq[i].tag, head) >= commit_count
      BY StoreQueueFront
    <3> QED BY <1>6, <2>1, <3>1, StoreQueueFront
  <2>3. PICK S : S = SeenStores(TagPlus(head, 1), w, l)
    OBVIOUS
  <2>4. \A i \in S : i = 1
    BY <1>1, <1>2, <1>4, <2>2, <2>3
  <2>5. 1 \in S <=> sq[1].word = w /\ l \in Lanes(sq[1])
    BY <1>1, <2>2, <2>3 DEF SeenStores, Younger, TagYounger
  <2>6. CASE 1 \in S
    <3>1. \A j \in S : j <= 1
      BY <2>4
    <3> QED BY <2>3, <2>5, <2>6, <3>1, SeenFacts
  <2>7. CASE 1 \notin S
    <3>1. S = {}
      BY <2>4, <2>7
    <3> QED BY <2>3, <2>5, <2>7, <3>1, SeenFacts
  <2> QED BY <2>6, <2>7
<1> QED BY <1>3, <1>5, <1>6, SeenFacts

\* The oldest instruction, when it commits and is no atomic, leaves what the
\* machine in program order would.
LEMMA CommitFirst ==
  ASSUME IInv, ValueInv, NEW n \in 0 .. 2, NEW ready \in BOOLEAN, NEW grant \in BOOLEAN,
         NEW br \in Tag \cup {NoTag}, NEW squash \in BOOLEAN,
         Cycle(n, ready, grant, br, squash), commit0, ~Performed
  PROVE  /\ h0.pc \in PC /\ Code(h0.pc).op \in {"ld", "st", "br"} /\ ~ISA!Faults(h0.pc)
         /\ StateOf(PcAt(1), IF IsStore(h0) THEN Written(Coming, ISA!StoreOf(h0.pc)) ELSE Coming,
                    IF IsStore(h0) /\ reserved = Code(h0.pc).word THEN NoWord ELSE reserved,
                    Committed(h0))
              \in Arch!Exec(StateOf(h0.pc, Coming, reserved, results))
<1>1. /\ RingInv /\ OrderInv /\ PlaceInv /\ QueueInv /\ DSideType /\ ~flush
  BY DEF IInv, Cycle
<1>2. PICK p, i, v : p = h0.pc /\ i = Code(p) /\ v = h0.val
  OBVIOUS
<1>3. /\ head \in Live /\ head \in Tag /\ rob[head].pc = p /\ rob[head].done /\ rob[head].val = v
      /\ ~ISA!Faults(p) /\ p \in PC /\ i \in Instruction /\ used > 0 /\ PcAt(0) = p
  <2>1. head \in Live /\ head \in Tag /\ used > 0
    BY <1>1, CommitFacts, HeadFacts DEF RingInv
  <2>2. PcAt(0) = h0.pc /\ h0.pc \in PC
    BY <1>1, NextPc
  <2> QED BY <1>1, <1>2, <2>1, <2>2, ProgramFacts DEF commit0, h0
<1>4. i.op \in {"ld", "st", "br"}
  <2>1. i.op # "fencei"
    BY <1>1, <1>2 DEF flush, fence_i_commit
  <2>2. ~ISA!IsAtomic(p)
    BY <1>2, <1>3 DEF Performed, h0
  <2>3. i.op \notin {"lr", "sc", "amo"}
    BY <1>2, <2>2 DEF ISA!IsAtomic, ISA!Code, Code
  <2> QED BY <1>3, <2>1, <2>3 DEF Instruction, Operation
<1>5. /\ i.op # "br" => PcAt(1) = p + 1
      /\ i.op = "br" => PcAt(1) \in p + 1 .. Len(prog) + 1
  <2>1. i.op # "br" => PcAt(1) = p + 1
    BY <1>1, <1>2, NextPc
  <2>2. PcAt(0) < PcAt(1)
    BY <1>1, <1>3 DEF OrderInv
  <2>3. PcAt(1) \in 1 .. Len(prog) + 1
    <3>1. CASE 1 < used
      <4>1. TagPlus(head, 1) \in Live
        BY <1>1, <3>1, HeadFacts
      <4> QED BY <1>1, <3>1, <4>1, ProgramFacts DEF PcAt, RingInv
    <3>2. CASE ~(1 < used)
      BY <1>1, <3>2 DEF PcAt, RingInv
    <3> QED BY <3>1, <3>2
  <2>4. p \in Nat /\ Len(prog) \in Nat
    BY <1>1, <1>3, ProgramFacts
  <2> QED BY <1>3, <2>1, <2>2, <2>3, <2>4
<1>6. i.op = "ld" => v = [l \in i.mask |-> Coming[i.word][l]]
  <2> SUFFICES ASSUME i.op = "ld" PROVE v = [l \in i.mask |-> Coming[i.word][l]]
    OBVIOUS
  <2>1. GoodLoad(head)
    BY <1>2, <1>3 DEF GoodLoad, Op
  <2>2. v = LoadValue(head)
    BY <1>3, <2>1 DEF ValueInv
  <2>3. LoadValue(head) = [l \in i.mask |-> Seen(head, i.word, l)]
    BY <1>2, <1>3 DEF LoadValue
  <2>4. \A l \in i.mask : Seen(head, i.word, l) = Coming[i.word][l]
    BY <1>1, OldestSee
  <2> QED BY <2>2, <2>3, <2>4
<1>7. i.op # "ld" => [results EXCEPT ![p] = v] = results
  <2> SUFFICES ASSUME i.op # "ld" PROVE [results EXCEPT ![p] = v] = results
    OBVIOUS
  <2>1. v = NoResult
    BY <1>2, <1>3, <1>4 DEF ValueInv, Silent, Op
  <2>2. results = [q \in PC |-> results[q]] /\ \A q \in PC : q >= PcAt(0) => results[q] = NoResult
    BY DEF ValueInv
  <2>3. results[p] = NoResult
    BY <1>1, <1>3, <2>2, ProgramFacts
  <2> QED BY <1>3, <2>1, <2>2, <2>3
<1>8. PICK q : q = PcAt(1)
  OBVIOUS
<1>9. PICK stores : stores = (i.op = "st" /\ ~ISA!Faults(p))
  OBVIOUS
<1>10. StateOf(q, IF stores THEN Written(Coming, ISA!StoreOf(p)) ELSE Coming,
               IF stores /\ reserved = i.word THEN NoWord ELSE reserved, [results EXCEPT ![p] = v])
         \in Arch!Exec(StateOf(p, Coming, reserved, results))
  <2>1. i = Code(p) /\ i.op \in {"ld", "st", "br", "fencei"}
    BY <1>2, <1>4
  <2>2. /\ i.op = "br" => q \in p + 1 .. Len(prog) + 1
        /\ i.op # "br" => q = p + 1
    BY <1>5, <1>8
  <2>3. /\ i.op = "ld" /\ ~ISA!Faults(p) => v = [l \in i.mask |-> Coming[i.word][l]]
        /\ i.op # "ld" \/ ISA!Faults(p) => [results EXCEPT ![p] = v] = results
    BY <1>3, <1>6, <1>7
  <2>4. PlainStep(p, Coming, results, q, v, i, stores)
    BY ONLY <1>9, <2>1, <2>2, <2>3, Zenon DEF PlainStep
  <2>5. PlainAfter(p, Coming, reserved, results, q, v, i, stores)
          \in Arch!Exec(StateOf(p, Coming, reserved, results))
    BY ONLY <2>4, ExecOne
  <2> QED BY ONLY <2>5 DEF PlainAfter
<1>11. stores <=> IsStore(h0)
  BY <1>2, <1>3, <1>9 DEF IsStore
<1>12. Committed(h0) = [results EXCEPT ![p] = v]
  BY <1>2 DEF Committed
<1>13. StateOf(PcAt(1), IF IsStore(h0) THEN Written(Coming, ISA!StoreOf(h0.pc)) ELSE Coming,
               IF IsStore(h0) /\ reserved = Code(h0.pc).word THEN NoWord ELSE reserved,
               Committed(h0))
         = StateOf(q, IF stores THEN Written(Coming, ISA!StoreOf(p)) ELSE Coming,
               IF stores /\ reserved = i.word THEN NoWord ELSE reserved, [results EXCEPT ![p] = v])
  BY <1>2, <1>8, <1>11, <1>12
<1> QED BY <1>2, <1>3, <1>4, <1>10, <1>13

\* What a cycle in which no atomic writes does to memory and the reservation.
LEMMA CycleArch ==
  ASSUME IInv, NEW n \in 0 .. 2, NEW ready \in BOOLEAN, NEW grant \in BOOLEAN,
         NEW br \in Tag \cup {NoTag}, NEW squash \in BOOLEAN,
         Cycle(n, ready, grant, br, squash), at.state # "write",
         NEW p, commit_store => p = rob[sq[1].tag].pc
  PROVE  /\ prog' = prog
         /\ commit_store => Coming' = Written(Coming, ISA!StoreOf(p))
         /\ ~commit_store => Coming' = Coming
         /\ atomic_commit # 0 => ArchReserved' = ArchReserved /\ Performed
         /\ atomic_commit = 0 /\ commit_store =>
              ArchReserved' = IF reserved = Code(p).word THEN NoWord ELSE reserved
         /\ atomic_commit = 0 /\ ~commit_store => ArchReserved' = reserved
         /\ atomic_commit = 0 => ArchReserved = reserved
<1>1. /\ RingInv /\ OrderInv /\ PlaceInv /\ QueueInv /\ LoadInv /\ DSideType /\ PortInv /\ AtomicInv
  BY DEF IInv
<1>2. prog' = prog
  BY DEF Cycle
<1>3. ~atomic_write_intent /\ ~atomic_valid
  BY DEF atomic_write_intent, atomic_valid
<1>4. commit_store => /\ [word |-> sq[1].word, data |-> sq[1].data] = ISA!StoreOf(p)
                      /\ sq[1].word = Code(p).word
  <2> SUFFICES ASSUME commit_store
               PROVE  /\ [word |-> sq[1].word, data |-> sq[1].data] = ISA!StoreOf(p)
                      /\ sq[1].word = Code(p).word
    OBVIOUS
  <2>1. 1 \in DOMAIN sq
    BY <1>1, StoreQueueFront
  <2>2. sq[1].word = Code(p).word /\ sq[1].data = ISA!StoreOf(p).data
    BY <1>1, <2>1 DEF QueueInv
  <2>3. ISA!StoreOf(p) = [word |-> Code(p).word, data |-> ISA!StoreOf(p).data]
    BY DEF ISA!StoreOf, ISA!Code, Code
  <2> QED BY <2>2, <2>3
<1>5. /\ commit_store =>
           Coming' = Written(Coming, [word |-> sq[1].word, data |-> sq[1].data])
      /\ ~commit_store => Coming' = Coming
  <2>1. StoreEnters
    BY <1>1, CycleBargain
  <2>2. DSideCycle
    BY DEF Cycle
  <2> QED BY <1>1, <1>3, <2>1, <2>2, StepComing
<1>6. ArchReserved' = NextReserved
  <2>1. reserved' = NextReserved /\ atomic_commit' = 0
    BY <1>3 DEF Cycle
  <2> QED BY <2>1 DEF ArchReserved
<1>7. NextReserved = IF atomic_commit # 0 THEN ArchReserved
                     ELSE IF commit_store /\ sq[1].word = reserved THEN NoWord ELSE reserved
  BY DEF NextReserved, ArchReserved
<1>8. atomic_commit # 0 => Performed
  BY <1>1 DEF AtomicInv, Performed, h0
<1>9. atomic_commit = 0 => ArchReserved = reserved
  BY DEF ArchReserved
<1>10. commit_store => Coming' = Written(Coming, ISA!StoreOf(p))
  BY <1>4, <1>5
<1>11. atomic_commit = 0 /\ commit_store =>
         ArchReserved' = IF reserved = Code(p).word THEN NoWord ELSE reserved
  BY <1>4, <1>6, <1>7
<1> QED BY <1>2, <1>5, <1>6, <1>7, <1>8, <1>9, <1>10, <1>11

LEMMA CycleArchPc ==
  ASSUME IInv, NEW n \in 0 .. 2, NEW ready \in BOOLEAN, NEW grant \in BOOLEAN,
         NEW br \in Tag \cup {NoTag}, NEW squash \in BOOLEAN,
         Cycle(n, ready, grant, br, squash), ~Performed'
  PROVE  ArchPc' = PcAt(commit_count) /\ ArchResults' = results'
<1>1. RingInv /\ OrderInv /\ PlaceInv
  BY DEF IInv
<1>2. head' \in Tag /\ used' \in 0 .. ROB_SIZE
  BY <1>1, CycleRob
<1>3. TagPlus(head', 0) = head'
  <2>1. PICK h \in Tag : h = head'
    BY <1>2
  <2>2. TagPlus(h, 0) = h
    BY RobSizeAssumption DEF Tag, TagPlus
  <2> QED BY <2>1, <2>2
<1>4. ArchPc' = PcAt(0)'
  <2>1. CASE used' = 0
    BY <2>1 DEF ArchPc, PcAt
  <2>2. CASE used' # 0
    <3>1. 0 < used'
      BY <1>2, <2>2, RobSizeAssumption
    <3> QED BY <1>3, <2>2, <3>1 DEF ArchPc, PcAt, h0
  <2> QED BY <2>1, <2>2
<1>5. PcAt(0)' = PcAt(commit_count)
  BY <1>1, NextPc
<1> QED BY <1>4, <1>5 DEF ArchResults

\* One instruction commits.
LEMMA StepOneMaps ==
  ASSUME IInv, ValueInv, NEW n \in 0 .. 2, NEW ready \in BOOLEAN, NEW grant \in BOOLEAN,
         NEW br \in Tag \cup {NoTag}, NEW squash \in BOOLEAN,
         Cycle(n, ready, grant, br, squash), at.state # "write",
         commit0, ~commit1, ~Performed
  PROVE  Arch!StepOne
<1>1. RingInv /\ OrderInv /\ PlaceInv /\ QueueInv /\ LoadInv /\ AtomicInv
  BY DEF IInv
<1>2. commit_count = 1 /\ PcAt(0) = h0.pc
  BY <1>1, NextPc DEF commit_count
<1>3. ~Performed'
  BY <1>1, PerformedWas
<1>4. ArchPc' = PcAt(1) /\ ArchResults' = Committed(h0)
  <2>1. results' = Committed(h0)
    BY DEF Cycle
  <2> QED BY <1>2, <1>3, <2>1, CycleArchPc
<1>5. ArchPc = h0.pc /\ ArchResults = results
  BY <1>1, <1>2, PerformedFacts DEF ArchResults
<1>6. PICK p, m, r : /\ p = h0.pc
                     /\ m = IF IsStore(h0) THEN Written(Coming, ISA!StoreOf(h0.pc)) ELSE Coming
                     /\ r = IF IsStore(h0) /\ reserved = Code(h0.pc).word THEN NoWord ELSE reserved
  OBVIOUS
<1>7. commit_store <=> IsStore(h0)
  BY DEF commit_store
<1>8. commit_store => p = rob[sq[1].tag].pc
  <2>1. commit_store => sq[1].tag = head
    BY <1>1, <1>7, StoreQueueFront
  <2> QED BY <1>6, <2>1 DEF h0
<1>9. /\ prog' = prog /\ Coming' = m /\ ArchReserved' = r /\ ArchReserved = reserved
  <2>1. /\ prog' = prog
        /\ commit_store => Coming' = Written(Coming, ISA!StoreOf(p))
        /\ ~commit_store => Coming' = Coming
        /\ atomic_commit # 0 => ArchReserved' = ArchReserved /\ Performed
        /\ atomic_commit = 0 /\ commit_store =>
             ArchReserved' = IF reserved = Code(p).word THEN NoWord ELSE reserved
        /\ atomic_commit = 0 /\ ~commit_store => ArchReserved' = reserved
        /\ atomic_commit = 0 => ArchReserved = reserved
    BY <1>8, CycleArch
  <2>2. CASE commit_store
    BY <1>6, <1>7, <2>1, <2>2
  <2>3. CASE ~commit_store
    BY <1>6, <1>7, <2>1, <2>3
  <2> QED BY <2>2, <2>3
<1>10. p \in PC /\ StateOf(PcAt(1), m, r, Committed(h0)) \in Arch!Exec(StateOf(p, Coming, reserved, results))
  BY <1>6, CommitFirst
<1>11. Arch!State = StateOf(p, Coming, reserved, results)
  BY <1>5, <1>6, <1>9, StateIs
<1>12. Arch!Becomes(StateOf(PcAt(1), m, r, Committed(h0)))
  BY <1>4, <1>9, BecomesIs
<1>13. ArchPc \in Arch!PC
  BY <1>5, <1>6, <1>10 DEF Arch!PC, PC
<1> QED BY <1>10, <1>11, <1>12, <1>13 DEF Arch!StepOne, ArchPc

\* The instruction behind the oldest, when both commit in one cycle.
LEMMA CommitSecond ==
  ASSUME IInv, ValueInv, NEW n \in 0 .. 2, NEW ready \in BOOLEAN, NEW grant \in BOOLEAN,
         NEW br \in Tag \cup {NoTag}, NEW squash \in BOOLEAN,
         Cycle(n, ready, grant, br, squash), commit1,
         NEW m, m = IF IsStore(h0) THEN Written(Coming, ISA!StoreOf(h0.pc)) ELSE Coming,
         NEW r, NEW x, x = Committed(h0)
  PROVE  StateOf(PcAt(2), IF IsStore(h1) THEN Written(m, ISA!StoreOf(h1.pc)) ELSE m,
                 IF IsStore(h1) /\ r = Code(h1.pc).word THEN NoWord ELSE r,
                 [x EXCEPT ![h1.pc] = h1.val])
           \in Arch!Exec(StateOf(h1.pc, m, r, x))
<1>1. /\ RingInv /\ OrderInv /\ PlaceInv /\ QueueInv /\ DSideType
  BY DEF IInv
<1>2. PICK t, p, i, v : t = TagPlus(head, 1) /\ p = h1.pc /\ i = Code(p) /\ v = h1.val
  OBVIOUS
<1>3. /\ commit0 /\ h1 = rob[t] /\ rob[t].done /\ ~ISA!Faults(p) /\ ~IsSystem(p) /\ i.op # "br"
  BY <1>2 DEF commit1, h1
<1>4. t \in Live /\ rob[t].pc = p /\ rob[t].val = v
  BY <1>1, <1>2, <1>3, CommitFacts
<1>5. /\ PcAt(2) = p + 1 /\ p \in PC /\ h0.pc \in PC /\ h0.pc < p /\ PcAt(0) = h0.pc
  BY <1>1, <1>2, <1>3, NextPc
<1>6. p \in Nat /\ h0.pc \in Nat /\ i \in Instruction
  BY <1>1, <1>2, <1>5, ProgramFacts
<1>7. i.op \in {"ld", "st"} /\ i.word \in Word /\ i.mask \in SUBSET Lane
  <2>1. i.op \notin {"lr", "sc", "amo", "fencei"}
    BY <1>2, <1>3 DEF IsSystem, ISA!IsAtomic, ISA!Code, Code
  <2> QED BY <1>3, <1>6, <2>1 DEF Instruction, Operation
<1>8. i.op = "ld" => v = [l \in i.mask |-> m[i.word][l]]
  <2> SUFFICES ASSUME i.op = "ld" PROVE v = [l \in i.mask |-> m[i.word][l]]
    OBVIOUS
  <2>1. GoodLoad(t)
    BY <1>2, <1>3, <1>4 DEF GoodLoad, Op
  <2>2. v = LoadValue(t)
    BY <1>3, <1>4, <2>1 DEF ValueInv
  <2>3. LoadValue(t) = [l \in i.mask |-> Seen(t, i.word, l)]
    BY <1>2, <1>4 DEF LoadValue
  <2>4. ASSUME NEW l \in i.mask PROVE Seen(t, i.word, l) = m[i.word][l]
    <3>1. CASE ~IsStore(h0)
      BY <1>1, <1>2, <3>1, OldestSee
    <3>2. CASE IsStore(h0)
      <4>1. PICK s : s = ISA!StoreOf(h0.pc)
        OBVIOUS
      <4>2. /\ 1 \in DOMAIN sq /\ sq[1].tag = head
        BY <1>1, <1>3, <3>2, StoreQueueFront DEF commit_store
      <4>3. sq[1].word = Code(h0.pc).word /\ sq[1].data = s.data
        BY <1>1, <4>1, <4>2 DEF QueueInv, h0
      <4>4. s.word = Code(h0.pc).word
        BY <4>1 DEF ISA!StoreOf, ISA!Code, Code
      <4>5. s.word \in Word /\ s.data \in Datum
        BY <1>1, <4>2, <4>3, <4>4, QueueTypes
      <4>6. Lanes(sq[1]) = Lanes(s)
        BY <4>3 DEF Lanes
      <4>7. Seen(t, i.word, l) =
              IF sq[1].word = i.word /\ l \in Lanes(sq[1]) THEN sq[1].data[l] ELSE Coming[i.word][l]
        BY <1>1, <1>2, <3>2, OldestSee
      <4>8. Coming \in [Word -> Cell] /\ l \in Lane
        BY <1>1, <1>7, ComingType
      <4>9. Written(Coming, s)[i.word][l] =
              IF s.word = i.word /\ l \in Lanes(s) THEN s.data[l] ELSE Coming[i.word][l]
        BY <1>7, <4>5, <4>8, WrittenByte
      <4>10. m = Written(Coming, s)
        BY <3>2, <4>1
      <4> QED BY <4>3, <4>4, <4>6, <4>7, <4>9, <4>10
    <3> QED BY <3>1, <3>2
  <2> QED BY <2>2, <2>3, <2>4
<1>9. i.op # "ld" => [x EXCEPT ![p] = v] = x
  <2> SUFFICES ASSUME i.op # "ld" PROVE [x EXCEPT ![p] = v] = x
    OBVIOUS
  <2>1. Silent(t)
    BY <1>2, <1>4, <1>7 DEF Silent, Op
  <2>2. v = NoResult
    BY <1>4, <2>1 DEF ValueInv
  <2>3. results = [q \in PC |-> results[q]] /\ \A q \in PC : q >= PcAt(0) => results[q] = NoResult
    BY DEF ValueInv
  <2>4. results[p] = NoResult
    BY <1>5, <1>6, <2>3
  <2>5. x = [results EXCEPT ![h0.pc] = h0.val]
    BY DEF Committed
  <2>6. x[p] = NoResult /\ x = [q \in PC |-> x[q]]
    BY <1>5, <1>6, <2>3, <2>4, <2>5
  <2> QED BY <1>5, <2>2, <2>6
<1>10. PICK q : q = PcAt(2)
  OBVIOUS
<1>11. PICK stores : stores = (i.op = "st" /\ ~ISA!Faults(p))
  OBVIOUS
<1>12. StateOf(q, IF stores THEN Written(m, ISA!StoreOf(p)) ELSE m,
               IF stores /\ r = i.word THEN NoWord ELSE r, [x EXCEPT ![p] = v])
         \in Arch!Exec(StateOf(p, m, r, x))
  <2>1. i = Code(p) /\ i.op \in {"ld", "st", "br", "fencei"}
    BY <1>2, <1>7
  <2>2. /\ i.op = "br" => q \in p + 1 .. Len(prog) + 1
        /\ i.op # "br" => q = p + 1
    BY <1>5, <1>7, <1>10
  <2>3. /\ i.op = "ld" /\ ~ISA!Faults(p) => v = [l \in i.mask |-> m[i.word][l]]
        /\ i.op # "ld" \/ ISA!Faults(p) => [x EXCEPT ![p] = v] = x
    BY <1>3, <1>8, <1>9
  <2>4. PlainStep(p, m, x, q, v, i, stores)
    BY ONLY <1>11, <2>1, <2>2, <2>3, Zenon DEF PlainStep
  <2>5. PlainAfter(p, m, r, x, q, v, i, stores) \in Arch!Exec(StateOf(p, m, r, x))
    BY ONLY <2>4, ExecOne
  <2> QED BY ONLY <2>5 DEF PlainAfter
<1>13. stores <=> IsStore(h1)
  BY <1>2, <1>3, <1>11 DEF IsStore
<1>14. StateOf(PcAt(2), IF IsStore(h1) THEN Written(m, ISA!StoreOf(h1.pc)) ELSE m,
               IF IsStore(h1) /\ r = Code(h1.pc).word THEN NoWord ELSE r,
               [x EXCEPT ![h1.pc] = h1.val])
         = StateOf(q, IF stores THEN Written(m, ISA!StoreOf(p)) ELSE m,
               IF stores /\ r = i.word THEN NoWord ELSE r, [x EXCEPT ![p] = v])
  BY <1>2, <1>10, <1>13
<1> QED BY <1>2, <1>12, <1>14

\* Two instructions commit.
LEMMA StepTwoMaps ==
  ASSUME IInv, ValueInv, NEW n \in 0 .. 2, NEW ready \in BOOLEAN, NEW grant \in BOOLEAN,
         NEW br \in Tag \cup {NoTag}, NEW squash \in BOOLEAN,
         Cycle(n, ready, grant, br, squash), at.state # "write", commit1
  PROVE  Arch!StepTwo
<1>1. RingInv /\ OrderInv /\ PlaceInv /\ QueueInv /\ LoadInv /\ AtomicInv
  BY DEF IInv
<1>2. commit0 /\ ~IsSystem(h0.pc) /\ commit_count = 2
  BY DEF commit1, commit_count
<1>3. /\ PcAt(0) = h0.pc /\ PcAt(1) = h1.pc /\ h1.pc \in PC
  BY <1>1, <1>2, NextPc
<1>4. ~Performed
  BY <1>2 DEF Performed, IsSystem
<1>5. ~Performed'
  BY <1>1, <1>4, PerformedWas
<1>6. ArchPc = h0.pc /\ ArchResults = results
  BY <1>1, <1>3, <1>4, PerformedFacts DEF ArchResults
<1>7. PICK p1, m1, r1, x1 :
        /\ p1 = h0.pc
        /\ m1 = IF IsStore(h0) THEN Written(Coming, ISA!StoreOf(h0.pc)) ELSE Coming
        /\ r1 = IF IsStore(h0) /\ reserved = Code(h0.pc).word THEN NoWord ELSE reserved
        /\ x1 = Committed(h0)
  OBVIOUS
<1>8. PICK p2, m2, r2, x2 :
        /\ p2 = h1.pc
        /\ m2 = IF IsStore(h1) THEN Written(m1, ISA!StoreOf(h1.pc)) ELSE m1
        /\ r2 = IF IsStore(h1) /\ r1 = Code(h1.pc).word THEN NoWord ELSE r1
        /\ x2 = [x1 EXCEPT ![h1.pc] = h1.val]
  OBVIOUS
<1>9. ArchPc' = PcAt(2) /\ ArchResults' = x2
  <2>1. results' = x2
    BY <1>7, <1>8 DEF Cycle
  <2> QED BY <1>2, <1>5, <2>1, CycleArchPc
<1>10. /\ commit_store <=> IsStore(h0) \/ IsStore(h1)
       /\ ~(IsStore(h0) /\ IsStore(h1))
  BY <1>2 DEF commit_store, commit1
<1>11. PICK p : p = IF IsStore(h0) THEN p1 ELSE p2
  OBVIOUS
<1>12. commit_store => p = rob[sq[1].tag].pc
  <2>1. commit_store => sq[1].tag = IF IsStore(h0) THEN head ELSE TagPlus(head, 1)
    BY <1>1, <1>2, StoreQueueFront
  <2> QED BY <1>7, <1>8, <1>11, <2>1 DEF h0, h1
<1>13. prog' = prog /\ Coming' = m2 /\ ArchReserved' = r2 /\ ArchReserved = reserved
  <2>1. /\ prog' = prog
        /\ commit_store => Coming' = Written(Coming, ISA!StoreOf(p))
        /\ ~commit_store => Coming' = Coming
        /\ atomic_commit # 0 => ArchReserved' = ArchReserved /\ Performed
        /\ atomic_commit = 0 /\ commit_store =>
             ArchReserved' = IF reserved = Code(p).word THEN NoWord ELSE reserved
        /\ atomic_commit = 0 /\ ~commit_store => ArchReserved' = reserved
        /\ atomic_commit = 0 => ArchReserved = reserved
    BY <1>12, CycleArch
  <2>2. CASE IsStore(h0)
    <3>1. ~IsStore(h1) /\ commit_store /\ p = p1
      BY <1>10, <1>11, <2>2
    <3> QED BY <1>4, <1>7, <1>8, <2>1, <2>2, <3>1
  <2>3. CASE ~IsStore(h0)
    <3>1. p = p2 /\ m1 = Coming /\ r1 = reserved /\ (commit_store <=> IsStore(h1))
      BY <1>7, <1>10, <1>11, <2>3
    <3>2. CASE IsStore(h1)
      BY <1>4, <1>8, <2>1, <3>1, <3>2
    <3>3. CASE ~IsStore(h1)
      BY <1>4, <1>8, <2>1, <3>1, <3>3
    <3> QED BY <3>2, <3>3
  <2> QED BY <2>2, <2>3
<1>14. p1 \in PC /\ StateOf(p2, m1, r1, x1) \in Arch!Exec(StateOf(p1, Coming, reserved, results))
  <2>1. /\ h0.pc \in PC
        /\ StateOf(PcAt(1), IF IsStore(h0) THEN Written(Coming, ISA!StoreOf(h0.pc)) ELSE Coming,
                   IF IsStore(h0) /\ reserved = Code(h0.pc).word THEN NoWord ELSE reserved,
                   Committed(h0))
             \in Arch!Exec(StateOf(h0.pc, Coming, reserved, results))
    BY <1>2, <1>4, CommitFirst
  <2> QED BY <1>3, <1>7, <1>8, <2>1
<1>15. StateOf(PcAt(2), m2, r2, x2) \in Arch!Exec(StateOf(p2, m1, r1, x1))
  <2>1. StateOf(PcAt(2), IF IsStore(h1) THEN Written(m1, ISA!StoreOf(h1.pc)) ELSE m1,
                IF IsStore(h1) /\ r1 = Code(h1.pc).word THEN NoWord ELSE r1,
                [x1 EXCEPT ![h1.pc] = h1.val])
          \in Arch!Exec(StateOf(h1.pc, m1, r1, x1))
    BY <1>7, CommitSecond
  <2> QED BY <1>8, <2>1
<1>16. Arch!State = StateOf(p1, Coming, reserved, results)
  BY <1>6, <1>7, <1>13, StateIs
<1>17. Arch!Becomes(StateOf(PcAt(2), m2, r2, x2))
  BY <1>9, <1>13, BecomesIs
<1>18. ArchPc \in Arch!PC /\ StateOf(p2, m1, r1, x1).pc \in Arch!PC
  BY <1>3, <1>6, <1>7, <1>8, <1>14 DEF Arch!PC, PC, StateOf
<1> QED BY <1>14, <1>15, <1>16, <1>17, <1>18 DEF Arch!StepTwo, ArchPc

\* The cycle in which an atomic writes.
LEMMA AtomicMaps ==
  ASSUME IInv, NEW n \in 0 .. 2, NEW ready \in BOOLEAN, NEW grant \in BOOLEAN,
         NEW br \in Tag \cup {NoTag}, NEW squash \in BOOLEAN,
         Cycle(n, ready, grant, br, squash), at.state = "write"
  PROVE  Arch!StepOne
<1>1. /\ RingInv /\ OrderInv /\ PlaceInv /\ QueueInv /\ LoadInv /\ DSideType /\ PortInv /\ AtomicInv
  BY DEF IInv
<1>2. /\ n = 0 /\ squash = FALSE /\ grant = FALSE /\ br = NoTag
      /\ commit_count = 0 /\ ~commit0 /\ ~commit1 /\ ~commit_store
      /\ Live = {head} /\ Undone = {head} /\ at.tag = head /\ out_q.tag = NoTag
      /\ ~head_take(ready, grant, squash)
  <2>1. LoneAtomic(n, ready, grant, br, squash)
    BY <1>1, AtomicAlone
  <2> QED BY ONLY <2>1 DEF LoneAtomic
<1>3. PICK p, i : p = rob[head].pc /\ i = Code(p)
  OBVIOUS
<1>4. /\ used = 1 /\ ISA!IsAtomic(p) /\ ~ISA!Faults(p) /\ sb = <<>> /\ atomic_commit = 0
      /\ h0 = rob[head] /\ h0.pc = p /\ atCode = i /\ at.old = mem[i.word] /\ atomic_valid
  BY <1>1, <1>2, <1>3 DEF AtomicInv, h0, atCode, atomic_valid
<1>5. /\ head \in Tag /\ head # NoTag /\ ~rob[head].done /\ p \in PC /\ p \in Nat /\ p # 0
      /\ PC = 1 .. Len(prog) /\ Len(prog) \in Nat
  <2>1. head \in Tag /\ p \in PC
    BY <1>1, <1>2, <1>3 DEF RingInv
  <2>2. ~rob[head].done
    BY <1>2 DEF Undone
  <2> QED BY <1>1, <2>1, <2>2, ProgramFacts, LoadStoreAssumption
<1>6. i.op \in {"lr", "sc", "amo"}
  BY <1>3, <1>4 DEF ISA!IsAtomic, ISA!Code, Code
<1>7. ~Performed
  BY <1>2, <1>4, <1>5 DEF Performed
<1>8. /\ ArchPc = p /\ ArchReserved = reserved /\ ArchResults = results /\ Coming = mem
  <2>1. Coming = mem
    BY <1>1, <1>4, ImageEmpty DEF Coming, DSideType
  <2> QED BY <1>4, <1>7, <2>1 DEF ArchPc, ArchReserved, ArchResults
<1>9. fpc = p + 1 /\ fpc \in Nat
  <2>1. TagPlus(head, 0) = head
    BY <1>5, RobSizeAssumption DEF Tag, TagPlus
  <2>2. PcAt(0) = p /\ PcAt(1) = fpc
    BY <1>3, <1>4, <2>1 DEF PcAt
  <2>3. PcAt(1) = PcAt(0) + 1
    <3>1. Code(PcAt(0)).op # "br"
      BY <1>3, <1>6, <2>2
    <3>2. 0 < used /\ 0 + 1 = 1
      BY <1>4
    <3> QED BY <1>1, <3>1, <3>2 DEF OrderInv
  <2> QED BY <1>5, <2>2, <2>3
<1>10. PICK v : v = atomic_result
  OBVIOUS
<1>11. /\ prog' = prog /\ results' = results /\ atomic_commit' = p /\ fpc' = fpc
       /\ used' = 1 /\ head' = head /\ out_q' = Completion(head, v)
  <2>1. results' = results /\ prog' = prog /\ atomic_commit' = p
    BY <1>2, <1>3, <1>4 DEF Cycle
  <2>2. head' = TagPlus(head, commit_count) /\ fpc' \in {fpc + n}
    BY <1>2 DEF Cycle
  <2>3. head' = head
    BY <1>2, <1>5, <2>2, RobSizeAssumption DEF Tag, TagPlus
  <2>4. fpc' = fpc
    BY <1>2, <1>9, <2>2
  <2>5. ~squash => used' = used + n - commit_count
    BY <1>1, CycleRob
  <2>6. used' = 1
    BY <1>2, <1>4, <2>5
  <2>7. out_q' = Completion(head, v)
    BY <1>1, <1>2, <1>10, NoTakeStep
  <2> QED BY <2>1, <2>3, <2>4, <2>6, <2>7
<1>12. rob'[head] = rob[head]
  <2>1. head \in Staying(br, squash)
    BY <1>1, <1>2, <1>5, HeadFacts DEF Staying
  <2>2. rob'[head] = Advanced(head, br, grant)
    BY <1>1, <2>1, CycleRob
  <2> QED BY <1>2, <1>5, <2>2 DEF Advanced
<1>13. Performed' /\ PerformedResult' = v /\ h0'.pc = p
  <2>1. h0' = rob[head]
    BY <1>11, <1>12 DEF h0
  <2>2. ISA!IsAtomic(p)' /\ ~ISA!Faults(p)'
    BY <1>4, <1>11, StaticFacts
  <2>3. out_q'.tag = head /\ out_q'.val = v
    BY <1>11 DEF Completion
  <2>4. Performed'
    BY <1>3, <1>11, <2>1, <2>2, <2>3 DEF Performed
  <2> QED BY <1>3, <1>5, <2>1, <2>3, <2>4 DEF PerformedResult
<1>14. /\ ArchPc' = p + 1
       /\ ArchReserved' = IF i.op = "lr" THEN i.word ELSE NoWord
       /\ ArchResults' = [results EXCEPT ![p] = v]
  <2>1. Code(p)' = i
    BY <1>3, <1>11, StaticFacts
  <2>2. ArchPc' = fpc'
    BY <1>11, <1>13 DEF ArchPc
  <2>3. ArchReserved' = IF i.op = "lr" THEN i.word ELSE NoWord
    BY <1>5, <1>11, <2>1 DEF ArchReserved
  <2>4. ArchResults' = [results EXCEPT ![p] = v]
    BY <1>11, <1>13 DEF ArchResults
  <2> QED BY <1>9, <1>11, <2>2, <2>3, <2>4
<1>15. PICK after : after = Written(Coming, ISA!StoreOf(p))
  OBVIOUS
<1>16. /\ atomic_write_intent => Coming' = after
       /\ ~atomic_write_intent => Coming' = Coming
  <2>1. StoreEnters
    BY <1>1, CycleBargain
  <2>2. DSideCycle
    BY DEF Cycle
  <2> QED BY <1>1, <1>2, <1>3, <1>15, <2>1, <2>2, StepComing
<1>17. PICK old : old = [l \in i.mask |-> Coming[i.word][l]]
  OBVIOUS
<1>18. i.op # "sc" => v = old
  <2>1. ISA!Bytes(at.old, i.mask) = [l \in i.mask |-> mem[i.word][l]]
    BY <1>4, SameOperators
  <2> QED BY <1>4, <1>8, <1>10, <1>17, <2>1 DEF atomic_result
<1>19. i.op = "sc" => v = (reserved = i.word)
  <2> SUFFICES ASSUME i.op = "sc" PROVE v = (reserved = i.word)
    OBVIOUS
  <2>1. v = (i.op = "sc" /\ reserved = i.word)
    BY <1>4, <1>10, Zenon DEF atomic_result, atomic_sc_ok
  <2> QED BY <2>1, Zenon
<1>20. PICK m, r, x : m = Coming' /\ r = ArchReserved' /\ x = ArchResults'
  OBVIOUS
<1>21. StateOf(p + 1, m, r, x) \in Arch!Exec(StateOf(p, Coming, reserved, results))
  <2>1. i = Code(p) /\ ISA!IsAtomic(p) /\ ~ISA!Faults(p)
    BY <1>3, <1>4
  <2>2. m = IF i.op = "amo" \/ (i.op = "sc" /\ reserved = i.word) THEN after ELSE Coming
    BY <1>4, <1>16, <1>20 DEF atomic_write_intent, atomic_sc_ok
  <2>3. r = (IF i.op = "lr" THEN i.word ELSE NoWord) /\ x = [results EXCEPT ![p] = v]
    BY <1>14, <1>20
  <2>4. StateOf(p + 1, m, r, [results EXCEPT ![p] = v])
          \in Arch!Exec(StateOf(p, Coming, reserved, results))
    <3>1. r = IF i.op = "lr" THEN i.word ELSE NoWord
      BY ONLY <2>3
    <3>2. AtomicStep(p, Coming, reserved, i, old, after, v, m, r)
      BY ONLY <1>15, <1>17, <1>18, <1>19, <2>1, <2>2, <3>1, Zenon DEF AtomicStep
    <3> QED BY ONLY <3>2, ExecAtomic
  <2> QED BY <2>3, <2>4
<1>22. Arch!State = StateOf(p, Coming, reserved, results)
  BY <1>8, StateIs
<1>23. Arch!Becomes(StateOf(p + 1, m, r, x))
  BY <1>11, <1>14, <1>20, BecomesIs
<1>24. ArchPc \in Arch!PC
  BY <1>5, <1>8 DEF Arch!PC, PC
<1> QED BY <1>21, <1>22, <1>23, <1>24 DEF Arch!StepOne, ArchPc

\* Any other cycle changes nothing the program can see: nothing commits, or
\* what commits is the atomic that has acted already.
LEMMA StutterMaps ==
  ASSUME IInv, NEW n \in 0 .. 2, NEW ready \in BOOLEAN, NEW grant \in BOOLEAN,
         NEW br \in Tag \cup {NoTag}, NEW squash \in BOOLEAN,
         Cycle(n, ready, grant, br, squash), at.state # "write",
         Performed \/ commit_count = 0
  PROVE  UNCHANGED Arch!memVars
<1>1. /\ RingInv /\ OrderInv /\ PlaceInv /\ QueueInv /\ LoadInv /\ AtomicInv
  BY DEF IInv
<1>2. commit_count \in 0 .. 2 /\ (commit0 <=> commit_count >= 1) /\ (commit1 <=> commit_count = 2)
  BY <1>1, CommitFacts
<1>3. ~commit_store /\ (Performed => ~commit1 /\ fpc' = fpc)
  <2>1. Performed => ~commit_store /\ ~commit1 /\ fpc' = fpc
    BY <1>1, PerformedStays
  <2>2. ~Performed => ~commit_store
    BY <1>2 DEF commit_store
  <2> QED BY <2>1, <2>2
<1>4. prog' = prog /\ Coming' = Coming /\ ArchReserved' = ArchReserved
  <2>1. PICK p : p = rob[sq[1].tag].pc
    OBVIOUS
  <2>2. /\ prog' = prog /\ Coming' = Coming
        /\ atomic_commit # 0 => ArchReserved' = ArchReserved
        /\ atomic_commit = 0 => ArchReserved' = reserved /\ ArchReserved = reserved
    BY <1>3, <2>1, CycleArch
  <2> QED BY <2>2
<1>5. results' = IF commit0 THEN Committed(h0) ELSE results
  BY <1>2, <1>3 DEF Cycle
<1>6. CASE Performed /\ commit_count = 0
  <2>1. PICK p, v : p = h0.pc /\ v = PerformedResult
    OBVIOUS
  <2>2. Performed' /\ PerformedResult' = v /\ h0'.pc = p
    BY <1>1, <1>6, <2>1, PerformedStays
  <2>3. ArchResults' = ArchResults
    BY <1>2, <1>5, <1>6, <2>1, <2>2 DEF ArchResults
  <2>4. used = 1 /\ used' = 1
    <3>1. used = 1
      BY <1>1, <1>6, PerformedFacts
    <3>2. used' = 1 - commit_count
      BY <1>1, <1>6, PerformedStays
    <3> QED BY <1>6, <3>1, <3>2
  <2>5. ArchPc' = ArchPc
    BY <1>3, <1>6, <2>2, <2>4 DEF ArchPc
  <2> QED BY <1>4, <2>3, <2>5 DEF Arch!memVars, ArchPc, ArchReserved, ArchResults, Coming
<1>7. CASE Performed /\ commit_count # 0
  <2>1. commit0 /\ commit_count = 1
    BY <1>2, <1>3, <1>7
  <2>2. ~Performed'
    BY <1>1, <1>7, PerformedWas
  <2>3. ArchPc' = PcAt(commit_count) /\ ArchResults' = results'
    BY <2>2, CycleArchPc
  <2>4. PcAt(1) = fpc /\ ArchPc = fpc
    BY <1>1, <1>7, PerformedFacts
  <2>5. h0.done
    BY <2>1 DEF commit0
  <2>6. ArchResults = Committed(h0)
    BY <1>7, <2>5 DEF ArchResults, PerformedResult, Committed
  <2>7. ArchPc' = ArchPc /\ ArchResults' = ArchResults
    BY <1>5, <2>1, <2>3, <2>4, <2>6
  <2> QED BY <1>4, <2>7 DEF Arch!memVars, ArchPc, ArchReserved, ArchResults, Coming
<1>8. CASE ~Performed /\ commit_count = 0
  <2>1. ~Performed'
    BY <1>1, <1>8, PerformedWas
  <2>2. ArchPc' = PcAt(commit_count) /\ ArchResults' = results'
    BY <2>1, CycleArchPc
  <2>3. ArchPc = PcAt(0) /\ ArchResults = results
    BY <1>1, <1>8, PerformedFacts DEF ArchResults
  <2>4. ArchPc' = ArchPc /\ ArchResults' = ArchResults
    BY <1>2, <1>5, <1>8, <2>2, <2>3
  <2> QED BY <1>4, <2>4 DEF Arch!memVars, ArchPc, ArchReserved, ArchResults, Coming
<1> QED BY <1>6, <1>7, <1>8

\* A trap or a fence.i is an instruction that only moves on.
LEMMA FlushMaps ==
  ASSUME IInv, ValueInv, Flush
  PROVE  Arch!StepOne
<1>1. /\ RingInv /\ PlaceInv /\ LoadInv /\ DSideType /\ PortInv /\ AtomicInv /\ flush
  BY DEF IInv, Flush
<1>2. head \in Live /\ h0 = rob[head] /\ h0.pc \in PC /\ ~commit_store /\ at.state = "idle"
  BY <1>1, FlushFinds
<1>3. PICK p, i : p = h0.pc /\ i = Code(p)
  OBVIOUS
<1>4. /\ p \in PC /\ p \in Nat /\ used # 0 /\ used > 0 /\ head \in Tag
  BY <1>1, <1>2, <1>3, ProgramFacts, HeadFacts DEF RingInv
<1>5. (i.op = "fencei" /\ ~ISA!IsAtomic(p)) \/ ISA!Faults(p)
  <2>1. CASE trap_take
    BY <1>3, <2>1 DEF trap_take
  <2>2. CASE fence_i_commit
    BY <1>3, <2>2 DEF fence_i_commit, ISA!IsAtomic, ISA!Code, Code
  <2> QED BY <1>1, <2>1, <2>2 DEF flush
<1>6. i.op # "br"
  BY <1>3, <1>5 DEF ISA!Faults, ISA!Code, Code
<1>7. ~Performed /\ atomic_commit = 0
  <2>1. ~Performed
    BY <1>3, <1>5 DEF Performed
  <2>2. atomic_commit = 0
    BY <1>1, <1>2, <1>3, <1>5 DEF AtomicInv
  <2> QED BY <2>1, <2>2
<1>8. ArchPc = p /\ ArchReserved = reserved /\ ArchResults = results
  BY <1>3, <1>4, <1>7 DEF ArchPc, ArchReserved, ArchResults
<1>9. /\ prog' = prog /\ used' = 0 /\ fpc' = p + 1 /\ results' = results
      /\ reserved' = reserved /\ atomic_commit' = 0
  <2>1. /\ prog' = prog /\ used' = 0 /\ fpc' = p + 1 /\ results' = results
        /\ reserved' = NextReserved
        /\ atomic_commit' = IF atomic_valid THEN rob[at.tag].pc ELSE 0
    BY <1>3 DEF Flush
  <2> QED BY <1>2, <1>7, <2>1 DEF NextReserved, atomic_valid
<1>10. Coming' = Coming
  <2>1. StoreEnters
    BY FlushBargain
  <2>2. DSideCycle
    BY DEF Flush
  <2>3. ~atomic_write_intent
    BY <1>2 DEF atomic_write_intent, atomic_valid
  <2> QED BY <1>1, <1>2, <2>1, <2>2, <2>3, StepComing
<1>11. ArchPc' = p + 1 /\ ArchReserved' = reserved /\ ArchResults' = results
  <2>1. ~Performed'
    BY <1>9 DEF Performed
  <2> QED BY <1>9, <2>1 DEF ArchPc, ArchReserved, ArchResults
<1>12. PICK v : v = results[p]
  OBVIOUS
<1>13. [results EXCEPT ![p] = v] = results
  <2>1. results = [k \in PC |-> results[k]]
    BY DEF ValueInv
  <2> QED BY <1>4, <1>12, <2>1
<1>14. PICK stores : stores = (i.op = "st" /\ ~ISA!Faults(p))
  OBVIOUS
<1>15. ~stores
  BY <1>5, <1>14
<1>16. StateOf(p + 1, Coming, reserved, results)
         \in Arch!Exec(StateOf(p, Coming, reserved, results))
  <2>1. PICK q : q = p + 1
    OBVIOUS
  <2>2. i = Code(p) /\ (i.op \in {"ld", "st", "br", "fencei"} \/ ISA!Faults(p))
    BY <1>3, <1>5
  <2>3. /\ i.op = "br" => q \in p + 1 .. Len(prog) + 1
        /\ i.op # "br" => q = p + 1
    BY <1>6, <2>1
  <2>4. /\ i.op = "ld" /\ ~ISA!Faults(p) => v = [l \in i.mask |-> Coming[i.word][l]]
        /\ i.op # "ld" \/ ISA!Faults(p) => [results EXCEPT ![p] = v] = results
    BY <1>5, <1>13
  <2>5. StateOf(q, IF stores THEN Written(Coming, ISA!StoreOf(p)) ELSE Coming,
                IF stores /\ reserved = i.word THEN NoWord ELSE reserved, [results EXCEPT ![p] = v])
          \in Arch!Exec(StateOf(p, Coming, reserved, results))
    <3>1. PlainStep(p, Coming, results, q, v, i, stores)
      BY ONLY <1>14, <2>2, <2>3, <2>4, Zenon DEF PlainStep
    <3>2. PlainAfter(p, Coming, reserved, results, q, v, i, stores)
            \in Arch!Exec(StateOf(p, Coming, reserved, results))
      BY ONLY <3>1, ExecOne
    <3> QED BY ONLY <3>2 DEF PlainAfter
  <2> QED BY <1>13, <1>15, <2>1, <2>5
<1>17. Arch!State = StateOf(p, Coming, reserved, results)
  BY <1>8, StateIs
<1>18. Arch!Becomes(StateOf(p + 1, Coming, reserved, results))
  <2>1. PICK q, m, r, x : q = p + 1 /\ m = Coming /\ r = reserved /\ x = results
    OBVIOUS
  <2>2. ArchPc' = q /\ Coming' = m /\ ArchReserved' = r /\ ArchResults' = x
    BY <1>10, <1>11, <2>1
  <2>3. Arch!Becomes(StateOf(q, m, r, x))
    BY <1>9, <2>2, BecomesIs
  <2> QED BY <2>1, <2>3
<1>19. ArchPc \in Arch!PC
  BY <1>4, <1>8 DEF Arch!PC, PC
<1> QED BY <1>16, <1>17, <1>18, <1>19 DEF Arch!StepOne, ArchPc

LEMMA InitMaps == ASSUME Init, IInv PROVE Arch!Init
<1>1. /\ mem = [w \in Word |-> [l \in Lane |-> 0]] /\ sb = <<>> /\ fpc = 1 /\ used = 0
      /\ reserved = NoWord /\ atomic_commit = 0 /\ results = [p \in PC |-> NoResult]
  BY DEF Init, DSideInit
<1>2. Coming = mem
  BY <1>1, ImageEmpty DEF IInv, DSideType, Coming
<1>3. ~Performed
  BY <1>1 DEF Performed
<1>4. ArchPc = 1 /\ ArchReserved = NoWord /\ ArchResults = [p \in PC |-> NoResult]
  BY <1>1, <1>3 DEF ArchPc, ArchReserved, ArchResults
<1>5. \A w \in DOMAIN Coming : \A l \in DOMAIN Coming[w] : Coming[w][l] = 0
  BY <1>1, <1>2
<1> QED BY <1>4, <1>5 DEF Arch!Init, Arch!PC, PC, ArchPc, ArchReserved, ArchResults, Coming

LEMMA UnchangedMaps == ASSUME UNCHANGED vars PROVE UNCHANGED Arch!memVars
<1>1. /\ prog' = prog /\ fpc' = fpc /\ rob' = rob /\ head' = head /\ used' = used
      /\ out_q' = out_q /\ reserved' = reserved /\ atomic_commit' = atomic_commit
      /\ results' = results /\ mem' = mem /\ sb' = sb
  BY DEF vars, lsuVars, dsideVars
<1>2. Coming' = Coming
  BY <1>1 DEF Coming
<1>3. h0' = h0 /\ h1' = h1
  BY <1>1 DEF h0, h1
<1>4. /\ \A p : (ISA!IsAtomic(p)' <=> ISA!IsAtomic(p)) /\ (ISA!Faults(p)' <=> ISA!Faults(p))
      /\ \A p : Code(p)' = Code(p)
  BY <1>1, StaticFacts
<1>5. PICK p, c : p = h0.pc /\ c = atomic_commit
  OBVIOUS
<1>6. Performed' <=> Performed
  BY <1>1, <1>3, <1>4, <1>5 DEF Performed
<1>7. PerformedResult' = PerformedResult
  BY <1>1, <1>3 DEF PerformedResult
<1>8. ArchPc' = ArchPc
  BY <1>1, <1>3, <1>6 DEF ArchPc
<1>9. ArchReserved' = ArchReserved
  BY <1>1, <1>4, <1>5 DEF ArchReserved
<1>10. ArchResults' = ArchResults
  BY <1>1, <1>3, <1>6, <1>7 DEF ArchResults
<1> QED
  BY <1>1, <1>2, <1>8, <1>9, <1>10 DEF Arch!memVars, ArchPc, ArchReserved, ArchResults, Coming

\* A step of the unit is a step of the machine in program order, or none.
LEMMA StepMaps ==
  ASSUME IInv, ValueInv, [Next]_vars
  PROVE  [Arch!StepOne \/ Arch!StepTwo]_(Arch!memVars)
<1>1. RingInv
  BY DEF IInv
<1>2. ASSUME NEW n \in 0 .. 2, NEW ready \in BOOLEAN, NEW grant \in BOOLEAN,
             NEW br \in Tag \cup {NoTag}, NEW squash \in BOOLEAN,
             Cycle(n, ready, grant, br, squash)
      PROVE  Arch!StepOne \/ Arch!StepTwo \/ UNCHANGED Arch!memVars
  <2>1. CASE at.state = "write"
    BY <1>2, <2>1, AtomicMaps
  <2>2. CASE at.state # "write" /\ (Performed \/ commit_count = 0)
    BY <1>2, <2>2, StutterMaps
  <2>3. CASE at.state # "write" /\ commit1
    BY <1>2, <2>3, StepTwoMaps
  <2>4. CASE at.state # "write" /\ commit0 /\ ~commit1 /\ ~Performed
    BY <1>2, <2>4, StepOneMaps
  <2>5. commit_count = 0 \/ commit0
    BY <1>1, CommitFacts
  <2> QED BY <2>1, <2>2, <2>3, <2>4, <2>5
<1>3. CASE Flush
  BY <1>3, FlushMaps
<1>4. CASE UNCHANGED vars
  BY <1>4, UnchangedMaps
<1> QED BY <1>2, <1>3, <1>4 DEF Next

(* Memory, the reservation and what loads and atomics return change as if  *)
(* the accesses were made one at a time, in program order: whatever the    *)
(* sizes of the queues, of the cache and of memory, for every program and  *)
(* every interleaving of dispatch, forwarding, refills, drains, squashes,  *)
(* atomics and flushes.  An instruction takes effect when it commits, an   *)
(* atomic when it writes.                                                  *)
THEOREM LoadStoreUnitImplementsInOrderMemory == Spec => ImplementsInOrderMemory
<1>1. Init => Arch!Init
  BY InitIInv, InitMaps
<1>2. IInv /\ ValueInv /\ [Next]_vars => [Arch!StepOne \/ Arch!StepTwo]_(Arch!memVars)
  BY StepMaps
<1> QED
  BY <1>1, <1>2, Invariant, LoadStoreUnitValues, PTL DEF Spec, ImplementsInOrderMemory, Arch!Spec
=============================================================================
