---------------------------- MODULE LoadStoreUnit ---------------------------
(***************************************************************************)
(* The load/store unit (LoadStoreUnit.sv) over the data side (DataCache):  *)
(* the in-order memory queue, the store queue with forwarding, the load    *)
(* stage, the output buffer, atomics and the reservation, with the parts   *)
(* of the core they depend on: the reorder buffer, dispatch, commit of     *)
(* stores, squash by a mispredicted branch and flush by a trap or fence.i. *)
(* One step is one clock cycle.                                            *)
(*                                                                         *)
(* Choices of a step: how many instructions dispatch, whether the operands *)
(* of the oldest queued access are there, whether the output buffer gets a *)
(* bus, and which branch executes, well or badly predicted, and where a    *)
(* badly predicted one goes.                                               *)
(***************************************************************************)
EXTENDS DataCache, Tags, FiniteSets

CONSTANTS NoTag, NoWord, NoResult,
          Programs,        \* see InOrderMemory
          QUEUE_ENTRIES, SQ_ENTRIES

Operation == {"ld", "st", "lr", "sc", "amo", "br", "fencei"}
Instruction == [op : Operation, word : Word, mask : SUBSET Lane]

ASSUME LoadStoreAssumption ==
  /\ NoTag \notin Tag /\ NoWord \notin Word /\ NoLine \notin {LineOf(w) : w \in Word}
  /\ NoLoad \notin [word : Word, mask : SUBSET Lane]
                  \cup [tag : Tag, pc : Nat, squashed : BOOLEAN, word : Word, mask : SUBSET Lane]
  /\ QUEUE_ENTRIES \in Nat /\ SQ_ENTRIES \in Nat
  /\ \A p \in Programs : p \in Seq(Instruction)

VARIABLES
  prog, fpc,               \* the program, and the next instruction to dispatch
  rob, head, used,         \* reorder buffer
  memq,                    \* memory queue: the tags in its slots
  sq,                      \* store queue: [tag, word, data], oldest first
  ld,                      \* load stage: NoLoad, or [tag, pc, squashed, word, mask]
  out_q,                   \* output buffer: [tag, val], tag NoTag when free
  at,                      \* atomic sequence: [state, tag, old]
  reserved,                \* reservation_q and reservation_addr_q
  atomic_commit,           \* the atomic that completed in the cycle before, as pc, or 0
  results                  \* history: what the committed accesses returned

lsuVars == <<prog, fpc, rob, head, used, memq, sq, ld, out_q, at, reserved,
             atomic_commit, results>>
vars == <<lsuVars, dsideVars>>

ISA == INSTANCE InOrderMemory WITH pc <- fpc, memory <- mem

Code(p) == prog[p]
PC == DOMAIN prog
Op(t) == Code(rob[t].pc).op
IsMem(p) == Code(p).op \in {"ld", "st", "lr", "sc", "amo"}
IsSystem(p) == ISA!IsAtomic(p) \/ Code(p).op = "fencei"

-----------------------------------------------------------------------------
(* Reorder buffer and commit.                                              *)

Idle == [live |-> FALSE, pc |-> 0, done |-> FALSE, val |-> NoResult]
tail == TagPlus(head, used)
Younger(t, b) == TagYounger(t, b, head)
Live == {t \in Tag : rob[t].live}

h0 == rob[head]
h1 == rob[TagPlus(head, 1)]
IsStore(e) == Code(e.pc).op = "st"
drained == sb_empty /\ ~busy /\ ld = NoLoad

trap_take == h0.live /\ h0.done /\ ISA!Faults(h0.pc)

\* Mutated: commit does not ask for room in the store buffer.
commit0AlwaysRoom ==
  /\ h0.live /\ h0.done /\ ~ISA!Faults(h0.pc)
  /\ Code(h0.pc).op = "fencei" => drained

commit0 ==
  /\ h0.live /\ h0.done /\ ~ISA!Faults(h0.pc)
  /\ IsStore(h0) => ~sb_full
  /\ Code(h0.pc).op = "fencei" => drained

commit1 ==
  /\ commit0 /\ ~IsSystem(h0.pc)
  /\ h1.live /\ h1.done /\ ~ISA!Faults(h1.pc)
  /\ ~IsSystem(h1.pc) /\ Code(h1.pc).op # "br"
  /\ IsStore(h1) => ~IsStore(h0) /\ ~sb_full

commit_count == IF commit1 THEN 2 ELSE IF commit0 THEN 1 ELSE 0
commit_store == (commit0 /\ IsStore(h0)) \/ (commit1 /\ IsStore(h1))
fence_i_commit == commit0 /\ Code(h0.pc).op = "fencei"
flush == trap_take \/ fence_i_commit

-----------------------------------------------------------------------------
(* Load stage and output buffer.                                           *)

NoOutput == [tag |-> NoTag, val |-> NoResult]
Completion(t, v) == [tag |-> t, val |-> v]

Load == IF ld = NoLoad THEN NoLoad ELSE [word |-> ld.word, mask |-> ld.mask]

load_done == ld # NoLoad /\ ~stall(Load)
out_free(grant) == out_q.tag = NoTag \/ grant
load_claims_out(grant) == load_done /\ ~ld.squashed /\ out_free(grant)

\* Mutated: the queue's head does not look whether a load finishes.
head_out_freeBlind(grant) == out_free(grant)
head_out_free(grant) == out_free(grant) /\ ~load_claims_out(grant)

-----------------------------------------------------------------------------
(* The oldest access of the memory queue.                                  *)

\* The queue issues in program order (ReservationStation, IN_ORDER).
qtag == CHOOSE t \in memq : \A u \in memq \ {t} : Younger(u, t)
qh == Code(rob[qtag].pc)
misaligned == qh.mask = {}
head_mmio == qh.word \in Uncached
sq_fwd_hit == ForwardHit(sq, qh.word, qh.mask)
sq_fwd_block == ForwardConflict(sq, qh.word, qh.mask)

TakeMisaligned(grant) == misaligned /\ head_out_free(grant)

\* Mutated: a store does not look whether the store queue has room.
TakeStoreNoRoom(grant) == ~misaligned /\ qh.op = "st" /\ head_out_free(grant)

TakeStore(grant) ==
  ~misaligned /\ qh.op = "st" /\ head_out_free(grant) /\ Len(sq) < SQ_ENTRIES

TakeForward(grant) ==
  ~misaligned /\ qh.op = "ld" /\ ~head_mmio /\ sq_fwd_hit /\ head_out_free(grant)

\* Mutated: a device load overtakes older stores that have not committed.
TakeLoadAnyOrder ==
  /\ ~misaligned /\ qh.op = "ld" /\ ld = NoLoad
  /\ ~head_mmio => ~sq_fwd_hit /\ ~sq_fwd_block

TakeLoad ==
  /\ ~misaligned /\ qh.op = "ld" /\ ld = NoLoad
  /\ IF head_mmio THEN sq = <<>> ELSE ~sq_fwd_hit /\ ~sq_fwd_block

\* Mutated: an atomic does not wait for a squashed load to leave.
TakeAtomicEarly ==
  /\ ~misaligned /\ qh.op \in {"lr", "sc", "amo"}
  /\ head = qtag /\ sq = <<>> /\ sb_empty

TakeAtomic ==
  /\ ~misaligned /\ qh.op \in {"lr", "sc", "amo"}
  /\ head = qtag /\ sq = <<>> /\ sb_empty /\ ~busy /\ ld = NoLoad

CanTake(ready, squash) == memq # {} /\ ready /\ at.state = "idle" /\ ~squash

head_take(ready, grant, squash) ==
  /\ CanTake(ready, squash)
  /\ \/ TakeMisaligned(grant) \/ TakeStore(grant) \/ TakeForward(grant)
     \/ TakeLoad \/ TakeAtomic

-----------------------------------------------------------------------------
(* Atomics.                                                                *)

NoAtomic == [state |-> "idle", tag |-> NoTag, old |-> NoResult]
atCode == Code(rob[at.tag].pc)
atomic_valid == at.state = "write"
atomic_sc_ok == atCode.op = "sc" /\ reserved = atCode.word
atomic_write_intent ==
  atomic_valid /\ (atCode.op = "amo" \/ atomic_sc_ok)
atomic_result == IF atCode.op = "sc" THEN atomic_sc_ok ELSE ISA!Bytes(at.old, atCode.mask)

\* The port as a running atomic drives it.
AtomicPort ==
  IF at.state = "idle" THEN <<>>
  ELSE [reads |-> at.state = "read", writes |-> atomic_write_intent,
        word |-> atCode.word, data |-> ISA!StoreOf(rob[at.tag].pc).data]

\* Mutated: a store does not break the reservation of its word.
NextReservedSticky ==
  IF atomic_commit # 0
  THEN IF Code(atomic_commit).op = "lr" THEN Code(atomic_commit).word ELSE NoWord
  ELSE reserved

\* A reservation is set the cycle after its lr completes, and survives flushes.
NextReserved ==
  IF atomic_commit # 0
  THEN IF Code(atomic_commit).op = "lr" THEN Code(atomic_commit).word ELSE NoWord
  ELSE IF commit_store /\ sq[1].word = reserved THEN NoWord
  ELSE reserved

-----------------------------------------------------------------------------
Init ==
  /\ DSideInit
  /\ prog \in Programs /\ fpc = 1
  /\ rob = [t \in Tag |-> Idle] /\ head = 0 /\ used = 0
  /\ memq = {} /\ sq = <<>> /\ ld = NoLoad /\ out_q = NoOutput /\ at = NoAtomic
  /\ reserved = NoWord /\ atomic_commit = 0
  /\ results = [p \in PC |-> NoResult]

\* The output buffer after this cycle's grant, completions and squash.
NextOut(ready, grant, squash, br) ==
  LET kept == IF grant \/ (squash /\ out_q.tag # NoTag /\ Younger(out_q.tag, br))
              THEN NoOutput ELSE out_q
      loaded == IF load_claims_out(grant)
                THEN IF squash /\ Younger(ld.tag, br) THEN NoOutput
                     ELSE Completion(ld.tag, load_result(Load))
                ELSE kept
  IN  IF head_take(ready, grant, squash)
        THEN IF TakeMisaligned(grant) \/ TakeStore(grant)
             THEN Completion(qtag, NoResult)
             ELSE IF TakeForward(grant)
             THEN Completion(qtag, Forwarded(sq, qh.word, qh.mask))
             ELSE loaded
      ELSE IF atomic_valid THEN Completion(at.tag, atomic_result)
      ELSE loaded

\* Mutated: a squash forgets the load in the load stage.
NextLoadUnsquashed(ready, grant, squash, br) ==
  IF head_take(ready, grant, squash) /\ TakeLoad
  THEN [tag |-> qtag, pc |-> rob[qtag].pc, squashed |-> FALSE,
        word |-> qh.word, mask |-> qh.mask]
  ELSE IF load_done /\ (ld.squashed \/ out_free(grant)) THEN NoLoad
  ELSE ld

\* Mutated: every load leaves through the output buffer.
NextLoadSquashedStays(ready, grant, squash, br) ==
  IF head_take(ready, grant, squash) /\ TakeLoad
  THEN [tag |-> qtag, pc |-> rob[qtag].pc, squashed |-> FALSE,
        word |-> qh.word, mask |-> qh.mask]
  ELSE IF ld # NoLoad /\ squash /\ Younger(ld.tag, br) THEN [ld EXCEPT !.squashed = TRUE]
  ELSE IF load_claims_out(grant) THEN NoLoad
  ELSE ld

\* A squashed load stays until the data side is done with it.
NextLoad(ready, grant, squash, br) ==
  IF head_take(ready, grant, squash) /\ TakeLoad
  THEN [tag |-> qtag, pc |-> rob[qtag].pc, squashed |-> FALSE,
        word |-> qh.word, mask |-> qh.mask]
  ELSE IF ld # NoLoad /\ squash /\ Younger(ld.tag, br)
  THEN IF load_done THEN NoLoad ELSE [ld EXCEPT !.squashed = TRUE]
  ELSE IF load_done /\ (ld.squashed \/ out_free(grant)) THEN NoLoad
  ELSE ld

NextAtomic(ready, grant, squash) ==
  CASE at.state = "idle" ->
         IF head_take(ready, grant, squash) /\ TakeAtomic
         THEN [state |-> "read", tag |-> qtag, old |-> NoResult] ELSE at
    [] at.state = "read" -> [at EXCEPT !.state = "wait"]
    [] at.state = "wait" ->
         [at EXCEPT !.old = dout, !.state = IF out_q.tag = NoTag THEN "write" ELSE "wait"]
    [] at.state = "write" -> NoAtomic

\* The stores younger than the branch are a suffix: how many stay in front.
sq_keep(br) ==
  LET older == {i \in DOMAIN sq : ~Younger(sq[i].tag, br)}
  IN  IF older = {} THEN 0 ELSE CHOOSE i \in older : \A j \in older : j <= i

QueuedStore == [tag |-> qtag, word |-> qh.word, data |-> ISA!StoreOf(rob[qtag].pc).data]

\* Mutated: a squash brings back the store that commits in its cycle.
NextStoreQueueLostPop(ready, grant, squash, br) ==
  LET popped == IF commit_store THEN Tail(sq) ELSE sq
  IN  IF squash THEN SubSeq(sq, 1, sq_keep(br))
      ELSE IF head_take(ready, grant, squash) /\ TakeStore(grant)
      THEN Append(popped, QueuedStore)
      ELSE popped

\* Stores older than the branch stay; the one that commits leaves.
NextStoreQueue(ready, grant, squash, br) ==
  LET popped == IF commit_store THEN Tail(sq) ELSE sq
  IN  IF squash THEN SubSeq(sq, IF commit_store THEN 2 ELSE 1, sq_keep(br))
      ELSE IF head_take(ready, grant, squash) /\ TakeStore(grant)
      THEN Append(popped, QueuedStore)
      ELSE popped

Committed(e) == [results EXCEPT ![e.pc] = e.val]

DSideCycle ==
  DSide(Load, IF commit_store THEN <<[word |-> sq[1].word, data |-> sq[1].data]>> ELSE <<>>,
        AtomicPort)

\* What may dispatch in one cycle: plain instructions and at most one branch,
\* a system instruction alone in an empty buffer.
MemOps(n) == Cardinality({p \in fpc .. fpc + n - 1 : IsMem(p)})

CanDispatch(n) ==
  /\ fpc + n - 1 <= Len(prog)
  /\ used + n <= ROB_SIZE
  /\ Cardinality(memq) + MemOps(n) <= QUEUE_ENTRIES
  /\ n > 0 => \A t \in Live : ~IsSystem(rob[t].pc)
  /\ n > 0 /\ IsSystem(fpc) => used = 0 /\ n = 1
  /\ n = 2 => ~IsSystem(fpc + 1) /\ (Code(fpc).op = "br" => Code(fpc + 1).op # "br")

RobEntry(p) ==
  [live |-> TRUE, pc |-> p, done |-> Code(p).op = "fencei", val |-> NoResult]

Finished(e, val) == [live |-> TRUE, pc |-> e.pc, done |-> TRUE, val |-> val]

\* The tags of n instructions dispatched in one cycle.
Dispatched(n) == {TagPlus(tail, k) : k \in 0 .. n - 1}

\* A cycle without flush: n instructions dispatch, the branch br (or NoTag)
\* executes, and squash says that it was mispredicted.
Cycle(n, ready, grant, br, squash) ==
  /\ ~flush
  /\ CanDispatch(n)
  /\ grant => out_q.tag # NoTag
  /\ br # NoTag => br \in Live /\ Op(br) = "br" /\ ~rob[br].done
  /\ squash => n = 0 /\ br # NoTag
  /\ rob' = [t \in Tag |->
       IF t \in Dispatched(n)
       THEN RobEntry(fpc + TagAge(t, tail))
       ELSE IF TagAge(t, head) < commit_count \/ (squash /\ Younger(t, br)) THEN Idle
       ELSE IF t = br THEN Finished(rob[t], rob[t].val)
       ELSE IF grant /\ t = out_q.tag THEN Finished(rob[t], out_q.val)
       ELSE rob[t]]
  /\ head' = TagPlus(head, commit_count)
  /\ used' = (IF squash THEN TagAge(br, head) + 1 ELSE used + n) - commit_count
  /\ fpc' \in IF squash THEN rob[br].pc + 1 .. Len(prog) + 1 ELSE {fpc + n}
  /\ memq' = {t \in memq : /\ ~(head_take(ready, grant, squash) /\ t = qtag)
                           /\ ~(squash /\ Younger(t, br))}
             \cup {t \in Dispatched(n) : IsMem(fpc + TagAge(t, tail))}
  /\ sq' = NextStoreQueue(ready, grant, squash, br)
  /\ ld' = NextLoad(ready, grant, squash, br)
  /\ out_q' = NextOut(ready, grant, squash, br)
  /\ at' = NextAtomic(ready, grant, squash)
  /\ reserved' = NextReserved
  /\ atomic_commit' = IF atomic_valid THEN rob[at.tag].pc ELSE 0
  /\ results' = IF commit1 THEN [Committed(h0) EXCEPT ![h1.pc] = h1.val]
                ELSE IF commit0 THEN Committed(h0) ELSE results
  /\ DSideCycle
  /\ UNCHANGED prog

\* A trap or a fence.i commits.  The data side carries on with its load.
Flush ==
  /\ flush
  /\ rob' = [t \in Tag |-> Idle] /\ head' = 0 /\ used' = 0
  /\ fpc' = h0.pc + 1
  /\ memq' = {} /\ sq' = <<>> /\ out_q' = NoOutput /\ at' = NoAtomic
  /\ ld' = IF ld = NoLoad \/ load_done THEN NoLoad ELSE [ld EXCEPT !.squashed = TRUE]
  /\ reserved' = NextReserved
  /\ atomic_commit' = IF atomic_valid THEN rob[at.tag].pc ELSE 0
  /\ DSideCycle
  /\ UNCHANGED <<prog, results>>

Next ==
  \/ \E n \in 0 .. 2, ready, grant \in BOOLEAN, br \in Tag \cup {NoTag}, squash \in BOOLEAN :
       Cycle(n, ready, grant, br, squash)
  \/ Flush

Spec == Init /\ [][Next]_vars

\* The clock does not stop; fetch delivers what dispatch accepts, operands
\* arrive, branches execute and the output buffer gets a bus, again and again.
Progress ==
  \E n \in 0 .. 2, br \in Tag \cup {NoTag}, squash \in BOOLEAN :
    /\ (n = 0 /\ ~squash) => ~CanDispatch(1)
    /\ br = NoTag => ~\E t \in Live : Op(t) = "br" /\ ~rob[t].done
    /\ Cycle(n, TRUE, out_q.tag # NoTag, br, squash)

FairSpec == Spec /\ WF_vars(Progress) /\ WF_vars(Flush)

-----------------------------------------------------------------------------
(* Properties.                                                             *)

TypeOK ==
  /\ head \in Tag /\ used \in 0 .. ROB_SIZE
  /\ Cardinality(memq) <= QUEUE_ENTRIES /\ Len(sq) <= SQ_ENTRIES /\ Len(sb) <= STOREBUF_DEPTH
  /\ fill \in 0 .. LINE_WORDS /\ uncached_wait \in BOOLEAN /\ victim \in Way
  /\ at.state \in {"idle", "read", "wait", "write"}
  /\ reserved \in Word \cup {NoWord}
  /\ \A t \in Tag : rob[t].live <=> TagAge(t, head) < used

Elements(s) == {s[i] : i \in DOMAIN s}

(* The queues keep their bounds (TypeOK), and every unfinished access in   *)
(* flight is in exactly one of the memory queue, the load stage, the       *)
(* atomic sequence and the output buffer, and nothing wrong-path is in any *)
(* of them: no squash, flush or grant in the cycle an access moves on      *)
(* loses it, doubles it or leaves its result to be broadcast under a tag   *)
(* that was given away again.                                              *)
AccessOnce ==
  LET loading == IF ld # NoLoad /\ ~ld.squashed THEN {ld.tag} ELSE {}
      running == IF at.state # "idle" THEN {at.tag} ELSE {}
      leaving == {out_q.tag} \ {NoTag}
      places  == <<memq, loading, running, leaving>>
  IN  /\ TypeOK
      /\ UNION {places[i] : i \in 1 .. 4}
           = {t \in Live : IsMem(rob[t].pc) /\ ~rob[t].done}
      /\ \A i, j \in 1 .. 4 : i # j => places[i] \cap places[j] = {}

(* The store queue holds exactly the stores in flight that have left the   *)
(* memory queue without a fault, in program order, so that the entry a     *)
(* committing store sends to memory is its own.                            *)
StoreQueueExact ==
  /\ {s.tag : s \in Elements(sq)}
       = {t \in Live : Op(t) = "st" /\ ~ISA!Faults(rob[t].pc) /\ t \notin memq}
  /\ \A i, j \in DOMAIN sq : i < j => Younger(sq[j].tag, sq[i].tag)
  /\ commit_store => sq # <<>> /\ sq[1].tag = IF commit0 /\ IsStore(h0) THEN head
                                              ELSE TagPlus(head, 1)

(* A refill writes a line whose words nobody else writes: from its first   *)
(* beat to its last the words it has copied stay equal to memory.          *)
RefillExact ==
  \A o \in Offset : o + 1 < fill =>
    /\ ld # NoLoad
    /\ lines[victim][o] = mem[BeatWord(Load, o)]

(* While an atomic runs the memory port is its alone, as the comment at    *)
(* LoadStoreUnit.sv:378 says: nothing drains, refills or reads, so no      *)
(* committed store is dropped under it and no line filled behind it.       *)
PortExclusive == at.state # "idle" => sb_empty /\ ~busy /\ ld = NoLoad

(* A line the cache would answer from equals memory, word by word: stores  *)
(* and atomics that reach memory reach or invalidate the line in the same  *)
(* cycle.  While a refill is overwriting it nothing looks, and the words   *)
(* copied so far are current; while an atomic runs nothing else does.      *)
CacheCoherent ==
  /\ RefillExact /\ PortExclusive
  /\ \A y \in Way : tags[y] # NoLine /\ ~(fill > 1 /\ y = victim) =>
       \A o \in Offset : lines[y][o] = mem[tags[y] * LINE_WORDS + o]

\* The atomic at the head that has acted on memory and is yet to commit.
Performed ==
  /\ used > 0 /\ ISA!IsAtomic(h0.pc) /\ ~ISA!Faults(h0.pc)
  /\ h0.done \/ out_q.tag = head

PerformedResult == IF h0.done THEN h0.val ELSE out_q.val

Arch == INSTANCE InOrderMemory WITH
  memory   <- Image(mem, sb),
  pc       <- IF used = 0 THEN fpc
              ELSE IF ~Performed THEN h0.pc
              ELSE IF used > 1 THEN h1.pc ELSE fpc,
  reserved <- IF atomic_commit = 0 THEN reserved
              ELSE IF Code(atomic_commit).op = "lr" THEN Code(atomic_commit).word ELSE NoWord,
  results  <- IF Performed THEN [results EXCEPT ![h0.pc] = PerformedResult] ELSE results

(* Memory, the reservation and everything loads and atomics return change  *)
(* as if the accesses were made one at a time in program order: through    *)
(* forwarding from either queue, loads that overtake stores, partial       *)
(* overlaps, refills with stores arriving, squashes, flushes and traps.    *)
ImplementsInOrderMemory == Arch!Spec

(* No wait among the memory queue, the store queue, the store buffer, the  *)
(* load stage and the output buffer is circular: every program ends, with  *)
(* all its stores in memory.                                               *)
EventuallyDrained == <>(used = 0 /\ fpc \notin PC /\ drained)

=============================================================================
