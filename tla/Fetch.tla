------------------------------- MODULE Fetch --------------------------------
(***************************************************************************)
(* The front end of otter_mcu_ooo.sv up to dispatch: the program counter,  *)
(* the redirect that waits for a refill, the two decode windows cut from   *)
(* the words at PC and PC+4, and the queue of two packets, over            *)
(* InstructionCache.  One step is one clock cycle.                         *)
(*                                                                         *)
(* Choices of a step: how many packets dispatch takes, a redirect (of a    *)
(* branch, a trap or fence.i) and where to, a store of the data side, and  *)
(* what the predictor says of each control instruction.                    *)
(***************************************************************************)
EXTENDS InstructionCache

CONSTANTS Targets,       \* where predictions and redirects may lead
          Patches,       \* stores to code: functions from halfwords to parcels
          NoTarget

ASSUME FetchAssumption ==
  /\ Targets \subseteq Half /\ NoTarget \notin Half
  /\ \A s \in Patches : \A h \in DOMAIN s : s[h] \in Parcel

VARIABLES pc_out,
          redirect_pending,  \* target of the redirect that waits, or NoTarget
          queue,             \* if_id and if1_if2, oldest first
          told,              \* history: the redirect of the cycle before, or NoTarget
          idle               \* history: cycles without a redirect that the queue is empty

vars == <<icacheVars, pc_out, redirect_pending, queue, told, idle>>

pending == redirect_pending # NoTarget

-----------------------------------------------------------------------------
(* The two slots.                                                          *)

word0 == pc_out - (pc_out % 2)       \* first halfword of the word at PC
parcel0 == Fetched(pc_out)
requires_next_word == pc_out % 2 = 1 /\ parcel0.len = 2
next_valid == Present(LineOf(pc_out + 2))
hit_raw == Present(LineOf(pc_out))

\* Mutated: a straddling instruction does not wait for its second word.
slot0_readyEarly == hit_raw
slot0_ready == hit_raw /\ (requires_next_word => next_valid)

slot1_pc == pc_out + parcel0.len
parcel1 == Fetched(slot1_pc)
slot1_last == slot1_pc + parcel1.len - 1

\* All bytes of slot 1 are in the two words, and the words it needs are there.
\* Mutated: the second word is taken to be there.
slot1_bytes_readyBlind == slot1_last <= word0 + 3
slot1_bytes_ready ==
  /\ slot1_last <= word0 + 3
  /\ slot1_last > word0 + 1 => next_valid

\* A packet of the instruction at h; target is where it is predicted to jump.
Packet(h, target) ==
  LET parcels == [k \in 1 .. Fetched(h).len |-> Fetched(h + k - 1)]
  IN  [pc |-> Wrap(h), parcels |-> parcels, taken |-> target # NoTarget,
       next |-> IF target = NoTarget THEN Wrap(h + Len(parcels)) ELSE target]

IsControl(p) == p.kind \in {"branch", "jump"}
Predictions(p) == {NoTarget} \cup (IF IsControl(p) THEN Targets ELSE {})

-----------------------------------------------------------------------------
(* What may share the queue.                                               *)

Kind(i) == i.parcels[1].kind
is_front_barrier(i) == Kind(i) # "plain"
NotTakenBranch(i) == Kind(i) = "branch" /\ ~i.taken

\* Mutated: a branch predicted not taken lets any instruction follow.
MayFollowAny(i, j) == ~is_front_barrier(i) \/ NotTakenBranch(i)
MayFollow(i, j) ==
  ~is_front_barrier(i) \/ (NotTakenBranch(i) /\ ~is_front_barrier(j))
LetsFollow(i) == ~is_front_barrier(i) \/ NotTakenBranch(i)

AfterDispatch(d) == SubSeq(queue, d + 1, Len(queue))

\* Mutated: fetch does not ask whether the second place is free.
fetch_requestOverfull(left, redirect) ==
  /\ redirect = NoTarget /\ ~pending
  /\ left = <<>> \/ LetsFollow(left[1])

fetch_request(left, redirect) ==
  /\ redirect = NoTarget /\ ~pending
  /\ \/ left = <<>>
     \/ Len(left) = 1 /\ LetsFollow(left[1])

\* What is put behind the packets left, for predictions p0 and p1.
Delivered(left, p0, p1) ==
  LET slot0 == Packet(pc_out, p0)
      slot1 == Packet(slot1_pc, p1)
  IN  IF left # <<>>
      THEN IF MayFollow(left[1], slot0) THEN <<slot0>> ELSE <<>>
      ELSE IF slot1_bytes_ready /\ MayFollow(slot0, slot1)
      THEN <<slot0, slot1>>
      ELSE <<slot0>>

-----------------------------------------------------------------------------
(* One clock cycle.                                                        *)

\* Mutated: the redirect that waited is taken before a newer one.
NextPcOlderFirst(stall, redirect, new) ==
  IF stall THEN pc_out
  ELSE IF pending THEN redirect_pending
  ELSE IF redirect # NoTarget THEN redirect
  ELSE IF new # <<>> THEN new[Len(new)].next ELSE pc_out

NextPc(stall, redirect, new) ==
  IF stall THEN pc_out
  ELSE IF redirect # NoTarget THEN redirect
  ELSE IF pending THEN redirect_pending
  ELSE IF new # <<>> THEN new[Len(new)].next ELSE pc_out

\* A redirect during a refill waits for it.
NextPending(stall, redirect) ==
  IF redirect # NoTarget /\ stall THEN redirect
  ELSE IF ~stall THEN NoTarget ELSE redirect_pending

Init ==
  /\ ICacheInit
  /\ pc_out = 0 /\ redirect_pending = NoTarget /\ queue = <<>>
  /\ told = NoTarget /\ idle = 0

Cycle(d, redirect, invalidate, store, p0, p1) ==
  LET left    == AfterDispatch(d)
      request == fetch_request(left, redirect)
      hit     == request /\ slot0_ready
      miss    == request /\ ~hit_raw
      stall   == pc_stall(hit, miss)
      new     == IF hit /\ ~stall THEN Delivered(left, p0, p1) ELSE <<>>
  IN  /\ ICache(pc_out, hit, miss, invalidate, store)
      /\ pc_out' = NextPc(stall, redirect, new)
      /\ redirect_pending' = NextPending(stall, redirect)
      /\ queue' = IF redirect # NoTarget \/ pending THEN <<>> ELSE left \o new
      /\ told' = redirect
      /\ idle' = IF queue' = <<>> /\ redirect = NoTarget THEN idle + 1 ELSE 0

Run ==
  \E d \in 0 .. Len(queue), store \in Patches \cup {<<>>},
     p0 \in Predictions(parcel0), p1 \in Predictions(parcel1) :
    Cycle(d, NoTarget, FALSE, store, p0, p1)

Redirect ==
  \E d \in 0 .. Len(queue), store \in Patches \cup {<<>>}, t \in Targets :
    Cycle(d, t, FALSE, store, NoTarget, NoTarget)

\* fence.i commits when every store has been written.
FenceI ==
  \E d \in 0 .. Len(queue), t \in Targets : Cycle(d, t, TRUE, <<>>, NoTarget, NoTarget)

Next == Run \/ Redirect \/ FenceI

Spec == Init /\ [][Next]_vars

-----------------------------------------------------------------------------
(* Properties.                                                             *)

Instruction == [pc : Half, parcels : Seq(Parcel), taken : BOOLEAN, next : Half]

TypeOK ==
  /\ ICacheTypeOK
  /\ pc_out \in Half /\ redirect_pending \in Half \cup {NoTarget}
  /\ queue \in Seq(Instruction) /\ Len(queue) <= 2
  /\ told \in Half \cup {NoTarget} /\ idle \in Nat

\* A refill writes the line the program counter is in: what the instruction
\* memory read a cycle ago is still what is wanted, although a redirect may
\* have come meanwhile (the assertion at otter_mcu_ooo.sv:534).
RefillRightLine == update => imem.line = LineOf(pc_out)

\* Whatever can still be delivered - cached lines, the prefetch buffer, the
\* words the instruction memories hold - and is tagged as a line is code of
\* that line, as it was at the last fence.i or has been since.
Current(l, data) == \A o \in DOMAIN data : data[o] \in since[l * LINE_HALVES + o]
NoStaleCode ==
  /\ \A y \in Way : tags[y] # NoLine => Current(tags[y], lines[y])
  /\ prefetch.line # NoLine => Current(prefetch.line, prefetch.data)
  /\ Current(imem.line, imem.data) /\ Current(ahead.line, ahead.data)

\* Fetch implements the stream of instructions it promises.
Stream ==
  INSTANCE FetchPath WITH HALVES <- CODE_LINES * LINE_HALVES, Capacity <- 2,
    expect <- IF pending THEN redirect_pending ELSE pc_out
ImplementsFetchPath == Stream!Spec

\* A miss costs a cycle to notice and a cycle to refill (cachefsm.sv:16), and
\* a redirect that met a refill one more.  Beyond that the queue is never
\* empty: no instruction waits longer for a line, for the second half of a
\* straddling instruction or for the prefetch buffer, let alone for ever.
FETCH_WAIT == 3
FetchWaitBounded == idle <= FETCH_WAIT

=============================================================================
