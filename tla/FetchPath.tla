----------------------------- MODULE FetchPath ------------------------------
(***************************************************************************)
(* What fetch promises the rest of the core: a stream of predicted         *)
(* instructions that starts where fetch was last redirected to, in which   *)
(* each instruction is where its predecessor was predicted to continue,    *)
(* none is missing or delivered twice, and each is made of code that was   *)
(* in memory at the last fence.i or has been written since.  What waits    *)
(* side by side can be dispatched as one bundle.  No cache, no refills, no *)
(* program counter that waits for them.                                    *)
(***************************************************************************)
EXTENDS Integers, Sequences

CONSTANTS HALVES,        \* halfwords of instruction memory
          Capacity,      \* most instructions delivered and not yet taken
          NoTarget

VARIABLES code,          \* [Half -> parcel]
          since,         \* [Half -> SUBSET parcel], what it was since the last fence.i
          queue,         \* delivered and not yet taken: [pc, parcels, taken, next]
          expect,        \* where the next instruction comes from
          told           \* where the last step redirected fetch to, or NoTarget

Half == 0 .. HALVES - 1
Past(h, n) == (h + n) % HALVES

IsControl(i) == i.parcels[1].kind \in {"branch", "jump"}

\* An instruction at h as memory could show it; n is where it was predicted
\* to continue, which only control instructions choose.
Shows(i, h) ==
  /\ i.pc = h
  /\ Len(i.parcels) = i.parcels[1].len
  /\ \A k \in DOMAIN i.parcels : i.parcels[k] \in since[Past(h, k - 1)]
  /\ i.next \in Half
  /\ ~i.taken => i.next = Past(h, Len(i.parcels))
  /\ i.taken => IsControl(i)

FollowsFrom(s, h) ==
  \A k \in DOMAIN s : Shows(s[k], IF k = 1 THEN h ELSE s[k - 1].next)

\* No instruction shares the queue with a control instruction ahead of it but
\* behind a branch predicted not taken, and then it is none: two together take
\* at most one rename checkpoint and one step of the branch history.
Bundled(s) ==
  \A k \in 1 .. Len(s) - 1 : IsControl(s[k]) => ~s[k].taken /\ ~IsControl(s[k + 1])

Init ==
  /\ since = [h \in Half |-> {code[h]}]
  /\ queue = <<>> /\ expect = 0 /\ told = NoTarget

Writes == \A h \in Half : code'[h] \in since'[h] /\ since[h] \subseteq since'[h]

\* Instructions are taken at the old end and delivered at the young end.
Deliver ==
  /\ Writes /\ told' = NoTarget
  /\ \E d \in 0 .. Len(queue) :
       LET kept == SubSeq(queue, d + 1, Len(queue))
           new  == SubSeq(queue', Len(kept) + 1, Len(queue'))
       IN  /\ Len(kept) <= Len(queue') /\ Len(queue') <= Capacity
           /\ Bundled(queue')
           /\ SubSeq(queue', 1, Len(kept)) = kept
           /\ FollowsFrom(new, expect)
           /\ expect' = IF new = <<>> THEN expect ELSE new[Len(new)].next

Redirect ==
  /\ Writes /\ told' \in Half
  /\ queue' = <<>> /\ expect' = told'

\* Redirects as well, and from now on only the code of now counts.
FenceI ==
  /\ told' \in Half
  /\ queue' = <<>> /\ expect' = told'
  /\ code' = code /\ since' = [h \in Half |-> {code[h]}]

Next == Deliver \/ Redirect \/ FenceI

Spec == Init /\ [][Next]_<<code, since, queue, expect, told>>

=============================================================================
