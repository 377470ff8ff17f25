------------------------ MODULE RenameRecoveryProofs ------------------------
(***************************************************************************)
(* The rename table and its checkpoints are exact, for every ring size,    *)
(* set of registers and number of checkpoints.  The argument: a table that *)
(* is exact for the n oldest tags stays so when commit clears what it      *)
(* retires (ExactCleared) and when the next tag is renamed (ExactRenamed); *)
(* a checkpoint is exact for the tags up to its branch, so a restore is    *)
(* exact for what a squash leaves.                                         *)
(***************************************************************************)
EXTENDS RenameRecovery, TLAPS

-----------------------------------------------------------------------------
(* The tag ring.                                                           *)

(* Advancing a tag stays on the ring.                                      *)
LEMMA TagPlusType ==
  ASSUME NEW t \in Tag, NEW k \in 0 .. ROB_SIZE
  PROVE  TagPlus(t, k) \in Tag
BY RobSizeAssumption DEF Tag, TagPlus

(* Ages are ring distances.                                                *)
LEMMA TagAgeType ==
  ASSUME NEW t \in Tag, NEW h \in Tag
  PROVE  TagAge(t, h) \in 0 .. ROB_SIZE - 1
BY RobSizeAssumption DEF Tag, TagAge

(* The tag an age away from the head is that tag: tags and ages determine  *)
(* each other.                                                             *)
LEMMA TagOfAge ==
  ASSUME NEW t \in Tag, NEW h \in Tag
  PROVE  TagPlus(h, TagAge(t, h)) = t
BY RobSizeAssumption DEF Tag, TagAge, TagPlus

(* The age of the tag k places after the head is k.                        *)
LEMMA AgeOfTag ==
  ASSUME NEW h \in Tag, NEW k \in 0 .. ROB_SIZE - 1
  PROVE  TagAge(TagPlus(h, k), h) = k
BY RobSizeAssumption DEF Tag, TagAge, TagPlus

(* Advances add up as long as they stay within one turn of the ring.       *)
LEMMA TagPlusPlus ==
  ASSUME NEW t \in Tag, NEW j \in 0 .. ROB_SIZE, NEW k \in 0 .. ROB_SIZE,
         j + k <= ROB_SIZE
  PROVE  TagPlus(TagPlus(t, j), k) = TagPlus(t, j + k)
BY RobSizeAssumption DEF Tag, TagPlus

(* When the head advances by k, every tag it did not pass becomes k        *)
(* younger, and the tags it passed wrap to the young end of the ring.      *)
LEMMA AgeAfterCommit ==
  ASSUME NEW t \in Tag, NEW h \in Tag, NEW k \in 0 .. 2
  PROVE  TagAge(t, TagPlus(h, k)) =
           IF TagAge(t, h) >= k THEN TagAge(t, h) - k
                                ELSE TagAge(t, h) - k + ROB_SIZE
BY RobSizeAssumption DEF Tag, TagAge, TagPlus

-----------------------------------------------------------------------------

\* The n oldest tags of a ring whose head is h.
Window(h, n) == {t \in Tag : TagAge(t, h) < n}

\* table maps each register to the youngest of the tags S that writes it.
Exact(table, S, f, h) ==
  \A r \in Reg :
    /\ table[r] # Committed => table[r] \in S /\ f[table[r]].rd = r
    /\ \A t \in S : f[t].rd = r => table[r] # Committed /\ ~TagYounger(t, table[r], h)

ClearsOf(f, h, k) == {Port(f[t].rd, t) : t \in Window(h, k)}

(* The tables.                                                             *)

\* Only the destinations of the tags in question matter.
LEMMA ExactSame ==
  ASSUME NEW S, NEW table, NEW h, NEW f, NEW g, Exact(table, S, f, h),
         \A t \in S : g[t].rd = f[t].rd
  PROVE  Exact(table, S, g, h)
BY DEF Exact

\* Committing the k oldest and clearing their mappings leaves an exact table.
LEMMA ExactCleared ==
  ASSUME NEW h \in Tag, NEW k \in 0 .. 2, NEW n \in Int, k <= n, n <= ROB_SIZE,
         NEW f, NEW table \in Table, Exact(table, Window(h, n), f, h)
  PROVE  Exact(Cleared(table, ClearsOf(f, h, k)), Window(TagPlus(h, k), n - k), f, TagPlus(h, k))
<1> DEFINE g == TagPlus(h, k)
           new == Cleared(table, ClearsOf(f, h, k))
<1>1. ROB_SIZE \in Nat /\ Committed \notin Tag
  BY RobSizeAssumption, RenameAssumption
<1>2. \A t \in Tag : TagAge(t, h) \in Int /\ TagAge(t, h) >= 0 /\ TagAge(t, h) < ROB_SIZE
  BY <1>1, TagAgeType
<1>3. \A t \in Tag :
        TagAge(t, g) = IF TagAge(t, h) >= k THEN TagAge(t, h) - k ELSE TagAge(t, h) - k + ROB_SIZE
  BY AgeAfterCommit
<1> HIDE DEF g
<1>4. \A t \in Tag : t \in Window(g, n - k) <=> t \in Window(h, n) /\ TagAge(t, h) >= k
  BY <1>1, <1>2, <1>3 DEF Window
<1>5. \A r \in Reg :
        new[r] = IF \E t \in Window(h, k) : f[t].rd = r /\ t = table[r] THEN Committed ELSE table[r]
  <2>1. \A r : (\E p \in ClearsOf(f, h, k) : p.rd = r /\ p.tag = table[r])
               <=> \E t \in Window(h, k) : f[t].rd = r /\ t = table[r]
    <3>1. \A t : Port(f[t].rd, t).rd = f[t].rd /\ Port(f[t].rd, t).tag = t
      BY DEF Port
    <3>2. \A p : p \in ClearsOf(f, h, k) <=> \E t \in Window(h, k) : p = Port(f[t].rd, t)
      BY DEF ClearsOf
    <3> QED BY <3>1, <3>2
  <2> QED BY <2>1 DEF Cleared
<1>6. \A r \in Reg : table[r] \in Tag \cup {Committed}
  BY DEF Table
<1> HIDE DEF new
<1> SUFFICES ASSUME NEW r \in Reg
             PROVE  /\ new[r] # Committed => new[r] \in Window(g, n - k) /\ f[new[r]].rd = r
                    /\ \A t \in Window(g, n - k) : f[t].rd = r =>
                         new[r] # Committed /\ ~TagYounger(t, new[r], g)
  BY DEF Exact, new, g
<1>7. ASSUME new[r] # Committed PROVE new[r] \in Window(g, n - k) /\ f[new[r]].rd = r
  <2>1. new[r] = table[r] /\ table[r] \in Window(h, n) /\ f[table[r]].rd = r
    BY <1>5, <1>7 DEF Exact
  <2>2. table[r] \in Tag /\ table[r] \notin Window(h, k)
    BY <1>5, <1>6, <1>7, <2>1
  <2>3. ~ (TagAge(table[r], h) < k)
    BY <2>2 DEF Window
  <2> QED BY <1>2, <1>4, <2>1, <2>2, <2>3
<1>8. ASSUME NEW t \in Window(g, n - k), f[t].rd = r
      PROVE  new[r] # Committed /\ ~TagYounger(t, new[r], g)
  <2>1. t \in Tag
    BY DEF Window
  <2>2. t \in Window(h, n) /\ TagAge(t, h) >= k
    BY <1>4, <2>1
  <2>3. table[r] # Committed /\ ~TagYounger(t, table[r], h) /\ table[r] \in Tag
    BY <1>6, <1>8, <2>2 DEF Exact
  <2>4. TagAge(table[r], h) >= k
    BY <1>2, <2>1, <2>2, <2>3 DEF TagYounger
  <2>5. table[r] \notin Window(h, k)
    BY <1>2, <2>3, <2>4 DEF Window
  <2>6. new[r] = table[r]
    BY <1>5, <2>5
  <2>7. ~TagYounger(t, table[r], g)
    BY <1>1, <1>2, <1>3, <2>1, <2>2, <2>3, <2>4 DEF TagYounger
  <2> QED BY <2>3, <2>6, <2>7
<1> QED BY <1>7, <1>8

\* Renaming the destination of the next tag leaves an exact table.
LEMMA ExactRenamed ==
  ASSUME NEW h \in Tag, NEW n \in Nat, n < ROB_SIZE,
         NEW f, NEW table \in Table, Exact(table, Window(h, n), f, h),
         NEW t \in Tag, t = TagPlus(h, n)
  PROVE  /\ Exact(Renamed(table, Port(f[t].rd, t)), Window(h, n + 1), f, h)
         /\ Renamed(table, Port(f[t].rd, t)) \in Table
<1> DEFINE new == Renamed(table, Port(f[t].rd, t))
<1>1. ROB_SIZE \in Nat /\ Committed \notin Tag
  BY RobSizeAssumption, RenameAssumption
<1>2. \A u \in Tag : TagAge(u, h) \in Int
  BY <1>1, TagAgeType
<1>3. TagAge(t, h) = n
  BY <1>1, AgeOfTag
<1>4. \A u \in Tag : TagAge(u, h) = n => u = t
  BY TagOfAge
<1>5. \A r \in Reg : new[r] = IF f[t].rd = r THEN t ELSE table[r]
  BY DEF Renamed, Port
<1>6. \A u : u \in Window(h, n + 1) <=> u \in Window(h, n) \/ u = t
  BY <1>2, <1>3, <1>4 DEF Window
<1>7. \A u \in Window(h, n) : u \in Tag /\ TagAge(u, h) < n
  BY DEF Window
<1>8. \A r \in Reg : table[r] \in Tag \cup {Committed}
  BY DEF Table
<1>9. new \in Table
  BY DEF Renamed, Port, Table
<1> HIDE DEF new
<1> SUFFICES ASSUME NEW r \in Reg
             PROVE  /\ new[r] # Committed => new[r] \in Window(h, n + 1) /\ f[new[r]].rd = r
                    /\ \A u \in Window(h, n + 1) : f[u].rd = r =>
                         new[r] # Committed /\ ~TagYounger(u, new[r], h)
  BY <1>9 DEF Exact, new
<1>10. CASE f[t].rd = r
  <2>1. new[r] = t /\ t # Committed
    BY <1>1, <1>5, <1>10
  <2>2. \A u \in Window(h, n + 1) : ~TagYounger(u, t, h)
    BY <1>2, <1>3, <1>6, <1>7 DEF TagYounger
  <2> QED BY <1>6, <1>10, <2>1, <2>2
<1>11. CASE f[t].rd # r
  <2>1. new[r] = table[r]
    BY <1>5, <1>11
  <2> QED BY <1>6, <1>11, <2>1 DEF Exact
<1> QED BY <1>10, <1>11

-----------------------------------------------------------------------------
(* The inductive invariant.                                                *)

\* The instructions in flight are the used oldest slots; others hold nothing.
LiveInWindow ==
  \A t \in Tag : /\ Live(t) <=> t \in Window(head, used)
                 /\ ~Live(t) => rob[t] = Idle

RatTrue == Exact(rat, Window(head, used), rob, head)

UpToOwner(q) == Window(head, TagAge(ckpt_owner[q], head) + 1)
CkptTrue == \A q \in ckpt_used : Exact(ck[q], UpToOwner(q), rob, head)

\* A branch waits in one place and with one checkpoint.
HeldOnce ==
  /\ \A t \in Tag, p, q \in Ckpt : Holds(t, p) /\ Holds(t, q) => p = q
  /\ br_e.valid => [tag |-> br_e.tag, ckpt |-> br_e.ckpt] \notin rs_br

IInv == TypeOK /\ LiveInWindow /\ RatTrue /\ CkptTrue /\ CkptLifecycle /\ HeldOnce

-----------------------------------------------------------------------------
(* Facts of a state that satisfies it.                                     *)

\* What the executing branch, if there is one, is.
LEMMA ExecutingBranch ==
  ASSUME IInv
  PROVE  /\ br_e.valid => /\ br_e.tag \in Tag /\ br_e.ckpt \in Ckpt /\ br_e.ckpt \in ckpt_used
                          /\ Holds(br_e.tag, br_e.ckpt)
                          /\ ckpt_owner[br_e.ckpt] = br_e.tag
                          /\ rob[br_e.tag].br = "pending" /\ Live(br_e.tag)
         /\ ~br_e.valid => br_e.ckpt = NoCkpt
         /\ br_e.valid \in BOOLEAN
<1>1. br_e \in {NoBranch} \cup [valid : {TRUE}, tag : Tag, ckpt : Ckpt]
  BY DEF IInv, TypeOK
<1>2. CASE br_e = NoBranch
  BY <1>2 DEF NoBranch
<1>3. CASE br_e \in [valid : {TRUE}, tag : Tag, ckpt : Ckpt]
  <2>1. br_e.valid = TRUE /\ br_e.tag \in Tag /\ br_e.ckpt \in Ckpt
    BY <1>3
  <2>2. Holds(br_e.tag, br_e.ckpt)
    BY <2>1 DEF Holds
  <2>3. br_e.ckpt \in ckpt_used /\ ckpt_owner[br_e.ckpt] = br_e.tag
    BY <2>1, <2>2 DEF IInv, CkptLifecycle
  <2>4. rob[br_e.tag].br = "pending" /\ Live(br_e.tag)
    BY <2>3 DEF IInv, CkptLifecycle
  <2> QED BY <2>1, <2>2, <2>3, <2>4
<1> QED BY <1>1, <1>2, <1>3

\* Commit never passes an unresolved branch.
LEMMA CommitPassesNoBranch ==
  ASSUME IInv, NEW k \in 0 .. 2, CanCommit(k), NEW t \in Tag, rob[t].br = "pending"
  PROVE  TagAge(t, head) >= k /\ ~Committing(k, t)
<1>1. ROB_SIZE \in Nat /\ ROB_SIZE >= 2 /\ head \in Tag
  BY RobSizeAssumption DEF IInv, TypeOK
<1>2. TagAge(t, head) \in 0 .. ROB_SIZE - 1 /\ TagPlus(head, TagAge(t, head)) = t
  BY <1>1, TagAgeType, TagOfAge
<1>3. TagPlus(head, 0) = head
  BY <1>1 DEF TagPlus, Tag
<1>4. TagAge(t, head) = 0 => k = 0
  BY <1>1, <1>2, <1>3 DEF CanCommit
<1>5. TagAge(t, head) = 1 => k < 2
  BY <1>1, <1>2 DEF CanCommit
<1> QED BY <1>2, <1>4, <1>5 DEF Committing

\* How commit moves the window.
LEMMA WindowAfterCommit ==
  ASSUME IInv, NEW k \in 0 .. 2, k <= used, NEW n \in Int, k <= n, n <= ROB_SIZE
  PROVE  /\ TagPlus(head, k) \in Tag
         /\ \A t \in Tag : t \in Window(TagPlus(head, k), n - k)
                           <=> TagAge(t, head) < n /\ TagAge(t, head) >= k
         /\ \A t \in Tag : TagAge(t, head) >= k =>
                             TagAge(t, TagPlus(head, k)) = TagAge(t, head) - k
<1>1. ROB_SIZE \in Nat /\ ROB_SIZE >= 2 /\ head \in Tag
  BY RobSizeAssumption DEF IInv, TypeOK
<1>2. \A t \in Tag : TagAge(t, head) \in 0 .. ROB_SIZE - 1
  BY <1>1, TagAgeType
<1>3. \A t \in Tag : TagAge(t, TagPlus(head, k)) =
        IF TagAge(t, head) >= k THEN TagAge(t, head) - k ELSE TagAge(t, head) - k + ROB_SIZE
  BY <1>1, AgeAfterCommit
<1>4. TagPlus(head, k) \in Tag
  BY <1>1, TagPlusType
<1> QED BY <1>1, <1>2, <1>3, <1>4 DEF Window

LEMMA ClearsAreOfCommitting == \A k : Clears(k) = ClearsOf(rob, head, k)
BY DEF Clears, ClearsOf, Committing, Window

\* Committing keeps every taken checkpoint exact, and the rename table.
LEMMA TablesAfterCommit ==
  ASSUME IInv, NEW k \in 0 .. 2, CanCommit(k)
  PROVE  /\ Exact(Cleared(rat, Clears(k)), Window(TagPlus(head, k), used - k), rob, TagPlus(head, k))
         /\ \A q \in ckpt_used :
              Exact(Cleared(ck[q], Clears(k)),
                    Window(TagPlus(head, k), TagAge(ckpt_owner[q], TagPlus(head, k)) + 1),
                    rob, TagPlus(head, k))
         /\ \A q \in ckpt_used : /\ ckpt_owner[q] \in Tag
                                 /\ TagAge(ckpt_owner[q], head) >= k
                                 /\ TagAge(ckpt_owner[q], head) < used
         /\ \A table \in Table : Cleared(table, Clears(k)) \in Table
<1>1. /\ head \in Tag /\ used \in 0 .. ROB_SIZE /\ k <= used /\ rat \in Table
      /\ ck \in [Ckpt -> Table] /\ ckpt_used \in SUBSET Ckpt /\ ckpt_owner \in [Ckpt -> Tag]
      /\ ROB_SIZE \in Nat
  BY RobSizeAssumption DEF IInv, TypeOK, CanCommit
<1>2. Exact(Cleared(rat, Clears(k)), Window(TagPlus(head, k), used - k), rob, TagPlus(head, k))
  BY <1>1, ExactCleared, ClearsAreOfCommitting DEF IInv, RatTrue
<1>3. ASSUME NEW q \in ckpt_used
      PROVE  /\ ckpt_owner[q] \in Tag
             /\ TagAge(ckpt_owner[q], head) >= k /\ TagAge(ckpt_owner[q], head) < used
             /\ Exact(Cleared(ck[q], Clears(k)),
                      Window(TagPlus(head, k), TagAge(ckpt_owner[q], TagPlus(head, k)) + 1),
                      rob, TagPlus(head, k))
  <2>1. ckpt_owner[q] \in Tag /\ ck[q] \in Table
    BY <1>1
  <2>2. rob[ckpt_owner[q]].br = "pending" /\ Live(ckpt_owner[q])
    BY DEF IInv, CkptLifecycle
  <2>3. TagAge(ckpt_owner[q], head) >= k
    BY <2>1, <2>2, CommitPassesNoBranch
  <2>4. TagAge(ckpt_owner[q], head) \in 0 .. ROB_SIZE - 1 /\ TagAge(ckpt_owner[q], head) < used
    BY <1>1, <2>1, <2>2, TagAgeType DEF IInv, LiveInWindow, Window
  <2>5. TagAge(ckpt_owner[q], TagPlus(head, k)) = TagAge(ckpt_owner[q], head) - k
    BY <1>1, <2>1, <2>3, AgeAfterCommit
  <2> DEFINE n == TagAge(ckpt_owner[q], head) + 1
  <2>6. Exact(ck[q], Window(head, n), rob, head)
    BY DEF IInv, CkptTrue, UpToOwner
  <2>7. n \in Int /\ k <= n /\ n <= ROB_SIZE
        /\ n - k = TagAge(ckpt_owner[q], TagPlus(head, k)) + 1
    BY <1>1, <2>3, <2>4, <2>5
  <2> HIDE DEF n
  <2>8. Exact(Cleared(ck[q], ClearsOf(rob, head, k)), Window(TagPlus(head, k), n - k),
              rob, TagPlus(head, k))
    BY <1>1, <2>1, <2>6, <2>7, ExactCleared
  <2> QED BY <2>1, <2>3, <2>4, <2>7, <2>8, ClearsAreOfCommitting
<1>4. \A table \in Table : Cleared(table, Clears(k)) \in Table
  BY DEF Cleared, Table
<1> QED BY <1>2, <1>3, <1>4

-----------------------------------------------------------------------------
(* Dispatch.                                                               *)

\* A bundle has at most two slots, and at most one branch.
LEMMA BundleForms ==
  ASSUME NEW b \in Bundle
  PROVE  /\ Len(b) \in 0 .. 2 /\ DOMAIN b = 1 .. Len(b)
         /\ \A i \in 1 .. Len(b) : b[i] \in Slot
         /\ Len(b) = 2 => ~(b[1].ctl /\ b[2].ctl)
<1>1. CASE b = <<>>
  BY <1>1
<1>2. CASE \E s \in Slot : b = <<s>>
  BY <1>2
<1>3. CASE b \in {c \in Slot \X Slot : ~(c[1].ctl /\ c[2].ctl)}
  <2>1. b \in Slot \X Slot /\ ~(b[1].ctl /\ b[2].ctl)
    BY <1>3
  <2>2. PICK x \in Slot, y \in Slot : b = <<x, y>>
    BY <2>1
  <2> QED BY <2>1, <2>2
<1> QED BY <1>1, <1>2, <1>3 DEF Bundle

\* Where the slots of a bundle go, seen from the head before and after.
LEMMA DispatchedTags ==
  ASSUME IInv, NEW k \in 0 .. 2, k <= used, NEW n \in 0 .. 2, used + n <= ROB_SIZE
  PROVE  /\ tail \in Tag /\ TagPlus(tail, 1) \in Tag
         /\ n >= 1 => /\ tail = TagPlus(TagPlus(head, k), used - k)
                      /\ TagAge(tail, head) = used
                      /\ TagAge(tail, TagPlus(head, k)) = used - k
         /\ n = 2 => /\ TagPlus(tail, 1) = TagPlus(TagPlus(head, k), used - k + 1)
                     /\ TagAge(TagPlus(tail, 1), head) = used + 1
                     /\ TagAge(TagPlus(tail, 1), TagPlus(head, k)) = used - k + 1
<1>1. /\ ROB_SIZE \in Nat /\ ROB_SIZE >= 2 /\ head \in Tag /\ used \in 0 .. ROB_SIZE
  BY RobSizeAssumption DEF IInv, TypeOK
<1> DEFINE g == TagPlus(head, k)
<1>2. tail \in Tag /\ TagPlus(tail, 1) \in Tag /\ g \in Tag
  BY <1>1, TagPlusType DEF tail
<1>3. tail = TagPlus(g, used - k)
  BY <1>1, TagPlusPlus DEF tail
<1>4. ASSUME used + 2 <= ROB_SIZE PROVE TagPlus(tail, 1) = TagPlus(g, used - k + 1)
  BY <1>1, <1>2, <1>3, <1>4, TagPlusPlus
<1>5. ASSUME used + 2 <= ROB_SIZE PROVE TagPlus(tail, 1) = TagPlus(head, used + 1)
  BY <1>1, <1>2, <1>5, TagPlusPlus DEF tail
<1> HIDE DEF g
<1>6. ASSUME n >= 1 PROVE TagAge(tail, head) = used /\ TagAge(tail, g) = used - k
  BY <1>1, <1>2, <1>3, <1>6, AgeOfTag DEF tail
<1>7. ASSUME n = 2
      PROVE  TagAge(TagPlus(tail, 1), head) = used + 1 /\ TagAge(TagPlus(tail, 1), g) = used - k + 1
  BY <1>1, <1>2, <1>4, <1>5, <1>7, AgeOfTag
<1> QED BY <1>1, <1>2, <1>3, <1>4, <1>6, <1>7 DEF g

\* The reorder buffer after a cycle: what was dispatched, what stays, and
\* nothing else.
LEMMA RobAfterCycle ==
  ASSUME IInv, NEW b \in Bundle, NEW k \in 0 .. 2, NEW sel \in Selection,
         NEW id \in Ckpt \cup {NoCkpt}, Cycle(b, k, sel, id)
  PROVE  /\ k <= used /\ used + Len(b) <= ROB_SIZE
         /\ head' = TagPlus(head, k) /\ used' = used + Len(b) - k
         /\ head' \in Tag /\ used' \in 0 .. ROB_SIZE
         /\ rob' \in [Tag -> Entry]
         /\ Len(b) >= 1 => rob'[tail] = Allocated(b, 1)
         /\ Len(b) = 2 => rob'[TagPlus(tail, 1)] = Allocated(b, 2)
         /\ \A t \in Window(head', used - k) : rob'[t] = Executed(t)
         /\ \A t \in Tag : \/ t \in Window(head', used - k)
                           \/ Len(b) >= 1 /\ t = tail
                           \/ Len(b) = 2 /\ t = TagPlus(tail, 1)
                           \/ rob'[t] = Idle /\ t \notin Window(head', used')
         /\ \A t \in Window(head', used - k) : t \in Window(head', used') /\ t \in Window(head, used)
<1>1. /\ ROB_SIZE \in Nat /\ ROB_SIZE >= 2 /\ head \in Tag /\ used \in 0 .. ROB_SIZE
      /\ rob \in [Tag -> Entry]
  BY RobSizeAssumption DEF IInv, TypeOK
<1>2. Len(b) \in 0 .. 2 /\ \A i \in 1 .. Len(b) : b[i] \in Slot
  BY BundleForms
<1>3. k <= used /\ used + Len(b) <= ROB_SIZE
  BY <1>1, <1>2 DEF Cycle, CanDispatch, CanCommit, rob_free
<1>4. head' = TagPlus(head, k) /\ used' = used + Len(b) - k
  BY DEF Cycle
<1>5. head' \in Tag /\ used' \in 0 .. ROB_SIZE
  BY <1>1, <1>2, <1>3, <1>4, TagPlusType
<1>6. /\ tail \in Tag /\ TagPlus(tail, 1) \in Tag
      /\ Len(b) >= 1 => TagAge(tail, head) = used /\ TagAge(tail, head') = used - k
      /\ Len(b) = 2 => TagAge(TagPlus(tail, 1), head) = used + 1
                       /\ TagAge(TagPlus(tail, 1), head') = used - k + 1
  BY <1>1, <1>2, <1>3, <1>4, DispatchedTags
<1>7. \A t \in Tag : rob'[t] =
        IF Len(b) >= 1 /\ t = tail THEN Allocated(b, 1)
        ELSE IF Len(b) = 2 /\ t = TagPlus(tail, 1) THEN Allocated(b, 2)
        ELSE IF Committing(k, t) THEN Idle
        ELSE Executed(t)
  BY DEF Cycle
<1>8. \A t \in Tag : TagAge(t, head) \in 0 .. ROB_SIZE - 1
  BY <1>1, TagAgeType
<1>9. /\ \A t \in Tag : t \in Window(head', used - k) <=> TagAge(t, head) < used /\ TagAge(t, head) >= k
      /\ \A t \in Tag : t \in Window(head', used') <=> TagAge(t, head) < used + Len(b) /\ TagAge(t, head) >= k
  BY <1>1, <1>2, <1>3, <1>4, WindowAfterCommit
<1>10. \A t \in Tag : Executed(t) \in Entry /\ Executed(t).live = rob[t].live
                      /\ Executed(t).rd = rob[t].rd
  BY <1>1 DEF Executed, Entry, BrState
<1>11. Idle \in Entry /\ Idle.live = FALSE /\ Idle.br = "none"
  BY DEF Idle, Entry, Dest, BrState
<1>12. \A i \in 1 .. Len(b) : Allocated(b, i) \in Entry /\ Allocated(b, i).live = TRUE
  BY <1>2 DEF Allocated, Entry, BrState, Slot
<1>13. rob' \in [Tag -> Entry]
  <2>1. rob' = [t \in Tag |-> rob'[t]]
    BY DEF Cycle
  <2>2. ASSUME NEW t \in Tag PROVE rob'[t] \in Entry
    <3>1. Executed(t) \in Entry /\ Idle \in Entry
      BY <1>10, <1>11
    <3>2. /\ Len(b) >= 1 => Allocated(b, 1) \in Entry
          /\ Len(b) = 2 => Allocated(b, 2) \in Entry
      <4>1. (Len(b) >= 1 => 1 \in 1 .. Len(b)) /\ (Len(b) = 2 => 2 \in 1 .. Len(b))
        BY <1>2
      <4> QED BY <1>12, <4>1
    <3>3. \/ Len(b) >= 1 /\ rob'[t] = Allocated(b, 1)
          \/ Len(b) = 2 /\ rob'[t] = Allocated(b, 2)
          \/ rob'[t] = Idle \/ rob'[t] = Executed(t)
      BY <1>7
    <3> QED BY <3>1, <3>2, <3>3
  <2> QED BY <2>1, <2>2
<1>14. \A t \in Window(head', used - k) :
         t \in Tag /\ TagAge(t, head) < used /\ TagAge(t, head) >= k
  BY <1>9 DEF Window
<1>15. \A t \in Window(head', used - k) :
         /\ rob'[t] = Executed(t) /\ t \in Window(head', used') /\ t \in Window(head, used)
  <2> SUFFICES ASSUME NEW t \in Window(head', used - k)
               PROVE  rob'[t] = Executed(t) /\ t \in Window(head', used') /\ t \in Window(head, used)
    OBVIOUS
  <2>1. t \in Tag /\ TagAge(t, head) < used /\ TagAge(t, head) >= k /\ TagAge(t, head) \in Int
    BY <1>8, <1>14
  <2>2. ~(Len(b) >= 1 /\ t = tail) /\ ~(Len(b) = 2 /\ t = TagPlus(tail, 1))
    BY <1>1, <1>2, <1>6, <2>1
  <2>3. ~Committing(k, t)
    BY <2>1 DEF Committing
  <2> QED BY <1>1, <1>2, <1>7, <1>9, <2>1, <2>2, <2>3 DEF Window
<1>16. ASSUME NEW t \in Tag, t \notin Window(head', used - k),
              ~(Len(b) >= 1 /\ t = tail), ~(Len(b) = 2 /\ t = TagPlus(tail, 1))
       PROVE  rob'[t] = Idle /\ t \notin Window(head', used')
  <2>1. CASE TagAge(t, head) < k
    BY <1>7, <1>8, <1>9, <1>16, <2>1 DEF Committing
  <2>2. CASE ~(TagAge(t, head) < k)
    <3>1. TagAge(t, head) >= used
      BY <1>1, <1>8, <1>9, <1>16, <2>2
    <3>2. ~Live(t) /\ rob[t] = Idle
      BY <1>1, <1>8, <3>1 DEF IInv, LiveInWindow, Window
    <3>3. rob'[t] = Idle
      <4>1. ~(br_e.valid /\ br_e.tag = t)
        BY <3>2, ExecutingBranch
      <4>2. ~Committing(k, t)
        BY <1>8, <2>2 DEF Committing
      <4> QED BY <1>7, <1>16, <3>2, <4>1, <4>2 DEF Executed
    <3>4. TagAge(t, head) # used \/ Len(b) = 0
      <4>1. TagPlus(head, TagAge(t, head)) = t
        BY <1>1, TagOfAge
      <4> QED BY <1>2, <1>16, <4>1 DEF tail
    <3>5. TagAge(t, head) # used + 1 \/ Len(b) # 2
      <4>1. TagPlus(head, TagAge(t, head)) = t
        BY <1>1, TagOfAge
      <4>2. Len(b) = 2 => TagPlus(head, used + 1) = TagPlus(tail, 1)
        BY <1>1, <1>6, TagOfAge
      <4> QED BY <1>16, <4>1, <4>2
    <3> QED BY <1>1, <1>2, <1>8, <1>9, <3>1, <3>3, <3>4, <3>5
  <2> QED BY <2>1, <2>2
<1>17. /\ Len(b) >= 1 => rob'[tail] = Allocated(b, 1)
       /\ Len(b) = 2 => rob'[TagPlus(tail, 1)] = Allocated(b, 2)
  <2>1. Len(b) = 2 => tail # TagPlus(tail, 1)
    BY <1>1, <1>6
  <2> QED BY <1>6, <1>7, <2>1
<1>18. \A t \in Tag : \/ t \in Window(head', used - k)
                      \/ Len(b) >= 1 /\ t = tail
                      \/ Len(b) = 2 /\ t = TagPlus(tail, 1)
                      \/ rob'[t] = Idle /\ t \notin Window(head', used')
  BY <1>16
<1> QED BY <1>3, <1>4, <1>5, <1>13, <1>15, <1>17, <1>18

\* The rename table and the checkpoints after a cycle without recovery.
LEMMA TablesAfterCycle ==
  ASSUME IInv, NEW b \in Bundle, NEW k \in 0 .. 2, NEW sel \in Selection,
         NEW id \in Ckpt \cup {NoCkpt}, Cycle(b, k, sel, id)
  PROVE  /\ rat' \in Table /\ ck' \in [Ckpt -> Table]
         /\ Exact(rat', Window(head', used'), rob', head')
         /\ \A q \in ckpt_used :
              Exact(ck'[q], Window(head', TagAge(ckpt_owner[q], head') + 1), rob', head')
         /\ id # NoCkpt =>
              /\ BranchTag(b) \in Tag
              /\ Exact(ck'[id], Window(head', TagAge(BranchTag(b), head') + 1), rob', head')
<1>1. /\ k <= used /\ used + Len(b) <= ROB_SIZE
      /\ head' = TagPlus(head, k) /\ used' = used + Len(b) - k
      /\ head' \in Tag /\ used' \in 0 .. ROB_SIZE
      /\ Len(b) >= 1 => rob'[tail] = Allocated(b, 1)
      /\ Len(b) = 2 => rob'[TagPlus(tail, 1)] = Allocated(b, 2)
      /\ \A t \in Window(head', used - k) : rob'[t] = Executed(t)
  BY RobAfterCycle
<1>2. /\ ROB_SIZE \in Nat /\ ROB_SIZE >= 2 /\ head \in Tag /\ used \in 0 .. ROB_SIZE
      /\ rob \in [Tag -> Entry] /\ rat \in Table /\ ck \in [Ckpt -> Table]
      /\ ckpt_used \in SUBSET Ckpt
  BY RobSizeAssumption DEF IInv, TypeOK
<1>3. /\ Len(b) \in 0 .. 2 /\ DOMAIN b = 1 .. Len(b)
      /\ Len(b) = 2 => ~(b[1].ctl /\ b[2].ctl)
      /\ \A i \in 1 .. Len(b) : b[i] \in Slot
  BY BundleForms
<1>4. CanCommit(k)
  BY DEF Cycle
<1>5. \A t \in Tag : Executed(t).rd = rob[t].rd
  BY <1>2 DEF Executed, Entry, BrState
<1>6. \A t \in Window(head', used - k) : rob'[t].rd = rob[t].rd
  BY <1>1, <1>5 DEF Window
<1> DEFINE base == Cleared(rat, Clears(k))
           table0 == IF Len(b) >= 1 THEN Renamed(base, Port(b[1].rd, tail)) ELSE base
           table1 == IF Len(b) = 2 THEN Renamed(table0, Port(b[2].rd, TagPlus(tail, 1))) ELSE table0
<1>7. /\ rat' = table1
      /\ ck' = [q \in Ckpt |->
                  IF q = id THEN IF HasBranch(b) /\ b[1].ctl THEN table0 ELSE table1
                  ELSE Cleared(ck[q], Clears(k))]
  <2>1. Base(Clears(k), NoCkpt) = base
    BY DEF Base
  <2>2. /\ Len(Renames(b)) = Len(b)
        /\ Len(b) >= 1 => Renames(b)[1] = Port(b[1].rd, tail)
        /\ Len(b) = 2 => Renames(b)[2] = Port(b[2].rd, TagPlus(tail, 1))
    <3>1. Renames(b) = [i \in 1 .. Len(b) |-> Port(b[i].rd, TagPlus(tail, i - 1))]
      BY <1>3 DEF Renames
    <3>2. tail \in Tag
      BY <1>1, <1>2, TagPlusType DEF tail
    <3>3. TagPlus(tail, 0) = tail
      BY <1>2, <3>2 DEF TagPlus, Tag
    <3>4. Len(Renames(b)) = Len(b)
      BY <1>3, <3>1
    <3>5. Len(b) >= 1 => Renames(b)[1] = Port(b[1].rd, TagPlus(tail, 0))
      BY <1>3, <3>1
    <3>6. Len(b) = 2 => Renames(b)[2] = Port(b[2].rd, TagPlus(tail, 1))
      BY <1>3, <3>1
    <3> QED BY <3>3, <3>4, <3>5, <3>6
  <2>3. RenameStep(Renames(b), Clears(k), id, HasBranch(b) /\ b[1].ctl, NoCkpt)
    BY DEF Cycle
  <2> HIDE DEF base
  <2> QED BY <2>1, <2>2, <2>3 DEF RenameStep
<1>8. Exact(base, Window(head', used - k), rob', head') /\ base \in Table
  <2>1. Exact(base, Window(head', used - k), rob, head') /\ base \in Table
    BY <1>1, <1>2, <1>4, TablesAfterCommit
  <2> HIDE DEF base
  <2> QED BY <1>6, <2>1, ExactSame
<1>9. /\ tail \in Tag /\ TagPlus(tail, 1) \in Tag
      /\ Len(b) >= 1 => /\ tail = TagPlus(head', used - k)
                        /\ TagAge(tail, head') = used - k
      /\ Len(b) = 2 => /\ TagPlus(tail, 1) = TagPlus(head', used - k + 1)
                       /\ TagAge(TagPlus(tail, 1), head') = used - k + 1
  BY <1>1, <1>3, DispatchedTags
<1> HIDE DEF base
<1>10. Len(b) >= 1 => Exact(table0, Window(head', used - k + 1), rob', head')
  <2> SUFFICES ASSUME Len(b) >= 1
               PROVE  Exact(table0, Window(head', used - k + 1), rob', head')
    OBVIOUS
  <2>1. rob'[tail].rd = b[1].rd
    BY <1>1 DEF Allocated
  <2>2. used - k \in Nat /\ used - k < ROB_SIZE
    BY <1>1, <1>2, <1>3
  <2>3. Exact(Renamed(base, Port(rob'[tail].rd, tail)), Window(head', used - k + 1), rob', head')
    BY <1>1, <1>8, <1>9, <2>2, ExactRenamed
  <2> QED BY <2>1, <2>3
<1>11. table0 \in Table /\ table1 \in Table
  <2>1. \A table \in Table, i \in 1 .. Len(b), t \in Tag : Renamed(table, Port(b[i].rd, t)) \in Table
    BY DEF Renamed, Port, Table
  <2>2. table0 \in Table
    BY <1>3, <1>8, <1>9, <2>1
  <2> HIDE DEF table0
  <2>3. table1 \in Table
    BY <1>3, <1>9, <2>1, <2>2
  <2> QED BY <2>2, <2>3
<1> HIDE DEF table0
<1>12. Len(b) = 2 => Exact(table1, Window(head', used - k + 2), rob', head')
  <2> SUFFICES ASSUME Len(b) = 2
               PROVE  Exact(table1, Window(head', used - k + 2), rob', head')
    OBVIOUS
  <2>1. rob'[TagPlus(tail, 1)].rd = b[2].rd
    BY <1>1 DEF Allocated
  <2> DEFINE n == used - k + 1
  <2>2. n \in Nat /\ n < ROB_SIZE /\ n + 1 = used - k + 2
    BY <1>1, <1>2, <1>3
  <2>3. Exact(table0, Window(head', n), rob', head')
    BY <1>10
  <2>4. TagPlus(tail, 1) = TagPlus(head', n)
    BY <1>9
  <2> HIDE DEF n
  <2>5. Exact(Renamed(table0, Port(rob'[TagPlus(tail, 1)].rd, TagPlus(tail, 1))),
              Window(head', n + 1), rob', head')
    BY <1>1, <1>9, <1>11, <2>2, <2>3, <2>4, ExactRenamed
  <2> QED BY <2>1, <2>2, <2>5
<1>13. Exact(table1, Window(head', used'), rob', head')
  <2>1. CASE Len(b) = 0
    <3>1. table1 = base /\ used' = used - k
      BY <1>1, <1>2, <2>1 DEF table0
    <3> QED BY <1>8, <3>1
  <2>2. CASE Len(b) = 1
    <3>1. table1 = table0 /\ used' = used - k + 1
      BY <1>1, <1>2, <2>2
    <3> QED BY <1>10, <2>2, <3>1
  <2>3. CASE Len(b) = 2
    <3>1. used' = used - k + 2
      BY <1>1, <1>2, <2>3
    <3> QED BY <1>12, <2>3, <3>1
  <2> QED BY <1>3, <2>1, <2>2, <2>3
<1>14. HasBranch(b) <=> (Len(b) >= 1 /\ b[1].ctl) \/ (Len(b) = 2 /\ b[2].ctl)
  BY <1>3 DEF HasBranch
<1>15. (id # NoCkpt <=> HasBranch(b)) /\ id \notin ckpt_used
  BY <1>2, RenameAssumption DEF Cycle, CkptFor, FreeCkpt
<1>16. ASSUME id # NoCkpt
       PROVE  /\ BranchTag(b) \in Tag
              /\ Exact(ck'[id], Window(head', TagAge(BranchTag(b), head') + 1), rob', head')
  <2>1. ck'[id] = IF b[1].ctl THEN table0 ELSE table1
    BY <1>7, <1>15, <1>16
  <2>2. CASE b[1].ctl
    <3>1. BranchTag(b) = tail /\ Len(b) >= 1
      BY <1>3, <1>14, <1>15, <1>16, <2>2 DEF BranchTag
    <3> QED BY <1>9, <1>10, <2>1, <2>2, <3>1
  <2>3. CASE ~b[1].ctl
    <3>1. BranchTag(b) = TagPlus(tail, 1) /\ Len(b) = 2
      BY <1>14, <1>15, <1>16, <2>3 DEF BranchTag
    <3>2. TagAge(TagPlus(tail, 1), head') + 1 = used - k + 2
      BY <1>2, <1>9, <3>1
    <3> QED BY <1>9, <1>12, <2>1, <2>3, <3>1, <3>2
  <2> QED BY <2>2, <2>3
<1>17. ASSUME NEW q \in ckpt_used
       PROVE  Exact(ck'[q], Window(head', TagAge(ckpt_owner[q], head') + 1), rob', head')
  <2>1. ck'[q] = Cleared(ck[q], Clears(k))
    BY <1>2, <1>7, <1>15
  <2>2. /\ Exact(Cleared(ck[q], Clears(k)), Window(head', TagAge(ckpt_owner[q], head') + 1), rob, head')
        /\ ckpt_owner[q] \in Tag /\ TagAge(ckpt_owner[q], head) >= k
        /\ TagAge(ckpt_owner[q], head) < used
    BY <1>1, <1>4, TablesAfterCommit
  <2>3. TagAge(ckpt_owner[q], head') = TagAge(ckpt_owner[q], head) - k
        /\ TagAge(ckpt_owner[q], head) \in Int
    BY <1>1, <1>2, <2>2, AgeAfterCommit, TagAgeType
  <2>4. \A t \in Window(head', TagAge(ckpt_owner[q], head') + 1) : t \in Window(head', used - k)
    <3>1. \A t \in Tag : TagAge(t, head') \in Int
      BY <1>1, TagAgeType
    <3> QED BY <1>2, <2>2, <2>3, <3>1 DEF Window
  <2> QED BY <1>6, <2>1, <2>2, <2>4, ExactSame
<1>18. ck' \in [Ckpt -> Table]
  <2>1. \A q \in Ckpt : Cleared(ck[q], Clears(k)) \in Table
    BY <1>2, <1>4, TablesAfterCommit
  <2> HIDE DEF table1
  <2> QED BY <1>7, <1>11, <2>1
<1> QED BY <1>7, <1>11, <1>13, <1>16, <1>17, <1>18

-----------------------------------------------------------------------------
(* Checkpoints and branches.                                               *)

\* The entries of the branch station, against checkpoints and branches.
LEMMA WaitingBranches ==
  ASSUME IInv
  PROVE  /\ \A e \in rs_br : /\ e \in Station /\ e.tag \in Tag /\ e.ckpt \in Ckpt
                             /\ e.ckpt \in ckpt_used /\ ckpt_owner[e.ckpt] = e.tag
                             /\ Live(e.tag) /\ rob[e.tag].br = "pending"
                             /\ e.ckpt # br_e.ckpt
                             /\ ~(br_e.valid /\ e.tag = br_e.tag)
         /\ \A q \in ckpt_used : q # br_e.ckpt => \E e \in rs_br : e.ckpt = q
         /\ \A t \in Tag : rob[t].br = "pending" /\ ~(br_e.valid /\ br_e.tag = t)
              => \E e \in rs_br : e.tag = t
         /\ \A e, g \in rs_br : e.tag = g.tag => e = g
<1>1. rs_br \in SUBSET Station /\ ckpt_used \in SUBSET Ckpt /\ ckpt_owner \in [Ckpt -> Tag]
  BY DEF IInv, TypeOK
<1>2. \A e \in Station : e.tag \in Tag /\ e.ckpt \in Ckpt /\ e = [tag |-> e.tag, ckpt |-> e.ckpt]
  BY DEF Station
<1>3. \A e \in rs_br : Holds(e.tag, e.ckpt)
  BY <1>1, <1>2 DEF Holds
<1>4. /\ \A t \in Tag, q \in Ckpt : Holds(t, q) => q \in ckpt_used /\ ckpt_owner[q] = t
      /\ \A q \in ckpt_used : /\ Live(ckpt_owner[q]) /\ rob[ckpt_owner[q]].br = "pending"
                              /\ Holds(ckpt_owner[q], q)
      /\ \A t \in Tag : rob[t].br = "pending" => \E q \in Ckpt : Holds(t, q)
  BY DEF IInv, CkptLifecycle
<1>5. /\ \A t \in Tag, p, q \in Ckpt : Holds(t, p) /\ Holds(t, q) => p = q
      /\ br_e.valid => [tag |-> br_e.tag, ckpt |-> br_e.ckpt] \notin rs_br
  BY DEF IInv, HeldOnce
<1>6. ASSUME NEW e \in rs_br
      PROVE  /\ e \in Station /\ e.tag \in Tag /\ e.ckpt \in Ckpt
             /\ e.ckpt \in ckpt_used /\ ckpt_owner[e.ckpt] = e.tag
             /\ Live(e.tag) /\ rob[e.tag].br = "pending"
             /\ e.ckpt # br_e.ckpt
             /\ ~(br_e.valid /\ e.tag = br_e.tag)
  <2>1. e \in Station /\ e.tag \in Tag /\ e.ckpt \in Ckpt /\ e = [tag |-> e.tag, ckpt |-> e.ckpt]
    BY <1>1, <1>2
  <2>2. Holds(e.tag, e.ckpt)
    BY <1>3
  <2>3. e.ckpt \in ckpt_used /\ ckpt_owner[e.ckpt] = e.tag
    BY <1>4, <2>1, <2>2
  <2>4. Live(e.tag) /\ rob[e.tag].br = "pending"
    BY <1>4, <2>3
  <2>5. ~(br_e.valid /\ e.tag = br_e.tag)
    <3> SUFFICES ASSUME br_e.valid, e.tag = br_e.tag PROVE FALSE
      OBVIOUS
    <3>1. Holds(e.tag, br_e.ckpt) /\ br_e.ckpt \in Ckpt
      BY ExecutingBranch
    <3>2. e.ckpt = br_e.ckpt
      BY <1>5, <2>1, <2>2, <3>1
    <3> QED BY <1>5, <2>1, <3>2
  <2>6. e.ckpt # br_e.ckpt
    <3>1. CASE br_e.valid
      BY <2>3, <2>5, <3>1, ExecutingBranch
    <3>2. CASE ~br_e.valid
      BY <2>1, <3>2, ExecutingBranch, RenameAssumption
    <3> QED BY <3>1, <3>2
  <2> QED BY <2>1, <2>3, <2>4, <2>5, <2>6
<1>7. ASSUME NEW q \in ckpt_used, q # br_e.ckpt PROVE \E e \in rs_br : e.ckpt = q
  <2>1. [tag |-> ckpt_owner[q], ckpt |-> q] \in rs_br
    BY <1>4, <1>7 DEF Holds
  <2> QED BY <2>1
<1>8. ASSUME NEW t \in Tag, rob[t].br = "pending", ~(br_e.valid /\ br_e.tag = t)
      PROVE  \E e \in rs_br : e.tag = t
  <2>1. PICK q \in Ckpt : Holds(t, q)
    BY <1>4, <1>8
  <2>2. [tag |-> t, ckpt |-> q] \in rs_br
    BY <1>8, <2>1 DEF Holds
  <2> QED BY <2>2
<1>9. ASSUME NEW e \in rs_br, NEW g \in rs_br, e.tag = g.tag PROVE e = g
  <2>1. e.ckpt = g.ckpt
    BY <1>1, <1>2, <1>3, <1>5, <1>9
  <2> QED BY <1>1, <1>2, <1>9, <2>1
<1> QED BY <1>6, <1>7, <1>8, <1>9

\* W are the branches that will be in flight and unresolved; sel, if it is one
\* of them, moves into execution and the others wait.
LEMMA BranchesFrom ==
  ASSUME NEW W \in SUBSET Station, NEW sel,
         rs_br' = W \ {sel},
         br_e' = IF sel \in W THEN [valid |-> TRUE, tag |-> sel.tag, ckpt |-> sel.ckpt] ELSE NoBranch,
         \A q \in ckpt_used' : \E e \in W : e.ckpt = q,
         \A e \in W : /\ e.ckpt \in ckpt_used' /\ ckpt_owner'[e.ckpt] = e.tag
                      /\ rob'[e.tag].live /\ rob'[e.tag].br = "pending",
         \A t \in Tag : rob'[t].br = "pending" => \E e \in W : e.tag = t,
         \A e, g \in W : e.tag = g.tag => e = g
  PROVE  /\ rs_br' \in SUBSET Station
         /\ br_e' \in {NoBranch} \cup [valid : {TRUE}, tag : Tag, ckpt : Ckpt]
         /\ CkptLifecycle' /\ HeldOnce'
<1>1. \A e \in Station : e.tag \in Tag /\ e.ckpt \in Ckpt /\ e = [tag |-> e.tag, ckpt |-> e.ckpt]
  BY DEF Station
<1>2. rs_br' \in SUBSET Station
  OBVIOUS
<1>3. br_e' \in {NoBranch} \cup [valid : {TRUE}, tag : Tag, ckpt : Ckpt]
  BY <1>1
<1>4. /\ br_e'.valid <=> sel \in W
      /\ sel \in W => br_e'.tag = sel.tag /\ br_e'.ckpt = sel.ckpt
  BY DEF NoBranch
<1>5. ASSUME NEW t \in Tag, NEW q \in Ckpt
      PROVE  Holds(t, q)' <=> [tag |-> t, ckpt |-> q] \in W
  <2>1. Holds(t, q)' <=> \/ [tag |-> t, ckpt |-> q] \in W \ {sel}
                         \/ sel \in W /\ sel.tag = t /\ sel.ckpt = q
    BY <1>4 DEF Holds
  <2>2. sel \in W => (sel.tag = t /\ sel.ckpt = q <=> sel = [tag |-> t, ckpt |-> q])
    BY <1>1
  <2> QED BY <2>1, <2>2
<1>6. \A e \in W : e.tag \in Tag /\ e.ckpt \in Ckpt /\ e = [tag |-> e.tag, ckpt |-> e.ckpt]
  BY <1>1
<1>7. HeldOnce'
  <2>1. ASSUME NEW t \in Tag, NEW p \in Ckpt, NEW q \in Ckpt, Holds(t, p)', Holds(t, q)' PROVE p = q
    <3>1. [tag |-> t, ckpt |-> p] \in W /\ [tag |-> t, ckpt |-> q] \in W
      BY <1>5, <2>1
    <3>2. [tag |-> t, ckpt |-> p] = [tag |-> t, ckpt |-> q]
      BY <3>1
    <3> QED BY <3>2
  <2>2. br_e'.valid => [tag |-> br_e'.tag, ckpt |-> br_e'.ckpt] \notin rs_br'
    BY <1>4, <1>6
  <2> QED BY <2>1, <2>2 DEF HeldOnce
<1>8. ASSUME NEW q \in ckpt_used'
      PROVE  Live(ckpt_owner[q])' /\ (rob[ckpt_owner[q]].br = "pending")' /\ Holds(ckpt_owner[q], q)'
  <2>1. PICK e \in W : e.ckpt = q
    OBVIOUS
  <2>2. e.tag \in Tag /\ q \in Ckpt /\ e = [tag |-> e.tag, ckpt |-> q] /\ ckpt_owner'[q] = e.tag
    BY <1>6, <2>1
  <2>3. Holds(e.tag, q)'
    BY <1>5, <2>2
  <2>4. Holds(ckpt_owner[q], q)'
    BY <2>2, <2>3 DEF Holds
  <2> QED BY <2>1, <2>2, <2>4 DEF Live
<1>9. ASSUME NEW t \in Tag, NEW q \in Ckpt, Holds(t, q)'
      PROVE  q \in ckpt_used' /\ ckpt_owner'[q] = t
  <2>1. [tag |-> t, ckpt |-> q] \in W
    BY <1>5, <1>9
  <2> QED BY <2>1
<1>10. ASSUME NEW t \in Tag, rob'[t].br = "pending" PROVE \E q \in Ckpt : Holds(t, q)'
  <2>1. PICK e \in W : e.tag = t
    BY <1>10
  <2>2. e.ckpt \in Ckpt /\ [tag |-> t, ckpt |-> e.ckpt] \in W
    BY <1>6, <2>1
  <2> QED BY <1>5, <2>2
<1>11. CkptLifecycle'
  BY <1>8, <1>9, <1>10 DEF CkptLifecycle
<1> QED BY <1>2, <1>3, <1>7, <1>11

-----------------------------------------------------------------------------
(* Every step keeps the invariant.                                         *)

\* What is selected is an entry of the station or nothing, never both.
LEMMA SelectionForms ==
  ASSUME IInv, NEW sel \in Selection, NEW W \in SUBSET Station
  PROVE  /\ sel \in rs_br \/ sel = NoBranch
         /\ sel \in rs_br => sel # NoBranch
         /\ NoBranch \notin W
<1>1. \A e \in Station : e.ckpt \in Ckpt
  BY DEF Station
<1>2. NoBranch.ckpt = NoCkpt
  BY DEF NoBranch
<1>3. NoBranch \notin Station
  BY <1>1, <1>2, RenameAssumption
<1> QED BY <1>3 DEF Selection, IInv, TypeOK

LEMMA CycleKeepsIInv ==
  ASSUME IInv, NEW b \in Bundle, NEW k \in 0 .. 2, NEW sel \in Selection,
         NEW id \in Ckpt \cup {NoCkpt}, Cycle(b, k, sel, id)
  PROVE  IInv'
<1>1. /\ ROB_SIZE \in Nat /\ ROB_SIZE >= 2 /\ head \in Tag /\ used \in 0 .. ROB_SIZE
      /\ rob \in [Tag -> Entry] /\ rs_br \in SUBSET Station
      /\ ckpt_used \in SUBSET Ckpt /\ ckpt_owner \in [Ckpt -> Tag]
  BY RobSizeAssumption DEF IInv, TypeOK
<1>2. /\ k <= used /\ used + Len(b) <= ROB_SIZE
      /\ head' = TagPlus(head, k) /\ used' = used + Len(b) - k
      /\ head' \in Tag /\ used' \in 0 .. ROB_SIZE
      /\ rob' \in [Tag -> Entry]
      /\ Len(b) >= 1 => rob'[tail] = Allocated(b, 1)
      /\ Len(b) = 2 => rob'[TagPlus(tail, 1)] = Allocated(b, 2)
      /\ \A t \in Window(head', used - k) : rob'[t] = Executed(t)
      /\ \A t \in Tag : \/ t \in Window(head', used - k)
                        \/ Len(b) >= 1 /\ t = tail
                        \/ Len(b) = 2 /\ t = TagPlus(tail, 1)
                        \/ rob'[t] = Idle /\ t \notin Window(head', used')
      /\ \A t \in Window(head', used - k) : t \in Window(head', used') /\ t \in Window(head, used)
  BY RobAfterCycle
<1>3. /\ Len(b) \in 0 .. 2 /\ DOMAIN b = 1 .. Len(b)
      /\ Len(b) = 2 => ~(b[1].ctl /\ b[2].ctl)
  BY BundleForms
<1>4. /\ tail \in Tag /\ TagPlus(tail, 1) \in Tag
      /\ Len(b) >= 1 => TagAge(tail, head') = used - k /\ TagAge(tail, head) = used
      /\ Len(b) = 2 => TagAge(TagPlus(tail, 1), head') = used - k + 1
                       /\ TagAge(TagPlus(tail, 1), head) = used + 1
  BY <1>2, <1>3, DispatchedTags
<1>5. CanCommit(k)
  BY DEF Cycle
<1>6. HasBranch(b) <=> (Len(b) >= 1 /\ b[1].ctl) \/ (Len(b) = 2 /\ b[2].ctl)
  BY <1>3 DEF HasBranch
<1>7. (id # NoCkpt <=> HasBranch(b)) /\ id \notin ckpt_used
  BY <1>1, RenameAssumption DEF Cycle, CkptFor, FreeCkpt
<1>8. \A t \in Tag : /\ Executed(t).live = rob[t].live
                     /\ br_e.valid /\ br_e.tag = t => Executed(t).br = "resolved"
                     /\ ~(br_e.valid /\ br_e.tag = t) => Executed(t) = rob[t]
  BY <1>1 DEF Executed, Entry, BrState
<1>9. /\ Len(b) >= 1 => Allocated(b, 1).live /\ (Allocated(b, 1).br = "pending" <=> b[1].ctl)
      /\ Len(b) = 2 => Allocated(b, 2).live /\ (Allocated(b, 2).br = "pending" <=> b[2].ctl)
  BY DEF Allocated
<1>10. Idle.live = FALSE /\ Idle.br = "none"
  BY DEF Idle
<1>11. LiveInWindow'
  <2> SUFFICES ASSUME NEW t \in Tag
               PROVE  /\ rob'[t].live <=> t \in Window(head', used')
                      /\ ~rob'[t].live => rob'[t] = Idle
    BY DEF LiveInWindow, Live
  <2>1. CASE t \in Window(head', used - k)
    <3>1. Live(t) /\ t \in Window(head', used')
      BY <1>2, <2>1 DEF IInv, LiveInWindow
    <3>2. rob'[t].live
      BY <1>2, <1>8, <2>1, <3>1 DEF Live
    <3> QED BY <3>1, <3>2
  <2>2. CASE Len(b) >= 1 /\ t = tail
    BY <1>1, <1>2, <1>3, <1>4, <1>9, <2>2 DEF Window
  <2>3. CASE Len(b) = 2 /\ t = TagPlus(tail, 1)
    BY <1>1, <1>2, <1>3, <1>4, <1>9, <2>3 DEF Window
  <2>4. CASE rob'[t] = Idle /\ t \notin Window(head', used')
    BY <1>10, <2>4
  <2> QED BY <1>2, <2>1, <2>2, <2>3, <2>4
<1> DEFINE new == IF HasBranch(b) THEN {[tag |-> BranchTag(b), ckpt |-> id]} ELSE {}
           W == rs_br \cup new
<1>12. /\ BranchTag(b) \in Tag
       /\ HasBranch(b) => /\ rob'[BranchTag(b)].live /\ rob'[BranchTag(b)].br = "pending"
                          /\ BranchTag(b) \notin Window(head, used)
  <2>1. BranchTag(b) = IF b[1].ctl THEN tail ELSE TagPlus(tail, 1)
    BY DEF BranchTag
  <2>2. CASE HasBranch(b) /\ b[1].ctl
    <3>1. Len(b) >= 1 /\ BranchTag(b) = tail
      BY <1>3, <1>6, <2>1, <2>2
    <3> QED BY <1>1, <1>2, <1>4, <1>9, <2>2, <3>1 DEF Window
  <2>3. CASE HasBranch(b) /\ ~b[1].ctl
    <3>1. Len(b) = 2 /\ BranchTag(b) = TagPlus(tail, 1) /\ b[2].ctl
      BY <1>6, <2>1, <2>3
    <3> QED BY <1>1, <1>2, <1>4, <1>9, <2>3, <3>1 DEF Window
  <2>4. BranchTag(b) \in Tag
    BY <1>4, <2>1
  <2> QED BY <2>2, <2>3, <2>4
<1>13. /\ \A e \in rs_br : /\ e \in Station /\ e.tag \in Tag /\ e.ckpt \in Ckpt
                           /\ e.ckpt \in ckpt_used /\ ckpt_owner[e.ckpt] = e.tag
                           /\ Live(e.tag) /\ rob[e.tag].br = "pending"
                           /\ e.ckpt # br_e.ckpt
                           /\ ~(br_e.valid /\ e.tag = br_e.tag)
       /\ \A q \in ckpt_used : q # br_e.ckpt => \E e \in rs_br : e.ckpt = q
       /\ \A t \in Tag : rob[t].br = "pending" /\ ~(br_e.valid /\ br_e.tag = t)
            => \E e \in rs_br : e.tag = t
       /\ \A e, g \in rs_br : e.tag = g.tag => e = g
  BY WaitingBranches
<1>14. /\ HasBranch(b) => id \in Ckpt
       /\ ckpt_used' = (ckpt_used \ {br_e.ckpt}) \cup ({id} \ {NoCkpt})
       /\ ckpt_owner' = [q \in Ckpt |-> IF q = id THEN BranchTag(b) ELSE ckpt_owner[q]]
  BY <1>7 DEF Cycle
<1>15. /\ W \in SUBSET Station
       /\ \A e \in new : HasBranch(b) /\ e.tag = BranchTag(b) /\ e.ckpt = id
       /\ HasBranch(b) => \E e \in new : e.tag = BranchTag(b) /\ e.ckpt = id
  <2>1. \A e \in new : HasBranch(b) /\ e = [tag |-> BranchTag(b), ckpt |-> id]
    OBVIOUS
  <2>2. HasBranch(b) => [tag |-> BranchTag(b), ckpt |-> id] \in new
    OBVIOUS
  <2>3. HasBranch(b) => [tag |-> BranchTag(b), ckpt |-> id] \in Station
    BY <1>12, <1>14 DEF Station
  <2> HIDE DEF new
  <2> QED BY <1>1, <2>1, <2>2, <2>3
<1>16. rs_br' = (rs_br \ {sel}) \cup new /\ br_e' = IntoExecute(sel, FALSE)
  BY DEF Cycle
<1> HIDE DEF new
<1>17. /\ rs_br' = W \ {sel}
       /\ br_e' = IF sel \in W THEN [valid |-> TRUE, tag |-> sel.tag, ckpt |-> sel.ckpt] ELSE NoBranch
  <2>1. /\ sel \in rs_br \/ sel = NoBranch
        /\ sel \in rs_br => sel # NoBranch
        /\ NoBranch \notin W
    BY <1>15, SelectionForms
  <2>2. sel \notin new
    BY <1>7, <1>13, <1>15, <2>1
  <2> QED BY <1>16, <2>1, <2>2 DEF IntoExecute
<1>18. ASSUME NEW e \in W
       PROVE  /\ e.ckpt \in ckpt_used' /\ ckpt_owner'[e.ckpt] = e.tag
              /\ rob'[e.tag].live /\ rob'[e.tag].br = "pending"
  <2>1. CASE e \in rs_br
    <3>1. e.ckpt \in ckpt_used' /\ ckpt_owner'[e.ckpt] = e.tag
      BY <1>7, <1>13, <1>14, <2>1
    <3>2. TagAge(e.tag, head) >= k /\ e.tag \in Tag
      BY <1>5, <1>13, <2>1, CommitPassesNoBranch
    <3>3. TagAge(e.tag, head) < used
      BY <1>13, <2>1 DEF IInv, LiveInWindow, Window
    <3>4. e.tag \in Window(head', used - k)
      BY <1>1, <1>2, <3>2, <3>3, WindowAfterCommit
    <3>5. rob'[e.tag] = rob[e.tag]
      BY <1>2, <1>8, <1>13, <2>1, <3>2, <3>4
    <3> QED BY <1>13, <2>1, <3>1, <3>5 DEF Live
  <2>2. CASE e \in new
    BY <1>7, <1>12, <1>14, <1>15, <2>2
  <2> QED BY <2>1, <2>2
<1>19. ASSUME NEW q \in ckpt_used' PROVE \E e \in W : e.ckpt = q
  BY <1>7, <1>13, <1>14, <1>15
<1>20. ASSUME NEW t \in Tag, rob'[t].br = "pending" PROVE \E e \in W : e.tag = t
  <2>1. CASE t \in Window(head', used - k)
    <3>1. rob[t].br = "pending" /\ ~(br_e.valid /\ br_e.tag = t)
      BY <1>2, <1>8, <1>20, <2>1
    <3> QED BY <1>13, <3>1
  <2>2. CASE Len(b) >= 1 /\ t = tail
    <3>1. b[1].ctl
      BY <1>2, <1>9, <1>20, <2>2
    <3>2. HasBranch(b) /\ BranchTag(b) = t
      BY <1>6, <2>2, <3>1 DEF BranchTag
    <3> QED BY <1>15, <3>2
  <2>3. CASE Len(b) = 2 /\ t = TagPlus(tail, 1)
    <3>1. b[2].ctl /\ ~b[1].ctl
      BY <1>2, <1>3, <1>9, <1>20, <2>3
    <3>2. HasBranch(b) /\ BranchTag(b) = t
      BY <1>6, <2>3, <3>1 DEF BranchTag
    <3> QED BY <1>15, <3>2
  <2>4. CASE rob'[t] = Idle
    BY <1>10, <1>20, <2>4
  <2> QED BY <1>2, <2>1, <2>2, <2>3, <2>4
<1>21. ASSUME NEW e \in W, NEW g \in W, e.tag = g.tag PROVE e = g
  <2>1. \A d \in rs_br : d.tag \in Window(head, used)
    BY <1>13 DEF IInv, LiveInWindow
  <2>2. \A d \in new : d.tag \notin Window(head, used)
    BY <1>12, <1>15
  <2>3. e \in new /\ g \in new => e = g
    BY DEF new
  <2> QED BY <1>13, <1>21, <2>1, <2>2, <2>3
<1>22. /\ rs_br' \in SUBSET Station
       /\ br_e' \in {NoBranch} \cup [valid : {TRUE}, tag : Tag, ckpt : Ckpt]
       /\ CkptLifecycle' /\ HeldOnce'
  <2> HIDE DEF W
  <2> QED BY <1>15, <1>17, <1>18, <1>19, <1>20, <1>21, BranchesFrom
<1>23. /\ rat' \in Table /\ ck' \in [Ckpt -> Table] /\ RatTrue'
       /\ \A q \in ckpt_used :
            Exact(ck'[q], Window(head', TagAge(ckpt_owner[q], head') + 1), rob', head')
       /\ id # NoCkpt =>
            /\ BranchTag(b) \in Tag
            /\ Exact(ck'[id], Window(head', TagAge(BranchTag(b), head') + 1), rob', head')
  BY TablesAfterCycle DEF RatTrue
<1>24. CkptTrue'
  <2> SUFFICES ASSUME NEW q \in ckpt_used'
               PROVE  Exact(ck'[q], Window(head', TagAge(ckpt_owner'[q], head') + 1), rob', head')
    BY DEF CkptTrue, UpToOwner
  <2>1. CASE q = id
    BY <1>7, <1>14, <1>23, <2>1
  <2>2. CASE q # id
    <3>1. q \in ckpt_used /\ ckpt_owner'[q] = ckpt_owner[q]
      BY <1>1, <1>14, <2>2
    <3> QED BY <1>23, <3>1
  <2> QED BY <2>1, <2>2
<1>25. TypeOK'
  <2>1. ckpt_used' \in SUBSET Ckpt /\ ckpt_owner' \in [Ckpt -> Tag]
    BY <1>1, <1>12, <1>14
  <2> QED BY <1>2, <1>22, <1>23, <2>1 DEF TypeOK
<1> QED BY <1>11, <1>22, <1>23, <1>24, <1>25 DEF IInv

\* A recovery keeps exactly what is not younger than its branch.
LEMMA RobAfterRecover ==
  ASSUME IInv, NEW k \in 0 .. 2, NEW sel \in Selection, Recover(k, sel)
  PROVE  /\ k <= used /\ TagAge(br_e.tag, head) >= k /\ TagAge(br_e.tag, head) < used
         /\ head' = TagPlus(head, k) /\ head' \in Tag
         /\ used' = TagAge(br_e.tag, head) + 1 - k /\ used' \in 0 .. ROB_SIZE
         /\ rob' \in [Tag -> Entry]
         /\ \A t \in Tag : t \in Window(head', used')
                           <=> TagAge(t, head) >= k /\ ~Younger(t, br_e.tag)
         /\ \A t \in Window(head', used') : rob'[t] = Executed(t) /\ Live(t)
         /\ \A t \in Tag : t \notin Window(head', used') => rob'[t] = Idle
<1>1. /\ ROB_SIZE \in Nat /\ ROB_SIZE >= 2 /\ head \in Tag /\ used \in 0 .. ROB_SIZE
      /\ rob \in [Tag -> Entry]
  BY RobSizeAssumption DEF IInv, TypeOK
<1>2. br_e.valid /\ CanCommit(k)
  BY DEF Recover
<1>3. br_e.tag \in Tag /\ Live(br_e.tag) /\ rob[br_e.tag].br = "pending"
  BY <1>2, ExecutingBranch
<1>4. TagAge(br_e.tag, head) >= k
  BY <1>2, <1>3, CommitPassesNoBranch
<1>5. \A t \in Tag : TagAge(t, head) \in 0 .. ROB_SIZE - 1
  BY <1>1, TagAgeType
<1>6. TagAge(br_e.tag, head) < used
  BY <1>3 DEF IInv, LiveInWindow, Window
<1>7. k <= used
  BY <1>2 DEF CanCommit
<1>8. head' = TagPlus(head, k) /\ used' = TagAge(br_e.tag, head) + 1 - k
  BY DEF Recover
<1>9. head' \in Tag /\ used' \in 0 .. ROB_SIZE
  <2>1. k \in 0 .. ROB_SIZE
    BY <1>1
  <2>2. TagPlus(head, k) \in Tag
    BY <1>1, <2>1, TagPlusType
  <2>3. TagAge(br_e.tag, head) \in 0 .. ROB_SIZE - 1
    BY <1>3, <1>5
  <2> QED BY <1>1, <1>4, <1>8, <2>2, <2>3
<1>10. \A t \in Tag : t \in Window(head', used') <=> TagAge(t, head) >= k /\ ~Younger(t, br_e.tag)
  <2> DEFINE n == TagAge(br_e.tag, head) + 1
  <2>1. n \in Int /\ k <= n /\ n <= ROB_SIZE /\ used' = n - k
    BY <1>1, <1>3, <1>4, <1>5, <1>8
  <2>2. \A t \in Tag : TagAge(t, head) < n <=> ~Younger(t, br_e.tag)
    BY <1>3, <1>5 DEF Younger, TagYounger
  <2> HIDE DEF n
  <2>3. \A t \in Tag : t \in Window(head', n - k) <=> TagAge(t, head) < n /\ TagAge(t, head) >= k
    BY <1>7, <1>8, <2>1, WindowAfterCommit
  <2> QED BY <2>1, <2>2, <2>3
<1>11. \A t \in Tag : rob'[t] =
         IF Committing(k, t) \/ Younger(t, br_e.tag) THEN Idle ELSE Executed(t)
  BY DEF Recover
<1>12. \A t \in Tag : Committing(k, t) <=> ~(TagAge(t, head) >= k)
  BY <1>5 DEF Committing
<1>13. \A t \in Tag : rob'[t] = IF t \in Window(head', used') THEN Executed(t) ELSE Idle
  BY <1>10, <1>11, <1>12
<1>14. ASSUME NEW t \in Window(head', used') PROVE rob'[t] = Executed(t) /\ Live(t)
  <2>1. t \in Tag
    BY DEF Window
  <2>2. TagAge(t, head) < used
    BY <1>1, <1>3, <1>5, <1>6, <1>10, <2>1 DEF Younger, TagYounger
  <2> QED BY <1>13, <2>1, <2>2 DEF IInv, LiveInWindow, Window
<1>15. rob' \in [Tag -> Entry]
  <2>1. rob' = [t \in Tag |-> rob'[t]]
    BY DEF Recover
  <2>2. \A t \in Tag : Executed(t) \in Entry /\ Idle \in Entry
    BY <1>1 DEF Executed, Entry, BrState, Idle, Dest
  <2>3. \A t \in Tag : rob'[t] \in Entry
    BY <1>13, <2>2
  <2> QED BY <2>1, <2>3
<1> QED BY <1>4, <1>6, <1>7, <1>8, <1>9, <1>10, <1>13, <1>14, <1>15

\* The restored table, and the checkpoints that remain.
LEMMA TablesAfterRecover ==
  ASSUME IInv, NEW k \in 0 .. 2, NEW sel \in Selection, Recover(k, sel)
  PROVE  /\ rat' \in Table /\ ck' \in [Ckpt -> Table]
         /\ Exact(rat', Window(head', used'), rob', head')
         /\ \A q \in ckpt_used : ~Younger(ckpt_owner[q], br_e.tag) =>
              Exact(ck'[q], Window(head', TagAge(ckpt_owner[q], head') + 1), rob', head')
<1>1. /\ ROB_SIZE \in Nat /\ ROB_SIZE >= 2 /\ head \in Tag /\ used \in 0 .. ROB_SIZE
      /\ rob \in [Tag -> Entry] /\ rat \in Table /\ ck \in [Ckpt -> Table]
      /\ ckpt_used \in SUBSET Ckpt
  BY RobSizeAssumption DEF IInv, TypeOK
<1>2. /\ k <= used /\ TagAge(br_e.tag, head) >= k
      /\ head' = TagPlus(head, k) /\ head' \in Tag
      /\ used' = TagAge(br_e.tag, head) + 1 - k /\ used' \in 0 .. ROB_SIZE
      /\ \A t \in Tag : t \in Window(head', used') <=> TagAge(t, head) >= k /\ ~Younger(t, br_e.tag)
      /\ \A t \in Window(head', used') : rob'[t] = Executed(t) /\ Live(t)
  BY RobAfterRecover
<1>3. br_e.valid /\ CanCommit(k) /\ RenameStep(<<>>, Clears(k), NoCkpt, FALSE, br_e.ckpt)
  BY DEF Recover
<1>4. br_e.tag \in Tag /\ br_e.ckpt \in Ckpt /\ br_e.ckpt \in ckpt_used
      /\ ckpt_owner[br_e.ckpt] = br_e.tag
  BY <1>3, ExecutingBranch
<1>5. /\ rat' = Cleared(ck[br_e.ckpt], Clears(k))
      /\ ck' = [q \in Ckpt |-> Cleared(ck[q], Clears(k))]
  <2>1. NoCkpt \notin Ckpt
    BY RenameAssumption
  <2>2. Base(Clears(k), br_e.ckpt) = Cleared(ck[br_e.ckpt], Clears(k))
    BY <1>4, <2>1 DEF Base
  <2>3. Len(<<>>) = 0
    OBVIOUS
  <2>4. rat' = Base(Clears(k), br_e.ckpt)
    BY <1>3, <2>3 DEF RenameStep
  <2>5. ck' = [q \in Ckpt |-> Cleared(ck[q], Clears(k))]
    <3>1. \A q \in Ckpt : ck'[q] = Cleared(ck[q], Clears(k))
      BY <1>3, <2>1 DEF RenameStep
    <3>2. ck' = [q \in Ckpt |-> ck'[q]]
      BY <1>3 DEF RenameStep
    <3> QED BY <3>1, <3>2
  <2> QED BY <2>2, <2>4, <2>5
<1>6. /\ \A q \in ckpt_used :
           /\ Exact(Cleared(ck[q], Clears(k)), Window(head', TagAge(ckpt_owner[q], head') + 1), rob, head')
           /\ ckpt_owner[q] \in Tag /\ TagAge(ckpt_owner[q], head) >= k
      /\ \A table \in Table : Cleared(table, Clears(k)) \in Table
  BY <1>2, <1>3, TablesAfterCommit
<1>7. rat' \in Table /\ ck' \in [Ckpt -> Table]
  BY <1>1, <1>4, <1>5, <1>6
<1>8. \A t \in Window(head', used') : rob'[t].rd = rob[t].rd
  <2>1. \A t \in Tag : Executed(t).rd = rob[t].rd
    BY <1>1 DEF Executed, Entry, BrState
  <2> QED BY <1>2, <2>1 DEF Window
<1>9. \A t \in Tag : TagAge(t, head') \in Int /\ TagAge(t, head) \in Int
  BY <1>1, <1>2, TagAgeType
<1>10. \A q \in ckpt_used : TagAge(ckpt_owner[q], head') = TagAge(ckpt_owner[q], head) - k
  BY <1>1, <1>2, <1>6, AgeAfterCommit
<1>11. Exact(rat', Window(head', used'), rob', head')
  <2>1. used' = TagAge(ckpt_owner[br_e.ckpt], head') + 1
    BY <1>2, <1>4, <1>9, <1>10
  <2>2. Exact(rat', Window(head', used'), rob, head')
    BY <1>4, <1>5, <1>6, <2>1
  <2> QED BY <1>8, <2>2, ExactSame
<1>12. ASSUME NEW q \in ckpt_used, ~Younger(ckpt_owner[q], br_e.tag)
       PROVE  Exact(ck'[q], Window(head', TagAge(ckpt_owner[q], head') + 1), rob', head')
  <2>1. Exact(ck'[q], Window(head', TagAge(ckpt_owner[q], head') + 1), rob, head')
    BY <1>1, <1>5, <1>6
  <2>2. TagAge(ckpt_owner[q], head') + 1 <= used'
    BY <1>2, <1>4, <1>6, <1>9, <1>10, <1>12 DEF Younger, TagYounger
  <2>3. \A t \in Window(head', TagAge(ckpt_owner[q], head') + 1) : t \in Window(head', used')
    <3> SUFFICES ASSUME NEW t \in Window(head', TagAge(ckpt_owner[q], head') + 1)
                 PROVE  t \in Window(head', used')
      OBVIOUS
    <3>1. t \in Tag /\ TagAge(t, head') < TagAge(ckpt_owner[q], head') + 1
      BY DEF Window
    <3>2. TagAge(t, head') \in Int /\ TagAge(ckpt_owner[q], head') \in Int /\ used' \in Int
      BY <1>2, <1>6, <1>9, <3>1
    <3>3. TagAge(t, head') < used'
      BY <2>2, <3>1, <3>2
    <3> QED BY <3>1, <3>3 DEF Window
  <2> QED BY <1>8, <2>1, <2>3, ExactSame
<1> QED BY <1>7, <1>11, <1>12

LEMMA RecoverKeepsIInv ==
  ASSUME IInv, NEW k \in 0 .. 2, NEW sel \in Selection, Recover(k, sel)
  PROVE  IInv'
<1>1. /\ rob \in [Tag -> Entry] /\ rs_br \in SUBSET Station
      /\ ckpt_used \in SUBSET Ckpt /\ ckpt_owner \in [Ckpt -> Tag]
  BY DEF IInv, TypeOK
<1>2. /\ head' \in Tag /\ used' \in 0 .. ROB_SIZE
      /\ rob' \in [Tag -> Entry]
      /\ \A t \in Tag : t \in Window(head', used') <=> TagAge(t, head) >= k /\ ~Younger(t, br_e.tag)
      /\ \A t \in Window(head', used') : rob'[t] = Executed(t) /\ Live(t)
      /\ \A t \in Tag : t \notin Window(head', used') => rob'[t] = Idle
  BY RobAfterRecover
<1>3. br_e.valid /\ CanCommit(k)
  BY DEF Recover
<1>4. br_e.tag \in Tag /\ br_e.ckpt \in ckpt_used /\ ckpt_owner[br_e.ckpt] = br_e.tag
  BY <1>3, ExecutingBranch
<1>5. \A t \in Tag : /\ Executed(t).live = rob[t].live
                     /\ br_e.tag = t => Executed(t).br = "resolved"
                     /\ br_e.tag # t => Executed(t) = rob[t]
  BY <1>1, <1>3 DEF Executed, Entry, BrState
<1>6. Idle.live = FALSE /\ Idle.br = "none"
  BY DEF Idle
<1>7. LiveInWindow'
  <2> SUFFICES ASSUME NEW t \in Tag
               PROVE  /\ rob'[t].live <=> t \in Window(head', used')
                      /\ ~rob'[t].live => rob'[t] = Idle
    BY DEF LiveInWindow, Live
  <2>1. CASE t \in Window(head', used')
    <3>1. rob'[t].live
      BY <1>2, <1>5, <2>1 DEF Live
    <3> QED BY <2>1, <3>1
  <2>2. CASE t \notin Window(head', used')
    BY <1>2, <1>6, <2>2
  <2> QED BY <2>1, <2>2
<1> DEFINE W == {e \in rs_br : ~Younger(e.tag, br_e.tag)}
<1>8. /\ \A e \in rs_br : /\ e \in Station /\ e.tag \in Tag /\ e.ckpt \in Ckpt
                          /\ e.ckpt \in ckpt_used /\ ckpt_owner[e.ckpt] = e.tag
                          /\ Live(e.tag) /\ rob[e.tag].br = "pending"
                          /\ e.ckpt # br_e.ckpt
                          /\ ~(br_e.valid /\ e.tag = br_e.tag)
      /\ \A q \in ckpt_used : q # br_e.ckpt => \E e \in rs_br : e.ckpt = q
      /\ \A t \in Tag : rob[t].br = "pending" /\ ~(br_e.valid /\ br_e.tag = t)
           => \E e \in rs_br : e.tag = t
      /\ \A e, g \in rs_br : e.tag = g.tag => e = g
  BY WaitingBranches
<1>9. /\ ckpt_used' = {q \in ckpt_used : q # br_e.ckpt /\ ~Younger(ckpt_owner[q], br_e.tag)}
      /\ ckpt_owner' = ckpt_owner
      /\ rs_br' = {e \in rs_br : e # sel /\ ~Younger(e.tag, br_e.tag)}
      /\ br_e' = IntoExecute(sel, TRUE)
  BY DEF Recover
<1>10. W \in SUBSET Station
  BY <1>1
<1>11. /\ rs_br' = W \ {sel}
       /\ br_e' = IF sel \in W THEN [valid |-> TRUE, tag |-> sel.tag, ckpt |-> sel.ckpt] ELSE NoBranch
  <2>1. /\ sel \in rs_br \/ sel = NoBranch
        /\ sel \in rs_br => sel # NoBranch
        /\ NoBranch \notin W
    BY <1>10, SelectionForms
  <2>2. rs_br' = W \ {sel}
    BY <1>9
  <2>3. sel \in W <=> sel \in rs_br /\ ~Younger(sel.tag, br_e.tag)
    OBVIOUS
  <2> HIDE DEF W
  <2> QED BY <1>9, <2>1, <2>2, <2>3 DEF IntoExecute
<1>12. ASSUME NEW e \in W
       PROVE  /\ e.ckpt \in ckpt_used' /\ ckpt_owner'[e.ckpt] = e.tag
              /\ rob'[e.tag].live /\ rob'[e.tag].br = "pending"
  <2>1. e \in rs_br /\ ~Younger(e.tag, br_e.tag)
    OBVIOUS
  <2>2. e.ckpt \in ckpt_used' /\ ckpt_owner'[e.ckpt] = e.tag
    BY <1>8, <1>9, <2>1
  <2>3. TagAge(e.tag, head) >= k /\ e.tag \in Tag
    BY <1>3, <1>8, <2>1, CommitPassesNoBranch
  <2>4. e.tag \in Window(head', used')
    BY <1>2, <2>1, <2>3
  <2>5. rob'[e.tag] = rob[e.tag]
    BY <1>2, <1>3, <1>5, <1>8, <2>1, <2>3, <2>4
  <2> QED BY <1>8, <2>1, <2>2, <2>5 DEF Live
<1>13. ASSUME NEW q \in ckpt_used' PROVE \E e \in W : e.ckpt = q
  <2>1. q \in ckpt_used /\ q # br_e.ckpt /\ ~Younger(ckpt_owner[q], br_e.tag)
    BY <1>9
  <2>2. PICK e \in rs_br : e.ckpt = q
    BY <1>8, <2>1
  <2>3. e \in W
    BY <1>8, <2>1, <2>2
  <2> QED BY <2>2, <2>3
<1>14. ASSUME NEW t \in Tag, rob'[t].br = "pending" PROVE \E e \in W : e.tag = t
  <2>1. t \in Window(head', used')
    BY <1>2, <1>6, <1>14
  <2>2. rob[t].br = "pending" /\ br_e.tag # t /\ ~Younger(t, br_e.tag)
    BY <1>2, <1>5, <1>14, <2>1
  <2>3. PICK e \in rs_br : e.tag = t
    BY <1>8, <2>2
  <2> QED BY <2>2, <2>3
<1>15. \A e, g \in W : e.tag = g.tag => e = g
  BY <1>8
<1>16. /\ rs_br' \in SUBSET Station
       /\ br_e' \in {NoBranch} \cup [valid : {TRUE}, tag : Tag, ckpt : Ckpt]
       /\ CkptLifecycle' /\ HeldOnce'
  <2> HIDE DEF W
  <2> QED BY <1>10, <1>11, <1>12, <1>13, <1>14, <1>15, BranchesFrom
<1>17. /\ rat' \in Table /\ ck' \in [Ckpt -> Table] /\ RatTrue'
       /\ \A q \in ckpt_used : ~Younger(ckpt_owner[q], br_e.tag) =>
            Exact(ck'[q], Window(head', TagAge(ckpt_owner[q], head') + 1), rob', head')
  BY TablesAfterRecover DEF RatTrue
<1>18. CkptTrue'
  BY <1>9, <1>17 DEF CkptTrue, UpToOwner
<1>19. TypeOK'
  BY <1>1, <1>2, <1>9, <1>16, <1>17 DEF TypeOK
<1> QED BY <1>7, <1>16, <1>17, <1>18, <1>19 DEF IInv

\* Nothing in flight, as after a reset or a flush.
NothingInFlight ==
  /\ rat = AllCommitted /\ ck = [k \in Ckpt |-> AllCommitted]
  /\ rob = [t \in Tag |-> Idle] /\ head = 0 /\ used = 0
  /\ ckpt_used = {} /\ ckpt_owner \in [Ckpt -> Tag]
  /\ rs_br = {} /\ br_e = NoBranch

LEMMA NothingInFlightIsGood == NothingInFlight => IInv
<1> SUFFICES ASSUME NothingInFlight PROVE IInv
  OBVIOUS
<1> USE DEF NothingInFlight
<1>1. ROB_SIZE \in Nat /\ ROB_SIZE >= 2
  BY RobSizeAssumption
<1>2. AllCommitted \in Table
  BY DEF AllCommitted, Table
<1>3. Idle \in Entry /\ Idle.live = FALSE /\ Idle.br = "none"
  BY DEF Idle, Entry, Dest, BrState
<1>4. head \in Tag /\ used \in 0 .. ROB_SIZE
  BY <1>1 DEF Tag
<1>5. TypeOK
  BY <1>1, <1>2, <1>3, <1>4 DEF TypeOK
<1>6. Window(head, used) = {}
  <2>1. \A t \in Tag : ~(TagAge(t, head) < used)
    BY <1>1, <1>4, TagAgeType
  <2> QED BY <2>1 DEF Window
<1>7. LiveInWindow
  BY <1>3, <1>6 DEF LiveInWindow, Live
<1>8. RatTrue
  BY <1>6 DEF RatTrue, Exact, AllCommitted
<1>9. \A t \in Tag, q \in Ckpt : ~Holds(t, q)
  BY DEF Holds, NoBranch
<1>10. CkptLifecycle /\ HeldOnce
  BY <1>3, <1>9 DEF CkptLifecycle, HeldOnce, NoBranch
<1> QED BY <1>5, <1>7, <1>8, <1>10 DEF IInv, CkptTrue

LEMMA InitIsGood == Init => IInv
BY NothingInFlightIsGood, RobSizeAssumption DEF Init, RenameInit, NothingInFlight, Tag

LEMMA FlushKeepsIInv == IInv /\ Flush => IInv'
<1>1. IInv /\ Flush => NothingInFlight'
  BY DEF IInv, TypeOK, Flush, RenameFlush, NothingInFlight
<1> QED BY <1>1, NothingInFlightIsGood, PTL

LEMMA UnchangedKeepsIInv ==
  ASSUME IInv, UNCHANGED vars
  PROVE  IInv'
<1> USE DEF vars
<1>1. TypeOK' /\ LiveInWindow' /\ RatTrue' /\ CkptTrue'
  BY DEF IInv, TypeOK, LiveInWindow, Live, RatTrue, CkptTrue, UpToOwner
<1>2. \A t, q : Holds(t, q)' <=> Holds(t, q)
  BY DEF Holds
<1>3. CkptLifecycle'
  <2>1. \A q : Holds(ckpt_owner[q], q)' <=> Holds(ckpt_owner[q], q)
    BY DEF Holds
  <2> QED BY <1>2, <2>1 DEF IInv, CkptLifecycle, Live
<1>4. HeldOnce'
  BY <1>2 DEF IInv, HeldOnce
<1> QED BY <1>1, <1>3, <1>4 DEF IInv

LEMMA InvariantHolds == Spec => []IInv
<1>1. IInv /\ [Next]_vars => IInv'
  <2> SUFFICES ASSUME IInv, [Next]_vars PROVE IInv'
    OBVIOUS
  <2>1. ASSUME NEW b \in Bundle, NEW k \in 0 .. 2, NEW sel \in Selection,
               NEW id \in Ckpt \cup {NoCkpt}, Cycle(b, k, sel, id)
        PROVE  IInv'
    BY <2>1, CycleKeepsIInv
  <2>2. ASSUME NEW k \in 0 .. 2, NEW sel \in Selection, Recover(k, sel) PROVE IInv'
    BY <2>2, RecoverKeepsIInv
  <2>3. CASE Flush
    BY <2>3, FlushKeepsIInv
  <2>4. CASE UNCHANGED vars
    BY <2>4, UnchangedKeepsIInv
  <2> QED BY <2>1, <2>2, <2>3, <2>4 DEF Next
<1> QED BY <1>1, InitIsGood, PTL DEF Spec

-----------------------------------------------------------------------------
(* What the invariant says of the model's properties.                      *)

(* Registers, tables, pointers, checkpoints and station keep their types,  *)
(* for every size of each.                                                 *)
THEOREM RenameTypeCorrect == Spec => []TypeOK
<1>1. IInv => TypeOK
  BY DEF IInv
<1> QED BY <1>1, InvariantHolds, PTL

(* For every ring size, set of registers and number of checkpoints the     *)
(* rename table names, for each register, the youngest instruction in      *)
(* flight that writes it (RenameTable.sv:69-121), through dual dispatch    *)
(* and commit, recoveries in any order and the reuse of tags.              *)
THEOREM RenameTableExact == Spec => []RatExact
<1>1. IInv => RatExact
  <2> SUFFICES ASSUME IInv PROVE RatExact
    OBVIOUS
  <2>1. TypeOK /\ RatTrue /\ \A t \in Tag : Live(t) <=> t \in Window(head, used)
    BY DEF IInv, LiveInWindow
  <2>2. \A t \in Window(head, used) : t \in Tag
    BY DEF Window
  <2> QED BY <2>1, <2>2 DEF RatExact, MapsExactly, RatTrue, Exact, Younger
<1> QED BY <1>1, InvariantHolds, PTL

(* For the same, a taken checkpoint is at all times the map of the         *)
(* instructions up to its branch, so that restoring it is exact in         *)
(* whatever cycle the branch turns out mispredicted.                       *)
THEOREM RenameCkptExact == Spec => []CkptExact
<1>1. IInv => CkptExact
  <2> SUFFICES ASSUME IInv, NEW q \in ckpt_used
               PROVE  MapsExactly(ck[q], LAMBDA t : ~Younger(t, ckpt_owner[q]))
    BY DEF CkptExact
  <2>1. Exact(ck[q], UpToOwner(q), rob, head)
    BY DEF IInv, CkptTrue
  <2>2. \A t \in Tag : t \in UpToOwner(q) <=> Live(t) /\ ~Younger(t, ckpt_owner[q])
    <3>1. head \in Tag /\ used \in Int /\ ckpt_owner[q] \in Tag /\ Live(ckpt_owner[q])
      BY DEF IInv, TypeOK, CkptLifecycle
    <3>2. \A t \in Tag : TagAge(t, head) \in 0 .. ROB_SIZE - 1
      BY <3>1, TagAgeType
    <3>3. TagAge(ckpt_owner[q], head) < used
      BY <3>1 DEF IInv, LiveInWindow, Window
    <3>4. \A t \in Tag : Live(t) <=> TagAge(t, head) < used
      BY DEF IInv, LiveInWindow, Window
    <3>5. \A t \in Tag : t \in UpToOwner(q) <=> TagAge(t, head) < TagAge(ckpt_owner[q], head) + 1
      BY DEF UpToOwner, Window
    <3> QED BY <3>1, <3>2, <3>3, <3>4, <3>5, RobSizeAssumption DEF Younger, TagYounger
  <2>3. \A t \in UpToOwner(q) : t \in Tag
    BY DEF UpToOwner, Window
  <2> HIDE DEF UpToOwner
  <2> QED BY <2>1, <2>2, <2>3 DEF MapsExactly, Exact, Younger
<1> QED BY <1>1, InvariantHolds, PTL

(* For the same, taken checkpoints and unresolved branches in flight are   *)
(* one to one: none leaks at a squash, none is freed under a branch that   *)
(* can still mispredict.                                                   *)
THEOREM RenameCkptLifecycle == Spec => []CkptLifecycle
<1>1. IInv => CkptLifecycle
  BY DEF IInv
<1> QED BY <1>1, InvariantHolds, PTL

=============================================================================
