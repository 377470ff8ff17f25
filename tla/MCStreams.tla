------------------------------ MODULE MCStreams -----------------------------
(***************************************************************************)
(* What is kept in program order along the core: the stream that fetch     *)
(* delivers, the window of the reorder buffer, and the stores that wait    *)
(* for memory.  They share no state here: each runs on its own while the   *)
(* others are at reset, so that the states add up.                         *)
(***************************************************************************)
EXTENDS Fetch, ReorderBuffer, StoreBuffer, TLC

P(kind, len) == [kind |-> kind, len |-> len, ver |-> 0]

\* Plain instructions of 16 and 32 bits, conditional branches of both sizes,
\* a jump, a system instruction, and the second halfword of a 32-bit one.
c == P("plain", 1)
w == P("plain", 2)
b == P("branch", 1)
B == P("branch", 2)
j == P("jump", 1)
S == P("system", 2)
t == P("plain", 1)

CodeOf(s) == [h \in Half |-> s[h + 1]]

\* Three lines of two words.
MCImages ==
  {CodeOf(<<c, w, t, w,   t, b, b, c,   w, t, c, j>>),
   CodeOf(<<w, t, B, t,   c, B, t, w,   t, S, t, c>>)}

\* A store that turns a 16-bit instruction into half of a straddling one, and
\* one that puts it back; both halves of a word in one store.
New(kind, len) == [kind |-> kind, len |-> len, ver |-> 1]
MCPatches == {(7 :> New("plain", 2)), (7 :> c)}

Masks == {{0}, {1}, {0, 1}}
AllStores == {[word |-> addr, data |-> [l \in m |-> v]] : addr \in {0, 1}, m \in Masks, v \in {"a", "b"}}
AllQueries == [word : {0, 1}, mask : Masks]

-----------------------------------------------------------------------------
\* One initial content of memory, banks and slots will do for those at reset.
FetchAtReset == Init /\ code = CHOOSE i \in Images : TRUE
RobAtReset == RobInit /\ bank_even[0] = CHOOSE i \in Instr : TRUE
BufferAtReset == BufferInit /\ slots[0] = CHOOSE s \in Store : TRUE

StreamsInit ==
  /\ Init /\ RobInit /\ BufferInit
  /\ \/ RobAtReset /\ BufferAtReset
     \/ FetchAtReset /\ BufferAtReset
     \/ FetchAtReset /\ RobAtReset
StreamsNext ==
  \/ RobAtReset /\ BufferAtReset /\ Next /\ UNCHANGED <<robVars, bufferVars>>
  \/ FetchAtReset /\ BufferAtReset /\ RobNext /\ UNCHANGED <<vars, bufferVars>>
  \/ FetchAtReset /\ RobAtReset /\ BufferNext /\ UNCHANGED <<vars, robVars>>
StreamsSpec == StreamsInit /\ [][StreamsNext]_<<vars, robVars, bufferVars>>

=============================================================================
