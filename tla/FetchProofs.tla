----------------------------- MODULE FetchProofs ----------------------------
(***************************************************************************)
(* Fetch keeps its types, refills the line it wants, delivers after        *)
(* fence.i no code from before it, hands out the stream of instructions    *)
(* FetchPath describes and never waits long, for every size of memory,     *)
(* line and cache.                                                         *)
(***************************************************************************)
EXTENDS Fetch, SequenceTheorems, WellFoundedInduction, TLAPS

(* Division into lines.                                                    *)

\* A halfword of the code is in one of its lines.
LEMMA LineInCode ==
  ASSUME NEW n \in Nat, NEW L \in Nat \ {0}, NEW C \in Nat \ {0}, n < C * L
  PROVE  n \div L \in 0 .. C - 1
<1>1. n \div L \in Nat
  OBVIOUS
<1>2. (n \div L) * L <= n
  OBVIOUS
<1>3. ASSUME n \div L >= C PROVE (n \div L) * L >= C * L
  <2>. DEFINE q == n \div L
  <2>1. q \in Nat /\ q >= C BY <1>1, <1>3
  <2>. HIDE DEF q
  <2>2. q * L >= C * L BY <2>1
  <2> QED BY <2>2 DEF q
<1> QED BY <1>1, <1>2, <1>3

\* Every halfword of a line is a halfword of the code.
LEMMA HalfOfLine ==
  ASSUME NEW L \in Nat \ {0}, NEW C \in Nat \ {0}, NEW l \in 0 .. C - 1, NEW o \in 0 .. L - 1
  PROVE  l * L + o \in 0 .. C * L - 1
<1>1. l * L \in Nat /\ C * L \in Nat
  OBVIOUS
<1>2. l * L <= (C - 1) * L
  OBVIOUS
<1>3. (C - 1) * L = C * L - L
  OBVIOUS
<1> QED BY <1>1, <1>2, <1>3

-----------------------------------------------------------------------------
(* Addresses and reads of the instruction memory.                          *)

\* Addresses wrap into the code, their lines are lines, their offsets offsets.
LEMMA AddressType ==
  \A h \in Int :
    /\ Wrap(h) \in Half /\ LineOf(h) \in Line
    /\ Wrap(h) % LINE_HALVES \in 0 .. LINE_HALVES - 1
<1>1. CODE_LINES * LINE_HALVES \in Nat \ {0}
  BY InstructionCacheAssumption
<1>2. \A h \in Int : Wrap(h) \in 0 .. CODE_LINES * LINE_HALVES - 1
  BY <1>1 DEF Wrap
<1>3. \A h \in Int : Wrap(h) \in Nat /\ Wrap(h) < CODE_LINES * LINE_HALVES
  BY <1>1, <1>2
<1>4. ASSUME NEW h \in Int PROVE LineOf(h) \in Line
  <2>1. Wrap(h) \div LINE_HALVES \in 0 .. CODE_LINES - 1
    BY ONLY <1>3, LineInCode, InstructionCacheAssumption
  <2> QED BY <2>1 DEF LineOf, Line
<1>5. \A n \in Nat : n % LINE_HALVES \in 0 .. LINE_HALVES - 1
  BY InstructionCacheAssumption
<1> QED BY <1>2, <1>3, <1>4, <1>5 DEF Half

\* The line after a line is a line.
LEMMA NextLineType == \A l \in Line : NextLine(l) \in Line
BY InstructionCacheAssumption DEF Line, NextLine

\* Every halfword of a line of the instruction memory is in the memory.
LEMMA HalfOfCode == \A l \in Line, o \in 0 .. LINE_HALVES - 1 : l * LINE_HALVES + o \in Half
BY HalfOfLine, InstructionCacheAssumption DEF Line, Half

\* A read of the instruction memory yields a line of parcels.
LEMMA LineReadType ==
  ASSUME code \in [Half -> Parcel], NEW l \in Line
  PROVE  LineRead(l) \in [line : Line, data : LineData]
BY HalfOfCode DEF LineRead, LineData

\* Whatever lookup answers is a parcel.
LEMMA FetchedType == ASSUME ICacheTypeOK PROVE \A h \in Int : Fetched(h) \in Parcel
<1> SUFFICES ASSUME NEW h \in Int PROVE Fetched(h) \in Parcel
  OBVIOUS
<1> DEFINE l == LineOf(h)  o == Wrap(h) % LINE_HALVES
<1>1. o \in 0 .. LINE_HALVES - 1
  BY AddressType
<1>2. CASE cache_hit(l)
  <2>1. (CHOOSE y \in WaysOf(l) : TRUE) \in Way
    BY <1>2 DEF cache_hit, WaysOf
  <2>2. lines[CHOOSE y \in WaysOf(l) : TRUE] \in LineData
    BY <2>1 DEF ICacheTypeOK
  <2>3. lines[CHOOSE y \in WaysOf(l) : TRUE][o] \in Parcel
    BY <1>1, <2>2 DEF LineData
  <2> QED BY <1>2, <2>3 DEF Fetched
<1>3. CASE ~cache_hit(l)
  BY <1>1, <1>3 DEF Fetched, ICacheTypeOK, LineData
<1> QED BY <1>2, <1>3

-----------------------------------------------------------------------------
(* The instruction cache keeps its types.                                  *)

\* After reset the instruction cache has its types.
LEMMA ICacheTypeInit == ICacheInit => ICacheTypeOK
<1> SUFFICES ASSUME ICacheInit PROVE ICacheTypeOK
  OBVIOUS
<1>1. code \in [Half -> Parcel]
  BY InstructionCacheAssumption DEF ICacheInit
<1>2. 0 \in Line
  BY InstructionCacheAssumption DEF Line
<1>3. imem \in [line : Line, data : LineData] /\ ahead \in [line : Line, data : LineData]
  BY <1>1, <1>2, LineReadType, NextLineType DEF ICacheInit
<1>4. since \in [Half -> SUBSET Parcel]
  BY <1>1 DEF ICacheInit
<1> QED BY <1>1, <1>3, <1>4 DEF ICacheInit, ICacheTypeOK

\* Whatever is asked of it, invalidated and stored in a cycle, it keeps them.
LEMMA ICacheTypeStep ==
  ASSUME ICacheTypeOK, NEW pc \in Half, NEW hit \in BOOLEAN, NEW miss \in BOOLEAN,
         NEW invalidate \in BOOLEAN, NEW store, \A h \in DOMAIN store : store[h] \in Parcel,
         ICache(pc, hit, miss, invalidate, store)
  PROVE  ICacheTypeOK'
<1>1. LineOf(pc) \in Line
  BY AddressType DEF Half
<1>2. code' \in [Half -> Parcel] /\ Snooped(store) = code'
  BY DEF ICache, Snooped, ICacheTypeOK
<1>3. imem' \in [line : Line, data : LineData] /\ ahead' \in [line : Line, data : LineData]
  BY <1>1, LineReadType, NextLineType DEF ICache, ICacheTypeOK
<1>4. tags' \in [Way -> Line \cup {NoLine}] /\ lines' \in [Way -> LineData]
  <2>1. PICK y : NextWays(pc, y, invalidate)
    BY DEF ICache
  <2>2. (IF update THEN imem.data ELSE prefetch.data) \in LineData
    BY DEF ICacheTypeOK
  <2> QED BY <1>1, <2>1, <2>2 DEF NextWays, ICacheTypeOK
<1>5. prefetch' \in [line : Line \cup {NoLine}, data : LineData]
  BY DEF ICache, NextPrefetch, ICacheTypeOK
<1>6. prefetch_used' \in BOOLEAN /\ fsm' \in {"read_cache", "read_mem"}
  BY DEF ICache, NextFsm, ICacheTypeOK
<1>7. since' \in [Half -> SUBSET Parcel]
  BY <1>2 DEF ICache, ICacheTypeOK
<1> QED BY <1>2, <1>3, <1>4, <1>5, <1>6, <1>7 DEF ICacheTypeOK

-----------------------------------------------------------------------------
(* The program counter and the queue keep theirs.                          *)

\* A packet cut at any address is an instruction.
LEMMA PacketType ==
  ASSUME ICacheTypeOK, NEW h \in Int, NEW target \in Half \cup {NoTarget}
  PROVE  Packet(h, target) \in Instruction
<1>1. Fetched(h).len \in {1, 2}
  BY FetchedType DEF Parcel
<1> DEFINE parcels == [k \in 1 .. Fetched(h).len |-> Fetched(h + k - 1)]
<1>2. parcels \in Seq(Parcel) /\ Len(parcels) \in Nat
  BY <1>1, FetchedType
<1>3. Wrap(h) \in Half /\ Wrap(h + Len(parcels)) \in Half
  <2> HIDE DEF parcels
  <2>1. h + Len(parcels) \in Int
    BY <1>2
  <2> QED BY <2>1, AddressType
<1> QED BY <1>2, <1>3 DEF Packet, Instruction

\* A cycle delivers at most two packets, at most one behind another.
LEMMA DeliveredType ==
  ASSUME TypeOK, NEW p0 \in Half \cup {NoTarget}, NEW p1 \in Half \cup {NoTarget}, NEW left
  PROVE  /\ Delivered(left, p0, p1) \in Seq(Instruction)
         /\ Len(Delivered(left, p0, p1)) <= 2
         /\ left # <<>> => Len(Delivered(left, p0, p1)) <= 1
<1>1. pc_out \in Int /\ slot1_pc \in Int
  <2>1. pc_out \in Int
    BY DEF TypeOK, Half
  <2>2. parcel0 \in Parcel
    BY <2>1, FetchedType DEF TypeOK, parcel0
  <2>3. parcel0.len \in Int
    BY <2>2 DEF Parcel
  <2> QED BY <2>1, <2>3 DEF slot1_pc
<1>2. Packet(pc_out, p0) \in Instruction /\ Packet(slot1_pc, p1) \in Instruction
  BY <1>1, PacketType DEF TypeOK
<1> QED BY <1>2 DEF Delivered

\* One cycle of fetch keeps the types, and the queue its two places.
LEMMA FetchTypeStep ==
  ASSUME TypeOK, NEW d \in 0 .. Len(queue), NEW redirect \in Targets \cup {NoTarget},
         NEW invalidate \in BOOLEAN, NEW store \in Patches \cup {<<>>},
         NEW p0 \in Half \cup {NoTarget}, NEW p1 \in Half \cup {NoTarget},
         Cycle(d, redirect, invalidate, store, p0, p1)
  PROVE  TypeOK'
<1> DEFINE left    == AfterDispatch(d)
           request == fetch_request(left, redirect)
           hit     == request /\ slot0_ready
           miss    == request /\ ~hit_raw
           stall   == pc_stall(hit, miss)
           new     == IF hit /\ ~stall THEN Delivered(left, p0, p1) ELSE <<>>
<1>1. ICacheTypeOK'
  <2>1. \A h \in DOMAIN store : store[h] \in Parcel
    BY FetchAssumption
  <2>2. hit \in BOOLEAN /\ miss \in BOOLEAN
    BY DEF fetch_request, slot0_ready, hit_raw, Present, cache_hit, prefetch_hit
  <2>3. ICache(pc_out, hit, miss, invalidate, store)
    BY DEF Cycle
  <2> HIDE DEF hit, miss
  <2> QED BY <2>1, <2>2, <2>3, ICacheTypeStep DEF TypeOK
<1>2. /\ new \in Seq(Instruction) /\ Len(new) <= 2
      /\ left # <<>> => Len(new) <= 1
  BY DeliveredType
<1>3. /\ left \in Seq(Instruction) /\ Len(left) <= 2
      /\ new # <<>> => left = <<>> \/ Len(left) = 1
  BY DEF AfterDispatch, TypeOK, fetch_request
<1>4. new # <<>> => new[Len(new)].next \in Half
  <2> HIDE DEF new
  <2> SUFFICES ASSUME new # <<>> PROVE new[Len(new)].next \in Half
    OBVIOUS
  <2>1. Len(new) \in 1 .. Len(new)
    BY <1>2
  <2>2. new[Len(new)] \in Instruction
    BY <1>2, <2>1
  <2> QED BY <2>2 DEF Instruction
<1> HIDE DEF new, left
<1>5. queue' \in Seq(Instruction) /\ Len(queue') <= 2
  <2>1. left \o new \in Seq(Instruction) /\ Len(left \o new) = Len(left) + Len(new)
    BY <1>2, <1>3
  <2>2. Len(left) + Len(new) <= 2
    BY <1>2, <1>3
  <2>3. queue' = <<>> \/ queue' = left \o new
    BY DEF Cycle, new, left
  <2>4. <<>> \in Seq(Instruction) /\ Len(<<>>) <= 2
    OBVIOUS
  <2>5. CASE queue' = <<>>
    BY <2>4, <2>5
  <2>6. CASE queue' = left \o new
    BY <2>1, <2>2, <2>6
  <2> QED BY <2>3, <2>5, <2>6
<1>6. pc_out' \in Half
  BY <1>4, FetchAssumption DEF Cycle, NextPc, TypeOK, pending, new, left
<1>7. redirect_pending' \in Half \cup {NoTarget} /\ told' \in Half \cup {NoTarget}
  BY FetchAssumption DEF Cycle, NextPending, TypeOK
<1>8. idle' \in Nat
  BY DEF Cycle, TypeOK
<1> QED BY <1>1, <1>5, <1>6, <1>7, <1>8 DEF TypeOK

\* Every step is a cycle with inputs of these types.
LEMMA StepIsCycle ==
  ASSUME Next
  PROVE  \E d \in 0 .. Len(queue), redirect \in Targets \cup {NoTarget}, invalidate \in BOOLEAN,
            store \in Patches \cup {<<>>}, p0 \in Half \cup {NoTarget}, p1 \in Half \cup {NoTarget} :
           Cycle(d, redirect, invalidate, store, p0, p1) /\ (invalidate => store = <<>>)
<1>1. CASE Run
  BY <1>1, FetchAssumption DEF Run, Predictions
<1>2. CASE Redirect
  BY <1>2 DEF Redirect
<1>3. CASE FenceI
  BY <1>3 DEF FenceI
<1> QED BY <1>1, <1>2, <1>3 DEF Next

\* Every register keeps its type, and the queue its two places, for every
\* size of memory, line and cache.
THEOREM FetchTypeCorrect == Spec => []TypeOK
<1>1. Init => TypeOK
  BY ICacheTypeInit, InstructionCacheAssumption DEF Init, TypeOK, Half
<1>2. TypeOK /\ [Next]_vars => TypeOK'
  <2> SUFFICES ASSUME TypeOK, [Next]_vars PROVE TypeOK'
    OBVIOUS
  <2>1. CASE Next
    BY <2>1, StepIsCycle, FetchTypeStep
  <2>2. CASE UNCHANGED vars
    BY <2>2 DEF vars, icacheVars, TypeOK, ICacheTypeOK
  <2> QED BY <2>1, <2>2
<1> QED BY <1>1, <1>2, PTL DEF Spec

-----------------------------------------------------------------------------
(* The refill.                                                             *)

\* One cycle of fetch keeps the refill right: a miss holds the program counter.
LEMMA RefillStep ==
  ASSUME RefillRightLine, NEW d, NEW redirect, NEW invalidate, NEW store, NEW p0, NEW p1,
         Cycle(d, redirect, invalidate, store, p0, p1)
  PROVE  RefillRightLine'
<1> SUFFICES ASSUME update' PROVE imem'.line = LineOf(pc_out')
  BY DEF RefillRightLine, LineOf, Wrap
<1> DEFINE request == fetch_request(AfterDispatch(d), redirect)
           hit     == request /\ slot0_ready
           miss    == request /\ ~hit_raw
<1>1. ~update /\ ~hit /\ miss
  BY DEF Cycle, ICache, NextFsm, update
<1>2. pc_stall(hit, miss)
  BY <1>1 DEF pc_stall
<1>3. pc_out' = pc_out
  BY <1>2 DEF Cycle, NextPc
<1>4. imem'.line = LineOf(pc_out)
  BY DEF Cycle, ICache, LineRead
<1> QED BY <1>3, <1>4

\* The assertion at otter_mcu_ooo.sv:534 never fires: the controller refills
\* only after a cycle whose miss held the program counter.
THEOREM FetchRefillRightLine == Spec => []RefillRightLine
<1>1. Init => RefillRightLine
  BY DEF Init, ICacheInit, RefillRightLine, update
<1>2. RefillRightLine /\ [Next]_vars => RefillRightLine'
  <2> SUFFICES ASSUME RefillRightLine, [Next]_vars PROVE RefillRightLine'
    OBVIOUS
  <2>1. CASE Next
    BY <2>1, StepIsCycle, RefillStep
  <2>2. CASE UNCHANGED vars
    BY <2>2 DEF vars, icacheVars, RefillRightLine, update, LineOf, Wrap
  <2> QED BY <2>1, <2>2
<1> QED BY <1>1, <1>2, PTL DEF Spec

-----------------------------------------------------------------------------
(* Code kept since before a fence.i is never delivered after it.           *)

CodeKnown == \A h \in Half : code[h] \in since[h]
IInv == TypeOK /\ RefillRightLine /\ CodeKnown /\ NoStaleCode

\* Contents that were current stay so until a fence.i.
LEMMA CurrentStays ==
  ASSUME ICacheTypeOK, ICacheTypeOK', NEW l \in Line, NEW data \in LineData, Current(l, data),
         \A h \in Half : since[h] \subseteq since'[h]
  PROVE  \A o \in DOMAIN data : data[o] \in since'[l * LINE_HALVES + o]
BY HalfOfCode DEF Current, LineData

\* What the instruction memory reads is current, in the cycle of a fence.i as
\* well: no store is written in it.
LEMMA ReadIsCurrent ==
  ASSUME ICacheTypeOK, NEW l \in Line, NEW read, read = LineRead(l),
         \A h \in Half : code[h] \in since'[h]
  PROVE  \A o \in DOMAIN read.data : read.data[o] \in since'[read.line * LINE_HALVES + o]
BY HalfOfCode DEF LineRead

\* One cycle of the instruction cache leaves nothing stale.
LEMMA FreshStep ==
  ASSUME ICacheTypeOK, ICacheTypeOK', CodeKnown, NoStaleCode,
         NEW pc \in Half, update => imem.line = LineOf(pc),
         NEW hit, NEW miss, NEW invalidate \in BOOLEAN, NEW store, invalidate => store = <<>>,
         ICache(pc, hit, miss, invalidate, store)
  PROVE  CodeKnown' /\ NoStaleCode'
<1>1. code' = Snooped(store) /\ \A h \in Half : code'[h] \in since'[h]
  BY DEF ICache
<1>2. CodeKnown'
  BY <1>1 DEF CodeKnown, Half
<1>3. \A h \in Half : code[h] \in since'[h]
  <2>1. CASE invalidate
    BY <2>1 DEF ICache, Snooped
  <2>2. CASE ~invalidate
    BY <2>2 DEF ICache, CodeKnown
  <2> QED BY <2>1, <2>2
<1>4. LineOf(pc) \in Line /\ NextLine(LineOf(pc)) \in Line /\ NoLine \notin Line
  <2>1. pc \in Int
    BY DEF Half
  <2>2. LineOf(pc) \in Line
    BY <2>1, AddressType
  <2> QED BY <2>2, NextLineType, InstructionCacheAssumption DEF Line
<1>5. Current(imem.line, imem.data)' /\ Current(ahead.line, ahead.data)'
  <2>1. imem' = LineRead(LineOf(pc)) /\ ahead' = LineRead(NextLine(LineOf(pc)))
    BY DEF ICache
  <2>2. \A o \in DOMAIN imem'.data : imem'.data[o] \in since'[imem'.line * LINE_HALVES + o]
    BY <1>3, <1>4, <2>1, ReadIsCurrent
  <2>3. \A o \in DOMAIN ahead'.data : ahead'.data[o] \in since'[ahead'.line * LINE_HALVES + o]
    BY <1>3, <1>4, <2>1, ReadIsCurrent
  <2> QED BY <2>2, <2>3 DEF Current
<1>6. PICK y : NextWays(pc, y, invalidate)
  BY DEF ICache
<1>7. CASE invalidate
  <2>1. \A z \in Way : tags'[z] = NoLine
    BY <1>6, <1>7 DEF NextWays
  <2>2. prefetch'.line = NoLine
    BY <1>7 DEF ICache, NextPrefetch, ICacheTypeOK
  <2> QED BY <1>2, <1>5, <2>1, <2>2 DEF NoStaleCode, Way
<1>8. CASE ~invalidate
  <2>1. \A h \in Half : since[h] \subseteq since'[h]
    BY <1>8 DEF ICache
  <2>2. ASSUME NEW z \in Way, tags'[z] # NoLine PROVE Current(tags[z], lines[z])'
    <3>1. CASE tags'[z] = tags[z] /\ lines'[z] = lines[z]
      <4>1. tags[z] \in Line /\ lines[z] \in LineData /\ Current(tags[z], lines[z])
        BY <2>2, <3>1 DEF NoStaleCode, ICacheTypeOK
      <4> QED BY <2>1, <3>1, <4>1, CurrentStays DEF Current
    <3>2. CASE update /\ tags'[z] = LineOf(pc) /\ lines'[z] = imem.data
      <4>1. imem.data \in LineData /\ Current(LineOf(pc), imem.data)
        BY <3>2 DEF NoStaleCode, ICacheTypeOK
      <4> QED BY <1>4, <2>1, <3>2, <4>1, CurrentStays DEF Current
    <3>3. CASE prefetch_hit(LineOf(pc)) /\ tags'[z] = LineOf(pc) /\ lines'[z] = prefetch.data
      <4>1. prefetch.data \in LineData /\ Current(LineOf(pc), prefetch.data)
        BY <1>4, <3>3 DEF NoStaleCode, ICacheTypeOK, prefetch_hit
      <4> QED BY <1>4, <2>1, <3>3, <4>1, CurrentStays DEF Current
    <3>4. \/ tags'[z] = tags[z] /\ lines'[z] = lines[z]
          \/ update /\ tags'[z] = LineOf(pc) /\ lines'[z] = imem.data
          \/ prefetch_hit(LineOf(pc)) /\ tags'[z] = LineOf(pc) /\ lines'[z] = prefetch.data
      BY <1>6, <1>8 DEF NextWays, ICacheTypeOK, prefetch_only_hit
    <3> QED BY <3>1, <3>2, <3>3, <3>4
  <2>3. ASSUME prefetch'.line # NoLine PROVE Current(prefetch.line, prefetch.data)'
    <3>1. CASE prefetch' = prefetch
      <4>1. prefetch.line \in Line /\ prefetch.data \in LineData
            /\ Current(prefetch.line, prefetch.data)
        BY <2>3, <3>1 DEF NoStaleCode, ICacheTypeOK
      <4> QED BY <2>1, <3>1, <4>1, CurrentStays DEF Current
    <3>2. CASE prefetch' = ahead
      <4>1. ahead.line \in Line /\ ahead.data \in LineData /\ Current(ahead.line, ahead.data)
        BY DEF NoStaleCode, ICacheTypeOK
      <4> QED BY <2>1, <3>2, <4>1, CurrentStays DEF Current
    <3> QED BY <1>8, <3>1, <3>2 DEF ICache, NextPrefetch
  <2> QED BY <1>2, <1>5, <2>2, <2>3 DEF NoStaleCode, Way
<1> QED BY <1>7, <1>8

\* After reset nothing is stale.
LEMMA FreshInit == Init => CodeKnown /\ NoStaleCode
<1> SUFFICES ASSUME Init PROVE CodeKnown /\ NoStaleCode
  OBVIOUS
<1>1. CodeKnown
  BY DEF Init, ICacheInit, CodeKnown
<1>2. 0 \in Line /\ NextLine(0) \in Line
  BY NextLineType, InstructionCacheAssumption DEF Line
<1>3. Current(imem.line, imem.data)
  BY <1>1, <1>2, HalfOfCode DEF Init, ICacheInit, LineRead, Current, CodeKnown
<1>4. Current(ahead.line, ahead.data)
  BY <1>1, <1>2, HalfOfCode DEF Init, ICacheInit, LineRead, Current, CodeKnown
<1>5. \A y \in Way : tags[y] = NoLine
  BY DEF Init, ICacheInit
<1>6. prefetch.line = NoLine
  BY DEF Init, ICacheInit, LineRead
<1> QED BY <1>1, <1>3, <1>4, <1>5, <1>6 DEF NoStaleCode

\* After fence.i no line, buffer or register holds older code, whatever
\* refill, promotion or read ahead the fence.i met and whatever was stored.
THEOREM FetchNoStaleCode == Spec => []NoStaleCode
<1>1. Init => IInv
  <2>1. Init => TypeOK
    BY ICacheTypeInit, InstructionCacheAssumption DEF Init, TypeOK, Half
  <2>2. Init => RefillRightLine
    BY DEF Init, ICacheInit, RefillRightLine, update
  <2> QED BY <2>1, <2>2, FreshInit DEF IInv
<1>2. IInv /\ [Next]_vars => IInv'
  <2> SUFFICES ASSUME IInv, [Next]_vars PROVE IInv'
    OBVIOUS
  <2>1. CASE Next
    <3>1. PICK d \in 0 .. Len(queue), redirect \in Targets \cup {NoTarget}, invalidate \in BOOLEAN,
               store \in Patches \cup {<<>>}, p0 \in Half \cup {NoTarget},
               p1 \in Half \cup {NoTarget} :
               Cycle(d, redirect, invalidate, store, p0, p1) /\ (invalidate => store = <<>>)
      BY <2>1, StepIsCycle
    <3>2. TypeOK'
      BY <3>1, FetchTypeStep DEF IInv
    <3>3. RefillRightLine'
      BY <3>1, RefillStep DEF IInv
    <3>4. \E hit, miss : ICache(pc_out, hit, miss, invalidate, store)
      BY <3>1 DEF Cycle
    <3>5. CodeKnown' /\ NoStaleCode'
      BY <3>1, <3>2, <3>4, FreshStep DEF IInv, TypeOK, RefillRightLine
    <3> QED BY <3>2, <3>3, <3>5 DEF IInv
  <2>2. CASE UNCHANGED vars
    <3>1. TypeOK'
      BY <2>2 DEF IInv, vars, icacheVars, TypeOK, ICacheTypeOK
    <3>2. RefillRightLine'
      BY <2>2 DEF IInv, vars, icacheVars, RefillRightLine, update, LineOf, Wrap
    <3>3. CodeKnown' /\ NoStaleCode'
      BY <2>2 DEF IInv, vars, icacheVars, CodeKnown, NoStaleCode, Current
    <3> QED BY <3>1, <3>2, <3>3 DEF IInv
  <2> QED BY <2>1, <2>2
<1>3. IInv => NoStaleCode
  BY DEF IInv
<1> QED BY <1>1, <1>2, <1>3, PTL DEF Spec

-----------------------------------------------------------------------------
(* Words, lines and the end of the memory.                                 *)

\* A number is its quotient times the divisor plus its remainder,
LEMMA DivisionExact ==
  ASSUME NEW n \in Nat \ {0}, NEW a \in Int
  PROVE  a \div n \in Int /\ a % n \in 0 .. n - 1 /\ a = (a \div n) * n + (a % n)
OBVIOUS

\* and only its quotient and remainder are that.
LEMMA DivisionUnique ==
  ASSUME NEW n \in Nat \ {0}, NEW q \in Int, NEW r \in 0 .. n - 1
  PROVE  (q * n + r) % n = r /\ (q * n + r) \div n = q
<1> DEFINE a == q * n + r
           p == a \div n
           s == a % n
<1>1. a \in Int /\ p \in Int /\ s \in 0 .. n - 1 /\ a = p * n + s
  OBVIOUS
<1>2. a = q * n + r
  OBVIOUS
<1> HIDE DEF a, p, s
<1>3. (p - q) * n = r - s
  BY <1>1, <1>2
<1>4. ~(p - q >= 1)
  <2> SUFFICES ASSUME p - q >= 1 PROVE FALSE
    OBVIOUS
  <2>1. (p - q) * n >= n
    BY <1>1
  <2> QED BY <1>1, <1>3, <2>1
<1>5. ~(p - q <= -1)
  <2> SUFFICES ASSUME p - q <= -1 PROVE FALSE
    OBVIOUS
  <2>1. (p - q) * n <= -n
    BY <1>1
  <2> QED BY <1>1, <1>3, <2>1
<1>6. p = q
  BY <1>1, <1>4, <1>5
<1>7. s = r
  BY <1>1, <1>2, <1>6
<1> QED BY <1>6, <1>7 DEF a, p, s

\* Addresses add up modulo the memory.
LEMMA WrapAdds ==
  ASSUME NEW h \in Int, NEW k \in Int
  PROVE  Wrap(Wrap(h) + k) = Wrap(h + k)
<1> DEFINE n == CODE_LINES * LINE_HALVES
           q == h \div n
           m == (Wrap(h) + k) \div n
           r == Wrap(Wrap(h) + k)
<1>1. n \in Nat \ {0}
  BY InstructionCacheAssumption
<1>2. q \in Int /\ Wrap(h) \in Int /\ h = q * n + Wrap(h)
  BY <1>1 DEF Wrap
<1>3. m \in Int /\ r \in 0 .. n - 1 /\ Wrap(h) + k = m * n + r
  <2>1. Wrap(h) + k \in Int /\ r = (Wrap(h) + k) % n
    BY <1>2 DEF Wrap
  <2> HIDE DEF n, q, r
  <2> QED BY <1>1, <2>1, DivisionExact
<1>4. \A x \in Int : Wrap(x) = x % n
  BY DEF Wrap
<1> HIDE DEF n, q, m, r
<1>5. h + k = (q + m) * n + r
  BY <1>1, <1>2, <1>3
<1>6. ((q + m) * n + r) % n = r
  <2>1. q + m \in Int
    BY <1>2, <1>3
  <2> QED BY <1>1, <1>3, <2>1, DivisionUnique
<1> QED BY <1>4, <1>5, <1>6 DEF r

\* An address below the end of the memory is itself, one past it wraps.
LEMMA WrapNear ==
  ASSUME NEW h \in Int
  PROVE  /\ h \in Half => Wrap(h) = h
         /\ h - CODE_LINES * LINE_HALVES \in Half => Wrap(h) = h - CODE_LINES * LINE_HALVES
<1> DEFINE n == CODE_LINES * LINE_HALVES
<1>1. n \in Nat \ {0}
  BY InstructionCacheAssumption
<1>2. Half = 0 .. n - 1 /\ Wrap(h) = h % n
  BY DEF Half, Wrap
<1> HIDE DEF n
<1>3. ASSUME h \in Half PROVE h % n = h
  <2>0. h \in 0 .. n - 1 /\ 0 \in Int
    BY <1>2, <1>3
  <2>1. (0 * n + h) % n = h
    BY <1>1, <2>0, DivisionUnique
  <2> QED BY <1>1, <2>1
<1>4. ASSUME h - n \in Half PROVE h % n = h - n
  <2>0. h - n \in 0 .. n - 1 /\ 1 \in Int
    BY <1>2, <1>4
  <2>1. (1 * n + (h - n)) % n = h - n
    BY <1>1, <2>0, DivisionUnique
  <2> QED BY <1>1, <2>1
<1> QED BY <1>2, <1>3, <1>4 DEF n

\* A halfword lies in its line at its offset.
LEMMA LineAndOffset ==
  ASSUME NEW h \in Int
  PROVE  LineOf(h) * LINE_HALVES + (Wrap(h) % LINE_HALVES) = Wrap(h)
<1>1. Wrap(h) \in Int
  BY AddressType DEF Half
<1>2. \A w \in Int : (w \div LINE_HALVES) * LINE_HALVES + (w % LINE_HALVES) = w
  BY InstructionCacheAssumption
<1> QED BY <1>1, <1>2 DEF LineOf

\* The two halfwords of a word are in the same line, whatever the memory's end.
LEMMA WordInLine ==
  ASSUME NEW h \in Nat, h % 2 = 0
  PROVE  LineOf(h + 1) = LineOf(h)
<1> DEFINE n == CODE_LINES * LINE_HALVES
           w == Wrap(h)
           q == w \div LINE_HALVES
           r == w % LINE_HALVES
<1>1. n \in Nat \ {0} /\ n % 2 = 0
  <2>1. PICK m \in Int : LINE_HALVES = 2 * m
    BY InstructionCacheAssumption
  <2>2. n = 2 * (CODE_LINES * m)
    BY <2>1, InstructionCacheAssumption
  <2>3. CODE_LINES * m \in Int
    BY <2>1, InstructionCacheAssumption
  <2> HIDE DEF n
  <2>4. n % 2 = 0
    BY <2>2, <2>3
  <2> QED BY <2>4, InstructionCacheAssumption DEF n
<1>2. w \in 0 .. n - 1 /\ w % 2 = 0
  <2>1. w \in 0 .. n - 1 /\ w = h % n
    BY <1>1, AddressType DEF Half, Wrap
  <2>2. PICK m \in Int : h = m * n + w
    <3>1. h \in Int
      OBVIOUS
    <3> HIDE DEF n, w
    <3>2. h \div n \in Int /\ h = (h \div n) * n + (h % n)
      BY <1>1, <3>1, DivisionExact
    <3> QED BY <2>1, <3>2
  <2>3. PICK p \in Int : n = 2 * p
    BY <1>1
  <2>4. m * n = 2 * (m * p) /\ m * p \in Int
    BY <2>2, <2>3
  <2> HIDE DEF w, n
  <2>5. h - w = 2 * (m * p)
    BY <2>1, <2>2, <2>4
  <2> QED BY <2>1, <2>4, <2>5
<1>3. q \in Int /\ r \in 0 .. LINE_HALVES - 1 /\ w = q * LINE_HALVES + r
  <2>1. w \in Int /\ LINE_HALVES \in Nat \ {0}
    BY <1>2, InstructionCacheAssumption
  <2> HIDE DEF w
  <2> QED BY <2>1, DivisionExact
<1>4. r % 2 = 0
  <2>1. PICK m \in Int : LINE_HALVES = 2 * m
    BY InstructionCacheAssumption
  <2>2. q * LINE_HALVES = 2 * (q * m) /\ q * m \in Int
    BY <1>3, <2>1
  <2> HIDE DEF q, r, w
  <2>3. w - r = 2 * (q * m)
    BY <1>2, <1>3, <2>2, InstructionCacheAssumption
  <2> QED BY <1>2, <1>3, <2>2, <2>3
<1>5. Wrap(h + 1) = w + 1
  <2>1. w + 1 \in Half /\ Wrap(w + 1) = Wrap(h + 1)
    <3>1. Wrap(w + 1) = Wrap(h + 1)
      <4>1. h \in Int /\ 1 \in Int
        OBVIOUS
      <4> QED BY <4>1, WrapAdds
    <3> HIDE DEF n, w
    <3>2. w + 1 \in 0 .. n - 1
      BY <1>1, <1>2
    <3> QED BY <3>1, <3>2 DEF n, Half
  <2>2. w + 1 \in Int
    BY <1>2
  <2> HIDE DEF w
  <2> QED BY <2>1, <2>2, WrapNear
<1>6. r + 1 \in 0 .. LINE_HALVES - 1
  BY <1>3, <1>4, InstructionCacheAssumption
<1>7. (w + 1) \div LINE_HALVES = q
  <2> HIDE DEF q, r, w
  <2>1. (q * LINE_HALVES + (r + 1)) \div LINE_HALVES = q
    BY <1>3, <1>6, DivisionUnique, InstructionCacheAssumption
  <2>2. q * LINE_HALVES + (r + 1) = w + 1
    BY <1>2, <1>3, InstructionCacheAssumption
  <2> QED BY <2>1, <2>2
<1> QED BY <1>5, <1>7 DEF LineOf

\* The word after a word is in the same line or the next, which wraps with
\* the memory.
LEMMA NextWordLine ==
  ASSUME NEW h \in Half
  PROVE  LineOf(h + 2) \in {LineOf(h), NextLine(LineOf(h))}
<1> DEFINE n == CODE_LINES * LINE_HALVES
           L == LINE_HALVES
           q == h \div L
           r == h % L
<1>1. n \in Nat \ {0} /\ L \in Nat /\ L >= 2 /\ CODE_LINES \in Nat \ {0}
  BY InstructionCacheAssumption
<1>2. Wrap(h) = h /\ h \in 0 .. n - 1 /\ LineOf(h) = q
  BY WrapNear DEF Half, LineOf
<1>3. q \in 0 .. CODE_LINES - 1 /\ r \in 0 .. L - 1 /\ h = q * L + r
  <2>1. h \in Int /\ h \in Nat /\ h < CODE_LINES * L /\ L \in Nat \ {0}
    BY <1>1, <1>2
  <2> HIDE DEF L, n
  <2>2. q \in 0 .. CODE_LINES - 1
    BY <1>1, <2>1, LineInCode
  <2>3. r \in 0 .. L - 1 /\ h = q * L + r
    BY <2>1, DivisionExact
  <2> QED BY <2>2, <2>3
<1>4. n = CODE_LINES * L
  OBVIOUS
<1> HIDE DEF n, L, q, r
<1>5. CASE r + 2 <= L - 1
  <2>1. h + 2 = q * L + (r + 2) /\ (q * L + (r + 2)) \div L = q
    BY <1>1, <1>2, <1>3, <1>5, DivisionUnique
  <2>2. q * L + L <= CODE_LINES * L
    <3>1. (q + 1) * L <= CODE_LINES * L
      BY <1>1, <1>3
    <3> QED BY <1>1, <1>3, <3>1
  <2>3. h + 2 \in Half
    <3>1. h + 2 \in 0 .. n - 1
      BY <1>1, <1>2, <1>3, <1>4, <1>5, <2>2
    <3> QED BY <3>1 DEF Half, n
  <2>4. Wrap(h + 2) = h + 2
    <3>1. h + 2 \in Int
      BY <1>2
    <3> QED BY <2>3, <3>1, WrapNear
  <2>5. LineOf(h + 2) = q
    BY <2>1, <2>4 DEF LineOf, L
  <2> QED BY <1>2, <2>5
<1>6. CASE ~(r + 2 <= L - 1)
  <2> DEFINE s == r + 2 - L
  <2>1. s \in 0 .. 1 /\ s \in 0 .. L - 1
    BY <1>1, <1>3, <1>6
  <2>2. h + 2 = (q + 1) * L + s
    BY <1>1, <1>3
  <2> HIDE DEF s
  <2>3. CASE q + 1 <= CODE_LINES - 1
    <3>1. (q + 2) * L <= CODE_LINES * L
      BY <1>1, <1>3, <2>3
    <3>2. h + 2 \in 0 .. n - 1
      <4>1. (q + 1) * L + L <= n /\ (q + 1) * L \in Nat
        BY <1>1, <1>3, <1>4, <3>1
      <4> QED BY <1>1, <2>1, <2>2, <4>1
    <3>3. Wrap(h + 2) = h + 2
      BY <1>2, <3>2, WrapNear DEF Half, n
    <3>4. (h + 2) \div L = q + 1
      <4>1. q + 1 \in Int /\ L \in Nat \ {0}
        BY <1>1, <1>3
      <4>2. ((q + 1) * L + s) \div L = q + 1
        BY <2>1, <4>1, DivisionUnique
      <4> QED BY <2>2, <4>2
    <3>5. NextLine(q) = q + 1
      <4>1. (0 * CODE_LINES + (q + 1)) % CODE_LINES = q + 1
        <5>1. PICK k : k = q + 1
          OBVIOUS
        <5>2. CODE_LINES \in Nat \ {0} /\ 0 \in Int /\ k \in 0 .. CODE_LINES - 1
          BY <1>1, <1>3, <2>3, <5>1
        <5>3. (0 * CODE_LINES + k) % CODE_LINES = k
          BY ONLY <5>2, DivisionUnique
        <5> QED BY ONLY <5>1, <5>3
      <4> QED BY <1>1, <1>3, <4>1 DEF NextLine
    <3> QED BY <1>2, <3>3, <3>4, <3>5 DEF LineOf, L
  <2>4. CASE ~(q + 1 <= CODE_LINES - 1)
    <3>1. q + 1 = CODE_LINES
      BY <1>1, <1>3, <2>4
    <3>2. h + 2 - n = s
      BY <1>1, <1>2, <1>4, <2>1, <2>2, <3>1
    <3>3. s \in Half
      <4>1. n >= L
        BY <1>1, <1>4
      <4>2. s \in 0 .. n - 1
        BY <1>1, <2>1, <4>1
      <4> QED BY <4>2 DEF Half, n
    <3>4. Wrap(h + 2) = s
      <4>1. PICK x \in Int : x = h + 2
        BY <1>2
      <4>2. x - CODE_LINES * LINE_HALVES = s
        BY <1>1, <1>2, <3>2, <4>1 DEF n
      <4>3. Wrap(x) = x - CODE_LINES * LINE_HALVES
        BY <3>3, <4>2, WrapNear
      <4> QED BY <4>1, <4>2, <4>3
    <3>5. s \div L = 0
      <4>1. (0 * L + s) \div L = 0
        BY <1>1, <2>1, DivisionUnique
      <4> QED BY <1>1, <2>1, <4>1
    <3>6. NextLine(q) = 0
      <4>1. (1 * CODE_LINES + 0) % CODE_LINES = 0
        BY <1>1, DivisionUnique
      <4> QED BY <1>1, <1>3, <3>1, <4>1 DEF NextLine
    <3> QED BY <1>2, <3>4, <3>5, <3>6 DEF LineOf, L
  <2> QED BY <2>3, <2>4
<1> QED BY <1>5, <1>6

-----------------------------------------------------------------------------
(* Fetch implements the stream of predicted instructions.                  *)

Expect == IF pending THEN redirect_pending ELSE pc_out

\* What lookup answers for a line that is there is code as it is or was since
\* the last fence.i.
LEMMA FetchedIsCurrent ==
  ASSUME ICacheTypeOK, NoStaleCode, NEW h \in Int, Present(LineOf(h))
  PROVE  Fetched(h) \in since[Wrap(h)]
<1> DEFINE l == LineOf(h)
           o == Wrap(h) % LINE_HALVES
           y == CHOOSE z \in WaysOf(l) : TRUE
<1>1. l \in Line /\ l # NoLine /\ o \in 0 .. LINE_HALVES - 1
  BY AddressType, InstructionCacheAssumption DEF Line
<1>2. l * LINE_HALVES + o = Wrap(h)
  BY LineAndOffset
<1> HIDE DEF l, o
<1>3. CASE cache_hit(l)
  <2>1. y \in Way /\ tags[y] = l
    BY <1>3 DEF cache_hit, WaysOf
  <2>2. lines[y] \in LineData /\ Current(l, lines[y])
    BY <1>1, <2>1 DEF NoStaleCode, ICacheTypeOK
  <2>3. lines[y][o] \in since[Wrap(h)]
    BY <1>1, <1>2, <2>2 DEF Current, LineData
  <2> QED BY <1>3, <2>3 DEF Fetched, l, o
<1>4. CASE ~cache_hit(l)
  <2>1. prefetch.line = l
    BY <1>4 DEF Present, prefetch_hit, l
  <2>2. prefetch.data \in LineData /\ Current(l, prefetch.data)
    BY <1>1, <2>1 DEF NoStaleCode, ICacheTypeOK
  <2>3. prefetch.data[o] \in since[Wrap(h)]
    BY <1>1, <1>2, <2>2 DEF Current, LineData
  <2> QED BY <1>4, <2>3 DEF Fetched, l, o
<1> QED BY <1>3, <1>4

\* A packet whose halfwords are all there is an instruction of the stream.
LEMMA PacketShows ==
  ASSUME ICacheTypeOK, NoStaleCode, NEW h \in Int, NEW target \in Half \cup {NoTarget},
         \A k \in 0 .. Fetched(h).len - 1 : Present(LineOf(h + k)),
         target # NoTarget => IsControl(Fetched(h))
  PROVE  Stream!Shows(Packet(h, target), Wrap(h))
<1> DEFINE n == Fetched(h).len
           i == Packet(h, target)
<1>1. Fetched(h) \in Parcel /\ n \in {1, 2}
  BY FetchedType DEF Parcel
<1>2. /\ i.pc = Wrap(h) /\ i.parcels = [k \in 1 .. n |-> Fetched(h + k - 1)]
      /\ i.taken = (target # NoTarget)
      /\ i.next = IF target = NoTarget THEN Wrap(h + Len(i.parcels)) ELSE target
  BY DEF Packet
<1>3. i \in Instruction
  BY PacketType
<1> HIDE DEF i
<1>4. Len(i.parcels) = n /\ DOMAIN i.parcels = 1 .. n
  BY <1>1, <1>2
<1>5. i.parcels[1] = Fetched(h)
  BY <1>1, <1>2
<1>6. ASSUME NEW k \in 1 .. n
      PROVE  i.parcels[k] \in since[Stream!Past(Wrap(h), k - 1)]
  <2>1. PICK j \in Int : j = k - 1 /\ j \in 0 .. n - 1
    BY <1>1
  <2>2. Present(LineOf(h + j)) /\ h + j \in Int /\ h + k - 1 = h + j
    BY <1>1, <2>1
  <2>3. Fetched(h + j) \in since[Wrap(h + j)]
    BY <2>2, FetchedIsCurrent
  <2>4. Stream!Past(Wrap(h), j) = Wrap(h + j)
    BY <2>1, WrapAdds DEF Stream!Past, Wrap
  <2> QED BY <1>2, <2>1, <2>2, <2>3, <2>4
<1>7. i.next \in Stream!Half
  BY <1>3 DEF Instruction, Half, Stream!Half
<1>8. ~i.taken => i.next = Stream!Past(Wrap(h), Len(i.parcels))
  <2>1. PICK j \in Int : j = n
    BY <1>1
  <2>2. Stream!Past(Wrap(h), j) = Wrap(h + j)
    BY <2>1, WrapAdds DEF Stream!Past, Wrap
  <2> QED BY <1>2, <1>4, <2>1, <2>2
<1>9. i.taken => Stream!IsControl(i)
  BY <1>2, <1>5 DEF Stream!IsControl, IsControl
<1> QED BY <1>2, <1>4, <1>5, <1>6, <1>7, <1>8, <1>9 DEF Stream!Shows, i

\* The halfwords of the words at PC and PC+4, by the lines their words are in.
LEMMA WindowLines ==
  ASSUME pc_out \in Half, NEW h \in Int, h >= word0, h <= word0 + 3
  PROVE  LineOf(h) = IF h <= word0 + 1 THEN LineOf(pc_out) ELSE LineOf(pc_out + 2)
<1>1. pc_out \in Nat /\ word0 \in Nat /\ word0 % 2 = 0 /\ (word0 + 2) % 2 = 0
      /\ pc_out \in word0 .. word0 + 1
  BY DEF Half, word0
<1>2. LineOf(word0 + 1) = LineOf(word0)
  BY <1>1, WordInLine
<1>3. LineOf(word0 + 3) = LineOf(word0 + 2)
  <2>1. word0 + 2 \in Nat /\ word0 + 3 = (word0 + 2) + 1
    BY <1>1
  <2> QED BY <1>1, <2>1, WordInLine
<1>4. LineOf(pc_out) = LineOf(word0) /\ LineOf(pc_out + 2) = LineOf(word0 + 2)
  <2>1. pc_out = word0 \/ pc_out = word0 + 1
    BY <1>1
  <2>2. (word0 + 1) + 2 = word0 + 3
    BY <1>1
  <2> QED BY <1>2, <1>3, <2>1, <2>2
<1>5. h = word0 \/ h = word0 + 1 \/ h = word0 + 2 \/ h = word0 + 3
  BY <1>1
<1>6. word0 <= word0 + 1 /\ ~(word0 + 2 <= word0 + 1) /\ ~(word0 + 3 <= word0 + 1)
  BY <1>1
<1> QED BY <1>2, <1>3, <1>4, <1>5, <1>6

\* When slot 0 is ready, all its halfwords are there.
LEMMA Slot0There ==
  ASSUME TypeOK, slot0_ready
  PROVE  \A k \in 0 .. parcel0.len - 1 : Present(LineOf(pc_out + k))
<1> SUFFICES ASSUME NEW k \in 0 .. parcel0.len - 1 PROVE Present(LineOf(pc_out + k))
  OBVIOUS
<1>1. pc_out \in Half /\ pc_out \in Nat /\ word0 = pc_out - (pc_out % 2) /\ pc_out % 2 \in {0, 1}
  BY DEF TypeOK, Half, word0
<1>2. parcel0.len \in {1, 2}
  BY <1>1, FetchedType DEF TypeOK, parcel0, Parcel
<1>3. PICK h \in Int : h = pc_out + k
  BY <1>1, <1>2
<1>4. h >= word0 /\ h <= word0 + 3 /\ h <= word0 + 2
  BY <1>1, <1>2, <1>3
<1>5. LineOf(h) = IF h <= word0 + 1 THEN LineOf(pc_out) ELSE LineOf(pc_out + 2)
  BY <1>1, <1>4, WindowLines
<1>6. ~(h <= word0 + 1) => requires_next_word
  BY <1>1, <1>2, <1>3 DEF requires_next_word
<1> QED BY <1>3, <1>5, <1>6 DEF slot0_ready, hit_raw, next_valid

\* When slot 1 is delivered, all its halfwords are there as well.
LEMMA Slot1There ==
  ASSUME TypeOK, slot0_ready, slot1_bytes_ready
  PROVE  /\ slot1_pc \in Int
         /\ \A k \in 0 .. parcel1.len - 1 : Present(LineOf(slot1_pc + k))
<1>1. pc_out \in Half /\ pc_out \in Nat /\ word0 = pc_out - (pc_out % 2) /\ pc_out % 2 \in {0, 1}
  BY DEF TypeOK, Half, word0
<1>2. parcel0.len \in {1, 2}
  BY <1>1, FetchedType DEF TypeOK, parcel0, Parcel
<1>3. slot1_pc \in Int /\ slot1_pc = pc_out + parcel0.len
  BY <1>1, <1>2 DEF slot1_pc
<1>4. parcel1.len \in {1, 2}
  BY <1>3, FetchedType DEF TypeOK, parcel1, Parcel
<1>5. ASSUME NEW k \in 0 .. parcel1.len - 1 PROVE Present(LineOf(slot1_pc + k))
  <2>1. PICK h \in Int : h = slot1_pc + k
    BY <1>3, <1>4
  <2>2. h >= word0 /\ h <= slot1_last /\ slot1_last \in Int
    BY <1>1, <1>2, <1>3, <1>4, <2>1 DEF slot1_last
  <2>3. h <= word0 + 3 /\ (~(h <= word0 + 1) => next_valid)
    BY <1>1, <2>2 DEF slot1_bytes_ready
  <2>4. LineOf(h) = IF h <= word0 + 1 THEN LineOf(pc_out) ELSE LineOf(pc_out + 2)
    BY <1>1, <2>2, <2>3, WindowLines
  <2> QED BY <2>1, <2>3, <2>4 DEF slot0_ready, hit_raw, next_valid
<1> QED BY <1>3, <1>5

\* Where slot 0 lets slot 1 follow, it goes on at it.
LEMMA Slot1Follows ==
  ASSUME TypeOK, NEW p0 \in Predictions(parcel0), NEW j,
         MayFollow(Packet(pc_out, p0), j)
  PROVE  p0 = NoTarget /\ Packet(pc_out, p0).next = Wrap(slot1_pc)
<1> DEFINE i == Packet(pc_out, p0)
<1>1. pc_out \in Int /\ parcel0.len \in {1, 2}
  BY FetchedType DEF TypeOK, Half, parcel0, Parcel
<1>2. i.parcels = [k \in 1 .. parcel0.len |-> Fetched(pc_out + k - 1)] /\ i.taken = (p0 # NoTarget)
      /\ (p0 = NoTarget => i.next = Wrap(pc_out + Len(i.parcels)))
  BY DEF Packet, parcel0
<1> HIDE DEF i
<1>3. i.parcels[1] = parcel0 /\ Len(i.parcels) = parcel0.len
  BY <1>1, <1>2 DEF parcel0
<1>4. p0 = NoTarget
  <2> SUFFICES ASSUME p0 # NoTarget PROVE FALSE
    OBVIOUS
  <2>1. IsControl(parcel0)
    BY DEF Predictions
  <2>2. is_front_barrier(i)
    BY <1>3, <2>1 DEF IsControl, is_front_barrier, Kind
  <2>3. i.taken
    BY <1>2
  <2> QED BY <2>2, <2>3 DEF MayFollow, NotTakenBranch, i
<1> QED BY <1>2, <1>3, <1>4 DEF slot1_pc, i

\* What a hit delivers goes on where fetch is, one after the other.
LEMMA DeliveredFollows ==
  ASSUME TypeOK, NoStaleCode, slot0_ready, NEW left,
         NEW p0 \in Predictions(parcel0), NEW p1 \in Predictions(parcel1)
  PROVE  Stream!FollowsFrom(Delivered(left, p0, p1), pc_out)
<1> DEFINE slot0 == Packet(pc_out, p0)
           slot1 == Packet(slot1_pc, p1)
<1>1. pc_out \in Int /\ Wrap(pc_out) = pc_out /\ ICacheTypeOK
  BY WrapNear DEF TypeOK, Half
<1>2. /\ p0 \in Half \cup {NoTarget} /\ (p0 # NoTarget => IsControl(parcel0))
      /\ p1 \in Half \cup {NoTarget} /\ (p1 # NoTarget => IsControl(parcel1))
  BY FetchAssumption DEF Predictions
<1>3. Stream!Shows(slot0, pc_out)
  <2>1. Stream!Shows(Packet(pc_out, p0), Wrap(pc_out))
    BY <1>1, <1>2, Slot0There, PacketShows DEF parcel0
  <2> QED BY <1>1, <2>1
<1>4. ASSUME slot1_bytes_ready, MayFollow(slot0, slot1)
      PROVE  Stream!Shows(slot1, slot0.next)
  <2>1. slot0.next = Wrap(slot1_pc)
    BY <1>4, Slot1Follows
  <2>2. Stream!Shows(Packet(slot1_pc, p1), Wrap(slot1_pc))
    BY <1>1, <1>2, <1>4, Slot1There, PacketShows DEF parcel1
  <2> QED BY <2>1, <2>2
<1>5. \/ Delivered(left, p0, p1) = <<>>
      \/ Delivered(left, p0, p1) = <<slot0>>
      \/ /\ Delivered(left, p0, p1) = <<slot0, slot1>>
         /\ slot1_bytes_ready /\ MayFollow(slot0, slot1)
  BY DEF Delivered
<1> HIDE DEF slot0, slot1
<1>6. CASE Delivered(left, p0, p1) = <<>>
  BY <1>6 DEF Stream!FollowsFrom
<1>7. CASE Delivered(left, p0, p1) = <<slot0>>
  BY <1>3, <1>7 DEF Stream!FollowsFrom
<1>8. CASE /\ Delivered(left, p0, p1) = <<slot0, slot1>>
           /\ slot1_bytes_ready /\ MayFollow(slot0, slot1)
  BY <1>3, <1>4, <1>8 DEF Stream!FollowsFrom
<1> QED BY <1>5, <1>6, <1>7, <1>8

\* Two instructions in the queue are a bundle.
QueueBundled == Stream!Bundled(queue)

\* Two single instructions make a pair.
LEMMA OneAndOne == ASSUME NEW a, NEW b PROVE <<a>> \o <<b>> = <<a, b>>
<1>1. <<a>> \in Seq({a, b}) /\ b \in {a, b}
  OBVIOUS
<1>2. Append(<<a>>, b) = <<a>> \o <<b>>
  BY ONLY <1>1, AppendIsConcat
<1>3. PICK t : t = Append(<<a>>, b)
  OBVIOUS
<1>4. t \in Seq({a, b}) /\ Len(t) = 2 /\ t[1] = a /\ t[2] = b
  BY <1>1, <1>3, AppendProperties
<1>5. t = <<a, b>>
  BY <1>4
<1> QED BY ONLY <1>2, <1>3, <1>5

\* Joining nothing to a sequence leaves it as it is.
LEMMA AndNothing == ASSUME NEW S, NEW s \in Seq(S) PROVE s \o <<>> = s
BY ConcatEmptySeq


\* What dispatch leaves is the young end of the queue, and a bundle.
LEMMA LeftOver ==
  ASSUME TypeOK, QueueBundled, NEW d \in 0 .. Len(queue)
  PROVE  /\ AfterDispatch(d) \in Seq(Instruction) /\ Len(AfterDispatch(d)) <= 2
         /\ Stream!Bundled(AfterDispatch(d))
<1> DEFINE left == AfterDispatch(d)
<1>1. queue \in Seq(Instruction) /\ Len(queue) <= 2
  BY DEF TypeOK
<1>2. left \in Seq(Instruction) /\ Len(left) = Len(queue) - d
  BY <1>1 DEF AfterDispatch
<1>3. CASE d = 0
  <2>1. left = queue
    <3>1. \A i \in 1 .. Len(queue) : left[i] = queue[i]
      BY <1>1, <1>2, <1>3 DEF AfterDispatch
    <3> HIDE DEF left
    <3> QED BY <1>1, <1>2, <1>3, <3>1, SeqEqual
  <2> QED BY <1>1, <2>1 DEF QueueBundled
<1>4. CASE d # 0
  <2>1. Len(left) <= 1
    BY <1>1, <1>2, <1>4
  <2> HIDE DEF left
  <2>2. Stream!Bundled(left)
    BY <1>2, <2>1 DEF Stream!Bundled
  <2> QED BY <1>1, <1>2, <2>1, <2>2 DEF left
<1> QED BY <1>3, <1>4

\* What fetch puts behind what is left makes a bundle of it: one place is
\* free, and the instruction ahead lets the new one follow.
LEMMA DeliveredBundles ==
  ASSUME TypeOK, NEW left \in Seq(Instruction), Stream!Bundled(left),
         left = <<>> \/ Len(left) = 1,
         NEW p0 \in Predictions(parcel0), NEW p1 \in Predictions(parcel1)
  PROVE  /\ Stream!Bundled(left \o Delivered(left, p0, p1))
         /\ Len(left \o Delivered(left, p0, p1)) <= 2
<1> DEFINE slot0 == Packet(pc_out, p0)
           slot1 == Packet(slot1_pc, p1)
           new == Delivered(left, p0, p1)
<1>1. \A i : Stream!IsControl(i) => is_front_barrier(i)
  BY DEF Stream!IsControl, is_front_barrier, Kind
<1>2. \A i, j : MayFollow(i, j) => (Stream!IsControl(i) => ~i.taken /\ ~Stream!IsControl(j))
  BY <1>1 DEF MayFollow, NotTakenBranch
<1> HIDE DEF slot0, slot1
<1>3. \A i, j : MayFollow(i, j) => Stream!Bundled(<<i, j>>)
  <2> SUFFICES ASSUME NEW i, NEW j, MayFollow(i, j) PROVE Stream!Bundled(<<i, j>>)
    OBVIOUS
  <2>1. Stream!IsControl(i) => ~i.taken /\ ~Stream!IsControl(j)
    BY <1>2
  <2> QED BY <2>1 DEF Stream!Bundled
<1>4. CASE left = <<>>
  <2>1. new = <<slot0>> \/ (new = <<slot0, slot1>> /\ MayFollow(slot0, slot1))
    BY <1>4 DEF Delivered, slot0, slot1
  <2> HIDE DEF new
  <2>2. left \o new = new
    BY <1>4, <2>1
  <2>3. Stream!Bundled(<<slot0>>)
    BY DEF Stream!Bundled
  <2>4. CASE new = <<slot0>>
    BY <2>2, <2>3, <2>4 DEF new
  <2>5. CASE new = <<slot0, slot1>> /\ MayFollow(slot0, slot1)
    <3>1. Stream!Bundled(<<slot0, slot1>>)
      BY <1>3, <2>5
    <3> QED BY <2>2, <2>5, <3>1 DEF new
  <2> QED BY <2>1, <2>4, <2>5
<1>5. CASE Len(left) = 1
  <2>1. new = <<>> \/ (new = <<slot0>> /\ MayFollow(left[1], slot0))
    BY <1>5 DEF Delivered, slot0
  <2> HIDE DEF new
  <2>2. left = <<left[1]>>
    BY <1>5
  <2>3. CASE new = <<>>
    <3>1. left \o new = left
      BY <2>3
    <3> QED BY <1>5, <3>1 DEF new
  <2>4. CASE new = <<slot0>> /\ MayFollow(left[1], slot0)
    <3>1. left \o new = <<left[1], slot0>>
      <4>1. PICK a : a = left[1]
        OBVIOUS
      <4>2. left = <<a>> /\ new = <<slot0>>
        BY <2>2, <2>4, <4>1
      <4>3. left \o new = <<a, slot0>>
        BY ONLY <4>2, OneAndOne
      <4> QED BY ONLY <4>1, <4>3
    <3>2. Stream!Bundled(<<left[1], slot0>>)
      BY <1>3, <2>4
    <3> QED BY <3>1, <3>2 DEF new
  <2> QED BY <2>1, <2>3, <2>4
<1> QED BY <1>4, <1>5

\* Stores are the only writes, and the history keeps what they replace.
LEMMA HistoryGrows ==
  ASSUME TypeOK, NEW hit, NEW miss, NEW store,
         ICache(pc_out, hit, miss, FALSE, store)
  PROVE  Stream!Writes
<1>1. \A h \in Half : code'[h] = Snooped(store)[h] /\ since'[h] = since[h] \cup {Snooped(store)[h]}
  BY DEF ICache, Snooped
<1> QED BY <1>1 DEF Stream!Writes, Stream!Half, Half

\* A concatenation comes apart where it was put together.
LEMMA SplitAgain ==
  ASSUME NEW S, NEW s \in Seq(S), NEW t \in Seq(S)
  PROVE  /\ SubSeq(s \o t, 1, Len(s)) = s
         /\ SubSeq(s \o t, Len(s) + 1, Len(s \o t)) = t
         /\ Len(s) <= Len(s \o t)
<1>0. PICK st : st = s \o t
  OBVIOUS
<1>1. /\ st \in Seq(S) /\ Len(st) = Len(s) + Len(t) /\ Len(s) \in Nat /\ Len(t) \in Nat
      /\ \A i \in 1 .. Len(s) + Len(t) : st[i] = IF i <= Len(s) THEN s[i] ELSE t[i - Len(s)]
  BY <1>0, ConcatProperties
<1> DEFINE a == SubSeq(st, 1, Len(s))
           b == SubSeq(st, Len(s) + 1, Len(st))
<1>2. /\ a \in Seq(S) /\ Len(a) = Len(s) /\ \A i \in 1 .. Len(s) : a[i] = st[i]
  BY <1>1
<1>3. /\ b \in Seq(S) /\ Len(b) = Len(t) /\ \A i \in 1 .. Len(t) : b[i] = st[i + Len(s)]
  BY <1>1
<1> HIDE DEF a, b
<1>4. a = s
  BY <1>1, <1>2, SeqEqual
<1>5. b = t
  <2>1. \A i \in 1 .. Len(t) : b[i] = t[i]
    <3> SUFFICES ASSUME NEW i \in 1 .. Len(t) PROVE b[i] = t[i]
      OBVIOUS
    <3>1. i + Len(s) \in 1 .. Len(s) + Len(t) /\ ~(i + Len(s) <= Len(s)) /\ i + Len(s) - Len(s) = i
      BY <1>1
    <3> QED BY <1>1, <1>3, <3>1
  <2> QED BY <1>3, <2>1, SeqEqual
<1> QED BY <1>0, <1>1, <1>4, <1>5 DEF a, b

\* A cycle without a redirect is a delivery.
LEMMA RunDelivers ==
  ASSUME TypeOK, NoStaleCode, QueueBundled, Run
  PROVE  Stream!Deliver
<1> PICK d \in 0 .. Len(queue), store \in Patches \cup {<<>>},
         p0 \in Predictions(parcel0), p1 \in Predictions(parcel1) :
           Cycle(d, NoTarget, FALSE, store, p0, p1)
  BY DEF Run
<1> DEFINE left    == AfterDispatch(d)
           request == fetch_request(left, NoTarget)
           hit     == request /\ slot0_ready
           miss    == request /\ ~hit_raw
           stall   == pc_stall(hit, miss)
           new     == IF hit /\ ~stall THEN Delivered(left, p0, p1) ELSE <<>>
<1>1. /\ ICache(pc_out, hit, miss, FALSE, store)
      /\ pc_out' = NextPc(stall, NoTarget, new)
      /\ redirect_pending' = NextPending(stall, NoTarget)
      /\ queue' = IF pending THEN <<>> ELSE left \o new
      /\ told' = NoTarget
  BY DEF Cycle
<1>2. Stream!Writes /\ told' = NoTarget
  BY <1>1, HistoryGrows
<1>3. /\ left \in Seq(Instruction) /\ Len(left) <= 2 /\ Stream!Bundled(left)
      /\ left = SubSeq(queue, d + 1, Len(queue))
  BY LeftOver DEF AfterDispatch
<1>4. p0 \in Half \cup {NoTarget} /\ p1 \in Half \cup {NoTarget}
  BY FetchAssumption DEF Predictions
<1>5. CASE pending
  <2>1. new = <<>> /\ queue' = <<>>
    BY <1>1, <1>5 DEF fetch_request
  <2>2. (Expect)' = Expect
    BY <1>1, <1>5, FetchAssumption DEF Expect, pending, NextPc, NextPending
  <2>3. Len(queue) \in 0 .. Len(queue)
    BY DEF TypeOK
  <2>4. SubSeq(queue, Len(queue) + 1, Len(queue)) = <<>>
    BY DEF TypeOK
  <2>5. Stream!Bundled(<<>>) /\ Stream!FollowsFrom(<<>>, Expect)
    BY DEF Stream!Bundled, Stream!FollowsFrom
  <2> HIDE DEF left, new
  <2>6. PICK kept : kept = SubSeq(queue, Len(queue) + 1, Len(queue))
    OBVIOUS
  <2>7. kept = <<>> /\ SubSeq(queue', 1, Len(kept)) = kept
        /\ SubSeq(queue', Len(kept) + 1, Len(queue')) = <<>>
        /\ Len(kept) <= Len(queue') /\ Len(queue') <= 2
    BY <2>1, <2>4, <2>6
  <2> QED BY <1>2, <2>1, <2>2, <2>3, <2>5, <2>6, <2>7 DEF Stream!Deliver, Expect
<1>6. CASE ~pending
  <2>1. queue' = left \o new
    BY <1>1, <1>6
  <2>2. new \in Seq(Instruction) /\ Stream!FollowsFrom(new, pc_out)
    <3>1. Delivered(left, p0, p1) \in Seq(Instruction)
      BY <1>4, DeliveredType
    <3>2. Stream!FollowsFrom(<<>>, pc_out)
      BY DEF Stream!FollowsFrom
    <3>3. hit => Stream!FollowsFrom(Delivered(left, p0, p1), pc_out)
      BY DeliveredFollows
    <3> QED BY <3>1, <3>2, <3>3
  <2>3. Stream!Bundled(left \o new) /\ Len(left \o new) <= 2
    <3>1. CASE new = <<>>
      <4> HIDE DEF new, left
      <4>1. left \o new = left
        <5>1. left \o <<>> = left
          BY ONLY <1>3, AndNothing
        <5> QED BY ONLY <5>1, <3>1
      <4> QED BY <1>3, <4>1
    <3>2. CASE new # <<>>
      <4>1. request /\ new = Delivered(left, p0, p1)
        BY <3>2
      <4>2. left = <<>> \/ Len(left) = 1
        BY <4>1 DEF fetch_request
      <4> QED BY <1>3, <4>1, <4>2, DeliveredBundles
    <3> QED BY <3>1, <3>2
  <2>4. (Expect)' = IF new = <<>> THEN Expect ELSE new[Len(new)].next
    <3>1. redirect_pending' = NoTarget
      BY <1>1, <1>6 DEF NextPending, pending
    <3>2. pc_out' = IF new = <<>> THEN pc_out ELSE new[Len(new)].next
      <4>1. stall => new = <<>>
        OBVIOUS
      <4> HIDE DEF new, stall
      <4> QED BY <1>1, <1>6, <4>1 DEF NextPc
    <3> QED BY <1>6, <3>1, <3>2 DEF Expect, pending
  <2> HIDE DEF new, left
  <2>5. /\ SubSeq(queue', 1, Len(left)) = left
        /\ SubSeq(queue', Len(left) + 1, Len(queue')) = new
        /\ Len(left) <= Len(queue')
    <3>1. PICK st : st = queue'
      OBVIOUS
    <3>2. st = left \o new
      BY <2>1, <3>1
    <3>3. /\ SubSeq(st, 1, Len(left)) = left
          /\ SubSeq(st, Len(left) + 1, Len(st)) = new
          /\ Len(left) <= Len(st)
      <4>1. left \in Seq(Instruction) /\ new \in Seq(Instruction)
        BY ONLY <1>3, <2>2
      <4>2. PICK s, t : s = left /\ t = new
        OBVIOUS
      <4>3. s \in Seq(Instruction) /\ t \in Seq(Instruction) /\ st = s \o t
        BY ONLY <4>1, <4>2, <3>2
      <4>4. /\ SubSeq(st, 1, Len(s)) = s
            /\ SubSeq(st, Len(s) + 1, Len(st)) = t
            /\ Len(s) <= Len(st)
        <5>1. /\ SubSeq(s \o t, 1, Len(s)) = s
              /\ SubSeq(s \o t, Len(s) + 1, Len(s \o t)) = t
              /\ Len(s) <= Len(s \o t)
          BY ONLY <4>3, SplitAgain, Zenon
        <5> QED BY ONLY <5>1, <4>3, Zenon
      <4> QED BY ONLY <4>2, <4>4
    <3> QED BY ONLY <3>1, <3>3
  <2>6. Expect = pc_out
    BY <1>6 DEF Expect
  <2> QED
    BY <1>2, <1>3, <2>1, <2>2, <2>3, <2>4, <2>5, <2>6 DEF Stream!Deliver, Expect
<1> QED BY <1>5, <1>6

\* A redirect empties the queue, and the next instruction comes from its
\* target, at once or when the refill it met is over.
LEMMA CycleRedirects ==
  ASSUME TypeOK, NEW d, NEW redirect \in Targets, NEW invalidate, NEW store, NEW p0, NEW p1,
         Cycle(d, redirect, invalidate, store, p0, p1)
  PROVE  /\ told' \in Stream!Half /\ queue' = <<>> /\ (Expect)' = told'
<1>1. redirect \in Half /\ redirect # NoTarget
  BY FetchAssumption
<1>2. told' = redirect /\ queue' = <<>>
  BY <1>1 DEF Cycle
<1>3. \E stall, new : /\ pc_out' = NextPc(stall, redirect, new)
                      /\ redirect_pending' = NextPending(stall, redirect)
  BY DEF Cycle
<1>4. (Expect)' = redirect
  BY <1>1, <1>3 DEF Expect, pending, NextPc, NextPending
<1> QED BY <1>1, <1>2, <1>4 DEF Half, Stream!Half

LEMMA RedirectIsAbstract ==
  ASSUME TypeOK, Redirect
  PROVE  Stream!Redirect
<1> PICK d \in 0 .. Len(queue), store \in Patches \cup {<<>>}, t \in Targets :
           Cycle(d, t, FALSE, store, NoTarget, NoTarget)
  BY DEF Redirect
<1>1. \E hit, miss : ICache(pc_out, hit, miss, FALSE, store)
  BY DEF Cycle
<1>2. Stream!Writes
  BY <1>1, HistoryGrows
<1> QED BY <1>2, CycleRedirects DEF Stream!Redirect, Expect

LEMMA FenceIIsAbstract ==
  ASSUME TypeOK, FenceI
  PROVE  Stream!FenceI
<1> PICK d \in 0 .. Len(queue), t \in Targets :
           Cycle(d, t, TRUE, <<>>, NoTarget, NoTarget)
  BY DEF FenceI
<1>1. \E hit, miss : ICache(pc_out, hit, miss, TRUE, <<>>)
  BY DEF Cycle
<1>2. Snooped(<<>>) = code
  BY DEF TypeOK, ICacheTypeOK, Snooped
<1>3. code' = code /\ since' = [h \in Stream!Half |-> {code[h]}]
  BY <1>1, <1>2 DEF ICache, Half, Stream!Half
<1> QED BY <1>3, CycleRedirects DEF Stream!FenceI, Expect

\* Every step of the stream leaves a bundle in the queue.
LEMMA StreamBundles == Stream!Next => QueueBundled'
<1>1. queue' = <<>> => Stream!Bundled(queue')
  BY DEF Stream!Bundled
<1>2. Stream!Bundled(queue') => QueueBundled'
  BY DEF QueueBundled, Stream!Bundled, Stream!IsControl
<1> QED BY <1>1, <1>2 DEF Stream!Next, Stream!Deliver, Stream!Redirect, Stream!FenceI

\* For every size of memory, line and cache, every program, every prediction
\* and every pattern of redirects, stores and fence.i: what fetch delivers is
\* the stream of predicted instructions, without a gap or a repetition, made
\* of code that fence.i has not declared old, and bundled as dispatch needs.
THEOREM FetchImplementsStream == Spec => ImplementsFetchPath
<1>1. Init => Stream!Init /\ QueueBundled
  BY DEF Init, ICacheInit, Stream!Init, Half, Stream!Half, QueueBundled, Stream!Bundled, pending
<1>2. TypeOK /\ NoStaleCode /\ QueueBundled /\ Next => Stream!Next
  BY RunDelivers, RedirectIsAbstract, FenceIIsAbstract DEF Next, Stream!Next
<1>3. TypeOK /\ NoStaleCode /\ QueueBundled /\ [Next]_vars => QueueBundled'
  <2>1. UNCHANGED vars /\ QueueBundled => QueueBundled'
    BY DEF vars, QueueBundled, Stream!Bundled, Stream!IsControl
  <2> QED BY <1>2, <2>1, StreamBundles
<1>4. TypeOK /\ NoStaleCode /\ QueueBundled /\ [Next]_vars
        => [Stream!Next]_<<code, since, queue, Expect, told>>
  <2>1. UNCHANGED vars => UNCHANGED <<code, since, queue, Expect, told>>
    BY DEF vars, icacheVars, Expect, pending
  <2> QED BY <1>2, <2>1
<1> QED
  BY <1>1, <1>3, <1>4, FetchTypeCorrect, FetchNoStaleCode, PTL
  DEF Spec, ImplementsFetchPath, Stream!Spec, Expect

-----------------------------------------------------------------------------
(* How long the queue can stay empty.                                      *)

\* The line after the one at the program counter has been read.
AheadNext == ahead.line = NextLine(LineOf(pc_out))

\* The longest the queue can have been empty, by what fetch still waits for:
\* nothing, the refill, the miss, or the second word of a straddling
\* instruction.
WaitBound ==
  IF pending THEN 0
  ELSE IF update THEN 2
  ELSE IF ~hit_raw THEN 1
  ELSE IF slot0_ready THEN 3
  ELSE IF AheadNext THEN 2 ELSE 1

WaitInv ==
  /\ pending => ~update
  /\ update => AheadNext
  /\ idle <= WaitBound

\* Every set of numbers has a least one.
LEMMA SetHasMin ==
  ASSUME NEW T \in SUBSET Nat, T # {}
  PROVE  \E x \in T : \A y \in T : x <= y
<1> DEFINE R == OpToRel(<, Nat)
<1>1. IsWellFoundedOn(R, Nat)
  BY NatLessThanWellFounded
<1>2. PICK x \in T : \A y \in T : ~ (<<y, x>> \in R)
  <2> HIDE DEF R
  <2> QED BY <1>1, WFMin
<1>3. \A y \in T : <<y, x>> \in R <=> y < x
  BY DEF OpToRel
<1>4. \A y \in T : ~ (y < x)
  <2> HIDE DEF R
  <2> QED BY <1>2, <1>3, Zenon
<1> HIDE DEF R
<1> QED BY <1>4

\* The way to be filled is a way of the cache.
LEMMA VictimsAreWays == Victims \subseteq Way
<1> DEFINE invalid == {y \in Way : tags[y] = NoLine}
<1>1. CASE invalid = {}
  BY <1>1 DEF Victims
<1>2. CASE invalid # {}
  <2>1. invalid \in SUBSET Nat
    BY InstructionCacheAssumption DEF Way
  <2>2. \E y \in invalid : \A z \in invalid : y <= z
    <3> HIDE DEF invalid
    <3> QED BY <1>2, <2>1, SetHasMin
  <2>3. (CHOOSE y \in invalid : \A z \in invalid : y <= z) \in invalid
    <3> HIDE DEF invalid
    <3> QED BY <2>2
  <2> QED BY <1>2, <2>3 DEF Victims
<1> QED BY <1>1, <1>2

\* A line refilled, promoted or found in the cache is in the cache after.
LEMMA LineStays ==
  ASSUME TypeOK, NEW hit, NEW miss, NEW store, ICache(pc_out, hit, miss, FALSE, store),
         pc_out' = pc_out, update \/ hit_raw
  PROVE  hit_raw' /\ prefetch' = ahead
<1> DEFINE l == LineOf(pc_out)
<1>1. PICK y \in Victims : NextWays(pc_out, y, FALSE)
  BY DEF ICache
<1>2. y \in Way /\ tags \in [Way -> Line \cup {NoLine}]
  BY <1>1, VictimsAreWays DEF TypeOK, ICacheTypeOK
<1>3. \E z \in Way : tags'[z] = l
  <2>1. CASE update \/ prefetch_only_hit(pc_out)
    BY <1>1, <1>2, <2>1 DEF NextWays
  <2>2. CASE ~(update \/ prefetch_only_hit(pc_out))
    BY <1>1, <2>2 DEF NextWays, prefetch_only_hit, hit_raw, Present, cache_hit, WaysOf
  <2> QED BY <2>1, <2>2
<1>4. l' = l
  BY DEF LineOf, Wrap
<1>5. hit_raw'
  BY <1>3, <1>4 DEF hit_raw, Present, cache_hit, WaysOf
<1>6. prefetch_refresh(pc_out)
  BY DEF prefetch_refresh, prefetch_only_hit, hit_raw, Present
<1> QED BY <1>5, <1>6 DEF ICache, NextPrefetch

\* With the line after it in the prefetch buffer, a line in the cache is
\* enough for whatever starts in it.
LEMMA BothLinesThere ==
  ASSUME TypeOK, pc_out' = pc_out, hit_raw', prefetch' = ahead, AheadNext
  PROVE  slot0_ready'
<1>1. pc_out \in Half
  BY DEF TypeOK
<1>2. LineOf(pc_out + 2) \in {LineOf(pc_out), NextLine(LineOf(pc_out))}
  BY <1>1, NextWordLine
<1>3. /\ LineOf(pc_out)' = LineOf(pc_out)
      /\ LineOf(pc_out + 2)' = LineOf(pc_out + 2)
  BY DEF LineOf, Wrap
<1>4. Present(LineOf(pc_out))'
  BY DEF hit_raw
<1>5. CASE LineOf(pc_out + 2) = LineOf(pc_out)
  <2>1. next_valid'
    BY <1>3, <1>4, <1>5 DEF next_valid, Present, cache_hit, prefetch_hit, WaysOf
  <2> QED BY <2>1 DEF slot0_ready
<1>6. CASE LineOf(pc_out + 2) = NextLine(LineOf(pc_out))
  <2>1. next_valid'
    BY <1>3, <1>6 DEF next_valid, Present, prefetch_hit, AheadNext
  <2> QED BY <2>1 DEF slot0_ready
<1> QED BY <1>2, <1>5, <1>6

\* A redirect starts the wait anew; it meets no miss.
LEMMA RedirectWaits ==
  ASSUME TypeOK, WaitInv, NEW d, NEW redirect \in Targets, NEW invalidate, NEW store, NEW p0, NEW p1,
         Cycle(d, redirect, invalidate, store, p0, p1)
  PROVE  WaitInv'
<1>1. redirect # NoTarget
  BY FetchAssumption
<1>2. ~update' /\ idle' = 0
  BY <1>1 DEF Cycle, ICache, NextFsm, update, fetch_request
<1> QED BY <1>2 DEF WaitInv, WaitBound

\* A cycle without a redirect brings the next instruction nearer.
LEMMA RunWaits ==
  ASSUME TypeOK, WaitInv, Run
  PROVE  WaitInv'
<1> PICK d \in 0 .. Len(queue), store \in Patches \cup {<<>>},
         p0 \in Predictions(parcel0), p1 \in Predictions(parcel1) :
           Cycle(d, NoTarget, FALSE, store, p0, p1)
  BY DEF Run
<1> DEFINE left    == AfterDispatch(d)
           request == fetch_request(left, NoTarget)
           hit     == request /\ slot0_ready
           miss    == request /\ ~hit_raw
           stall   == pc_stall(hit, miss)
           new     == IF hit /\ ~stall THEN Delivered(left, p0, p1) ELSE <<>>
<1>1. /\ ICache(pc_out, hit, miss, FALSE, store)
      /\ pc_out' = NextPc(stall, NoTarget, new)
      /\ redirect_pending' = NextPending(stall, NoTarget)
      /\ queue' = IF pending THEN <<>> ELSE left \o new
      /\ idle' = IF queue' = <<>> THEN idle + 1 ELSE 0
  BY DEF Cycle
<1>2. update' <=> ~update /\ ~hit /\ miss
  BY <1>1 DEF ICache, NextFsm, update
<1>3. ~pending'
  BY <1>1 DEF NextPending, pending, pc_stall, fetch_request, WaitInv
<1>4. ahead'.line = NextLine(LineOf(pc_out))
  BY <1>1 DEF ICache, LineRead
<1>5. pc_out' = pc_out => AheadNext'
  <2> SUFFICES ASSUME pc_out' = pc_out PROVE AheadNext'
    OBVIOUS
  <2>1. LineOf(pc_out)' = LineOf(pc_out)
    BY DEF LineOf, Wrap
  <2> QED BY <1>4, <2>1 DEF AheadNext, NextLine
<1>6. stall => pc_out' = pc_out
  BY <1>1 DEF NextPc
<1>7. update' => AheadNext'
  BY <1>2, <1>5, <1>6 DEF pc_stall
<1>8. idle \in Nat /\ idle <= WaitBound
  BY DEF TypeOK, WaitInv
<1>9. idle' <= WaitBound'
  <2>1. CASE idle' = 0
    BY <2>1 DEF WaitBound
  <2>2. CASE idle' = idle + 1 /\ pending
    BY <1>3, <1>8, <2>2 DEF WaitBound
  <2>3. CASE idle' # 0 /\ ~pending
    <3>1. left \o new = <<>> /\ idle' = idle + 1
      BY <1>1, <2>3
    <3>2. left = <<>> /\ new = <<>>
      <4>1. left \in Seq(Instruction)
        BY DEF AfterDispatch, TypeOK
      <4>2. p0 \in Half \cup {NoTarget} /\ p1 \in Half \cup {NoTarget}
        BY FetchAssumption DEF Predictions
      <4>3. new \in Seq(Instruction)
        <5>1. Delivered(left, p0, p1) \in Seq(Instruction)
          BY <4>2, DeliveredType
        <5> QED BY <5>1
      <4> HIDE DEF left, new
      <4>4. Len(left \o new) = Len(left) + Len(new) /\ Len(left) \in Nat /\ Len(new) \in Nat
        BY <4>1, <4>3
      <4>5. Len(left) = 0 /\ Len(new) = 0
        BY <3>1, <4>4
      <4> QED BY <4>1, <4>3, <4>5
    <3>3. request
      BY <2>3, <3>2 DEF fetch_request
    <3>4. Delivered(left, p0, p1) # <<>>
      BY <3>2 DEF Delivered
    <3>5. update \/ ~slot0_ready
      BY <3>2, <3>3, <3>4 DEF pc_stall
    <3>6. CASE update
      <4>1. idle <= 2 /\ ~update' /\ pc_out' = pc_out
        BY <1>2, <1>6, <1>8, <2>3, <3>6 DEF WaitBound, pc_stall
      <4>2. hit_raw' /\ prefetch' = ahead
        BY <1>1, <3>6, <4>1, LineStays
      <4>3. slot0_ready'
        BY <3>6, <4>1, <4>2, BothLinesThere DEF WaitInv
      <4> QED BY <1>3, <1>8, <3>1, <4>1, <4>2, <4>3 DEF WaitBound
    <3>7. CASE ~update /\ ~hit_raw
      <4>1. idle <= 1 /\ update'
        BY <1>2, <1>8, <2>3, <3>3, <3>7 DEF WaitBound, slot0_ready
      <4> QED BY <1>3, <1>8, <3>1, <4>1 DEF WaitBound
    <3>8. CASE ~update /\ hit_raw
      <4>1. ~slot0_ready /\ ~update' /\ pc_out' = pc_out
        BY <1>1, <1>2, <2>3, <3>2, <3>5, <3>8 DEF pc_stall, NextPc
      <4>2. hit_raw' /\ prefetch' = ahead /\ AheadNext'
        BY <1>1, <1>5, <3>8, <4>1, LineStays
      <4>3. CASE AheadNext
        <5>1. slot0_ready'
          BY <4>1, <4>2, <4>3, BothLinesThere
        <5>2. idle <= 2
          BY <1>8, <2>3, <3>8, <4>1, <4>3 DEF WaitBound
        <5> QED BY <1>3, <1>8, <3>1, <4>1, <4>2, <5>1, <5>2 DEF WaitBound
      <4>4. CASE ~AheadNext
        <5>1. idle <= 1
          BY <1>8, <2>3, <3>8, <4>1, <4>4 DEF WaitBound
        <5> QED BY <1>3, <1>8, <3>1, <4>1, <4>2, <5>1 DEF WaitBound
      <4> QED BY <4>3, <4>4
    <3> QED BY <3>6, <3>7, <3>8
  <2> QED BY <1>1, <2>1, <2>2, <2>3
<1> QED BY <1>3, <1>7, <1>9 DEF WaitInv

\* The queue is empty for at most three cycles without a redirect: a cycle to
\* notice a miss and one to refill (cachefsm.sv:16), and the one a redirect
\* waited.  No order of misses, straddling instructions, promotions and
\* redirects makes a program wait longer, for every size of line and cache.
THEOREM FetchWaitIsBounded == Spec => []FetchWaitBounded
<1>1. Init => WaitInv
  BY DEF Init, ICacheInit, WaitInv, WaitBound, pending, update
<1>2. TypeOK /\ WaitInv /\ [Next]_vars => WaitInv'
  <2> SUFFICES ASSUME TypeOK, WaitInv, [Next]_vars PROVE WaitInv'
    OBVIOUS
  <2>1. CASE Run
    BY <2>1, RunWaits
  <2>2. CASE Redirect
    BY <2>2, RedirectWaits DEF Redirect
  <2>3. CASE FenceI
    BY <2>3, RedirectWaits DEF FenceI
  <2>4. CASE UNCHANGED vars
    BY <2>4 DEF vars, icacheVars, WaitInv, WaitBound, AheadNext, pending, update, hit_raw,
       slot0_ready, requires_next_word, next_valid, parcel0, Fetched, Present, cache_hit,
       prefetch_hit, WaysOf, LineOf, Wrap, NextLine
  <2> QED BY <2>1, <2>2, <2>3, <2>4 DEF Next
<1>3. TypeOK /\ WaitInv => FetchWaitBounded
  BY DEF TypeOK, WaitInv, WaitBound, FetchWaitBounded, FETCH_WAIT
<1> QED BY <1>1, <1>2, <1>3, FetchTypeCorrect, PTL DEF Spec

=============================================================================
