---------------------- MODULE BlockSpaceManagerProofs ----------------------
(***************************************************************************)
(* Lemmas about the operations of the block manager, cited by the proofs   *)
(* about the engine.  The first part: what an operation leaves behind is a *)
(* block manager again (its type).                                         *)
(***************************************************************************)
EXTENDS BlockSpaceManager, FiniteSetTheorems, SequenceTheorems, TLAPS

LEMMA BlocksAreFinite == IsFiniteSet(Block) /\ IsFiniteSet(GpuBlock) /\ IsFiniteSet(SeqId)
  BY BlockAssumption, FS_Union DEF Block

LEMMA WatermarkNat == WatermarkBlocks \in Nat
  <1>1. Cardinality(GpuBlock) \in Nat /\ Watermark \in Nat
    BY BlockAssumption, FS_CardinalityType
  <1>2. Watermark * Cardinality(GpuBlock) \in Nat
    BY <1>1
  <1> QED  BY <1>2 DEF WatermarkBlocks

LEMMA FreeBlocksType ==
  ASSUME NEW c \in BlockManagers, NEW n \in [Block -> Nat]
  PROVE  FreeBlocks(c, n) \in BlockManagers
  <1>1. CASE \E b \in Block : n[b] > c.ref[b]
    BY <1>1 DEF FreeBlocks, Raise, BlockManagers, Errors
  <1>2. CASE ~ \E b \in Block : n[b] > c.ref[b]
    <2>1. [b \in Block |-> c.ref[b] - n[b]] \in [Block -> Nat]
      BY <1>2 DEF BlockManagers
    <2> QED  BY <1>2, <2>1 DEF FreeBlocks, BlockManagers
  <1> QED  BY <1>1, <1>2

LEMMA FreeType ==
  ASSUME NEW c \in BlockManagers, NEW ss \in SUBSET SeqId
  PROVE  Free(c, ss) \subseteq BlockManagers
  <1> DEFINE held  == [b \in Block |-> Cardinality({s \in ss : b \in Range(c.tables[s])})]
             freed == FreeBlocks(c, held)
  <1>1. \A b \in Block : Cardinality({s \in ss : b \in Range(c.tables[s])}) \in Nat
    BY BlocksAreFinite, FS_Subset, FS_CardinalityType
  <1>2. held \in [Block -> Nat]
    BY <1>1
  <1> HIDE DEF held
  <1>3. freed \in BlockManagers
    BY <1>2, FreeBlocksType
  <1> HIDE DEF freed
  <1>4. <<>> \in Seq(Block)
    BY EmptySeq
  <1>5. [s \in SeqId |-> IF s \in ss THEN <<>> ELSE c.tables[s]] \in [SeqId -> Seq(Block)]
    BY <1>4 DEF BlockManagers
  <1>6. [freed EXCEPT !.tables = [s \in SeqId |-> IF s \in ss THEN <<>> ELSE c.tables[s]]]
          \in BlockManagers
    BY <1>3, <1>5 DEF BlockManagers
  <1> QED  BY <1>6 DEF Free, held, freed

LEMMA ExceptType ==
  ASSUME NEW S, NEW q \in Seq(S), NEW i, NEW e \in S
  PROVE  [q EXCEPT ![i] = e] \in Seq(S)
  <1>1. q \in [1 .. Len(q) -> S] /\ Len(q) \in Nat
    BY LenProperties
  <1>2. [q EXCEPT ![i] = e] \in [1 .. Len(q) -> S]
    BY <1>1
  <1> QED  BY <1>1, <1>2, SeqDef

(* The table append_slot works on is a table, unless the new slot needs a  *)
(* new block, when it is not used.                                         *)
LEMMA ReusedType ==
  ASSUME NEW t \in Seq(Block), NEW n \in Nat, ~NeedsNewBlock(t, n)
  PROVE  Reused(t, n) \in Seq(Block)
  <1>1. CASE Len(t) < n
    <2>1. BlockSlidingWindow > 0 /\ Len(t) >= BlockSlidingWindow
      BY <1>1 DEF NeedsNewBlock
    <2>2. Len(t) % BlockSlidingWindow \in 0 .. BlockSlidingWindow - 1
      BY <2>1, BlockAssumption
    <2>3. (Len(t) % BlockSlidingWindow) + 1 \in 1 .. Len(t)
      BY <2>1, <2>2, BlockAssumption
    <2>4. t[(Len(t) % BlockSlidingWindow) + 1] \in Block
      BY <2>3, ElementOfSeq
    <2> QED  BY <1>1, <2>4, AppendProperties DEF Reused
  <1>2. CASE ~(Len(t) < n)
    BY <1>2 DEF Reused
  <1> QED  BY <1>1, <1>2

LEMMA AppendSlotType ==
  ASSUME NEW c \in BlockManagers, NEW s \in SeqId, NEW n \in Nat
  PROVE  AppendSlot(c, s, n) \subseteq BlockManagers
  <1> DEFINE t == c.tables[s]
             u == Reused(t, n)
             Take(b, table) ==
               [c EXCEPT !.gpu = c.gpu \ {b}, !.ref = [c.ref EXCEPT ![b] = 1],
                         !.tables = [c.tables EXCEPT ![s] = table]]
             last == u[Len(u)]
             one  == [b \in Block |-> IF b = last THEN 1 ELSE 0]
  <1>1. t \in Seq(Block)
    BY DEF BlockManagers
  <1>2. ASSUME NEW b \in c.gpu, NEW table \in Seq(Block)
        PROVE  Take(b, table) \in BlockManagers
    <2>1. b \in Block
      BY <1>2 DEF BlockManagers, Block
    <2>2. [c.ref EXCEPT ![b] = 1] \in [Block -> Nat]
      BY <2>1 DEF BlockManagers
    <2>3. [c.tables EXCEPT ![s] = table] \in [SeqId -> Seq(Block)]
      BY DEF BlockManagers
    <2> QED  BY <2>2, <2>3 DEF BlockManagers
  <1>3. one \in [Block -> Nat]
    OBVIOUS
  <1>4. CASE NeedsNewBlock(t, n)
    <2>1. \A b \in c.gpu : Append(t, b) \in Seq(Block)
      BY <1>1, AppendProperties DEF BlockManagers, Block
    <2>2. \A b \in c.gpu : Take(b, Append(t, b)) \in BlockManagers
      BY <1>2, <2>1
    <2>3. CASE c.gpu = {}
      BY <1>4, <2>3 DEF AppendSlot, Raise, BlockManagers, Errors
    <2>4. CASE c.gpu # {}
      <3>1. AppendSlot(c, s, n) = {Take(b, Append(t, b)) : b \in c.gpu}
        BY <1>4, <2>4 DEF AppendSlot
      <3> QED  BY <2>2, <3>1
    <2> QED  BY <2>3, <2>4
  <1>5. CASE ~NeedsNewBlock(t, n) /\ ~NeedsCopy(c, s, n)
    <2>1. u \in Seq(Block)
      BY <1>1, <1>5, ReusedType
    <2>2. [c EXCEPT !.tables = [c.tables EXCEPT ![s] = u]] \in BlockManagers
      BY <2>1 DEF BlockManagers
    <2>3. AppendSlot(c, s, n) = {[c EXCEPT !.tables = [c.tables EXCEPT ![s] = u]]}
      BY <1>5 DEF AppendSlot
    <2> QED  BY <2>2, <2>3
  <1>6. CASE ~NeedsNewBlock(t, n) /\ NeedsCopy(c, s, n)
    <2>1. u \in Seq(Block)
      BY <1>1, <1>6, ReusedType
    <2>2. \A b \in c.gpu : [u EXCEPT ![Len(u)] = b] \in Seq(Block)
      BY <2>1, ExceptType DEF BlockManagers, Block
    <2>3. \A b \in c.gpu :
            FreeBlocks(Take(b, [u EXCEPT ![Len(u)] = b]), one) \in BlockManagers
      BY <1>2, <1>3, <2>2, FreeBlocksType
    <2>4. CASE c.gpu = {}
      BY <1>6, <2>4 DEF AppendSlot, Raise, BlockManagers, Errors
    <2>5. CASE c.gpu # {}
      <3>1. AppendSlot(c, s, n) =
              {FreeBlocks(Take(b, [u EXCEPT ![Len(u)] = b]), one) : b \in c.gpu}
        BY <1>6, <2>5 DEF AppendSlot
      <3> QED  BY <2>3, <3>1
    <2> QED  BY <2>4, <2>5
  <1> QED  BY <1>4, <1>5, <1>6

-----------------------------------------------------------------------------
LEMMA FunctionIsSeq ==
  ASSUME NEW S, NEW k \in Nat, NEW q \in [1 .. k -> S]
  PROVE  q \in Seq(S) /\ Len(q) = k
  <1>1. q \in Seq(S)
    BY SeqDef
  <1>2. DOMAIN q = 1 .. Len(q) /\ Len(q) \in Nat
    BY <1>1, LenProperties
  <1>3. DOMAIN q = 1 .. k
    OBVIOUS
  <1> QED  BY <1>1, <1>2, <1>3

(* The table of a prompt is a table, also when the window wraps.           *)
LEMMA PromptTableType ==
  ASSUME NEW shared \in Seq(Block), NEW own \in Nat, NEW fresh \in Nat,
         fresh = IF BlockSlidingWindow > 0 /\ own > BlockSlidingWindow
                 THEN BlockSlidingWindow ELSE own,
         NEW new \in [1 .. fresh -> Block]
  PROVE  /\ PromptTable(shared, new, Len(shared) + own) \in Seq(Block)
         /\ Len(PromptTable(shared, new, Len(shared) + own)) = Len(shared) + own
  <1> DEFINE base == shared \o new
             n    == Len(shared) + own
  <1>1. new \in Seq(Block) /\ Len(new) = fresh
    BY FunctionIsSeq
  <1>2. base \in Seq(Block) /\ Len(base) = Len(shared) + fresh /\ Len(shared) \in Nat
    BY <1>1, ConcatProperties, LenProperties
  <1> HIDE DEF base
  <1>3. ASSUME NEW i \in 1 .. n, i <= Len(base)
        PROVE  base[i] \in Block
    BY <1>2, <1>3, ElementOfSeq
  <1>4. ASSUME NEW i \in 1 .. n, ~(i <= Len(base))
        PROVE  base[((i - 1 - Len(shared)) % BlockSlidingWindow) + 1] \in Block
    <2>1. BlockSlidingWindow > 0 /\ fresh = BlockSlidingWindow
      BY <1>2, <1>4, BlockAssumption
    <2>2. (i - 1 - Len(shared)) % BlockSlidingWindow \in 0 .. BlockSlidingWindow - 1
      BY <1>2, <2>1, BlockAssumption
    <2>3. ((i - 1 - Len(shared)) % BlockSlidingWindow) + 1 \in 1 .. Len(base)
      BY <1>2, <2>1, <2>2, BlockAssumption
    <2> QED  BY <1>2, <2>3, ElementOfSeq
  <1>5. PromptTable(shared, new, n) \in [1 .. n -> Block]
    BY <1>3, <1>4 DEF PromptTable, base
  <1>6. n \in Nat
    BY <1>2
  <1> QED  BY <1>5, <1>6, FunctionIsSeq

LEMMA AllocateType ==
  ASSUME NEW c \in BlockManagers, NEW ss \in SUBSET SeqId, NEW ng \in Nat, NEW n \in Nat,
         NEW p \in Prefix \cup {NoPrefix}
  PROVE  Allocate(c, ss, ng, n, p) \subseteq BlockManagers
  <1> DEFINE shared  == IF PrefixAllocated(c, p) THEN c.prefix[p] ELSE <<>>
             own     == IF n > Len(shared) THEN n - Len(shared) ELSE 0
             fresh   == IF BlockSlidingWindow > 0 /\ own > BlockSlidingWindow
                        THEN BlockSlidingWindow ELSE own
             table(new)  == PromptTable(shared, new, Len(shared) + own)
             ownSet(new) == {table(new)[i] : i \in Len(shared) + 1 .. Len(table(new))}
             pinning     == p # NoPrefix /\ ~PrefixAllocated(c, p)
             pinned(new) == IF pinning /\ PrefixLen[p] < n
                            THEN SubSeq(table(new), 1, PrefixLen[p]) ELSE table(new)
             pins(new, b) ==
               IF pinning
               THEN Cardinality({i \in DOMAIN pinned(new) : pinned(new)[i] = b}) ELSE 0
             ref(new) == [b \in Block |->
                            IF b \in ownSet(new) THEN ng + pins(new, b)
                            ELSE IF b \in Range(shared) THEN c.ref[b] + ng ELSE c.ref[b]]
             prefix(new) == [q \in Prefix |-> IF pinning /\ q = p THEN pinned(new)
                                              ELSE c.prefix[q]]
             tables(new) == [s \in SeqId |-> IF s \in ss THEN table(new) ELSE c.tables[s]]
             After(new)  ==
               [c EXCEPT !.gpu = c.gpu \ Range(new), !.ref = ref(new),
                         !.prefix = prefix(new), !.tables = tables(new)]
  <1>1. shared \in Seq(Block) /\ Len(shared) \in Nat
    BY EmptySeq, LenProperties DEF PrefixAllocated, BlockManagers
  <1>2. own \in Nat /\ fresh \in Nat
    BY <1>1, BlockAssumption
  <1>3. CASE fresh > Cardinality(c.gpu)
    BY <1>3 DEF Allocate, Raise, BlockManagers, Errors
  <1>4. CASE ~(fresh > Cardinality(c.gpu))
    <2>1. Allocate(c, ss, ng, n, p) = {After(new) : new \in Popped(c.gpu, fresh)}
      BY <1>4 DEF Allocate
    <2> HIDE DEF After
    <2> SUFFICES ASSUME NEW new \in Popped(c.gpu, fresh)
                 PROVE  After(new) \in BlockManagers
      BY <2>1
    <2>2. new \in [1 .. fresh -> Block]
      BY DEF Popped, Injection, BlockManagers, Block
    <2>3. table(new) \in Seq(Block) /\ Len(table(new)) = Len(shared) + own
      <3> HIDE DEF shared, own
      <3> QED  BY <1>1, <1>2, <2>2, PromptTableType
    <2> HIDE DEF shared, own, fresh, table
    <2>4. pinned(new) \in Seq(Block)
      <3>1. CASE pinning /\ PrefixLen[p] < n
        <4>1. PrefixLen[p] \in Nat
          BY <3>1, BlockAssumption
        <4>2. \A i \in 1 .. PrefixLen[p] : i <= Len(table(new))
          BY <1>1, <1>2, <2>3, <3>1, <4>1 DEF own
        <4>3. \A i \in 1 .. PrefixLen[p] : table(new)[i] \in Block
          BY <1>1, <1>2, <2>3, <4>1, <4>2, ElementOfSeq
        <4>4. SubSeq(table(new), 1, PrefixLen[p]) \in Seq(Block)
          BY <4>1, <4>3, SubSeqProperties
        <4> QED  BY <3>1, <4>4
      <3>2. CASE ~(pinning /\ PrefixLen[p] < n)
        BY <2>3, <3>2
      <3> QED  BY <3>1, <3>2
    <2> HIDE DEF pinned, pinning
    <2>5. \A b \in Block : pins(new, b) \in Nat
      <3>1. IsFiniteSet(DOMAIN pinned(new))
        BY <2>4, LenProperties, FS_Interval
      <3>2. \A b \in Block :
              Cardinality({i \in DOMAIN pinned(new) : pinned(new)[i] = b}) \in Nat
        BY <3>1, FS_Subset, FS_CardinalityType
      <3> QED  BY <3>2
    <2> HIDE DEF pins, ownSet
    <2>6. ref(new) \in [Block -> Nat]
      BY <2>5 DEF BlockManagers
    <2>7. prefix(new) \in [Prefix -> Seq(Block)]
      BY <2>4 DEF BlockManagers
    <2>8. tables(new) \in [SeqId -> Seq(Block)]
      BY <2>3 DEF BlockManagers
    <2> HIDE DEF ref, prefix, tables
    <2> QED  BY <2>6, <2>7, <2>8 DEF BlockManagers, After
  <1> QED  BY <1>3, <1>4

(* The first assumption leaves prefixes out of a swap: no block stays put. *)
LEMMA MovedType ==
  ASSUME NEW c \in BlockManagers, NEW ss \in SUBSET SeqId,
         NEW dev \in SUBSET Block, NEW m \in Injection(BlocksOf(c, ss), dev)
  PROVE  Moved(c, ss, BlocksOf(c, ss), m) \in BlockManagers
  <1> DEFINE moved   == BlocksOf(c, ss)
             kept(t) == IF Range(t) \subseteq moved THEN t
                        ELSE SelectSeq(t, LAMBDA b : b \in moved)
             to(b)   == CHOOSE x \in moved : m[x] = b
             freed   == FreeBlocks(c, [b \in Block |-> Uses(c, ss, b)])
             ref     == [b \in Block |-> IF b \in Range(m) THEN Uses(c, ss, to(b))
                                         ELSE freed.ref[b]]
             tables  == [s \in SeqId |->
                           IF s \in ss
                           THEN [i \in DOMAIN kept(c.tables[s]) |->
                                   m[kept(c.tables[s])[i]]]
                           ELSE c.tables[s]]
  <1>1. \A b : Uses(c, ss, b) \in Nat
    <2> SUFFICES ASSUME NEW b PROVE Uses(c, ss, b) \in Nat
      OBVIOUS
    <2> DEFINE at(s) == {s} \X {i \in DOMAIN c.tables[s] : c.tables[s][i] = b}
    <2>1. \A s \in ss : IsFiniteSet({i \in DOMAIN c.tables[s] : c.tables[s][i] = b})
      <3> SUFFICES ASSUME NEW s \in ss
                   PROVE  IsFiniteSet({i \in DOMAIN c.tables[s] : c.tables[s][i] = b})
        OBVIOUS
      <3>1. c.tables[s] \in Seq(Block)
        BY DEF BlockManagers
      <3>2. IsFiniteSet(DOMAIN c.tables[s])
        BY <3>1, LenProperties, FS_Interval
      <3> QED  BY <3>2, FS_Subset
    <2>2. \A s \in ss : IsFiniteSet(at(s))
      BY <2>1, FS_Singleton, FS_Product
    <2>3. IsFiniteSet({at(s) : s \in ss})
      <3> HIDE DEF at
      <3>1. IsFiniteSet(ss)
        BY BlocksAreFinite, FS_Subset
      <3>2. [s \in ss |-> at(s)] \in Surjection(ss, {at(s) : s \in ss})
        BY DEF Surjection
      <3> QED  BY <3>1, <3>2, FS_Surjection
    <2>4. IsFiniteSet(UNION {at(s) : s \in ss})
      <3>1. \A T \in {at(s) : s \in ss} : IsFiniteSet(T)
        BY <2>2
      <3> QED  BY <2>3, <3>1, FS_UNION
    <2> QED  BY <2>4, FS_CardinalityType DEF Uses
  <1>2. [b \in Block |-> Uses(c, ss, b)] \in [Block -> Nat]
    BY <1>1
  <1>3. freed \in BlockManagers
    BY <1>2, FreeBlocksType
  <1> HIDE DEF freed
  <1>4. ref \in [Block -> Nat]
    BY <1>1, <1>3 DEF BlockManagers
  <1>5. tables \in [SeqId -> Seq(Block)]
    <2> SUFFICES ASSUME NEW s \in ss
                 PROVE  [i \in DOMAIN kept(c.tables[s]) |-> m[kept(c.tables[s])[i]]]
                          \in Seq(Block)
      BY DEF BlockManagers
    <2> DEFINE t == c.tables[s]
    <2>1. t \in Seq(Block)
      BY DEF BlockManagers
    <2>2. Range(t) \subseteq moved
      BY DEF BlocksOf
    <2>3. kept(t) = t
      BY <2>2
    <2>4. \A i \in 1 .. Len(t) : t[i] \in moved
      BY <2>1, <2>2, LenProperties DEF Range
    <2>5. \A i \in 1 .. Len(t) : m[t[i]] \in Block
      BY <2>4 DEF Injection
    <2>6. DOMAIN t = 1 .. Len(t) /\ Len(t) \in Nat
      BY <2>1, LenProperties
    <2>7. [i \in DOMAIN t |-> m[t[i]]] \in [1 .. Len(t) -> Block]
      BY <2>5, <2>6
    <2>8. [i \in DOMAIN t |-> m[t[i]]] \in Seq(Block)
      BY <2>6, <2>7, FunctionIsSeq
    <2> QED  BY <2>3, <2>8
  <1>6. Moved(c, ss, moved, m) =
          [freed EXCEPT !.gpu = freed.gpu \ Range(m), !.cpu = freed.cpu \ Range(m),
                        !.ref = ref, !.tables = tables]
    BY DEF Moved, freed
  <1> HIDE DEF ref, tables
  <1>7. [freed EXCEPT !.gpu = freed.gpu \ Range(m), !.cpu = freed.cpu \ Range(m),
                      !.ref = ref, !.tables = tables] \in BlockManagers
    BY <1>3, <1>4, <1>5 DEF BlockManagers
  <1> QED  BY <1>6, <1>7

LEMMA SwapType ==
  ASSUME NEW c \in BlockManagers, NEW ss \in SUBSET SeqId
  PROVE  /\ SwapIn(c, ss, NoPrefix) \subseteq BlockManagers
         /\ SwapOut(c, ss, NoPrefix) \subseteq BlockManagers
  <1>1. Raise(c, "OutOfMemory") \in BlockManagers
    BY DEF Raise, BlockManagers, Errors
  <1>2. BlocksOf(c, ss) \ {} = BlocksOf(c, ss)
    OBVIOUS
  <1>3. c.gpu \in SUBSET Block /\ c.cpu \in SUBSET Block
    BY DEF BlockManagers, Block
  <1>4. /\ \A m \in Injection(BlocksOf(c, ss), c.gpu) :
             Moved(c, ss, BlocksOf(c, ss), m) \in BlockManagers
        /\ \A m \in Injection(BlocksOf(c, ss), c.cpu) :
             Moved(c, ss, BlocksOf(c, ss), m) \in BlockManagers
    BY <1>3, MovedType
  <1>5. SwapIn(c, ss, NoPrefix) \subseteq BlockManagers
    BY <1>1, <1>4 DEF SwapIn
  <1>6. SwapOut(c, ss, NoPrefix) \subseteq BlockManagers
    BY <1>1, <1>2, <1>4 DEF SwapOut
  <1> QED  BY <1>5, <1>6
=============================================================================
