----------------------------- MODULE UseProofs -----------------------------
(***************************************************************************)
(* The block manager under every sequence of calls that is Legal: the      *)
(* reference counts are exact and the can_* tests suffice through forks,   *)
(* copies on write and swaps of groups whose tokens have no slots yet, and *)
(* through a sliding window, whose tables list blocks more than once, and  *)
(* with prefixes that several groups share.  Left out are a window with    *)
(* forks, swaps or prefixes, swaps with prefixes, and recomputing a group  *)
(* of which a sequence has finished.  fork() and the swaps go by table     *)
(* entries, free() by distinct blocks, and a table that wraps makes them   *)
(* disagree; a table that wraps into its prefix has the counts of the      *)
(* prefix's blocks overwritten, or a copy made of a block that it goes on  *)
(* listing; swap_in() fails for every group with a prefix; and allocate()  *)
(* counts a group's finished sequences as holders of its blocks.           *)
(***************************************************************************)
EXTENDS BlockManagerUse, BlockSpaceManagerProofs

(* No window, or neither prefixes, forks nor swaps; no prefixes, or no     *)
(* swaps; no recomputation of a group of which a sequence has finished.    *)
PrefixFree == \A g \in Group : PrefixOf[g] = NoPrefix
Legal ==
  /\ BlockSlidingWindow = 0 \/ (PrefixFree /\ ~WithFork /\ ~WithSwap)
  /\ PrefixFree \/ ~WithSwap
  /\ ~RecomputesForks

(* Two positions of a table that a sliding window maps to one block.       *)
SamePlace(i, j) ==
  IF BlockSlidingWindow = 0 THEN i = j
  ELSE (i - 1) % BlockSlidingWindow = (j - 1) % BlockSlidingWindow

Ring(t) == \A i, j \in DOMAIN t : t[i] = t[j] <=> SamePlace(i, j)

(* A prefix has no blocks yet, or all of them, on the GPU and each once.   *)
Whole(t, n) ==
  t = <<>> \/ /\ Len(t) = n /\ Range(t) \subseteq GpuBlock
              /\ \A i, j \in DOMAIN t : t[i] = t[j] => i = j

WholePrefixes(c) == \A p \in Prefix : Whole(c.prefix[p], PrefixLen[p])

(* The accounting.  Two tables share blocks only where there is no window  *)
(* (forks, prefixes).                                                      *)
Counted(c) ==
  /\ c.err = "none"
  /\ \A s \in SeqId : Ring(c.tables[s])
  /\ \A b \in Block : c.ref[b] = Cardinality(Holders(c, b)) + Cardinality(Pins(c, b))
  /\ \A b \in Block : b \in c.gpu \cup c.cpu <=> Holders(c, b) = {} /\ Pins(c, b) = {}
  /\ WholePrefixes(c)
  /\ BlockSlidingWindow > 0 =>
       /\ \A s, q \in SeqId : s # q => Range(c.tables[s]) \cap Range(c.tables[q]) = {}
       /\ \A p \in Prefix : c.prefix[p] = <<>>

-----------------------------------------------------------------------------
LEMMA TableFacts ==
  ASSUME NEW c \in BlockManagers, NEW s \in SeqId
  PROVE  /\ c.tables[s] \in Seq(Block) /\ Len(c.tables[s]) \in Nat
         /\ DOMAIN c.tables[s] = 1 .. Len(c.tables[s])
         /\ Range(c.tables[s]) \subseteq Block
         /\ \A i \in DOMAIN c.tables[s] : c.tables[s][i] \in Block
  <1>1. c.tables[s] \in Seq(Block)
    BY DEF BlockManagers
  <1> QED  BY <1>1, LenProperties, ElementOfSeq DEF Range

LEMMA SeqsAreFinite ==
  ASSUME NEW ss \in SUBSET SeqId
  PROVE  IsFiniteSet(ss) /\ Cardinality(ss) \in Nat /\ (Cardinality(ss) = 0 <=> ss = {})
  BY BlocksAreFinite, FS_Subset, FS_CardinalityType, FS_EmptySet

LEMMA PinFacts ==
  ASSUME NEW c, NEW b
  PROVE  /\ Cardinality(Pins(c, b)) \in Nat
         /\ Cardinality(Pins(c, b)) = 0 <=> Pins(c, b) = {}
  <1>1. IsFiniteSet(Prefix) /\ Pins(c, b) \in SUBSET Prefix
    BY BlockAssumption DEF Pins
  <1> QED  BY <1>1, FS_Subset, FS_CardinalityType, FS_EmptySet

(* Without prefixes that have blocks, a block is counted for its holders.  *)
LEMMA NothingPinned ==
  ASSUME NEW c, \A p \in Prefix : c.prefix[p] = <<>>
  PROVE  /\ \A b : Pins(c, b) = {} /\ Cardinality(Pins(c, b)) = 0
         /\ WholePrefixes(c)
  <1>1. \A b : Pins(c, b) = {}
    BY DEF Pins, Range
  <1> QED  BY <1>1, FS_EmptySet DEF WholePrefixes, Whole

(* The sequences that hold a block, split into those of ss and the others. *)
LEMMA HoldersSplit ==
  ASSUME NEW c, NEW ss \in SUBSET SeqId, NEW b
  PROVE  /\ Holders(c, b) \in SUBSET SeqId
         /\ Cardinality(Holders(c, b)) \in Nat /\ Cardinality(Holders(c, b) \cap ss) \in Nat
         /\ Cardinality(Holders(c, b)) = 0 <=> Holders(c, b) = {}
         /\ Cardinality(Holders(c, b) \cap ss) = 0 <=> Holders(c, b) \cap ss = {}
         /\ Cardinality(Holders(c, b) \ ss)
              = Cardinality(Holders(c, b)) - Cardinality(Holders(c, b) \cap ss)
         /\ Cardinality(Holders(c, b)) = Cardinality(Holders(c, b) \cap ss)
              <=> Holders(c, b) \subseteq ss
  <1> DEFINE H == Holders(c, b)
  <1>1. H \in SUBSET SeqId /\ H \cap ss \in SUBSET SeqId /\ H \ ss \in SUBSET SeqId
    BY DEF Holders
  <1> HIDE DEF H
  <1>2. /\ IsFiniteSet(H) /\ Cardinality(H) \in Nat /\ (Cardinality(H) = 0 <=> H = {})
        /\ Cardinality(H \cap ss) \in Nat
        /\ (Cardinality(H \cap ss) = 0 <=> H \cap ss = {})
        /\ Cardinality(H \ ss) \in Nat /\ (Cardinality(H \ ss) = 0 <=> H \ ss = {})
    BY <1>1, SeqsAreFinite
  <1>3. Cardinality(H \ ss) = Cardinality(H) - Cardinality(H \cap ss)
    BY <1>2, FS_Difference
  <1>4. H \ ss = {} <=> H \subseteq ss
    OBVIOUS
  <1>5. Cardinality(H) = Cardinality(H \cap ss) <=> H \subseteq ss
    BY <1>2, <1>3, <1>4
  <1> QED  BY <1>1, <1>2, <1>3, <1>5 DEF H

(* Positions of a short table are their own places.                        *)
LEMMA ModSmall ==
  ASSUME NEW w \in Nat \ {0}, NEW a \in 0 .. w - 1
  PROVE  a % w = a
  BY SMTT(30)

LEMMA ModMod ==
  ASSUME NEW w \in Nat \ {0}, NEW a \in Nat
  PROVE  a % w \in 0 .. w - 1 /\ (a % w) % w = a % w /\ a % w <= a
  <1>1. a % w \in 0 .. w - 1
    BY SMTT(30)
  <1>2. a % w <= a
    BY SMTT(30)
  <1> QED  BY <1>1, <1>2, ModSmall

LEMMA PlacesWithinWindow ==
  ASSUME NEW k \in Nat, BlockSlidingWindow = 0 \/ k <= BlockSlidingWindow,
         NEW i \in 1 .. k, NEW j \in 1 .. k
  PROVE  SamePlace(i, j) <=> i = j
  <1>1. CASE BlockSlidingWindow = 0
    BY <1>1 DEF SamePlace
  <1>2. CASE BlockSlidingWindow # 0
    <2>1. BlockSlidingWindow \in Nat \ {0}
      BY <1>2, BlockAssumption
    <2>2. i - 1 \in 0 .. BlockSlidingWindow - 1 /\ j - 1 \in 0 .. BlockSlidingWindow - 1
      BY <1>2, <2>1
    <2>3. (i - 1) % BlockSlidingWindow = i - 1 /\ (j - 1) % BlockSlidingWindow = j - 1
      BY <2>1, <2>2, ModSmall
    <2> QED  BY <1>2, <2>3 DEF SamePlace
  <1> QED  BY <1>1, <1>2

-----------------------------------------------------------------------------
(* free(): a block goes back when the last of its holders is freed.        *)
LEMMA CountedFree ==
  ASSUME NEW c \in BlockManagers, Counted(c), NEW ss \in SUBSET SeqId, NEW d \in Free(c, ss)
  PROVE  /\ Counted(d)
         /\ d.tables = [s \in SeqId |-> IF s \in ss THEN <<>> ELSE c.tables[s]]
  <1> DEFINE held   == [b \in Block |-> Cardinality({s \in ss : b \in Range(c.tables[s])})]
             freed  == FreeBlocks(c, held)
             back   == {b \in Block : held[b] > 0 /\ held[b] = c.ref[b]}
             tables == [s \in SeqId |-> IF s \in ss THEN <<>> ELSE c.tables[s]]
  <1>1. \A b \in Block : held[b] = Cardinality(Holders(c, b) \cap ss)
    <2>1. \A b \in Block : {s \in ss : b \in Range(c.tables[s])} = Holders(c, b) \cap ss
      BY DEF Holders
    <2> QED  BY <2>1
  <1>2. \A b \in Block : /\ c.ref[b] = Cardinality(Holders(c, b)) + Cardinality(Pins(c, b))
                         /\ Cardinality(Pins(c, b)) \in Nat
    BY PinFacts DEF Counted
  <1>3. \A b \in Block : held[b] \in Nat /\ c.ref[b] \in Nat /\ held[b] <= c.ref[b]
    <2> SUFFICES ASSUME NEW b \in Block
                 PROVE  held[b] \in Nat /\ c.ref[b] \in Nat /\ held[b] <= c.ref[b]
      OBVIOUS
    <2>1. Cardinality(Holders(c, b) \ ss) \in Nat
      <3>1. Holders(c, b) \ ss \in SUBSET SeqId
        BY DEF Holders
      <3> QED  BY <3>1, SeqsAreFinite
    <2>2. /\ Cardinality(Holders(c, b)) \in Nat /\ Cardinality(Holders(c, b) \cap ss) \in Nat
          /\ Cardinality(Holders(c, b) \ ss)
               = Cardinality(Holders(c, b)) - Cardinality(Holders(c, b) \cap ss)
      BY HoldersSplit
    <2>3. /\ held[b] = Cardinality(Holders(c, b) \cap ss)
          /\ c.ref[b] = Cardinality(Holders(c, b)) + Cardinality(Pins(c, b))
          /\ Cardinality(Pins(c, b)) \in Nat
      BY <1>1, <1>2
    <2> QED  BY <2>1, <2>2, <2>3
  <1>4. d = [freed EXCEPT !.tables = tables]
    BY DEF Free
  <1> HIDE DEF held, tables
  <1>5. freed = [c EXCEPT !.ref = [b \in Block |-> c.ref[b] - held[b]],
                          !.gpu = c.gpu \cup (back \cap GpuBlock),
                          !.cpu = c.cpu \cup (back \cap CpuBlock)]
    <2>1. ~ \E b \in Block : held[b] > c.ref[b]
      BY <1>3
    <2> QED  BY <2>1 DEF FreeBlocks
  <1> HIDE DEF freed, back
  <1>6. /\ d.gpu = c.gpu \cup (back \cap GpuBlock) /\ d.cpu = c.cpu \cup (back \cap CpuBlock)
        /\ d.ref = [b \in Block |-> c.ref[b] - held[b]]
        /\ d.tables = tables /\ d.prefix = c.prefix /\ d.err = c.err
    BY <1>4, <1>5 DEF BlockManagers
  <1>7. \A s \in SeqId : d.tables[s] = IF s \in ss THEN <<>> ELSE c.tables[s]
    BY <1>6 DEF tables
  <1>8. Range(<<>>) = {} /\ Ring(<<>>)
    BY DEF Range, Ring
  <1>9. \A b \in Block : Holders(d, b) = Holders(c, b) \ ss /\ Pins(d, b) = Pins(c, b)
    BY <1>6, <1>7, <1>8 DEF Holders, Pins
  <1>10. \A b \in Block : d.ref[b] = Cardinality(Holders(d, b)) + Cardinality(Pins(d, b))
    <2> SUFFICES ASSUME NEW b \in Block
                 PROVE  d.ref[b] = Cardinality(Holders(c, b) \ ss) + Cardinality(Pins(c, b))
      BY <1>9
    <2>1. d.ref[b] = (Cardinality(Holders(c, b)) + Cardinality(Pins(c, b)))
                       - Cardinality(Holders(c, b) \cap ss)
      BY <1>1, <1>2, <1>6
    <2>2. /\ Cardinality(Holders(c, b) \ ss)
               = Cardinality(Holders(c, b)) - Cardinality(Holders(c, b) \cap ss)
          /\ Cardinality(Holders(c, b)) \in Nat /\ Cardinality(Holders(c, b) \cap ss) \in Nat
      BY HoldersSplit
    <2>3. Cardinality(Pins(c, b)) \in Nat
      BY <1>2
    <2> QED  BY <2>1, <2>2, <2>3
  <1>11. \A b \in Block : b \in back <=> /\ Holders(c, b) # {} /\ Holders(c, b) \subseteq ss
                                        /\ Pins(c, b) = {}
    <2> SUFFICES ASSUME NEW b \in Block
                 PROVE  b \in back <=> /\ Holders(c, b) # {} /\ Holders(c, b) \subseteq ss
                                       /\ Pins(c, b) = {}
      OBVIOUS
    <2>1. b \in back <=> held[b] > 0 /\ held[b] = c.ref[b]
      BY DEF back
    <2>2. /\ Cardinality(Holders(c, b)) \in Nat /\ Cardinality(Holders(c, b) \cap ss) \in Nat
          /\ Cardinality(Holders(c, b) \cap ss) <= Cardinality(Holders(c, b))
      <3>1. Holders(c, b) \ ss \in SUBSET SeqId
        BY DEF Holders
      <3>2. Cardinality(Holders(c, b) \ ss) \in Nat
        BY <3>1, SeqsAreFinite
      <3>3. /\ Cardinality(Holders(c, b)) \in Nat /\ Cardinality(Holders(c, b) \cap ss) \in Nat
            /\ Cardinality(Holders(c, b) \ ss)
                 = Cardinality(Holders(c, b)) - Cardinality(Holders(c, b) \cap ss)
        BY HoldersSplit
      <3> QED  BY <3>2, <3>3
    <2>3. /\ held[b] = Cardinality(Holders(c, b) \cap ss)
          /\ c.ref[b] = Cardinality(Holders(c, b)) + Cardinality(Pins(c, b))
          /\ Cardinality(Pins(c, b)) \in Nat
      BY <1>1, <1>2
    <2>4. held[b] > 0 /\ held[b] = c.ref[b]
            <=> /\ Cardinality(Holders(c, b)) # 0
                /\ Cardinality(Holders(c, b)) = Cardinality(Holders(c, b) \cap ss)
                /\ Cardinality(Pins(c, b)) = 0
      BY <2>2, <2>3
    <2> QED  BY <2>1, <2>4, HoldersSplit, PinFacts
  <1>12. \A b \in Block : b \in d.gpu \cup d.cpu <=> Holders(d, b) = {} /\ Pins(d, b) = {}
    <2>1. \A b \in Block : b \in d.gpu \cup d.cpu <=> b \in c.gpu \cup c.cpu \/ b \in back
      BY <1>6 DEF Block
    <2>2. \A b \in Block :
            b \in c.gpu \cup c.cpu <=> Holders(c, b) = {} /\ Pins(c, b) = {}
      BY DEF Counted
    <2> QED  BY <1>9, <1>11, <2>1, <2>2
  <1>13. \A s \in SeqId : Ring(d.tables[s])
    BY <1>7, <1>8 DEF Counted
  <1>14. BlockSlidingWindow > 0 =>
           /\ \A s, q \in SeqId : s # q => Range(d.tables[s]) \cap Range(d.tables[q]) = {}
           /\ \A p \in Prefix : d.prefix[p] = <<>>
    BY <1>6, <1>7, <1>8 DEF Counted
  <1>15. WholePrefixes(d)
    BY <1>6 DEF Counted, WholePrefixes
  <1>16. d.err = "none"
    BY <1>6 DEF Counted
  <1> QED  BY <1>6, <1>10, <1>12, <1>13, <1>14, <1>15, <1>16 DEF Counted, tables

(* The window makes a prompt's table a ring over its new blocks.           *)
LEMMA PromptTableIsARing ==
  ASSUME NEW n \in Nat, NEW free \in SUBSET Block, NEW fresh \in Nat,
         fresh = IF BlockSlidingWindow > 0 /\ n > BlockSlidingWindow
                 THEN BlockSlidingWindow ELSE n,
         NEW new \in Popped(free, fresh)
  PROVE  LET table == PromptTable(<<>>, new, n)
         IN  /\ table \in Seq(Block) /\ Len(table) = n
             /\ Range(table) = Range(new) /\ Ring(table)
  <1> DEFINE table == PromptTable(<<>>, new, n)
             at(i) == IF i <= fresh THEN i ELSE ((i - 1) % BlockSlidingWindow) + 1
  <1>1. new \in [1 .. fresh -> Block] /\ IsInjective(new)
    BY DEF Popped, Injection
  <1>2. <<>> \in Seq(Block) /\ Len(<<>>) = 0 /\ <<>> \o new = new /\ Len(new) = fresh
    <2>1. new \in Seq(Block) /\ Len(new) = fresh
      BY <1>1, FunctionIsSeq
    <2> QED  BY <2>1, EmptySeq, ConcatEmptySeq
  <1>3. table \in Seq(Block) /\ Len(table) = n
    <2>1. /\ PromptTable(<<>>, new, Len(<<>>) + n) \in Seq(Block)
          /\ Len(PromptTable(<<>>, new, Len(<<>>) + n)) = Len(<<>>) + n
      BY <1>1, <1>2, PromptTableType
    <2>2. Len(<<>>) + n = n
      BY <1>2
    <2> QED  BY <2>1, <2>2
  <1>4. \A i \in 1 .. n : at(i) \in 1 .. fresh /\ table[i] = new[at(i)]
    <2> SUFFICES ASSUME NEW i \in 1 .. n
                 PROVE  at(i) \in 1 .. fresh /\ table[i] = new[at(i)]
      OBVIOUS
    <2>1. table[i] = IF i <= Len(<<>> \o new) THEN (<<>> \o new)[i]
                     ELSE (<<>> \o new)[((i - 1 - Len(<<>>)) % BlockSlidingWindow) + 1]
      BY DEF PromptTable
    <2>2. i - 1 - Len(<<>>) = i - 1
      BY <1>2
    <2>3. table[i] = new[at(i)]
      BY <1>2, <2>1, <2>2
    <2>4. CASE i <= fresh
      BY <2>3, <2>4
    <2>5. CASE ~(i <= fresh)
      <3>1. BlockSlidingWindow \in Nat \ {0} /\ fresh = BlockSlidingWindow /\ i - 1 \in Nat
        BY <2>5, BlockAssumption
      <3>2. (i - 1) % BlockSlidingWindow \in 0 .. BlockSlidingWindow - 1
        BY <3>1, ModMod
      <3>3. at(i) \in 1 .. fresh
        BY <2>5, <3>1, <3>2
      <3> QED  BY <2>3, <3>3
    <2> QED  BY <2>4, <2>5
  <1>5. \A i \in 1 .. fresh : i \in 1 .. n /\ at(i) = i
    BY BlockAssumption
  <1>6. \A i, j \in 1 .. n : at(i) = at(j) <=> SamePlace(i, j)
    <2> SUFFICES ASSUME NEW i \in 1 .. n, NEW j \in 1 .. n
                 PROVE  at(i) = at(j) <=> SamePlace(i, j)
      OBVIOUS
    <2>1. CASE fresh = n
      <3>1. at(i) = i /\ at(j) = j
        BY <2>1
      <3>2. BlockSlidingWindow = 0 \/ n <= BlockSlidingWindow
        BY <2>1, BlockAssumption
      <3>3. SamePlace(i, j) <=> i = j
        BY <3>2, PlacesWithinWindow
      <3> QED  BY <3>1, <3>3
    <2>2. CASE fresh # n
      <3>1. BlockSlidingWindow \in Nat \ {0} /\ fresh = BlockSlidingWindow
        BY <2>2, BlockAssumption
      <3>2. \A k \in 1 .. n : at(k) = ((k - 1) % BlockSlidingWindow) + 1
        <4> SUFFICES ASSUME NEW k \in 1 .. n, k <= fresh
                     PROVE  k = ((k - 1) % BlockSlidingWindow) + 1
          OBVIOUS
        <4>1. k - 1 \in 0 .. BlockSlidingWindow - 1
          BY <3>1
        <4> QED  BY <3>1, <4>1, ModSmall
      <3>3. /\ (i - 1) % BlockSlidingWindow \in Int /\ (j - 1) % BlockSlidingWindow \in Int
        <4>1. i - 1 \in Nat /\ j - 1 \in Nat
          OBVIOUS
        <4> QED  BY <3>1, <4>1, ModMod
      <3> QED  BY <3>1, <3>2, <3>3 DEF SamePlace
    <2> QED  BY <2>1, <2>2
  <1> HIDE DEF at
  <1>7. DOMAIN table = 1 .. n /\ DOMAIN new = 1 .. fresh
    BY <1>1, <1>3, LenProperties
  <1> HIDE DEF table
  <1>8. Range(table) = Range(new)
    BY <1>4, <1>5, <1>7 DEF Range
  <1>9. Ring(table)
    BY <1>1, <1>4, <1>6, <1>7 DEF Ring, IsInjective
  <1> QED  BY <1>3, <1>8, <1>9 DEF table

LEMMA FreeBlocksOf ==
  ASSUME NEW c \in BlockManagers
  PROVE  /\ IsFiniteSet(c.gpu) /\ Cardinality(c.gpu) \in Nat
         /\ IsFiniteSet(c.cpu) /\ Cardinality(c.cpu) \in Nat
         /\ c.gpu \in SUBSET Block /\ c.cpu \in SUBSET Block
  <1>1. IsFiniteSet(Block) /\ c.gpu \in SUBSET Block /\ c.cpu \in SUBSET Block
    BY BlocksAreFinite DEF BlockManagers, Block
  <1> QED  BY <1>1, FS_Subset, FS_CardinalityType

(* A group of one sequence gets blocks nobody held, each once.             *)
LEMMA CountedAllocate ==
  ASSUME NEW c \in BlockManagers, Counted(c), NEW p \in SeqId, c.tables[p] = <<>>,
         NEW n \in Nat, CanAllocate(c, n, NoPrefix) = "OK",
         NEW d \in Allocate(c, {p}, 1, n, NoPrefix)
  PROVE  /\ Counted(d)
         /\ \A s \in SeqId \ {p} : d.tables[s] = c.tables[s]
         /\ Range(d.tables[p]) \subseteq GpuBlock /\ Len(d.tables[p]) = n
         /\ Range(d.tables[p]) \subseteq c.gpu
         /\ \A q \in Prefix : d.prefix[q] = c.prefix[q]
  <1> DEFINE fresh == IF BlockSlidingWindow > 0 /\ n > BlockSlidingWindow
                      THEN BlockSlidingWindow ELSE n
             table(new) == PromptTable(<<>>, new, n)
             After(new) ==
               [c EXCEPT
                  !.gpu    = c.gpu \ Range(new),
                  !.ref    = [b \in Block |-> IF b \in Range(new) THEN 1 ELSE c.ref[b]],
                  !.prefix = [q \in Prefix |-> c.prefix[q]],
                  !.tables = [s \in SeqId |-> IF s \in {p} THEN table(new) ELSE c.tables[s]]]
  <1>1. ~PrefixAllocated(c, NoPrefix) /\ Len(<<>>) = 0 /\ fresh \in Nat
    BY BlockAssumption, EmptySeq DEF PrefixAllocated
  <1>2. ~(fresh > Cardinality(c.gpu))
    <2>1. n - 0 = n
      OBVIOUS
    <2>2. Cardinality(c.gpu) - fresh >= WatermarkBlocks
      BY <1>1, <2>1 DEF CanAllocate
    <2> QED  BY <1>1, <2>2, WatermarkNat, FreeBlocksOf
  <1>3. PICK new \in Popped(c.gpu, fresh) : d = After(new)
    <2> DEFINE q0      == NoPrefix
               ss      == {p}
               ng      == 1
               shared  == IF PrefixAllocated(c, q0) THEN c.prefix[q0] ELSE <<>>
               own     == IF n > Len(shared) THEN n - Len(shared) ELSE 0
               fr      == IF BlockSlidingWindow > 0 /\ own > BlockSlidingWindow
                          THEN BlockSlidingWindow ELSE own
               tab(new)    == PromptTable(shared, new, Len(shared) + own)
               ownSet(new) == {tab(new)[i] : i \in Len(shared) + 1 .. Len(tab(new))}
               pinning     == q0 # NoPrefix /\ ~PrefixAllocated(c, q0)
               pinned(new) == IF pinning /\ PrefixLen[q0] < n
                              THEN SubSeq(tab(new), 1, PrefixLen[q0]) ELSE tab(new)
               pins(new, b) ==
                 IF pinning
                 THEN Cardinality({i \in DOMAIN pinned(new) : pinned(new)[i] = b}) ELSE 0
               Result(new) ==
                 [c EXCEPT
                    !.gpu    = c.gpu \ Range(new),
                    !.ref    = [b \in Block |->
                                  IF b \in ownSet(new) THEN ng + pins(new, b)
                                  ELSE IF b \in Range(shared) THEN c.ref[b] + ng
                                  ELSE c.ref[b]],
                    !.prefix = [q \in Prefix |-> IF pinning /\ q = q0 THEN pinned(new)
                                                 ELSE c.prefix[q]],
                    !.tables = [s \in SeqId |-> IF s \in ss THEN tab(new)
                                                ELSE c.tables[s]]]
    <2>1. shared = <<>> /\ own = n /\ fr = fresh /\ ~pinning
      BY <1>1
    <2>2. Allocate(c, {p}, 1, n, NoPrefix) = {Result(new) : new \in Popped(c.gpu, fr)}
      <3>1. ~(fr > Cardinality(c.gpu))
        <4> HIDE DEF fr, fresh
        <4> QED  BY <1>2, <2>1
      <3> QED  BY <3>1 DEF Allocate
    <2>3. ASSUME NEW new \in Popped(c.gpu, fresh)
          PROVE  Result(new) = After(new)
      <3>1. /\ table(new) \in Seq(Block) /\ Len(table(new)) = n
            /\ Range(table(new)) = Range(new)
        BY <1>1, FreeBlocksOf, PromptTableIsARing
      <3>2. DOMAIN table(new) = 1 .. n
        BY <3>1, LenProperties
      <3>3. tab(new) = table(new)
        <4>1. Len(shared) + own = n
          <5> HIDE DEF shared, own
          <5> QED  BY <1>1, <2>1
        <4> HIDE DEF own
        <4> QED  BY <2>1, <4>1
      <3>4. ownSet(new) = Range(new)
        <4>1. Len(shared) + 1 = 1
          <5> HIDE DEF shared
          <5> QED  BY <1>1, <2>1
        <4> HIDE DEF tab, table, shared
        <4> QED  BY <3>1, <3>2, <3>3, <4>1 DEF Range
      <3>5. \A b \in Block : ng + pins(new, b) = 1 /\ b \notin Range(shared)
        <4>1. Range(<<>>) = {}
          BY DEF Range
        <4> HIDE DEF pinning
        <4> QED  BY <2>1, <4>1
      <3> HIDE DEF shared, own, tab, table, ownSet, pinning, pinned, pins, ng, fr, fresh
      <3> QED  BY <2>1, <3>3, <3>4, <3>5
    <2> HIDE DEF Result, After, fr, fresh
    <2> QED  BY <2>1, <2>2, <2>3
  <1> HIDE DEF fresh
  <1>4. /\ table(new) \in Seq(Block) /\ Len(table(new)) = n
        /\ Range(table(new)) = Range(new) /\ Ring(table(new))
    BY <1>1, FreeBlocksOf, PromptTableIsARing DEF fresh
  <1> HIDE DEF table
  <1>5. /\ d.gpu = c.gpu \ Range(new) /\ d.cpu = c.cpu /\ d.err = c.err
        /\ \A b \in Block : d.ref[b] = IF b \in Range(new) THEN 1 ELSE c.ref[b]
        /\ \A q \in Prefix : d.prefix[q] = c.prefix[q]
        /\ \A s \in SeqId : d.tables[s] = IF s = p THEN table(new) ELSE c.tables[s]
    BY <1>3 DEF BlockManagers
  <1>6. Range(new) \subseteq c.gpu
    BY DEF Popped, Injection, Range
  <1>7. \A b \in Range(new) : Holders(c, b) = {} /\ Pins(c, b) = {}
    BY <1>6, FreeBlocksOf DEF Counted
  <1>8. Range(<<>>) = {}
    BY DEF Range
  <1>9. \A b \in Block : /\ Holders(d, b) = IF b \in Range(new) THEN {p} ELSE Holders(c, b)
                         /\ Pins(d, b) = Pins(c, b)
    <2>1. \A b \in Block : Pins(d, b) = Pins(c, b)
      BY <1>5 DEF Pins
    <2> QED  BY <1>4, <1>5, <1>7, <1>8, <2>1 DEF Holders
  <1>10. \A b \in Block : d.ref[b] = Cardinality(Holders(d, b)) + Cardinality(Pins(d, b))
    <2>1. Cardinality({p}) = 1 /\ Cardinality({}) = 0
      BY FS_Singleton, FS_EmptySet
    <2> SUFFICES ASSUME NEW b \in Block
                 PROVE  d.ref[b] = Cardinality(Holders(d, b)) + Cardinality(Pins(d, b))
      OBVIOUS
    <2>2. CASE b \in Range(new)
      <3>1. Holders(d, b) = {p} /\ Pins(d, b) = {} /\ d.ref[b] = 1
        BY <1>5, <1>7, <1>9, <2>2
      <3> QED  BY <2>1, <3>1
    <2>3. CASE b \notin Range(new)
      BY <1>5, <1>9, <2>3 DEF Counted
    <2> QED  BY <2>2, <2>3
  <1>11. \A b \in Block : b \in d.gpu \cup d.cpu <=> Holders(d, b) = {} /\ Pins(d, b) = {}
    <2>1. \A b \in c.gpu : b \notin c.cpu
      BY BlockAssumption DEF BlockManagers
    <2> QED  BY <1>5, <1>6, <1>9, <2>1 DEF Counted
  <1>12. \A s \in SeqId : Ring(d.tables[s])
    BY <1>4, <1>5 DEF Counted
  <1>13. \A s \in SeqId : Range(c.tables[s]) \cap Range(new) = {}
    BY <1>7 DEF Holders
  <1>14. BlockSlidingWindow > 0 =>
           /\ \A s, q \in SeqId : s # q => Range(d.tables[s]) \cap Range(d.tables[q]) = {}
           /\ \A q \in Prefix : d.prefix[q] = <<>>
    BY <1>4, <1>5, <1>13 DEF Counted
  <1>15. WholePrefixes(d) /\ d.err = "none"
    BY <1>5 DEF Counted, WholePrefixes
  <1>16. Counted(d)
    BY <1>10, <1>11, <1>12, <1>14, <1>15 DEF Counted
  <1>17. c.gpu \subseteq GpuBlock
    BY DEF BlockManagers
  <1> QED  BY <1>4, <1>5, <1>6, <1>16, <1>17

(* A prompt with a prefix, without a window: the blocks of the prefix if   *)
(* it has them, and new ones; the first prompt gives the prefix its first  *)
(* blocks.                                                                 *)
Prompted(c, d, p, q, n, new) ==
  LET shared == c.prefix[q]
      first  == shared = <<>>
      t      == d.tables[p]
  IN  /\ new \in Popped(c.gpu, n - Len(shared))
      /\ t \in Seq(Block) /\ Len(t) = n
      /\ \A i \in 1 .. n : t[i] = IF i <= Len(shared) THEN shared[i] ELSE new[i - Len(shared)]
      /\ \A s \in SeqId \ {p} : d.tables[s] = c.tables[s]
      /\ d.gpu = c.gpu \ Range(new) /\ d.cpu = c.cpu /\ d.err = c.err
      /\ \A x \in Prefix \ {q} : d.prefix[x] = c.prefix[x]
      /\ d.prefix[q] = IF first THEN SubSeq(t, 1, PrefixLen[q]) ELSE shared
      /\ \A b \in Block :
           d.ref[b] = IF b \in Range(new)
                      THEN 1 + (IF first /\ b \in {t[i] : i \in 1 .. PrefixLen[q]} THEN 1 ELSE 0)
                      ELSE IF b \in Range(shared) THEN c.ref[b] + 1 ELSE c.ref[b]

LEMMA AllocatePrompted ==
  ASSUME BlockSlidingWindow = 0, NEW c \in BlockManagers, Counted(c), NEW p \in SeqId,
         NEW q \in Prefix, NEW n \in Nat, PrefixLen[q] <= n,
         CanAllocate(c, n, q) = "OK", NEW d \in Allocate(c, {p}, 1, n, q)
  PROVE  \E new : Prompted(c, d, p, q, n, new)
  <1> DEFINE k       == PrefixLen[q]
             len     == Len(c.prefix[q])
             shared  == IF PrefixAllocated(c, q) THEN c.prefix[q] ELSE <<>>
             own     == IF n > Len(shared) THEN n - Len(shared) ELSE 0
             fresh   == IF BlockSlidingWindow > 0 /\ own > BlockSlidingWindow
                        THEN BlockSlidingWindow ELSE own
             tab(new)    == PromptTable(shared, new, Len(shared) + own)
             ownSet(new) == {tab(new)[i] : i \in Len(shared) + 1 .. Len(tab(new))}
             pinning     == q # NoPrefix /\ ~PrefixAllocated(c, q)
             pinned(new) == IF pinning /\ PrefixLen[q] < n
                            THEN SubSeq(tab(new), 1, PrefixLen[q]) ELSE tab(new)
             pins(new, b) ==
               IF pinning
               THEN Cardinality({i \in DOMAIN pinned(new) : pinned(new)[i] = b}) ELSE 0
             ref(new)    == [b \in Block |->
                               IF b \in ownSet(new) THEN 1 + pins(new, b)
                               ELSE IF b \in Range(shared) THEN c.ref[b] + 1
                               ELSE c.ref[b]]
             prefix(new) == [x \in Prefix |-> IF pinning /\ x = q THEN pinned(new)
                                              ELSE c.prefix[x]]
             tables(new) == [s \in SeqId |-> IF s \in {p} THEN tab(new) ELSE c.tables[s]]
             After(new)  ==
               [c EXCEPT !.gpu = c.gpu \ Range(new), !.ref = ref(new),
                         !.prefix = prefix(new), !.tables = tables(new)]
  <1>1. /\ c.prefix[q] \in Seq(Block) /\ len \in Nat /\ (len = 0 <=> c.prefix[q] = <<>>)
        /\ q # NoPrefix /\ k \in Nat \ {0}
    <2>1. c.prefix[q] \in Seq(Block)
      BY DEF BlockManagers
    <2> QED  BY <2>1, LenProperties, EmptySeq, BlockAssumption
  <1>2. len = 0 \/ len = k
    BY <1>1 DEF Counted, WholePrefixes, Whole
  <1>3. shared = c.prefix[q] /\ (pinning <=> c.prefix[q] = <<>>)
    BY <1>1 DEF PrefixAllocated
  <1>4. Len(shared) = len /\ own = n - len /\ fresh = n - len /\ Len(shared) + own = n
        /\ n - len \in Nat
    <2>1. Len(shared) = len
      BY <1>3
    <2> HIDE DEF shared, len, k
    <2> QED  BY <1>1, <1>2, <2>1 DEF k
  <1>5. ~(fresh > Cardinality(c.gpu))
    <2>1. n - (IF PrefixAllocated(c, q) THEN PrefixLen[q] ELSE 0) = n - len
      BY <1>1, <1>2 DEF PrefixAllocated
    <2>2. Cardinality(c.gpu) - (n - len) >= WatermarkBlocks
      <3> HIDE DEF len
      <3> QED  BY <2>1 DEF CanAllocate
    <2> HIDE DEF fresh, len
    <2> QED  BY <1>4, <2>2, WatermarkNat, FreeBlocksOf
  <1>6. Allocate(c, {p}, 1, n, q) = {After(new) : new \in Popped(c.gpu, fresh)}
    BY <1>5 DEF Allocate
  <1> HIDE DEF After
  <1>7. PICK new \in Popped(c.gpu, fresh) : d = After(new)
    BY <1>6
  <1>8. new \in [1 .. n - len -> Block] /\ IsInjective(new) /\ Range(new) \subseteq c.gpu
    <2>1. new \in Injection(1 .. n - len, c.gpu)
      <3> HIDE DEF len, fresh
      <3> QED  BY <1>4 DEF Popped
    <2> HIDE DEF len
    <2> QED  BY <2>1, FreeBlocksOf DEF Injection, Range
  <1> DEFINE t == tab(new)
  <1>9. t \in Seq(Block) /\ Len(t) = n
    <2>1. fresh = IF BlockSlidingWindow > 0 /\ own > BlockSlidingWindow
                  THEN BlockSlidingWindow ELSE own
      OBVIOUS
    <2> HIDE DEF shared, own, fresh, len
    <2>2. /\ shared \in Seq(Block) /\ own \in Nat /\ fresh \in Nat
          /\ new \in [1 .. fresh -> Block]
      BY <1>1, <1>3, <1>4, <1>8
    <2>3. t \in Seq(Block) /\ Len(t) = Len(shared) + own
      BY <2>1, <2>2, PromptTableType
    <2> QED  BY <1>4, <2>3
  <1>10. new \in Seq(Block) /\ Len(new) = n - len
    <2> HIDE DEF len
    <2> QED  BY <1>4, <1>8, FunctionIsSeq
  <1>11. \A i \in 1 .. n : t[i] = IF i <= len THEN c.prefix[q][i] ELSE new[i - len]
    <2> SUFFICES ASSUME NEW i \in 1 .. n
                 PROVE  t[i] = IF i <= len THEN c.prefix[q][i] ELSE new[i - len]
      OBVIOUS
    <2> DEFINE base == shared \o new
    <2>1. /\ base \in Seq(Block) /\ Len(base) = n
          /\ base[i] = IF i <= len THEN c.prefix[q][i] ELSE new[i - len]
      <3>1. shared \in Seq(Block) /\ shared[i] = c.prefix[q][i]
        BY <1>1, <1>3
      <3> HIDE DEF shared, len, own, fresh, t
      <3>2. /\ base \in Seq(Block) /\ Len(base) = Len(shared) + Len(new)
            /\ \A x \in 1 .. Len(shared) + Len(new) :
                 base[x] = IF x <= Len(shared) THEN shared[x] ELSE new[x - Len(shared)]
        BY <1>10, <3>1, ConcatProperties
      <3> HIDE DEF base
      <3>3. Len(shared) + Len(new) = n /\ Len(shared) = len
        BY <1>1, <1>4, <1>10
      <3>4. base[i] = IF i <= Len(shared) THEN shared[i] ELSE new[i - Len(shared)]
        BY <3>2, <3>3
      <3> QED  BY <3>1, <3>2, <3>3, <3>4
    <2>2. t[i] = IF i <= Len(base) THEN base[i]
                 ELSE base[((i - 1 - Len(shared)) % BlockSlidingWindow) + 1]
      <3>1. i \in 1 .. Len(shared) + own
        <4> HIDE DEF shared, own
        <4> QED  BY <1>4
      <3> HIDE DEF shared, own
      <3> QED  BY <3>1 DEF PromptTable
    <2> HIDE DEF base, t
    <2> QED  BY <2>1, <2>2
  <1> HIDE DEF shared, own, fresh, tab, t, len
  <1>12. DOMAIN t = 1 .. n /\ DOMAIN new = 1 .. n - len
    BY <1>8, <1>9, LenProperties
  <1>13. ownSet(new) = Range(new)
    <2>1. ownSet(new) = {t[i] : i \in len + 1 .. n}
      BY <1>4, <1>9 DEF t
    <2>2. \A i \in len + 1 .. n : i \in 1 .. n /\ t[i] = new[i - len] /\ i - len \in 1 .. n - len
      BY <1>1, <1>11
    <2>3. \A j \in 1 .. n - len : j + len \in len + 1 .. n /\ (j + len) - len = j
      BY <1>1, <1>4
    <2>4. \A j \in 1 .. n - len : t[j + len] = new[j]
      BY <2>2, <2>3
    <2> HIDE DEF ownSet
    <2> QED  BY <1>12, <2>1, <2>2, <2>3, <2>4 DEF Range
  <1>14. c.prefix[q] = <<>> =>
           /\ pinned(new) = SubSeq(t, 1, k)
           /\ pinned(new) \in Seq(Block) /\ DOMAIN pinned(new) = 1 .. k
           /\ \A i \in 1 .. k : pinned(new)[i] = t[i]
    <2> SUFFICES ASSUME c.prefix[q] = <<>>
                 PROVE  /\ pinned(new) = SubSeq(t, 1, k)
                        /\ pinned(new) \in Seq(Block) /\ DOMAIN pinned(new) = 1 .. k
                        /\ \A i \in 1 .. k : pinned(new)[i] = t[i]
      OBVIOUS
    <2>1. k <= n /\ \A i \in 1 .. k : i \in 1 .. n /\ t[i] \in Block
      BY <1>1, <1>9, ElementOfSeq
    <2>2. /\ SubSeq(t, 1, k) \in Seq(Block) /\ Len(SubSeq(t, 1, k)) = k
          /\ \A i \in 1 .. k : SubSeq(t, 1, k)[i] = t[i]
      BY <1>1, <1>9, <2>1, SubSeqProperties
    <2>3. k = n => SubSeq(t, 1, k) = t
      <3>1. k = n => DOMAIN SubSeq(t, 1, k) = 1 .. n
        BY <2>2, LenProperties
      <3> QED  BY <1>9, <1>12, <2>2, <3>1, SeqEqual
    <2>4. pinned(new) = IF k < n THEN SubSeq(t, 1, k) ELSE t
      BY <1>3 DEF t
    <2> HIDE DEF pinned
    <2>5. pinned(new) = SubSeq(t, 1, k)
      <3>1. CASE k < n
        BY <2>4, <3>1
      <3>2. CASE k = n
        BY <2>3, <2>4, <3>2
      <3> QED  BY <1>1, <2>1, <3>1, <3>2
    <2> QED  BY <2>2, <2>5, LenProperties
  <1> HIDE DEF pinned
  <1>15. \A b \in Block :
           pins(new, b) = IF c.prefix[q] = <<>> /\ b \in {t[i] : i \in 1 .. k} THEN 1 ELSE 0
    <2> SUFFICES ASSUME NEW b \in Block
                 PROVE  pins(new, b) = IF c.prefix[q] = <<>> /\ b \in {t[i] : i \in 1 .. k}
                                       THEN 1 ELSE 0
      OBVIOUS
    <2>1. CASE c.prefix[q] # <<>>
      BY <1>3, <2>1
    <2>2. CASE c.prefix[q] = <<>>
      <3> DEFINE at == {i \in 1 .. k : t[i] = b}
      <3>1. pins(new, b) = Cardinality(at)
        <4>1. {i \in DOMAIN pinned(new) : pinned(new)[i] = b} = at
          BY <1>14, <2>2
        <4>2. pinning
          BY <1>3, <2>2
        <4> HIDE DEF pinning, at
        <4> QED  BY <4>1, <4>2
      <3>2. \A i, j \in 1 .. k : t[i] = t[j] => i = j
        <4>1. len = 0
          BY <1>1, <2>2
        <4>2. \A i \in 1 .. k : i \in 1 .. n - len /\ t[i] = new[i]
          BY <1>1, <1>11, <4>1
        <4> QED  BY <1>8, <1>12, <4>2 DEF IsInjective
      <3>3. CASE b \in {t[i] : i \in 1 .. k}
        <4>1. PICK i \in 1 .. k : b = t[i]
          BY <3>3
        <4>2. at = {i}
          BY <3>2, <4>1
        <4> QED  BY <2>2, <3>1, <3>3, <4>2, FS_Singleton
      <3>4. CASE b \notin {t[i] : i \in 1 .. k}
        <4>1. at = {}
          BY <3>4
        <4> QED  BY <2>2, <3>1, <3>4, <4>1, FS_EmptySet
      <3> QED  BY <3>3, <3>4
    <2> QED  BY <2>1, <2>2
  <1> HIDE DEF pins, ownSet, pinning
  <1>16. /\ d.gpu = c.gpu \ Range(new) /\ d.cpu = c.cpu /\ d.err = c.err
         /\ d.ref = ref(new) /\ d.prefix = prefix(new) /\ d.tables = tables(new)
    <2> HIDE DEF ref, prefix, tables
    <2> QED  BY <1>7 DEF After, BlockManagers
  <1>17. d.tables[p] = t /\ \A s \in SeqId \ {p} : d.tables[s] = c.tables[s]
    BY <1>16 DEF t
  <1>18. /\ \A x \in Prefix \ {q} : d.prefix[x] = c.prefix[x]
         /\ d.prefix[q] = IF c.prefix[q] = <<>> THEN SubSeq(t, 1, k) ELSE c.prefix[q]
    BY <1>3, <1>14, <1>16
  <1>19. \A b \in Block :
           d.ref[b] = IF b \in Range(new)
                      THEN 1 + (IF c.prefix[q] = <<>> /\ b \in {t[i] : i \in 1 .. k} THEN 1 ELSE 0)
                      ELSE IF b \in Range(c.prefix[q]) THEN c.ref[b] + 1 ELSE c.ref[b]
    BY <1>3, <1>13, <1>15, <1>16
  <1>20. new \in Popped(c.gpu, n - len)
    BY <1>4
  <1>21. Prompted(c, d, p, q, n, new)
    BY <1>9, <1>11, <1>16, <1>17, <1>18, <1>19, <1>20 DEF Prompted, len, k
  <1> QED  BY <1>21

(* The prefix's blocks gain a holder; the new ones have one, and the first *)
(* of them the prefix as well if it had none.                              *)
LEMMA CountedPrompted ==
  ASSUME NEW c \in BlockManagers, Counted(c),
         NEW p \in SeqId, c.tables[p] = <<>>,
         NEW q \in Prefix, NEW n \in Nat, BlockSlidingWindow = 0, PrefixLen[q] <= n,
         CanAllocate(c, n, q) = "OK", NEW d \in Allocate(c, {p}, 1, n, q)
  PROVE  /\ Counted(d)
         /\ \A s \in SeqId \ {p} : d.tables[s] = c.tables[s]
         /\ Range(d.tables[p]) \subseteq GpuBlock /\ Len(d.tables[p]) = n
  <1> DEFINE shared == c.prefix[q]
             len    == Len(shared)
             first  == shared = <<>>
             k      == PrefixLen[q]
             t      == d.tables[p]
             head   == {t[i] : i \in 1 .. k}
  <1>1. PICK new : Prompted(c, d, p, q, n, new)
    BY AllocatePrompted
  <1>2. /\ shared \in Seq(Block) /\ len \in Nat /\ DOMAIN shared = 1 .. len
        /\ (len = 0 <=> first) /\ k \in Nat \ {0} /\ k <= n /\ Whole(shared, k)
    <2>1. shared \in Seq(Block) /\ Whole(shared, k)
      BY DEF BlockManagers, Counted, WholePrefixes
    <2> QED  BY <2>1, LenProperties, EmptySeq, BlockAssumption
  <1>3. /\ len = 0 \/ (len = k /\ Range(shared) \subseteq GpuBlock)
        /\ \A i, j \in 1 .. len : shared[i] = shared[j] => i = j
    <2>1. first => Range(shared) = {}
      BY DEF Range
    <2> HIDE DEF first, len, shared
    <2> QED  BY <1>2, <2>1 DEF Whole, first, len
  <1>4. /\ new \in [1 .. n - len -> c.gpu] /\ IsInjective(new)
        /\ t \in Seq(Block) /\ Len(t) = n /\ DOMAIN t = 1 .. n
        /\ \A i \in 1 .. n : t[i] = IF i <= len THEN shared[i] ELSE new[i - len]
    BY <1>1, LenProperties DEF Prompted, Popped, Injection
  <1>5. /\ d.gpu = c.gpu \ Range(new) /\ d.cpu = c.cpu /\ d.err = c.err
        /\ \A s \in SeqId \ {p} : d.tables[s] = c.tables[s]
        /\ \A x \in Prefix \ {q} : d.prefix[x] = c.prefix[x]
        /\ d.prefix[q] = IF first THEN SubSeq(t, 1, k) ELSE shared
    BY <1>1 DEF Prompted
  <1>6. \A b \in Block :
          d.ref[b] = IF b \in Range(new) THEN 1 + (IF first /\ b \in head THEN 1 ELSE 0)
                     ELSE IF b \in Range(shared) THEN c.ref[b] + 1 ELSE c.ref[b]
    BY <1>1 DEF Prompted
  <1> HIDE DEF t, len, first, k, shared, head
  <1>7. /\ DOMAIN new = 1 .. n - len /\ Range(new) \subseteq c.gpu
        /\ c.gpu \subseteq GpuBlock /\ c.gpu \subseteq Block
        /\ \A b \in Range(new) : Holders(c, b) = {} /\ Pins(c, b) = {} /\ b \notin c.cpu
    <2>1. DOMAIN new = 1 .. n - len /\ Range(new) \subseteq c.gpu
      BY <1>4 DEF Range
    <2>2. c.gpu \subseteq GpuBlock /\ c.gpu \subseteq Block /\ c.gpu \cap c.cpu = {}
      BY BlockAssumption DEF BlockManagers, Block
    <2> QED  BY <2>1, <2>2 DEF Counted
  <1>8. \A b \in Range(shared) : q \in Pins(c, b) /\ b \in Block
    BY <1>2, ElementOfSeq DEF Pins, Range, shared
  <1>9. Range(t) = Range(shared) \cup Range(new)
    <2>1. \A i \in 1 .. len : i \in 1 .. n /\ t[i] = shared[i]
      BY <1>2, <1>3, <1>4
    <2>2. \A j \in 1 .. n - len : /\ j + len \in 1 .. n /\ ~(j + len <= len)
                                  /\ (j + len) - len = j
      BY <1>2
    <2>3. \A j \in 1 .. n - len : j + len \in 1 .. n /\ t[j + len] = new[j]
      BY <1>4, <2>2
    <2>4. \A i \in 1 .. n : i \in 1 .. len \/ (~(i <= len) /\ i - len \in 1 .. n - len)
      BY <1>2
    <2>5. \A i \in 1 .. n : t[i] \in Range(shared) \cup Range(new)
      <3> SUFFICES ASSUME NEW i \in 1 .. n
                   PROVE  t[i] \in Range(shared) \cup Range(new)
        OBVIOUS
      <3>1. CASE i \in 1 .. len
        BY <1>2, <2>1, <3>1 DEF Range
      <3>2. CASE ~(i <= len) /\ i - len \in 1 .. n - len
        <4>1. t[i] = new[i - len]
          BY <1>4, <3>2
        <4> QED  BY <1>7, <3>2, <4>1 DEF Range
      <3> QED  BY <2>4, <3>1, <3>2
    <2>6. \A i \in 1 .. len : shared[i] \in Range(t)
      BY <1>4, <2>1 DEF Range
    <2>7. \A j \in 1 .. n - len : new[j] \in Range(t)
      BY <1>4, <2>3 DEF Range
    <2>8. Range(t) \subseteq Range(shared) \cup Range(new)
      BY <1>4, <2>5 DEF Range
    <2>9. Range(shared) \subseteq Range(t) /\ Range(new) \subseteq Range(t)
      BY <1>2, <1>7, <2>6, <2>7 DEF Range
    <2> QED  BY <2>8, <2>9
  <1>10. Range(shared) \cap Range(new) = {}
    BY <1>7, <1>8
  <1>11. \A i, j \in 1 .. n : t[i] = t[j] => i = j
    <2> SUFFICES ASSUME NEW i \in 1 .. n, NEW j \in 1 .. n, t[i] = t[j]
                 PROVE  i = j
      OBVIOUS
    <2>1. CASE i <= len /\ j <= len
      <3>1. i \in 1 .. len /\ j \in 1 .. len /\ shared[i] = shared[j]
        BY <1>2, <1>4, <2>1
      <3> QED  BY <1>3, <3>1
    <2>2. CASE ~(i <= len) /\ ~(j <= len)
      <3>1. i - len \in 1 .. n - len /\ j - len \in 1 .. n - len
        BY <1>2, <2>2
      <3>2. new[i - len] = new[j - len]
        BY <1>4, <2>2
      <3>3. i - len = j - len
        BY <1>4, <1>7, <3>1, <3>2 DEF IsInjective
      <3> QED  BY <1>2, <3>3
    <2>3. ASSUME NEW x \in 1 .. n, NEW y \in 1 .. n, x <= len, ~(y <= len)
          PROVE  t[x] # t[y]
      <3>1. x \in DOMAIN shared /\ y - len \in DOMAIN new
        BY <1>2, <1>7, <2>3
      <3>2. t[x] = shared[x] /\ t[y] = new[y - len]
        BY <1>4, <2>3
      <3>3. t[x] \in Range(shared) /\ t[y] \in Range(new)
        BY <3>1, <3>2 DEF Range
      <3> QED  BY <1>10, <3>3
    <2> QED  BY <2>1, <2>2, <2>3
  <1>12. first => /\ len = 0 /\ Range(shared) = {} /\ head \subseteq Range(new)
                  /\ d.prefix[q] \in Seq(Block) /\ Len(d.prefix[q]) = k
                  /\ DOMAIN d.prefix[q] = 1 .. k
                  /\ \A i \in 1 .. k : d.prefix[q][i] = t[i]
    <2> SUFFICES ASSUME first
                 PROVE  /\ len = 0 /\ Range(shared) = {} /\ head \subseteq Range(new)
                        /\ d.prefix[q] \in Seq(Block) /\ Len(d.prefix[q]) = k
                        /\ DOMAIN d.prefix[q] = 1 .. k
                        /\ \A i \in 1 .. k : d.prefix[q][i] = t[i]
      OBVIOUS
    <2>1. len = 0 /\ Range(shared) = {}
      BY <1>2 DEF first, Range
    <2>2. \A i \in 1 .. k : i \in 1 .. n /\ t[i] \in Block /\ t[i] \in Range(t)
      BY <1>2, <1>4, ElementOfSeq DEF Range
    <2>3. head \subseteq Range(new)
      BY <1>9, <2>1, <2>2 DEF head
    <2>4. /\ SubSeq(t, 1, k) \in Seq(Block) /\ Len(SubSeq(t, 1, k)) = k
          /\ \A i \in 1 .. k : SubSeq(t, 1, k)[i] = t[i]
      BY <1>2, <1>4, <2>2, SubSeqProperties
    <2> QED  BY <1>5, <2>1, <2>3, <2>4, LenProperties
  <1>13. \A b \in Block : Holders(d, b) = IF b \in Range(t) THEN Holders(c, b) \cup {p}
                                          ELSE Holders(c, b)
    <2>1. \A b : p \notin Holders(c, b)
      BY DEF Holders, Range
    <2> QED  BY <1>5, <2>1 DEF Holders, t
  <1>14. \A b \in Block : Pins(d, b) = IF first /\ b \in head THEN Pins(c, b) \cup {q}
                                       ELSE Pins(c, b)
    <2> SUFFICES ASSUME NEW b \in Block, NEW x \in Prefix
                 PROVE  x \in Pins(d, b) <=> x \in Pins(c, b) \/ (x = q /\ first /\ b \in head)
      BY DEF Pins
    <2>1. CASE x # q
      BY <1>5, <2>1 DEF Pins
    <2>2. CASE x = q /\ ~first
      BY <1>5, <2>2 DEF Pins, shared
    <2>3. CASE x = q /\ first
      <3>1. b \in Range(d.prefix[q]) <=> b \in head
        BY <1>12, <2>3 DEF Range, head
      <3>2. q \notin Pins(c, b)
        BY <1>12, <2>3 DEF Pins, shared
      <3> QED  BY <2>3, <3>1, <3>2 DEF Pins
    <2> QED  BY <2>1, <2>2, <2>3
  <1>15. \A b \in Block : d.ref[b] = Cardinality(Holders(d, b)) + Cardinality(Pins(d, b))
    <2> SUFFICES ASSUME NEW b \in Block
                 PROVE  d.ref[b] = Cardinality(Holders(d, b)) + Cardinality(Pins(d, b))
      OBVIOUS
    <2>1. /\ c.ref[b] = Cardinality(Holders(c, b)) + Cardinality(Pins(c, b))
          /\ Cardinality(Pins(c, b)) \in Nat /\ Cardinality(Holders(c, b)) \in Nat
          /\ IsFiniteSet(Holders(c, b)) /\ p \notin Holders(c, b)
      <3>1. Holders(c, b) \in SUBSET SeqId /\ p \notin Holders(c, b)
        BY DEF Holders, Range
      <3> QED  BY <3>1, SeqsAreFinite, PinFacts DEF Counted
    <2>2. /\ Cardinality({}) = 0 /\ Cardinality({p}) = 1 /\ Cardinality({q}) = 1
      BY FS_EmptySet, FS_Singleton
    <2>3. CASE b \in Range(new)
      <3>1. Holders(c, b) = {} /\ Pins(c, b) = {} /\ b \in Range(t)
        BY <1>7, <1>9, <2>3
      <3>2. Holders(d, b) = {p} /\ Pins(d, b) = IF first /\ b \in head THEN {q} ELSE {}
        BY <1>13, <1>14, <3>1
      <3>3. d.ref[b] = 1 + (IF first /\ b \in head THEN 1 ELSE 0)
        BY <1>6, <2>3
      <3>4. CASE first /\ b \in head
        BY <2>2, <3>2, <3>3, <3>4
      <3>5. CASE ~(first /\ b \in head)
        BY <2>2, <3>2, <3>3, <3>5
      <3> QED  BY <3>4, <3>5
    <2>4. CASE b \notin Range(new)
      <3>1. Pins(d, b) = Pins(c, b)
        BY <1>12, <1>14, <2>4
      <3>2. CASE b \in Range(shared)
        <4>1. Holders(d, b) = Holders(c, b) \cup {p} /\ d.ref[b] = c.ref[b] + 1
          BY <1>6, <1>9, <1>13, <2>4, <3>2
        <4>2. Cardinality(Holders(c, b) \cup {p}) = Cardinality(Holders(c, b)) + 1
          BY <2>1, FS_AddElement
        <4>3. Cardinality(Holders(d, b)) = Cardinality(Holders(c, b)) + 1
          BY <4>1, <4>2
        <4> QED  BY <2>1, <3>1, <4>1, <4>3
      <3>3. CASE b \notin Range(shared)
        <4>1. Holders(d, b) = Holders(c, b) /\ d.ref[b] = c.ref[b]
          BY <1>6, <1>9, <1>13, <2>4, <3>3
        <4> QED  BY <2>1, <3>1, <4>1
      <3> QED  BY <3>2, <3>3
    <2> QED  BY <2>3, <2>4
  <1>16. \A b \in Block : b \in d.gpu \cup d.cpu <=> Holders(d, b) = {} /\ Pins(d, b) = {}
    <2> SUFFICES ASSUME NEW b \in Block
                 PROVE  b \in d.gpu \cup d.cpu <=> Holders(d, b) = {} /\ Pins(d, b) = {}
      OBVIOUS
    <2>1. b \in c.gpu \cup c.cpu <=> Holders(c, b) = {} /\ Pins(c, b) = {}
      BY DEF Counted
    <2>2. CASE b \in Range(new)
      <3>1. b \notin d.gpu \cup d.cpu /\ p \in Holders(d, b)
        BY <1>5, <1>7, <1>9, <1>13, <2>2
      <3> QED  BY <3>1
    <2>3. CASE b \in Range(shared)
      <3>1. q \in Pins(c, b) /\ q \in Pins(d, b) /\ b \notin c.gpu \cup c.cpu
        BY <1>8, <1>14, <2>1, <2>3
      <3> QED  BY <1>5, <3>1
    <2>4. CASE b \notin Range(new) /\ b \notin Range(shared)
      <3>1. Holders(d, b) = Holders(c, b) /\ Pins(d, b) = Pins(c, b)
        BY <1>9, <1>12, <1>13, <1>14, <2>4
      <3> QED  BY <1>5, <2>1, <2>4, <3>1
    <2> QED  BY <2>2, <2>3, <2>4
  <1>17. \A s \in SeqId : Ring(d.tables[s])
    <2>1. Ring(t)
      BY <1>4, <1>11 DEF Ring, SamePlace
    <2> QED  BY <1>5, <2>1 DEF Counted, t
  <1>18. Range(t) \subseteq GpuBlock
    <2>1. Range(shared) \subseteq GpuBlock
      <3>1. len = 0 => Range(shared) = {}
        BY <1>2 DEF Range
      <3> QED  BY <1>3, <3>1
    <2> QED  BY <1>7, <1>9, <2>1
  <1>19. WholePrefixes(d)
    <2>1. Whole(d.prefix[q], k)
      <3>1. CASE first
        <4>1. \A i \in 1 .. k : i \in 1 .. n /\ t[i] \in Range(t)
          BY <1>2, <1>4 DEF Range
        <4>2. Range(d.prefix[q]) \subseteq GpuBlock
          BY <1>12, <1>18, <3>1, <4>1 DEF Range
        <4>3. \A i, j \in DOMAIN d.prefix[q] : d.prefix[q][i] = d.prefix[q][j] => i = j
          BY <1>11, <1>12, <3>1, <4>1
        <4> QED  BY <1>12, <3>1, <4>2, <4>3 DEF Whole
      <3>2. CASE ~first
        BY <1>2, <1>5, <3>2
      <3> QED  BY <3>1, <3>2
    <2>2. \A x \in Prefix \ {q} : Whole(d.prefix[x], PrefixLen[x])
      BY <1>5 DEF Counted, WholePrefixes
    <2> QED  BY <2>1, <2>2 DEF WholePrefixes, k
  <1>20. Counted(d)
    BY <1>5, <1>15, <1>16, <1>17, <1>19 DEF Counted
  <1> QED  BY <1>4, <1>5, <1>18, <1>20 DEF t

-----------------------------------------------------------------------------
(* Table u is table t up to its last block.                                *)
SameFront(t, u) == \A i \in 1 .. Len(u) - 1 : i \in 1 .. Len(t) /\ u[i] = t[i]

(* What append_slot leaves: a slot at the end of the table of s, in a      *)
(* block that only s holds, at the price of at most one free block.        *)
Extended(c, d, s, n) ==
  /\ Counted(d)
  /\ \A q \in SeqId \ {s} : d.tables[q] = c.tables[q]
  /\ Len(d.tables[s]) = IF Len(c.tables[s]) < n THEN Len(c.tables[s]) + 1
                        ELSE Len(c.tables[s])
  /\ SameFront(c.tables[s], d.tables[s])
  /\ Range(d.tables[s]) \subseteq Range(c.tables[s]) \cup c.gpu
  /\ Holders(d, d.tables[s][Len(d.tables[s])]) = {s}
  /\ Pins(d, d.tables[s][Len(d.tables[s])]) = {}
  /\ d.prefix = c.prefix
  /\ d.gpu \subseteq c.gpu
  /\ \E b : c.gpu \ {b} \subseteq d.gpu

LEMMA AppendedTable ==
  ASSUME NEW t \in Seq(Block), NEW b \in Block
  PROVE  LET u == Append(t, b)
         IN  /\ u \in Seq(Block) /\ Len(u) = Len(t) + 1 /\ u[Len(u)] = b
             /\ DOMAIN u = 1 .. Len(t) + 1
             /\ \A i \in 1 .. Len(t) : u[i] = t[i]
             /\ Range(u) = Range(t) \cup {b}
  <1> DEFINE u == Append(t, b)
  <1>1. Len(t) \in Nat /\ DOMAIN t = 1 .. Len(t)
    BY LenProperties
  <1>2. /\ u \in Seq(Block) /\ Len(u) = Len(t) + 1 /\ u[Len(t) + 1] = b
        /\ \A i \in 1 .. Len(t) : u[i] = t[i]
    BY AppendProperties
  <1> HIDE DEF u
  <1>3. DOMAIN u = 1 .. Len(t) + 1
    BY <1>2, LenProperties
  <1>4. DOMAIN u = DOMAIN t \cup {Len(t) + 1}
    BY <1>1, <1>3
  <1>5. Range(u) = Range(t) \cup {b}
    BY <1>1, <1>2, <1>4 DEF Range
  <1> QED  BY <1>2, <1>3, <1>5 DEF u

(* A new block at the end, of an unshared table or inside the window.      *)
LEMMA CountedGrows ==
  ASSUME NEW c \in BlockManagers, Counted(c), NEW s \in SeqId, NEW n \in Nat,
         NeedsNewBlock(c.tables[s], n), c.gpu # {}, NEW d \in AppendSlot(c, s, n)
  PROVE  Extended(c, d, s, n)
  <1> DEFINE t == c.tables[s]
             New(b) ==
               [c EXCEPT !.gpu = c.gpu \ {b}, !.ref = [c.ref EXCEPT ![b] = 1],
                         !.tables = [c.tables EXCEPT ![s] = Append(t, b)]]
  <1>1. AppendSlot(c, s, n) = {New(b) : b \in c.gpu}
    BY DEF AppendSlot
  <1>2. PICK b \in c.gpu : d = New(b)
    BY <1>1
  <1>3. b \in Block /\ b \notin c.cpu /\ Holders(c, b) = {} /\ Pins(c, b) = {}
    BY BlockAssumption, FreeBlocksOf DEF Counted, BlockManagers
  <1>4. /\ t \in Seq(Block) /\ Len(t) \in Nat /\ DOMAIN t = 1 .. Len(t)
    BY TableFacts
  <1> DEFINE u == Append(t, b)
  <1>5. /\ u \in Seq(Block) /\ Len(u) = Len(t) + 1 /\ u[Len(u)] = b
        /\ DOMAIN u = 1 .. Len(t) + 1 /\ \A i \in 1 .. Len(t) : u[i] = t[i]
        /\ Range(u) = Range(t) \cup {b}
    BY <1>3, <1>4, AppendedTable
  <1>6. /\ d.gpu = c.gpu \ {b} /\ d.cpu = c.cpu /\ d.err = c.err /\ d.prefix = c.prefix
        /\ \A x \in Block : d.ref[x] = IF x = b THEN 1 ELSE c.ref[x]
        /\ \A q \in SeqId : d.tables[q] = IF q = s THEN u ELSE c.tables[q]
    BY <1>2, <1>3 DEF BlockManagers
  <1> HIDE DEF u
  <1>7. Ring(u)
    <2>1. Len(t) < n /\ (BlockSlidingWindow = 0 \/ Len(t) + 1 <= BlockSlidingWindow)
      BY <1>4, BlockAssumption DEF NeedsNewBlock
    <2>2. \A i, j \in 1 .. Len(t) + 1 : SamePlace(i, j) <=> i = j
      BY <1>4, <2>1, PlacesWithinWindow
    <2>3. \A i, j \in 1 .. Len(t) : t[i] = t[j] <=> SamePlace(i, j)
      BY <1>4 DEF Counted, Ring
    <2>4. \A i \in 1 .. Len(t) : t[i] # b
      BY <1>3, <1>4 DEF Holders, Range
    <2>5. \A i \in 1 .. Len(t) + 1 : i \in 1 .. Len(t) \/ i = Len(t) + 1
      BY <1>4
    <2>6. Len(t) + 1 \notin 1 .. Len(t) /\ \A i \in 1 .. Len(t) : i \in 1 .. Len(t) + 1
      BY <1>4
    <2> QED  BY <1>5, <2>2, <2>3, <2>4, <2>5, <2>6 DEF Ring
  <1>8. \A x \in Block : /\ Holders(d, x) = IF x = b THEN {s} ELSE Holders(c, x)
                         /\ Pins(d, x) = Pins(c, x)
    <2>1. \A x \in Block : Pins(d, x) = Pins(c, x)
      BY <1>6 DEF Pins
    <2> QED  BY <1>3, <1>5, <1>6, <2>1 DEF Holders
  <1>9. \A x \in Block : d.ref[x] = Cardinality(Holders(d, x)) + Cardinality(Pins(d, x))
    <2>1. Cardinality({s}) = 1 /\ Cardinality({}) = 0
      BY FS_Singleton, FS_EmptySet
    <2> SUFFICES ASSUME NEW x \in Block
                 PROVE  d.ref[x] = Cardinality(Holders(d, x)) + Cardinality(Pins(d, x))
      OBVIOUS
    <2>2. CASE x = b
      <3>1. Holders(d, x) = {s} /\ Pins(d, x) = {} /\ d.ref[x] = 1
        BY <1>3, <1>6, <1>8, <2>2
      <3> QED  BY <2>1, <3>1
    <2>3. CASE x # b
      BY <1>6, <1>8, <2>3 DEF Counted
    <2> QED  BY <2>2, <2>3
  <1>10. \A x \in Block : x \in d.gpu \cup d.cpu <=> Holders(d, x) = {} /\ Pins(d, x) = {}
    BY <1>3, <1>6, <1>8 DEF Counted
  <1>11. \A q \in SeqId : Ring(d.tables[q])
    BY <1>6, <1>7 DEF Counted
  <1>12. BlockSlidingWindow > 0 =>
           \A r, q \in SeqId : r # q => Range(d.tables[r]) \cap Range(d.tables[q]) = {}
    <2>1. \A q \in SeqId : Range(c.tables[q]) \cap {b} = {}
      BY <1>3 DEF Holders
    <2>2. \A q \in SeqId : Range(d.tables[q]) = IF q = s THEN Range(t) \cup {b}
                                                 ELSE Range(c.tables[q])
      BY <1>5, <1>6
    <2>3. BlockSlidingWindow > 0 =>
            \A r, q \in SeqId : r # q => Range(c.tables[r]) \cap Range(c.tables[q]) = {}
      BY DEF Counted
    <2> HIDE DEF t
    <2> SUFFICES ASSUME BlockSlidingWindow > 0, NEW r \in SeqId, NEW q \in SeqId, r # q
                 PROVE  Range(d.tables[r]) \cap Range(d.tables[q]) = {}
      OBVIOUS
    <2>4. Range(c.tables[r]) \cap Range(c.tables[q]) = {}
      BY <2>3
    <2> QED  BY <2>1, <2>2, <2>4 DEF t
  <1>13. /\ BlockSlidingWindow > 0 => \A p \in Prefix : d.prefix[p] = <<>>
         /\ WholePrefixes(d) /\ d.err = "none"
    BY <1>6 DEF Counted, WholePrefixes
  <1>14. Counted(d)
    BY <1>9, <1>10, <1>11, <1>12, <1>13 DEF Counted
  <1>15. Len(t) < n
    BY DEF NeedsNewBlock
  <1>16. Holders(d, u[Len(u)]) = {s} /\ Pins(d, u[Len(u)]) = {}
    BY <1>3, <1>5, <1>8
  <1>17. d.tables[s] = u /\ \A q \in SeqId \ {s} : d.tables[q] = c.tables[q]
    BY <1>6
  <1>18. Range(u) \subseteq Range(t) \cup c.gpu
    BY <1>5
  <1>19. d.gpu \subseteq c.gpu /\ c.gpu \ {b} \subseteq d.gpu
    BY <1>6
  <1>20. Len(u) = IF Len(t) < n THEN Len(t) + 1 ELSE Len(t)
    BY <1>5, <1>15
  <1>21. SameFront(t, u)
    BY <1>4, <1>5 DEF SameFront
  <1> QED  BY <1>6, <1>14, <1>16, <1>17, <1>18, <1>19, <1>20, <1>21 DEF Extended

(* The last block is s's own, or the window comes round to one that is:    *)
(* append_slot writes into it.                                             *)
LEMMA ReusedTable ==
  ASSUME NEW t \in Seq(Block), t # <<>>, Ring(t), NEW n \in Nat, ~NeedsNewBlock(t, n)
  PROVE  LET u == Reused(t, n)
         IN  /\ u \in Seq(Block) /\ u # <<>> /\ Ring(u) /\ Range(u) = Range(t)
             /\ Len(u) = IF Len(t) < n THEN Len(t) + 1 ELSE Len(t)
             /\ u[Len(u)] \in Range(t) /\ SameFront(t, u)
             /\ BlockSlidingWindow = 0 => u = t
  <1> DEFINE w == BlockSlidingWindow
             pos == (Len(t) % w) + 1
             u == Reused(t, n)
  <1>1. Len(t) \in Nat \ {0} /\ DOMAIN t = 1 .. Len(t)
    BY LenProperties, EmptySeq
  <1>2. CASE ~(Len(t) < n)
    <2>1. u = t
      BY <1>2 DEF Reused
    <2>2. t[Len(t)] \in Range(t)
      BY <1>1 DEF Range
    <2>3. SameFront(t, t)
      BY <1>1 DEF SameFront
    <2> QED  BY <1>2, <2>1, <2>2, <2>3
  <1>3. CASE Len(t) < n
    <2>1. w \in Nat \ {0} /\ Len(t) >= w
      BY <1>3, BlockAssumption DEF NeedsNewBlock
    <2>2. u = Append(t, t[pos])
      BY <1>3 DEF Reused
    <2>3. Len(t) % w \in 0 .. w - 1 /\ (Len(t) % w) % w = Len(t) % w
      BY <1>1, <2>1, ModMod
    <2>4. pos \in 1 .. Len(t) /\ pos - 1 = Len(t) % w
      BY <1>1, <2>1, <2>3
    <2>5. t[pos] \in Block /\ t[pos] \in Range(t)
      BY <1>1, <2>4, ElementOfSeq DEF Range
    <2>6. /\ u \in Seq(Block) /\ Len(u) = Len(t) + 1 /\ u[Len(u)] = t[pos]
          /\ DOMAIN u = 1 .. Len(t) + 1 /\ \A i \in 1 .. Len(t) : u[i] = t[i]
          /\ Range(u) = Range(t) \cup {t[pos]}
      <3> HIDE DEF pos
      <3> QED  BY <2>2, <2>5, AppendedTable
    <2> HIDE DEF u
    <2>7. \A i : SamePlace(i, Len(t) + 1) <=> SamePlace(i, pos)
      <3>1. (Len(t) + 1) - 1 = Len(t)
        BY <1>1
      <3> HIDE DEF pos
      <3> QED  BY <2>1, <2>3, <2>4, <3>1 DEF SamePlace
    <2>8. \A i : SamePlace(Len(t) + 1, i) <=> SamePlace(pos, i)
      <3>1. (Len(t) + 1) - 1 = Len(t)
        BY <1>1
      <3> HIDE DEF pos
      <3> QED  BY <2>1, <2>3, <2>4, <3>1 DEF SamePlace
    <2> HIDE DEF pos
    <2>9. Range(u) = Range(t)
      BY <2>5, <2>6
    <2>12. \A i \in 1 .. Len(t) + 1 : i \in 1 .. Len(t) \/ i = Len(t) + 1
      BY <1>1
    <2>10. Ring(u)
      BY <1>1, <2>4, <2>6, <2>7, <2>8, <2>12 DEF Ring
    <2>11. u # <<>>
      BY <1>1, <2>6, EmptySeq
    <2>13. SameFront(t, u)
      BY <1>1, <2>6 DEF SameFront
    <2> QED  BY <1>3, <2>1, <2>5, <2>6, <2>9, <2>10, <2>11, <2>13 DEF u
  <1> QED  BY <1>2, <1>3

LEMMA CountedReuses ==
  ASSUME NEW c \in BlockManagers, Counted(c), NEW s \in SeqId, c.tables[s] # <<>>,
         NEW n \in Nat, ~NeedsNewBlock(c.tables[s], n), ~NeedsCopy(c, s, n),
         NEW d \in AppendSlot(c, s, n)
  PROVE  Extended(c, d, s, n)
  <1> DEFINE t == c.tables[s]
             u == Reused(t, n)
  <1>1. t \in Seq(Block) /\ Range(t) \subseteq Block /\ Ring(t)
    BY TableFacts DEF Counted
  <1>2. /\ u \in Seq(Block) /\ Ring(u) /\ Range(u) = Range(t)
        /\ Len(u) = IF Len(t) < n THEN Len(t) + 1 ELSE Len(t)
        /\ u[Len(u)] \in Range(t) /\ SameFront(t, u)
    BY <1>1, ReusedTable
  <1>3. d = [c EXCEPT !.tables = [c.tables EXCEPT ![s] = u]]
    BY DEF AppendSlot
  <1>4. c.ref[u[Len(u)]] = 1
    BY DEF NeedsCopy
  <1> HIDE DEF u
  <1>5. /\ d.gpu = c.gpu /\ d.cpu = c.cpu /\ d.err = c.err /\ d.prefix = c.prefix
        /\ d.ref = c.ref
        /\ \A q \in SeqId : d.tables[q] = IF q = s THEN u ELSE c.tables[q]
    BY <1>3 DEF BlockManagers
  <1>6. \A q \in SeqId : Range(d.tables[q]) = Range(c.tables[q])
    BY <1>2, <1>5
  <1>7. \A b : Holders(d, b) = Holders(c, b) /\ Pins(d, b) = Pins(c, b)
    BY <1>5, <1>6 DEF Holders, Pins
  <1>8. Counted(d)
    BY <1>2, <1>5, <1>6, <1>7 DEF Counted, WholePrefixes
  <1>9. Holders(d, u[Len(u)]) = {s} /\ Pins(d, u[Len(u)]) = {}
    <2> DEFINE H == Holders(c, u[Len(u)])
    <2>1. s \in H /\ H \in SUBSET SeqId
      BY <1>2 DEF Holders
    <2> DEFINE P == Pins(c, u[Len(u)])
    <2>2. Cardinality(H) = 1 /\ P = {}
      <3>1. Cardinality(H) + Cardinality(P) = 1
        BY <1>1, <1>2, <1>4 DEF Counted
      <3>2. Cardinality(H) \in Nat /\ Cardinality(H) # 0
        BY <2>1, SeqsAreFinite
      <3>3. Cardinality(P) \in Nat /\ (Cardinality(P) = 0 <=> P = {})
        BY PinFacts
      <3> HIDE DEF H, P
      <3> QED  BY <3>1, <3>2, <3>3
    <2> HIDE DEF H
    <2>3. \E x : H = {x}
      BY <2>1, <2>2, SeqsAreFinite, FS_Singleton
    <2>4. H = {s}
      BY <2>1, <2>3
    <2> QED  BY <1>7, <2>2, <2>4 DEF H
  <1> QED  BY <1>2, <1>5, <1>8, <1>9 DEF Extended

(* Copy on write: the shared block loses one holder, the copy has one.     *)
LEMMA CountedCopies ==
  ASSUME NEW c \in BlockManagers, Counted(c), NEW s \in SeqId, c.tables[s] # <<>>,
         NEW n \in Nat, NeedsCopy(c, s, n), c.gpu # {}, NEW d \in AppendSlot(c, s, n)
  PROVE  Extended(c, d, s, n)
  <1> DEFINE t    == c.tables[s]
             last == t[Len(t)]
             Take(b) ==
               [c EXCEPT !.gpu = c.gpu \ {b}, !.ref = [c.ref EXCEPT ![b] = 1],
                         !.tables = [c.tables EXCEPT ![s] = [t EXCEPT ![Len(t)] = b]]]
             one  == [b \in Block |-> IF b = last THEN 1 ELSE 0]
  <1>1. t \in Seq(Block) /\ Range(t) \subseteq Block /\ Ring(t) /\ DOMAIN t = 1 .. Len(t)
    BY TableFacts DEF Counted
  <1>2. ~NeedsNewBlock(t, n)
    BY DEF NeedsCopy
  <1>3. Len(t) \in Nat \ {0} /\ Len(t) \in DOMAIN t
    BY <1>1, LenProperties, EmptySeq
  <1>4. c.ref[Reused(t, n)[Len(Reused(t, n))]] # 1
    BY DEF NeedsCopy
  <1>5. BlockSlidingWindow = 0
    <2> SUFFICES ASSUME BlockSlidingWindow # 0 PROVE FALSE
      OBVIOUS
    <2> DEFINE x == Reused(t, n)[Len(Reused(t, n))]
    <2>1. x \in Range(t)
      BY <1>1, <1>2, ReusedTable
    <2> HIDE DEF x
    <2>2. \A q \in SeqId : q # s => Range(t) \cap Range(c.tables[q]) = {}
      BY BlockAssumption DEF Counted
    <2>3. Holders(c, x) = {s}
      BY <2>1, <2>2 DEF Holders
    <2>4. c.ref[x] = Cardinality(Holders(c, x)) + Cardinality(Pins(c, x))
      BY <1>1, <2>1 DEF Counted
    <2>6. Cardinality(Pins(c, x)) = 0
      BY BlockAssumption, NothingPinned DEF Counted
    <2>5. Cardinality({s}) = 1
      BY FS_Singleton
    <2> QED  BY <1>4, <2>3, <2>4, <2>5, <2>6 DEF x
  <1>6. Reused(t, n) = t /\ ~(Len(t) < n)
    BY <1>2, <1>3, <1>5 DEF NeedsNewBlock, Reused
  <1>7. last \in Block /\ c.ref[last] # 1 /\ s \in Holders(c, last)
    BY <1>1, <1>3, <1>4, <1>6 DEF Range, Holders
  <1>8. AppendSlot(c, s, n) = {FreeBlocks(Take(b), one) : b \in c.gpu}
    BY <1>2, <1>6 DEF AppendSlot
  <1>9. PICK b \in c.gpu : d = FreeBlocks(Take(b), one)
    BY <1>8
  <1> DEFINE u == [t EXCEPT ![Len(t)] = b]
  <1>10. b \in Block /\ b \notin c.cpu /\ Holders(c, b) = {} /\ Pins(c, b) = {}
    BY BlockAssumption, FreeBlocksOf DEF Counted, BlockManagers
  <1>11. b # last
    BY <1>7, <1>10
  <1>12. /\ Take(b).gpu = c.gpu \ {b} /\ Take(b).cpu = c.cpu /\ Take(b).err = c.err
         /\ Take(b).prefix = c.prefix
         /\ \A x \in Block : Take(b).ref[x] = IF x = b THEN 1 ELSE c.ref[x]
         /\ \A q \in SeqId : Take(b).tables[q] = IF q = s THEN u ELSE c.tables[q]
    BY <1>10 DEF BlockManagers
  <1>13. Take(b) \in BlockManagers
    <2>1. u \in Seq(Block)
      BY <1>1, <1>10, ExceptType
    <2>2. [c.ref EXCEPT ![b] = 1] \in [Block -> Nat]
      BY DEF BlockManagers
    <2>3. [c.tables EXCEPT ![s] = u] \in [SeqId -> Seq(Block)]
      BY <2>1 DEF BlockManagers
    <2> HIDE DEF u
    <2> QED  BY <2>2, <2>3 DEF BlockManagers, u
  <1>14. c.ref[last] \in Nat /\ c.ref[last] >= 2
    <2>1. /\ c.ref[last] = Cardinality(Holders(c, last)) + Cardinality(Pins(c, last))
          /\ Cardinality(Pins(c, last)) \in Nat
      BY <1>7, PinFacts DEF Counted
    <2>2. Cardinality(Holders(c, last)) \in Nat /\ Cardinality(Holders(c, last)) # 0
      <3>1. Holders(c, last) \in SUBSET SeqId
        BY DEF Holders
      <3> QED  BY <1>7, <3>1, SeqsAreFinite
    <2> QED  BY <1>7, <2>1, <2>2
  <1> HIDE DEF Take, u, last
  <1>15. /\ d.gpu = c.gpu \ {b} /\ d.cpu = c.cpu /\ d.err = c.err /\ d.prefix = c.prefix
         /\ \A x \in Block : d.ref[x] = IF x = b THEN 1
                                        ELSE IF x = last THEN c.ref[x] - 1 ELSE c.ref[x]
         /\ \A q \in SeqId : d.tables[q] = IF q = s THEN u ELSE c.tables[q]
    <2> DEFINE e == Take(b)
               back == {x \in Block : one[x] > 0 /\ one[x] = e.ref[x]}
    <2>1. \A x \in Block : e.ref[x] \in Nat
      BY <1>13 DEF BlockManagers
    <2>2. \A x \in Block : ~(one[x] > e.ref[x])
      BY <1>11, <1>12, <1>14, <2>1
    <2>3. back = {}
      BY <1>11, <1>12, <1>14
    <2>4. d = [e EXCEPT !.ref = [x \in Block |-> e.ref[x] - one[x]],
                        !.gpu = e.gpu \cup (back \cap GpuBlock),
                        !.cpu = e.cpu \cup (back \cap CpuBlock)]
      <3> HIDE DEF one, e
      <3> QED  BY <1>9, <2>2 DEF FreeBlocks, e
    <2> HIDE DEF e, back, one
    <2>5. /\ d.gpu = e.gpu /\ d.cpu = e.cpu /\ d.err = e.err /\ d.prefix = e.prefix
          /\ d.tables = e.tables
          /\ \A x \in Block : d.ref[x] = e.ref[x] - one[x]
      <3>1. e \in BlockManagers
        BY <1>13 DEF e
      <3> QED  BY <2>3, <2>4, <3>1 DEF BlockManagers
    <2>6. \A x \in Block : e.ref[x] - one[x] = IF x = b THEN 1
                             ELSE IF x = last THEN c.ref[x] - 1 ELSE c.ref[x]
      <3>1. \A x \in Block : c.ref[x] \in Nat
        BY DEF BlockManagers
      <3> QED  BY <1>11, <1>12, <3>1 DEF e, one
    <2> QED  BY <1>12, <2>5, <2>6 DEF e
  <1>16. /\ u \in Seq(Block) /\ Len(u) = Len(t) /\ DOMAIN u = 1 .. Len(t)
         /\ u[Len(t)] = b /\ \A i \in DOMAIN t : i # Len(t) => u[i] = t[i]
    <2>1. u \in Seq(Block) /\ DOMAIN u = 1 .. Len(t)
      BY <1>1, <1>10, ExceptType DEF u
    <2>2. Len(u) = Len(t)
      BY <1>3, <2>1, FunctionIsSeq, LenProperties
    <2> QED  BY <1>1, <1>3, <2>1, <2>2 DEF u
  <1>17. \A i, j \in DOMAIN t : t[i] = t[j] <=> i = j
    BY <1>1, <1>5 DEF Ring, SamePlace
  <1>18. Range(u) = (Range(t) \ {last}) \cup {b}
    BY <1>1, <1>3, <1>16, <1>17 DEF Range, last
  <1>19. b \notin Range(t)
    BY <1>10 DEF Holders
  <1>20. Ring(u)
    <2>1. \A i \in DOMAIN t : t[i] # b
      BY <1>19 DEF Range
    <2> QED  BY <1>1, <1>5, <1>16, <1>17, <2>1 DEF Ring, SamePlace
  <1>21. \A x \in Block : Holders(d, x) = IF x = b THEN {s}
                            ELSE IF x = last THEN Holders(c, x) \ {s} ELSE Holders(c, x)
    BY <1>7, <1>10, <1>11, <1>15, <1>18 DEF Holders
  <1>p. \A x \in Block : Pins(d, x) = Pins(c, x)
    BY <1>15 DEF Pins
  <1>22. /\ Cardinality(Holders(c, last) \ {s}) = Cardinality(Holders(c, last)) - 1
         /\ Cardinality(Holders(c, last)) \in Nat
    <2>1. Holders(c, last) \in SUBSET SeqId
      BY DEF Holders
    <2>2. IsFiniteSet(Holders(c, last))
      BY <2>1, SeqsAreFinite
    <2> QED  BY <1>7, <2>2, FS_RemoveElement, FS_CardinalityType
  <1>23. \A x \in Block : d.ref[x] = Cardinality(Holders(d, x)) + Cardinality(Pins(d, x))
    <2> SUFFICES ASSUME NEW x \in Block
                 PROVE  d.ref[x] = Cardinality(Holders(d, x)) + Cardinality(Pins(c, x))
      BY <1>p
    <2>1. /\ c.ref[x] = Cardinality(Holders(c, x)) + Cardinality(Pins(c, x))
          /\ Cardinality(Pins(c, x)) \in Nat
      BY PinFacts DEF Counted
    <2>2. Cardinality({s}) = 1 /\ Cardinality({}) = 0
      BY FS_Singleton, FS_EmptySet
    <2>3. CASE x = b
      <3>1. Holders(d, x) = {s} /\ Pins(c, x) = {} /\ d.ref[x] = 1
        BY <1>10, <1>15, <1>21, <2>3
      <3> QED  BY <2>2, <3>1
    <2>4. CASE x = last
      <3>1. d.ref[x] = c.ref[x] - 1 /\ Holders(d, x) = Holders(c, x) \ {s}
        BY <1>11, <1>15, <1>21, <2>4
      <3>2. /\ Cardinality(Holders(c, x) \ {s}) = Cardinality(Holders(c, x)) - 1
            /\ Cardinality(Holders(c, x)) \in Nat
        BY <1>22, <2>4
      <3> QED  BY <2>1, <3>1, <3>2
    <2>5. CASE x # b /\ x # last
      BY <1>15, <1>21, <2>1, <2>5
    <2> QED  BY <2>3, <2>4, <2>5
  <1>24. Holders(c, last) \ {s} # {} \/ Pins(c, last) # {}
    <2>1. c.ref[last] = Cardinality(Holders(c, last)) + Cardinality(Pins(c, last))
      BY <1>7 DEF Counted
    <2>2. Cardinality(Holders(c, last) \ {s}) # 0 \/ Cardinality(Pins(c, last)) # 0
      BY <1>14, <1>22, <2>1
    <2> QED  BY <2>2, FS_EmptySet
  <1>25. \A x \in Block : x \in d.gpu \cup d.cpu <=> Holders(d, x) = {} /\ Pins(d, x) = {}
    <2>1. \A x \in Block :
            x \in c.gpu \cup c.cpu <=> Holders(c, x) = {} /\ Pins(c, x) = {}
      BY DEF Counted
    <2> QED  BY <1>7, <1>10, <1>15, <1>21, <1>24, <1>p, <2>1
  <1>26. \A q \in SeqId : Ring(d.tables[q])
    BY <1>15, <1>20 DEF Counted
  <1>27. WholePrefixes(d) /\ d.err = "none"
    BY <1>15 DEF Counted, WholePrefixes
  <1>28. Counted(d)
    BY <1>5, <1>23, <1>25, <1>26, <1>27 DEF Counted
  <1>29. Range(u) \subseteq Range(t) \cup c.gpu
    BY <1>18
  <1>30. d.gpu \subseteq c.gpu /\ c.gpu \ {b} \subseteq d.gpu
    BY <1>15
  <1>31. Holders(d, u[Len(u)]) = {s} /\ Pins(d, u[Len(u)]) = {}
    BY <1>10, <1>16, <1>21, <1>p
  <1>32. d.tables[s] = u /\ \A q \in SeqId \ {s} : d.tables[q] = c.tables[q]
    BY <1>15
  <1>33. Len(u) = IF Len(t) < n THEN Len(t) + 1 ELSE Len(t)
    BY <1>6, <1>16
  <1>34. SameFront(t, u)
    BY <1>1, <1>3, <1>16 DEF SameFront
  <1> QED  BY <1>15, <1>28, <1>29, <1>30, <1>31, <1>32, <1>33, <1>34 DEF Extended

LEMMA CountedAppend ==
  ASSUME NEW c \in BlockManagers, Counted(c), NEW s \in SeqId, c.tables[s] # <<>>,
         NEW n \in Nat, c.gpu # {}, NEW d \in AppendSlot(c, s, n)
  PROVE  Extended(c, d, s, n)
  <1>1. CASE NeedsNewBlock(c.tables[s], n)
    BY <1>1, CountedGrows
  <1>2. CASE ~NeedsNewBlock(c.tables[s], n) /\ ~NeedsCopy(c, s, n)
    BY <1>2, CountedReuses
  <1>3. CASE NeedsCopy(c, s, n)
    BY <1>3, CountedCopies
  <1> QED  BY <1>1, <1>2, <1>3

-----------------------------------------------------------------------------
(* Without a window a table lists a block once, so its uses by ss are the  *)
(* holders of the block among ss.                                          *)
LEMMA UsesAreHolders ==
  ASSUME BlockSlidingWindow = 0, NEW c \in BlockManagers, Counted(c),
         NEW ss \in SUBSET SeqId, NEW b
  PROVE  Uses(c, ss, b) = Cardinality(Holders(c, b) \cap ss)
  <1> DEFINE at(s)  == {s} \X {i \in DOMAIN c.tables[s] : c.tables[s][i] = b}
             places == UNION {at(s) : s \in ss}
             H      == Holders(c, b) \cap ss
             who    == [x \in places |-> x[1]]
  <1>1. \A s \in ss : \A i, j \in DOMAIN c.tables[s] :
          c.tables[s][i] = c.tables[s][j] => i = j
    BY DEF Counted, Ring, SamePlace
  <1>2. \A x \in places : \E s \in ss : \E i \in DOMAIN c.tables[s] :
          x = <<s, i>> /\ c.tables[s][i] = b
    OBVIOUS
  <1>3. \A s \in ss : \A i \in DOMAIN c.tables[s] :
          c.tables[s][i] = b => <<s, i>> \in places
    OBVIOUS
  <1> HIDE DEF places
  <1>4. who \in [places -> H]
    <2> SUFFICES ASSUME NEW x \in places PROVE x[1] \in H
      OBVIOUS
    <2>1. PICK s \in ss : \E i \in DOMAIN c.tables[s] : x = <<s, i>> /\ c.tables[s][i] = b
      BY <1>2
    <2>2. x[1] = s /\ b \in Range(c.tables[s])
      BY <2>1 DEF Range
    <2> QED  BY <2>2 DEF Holders
  <1>5. \A x, y \in places : who[x] = who[y] => x = y
    <2> SUFFICES ASSUME NEW x \in places, NEW y \in places, x[1] = y[1]
                 PROVE  x = y
      OBVIOUS
    <2>1. PICK s \in ss : \E i \in DOMAIN c.tables[s] : x = <<s, i>> /\ c.tables[s][i] = b
      BY <1>2
    <2>2. PICK q \in ss : \E i \in DOMAIN c.tables[q] : y = <<q, i>> /\ c.tables[q][i] = b
      BY <1>2
    <2>3. PICK i \in DOMAIN c.tables[s] : x = <<s, i>> /\ c.tables[s][i] = b
      BY <2>1
    <2>4. PICK j \in DOMAIN c.tables[q] : y = <<q, j>> /\ c.tables[q][j] = b
      BY <2>2
    <2>5. s = q
      BY <2>3, <2>4
    <2> QED  BY <1>1, <2>3, <2>4, <2>5
  <1>6. \A s \in H : \E x \in places : who[x] = s
    <2> SUFFICES ASSUME NEW s \in H PROVE \E x \in places : x[1] = s
      OBVIOUS
    <2>1. PICK i \in DOMAIN c.tables[s] : c.tables[s][i] = b
      BY DEF Holders, Range
    <2>2. <<s, i>> \in places
      BY <1>3, <2>1
    <2> QED  BY <2>2
  <1>7. IsFiniteSet(H)
    <2>1. H \in SUBSET SeqId
      OBVIOUS
    <2> QED  BY <2>1, SeqsAreFinite
  <1> HIDE DEF who, H
  <1>8. who \in Injection(places, H) /\ who \in Surjection(places, H)
    BY <1>4, <1>5, <1>6 DEF Injection, IsInjective, Surjection
  <1>9. Cardinality(places) = Cardinality(H)
    BY <1>7, <1>8, FS_Injection
  <1> QED  BY <1>9 DEF Uses, places, H

LEMMA CountedFork ==
  ASSUME BlockSlidingWindow = 0, NEW c \in BlockManagers, Counted(c),
         NEW p \in SeqId, NEW k \in SeqId, p # k, c.tables[k] = <<>>,
         NEW d \in Fork(c, p, k)
  PROVE  /\ Counted(d) /\ d \in BlockManagers
         /\ d.tables = [c.tables EXCEPT ![k] = c.tables[p]]
  <1> DEFINE ref == [b \in Block |-> c.ref[b] + Uses(c, {p}, b)]
  <1>1. d = [c EXCEPT !.tables = [c.tables EXCEPT ![k] = c.tables[p]], !.ref = ref]
    BY DEF Fork
  <1>2. \A b \in Block : Uses(c, {p}, b) = IF p \in Holders(c, b) THEN 1 ELSE 0
    <2> SUFFICES ASSUME NEW b \in Block
                 PROVE  Uses(c, {p}, b) = IF p \in Holders(c, b) THEN 1 ELSE 0
      OBVIOUS
    <2>1. Uses(c, {p}, b) = Cardinality(Holders(c, b) \cap {p})
      BY UsesAreHolders
    <2>2. Holders(c, b) \cap {p} = IF p \in Holders(c, b) THEN {p} ELSE {}
      OBVIOUS
    <2> QED  BY <2>1, <2>2, FS_Singleton, FS_EmptySet
  <1> HIDE DEF ref
  <1>3. /\ d.gpu = c.gpu /\ d.cpu = c.cpu /\ d.err = c.err /\ d.prefix = c.prefix
        /\ d.ref = ref /\ d.tables = [c.tables EXCEPT ![k] = c.tables[p]]
    BY <1>1 DEF BlockManagers
  <1>4. \A q \in SeqId : d.tables[q] = IF q = k THEN c.tables[p] ELSE c.tables[q]
    BY <1>3 DEF BlockManagers
  <1>5. \A b : k \notin Holders(c, b)
    BY DEF Holders, Range
  <1>6. \A b \in Block :
          Holders(d, b) = IF p \in Holders(c, b) THEN Holders(c, b) \cup {k}
                          ELSE Holders(c, b)
    BY <1>4, <1>5 DEF Holders
  <1>p. \A b \in Block : Pins(d, b) = Pins(c, b)
    BY <1>3 DEF Pins
  <1>7. \A b \in Block : d.ref[b] = Cardinality(Holders(d, b)) + Cardinality(Pins(d, b))
    <2> SUFFICES ASSUME NEW b \in Block
                 PROVE  d.ref[b] = Cardinality(Holders(d, b)) + Cardinality(Pins(c, b))
      BY <1>p
    <2>1. Holders(c, b) \in SUBSET SeqId
      BY DEF Holders
    <2>2. IsFiniteSet(Holders(c, b)) /\ Cardinality(Holders(c, b)) \in Nat
      BY <2>1, SeqsAreFinite
    <2>3. Cardinality(Holders(c, b) \cup {k}) = Cardinality(Holders(c, b)) + 1
      BY <1>5, <2>2, FS_AddElement
    <2>4. /\ c.ref[b] = Cardinality(Holders(c, b)) + Cardinality(Pins(c, b))
          /\ Cardinality(Pins(c, b)) \in Nat
      BY PinFacts DEF Counted
    <2>5. d.ref[b] = c.ref[b] + Uses(c, {p}, b)
      BY <1>3 DEF ref
    <2>6. CASE p \in Holders(c, b)
      <3>1. Uses(c, {p}, b) = 1 /\ Holders(d, b) = Holders(c, b) \cup {k}
        BY <1>2, <1>6, <2>6
      <3>2. Cardinality(Holders(d, b)) = Cardinality(Holders(c, b)) + 1
        BY <2>3, <3>1
      <3> QED  BY <2>2, <2>4, <2>5, <3>1, <3>2
    <2>7. CASE p \notin Holders(c, b)
      <3>1. Uses(c, {p}, b) = 0
        BY <1>2, <2>7
      <3>2. Holders(d, b) = Holders(c, b)
        BY <1>6, <2>7
      <3> QED  BY <2>2, <2>4, <2>5, <3>1, <3>2
    <2> QED  BY <2>6, <2>7
  <1>8. \A b \in Block : b \in d.gpu \cup d.cpu <=> Holders(d, b) = {} /\ Pins(d, b) = {}
    BY <1>3, <1>6, <1>p DEF Counted
  <1>9. \A q \in SeqId : Ring(d.tables[q])
    BY <1>4 DEF Counted
  <1>10. WholePrefixes(d) /\ d.err = "none"
    BY <1>3 DEF Counted, WholePrefixes
  <1>11. Counted(d)
    BY <1>7, <1>8, <1>9, <1>10 DEF Counted
  <1>12. d \in BlockManagers
    <2>1. ref \in [Block -> Nat]
      <3>1. \A b \in Block : c.ref[b] \in Nat
        BY DEF BlockManagers
      <3>2. ASSUME NEW b \in Block
            PROVE  c.ref[b] + Uses(c, {p}, b) \in Nat
        <4>1. Uses(c, {p}, b) = 0 \/ Uses(c, {p}, b) = 1
          BY <1>2
        <4>2. c.ref[b] \in Nat
          BY <3>1
        <4> QED  BY <4>1, <4>2
      <3>3. \A b \in Block : c.ref[b] + Uses(c, {p}, b) \in Nat
        BY <3>2
      <3> QED  BY <3>3 DEF ref
    <2>2. [c.tables EXCEPT ![k] = c.tables[p]] \in [SeqId -> Seq(Block)]
      BY DEF BlockManagers
    <2> QED  BY <1>1, <2>1, <2>2 DEF BlockManagers
  <1> QED  BY <1>3, <1>11, <1>12

-----------------------------------------------------------------------------
(* A swap moves every block of ss to a free one; its holders among ss come *)
(* along, the others (there are none when ss is a whole group) keep it.    *)
LEMMA CountedMoved ==
  ASSUME BlockSlidingWindow = 0, NEW c \in BlockManagers, Counted(c),
         \A p \in Prefix : c.prefix[p] = <<>>,
         NEW ss \in SUBSET SeqId, NEW dev \in {c.gpu, c.cpu},
         NEW m \in Injection(BlocksOf(c, ss), dev),
         NEW d, d = Moved(c, ss, BlocksOf(c, ss), m)
  PROVE  /\ Counted(d)
         /\ \A s \in SeqId \ ss : d.tables[s] = c.tables[s]
         /\ \A s \in ss : /\ Range(d.tables[s]) \subseteq dev
                          /\ Len(d.tables[s]) = Len(c.tables[s])
         /\ c.gpu \ Range(m) \subseteq d.gpu
  <1> DEFINE moved   == BlocksOf(c, ss)
             kept(q) == IF Range(q) \subseteq moved THEN q
                        ELSE SelectSeq(q, LAMBDA b : b \in moved)
             to(b)   == CHOOSE x \in moved : m[x] = b
             uses    == [b \in Block |-> Uses(c, ss, b)]
             freed   == FreeBlocks(c, uses)
             ref     == [b \in Block |-> IF b \in Range(m) THEN Uses(c, ss, to(b))
                                         ELSE freed.ref[b]]
             tables  == [s \in SeqId |->
                           IF s \in ss
                           THEN [i \in DOMAIN kept(c.tables[s]) |->
                                   m[kept(c.tables[s])[i]]]
                           ELSE c.tables[s]]
             back    == {b \in Block : uses[b] > 0 /\ uses[b] = c.ref[b]}
             u(s)    == [i \in DOMAIN c.tables[s] |-> m[c.tables[s][i]]]
  <1>1. \A s \in SeqId : /\ c.tables[s] \in Seq(Block) /\ Len(c.tables[s]) \in Nat
                         /\ DOMAIN c.tables[s] = 1 .. Len(c.tables[s])
                         /\ Range(c.tables[s]) \subseteq Block
    BY TableFacts
  <1>2. moved \subseteq Block
    BY <1>1 DEF BlocksOf
  <1>3. \A b : Uses(c, ss, b) = Cardinality(Holders(c, b) \cap ss)
    BY UsesAreHolders
  <1>u. \A b \in Block : /\ c.ref[b] = Cardinality(Holders(c, b))
                         /\ b \in c.gpu \cup c.cpu <=> Holders(c, b) = {}
    <2> SUFFICES ASSUME NEW b \in Block
                 PROVE  /\ c.ref[b] = Cardinality(Holders(c, b))
                        /\ b \in c.gpu \cup c.cpu <=> Holders(c, b) = {}
      OBVIOUS
    <2>1. Pins(c, b) = {} /\ Cardinality(Pins(c, b)) = 0
      BY NothingPinned
    <2>2. Cardinality(Holders(c, b)) \in Nat
      <3>1. Holders(c, b) \in SUBSET SeqId
        BY DEF Holders
      <3> QED  BY <3>1, SeqsAreFinite
    <2>3. c.ref[b] = Cardinality(Holders(c, b)) + Cardinality(Pins(c, b))
      BY DEF Counted
    <2>4. b \in c.gpu \cup c.cpu <=> Holders(c, b) = {} /\ Pins(c, b) = {}
      BY DEF Counted
    <2>5. c.ref[b] = Cardinality(Holders(c, b))
      BY <2>1, <2>2, <2>3
    <2> QED  BY <2>1, <2>4, <2>5
  <1>4. \A b \in Block : /\ c.ref[b] = Cardinality(Holders(c, b))
                         /\ uses[b] = Cardinality(Holders(c, b) \cap ss)
                         /\ c.ref[b] \in Nat /\ uses[b] \in Nat /\ uses[b] <= c.ref[b]
                         /\ c.ref[b] - uses[b] = Cardinality(Holders(c, b) \ ss)
    <2> SUFFICES ASSUME NEW b \in Block
                 PROVE  /\ c.ref[b] = Cardinality(Holders(c, b))
                        /\ uses[b] = Cardinality(Holders(c, b) \cap ss)
                        /\ c.ref[b] \in Nat /\ uses[b] \in Nat /\ uses[b] <= c.ref[b]
                        /\ c.ref[b] - uses[b] = Cardinality(Holders(c, b) \ ss)
      OBVIOUS
    <2>1. Holders(c, b) \ ss \in SUBSET SeqId
      BY DEF Holders
    <2>2. /\ Cardinality(Holders(c, b)) \in Nat /\ Cardinality(Holders(c, b) \cap ss) \in Nat
          /\ Cardinality(Holders(c, b) \ ss)
               = Cardinality(Holders(c, b)) - Cardinality(Holders(c, b) \cap ss)
      BY HoldersSplit
    <2>3. Cardinality(Holders(c, b) \ ss) \in Nat
      BY <2>1, SeqsAreFinite
    <2>4. uses[b] = Cardinality(Holders(c, b) \cap ss) /\ c.ref[b] = Cardinality(Holders(c, b))
      BY <1>3, <1>u
    <2> QED  BY <2>2, <2>3, <2>4
  <1>5. d = [freed EXCEPT !.gpu = freed.gpu \ Range(m), !.cpu = freed.cpu \ Range(m),
                          !.ref = ref, !.tables = tables]
    BY DEF Moved
  <1>6. \A s \in SeqId : tables[s] = IF s \in ss THEN u(s) ELSE c.tables[s]
    <2>1. \A s \in ss : kept(c.tables[s]) = c.tables[s]
      BY DEF BlocksOf
    <2> QED  BY <2>1
  <1>7. m \in [moved -> dev] /\ IsInjective(m) /\ DOMAIN m = moved
    BY DEF Injection
  <1>8. \A x \in moved : to(m[x]) = x
    <2> SUFFICES ASSUME NEW x \in moved PROVE to(m[x]) = x
      OBVIOUS
    <2>1. \A y \in moved : m[y] = m[x] => y = x
      BY <1>7 DEF IsInjective
    <2> QED  BY <2>1
  <1> HIDE DEF uses, tables, to, moved
  <1>9. \A b \in Block : b \in back <=> Holders(c, b) # {} /\ Holders(c, b) \subseteq ss
    <2> SUFFICES ASSUME NEW b \in Block
                 PROVE  b \in back <=> Holders(c, b) # {} /\ Holders(c, b) \subseteq ss
      OBVIOUS
    <2>1. b \in back <=> uses[b] > 0 /\ uses[b] = c.ref[b]
      OBVIOUS
    <2>2. uses[b] \in Nat /\ c.ref[b] = Cardinality(Holders(c, b))
          /\ uses[b] = Cardinality(Holders(c, b) \cap ss)
      BY <1>4
    <2>3. uses[b] > 0 /\ uses[b] = c.ref[b]
            <=> Cardinality(Holders(c, b)) # 0
                /\ Cardinality(Holders(c, b)) = Cardinality(Holders(c, b) \cap ss)
      BY <2>2
    <2> QED  BY <2>1, <2>3, HoldersSplit
  <1>10. freed = [c EXCEPT !.ref = [b \in Block |-> c.ref[b] - uses[b]],
                           !.gpu = c.gpu \cup (back \cap GpuBlock),
                           !.cpu = c.cpu \cup (back \cap CpuBlock)]
    <2>1. \A b \in Block : uses[b] \in Nat /\ c.ref[b] \in Nat /\ uses[b] <= c.ref[b]
      BY <1>4
    <2>2. ~ \E b \in Block : uses[b] > c.ref[b]
      BY <2>1
    <2> QED  BY <2>2 DEF FreeBlocks
  <1> HIDE DEF freed, back
  <1>11. /\ freed.gpu = c.gpu \cup (back \cap GpuBlock)
         /\ freed.cpu = c.cpu \cup (back \cap CpuBlock)
         /\ freed.ref = [b \in Block |-> c.ref[b] - uses[b]]
         /\ freed.err = c.err /\ freed.prefix = c.prefix
         /\ freed \in BlockManagers
    <2>1. uses \in [Block -> Nat]
      <3>1. \A b \in Block : uses[b] \in Nat
        BY <1>4
      <3> QED  BY <3>1 DEF uses
    <2>2. freed \in BlockManagers
      BY <2>1, FreeBlocksType DEF freed
    <2> QED  BY <1>10, <2>2 DEF BlockManagers
  <1>12. /\ d.gpu = (c.gpu \cup (back \cap GpuBlock)) \ Range(m)
         /\ d.cpu = (c.cpu \cup (back \cap CpuBlock)) \ Range(m)
         /\ d.err = c.err /\ d.prefix = c.prefix
         /\ \A b \in Block : d.ref[b] = IF b \in Range(m) THEN Uses(c, ss, to(b))
                                        ELSE c.ref[b] - uses[b]
         /\ \A s \in SeqId : d.tables[s] = IF s \in ss THEN u(s) ELSE c.tables[s]
    <2>1. /\ d.gpu = freed.gpu \ Range(m) /\ d.cpu = freed.cpu \ Range(m)
          /\ d.err = freed.err /\ d.prefix = freed.prefix
          /\ d.ref = ref /\ d.tables = tables
      <3> HIDE DEF ref
      <3> QED  BY <1>5, <1>11 DEF BlockManagers
    <2>2. \A b \in Block : d.ref[b] = IF b \in Range(m) THEN Uses(c, ss, to(b))
                                      ELSE freed.ref[b]
      BY <2>1
    <2>3. \A b \in Block : freed.ref[b] = c.ref[b] - uses[b]
      BY <1>11
    <2> HIDE DEF ref, u
    <2> QED  BY <1>6, <1>11, <2>1, <2>2, <2>3
  <1>13. /\ Range(m) \subseteq dev /\ dev \subseteq c.gpu \cup c.cpu /\ dev \subseteq Block
         /\ \A b \in Range(m) : Holders(c, b) = {}
    <2>1. Range(m) \subseteq dev /\ dev \subseteq c.gpu \cup c.cpu /\ dev \subseteq Block
      BY <1>7, FreeBlocksOf DEF Range
    <2> QED  BY <1>u, <2>1
  <1>14. \A s \in ss : \A i \in DOMAIN c.tables[s] : c.tables[s][i] \in moved
    BY DEF moved, BlocksOf, Range
  <1>15. \A s \in ss : \A x \in moved : m[x] \in Range(u(s)) <=> x \in Range(c.tables[s])
    <2> SUFFICES ASSUME NEW s \in ss, NEW x \in moved
                 PROVE  m[x] \in Range(u(s)) <=> x \in Range(c.tables[s])
      OBVIOUS
    <2>1. m[x] \in Range(u(s)) <=> \E i \in DOMAIN c.tables[s] : m[c.tables[s][i]] = m[x]
      BY DEF Range
    <2>2. \A i \in DOMAIN c.tables[s] : m[c.tables[s][i]] = m[x] <=> c.tables[s][i] = x
      BY <1>7, <1>14 DEF IsInjective
    <2> QED  BY <2>1, <2>2 DEF Range
  <1>16. \A s \in ss : /\ Range(u(s)) \subseteq Range(m) /\ Ring(u(s))
                       /\ Len(u(s)) = Len(c.tables[s])
    <2> SUFFICES ASSUME NEW s \in ss
                 PROVE  /\ Range(u(s)) \subseteq Range(m) /\ Ring(u(s))
                        /\ Len(u(s)) = Len(c.tables[s])
      OBVIOUS
    <2>1. Range(u(s)) \subseteq Range(m)
      BY <1>7, <1>14 DEF Range
    <2>2. \A i, j \in DOMAIN c.tables[s] : c.tables[s][i] = c.tables[s][j] <=> i = j
      BY DEF Counted, Ring, SamePlace
    <2>3. \A i, j \in DOMAIN c.tables[s] : u(s)[i] = u(s)[j] <=> i = j
      BY <1>7, <1>14, <2>2 DEF IsInjective
    <2>4. Ring(u(s))
      BY <2>3 DEF Ring, SamePlace
    <2>5. u(s) \in [1 .. Len(c.tables[s]) -> dev]
      BY <1>1, <1>7, <1>14
    <2> HIDE DEF u
    <2> QED  BY <1>1, <2>1, <2>4, <2>5, FunctionIsSeq
  <1> HIDE DEF u
  <1>17. \A x \in moved : Holders(d, m[x]) = Holders(c, x) \cap ss
    <2> SUFFICES ASSUME NEW x \in moved, NEW s \in SeqId
                 PROVE  m[x] \in Range(d.tables[s]) <=> x \in Range(c.tables[s]) /\ s \in ss
      BY DEF Holders
    <2>1. m[x] \in Range(m)
      BY <1>7 DEF Range
    <2>2. m[x] \notin Range(c.tables[s])
      BY <1>13, <2>1 DEF Holders
    <2> QED  BY <1>12, <1>15, <2>2
  <1>18. \A b \in Block \ Range(m) : Holders(d, b) = Holders(c, b) \ ss
    BY <1>12, <1>16 DEF Holders
  <1>19. \A b \in Range(m) : \E x \in moved : b = m[x]
    BY <1>7 DEF Range
  <1>20. \A b \in Block : d.ref[b] = Cardinality(Holders(d, b))
    <2> SUFFICES ASSUME NEW b \in Block PROVE d.ref[b] = Cardinality(Holders(d, b))
      OBVIOUS
    <2>1. CASE b \in Range(m)
      <3>1. PICK x \in moved : b = m[x]
        BY <1>19, <2>1
      <3> QED  BY <1>3, <1>8, <1>12, <1>17, <2>1, <3>1
    <2>2. CASE b \notin Range(m)
      BY <1>4, <1>12, <1>18, <2>2
    <2> QED  BY <2>1, <2>2
  <1>21. \A b \in Block : b \in d.gpu \cup d.cpu <=> Holders(d, b) = {}
    <2> SUFFICES ASSUME NEW b \in Block
                 PROVE  b \in d.gpu \cup d.cpu <=> Holders(d, b) = {}
      OBVIOUS
    <2>1. b \in d.gpu \cup d.cpu
            <=> (b \in c.gpu \cup c.cpu \/ b \in back) /\ b \notin Range(m)
      BY <1>12 DEF Block
    <2>2. CASE b \in Range(m)
      <3>1. PICK x \in moved : b = m[x]
        BY <1>19, <2>2
      <3>2. Holders(c, x) \cap ss # {}
        BY DEF Holders, moved, BlocksOf
      <3> QED  BY <1>17, <2>1, <2>2, <3>1, <3>2
    <2>3. CASE b \notin Range(m)
      BY <1>9, <1>18, <1>u, <2>1, <2>3
    <2> QED  BY <2>2, <2>3
  <1>22. \A s \in SeqId : Ring(d.tables[s])
    BY <1>12, <1>16 DEF Counted
  <1>23. (\A p \in Prefix : d.prefix[p] = <<>>) /\ d.err = "none"
    BY <1>12 DEF Counted
  <1>p. WholePrefixes(d) /\ \A b : Pins(d, b) = {} /\ Cardinality(Pins(d, b)) = 0
    BY <1>23, NothingPinned
  <1>25. \A b \in Block : d.ref[b] = Cardinality(Holders(d, b)) + Cardinality(Pins(d, b))
    <2> SUFFICES ASSUME NEW b \in Block
                 PROVE  d.ref[b] = Cardinality(Holders(d, b)) + Cardinality(Pins(d, b))
      OBVIOUS
    <2>1. Holders(d, b) \in SUBSET SeqId
      BY DEF Holders
    <2>2. Cardinality(Holders(d, b)) \in Nat
      BY <2>1, SeqsAreFinite
    <2> QED  BY <1>20, <1>p, <2>2
  <1>24. Counted(d)
    BY <1>21, <1>22, <1>23, <1>25, <1>p DEF Counted
  <1> QED  BY <1>12, <1>13, <1>16, <1>24

LEMMA BlocksOfFinite ==
  ASSUME NEW c \in BlockManagers, NEW ss \in SUBSET SeqId
  PROVE  IsFiniteSet(BlocksOf(c, ss)) /\ Cardinality(BlocksOf(c, ss)) \in Nat
  <1>1. BlocksOf(c, ss) \in SUBSET Block
    BY TableFacts DEF BlocksOf
  <1> QED  BY <1>1, BlocksAreFinite, FS_Subset, FS_CardinalityType

LEMMA CountedSwapOut ==
  ASSUME BlockSlidingWindow = 0, NEW c \in BlockManagers, Counted(c),
         \A p \in Prefix : c.prefix[p] = <<>>,
         NEW ss \in SUBSET SeqId, CanSwapOut(c, ss), NEW d \in SwapOut(c, ss, NoPrefix)
  PROVE  /\ Counted(d)
         /\ \A s \in SeqId \ ss : d.tables[s] = c.tables[s]
         /\ \A s \in ss : /\ Range(d.tables[s]) \subseteq CpuBlock
                          /\ Len(d.tables[s]) = Len(c.tables[s])
  <1> DEFINE moved == BlocksOf(c, ss)
  <1>1. moved \ {} = moved
    OBVIOUS
  <1>2. ~(Cardinality(moved) > Cardinality(c.cpu))
    BY BlocksOfFinite, FreeBlocksOf DEF CanSwapOut
  <1>3. SwapOut(c, ss, NoPrefix) = {Moved(c, ss, moved, m) : m \in Injection(moved, c.cpu)}
    BY <1>1, <1>2 DEF SwapOut
  <1>4. PICK m \in Injection(moved, c.cpu) : d = Moved(c, ss, moved, m)
    BY <1>3
  <1>5. /\ Counted(d)
        /\ \A s \in SeqId \ ss : d.tables[s] = c.tables[s]
        /\ \A s \in ss : /\ Range(d.tables[s]) \subseteq c.cpu
                         /\ Len(d.tables[s]) = Len(c.tables[s])
    BY <1>4, CountedMoved
  <1> QED  BY <1>5 DEF BlockManagers

(* can_swap_in keeps a free block for the next slot of every sequence.     *)
LEMMA CountedSwapIn ==
  ASSUME BlockSlidingWindow = 0, NEW c \in BlockManagers, Counted(c),
         \A p \in Prefix : c.prefix[p] = <<>>,
         NEW ss \in SUBSET SeqId, CanSwapIn(c, ss), NEW d \in SwapIn(c, ss, NoPrefix)
  PROVE  /\ Counted(d)
         /\ \A s \in SeqId \ ss : d.tables[s] = c.tables[s]
         /\ \A s \in ss : /\ Range(d.tables[s]) \subseteq GpuBlock
                          /\ Len(d.tables[s]) = Len(c.tables[s])
         /\ Cardinality(ss) <= Cardinality(d.gpu)
  <1> DEFINE moved == BlocksOf(c, ss)
  <1>1. /\ IsFiniteSet(moved) /\ IsFiniteSet(c.gpu)
        /\ Cardinality(moved) \in Nat /\ Cardinality(c.gpu) \in Nat
    BY BlocksOfFinite, FreeBlocksOf
  <1>2. Cardinality(c.gpu) >= Cardinality(moved) + Cardinality(ss) /\ Cardinality(ss) \in Nat
    <2>1. Cardinality(c.gpu) - (Cardinality(moved) + Cardinality(ss)) >= WatermarkBlocks
      BY DEF CanSwapIn
    <2>2. Cardinality(ss) \in Nat
      BY SeqsAreFinite
    <2> QED  BY <1>1, <2>1, <2>2, WatermarkNat
  <1>3. SwapIn(c, ss, NoPrefix) = {Moved(c, ss, moved, m) : m \in Injection(moved, c.gpu)}
    <2>1. ~(Cardinality(moved) > Cardinality(c.gpu))
      BY <1>1, <1>2
    <2> QED  BY <2>1 DEF SwapIn
  <1>4. PICK m \in Injection(moved, c.gpu) : d = Moved(c, ss, moved, m)
    BY <1>3
  <1>5. /\ Counted(d)
        /\ \A s \in SeqId \ ss : d.tables[s] = c.tables[s]
        /\ \A s \in ss : /\ Range(d.tables[s]) \subseteq c.gpu
                         /\ Len(d.tables[s]) = Len(c.tables[s])
        /\ c.gpu \ Range(m) \subseteq d.gpu
    BY <1>4, CountedMoved
  <1>6. Cardinality(ss) <= Cardinality(d.gpu)
    <2>1. m \in Surjection(moved, Range(m))
      BY DEF Injection, Surjection, Range
    <2>2. /\ IsFiniteSet(Range(m)) /\ Cardinality(Range(m)) <= Cardinality(moved)
          /\ Cardinality(Range(m)) \in Nat
      BY <1>1, <2>1, FS_Surjection, FS_CardinalityType
    <2>3. /\ Cardinality(c.gpu \ Range(m)) = Cardinality(c.gpu) - Cardinality(c.gpu \cap Range(m))
          /\ Cardinality(c.gpu \cap Range(m)) <= Cardinality(Range(m))
          /\ Cardinality(c.gpu \cap Range(m)) \in Nat
      BY <1>1, <2>2, FS_Difference, FS_Intersection, FS_CardinalityType
    <2>4. d \in BlockManagers
      <3>1. SwapIn(c, ss, NoPrefix) \subseteq BlockManagers
        BY SwapType
      <3> QED  BY <3>1
    <2>5. Cardinality(c.gpu \ Range(m)) <= Cardinality(d.gpu) /\ Cardinality(d.gpu) \in Nat
      BY <1>5, <2>4, FreeBlocksOf, FS_Subset
    <2> QED  BY <1>1, <1>2, <2>2, <2>3, <2>5
  <1>7. c.gpu \subseteq GpuBlock
    BY DEF BlockManagers
  <1> QED  BY <1>5, <1>6, <1>7

-----------------------------------------------------------------------------
(* The slots of a group: each sequence of ss ends in a block of its own.   *)
Slotted(c, d, ss, n) ==
  /\ Counted(d) /\ d \in BlockManagers /\ d.prefix = c.prefix
  /\ \A q \in SeqId \ ss : d.tables[q] = c.tables[q]
  /\ \A s \in ss :
       /\ Len(d.tables[s]) = IF Len(c.tables[s]) < n[s] THEN Len(c.tables[s]) + 1
                             ELSE Len(c.tables[s])
       /\ SameFront(c.tables[s], d.tables[s])
       /\ Range(d.tables[s]) \subseteq GpuBlock
       /\ Holders(d, d.tables[s][Len(d.tables[s])]) = {s}
       /\ Pins(d, d.tables[s][Len(d.tables[s])]) = {}

LEMMA PairCardinality ==
  ASSUME NEW a, NEW b, a # b
  PROVE  Cardinality({a, b}) = 2
  <1> DEFINE S == {a}
  <1>1. IsFiniteSet(S) /\ Cardinality(S) = 1 /\ b \notin S /\ {a, b} = S \cup {b}
    BY FS_Singleton
  <1> HIDE DEF S
  <1>2. Cardinality(S \cup {b}) = Cardinality(S) + 1
    BY <1>1, FS_AddElement
  <1> QED  BY <1>1, <1>2

LEMMA CountedAppendSlots ==
  ASSUME NEW c \in BlockManagers, Counted(c),
         NEW p \in SeqId, NEW k \in SeqId, p # k,
         NEW ss \in SUBSET {p, k}, ss # {}, Cardinality(ss) <= Cardinality(c.gpu),
         \A s \in ss : c.tables[s] # <<>> /\ Range(c.tables[s]) \subseteq GpuBlock,
         NEW n \in [ss -> Nat], NEW d \in AppendSlots(c, ss, n)
  PROVE  Slotted(c, d, ss, n)
  <1>1. c.gpu \subseteq GpuBlock
    BY DEF BlockManagers
  <1>2. CASE \E s \in ss : ss = {s}
    <2>1. PICK s \in SeqId : ss = {s}
      BY <1>2
    <2>2. d \in AppendSlot(c, s, n[s])
      BY <2>1 DEF AppendSlots
    <2>3. c.gpu # {}
      <3>1. Cardinality(ss) = 1 /\ Cardinality({}) = 0
        BY <2>1, FS_Singleton, FS_EmptySet
      <3> SUFFICES ASSUME c.gpu = {} PROVE FALSE
        OBVIOUS
      <3>2. Cardinality(c.gpu) = 0
        BY <3>1
      <3> QED  BY <3>1, <3>2
    <2>4. Extended(c, d, s, n[s]) /\ d \in BlockManagers
      BY <2>1, <2>2, <2>3, CountedAppend, AppendSlotType
    <2> QED  BY <1>1, <2>1, <2>4 DEF Slotted, Extended
  <1>3. CASE ~ \E s \in ss : ss = {s}
    <2> DEFINE Two(r) == UNION {AppendSlot(e, s, n[s]) : s \in ss \ {r},
                                                         e \in AppendSlot(c, r, n[r])}
    <2>13. AppendSlots(c, ss, n) = UNION {Two(r) : r \in ss}
      BY <1>3 DEF AppendSlots
    <2> HIDE DEF Two
    <2>1. PICK r \in ss : d \in Two(r)
      BY <2>13
    <2> USE DEF Two
    <2>2. PICK s \in ss \ {r} : \E e \in AppendSlot(c, r, n[r]) : d \in AppendSlot(e, s, n[s])
      BY <2>1
    <2>3. PICK e \in AppendSlot(c, r, n[r]) : d \in AppendSlot(e, s, n[s])
      BY <2>2
    <2>4. ss = {r, s} /\ r # s /\ r \in SeqId /\ s \in SeqId /\ n[r] \in Nat /\ n[s] \in Nat
      BY <2>2
    <2>5. Cardinality(ss) = 2
      BY <2>4, PairCardinality
    <2>6. \A b : c.gpu \ {b} # {}
      <3> SUFFICES ASSUME NEW b, c.gpu \ {b} = {} PROVE FALSE
        OBVIOUS
      <3>1. IsFiniteSet({b}) /\ Cardinality({b}) = 1 /\ c.gpu \in SUBSET {b}
        BY FS_Singleton
      <3>2. Cardinality(c.gpu) <= 1
        BY <3>1, FS_Subset
      <3> QED  BY <2>5, <3>2, FreeBlocksOf
    <2>7. Extended(c, e, r, n[r]) /\ e \in BlockManagers
      BY <2>3, <2>4, <2>6, CountedAppend, AppendSlotType
    <2>8. e.gpu # {} /\ e.tables[s] = c.tables[s] /\ e.gpu \subseteq c.gpu
      <3>1. PICK b : c.gpu \ {b} \subseteq e.gpu
        BY <2>7 DEF Extended
      <3>2. c.gpu \ {b} # {}
        BY <2>6
      <3>3. e.tables[s] = c.tables[s] /\ e.gpu \subseteq c.gpu
        BY <2>4, <2>7 DEF Extended
      <3> QED  BY <3>1, <3>2, <3>3
    <2>14. e.tables[s] # <<>> /\ Counted(e)
      BY <2>4, <2>7, <2>8 DEF Extended
    <2>9. Extended(e, d, s, n[s]) /\ d \in BlockManagers
      BY <2>3, <2>4, <2>7, <2>8, <2>14, CountedAppend, AppendSlotType
    <2>10. d.tables[r] = e.tables[r] /\ \A q \in SeqId \ ss : d.tables[q] = c.tables[q]
      BY <2>4, <2>7, <2>9 DEF Extended
    <2> DEFINE last == e.tables[r][Len(e.tables[r])]
    <2>15. Pins(d, last) = {}
      <3>1. Pins(e, last) = {} /\ d.prefix = e.prefix
        BY <2>7, <2>9 DEF Extended
      <3> QED  BY <3>1 DEF Pins
    <2>11. Holders(d, last) = {r}
      <3>1. Holders(e, last) = {r}
        BY <2>7 DEF Extended
      <3>2. last \in Range(e.tables[r]) /\ last \in Block
        <4>1. r \in Holders(e, last)
          BY <3>1
        <4> QED  BY <2>4, <2>7, <4>1, TableFacts DEF Holders
      <3>3. last \notin e.gpu
        BY <2>7, <3>1, <3>2 DEF Extended, Counted
      <3>4. last \notin Range(e.tables[s])
        BY <2>4, <3>1 DEF Holders
      <3>5. last \notin Range(d.tables[s])
        BY <2>9, <3>3, <3>4 DEF Extended
      <3>6. \A q \in SeqId \ {s} : d.tables[q] = e.tables[q]
        BY <2>9 DEF Extended
      <3> QED  BY <3>1, <3>4, <3>5, <3>6 DEF Holders
    <2>12. Range(d.tables[r]) \subseteq GpuBlock /\ Range(d.tables[s]) \subseteq GpuBlock
      BY <1>1, <2>4, <2>7, <2>8, <2>9, <2>10 DEF Extended
    <2> QED  BY <2>4, <2>7, <2>8, <2>9, <2>10, <2>11, <2>12, <2>15
              DEF Slotted, Extended
  <1> QED  BY <1>2, <1>3

-----------------------------------------------------------------------------
(* A prefix keeps its blocks: only allocate() writes Prefix.block_table,   *)
(* and only while it is None.  This needs no more of the manager than that *)
(* it is a record, so it holds with prefixes, forks, swaps and a window    *)
(* together, and after an exception.                                       *)
Fields(c) ==
  c \in [gpu : {c.gpu}, cpu : {c.cpu}, ref : {c.ref}, tables : {c.tables},
         prefix : {c.prefix}, err : {c.err}]

Keeps(c, d) == Fields(d) /\ d.prefix = c.prefix

LEMMA RaiseKeeps ==
  ASSUME NEW c, Fields(c), NEW e
  PROVE  Keeps(c, Raise(c, e))
  BY DEF Fields, Keeps, Raise

LEMMA FreeBlocksKeeps ==
  ASSUME NEW c, Fields(c), NEW n
  PROVE  Keeps(c, FreeBlocks(c, n))
  <1> DEFINE back == {b \in Block : n[b] > 0 /\ n[b] = c.ref[b]}
             ref  == [b \in Block |-> c.ref[b] - n[b]]
  <1>1. FreeBlocks(c, n) = IF \E b \in Block : n[b] > c.ref[b]
                           THEN Raise(c, "DoubleFree")
                           ELSE [c EXCEPT !.ref = ref, !.gpu = c.gpu \cup (back \cap GpuBlock),
                                          !.cpu = c.cpu \cup (back \cap CpuBlock)]
    BY DEF FreeBlocks
  <1> HIDE DEF back, ref
  <1>2. Keeps(c, [c EXCEPT !.ref = ref, !.gpu = c.gpu \cup (back \cap GpuBlock),
                           !.cpu = c.cpu \cup (back \cap CpuBlock)])
    BY DEF Fields, Keeps
  <1> QED  BY <1>1, <1>2, RaiseKeeps

LEMMA FreeKeeps ==
  ASSUME NEW c, Fields(c), NEW ss, NEW d \in Free(c, ss)
  PROVE  Keeps(c, d)
  <1> DEFINE held   == [b \in Block |-> Cardinality({s \in ss : b \in Range(c.tables[s])})]
             freed  == FreeBlocks(c, held)
             tables == [s \in SeqId |-> IF s \in ss THEN <<>> ELSE c.tables[s]]
  <1>1. d = [freed EXCEPT !.tables = tables]
    BY DEF Free
  <1>2. Keeps(c, freed)
    BY FreeBlocksKeeps
  <1> HIDE DEF held, freed, tables
  <1> QED  BY <1>1, <1>2 DEF Keeps, Fields

LEMMA AppendSlotKeeps ==
  ASSUME NEW c, Fields(c), NEW s, NEW n, NEW d \in AppendSlot(c, s, n)
  PROVE  Keeps(c, d)
  <1> DEFINE t == c.tables[s]
             u == Reused(t, n)
             Take(b, table) ==
               [c EXCEPT !.gpu = c.gpu \ {b}, !.ref = [c.ref EXCEPT ![b] = 1],
                         !.tables = [c.tables EXCEPT ![s] = table]]
             last == u[Len(u)]
             one  == [b \in Block |-> IF b = last THEN 1 ELSE 0]
  <1>1. \A b, table : Keeps(c, Take(b, table))
    BY DEF Fields, Keeps
  <1>2. Keeps(c, [c EXCEPT !.tables = [c.tables EXCEPT ![s] = u]])
    <2> HIDE DEF u
    <2> QED  BY DEF Fields, Keeps
  <1>3. \/ d = [c EXCEPT !.tables = [c.tables EXCEPT ![s] = u]]
        \/ d = Raise(c, "OutOfMemory")
        \/ \E b \in c.gpu : d = Take(b, Append(t, b))
        \/ \E b \in c.gpu : d = FreeBlocks(Take(b, [u EXCEPT ![Len(u)] = b]), one)
    <2> HIDE DEF u, one
    <2> QED  BY DEF AppendSlot, u, one
  <1>4. \A b, table : Keeps(c, FreeBlocks(Take(b, table), one))
    <2> SUFFICES ASSUME NEW b, NEW table PROVE Keeps(c, FreeBlocks(Take(b, table), one))
      OBVIOUS
    <2> DEFINE e == Take(b, table)
    <2>1. Fields(e) /\ e.prefix = c.prefix
      <3> HIDE DEF Take
      <3>1. Keeps(c, e)
        BY <1>1
      <3> QED  BY <3>1 DEF Keeps
    <2> HIDE DEF e, one
    <2>2. Keeps(e, FreeBlocks(e, one))
      BY <2>1, FreeBlocksKeeps
    <2>3. Keeps(c, FreeBlocks(e, one))
      BY <2>1, <2>2 DEF Keeps
    <2> QED  BY <2>3 DEF e
  <1> HIDE DEF Take, u, one
  <1> QED  BY <1>1, <1>2, <1>3, <1>4, RaiseKeeps

LEMMA AppendSlotsKeeps ==
  ASSUME NEW c, Fields(c), NEW ss, NEW n, NEW d \in AppendSlots(c, ss, n)
  PROVE  Keeps(c, d)
  <1>1. CASE \E s \in ss : ss = {s}
    <2>1. AppendSlots(c, ss, n) = UNION {AppendSlot(c, s, n[s]) : s \in ss}
      BY <1>1 DEF AppendSlots
    <2>2. PICK s \in ss : d \in AppendSlot(c, s, n[s])
      BY <2>1
    <2> QED  BY <2>2, AppendSlotKeeps
  <1>2. CASE ~ \E s \in ss : ss = {s}
    <2> DEFINE Two(r) == UNION {AppendSlot(e, s, n[s]) : s \in ss \ {r},
                                                         e \in AppendSlot(c, r, n[r])}
    <2>1. AppendSlots(c, ss, n) = UNION {Two(r) : r \in ss}
      BY <1>2 DEF AppendSlots
    <2> HIDE DEF Two
    <2>2. PICK r \in ss : d \in Two(r)
      BY <2>1
    <2> USE DEF Two
    <2>3. PICK s \in ss \ {r} : \E e \in AppendSlot(c, r, n[r]) : d \in AppendSlot(e, s, n[s])
      BY <2>2
    <2>4. PICK e \in AppendSlot(c, r, n[r]) : d \in AppendSlot(e, s, n[s])
      BY <2>3
    <2>5. Keeps(c, e)
      BY AppendSlotKeeps
    <2>6. Keeps(e, d)
      BY <2>4, <2>5, AppendSlotKeeps DEF Keeps
    <2> QED  BY <2>5, <2>6 DEF Keeps
  <1> QED  BY <1>1, <1>2

LEMMA MovedKeeps ==
  ASSUME NEW c, Fields(c), NEW ss, NEW moved, NEW m
  PROVE  Keeps(c, Moved(c, ss, moved, m))
  <1> DEFINE kept(t) == IF Range(t) \subseteq moved THEN t
                        ELSE SelectSeq(t, LAMBDA b : b \in moved)
             to(b)   == CHOOSE x \in moved : m[x] = b
             freed   == FreeBlocks(c, [b \in Block |-> Uses(c, ss, b)])
             ref     == [b \in Block |-> IF b \in Range(m) THEN Uses(c, ss, to(b))
                                         ELSE freed.ref[b]]
             tables  == [s \in SeqId |->
                           IF s \in ss
                           THEN [i \in DOMAIN kept(c.tables[s]) |->
                                   m[kept(c.tables[s])[i]]]
                           ELSE c.tables[s]]
  <1>1. Moved(c, ss, moved, m) =
          [freed EXCEPT !.gpu = freed.gpu \ Range(m), !.cpu = freed.cpu \ Range(m),
                        !.ref = ref, !.tables = tables]
    BY DEF Moved
  <1>2. Keeps(c, freed)
    BY FreeBlocksKeeps
  <1> HIDE DEF freed, ref, tables
  <1>3. Keeps(c, [freed EXCEPT !.gpu = freed.gpu \ Range(m), !.cpu = freed.cpu \ Range(m),
                               !.ref = ref, !.tables = tables])
    BY <1>2 DEF Keeps, Fields
  <1> QED  BY <1>1, <1>3

LEMMA SwapKeeps ==
  ASSUME NEW c, Fields(c), NEW ss, NEW p, NEW d \in SwapIn(c, ss, p) \cup SwapOut(c, ss, p)
  PROVE  Keeps(c, d)
  <1>1. \/ \E e : d = Raise(c, e)
        \/ \E moved, m : d = Moved(c, ss, moved, m)
    BY DEF SwapIn, SwapOut
  <1> QED  BY <1>1, RaiseKeeps, MovedKeeps

(* allocate() may give the prefix its blocks, if it has none.              *)
LEMMA AllocateKeeps ==
  ASSUME NEW c, Fields(c), NEW ss, NEW ng, NEW n, NEW p, NEW d \in Allocate(c, ss, ng, n, p)
  PROVE  /\ Fields(d)
         /\ \A q \in Prefix : c.prefix[q] # <<>> \/ p = NoPrefix => d.prefix[q] = c.prefix[q]
  <1> DEFINE shared  == IF PrefixAllocated(c, p) THEN c.prefix[p] ELSE <<>>
             own     == IF n > Len(shared) THEN n - Len(shared) ELSE 0
             fresh   == IF BlockSlidingWindow > 0 /\ own > BlockSlidingWindow
                        THEN BlockSlidingWindow ELSE own
             table(new)  == PromptTable(shared, new, Len(shared) + own)
             ownSet(new) == {table(new)[i] : i \in Len(shared) + 1 .. Len(table(new))}
             pinning     == p # NoPrefix /\ ~PrefixAllocated(c, p)
             pinned(new) == IF pinning /\ PrefixLen[p] < n
                            THEN SubSeq(table(new), 1, PrefixLen[p]) ELSE table(new)
             pins(new, b) ==
               IF pinning
               THEN Cardinality({i \in DOMAIN pinned(new) : pinned(new)[i] = b}) ELSE 0
             ref(new) == [b \in Block |->
                            IF b \in ownSet(new) THEN ng + pins(new, b)
                            ELSE IF b \in Range(shared) THEN c.ref[b] + ng ELSE c.ref[b]]
             prefix(new) == [q \in Prefix |-> IF pinning /\ q = p THEN pinned(new)
                                              ELSE c.prefix[q]]
             tables(new) == [s \in SeqId |-> IF s \in ss THEN table(new) ELSE c.tables[s]]
             After(new)  ==
               [c EXCEPT !.gpu = c.gpu \ Range(new), !.ref = ref(new),
                         !.prefix = prefix(new), !.tables = tables(new)]
  <1>1. CASE fresh > Cardinality(c.gpu)
    <2>1. d = Raise(c, "OutOfMemory")
      BY <1>1 DEF Allocate
    <2> QED  BY <2>1, RaiseKeeps DEF Keeps
  <1>2. CASE ~(fresh > Cardinality(c.gpu))
    <2>1. Allocate(c, ss, ng, n, p) = {After(new) : new \in Popped(c.gpu, fresh)}
      BY <1>2 DEF Allocate
    <2> HIDE DEF After, fresh
    <2>2. PICK new \in Popped(c.gpu, fresh) : d = After(new)
      BY <2>1
    <2> HIDE DEF ref, prefix, tables
    <2>3. Fields(d) /\ d.prefix = prefix(new)
      BY <2>2 DEF After, Fields
    <2>4. \A q \in Prefix :
            c.prefix[q] # <<>> \/ p = NoPrefix => prefix(new)[q] = c.prefix[q]
      <3> HIDE DEF pinned
      <3>1. \A q \in Prefix : pinning /\ q = p => c.prefix[q] = <<>> /\ p # NoPrefix
        BY DEF PrefixAllocated
      <3> HIDE DEF pinning
      <3> QED  BY <3>1 DEF prefix
    <2> QED  BY <2>3, <2>4
  <1> QED  BY <1>1, <1>2

(* What a step does to the prefixes.                                       *)
LEMMA PrefixStep ==
  ASSUME Fields(bm), [Next]_vars
  PROVE  /\ Fields(bm)'
         /\ \A p \in Prefix : bm.prefix[p] # <<>> \/ PrefixFree => bm'.prefix[p] = bm.prefix[p]
  <1>1. CASE UNCHANGED vars
    BY <1>1 DEF vars, Fields
  <1>2. ASSUME NEW g \in Group, AllocateGroup(g)
        PROVE  /\ Fields(bm')
               /\ \A p \in Prefix :
                    bm.prefix[p] # <<>> \/ PrefixFree => bm'.prefix[p] = bm.prefix[p]
    <2>1. PICK s \in SeqsIn(g, "WAITING") :
            bm' \in Allocate(bm, {s}, Cardinality(Created(g)),
                             LogicalBlocks(tokens[s]), PrefixOf[g])
      BY <1>2 DEF AllocateGroup
    <2>2. PrefixFree => PrefixOf[g] = NoPrefix
      BY DEF PrefixFree
    <2> QED  BY <2>1, <2>2, AllocateKeeps
  <1>3. ASSUME NEW g \in Group, ReserveSlots(g) PROVE Keeps(bm, bm')
    BY <1>3, AppendSlotsKeeps DEF ReserveSlots
  <1>12. ASSUME NEW g \in Group, AppendTokens(g) PROVE Keeps(bm, bm')
    BY <1>12 DEF AppendTokens, Keeps
  <1>4. ASSUME NEW g \in Group, ForkGroup(g) PROVE Keeps(bm, bm')
    <2> DEFINE ref    == [b \in Block |-> bm.ref[b] + Uses(bm, {Parent[g]}, b)]
               tables == [bm.tables EXCEPT ![Child[g]] = bm.tables[Parent[g]]]
    <2>1. bm' = [bm EXCEPT !.tables = tables, !.ref = ref]
      BY <1>4 DEF ForkGroup, Fork
    <2> HIDE DEF ref, tables
    <2> QED  BY <2>1 DEF Keeps, Fields
  <1>5. ASSUME NEW g \in Group, Recompute(g) PROVE Keeps(bm, bm')
    BY <1>5, FreeKeeps DEF Recompute
  <1>6. ASSUME NEW g \in Group, SwapOutGroup(g) PROVE Keeps(bm, bm')
    BY <1>6, SwapKeeps DEF SwapOutGroup
  <1>7. ASSUME NEW g \in Group, SwapInGroup(g) PROVE Keeps(bm, bm')
    <2> DEFINE ss == SeqsIn(g, "SWAPPED")
               n  == Wanted(ss)
    <2>1. bm' \in UNION {IF c.err = "none" THEN AppendSlots(c, ss, n) ELSE {c} :
                         c \in SwapIn(bm, ss, PrefixOf[g])}
      BY <1>7 DEF SwapInGroup
    <2> HIDE DEF ss, n
    <2>2. PICK c \in SwapIn(bm, ss, PrefixOf[g]) :
            bm' \in IF c.err = "none" THEN AppendSlots(c, ss, n) ELSE {c}
      BY <2>1
    <2>3. Keeps(bm, c)
      BY SwapKeeps
    <2>4. bm' \in AppendSlots(c, ss, n) \/ bm' = c
      BY <2>2
    <2>5. bm' \in AppendSlots(c, ss, n) => Keeps(c, bm')
      BY <2>3, AppendSlotsKeeps DEF Keeps
    <2> QED  BY <2>3, <2>4, <2>5 DEF Keeps
  <1>8. ASSUME NEW s \in SeqId, FreeSeq(s) PROVE Keeps(bm, bm')
    BY <1>8, FreeKeeps DEF FreeSeq
  <1>9. ASSUME ResetAll PROVE Keeps(bm, bm')
    BY <1>9, FreeKeeps DEF ResetAll, Reset
  <1>10. Fields(bm') <=> Fields(bm)'
    BY DEF Fields
  <1>11. Keeps(bm, bm') =>
           /\ Fields(bm)'
           /\ \A p \in Prefix :
                bm.prefix[p] # <<>> \/ PrefixFree => bm'.prefix[p] = bm.prefix[p]
    BY <1>10 DEF Keeps
  <1> QED  BY <1>1, <1>2, <1>3, <1>4, <1>5, <1>6, <1>7, <1>8, <1>9, <1>10, <1>11,
            <1>12 DEF Next

-----------------------------------------------------------------------------
(* The invariant.  A sequence that holds blocks has exactly those of the   *)
(* tokens with a slot; one that is swapped out has a token without; a      *)
(* group with a waiting sequence has no other, so that its blocks are      *)
(* allocated for one sequence.                                             *)
Follows(s) ==
  LET t == bm.tables[s]
  IN  /\ status[s] = "RUNNING" => Range(t) \subseteq GpuBlock
      /\ status[s] = "SWAPPED" => Range(t) \subseteq CpuBlock /\ s \in pending
      /\ status[s] \in {"RUNNING", "SWAPPED"} =>
           Len(t) = LogicalBlocks(Placed(s)) /\ Placed(s) # 0
      /\ status[s] \notin {"RUNNING", "SWAPPED"} => t = <<>> /\ s \notin pending
      /\ status[s] = "NEW" <=> tokens[s] = 0

WaitsAlone == \A g \in Group : \A s \in SeqsIn(g, "WAITING") : Created(g) = {s}
NobodySwapped == ~WithSwap => \A s \in SeqId : status[s] # "SWAPPED"

UseInv ==
  /\ TypeOK /\ Counted(bm)
  /\ \A s \in SeqId : Follows(s)
  /\ WaitsAlone /\ NobodySwapped

(* The table of s starts with the blocks of prefix p, and goes on without  *)
(* any block of a prefix.                                                  *)
Behind(p) == IF p = NoPrefix THEN 0 ELSE PrefixLen[p]
ReadsPrefix(c, s, p) ==
  /\ p # NoPrefix => /\ c.prefix[p] # <<>>
                     /\ \A i \in 1 .. Behind(p) : c.tables[s][i] = c.prefix[p][i]
  /\ \A i \in Behind(p) + 1 .. Len(c.tables[s]) : Pins(c, c.tables[s][i]) = {}

(* The tokens with a slot cover the blocks of the prefix, all tables read  *)
(* it there, and without groups that have a prefix none ever gets blocks.  *)
PromptsCover ==
  \A g \in Group : \A s \in SeqsOf(g) : tokens[s] # 0 => HasPrefix(g, Placed(s))
Unpinned == PrefixFree => \A p \in Prefix : bm.prefix[p] = <<>>
AllRead  == \A g \in Group : \A s \in SeqsOf(g) :
              bm.tables[s] # <<>> => ReadsPrefix(bm, s, PrefixOf[g])
PrefixInv == PromptsCover /\ Unpinned /\ AllRead

LEMMA DivideUp ==
  ASSUME NEW x \in Nat, NEW k \in Nat \ {0}
  PROVE  (x + k - 1) \div k \in Nat /\ x <= ((x + k - 1) \div k) * k
  <1> DEFINE y == x + k - 1
  <1>1. y \in Nat
    OBVIOUS
  <1> HIDE DEF y
  <1>2. y \div k \in Nat /\ (y \div k) * k \in Nat /\ y < (y \div k) * k + k
    BY <1>1, SMTT(30)
  <1>3. x <= (y \div k) * k
    BY <1>2 DEF y
  <1> QED  BY <1>2, <1>3 DEF y

LEMMA DivideNext ==
  ASSUME NEW y \in Nat, NEW k \in Nat \ {0}
  PROVE  (y + 1) \div k = y \div k \/ (y + 1) \div k = (y \div k) + 1
  BY SMTT(30)

LEMMA LogicalBlocksGrow ==
  ASSUME NEW x \in Nat
  PROVE  /\ LogicalBlocks(x) \in Nat /\ x <= LogicalBlocks(x) * BlockSize
         /\ x > 0 => LogicalBlocks(x) > 0
         /\ LogicalBlocks(x + 1) \in {LogicalBlocks(x), LogicalBlocks(x) + 1}
  <1>1. BlockSize \in Nat \ {0}
    BY UseAssumption
  <1>2. LogicalBlocks(x) \in Nat /\ x <= LogicalBlocks(x) * BlockSize
    BY <1>1, DivideUp DEF LogicalBlocks
  <1>3. x > 0 => LogicalBlocks(x) > 0
    <2>1. LogicalBlocks(x) = 0 => LogicalBlocks(x) * BlockSize = 0
      BY <1>1
    <2> QED  BY <1>2, <2>1
  <1>4. LogicalBlocks(x + 1) \in {LogicalBlocks(x), LogicalBlocks(x) + 1}
    <2> DEFINE y == x + BlockSize - 1
    <2>1. y \in Nat /\ (x + 1) + BlockSize - 1 = y + 1
      BY <1>1
    <2>2. LogicalBlocks(x) = y \div BlockSize /\ LogicalBlocks(x + 1) = (y + 1) \div BlockSize
      BY <2>1 DEF LogicalBlocks
    <2> HIDE DEF y
    <2> QED  BY <1>1, <2>1, <2>2, DivideNext
  <1> QED  BY <1>2, <1>3, <1>4

LEMMA GroupFacts ==
  ASSUME NEW g \in Group
  PROVE  /\ Parent[g] \in SeqId /\ Child[g] \in SeqId /\ Parent[g] # Child[g]
         /\ SeqsOf(g) \subseteq SeqId
         /\ \A h \in Group : h # g => SeqsOf(h) \cap SeqsOf(g) = {}
  BY UseAssumption DEF SeqsOf

LEMMA UseInit == Init => UseInv
  <1> SUFFICES ASSUME Init PROVE UseInv
    OBVIOUS
  <1>1. /\ bm = NewBlockManager /\ tokens \in [SeqId -> PromptLens \cup {0}]
        /\ status = [s \in SeqId |-> IF tokens[s] = 0 THEN "NEW" ELSE "WAITING"]
        /\ \A g \in Group : tokens[Parent[g]] # 0 /\ tokens[Child[g]] = 0
        /\ pending = {}
    BY DEF Init
  <1>2. TypeOK
    <2>1. <<>> \in Seq(Block)
      BY EmptySeq
    <2>2. bm \in BlockManagers
      BY <1>1, <2>1 DEF NewBlockManager, BlockManagers
    <2>3. PromptLens \cup {0} \subseteq 0 .. MaxTokens
      BY UseAssumption
    <2> QED  BY <1>1, <2>2, <2>3 DEF TypeOK
  <1>3. \A s \in SeqId : bm.tables[s] = <<>>
    BY <1>1 DEF NewBlockManager
  <1>4. Range(<<>>) = {} /\ Ring(<<>>)
    BY DEF Range, Ring
  <1>5. Counted(bm)
    <2>1. \A b \in Block : Holders(bm, b) = {}
      BY <1>3, <1>4 DEF Holders
    <2>2. \A b \in Block : bm.ref[b] = 0 /\ b \in bm.gpu \cup bm.cpu
      BY <1>1 DEF NewBlockManager, Block
    <2>3. (\A p \in Prefix : bm.prefix[p] = <<>>) /\ bm.err = "none"
      BY <1>1 DEF NewBlockManager
    <2>4. Cardinality({}) = 0
      BY FS_EmptySet
    <2>5. /\ \A b : Pins(bm, b) = {} /\ Cardinality(Pins(bm, b)) = 0
          /\ WholePrefixes(bm)
      BY <2>3, NothingPinned
    <2>6. \A b \in Block : bm.ref[b] = Cardinality(Holders(bm, b)) + Cardinality(Pins(bm, b))
      BY <2>1, <2>2, <2>4, <2>5
    <2> QED  BY <1>3, <1>4, <2>1, <2>2, <2>3, <2>5, <2>6 DEF Counted
  <1>6. \A s \in SeqId : Follows(s)
    BY <1>1, <1>3 DEF Follows
  <1>7. WaitsAlone
    <2> SUFFICES ASSUME NEW g \in Group, NEW s \in SeqsIn(g, "WAITING")
                 PROVE  Created(g) = {s}
      BY DEF WaitsAlone
    <2>1. status[Child[g]] = "NEW" /\ status[Parent[g]] = "WAITING"
      BY <1>1, GroupFacts
    <2> QED  BY <2>1 DEF SeqsIn, SeqsOf, Created
  <1>8. NobodySwapped
    BY <1>1 DEF NobodySwapped
  <1> QED  BY <1>2, <1>5, <1>6, <1>7, <1>8 DEF UseInv

LEMMA PrefixInvInit == Init => PrefixInv
  <1> SUFFICES ASSUME Init PROVE PrefixInv
    OBVIOUS
  <1>1. PromptsCover
    <2> SUFFICES ASSUME NEW g \in Group, NEW s \in SeqsOf(g), tokens[s] # 0
                 PROVE  HasPrefix(g, Placed(s))
      BY DEF PromptsCover
    <2>1. s = Parent[g] /\ pending = {} /\ HasPrefix(g, tokens[Parent[g]])
      BY DEF Init, SeqsOf
    <2> QED  BY <2>1 DEF Placed
  <1>2. Unpinned
    BY DEF Init, NewBlockManager, Unpinned
  <1>3. AllRead
    BY GroupFacts DEF Init, NewBlockManager, AllRead
  <1> QED  BY <1>1, <1>2, <1>3 DEF PrefixInv

LEMMA TimesCancel ==
  ASSUME NEW x \in Nat, NEW y \in Nat, NEW k \in Nat \ {0}, x * k <= y * k
  PROVE  x <= y
  <1> SUFFICES ASSUME ~(x <= y) PROVE FALSE
    OBVIOUS
  <1>1. PICK z \in Nat : x = y + 1 + z
    <2>1. x - (y + 1) \in Nat /\ x = y + 1 + (x - (y + 1))
      OBVIOUS
    <2> QED  BY <2>1
  <1>2. x * k = y * k + k + z * k
    BY <1>1
  <1>3. z * k \in Nat /\ y * k \in Nat
    OBVIOUS
  <1> QED  BY <1>2, <1>3

-----------------------------------------------------------------------------
(* One lemma per action of the client.                                     *)

LEMMA TableNotEmpty ==
  ASSUME UseInv, NEW s \in SeqId, status[s] \in {"RUNNING", "SWAPPED"}
  PROVE  /\ Placed(s) \in Nat \ {0} /\ Len(bm.tables[s]) = LogicalBlocks(Placed(s))
         /\ Len(bm.tables[s]) \in Nat \ {0} /\ bm.tables[s] # <<>>
         /\ tokens[s] = IF s \in pending THEN Placed(s) + 1 ELSE Placed(s)
  <1>1. tokens[s] \in Nat
    BY UseAssumption DEF UseInv, TypeOK
  <1>2. /\ tokens[s] # 0 /\ Placed(s) # 0
        /\ Len(bm.tables[s]) = LogicalBlocks(Placed(s))
    BY DEF UseInv, Follows
  <1>3. /\ Placed(s) \in Nat \ {0}
        /\ tokens[s] = IF s \in pending THEN Placed(s) + 1 ELSE Placed(s)
    BY <1>1, <1>2 DEF Placed
  <1>4. Len(bm.tables[s]) \in Nat \ {0}
    BY <1>2, <1>3, LogicalBlocksGrow
  <1> QED  BY <1>2, <1>3, <1>4, EmptySeq

(* What append_slot makes of the table of a sequence with a pending token. *)
LEMMA NextSlot ==
  ASSUME UseInv, NEW s \in SeqId, status[s] \in {"RUNNING", "SWAPPED"}, s \in pending
  PROVE  LET len == Len(bm.tables[s])
             n   == LogicalBlocks(tokens[s])
         IN  tokens[s] \in Nat \ {0} /\ n \in Nat \ {0} /\ n = (IF len < n THEN len + 1 ELSE len)
  <1> DEFINE len == Len(bm.tables[s])
             n   == LogicalBlocks(tokens[s])
             old == LogicalBlocks(Placed(s))
  <1>1. Placed(s) \in Nat \ {0} /\ len = old /\ len \in Nat \ {0} /\ tokens[s] = Placed(s) + 1
    BY TableNotEmpty
  <1>2. n = LogicalBlocks(Placed(s) + 1)
    BY <1>1
  <1>3. LogicalBlocks(Placed(s) + 1) \in {old, old + 1}
    BY <1>1, LogicalBlocksGrow
  <1>4. tokens[s] \in Nat \ {0}
    BY <1>1
  <1> HIDE DEF len, n, old
  <1>5. n \in Nat \ {0} /\ n = IF len < n THEN len + 1 ELSE len
    BY <1>1, <1>2, <1>3
  <1> QED  BY <1>4, <1>5 DEF len, n

LEMMA UseAllocate ==
  ASSUME Legal, UseInv, PrefixInv, NEW g \in Group, NEW p \in SeqsIn(g, "WAITING"),
         CanAllocate(bm, LogicalBlocks(tokens[p]), PrefixOf[g]) = "OK",
         bm' \in Allocate(bm, {p}, Cardinality(Created(g)),
                          LogicalBlocks(tokens[p]), PrefixOf[g]),
         status' = [status EXCEPT ![p] = "RUNNING"], tokens' = tokens, pending' = pending
  PROVE  UseInv' /\ AllRead'
  <1> DEFINE n == LogicalBlocks(tokens[p])
             q == PrefixOf[g]
  <1>1. p \in SeqId /\ p \in SeqsOf(g) /\ status[p] = "WAITING" /\ q \in Prefix \cup {NoPrefix}
    BY GroupFacts, UseAssumption DEF SeqsIn
  <1>2. /\ TypeOK /\ Counted(bm) /\ bm \in BlockManagers
        /\ \A s \in SeqId : Follows(s)
        /\ WaitsAlone /\ NobodySwapped
    BY DEF UseInv, TypeOK
  <1>4. /\ tokens[p] \in Nat \ {0} /\ n \in Nat /\ bm.tables[p] = <<>>
        /\ p \notin pending /\ Placed(p) = tokens[p]
    <2>1. tokens[p] \in Nat
      BY <1>1, <1>2, UseAssumption DEF TypeOK
    <2>2. tokens[p] # 0 /\ bm.tables[p] = <<>> /\ p \notin pending
      BY <1>1, <1>2 DEF Follows
    <2> QED  BY <2>1, <2>2, LogicalBlocksGrow DEF Placed
  <1>5. Created(g) = {p} /\ Cardinality(Created(g)) = 1
    <2>1. Created(g) = {p}
      BY <1>2 DEF WaitsAlone
    <2> QED  BY <2>1, FS_Singleton
  <1>14. ASSUME q # NoPrefix
         PROVE  BlockSlidingWindow = 0 /\ q \in Prefix /\ PrefixLen[q] <= n
    <2> DEFINE k == PrefixLen[q]
    <2>1. BlockSlidingWindow = 0
      BY <1>14 DEF Legal, PrefixFree
    <2>2. q \in Prefix /\ k \in Nat /\ BlockSize \in Nat \ {0}
      BY <1>1, <1>14, UseAssumption, BlockAssumption
    <2>3. k * BlockSize <= tokens[p]
      BY <1>1, <1>4, <1>14 DEF PrefixInv, PromptsCover, HasPrefix
    <2>4. tokens[p] <= n * BlockSize
      BY <1>4, LogicalBlocksGrow
    <2> HIDE DEF k, n
    <2>5. k * BlockSize \in Nat /\ n * BlockSize \in Nat
      BY <1>4, <2>2
    <2>6. k * BlockSize <= n * BlockSize
      BY <1>4, <2>3, <2>4, <2>5
    <2>7. k <= n
      BY <1>4, <2>2, <2>6, TimesCancel
    <2> QED  BY <2>1, <2>2, <2>7 DEF k
  <1> HIDE DEF n, q
  <1>6. bm' \in Allocate(bm, {p}, 1, n, q) /\ CanAllocate(bm, n, q) = "OK"
    BY <1>5 DEF n, q
  <1>7. bm' \in BlockManagers
    BY <1>1, <1>2, <1>4, <1>6, AllocateType
  <1>8. /\ Counted(bm')
        /\ \A s \in SeqId \ {p} : bm'.tables[s] = bm.tables[s]
        /\ Range(bm'.tables[p]) \subseteq GpuBlock /\ Len(bm'.tables[p]) = n
    <2>1. CASE q = NoPrefix
      <3>1. bm' \in Allocate(bm, {p}, 1, n, NoPrefix) /\ CanAllocate(bm, n, NoPrefix) = "OK"
        BY <1>6, <2>1
      <3>2. bm \in BlockManagers /\ Counted(bm) /\ p \in SeqId /\ bm.tables[p] = <<>> /\ n \in Nat
        BY <1>1, <1>2, <1>4
      <3> QED  BY <3>1, <3>2, CountedAllocate
    <2>2. CASE q # NoPrefix
      <3>1. /\ bm \in BlockManagers /\ Counted(bm) /\ p \in SeqId /\ bm.tables[p] = <<>>
            /\ n \in Nat /\ BlockSlidingWindow = 0 /\ q \in Prefix /\ PrefixLen[q] <= n
        BY <1>1, <1>2, <1>4, <1>14, <2>2
      <3>2. bm' \in Allocate(bm, {p}, 1, n, q) /\ CanAllocate(bm, n, q) = "OK"
        BY <1>6
      <3>3. /\ Counted(bm') /\ Range(bm'.tables[p]) \subseteq GpuBlock /\ Len(bm'.tables[p]) = n
            /\ \A s \in SeqId \ {p} : bm'.tables[s] = bm.tables[s]
        <4>1. \A r \in Prefix, m \in Nat :
                 /\ PrefixLen[r] <= m
                 /\ CanAllocate(bm, m, r) = "OK"
                 /\ bm' \in Allocate(bm, {p}, 1, m, r)
                 => /\ Counted(bm') /\ Range(bm'.tables[p]) \subseteq GpuBlock /\ Len(bm'.tables[p]) = m
                    /\ \A s \in SeqId \ {p} : bm'.tables[s] = bm.tables[s]
          <5> SUFFICES ASSUME NEW r \in Prefix, NEW m \in Nat, PrefixLen[r] <= m,
                              CanAllocate(bm, m, r) = "OK", bm' \in Allocate(bm, {p}, 1, m, r)
                       PROVE  /\ Counted(bm')
                              /\ \A s \in SeqId \ {p} : bm'.tables[s] = bm.tables[s]
                              /\ Range(bm'.tables[p]) \subseteq GpuBlock /\ Len(bm'.tables[p]) = m
            BY Zenon
          <5>1. bm \in BlockManagers /\ Counted(bm) /\ p \in SeqId /\ bm.tables[p] = <<>>
                /\ BlockSlidingWindow = 0
            BY <3>1
          <5>2. Counted(bm')
            BY <5>1, CountedPrompted
          <5>3. \A s \in SeqId \ {p} : bm'.tables[s] = bm.tables[s]
            BY <5>1, CountedPrompted
          <5>4. Range(bm'.tables[p]) \subseteq GpuBlock
            BY <5>1, CountedPrompted
          <5>5. Len(bm'.tables[p]) = m
            BY <5>1, CountedPrompted
          <5> QED  BY <5>2, <5>3, <5>4, <5>5
        <4> QED  BY <3>1, <3>2, <4>1
      <3> QED  BY <3>3
    <2> QED  BY <2>1, <2>2
  <1>9. \A s \in SeqId : status'[s] = IF s = p THEN "RUNNING" ELSE status[s]
    BY <1>2 DEF TypeOK
  <1>10. TypeOK'
    BY <1>2, <1>7 DEF TypeOK
  <1>11. \A s \in SeqId : Follows(s)'
    <2> SUFFICES ASSUME NEW s \in SeqId PROVE Follows(s)'
      OBVIOUS
    <2>1. CASE s = p
      <3>1. n = LogicalBlocks(tokens[p]) /\ tokens[p] # 0
        BY <1>4 DEF n
      <3> QED  BY <1>4, <1>8, <1>9, <2>1, <3>1 DEF Follows, LogicalBlocks, Placed
    <2>2. CASE s # p
      BY <1>2, <1>8, <1>9, <2>2 DEF Follows, LogicalBlocks, Placed
    <2> QED  BY <2>1, <2>2
  <1>12. WaitsAlone'
    <2> SUFFICES ASSUME NEW h \in Group, NEW s \in SeqsOf(h), status'[s] = "WAITING"
                 PROVE  Created(h)' = {s}
      BY DEF WaitsAlone, SeqsIn, SeqsOf
    <2>1. s \in SeqId /\ s # p /\ status[s] = "WAITING"
      BY <1>9, GroupFacts
    <2>2. Created(h)' = Created(h)
      BY <1>1, <1>9, GroupFacts DEF Created, SeqsOf
    <2> QED  BY <1>2, <2>1, <2>2 DEF WaitsAlone, SeqsIn
  <1>13. NobodySwapped'
    BY <1>2, <1>9 DEF NobodySwapped
  <1>15. AllRead'
    <2> SUFFICES ASSUME NEW h \in Group, NEW s \in SeqsOf(h), bm'.tables[s] # <<>>
                 PROVE  ReadsPrefix(bm', s, PrefixOf[h])
      BY DEF AllRead, SeqsOf, ReadsPrefix, Behind, Pins
    <2>1. s \in SeqId /\ (s = p => h = g)
      BY <1>1, GroupFacts
    <2>2. s # p => bm'.tables[s] = bm.tables[s] /\ ReadsPrefix(bm, s, PrefixOf[h])
      BY <1>8, <2>1 DEF PrefixInv, AllRead
    <2> HIDE DEF q
    <2>3. CASE q = NoPrefix
      <3>1. /\ Range(bm'.tables[p]) \subseteq bm.gpu
            /\ \A x \in Prefix : bm'.prefix[x] = bm.prefix[x]
        BY <1>1, <1>2, <1>4, <1>6, <2>3, CountedAllocate
      <3>2. \A b : Pins(bm', b) = Pins(bm, b)
        BY <3>1 DEF Pins
      <3>3. \A b \in bm.gpu : Pins(bm, b) = {}
        BY <1>2, FreeBlocksOf DEF Counted
      <3>4. CASE s # p
        <4>1. PrefixOf[h] # NoPrefix => PrefixOf[h] \in Prefix
          BY UseAssumption
        <4> QED  BY <2>2, <3>1, <3>2, <3>4, <4>1 DEF ReadsPrefix
      <3>5. CASE s = p
        <4>1. PrefixOf[h] = NoPrefix
          BY <2>1, <2>3, <3>5 DEF q
        <4>2. \A i \in 1 .. Len(bm'.tables[p]) : bm'.tables[p][i] \in Range(bm'.tables[p])
          BY <1>1, <1>7, TableFacts DEF Range
        <4>3. \A i \in 1 .. Len(bm'.tables[p]) : Pins(bm', bm'.tables[p][i]) = {}
          BY <3>1, <3>2, <3>3, <4>2
        <4>4. Behind(NoPrefix) = 0 /\ \A m : 0 + 1 .. m = 1 .. m
          BY DEF Behind
        <4> QED  BY <3>5, <4>1, <4>3, <4>4 DEF ReadsPrefix
      <3> QED  BY <3>4, <3>5
    <2>4. CASE q # NoPrefix
      <3> DEFINE k      == PrefixLen[q]
                 shared == bm.prefix[q]
                 t      == bm'.tables[p]
      <3>1. BlockSlidingWindow = 0 /\ q \in Prefix /\ k <= n /\ k \in Nat \ {0}
        BY <1>14, <2>4, BlockAssumption
      <3>2. PICK new : Prompted(bm, bm', p, q, n, new)
        BY <1>1, <1>2, <1>4, <1>6, <3>1, AllocatePrompted
      <3>3. /\ shared \in Seq(Block) /\ Len(shared) \in Nat /\ DOMAIN shared = 1 .. Len(shared)
            /\ (shared = <<>> \/ Len(shared) = k)
            /\ (shared = <<>> <=> Len(shared) = 0)
        <4>1. shared \in Seq(Block) /\ Whole(shared, k)
          BY <1>2, <3>1 DEF BlockManagers, Counted, WholePrefixes
        <4> QED  BY <4>1, LenProperties, EmptySeq DEF Whole
      <3> HIDE DEF k, shared, t
      <3>4. /\ t \in Seq(Block) /\ Len(t) = n /\ DOMAIN t = 1 .. n
            /\ \A i \in 1 .. n : t[i] = IF i <= Len(shared) THEN shared[i]
                                        ELSE new[i - Len(shared)]
        BY <3>2, LenProperties DEF Prompted, t, shared
      <3>5. /\ \A i \in 1 .. n - Len(shared) : new[i] \in bm.gpu
            /\ \A i, j \in 1 .. n - Len(shared) : new[i] = new[j] => i = j
            /\ Range(new) \subseteq bm.gpu
        <4>1. new \in Popped(bm.gpu, n - Len(shared))
          BY <3>2 DEF Prompted, shared
        <4> QED  BY <4>1 DEF Popped, Injection, IsInjective, Range
      <3>6. /\ \A x \in Prefix \ {q} : bm'.prefix[x] = bm.prefix[x]
            /\ bm'.prefix[q] = IF shared = <<>> THEN SubSeq(t, 1, k) ELSE shared
        BY <3>2 DEF Prompted, t, shared, k
      <3>7. shared = <<>> => /\ Len(bm'.prefix[q]) = k /\ DOMAIN bm'.prefix[q] = 1 .. k
                             /\ \A i \in 1 .. k : bm'.prefix[q][i] = t[i]
        <4> SUFFICES ASSUME shared = <<>>
                     PROVE  LET u == SubSeq(t, 1, k)
                            IN  Len(u) = k /\ DOMAIN u = 1 .. k /\ \A i \in 1 .. k : u[i] = t[i]
          BY <3>6
        <4> HIDE DEF k, t
        <4>1. k \in Int /\ 1 \in Int /\ 1 <= k /\ k - 1 + 1 = k /\ \A i \in 1 .. k : i \in 1 .. n /\ 1 + i - 1 = i
          BY <1>4, <3>1
        <4>2. \A i \in 1 .. k : t[i] \in Block
          BY <3>4, <4>1, ElementOfSeq
        <4>3. /\ SubSeq(t, 1, k) \in Seq(Block)
              /\ Len(SubSeq(t, 1, k)) = IF 1 <= k THEN k - 1 + 1 ELSE 0
              /\ \A i \in 1 .. k - 1 + 1 : SubSeq(t, 1, k)[i] = t[1 + i - 1]
          BY <4>1, <4>2, SubSeqProperties
        <4>4. Len(SubSeq(t, 1, k)) = k /\ \A i \in 1 .. k : SubSeq(t, 1, k)[i] = t[i]
          BY <4>1, <4>3
        <4> QED  BY <4>3, <4>4, LenProperties
      <3>8. bm'.prefix[q] # <<>> /\ \A i \in 1 .. k : t[i] = bm'.prefix[q][i]
        <4>1. CASE shared = <<>>
          <5>1. 1 \in 1 .. k /\ <<>> # bm'.prefix[q]
            BY <3>1, <3>7, <4>1
          <5> QED  BY <3>7, <4>1, <5>1
        <4>2. CASE shared # <<>>
          <5>1. Len(shared) = k /\ \A i \in 1 .. k : i \in 1 .. n /\ i <= Len(shared)
            <6>1. Len(shared) = k
              BY <3>3, <4>2
            <6>2. k \in Nat /\ n \in Nat /\ k <= n
              BY <1>4, <3>1
            <6>3. \A i \in 1 .. k : i \in 1 .. n /\ i <= k
              BY <6>2
            <6> QED  BY <6>1, <6>3
          <5> QED  BY <3>4, <3>6, <4>2, <5>1
        <4> QED  BY <4>1, <4>2
      <3>9. \A b \in bm.gpu : Pins(bm, b) = {} /\ \A r \in SeqId : b \notin Range(bm.tables[r])
        BY <1>2, FreeBlocksOf DEF Counted, Holders
      <3>10. \A b : Pins(bm, b) = {} /\ (shared = <<>> => \A i \in 1 .. k : t[i] # b)
                    => Pins(bm', b) = {}
        <4> SUFFICES ASSUME NEW b, Pins(bm, b) = {},
                            shared = <<>> => \A i \in 1 .. k : t[i] # b,
                            NEW x \in Prefix, b \in Range(bm'.prefix[x])
                     PROVE  FALSE
          BY DEF Pins
        <4>1. CASE x # q \/ shared # <<>>
          <5>1. bm'.prefix[x] = bm.prefix[x]
            BY <3>6, <4>1 DEF shared
          <5> QED  BY <5>1 DEF Pins
        <4>2. CASE x = q /\ shared = <<>>
          BY <3>7, <4>2 DEF Range
        <4> QED  BY <4>1, <4>2
      <3>11. CASE s # p
        <4> DEFINE u == bm.tables[s]
                   x == PrefixOf[h]
        <4>1. u \in Seq(Block) /\ DOMAIN u = 1 .. Len(u) /\ Len(u) \in Nat
              /\ bm'.tables[s] = u /\ ReadsPrefix(bm, s, x) /\ x \in Prefix \cup {NoPrefix}
          BY <1>2, <2>1, <2>2, <3>11, TableFacts, UseAssumption
        <4>2. x # NoPrefix => bm'.prefix[x] = bm.prefix[x]
          BY <3>6, <4>1 DEF ReadsPrefix, shared
        <4> HIDE DEF x
        <4>3. \A i \in 1 .. Len(u) : u[i] \notin bm.gpu
          BY <2>1, <3>9, <4>1 DEF Range
        <4>4. shared = <<>> => \A i \in 1 .. k : t[i] \in bm.gpu
          BY <1>4, <3>1, <3>3, <3>4, <3>5
        <4>5. \A i \in 1 .. Len(u) : Pins(bm, u[i]) = {} => Pins(bm', u[i]) = {}
          BY <3>10, <4>3, <4>4
        <4>6. Behind(x) \in Nat
          <5>1. \A y \in Prefix : PrefixLen[y] \in Nat
            BY BlockAssumption
          <5> QED  BY <4>1, <5>1 DEF Behind
        <4>7. \A i \in Behind(x) + 1 .. Len(u) : i \in 1 .. Len(u) /\ Pins(bm, u[i]) = {}
          <5>1. \A i \in Behind(x) + 1 .. Len(u) : Pins(bm, u[i]) = {}
            BY <4>1 DEF ReadsPrefix
          <5> HIDE DEF u
          <5>2. \A i \in Behind(x) + 1 .. Len(u) : i \in 1 .. Len(u)
            BY <4>1, <4>6
          <5> QED  BY <5>1, <5>2
        <4>8. ReadsPrefix(bm', s, x)
          BY <4>1, <4>2, <4>5, <4>7 DEF ReadsPrefix
        <4> QED  BY <4>8 DEF x
      <3>12. CASE s = p
        <4>1. PrefixOf[h] = q /\ Behind(q) = k
          BY <2>1, <2>4, <3>12 DEF q, Behind, k
        <4>2. ASSUME NEW i \in k + 1 .. n PROVE Pins(bm', t[i]) = {}
          <5>1. i \in 1 .. n /\ ~(i <= Len(shared)) /\ i - Len(shared) \in 1 .. n - Len(shared)
            <6> DEFINE m == Len(shared)
            <6>1. m \in Nat /\ (m = 0 \/ m = k) /\ n \in Nat /\ k \in Nat
              BY <1>4, <3>1, <3>3
            <6> HIDE DEF m
            <6>2. i \in 1 .. n /\ ~(i <= m) /\ i - m \in 1 .. n - m
              BY <4>2, <6>1
            <6> QED  BY <6>2 DEF m
          <5>2. t[i] = new[i - Len(shared)] /\ t[i] \in bm.gpu /\ Pins(bm, t[i]) = {}
            BY <3>4, <3>5, <3>9, <5>1
          <5>3. shared = <<>> => \A j \in 1 .. k : t[j] # t[i]
            <6> SUFFICES ASSUME shared = <<>>, NEW j \in 1 .. k PROVE t[j] # t[i]
              OBVIOUS
            <6>1. /\ j \in 1 .. n - Len(shared) /\ j \in 1 .. n /\ j # i
                  /\ i \in 1 .. n - Len(shared)
                  /\ ~(j <= Len(shared)) /\ j - Len(shared) = j /\ i - Len(shared) = i
              BY <1>4, <3>1, <3>3
            <6>2. t[j] = new[j] /\ t[i] = new[i]
              BY <3>4, <5>2, <6>1
            <6> QED  BY <3>5, <6>1, <6>2
          <5> QED  BY <3>10, <5>2, <5>3
        <4>3. q # NoPrefix /\ Len(t) = n
          BY <2>4, <3>4
        <4> QED  BY <3>8, <3>12, <4>1, <4>2, <4>3 DEF ReadsPrefix, t
      <3> QED  BY <3>11, <3>12
    <2> QED  BY <2>3, <2>4
  <1> QED  BY <1>8, <1>10, <1>11, <1>12, <1>13, <1>15 DEF UseInv

(* Allocation, unpacked.                                                   *)
LEMMA UseAllocateGroup ==
  ASSUME Legal, UseInv, PrefixInv, NEW g \in Group, AllocateGroup(g)
  PROVE  UseInv' /\ AllRead'
  BY UseAllocate DEF AllocateGroup

LEMMA UseAppendTokens ==
  ASSUME UseInv, NEW g \in Group, AppendTokens(g)
  PROVE  UseInv'
  <1> DEFINE ss == SeqsIn(g, "RUNNING")
  <1>1. /\ TypeOK /\ Counted(bm) /\ \A s \in SeqId : Follows(s)
        /\ WaitsAlone /\ NobodySwapped
    BY DEF UseInv
  <1>2. /\ status' = status /\ bm' = bm /\ \A s \in ss : tokens[s] < MaxTokens
        /\ tokens' = [s \in SeqId |-> IF s \in ss THEN tokens[s] + 1 ELSE tokens[s]]
        /\ pending' = pending \cup ss /\ ss \cap pending = {}
    BY DEF AppendTokens
  <1>3. \A s \in ss : s \in SeqId /\ status[s] = "RUNNING"
    BY GroupFacts DEF SeqsIn
  <1> HIDE DEF ss
  <1>4. TypeOK'
    <2>1. \A s \in SeqId : tokens[s] \in 0 .. MaxTokens
      BY <1>1 DEF TypeOK
    <2>2. \A s \in SeqId : (IF s \in ss THEN tokens[s] + 1 ELSE tokens[s]) \in 0 .. MaxTokens
      BY <1>2, <2>1, UseAssumption
    <2> QED  BY <1>1, <1>2, <1>3, <2>2 DEF TypeOK
  <1>5. \A s \in SeqId : Follows(s)'
    <2> SUFFICES ASSUME NEW s \in SeqId PROVE Follows(s)'
      OBVIOUS
    <2>1. CASE s \in ss
      <3>1. tokens[s] \in Nat /\ tokens'[s] = tokens[s] + 1 /\ s \in pending' /\ s \notin pending
        BY <1>1, <1>2, <2>1, UseAssumption DEF TypeOK
      <3>2. Placed(s) = tokens[s] /\ Placed(s)' = tokens[s]
        BY <3>1 DEF Placed
      <3>3. tokens'[s] # 0
        BY <3>1
      <3>4. LogicalBlocks(Placed(s))' = LogicalBlocks(Placed(s))
        BY <3>2 DEF LogicalBlocks
      <3> QED  BY <1>1, <1>2, <1>3, <2>1, <3>1, <3>2, <3>3, <3>4 DEF Follows
    <2>2. CASE s \notin ss
      BY <1>1, <1>2, <2>2 DEF Follows, LogicalBlocks, Placed
    <2> QED  BY <2>1, <2>2
  <1>6. WaitsAlone' /\ NobodySwapped'
    BY <1>1, <1>2 DEF WaitsAlone, NobodySwapped, SeqsIn, SeqsOf, Created
  <1> QED  BY <1>1, <1>2, <1>4, <1>5, <1>6 DEF UseInv

(* The slots of a group whose tokens are pending: every sequence of ss     *)
(* then has exactly the blocks of its tokens.                              *)
LEMMA SlotsFollow ==
  ASSUME UseInv, NEW ss \in SUBSET SeqId, ss \subseteq pending, NEW c,
         \A s \in ss : status[s] \in {"RUNNING", "SWAPPED"},
         \A s \in SeqId \ ss : c.tables[s] = bm.tables[s],
         \A s \in ss : Len(c.tables[s]) = Len(bm.tables[s]),
         Slotted(c, bm', ss, Wanted(ss)),
         tokens' = tokens, pending' = pending \ ss,
         status' = [s \in SeqId |-> IF s \in ss THEN "RUNNING" ELSE status[s]]
  PROVE  UseInv' /\ \A s \in ss : Len(bm'.tables[s]) = LogicalBlocks(tokens[s])
  <1>1. /\ TypeOK /\ \A s \in SeqId : Follows(s)
        /\ WaitsAlone /\ NobodySwapped
    BY DEF UseInv
  <1>2. Counted(bm') /\ bm' \in BlockManagers
    BY DEF Slotted
  <1>3. TypeOK'
    BY <1>1, <1>2 DEF TypeOK
  <1>4. ASSUME NEW s \in ss
        PROVE  /\ Len(bm'.tables[s]) = LogicalBlocks(tokens[s])
               /\ tokens[s] \in Nat \ {0} /\ Range(bm'.tables[s]) \subseteq GpuBlock
    <2> DEFINE n == LogicalBlocks(tokens[s])
    <2>1. /\ tokens[s] \in Nat \ {0} /\ n \in Nat \ {0}
          /\ n = IF Len(bm.tables[s]) < n THEN Len(bm.tables[s]) + 1 ELSE Len(bm.tables[s])
      BY NextSlot
    <2>2. Wanted(ss)[s] = n
      BY DEF Wanted
    <2>3. Len(bm'.tables[s]) = IF Len(c.tables[s]) < n THEN Len(c.tables[s]) + 1
                               ELSE Len(c.tables[s])
      BY <2>2 DEF Slotted
    <2> HIDE DEF n
    <2>4. Len(bm'.tables[s]) = n
      BY <2>1, <2>3
    <2> QED  BY <2>1, <2>4 DEF n, Slotted
  <1>5. \A s \in SeqId : Follows(s)'
    <2> SUFFICES ASSUME NEW s \in SeqId PROVE Follows(s)'
      OBVIOUS
    <2>1. CASE s \in ss
      <3>1. s \notin pending' /\ status'[s] = "RUNNING" /\ tokens'[s] = tokens[s]
        BY <2>1
      <3>2. Placed(s)' = tokens[s]
        BY <3>1 DEF Placed
      <3>3. LogicalBlocks(Placed(s))' = LogicalBlocks(tokens[s])
        BY <3>2 DEF LogicalBlocks
      <3> QED  BY <1>4, <2>1, <3>1, <3>2, <3>3 DEF Follows
    <2>2. CASE s \notin ss
      <3>1. /\ bm'.tables[s] = bm.tables[s] /\ status'[s] = status[s] /\ tokens'[s] = tokens[s]
            /\ (s \in pending' <=> s \in pending)
        BY <2>2 DEF Slotted
      <3> QED  BY <1>1, <3>1 DEF Follows, LogicalBlocks, Placed
    <2> QED  BY <2>1, <2>2
  <1>6. WaitsAlone'
    <2> SUFFICES ASSUME NEW h \in Group, NEW s \in SeqsOf(h), status'[s] = "WAITING"
                 PROVE  Created(h)' = {s}
      BY DEF WaitsAlone, SeqsIn, SeqsOf
    <2>1. s \in SeqId /\ status[s] = "WAITING"
      BY GroupFacts
    <2>2. \A r \in SeqsOf(h) : status'[r] = "NEW" <=> status[r] = "NEW"
      BY GroupFacts
    <2>3. Created(h)' = Created(h)
      BY <2>2 DEF Created, SeqsOf
    <2> QED  BY <1>1, <2>1, <2>3 DEF WaitsAlone, SeqsIn
  <1>7. NobodySwapped'
    BY <1>1 DEF NobodySwapped
  <1> QED  BY <1>2, <1>3, <1>4, <1>5, <1>6, <1>7 DEF UseInv

LEMMA WantedType ==
  ASSUME UseInv, NEW ss \in SUBSET SeqId
  PROVE  Wanted(ss) \in [ss -> Nat]
  <1>1. \A s \in ss : tokens[s] \in Nat
    BY UseAssumption DEF UseInv, TypeOK
  <1>2. \A s \in ss : LogicalBlocks(tokens[s]) \in Nat
    BY <1>1, LogicalBlocksGrow
  <1> QED  BY <1>2 DEF Wanted

LEMMA ReserveSlotted ==
  ASSUME UseInv, NEW g \in Group, ReserveSlots(g)
  PROVE  LET ss == SeqsIn(g, "RUNNING") IN Slotted(bm, bm', ss, Wanted(ss))
  <1> DEFINE ss == SeqsIn(g, "RUNNING")
  <1>1. /\ Parent[g] \in SeqId /\ Child[g] \in SeqId /\ Parent[g] # Child[g]
        /\ ss \in SUBSET {Parent[g], Child[g]} /\ ss # {} /\ ss \in SUBSET SeqId
        /\ \A s \in ss : s \in SeqId /\ status[s] = "RUNNING"
    BY GroupFacts DEF SeqsIn, SeqsOf, ReserveSlots
  <1>2. bm \in BlockManagers /\ Counted(bm)
    BY DEF UseInv, TypeOK
  <1>3. Cardinality(ss) <= Cardinality(bm.gpu) /\ bm' \in AppendSlots(bm, ss, Wanted(ss))
    BY DEF ReserveSlots, CanAppendSlot
  <1> HIDE DEF ss
  <1>4. Wanted(ss) \in [ss -> Nat]
    BY <1>1, WantedType
  <1>5. \A s \in ss : bm.tables[s] # <<>> /\ Range(bm.tables[s]) \subseteq GpuBlock
    BY <1>1, TableNotEmpty DEF UseInv, Follows
  <1>6. Slotted(bm, bm', ss, Wanted(ss))
    <2> DEFINE n == Wanted(ss)
    <2>1. n \in [ss -> Nat] /\ bm' \in AppendSlots(bm, ss, n)
      BY <1>3, <1>4
    <2> HIDE DEF n
    <2>2. Slotted(bm, bm', ss, n)
      BY <1>1, <1>2, <1>3, <1>5, <2>1, CountedAppendSlots
    <2> QED  BY <2>2 DEF n
  <1> QED  BY <1>6 DEF ss

(* Beyond the prefix: a pending token lies past the blocks of the prefix.  *)
LEMMA PastPrefix ==
  ASSUME UseInv, PrefixInv, NEW g \in Group, NEW s \in SeqsOf(g), s \in pending,
         status[s] \in {"RUNNING", "SWAPPED"}
  PROVE  Behind(PrefixOf[g]) \in Nat /\ Behind(PrefixOf[g]) < LogicalBlocks(tokens[s])
  <1> DEFINE p == PrefixOf[g]
             k == Behind(p)
             n == LogicalBlocks(tokens[s])
  <1>1. s \in SeqId /\ p \in Prefix \cup {NoPrefix}
    BY GroupFacts, UseAssumption
  <1>2. k \in Nat /\ BlockSize \in Nat \ {0}
    BY <1>1, BlockAssumption, UseAssumption DEF Behind
  <1>3. tokens[s] \in Nat \ {0} /\ n \in Nat \ {0}
    BY <1>1, NextSlot
  <1>4. Placed(s) \in Nat /\ tokens[s] = Placed(s) + 1
    BY <1>1, TableNotEmpty
  <1>5. k * BlockSize <= Placed(s)
    <2>1. CASE p = NoPrefix
      <3>1. k = 0
        BY <2>1 DEF Behind
      <3> QED  BY <1>2, <1>4, <3>1
    <2>2. CASE p # NoPrefix
      BY <1>3, <2>2 DEF PrefixInv, PromptsCover, HasPrefix, Behind
    <2> QED  BY <2>1, <2>2
  <1>6. tokens[s] <= n * BlockSize
    BY <1>3, LogicalBlocksGrow
  <1> HIDE DEF k, n
  <1>7. k * BlockSize \in Nat /\ n * BlockSize \in Nat
    BY <1>2, <1>3
  <1>8. ~(n * BlockSize <= k * BlockSize)
    BY <1>4, <1>5, <1>6, <1>7
  <1>9. n <= k => n * BlockSize <= k * BlockSize
    <2> SUFFICES ASSUME n <= k PROVE n * BlockSize <= k * BlockSize
      OBVIOUS
    <2>1. PICK z \in Nat : k = n + z
      <3>1. k - n \in Nat /\ k = n + (k - n)
        BY <1>2, <1>3
      <3> QED  BY <3>1
    <2>2. k * BlockSize = n * BlockSize + z * BlockSize /\ z * BlockSize \in Nat
      BY <1>2, <1>3, <2>1
    <2> QED  BY <1>7, <2>2
  <1>10. k < n
    BY <1>2, <1>3, <1>8, <1>9
  <1> QED  BY <1>2, <1>10 DEF k, n

LEMMA UseReserveSlots ==
  ASSUME UseInv, PrefixInv, NEW g \in Group, ReserveSlots(g)
  PROVE  UseInv' /\ AllRead'
  <1> DEFINE ss == SeqsIn(g, "RUNNING")
  <1>1. Slotted(bm, bm', ss, Wanted(ss))
    BY ReserveSlotted
  <1>2. /\ status' = status /\ tokens' = tokens /\ pending' = pending \ ss /\ ss \subseteq pending
    BY DEF ReserveSlots
  <1>3. /\ ss \in SUBSET SeqId /\ ss \subseteq SeqsOf(g)
        /\ \A s \in ss : s \in SeqId /\ status[s] = "RUNNING"
    BY GroupFacts DEF SeqsIn
  <1> HIDE DEF ss
  <1>4. status' = [s \in SeqId |-> IF s \in ss THEN "RUNNING" ELSE status[s]]
    BY <1>2, <1>3 DEF UseInv, TypeOK
  <1>5. UseInv' /\ \A s \in ss : Len(bm'.tables[s]) = LogicalBlocks(tokens[s])
    BY <1>1, <1>2, <1>3, <1>4, SlotsFollow
  <1>6. AllRead'
    <2> SUFFICES ASSUME NEW h \in Group, NEW s \in SeqsOf(h), bm'.tables[s] # <<>>
                 PROVE  ReadsPrefix(bm', s, PrefixOf[h])
      BY DEF AllRead, SeqsOf, ReadsPrefix, Behind, Pins
    <2>1. s \in SeqId /\ (s \in ss => h = g)
      BY <1>3, GroupFacts
    <2>2. bm'.prefix = bm.prefix
      BY <1>1 DEF Slotted
    <2>3. \A b : Pins(bm', b) = Pins(bm, b)
      BY <2>2 DEF Pins
    <2>4. CASE s \notin ss
      <3>1. bm'.tables[s] = bm.tables[s] /\ ReadsPrefix(bm, s, PrefixOf[h])
        BY <1>1, <2>1, <2>4 DEF Slotted, PrefixInv, AllRead
      <3> QED  BY <2>2, <2>3, <3>1 DEF ReadsPrefix
    <2>5. CASE s \in ss
      <3> DEFINE t == bm.tables[s]
                 u == bm'.tables[s]
                 p == PrefixOf[h]
                 k == Behind(p)
      <3>1. t # <<>> /\ Len(t) \in Nat
        BY <1>3, <2>5, TableNotEmpty
      <3>2. ReadsPrefix(bm, s, p)
        BY <3>1 DEF PrefixInv, AllRead
      <3>3. Len(u) = LogicalBlocks(tokens[s]) /\ Len(u) \in Nat \ {0}
        BY <1>2, <1>3, <1>5, <2>1, <2>5, NextSlot
      <3>4. k \in Nat /\ k < Len(u)
        BY <1>2, <1>3, <2>1, <2>5, <3>3, PastPrefix
      <3>5. SameFront(t, u) /\ Pins(bm', u[Len(u)]) = {}
        BY <1>1, <2>5 DEF Slotted
      <3> HIDE DEF t, u, p, k
      <3>6. \A i \in 1 .. k : i \in 1 .. Len(u) - 1
        BY <3>3, <3>4
      <3>7. p # NoPrefix => bm'.prefix[p] # <<>> /\ \A i \in 1 .. k : u[i] = bm'.prefix[p][i]
        BY <2>2, <3>2, <3>5, <3>6 DEF ReadsPrefix, SameFront, t, k
      <3>8. ASSUME NEW i \in k + 1 .. Len(u) PROVE Pins(bm', u[i]) = {}
        <4>1. CASE i = Len(u)
          BY <3>5, <4>1
        <4>2. CASE i # Len(u)
          <5>1. i \in 1 .. Len(u) - 1
            BY <3>3, <3>4, <4>2
          <5>2. i \in 1 .. Len(t) /\ u[i] = t[i]
            BY <3>5, <5>1 DEF SameFront
          <5>3. i \in k + 1 .. Len(t)
            BY <3>1, <3>4, <5>2 DEF t
          <5> QED  BY <2>3, <3>2, <5>2, <5>3 DEF ReadsPrefix, t, k
        <4> QED  BY <4>1, <4>2
      <3> QED  BY <3>7, <3>8 DEF ReadsPrefix, u, k, p
    <2> QED  BY <2>4, <2>5
  <1> QED  BY <1>5, <1>6

LEMMA UseFork ==
  ASSUME Legal, UseInv, PrefixInv, NEW g \in Group, ForkGroup(g)
  PROVE  UseInv' /\ AllRead'
  <1> DEFINE p == Parent[g]
             k == Child[g]
  <1>1. p \in SeqId /\ k \in SeqId /\ p # k /\ p \in SeqsOf(g) /\ k \in SeqsOf(g)
    BY GroupFacts DEF SeqsOf
  <1>2. /\ TypeOK /\ Counted(bm) /\ bm \in BlockManagers
        /\ \A s \in SeqId : Follows(s)
        /\ WaitsAlone /\ NobodySwapped
    BY DEF UseInv, TypeOK
  <1>3. /\ status[p] = "RUNNING" /\ status[k] = "NEW" /\ p \in pending
        /\ bm' \in Fork(bm, p, k)
        /\ status' = [status EXCEPT ![k] = "RUNNING"]
        /\ tokens' = [tokens EXCEPT ![k] = tokens[p]]
        /\ pending' = pending \cup {k}
    BY DEF ForkGroup
  <1>4. BlockSlidingWindow = 0
    BY DEF Legal, ForkGroup
  <1>5. bm.tables[k] = <<>>
    BY <1>1, <1>2, <1>3 DEF Follows
  <1>6. /\ Counted(bm') /\ bm' \in BlockManagers
        /\ bm'.tables = [bm.tables EXCEPT ![k] = bm.tables[p]]
    <2> HIDE DEF p, k
    <2>1. bm \in BlockManagers /\ Counted(bm) /\ bm' \in Fork(bm, p, k)
      BY <1>2, <1>3
    <2> QED  BY <1>1, <1>4, <1>5, <2>1, CountedFork
  <1>7. \A s \in SeqId : /\ status'[s] = IF s = k THEN "RUNNING" ELSE status[s]
                         /\ tokens'[s] = IF s = k THEN tokens[p] ELSE tokens[s]
                         /\ bm'.tables[s] = IF s = k THEN bm.tables[p] ELSE bm.tables[s]
    BY <1>1, <1>2, <1>3, <1>6 DEF TypeOK, BlockManagers
  <1>8. TypeOK'
    BY <1>1, <1>2, <1>3, <1>6 DEF TypeOK
  <1>9. \A s \in SeqId : Follows(s)'
    <2> SUFFICES ASSUME NEW s \in SeqId PROVE Follows(s)'
      OBVIOUS
    <2>1. CASE s = k
      <3>1. /\ Range(bm.tables[p]) \subseteq GpuBlock /\ tokens[p] # 0 /\ Placed(p) # 0
            /\ Len(bm.tables[p]) = LogicalBlocks(Placed(p))
        BY <1>1, <1>2, <1>3 DEF Follows
      <3>2. Placed(p) = tokens[p] - 1 /\ Placed(s)' = tokens[p] - 1
        BY <1>3, <1>7, <2>1 DEF Placed
      <3>3. LogicalBlocks(Placed(s))' = LogicalBlocks(Placed(p))
        BY <3>2 DEF LogicalBlocks
      <3> QED  BY <1>3, <1>7, <2>1, <3>1, <3>2, <3>3 DEF Follows
    <2>2. CASE s # k
      BY <1>2, <1>3, <1>7, <2>2 DEF Follows, LogicalBlocks, Placed
    <2> QED  BY <2>1, <2>2
  <1>10. WaitsAlone'
    <2> SUFFICES ASSUME NEW h \in Group, NEW s \in SeqsOf(h), status'[s] = "WAITING"
                 PROVE  Created(h)' = {s}
      BY DEF WaitsAlone, SeqsIn, SeqsOf
    <2>1. s \in SeqId /\ s # k /\ status[s] = "WAITING" /\ s # p
      BY <1>3, <1>7, GroupFacts
    <2>2. Created(h) = {s}
      BY <1>2, <2>1 DEF WaitsAlone, SeqsIn
    <2>3. h # g
      BY <1>1, <1>3, <2>1, <2>2 DEF Created
    <2>4. \A r \in SeqsOf(h) : r \in SeqId /\ r # k
      BY <1>1, <2>3, GroupFacts
    <2>5. Created(h)' = Created(h)
      BY <1>7, <2>4 DEF Created, SeqsOf
    <2> QED  BY <2>2, <2>5
  <1>11. NobodySwapped'
    BY <1>2, <1>7 DEF NobodySwapped
  <1>12. AllRead'
    <2> SUFFICES ASSUME NEW h \in Group, NEW s \in SeqsOf(h), bm'.tables[s] # <<>>
                 PROVE  ReadsPrefix(bm', s, PrefixOf[h])
      BY DEF AllRead, SeqsOf, ReadsPrefix, Behind, Pins
    <2>1. bm'.prefix = bm.prefix
      <3> DEFINE ref    == [b \in Block |-> bm.ref[b] + Uses(bm, {p}, b)]
                 tables == [bm.tables EXCEPT ![k] = bm.tables[p]]
      <3>1. bm' = [bm EXCEPT !.tables = tables, !.ref = ref]
        BY <1>3 DEF Fork
      <3> HIDE DEF ref, tables
      <3> QED  BY <1>2, <3>1 DEF BlockManagers
    <2>2. \A b : Pins(bm', b) = Pins(bm, b)
      BY <2>1 DEF Pins
    <2>3. s \in SeqId /\ (s = k => h = g)
      BY <1>1, GroupFacts
    <2>4. CASE s # k
      <3>1. bm'.tables[s] = bm.tables[s] /\ ReadsPrefix(bm, s, PrefixOf[h])
        BY <1>7, <2>3, <2>4 DEF PrefixInv, AllRead
      <3> QED  BY <2>1, <2>2, <3>1 DEF ReadsPrefix
    <2>5. CASE s = k
      <3>1. bm'.tables[s] = bm.tables[p] /\ ReadsPrefix(bm, p, PrefixOf[h])
        BY <1>1, <1>7, <2>3, <2>5 DEF PrefixInv, AllRead
      <3> QED  BY <2>1, <2>2, <3>1 DEF ReadsPrefix
    <2> QED  BY <2>4, <2>5
  <1> QED  BY <1>6, <1>8, <1>9, <1>10, <1>11, <1>12 DEF UseInv

(* FreeSeq, Recompute and ResetAll: the tables of ss go, and a sequence of *)
(* ss ends in a status that holds none.                                    *)
LEMMA UseFreed ==
  ASSUME UseInv, PrefixInv, NEW ss \in SUBSET SeqId, bm' \in Free(bm, ss), tokens' = tokens,
         pending' = pending \ ss,
         status' \in [SeqId -> {"NEW", "WAITING", "RUNNING", "SWAPPED", "FINISHED"}],
         \A s \in SeqId \ ss : status'[s] = status[s],
         \A s \in ss : /\ status'[s] \notin {"RUNNING", "SWAPPED"}
                       /\ status'[s] = "NEW" <=> status[s] = "NEW",
         \A g \in Group : \A s \in SeqsOf(g) \cap ss :
           status'[s] = "WAITING" => Created(g) = {s}
  PROVE  UseInv' /\ AllRead'
  <1>1. /\ TypeOK /\ Counted(bm) /\ bm \in BlockManagers
        /\ \A s \in SeqId : Follows(s)
        /\ WaitsAlone /\ NobodySwapped
    BY DEF UseInv, TypeOK
  <1>2. /\ Counted(bm') /\ bm' \in BlockManagers
        /\ bm'.tables = [s \in SeqId |-> IF s \in ss THEN <<>> ELSE bm.tables[s]]
    BY <1>1, CountedFree, FreeType
  <1>3. \A s \in SeqId : bm'.tables[s] = IF s \in ss THEN <<>> ELSE bm.tables[s]
    BY <1>2
  <1>4. TypeOK'
    BY <1>1, <1>2 DEF TypeOK
  <1>5. \A s \in SeqId : Follows(s)'
    <2> SUFFICES ASSUME NEW s \in SeqId PROVE Follows(s)'
      OBVIOUS
    <2>1. CASE s \in ss
      BY <1>1, <1>3, <2>1 DEF Follows
    <2>2. CASE s \notin ss
      BY <1>1, <1>3, <2>2 DEF Follows, LogicalBlocks, Placed
    <2> QED  BY <2>1, <2>2
  <1>6. NobodySwapped'
    BY <1>1 DEF NobodySwapped
  <1>7. WaitsAlone'
    <2> SUFFICES ASSUME NEW h \in Group, NEW s \in SeqsOf(h), status'[s] = "WAITING"
                 PROVE  Created(h)' = {s}
      BY DEF WaitsAlone, SeqsIn, SeqsOf
    <2>1. \A r \in SeqsOf(h) : r \in SeqId /\ (status'[r] = "NEW" <=> status[r] = "NEW")
      BY GroupFacts
    <2>2. Created(h)' = Created(h)
      BY <2>1 DEF Created, SeqsOf
    <2>3. Created(h) = {s}
      <3>1. CASE s \in ss
        BY <3>1
      <3>2. CASE s \notin ss
        BY <1>1, <2>1, <3>2 DEF WaitsAlone, SeqsIn
      <3> QED  BY <3>1, <3>2
    <2> QED  BY <2>2, <2>3
  <1>8. AllRead'
    <2> SUFFICES ASSUME NEW h \in Group, NEW s \in SeqsOf(h), bm'.tables[s] # <<>>
                 PROVE  ReadsPrefix(bm', s, PrefixOf[h])
      BY DEF AllRead, SeqsOf, ReadsPrefix, Behind, Pins
    <2>1. Fields(bm)
      BY <1>1 DEF BlockManagers, Fields
    <2>2. bm'.prefix = bm.prefix
      BY <2>1, FreeKeeps DEF Keeps
    <2>3. \A b : Pins(bm', b) = Pins(bm, b)
      BY <2>2 DEF Pins
    <2>4. bm'.tables[s] = bm.tables[s] /\ ReadsPrefix(bm, s, PrefixOf[h])
      BY <1>3, GroupFacts DEF PrefixInv, AllRead
    <2> QED  BY <2>2, <2>3, <2>4 DEF ReadsPrefix
  <1> QED  BY <1>2, <1>4, <1>5, <1>6, <1>7, <1>8 DEF UseInv

LEMMA UseFreeSeq ==
  ASSUME UseInv, PrefixInv, NEW s \in SeqId, FreeSeq(s)
  PROVE  UseInv' /\ AllRead'
  <1>1. /\ status[s] \in {"WAITING", "RUNNING", "SWAPPED"}
        /\ bm' \in Free(bm, {s}) /\ tokens' = tokens /\ pending' = pending \ {s}
        /\ status' = [status EXCEPT ![s] = "FINISHED"]
    BY DEF FreeSeq
  <1>2. \A q \in SeqId : status'[q] = IF q = s THEN "FINISHED" ELSE status[q]
    BY <1>1 DEF UseInv, TypeOK
  <1>3. status' \in [SeqId -> {"NEW", "WAITING", "RUNNING", "SWAPPED", "FINISHED"}]
    BY <1>1 DEF UseInv, TypeOK
  <1> QED  BY <1>1, <1>2, <1>3, UseFreed

LEMMA UseRecompute ==
  ASSUME Legal, UseInv, PrefixInv, NEW g \in Group, Recompute(g)
  PROVE  UseInv' /\ AllRead'
  <1>1. PICK s \in SeqsIn(g, "RUNNING") :
          /\ Created(g) \ SeqsIn(g, "FINISHED") = {s}
          /\ bm' \in Free(bm, {s})
          /\ status' = [status EXCEPT ![s] = "WAITING"]
          /\ pending' = pending \ {s}
    BY DEF Recompute
  <1>2. Created(g) = {s} /\ tokens' = tokens
    BY <1>1 DEF Recompute, Legal
  <1>3. s \in SeqId /\ s \in SeqsOf(g) /\ status[s] = "RUNNING"
    BY GroupFacts DEF SeqsIn
  <1>4. \A q \in SeqId : status'[q] = IF q = s THEN "WAITING" ELSE status[q]
    BY <1>1, <1>3 DEF UseInv, TypeOK
  <1>5. status' \in [SeqId -> {"NEW", "WAITING", "RUNNING", "SWAPPED", "FINISHED"}]
    BY <1>1 DEF UseInv, TypeOK
  <1>6. \A h \in Group : \A q \in SeqsOf(h) \cap {s} : Created(h) = {q}
    BY <1>2, <1>3, GroupFacts
  <1> QED  BY <1>1, <1>2, <1>3, <1>4, <1>5, <1>6, UseFreed

LEMMA UseResetAll ==
  ASSUME UseInv, PrefixInv, ResetAll
  PROVE  UseInv' /\ AllRead'
  <1>1. /\ bm' \in Free(bm, SeqId) /\ tokens' = tokens /\ pending' = {}
        /\ status' = [s \in SeqId |-> IF status[s] = "NEW" THEN "NEW" ELSE "FINISHED"]
    BY DEF ResetAll, Reset
  <1>2. pending' = pending \ SeqId
    BY <1>1 DEF UseInv, TypeOK
  <1>3. status' \in [SeqId -> {"NEW", "WAITING", "RUNNING", "SWAPPED", "FINISHED"}]
    BY <1>1
  <1> QED  BY <1>1, <1>2, <1>3, UseFreed

LEMMA UseSwapOut ==
  ASSUME Legal, UseInv, PrefixInv, NEW g \in Group, SwapOutGroup(g)
  PROVE  UseInv'
  <1> DEFINE ss == SeqsIn(g, "RUNNING")
  <1>1. /\ ss \in SUBSET SeqId /\ \A s \in ss : status[s] = "RUNNING"
        /\ PrefixOf[g] = NoPrefix /\ \A p \in Prefix : bm.prefix[p] = <<>>
    <2>1. PrefixFree
      BY DEF Legal, SwapOutGroup
    <2> QED  BY <2>1, GroupFacts DEF SeqsIn, PrefixFree, PrefixInv, Unpinned
  <1>2. /\ TypeOK /\ Counted(bm) /\ bm \in BlockManagers
        /\ \A s \in SeqId : Follows(s)
        /\ WaitsAlone
    BY DEF UseInv, TypeOK
  <1>3. /\ CanSwapOut(bm, ss) /\ bm' \in SwapOut(bm, ss, NoPrefix)
        /\ status' = [s \in SeqId |-> IF s \in ss THEN "SWAPPED" ELSE status[s]]
        /\ tokens' = tokens /\ pending' = pending /\ WithSwap /\ ss \subseteq pending
    BY <1>1 DEF SwapOutGroup
  <1>4. BlockSlidingWindow = 0
    BY <1>3 DEF Legal
  <1> HIDE DEF ss
  <1>5. /\ Counted(bm')
        /\ \A s \in SeqId \ ss : bm'.tables[s] = bm.tables[s]
        /\ \A s \in ss : /\ Range(bm'.tables[s]) \subseteq CpuBlock
                         /\ Len(bm'.tables[s]) = Len(bm.tables[s])
    BY <1>1, <1>2, <1>3, <1>4, CountedSwapOut
  <1>6. bm' \in BlockManagers
    <2>1. SwapOut(bm, ss, NoPrefix) \subseteq BlockManagers
      BY <1>1, <1>2, SwapType
    <2> QED  BY <1>3, <2>1
  <1>7. TypeOK'
    BY <1>2, <1>3, <1>6 DEF TypeOK
  <1>8. \A s \in SeqId : Follows(s)'
    <2> SUFFICES ASSUME NEW s \in SeqId PROVE Follows(s)'
      OBVIOUS
    <2>1. CASE s \in ss
      <3>1. /\ Len(bm.tables[s]) = LogicalBlocks(Placed(s)) /\ tokens[s] # 0 /\ Placed(s) # 0
            /\ s \in pending
        BY <1>1, <1>2, <1>3, <2>1 DEF Follows
      <3> QED  BY <1>3, <1>5, <2>1, <3>1 DEF Follows, LogicalBlocks, Placed
    <2>2. CASE s \notin ss
      BY <1>2, <1>3, <1>5, <2>2 DEF Follows, LogicalBlocks, Placed
    <2> QED  BY <2>1, <2>2
  <1>9. WaitsAlone'
    <2> SUFFICES ASSUME NEW h \in Group, NEW s \in SeqsOf(h), status'[s] = "WAITING"
                 PROVE  Created(h)' = {s}
      BY DEF WaitsAlone, SeqsIn, SeqsOf
    <2>1. \A r \in SeqsOf(h) : r \in SeqId /\ (status'[r] = "NEW" <=> status[r] = "NEW")
      BY <1>1, <1>3, GroupFacts
    <2>2. Created(h)' = Created(h)
      BY <2>1 DEF Created, SeqsOf
    <2>3. status[s] = "WAITING"
      BY <1>3, <2>1
    <2> QED  BY <1>2, <2>2, <2>3 DEF WaitsAlone, SeqsIn
  <1>10. NobodySwapped'
    BY <1>3 DEF NobodySwapped
  <1> QED  BY <1>5, <1>7, <1>8, <1>9, <1>10 DEF UseInv

(* swap_in gives the blocks back one for one, and leaves free one for each *)
(* of the sequences that may need a new one.                               *)
LEMMA SwapInSlotted ==
  ASSUME Legal, UseInv, PrefixInv, NEW g \in Group, SwapInGroup(g)
  PROVE  LET ss == SeqsIn(g, "SWAPPED")
         IN  \E c : /\ \A s \in SeqId \ ss : c.tables[s] = bm.tables[s]
                    /\ \A s \in ss : Len(c.tables[s]) = Len(bm.tables[s])
                    /\ Slotted(c, bm', ss, Wanted(ss))
  <1> DEFINE ss == SeqsIn(g, "SWAPPED")
  <1>1. /\ ss \in SUBSET SeqId /\ \A s \in ss : s \in SeqId /\ status[s] = "SWAPPED"
        /\ ss \in SUBSET {Parent[g], Child[g]} /\ ss # {}
        /\ Parent[g] \in SeqId /\ Child[g] \in SeqId /\ Parent[g] # Child[g]
    BY GroupFacts DEF SeqsIn, SeqsOf, SwapInGroup
  <1>2. WithSwap
    BY <1>1 DEF UseInv, NobodySwapped
  <1>3. /\ PrefixOf[g] = NoPrefix /\ \A p \in Prefix : bm.prefix[p] = <<>>
        /\ BlockSlidingWindow = 0
    <2>1. PrefixFree
      BY <1>2 DEF Legal
    <2> QED  BY <1>2, <2>1 DEF PrefixFree, PrefixInv, Unpinned, Legal
  <1>4. /\ Counted(bm) /\ bm \in BlockManagers
    BY DEF UseInv, TypeOK
  <1>5. /\ CanSwapIn(bm, ss)
        /\ bm' \in UNION {IF c.err = "none" THEN AppendSlots(c, ss, Wanted(ss)) ELSE {c} :
                          c \in SwapIn(bm, ss, NoPrefix)}
    BY <1>3 DEF SwapInGroup
  <1> HIDE DEF ss
  <1> DEFINE n == Wanted(ss)
  <1>6. n \in [ss -> Nat]
    BY <1>1, WantedType
  <1> HIDE DEF n
  <1>7. PICK c \in SwapIn(bm, ss, NoPrefix) :
          bm' \in IF c.err = "none" THEN AppendSlots(c, ss, n) ELSE {c}
    BY <1>5 DEF n
  <1>8. /\ Counted(c)
        /\ \A s \in SeqId \ ss : c.tables[s] = bm.tables[s]
        /\ \A s \in ss : /\ Range(c.tables[s]) \subseteq GpuBlock
                         /\ Len(c.tables[s]) = Len(bm.tables[s])
        /\ Cardinality(ss) <= Cardinality(c.gpu)
    BY <1>1, <1>3, <1>4, <1>5, CountedSwapIn
  <1>9. c \in BlockManagers
    <2>1. SwapIn(bm, ss, NoPrefix) \subseteq BlockManagers
      BY <1>1, <1>4, SwapType
    <2> QED  BY <2>1
  <1>10. bm' \in AppendSlots(c, ss, n)
    BY <1>7, <1>8 DEF Counted
  <1>11. \A s \in ss : c.tables[s] # <<>> /\ Range(c.tables[s]) \subseteq GpuBlock
    <2> SUFFICES ASSUME NEW s \in ss
                 PROVE  c.tables[s] # <<>> /\ Range(c.tables[s]) \subseteq GpuBlock
      OBVIOUS
    <2>1. Len(bm.tables[s]) \in Nat \ {0}
      BY <1>1, TableNotEmpty
    <2> QED  BY <1>8, <2>1, EmptySeq
  <1>12. Slotted(c, bm', ss, n)
    BY <1>1, <1>6, <1>8, <1>9, <1>10, <1>11, CountedAppendSlots
  <1> QED  BY <1>8, <1>12 DEF ss, n

LEMMA SwappedPending ==
  ASSUME UseInv, NEW g \in Group
  PROVE  LET ss == SeqsIn(g, "SWAPPED")
         IN  ss \in SUBSET SeqId /\ ss \subseteq pending /\ \A s \in ss : status[s] = "SWAPPED"
  BY GroupFacts DEF SeqsIn, UseInv, Follows

LEMMA UseSwapIn ==
  ASSUME Legal, UseInv, PrefixInv, NEW g \in Group, SwapInGroup(g)
  PROVE  /\ UseInv'
         /\ \A s \in SeqsIn(g, "SWAPPED") : Len(bm'.tables[s]) = LogicalBlocks(tokens[s])
  <1> DEFINE ss == SeqsIn(g, "SWAPPED")
  <1>1. ss \in SUBSET SeqId /\ ss \subseteq pending /\ \A s \in ss : status[s] = "SWAPPED"
    BY SwappedPending
  <1>2. PICK c : /\ \A s \in SeqId \ ss : c.tables[s] = bm.tables[s]
                 /\ \A s \in ss : Len(c.tables[s]) = Len(bm.tables[s])
                 /\ Slotted(c, bm', ss, Wanted(ss))
    BY SwapInSlotted
  <1>3. /\ tokens' = tokens /\ pending' = pending \ ss
        /\ status' = [s \in SeqId |-> IF s \in ss THEN "RUNNING" ELSE status[s]]
    BY DEF SwapInGroup
  <1> HIDE DEF ss
  <1>4. UseInv' /\ \A s \in ss : Len(bm'.tables[s]) = LogicalBlocks(tokens[s])
    BY <1>1, <1>2, <1>3, SlotsFollow
  <1> QED  BY <1>4 DEF ss

LEMMA UseStep ==
  ASSUME Legal, UseInv, PrefixInv, [Next]_vars
  PROVE  UseInv'
  <1>1. CASE UNCHANGED vars
    BY <1>1 DEF UseInv, TypeOK, Follows, WaitsAlone, NobodySwapped, LogicalBlocks, Placed,
                SeqsIn, SeqsOf, Created, vars
  <1>2. ASSUME NEW g \in Group, AllocateGroup(g) PROVE UseInv'
    BY <1>2, UseAllocateGroup
  <1>3. ASSUME NEW g \in Group, AppendTokens(g) PROVE UseInv'
    BY <1>3, UseAppendTokens
  <1>10. ASSUME NEW g \in Group, ReserveSlots(g) PROVE UseInv'
    BY <1>10, UseReserveSlots
  <1>4. ASSUME NEW g \in Group, ForkGroup(g) PROVE UseInv'
    BY <1>4, UseFork
  <1>5. ASSUME NEW g \in Group, Recompute(g) PROVE UseInv'
    BY <1>5, UseRecompute
  <1>6. ASSUME NEW g \in Group, SwapOutGroup(g) PROVE UseInv'
    BY <1>6, UseSwapOut
  <1>7. ASSUME NEW g \in Group, SwapInGroup(g) PROVE UseInv'
    BY <1>7, UseSwapIn
  <1>8. ASSUME NEW s \in SeqId, FreeSeq(s) PROVE UseInv'
    BY <1>8, UseFreeSeq
  <1>9. CASE ResetAll
    BY <1>9, UseResetAll
  <1> QED  BY <1>1, <1>2, <1>3, <1>4, <1>5, <1>6, <1>7, <1>8, <1>9, <1>10 DEF Next

-----------------------------------------------------------------------------
(* The prefixes.  Only allocate() gives a prefix blocks; the tokens that   *)
(* have a slot never get fewer than those of the prompt.                   *)
LEMMA UnpinnedStep ==
  ASSUME UseInv, PrefixInv, [Next]_vars
  PROVE  Unpinned'
  <1>1. Fields(bm)
    BY DEF UseInv, TypeOK, BlockManagers, Fields
  <1>2. PrefixFree => \A p \in Prefix : bm'.prefix[p] = bm.prefix[p]
    BY <1>1, PrefixStep
  <1> QED  BY <1>2 DEF PrefixInv, Unpinned, PrefixFree

LEMMA CoverStep ==
  ASSUME UseInv, PrefixInv, [Next]_vars
  PROVE  PromptsCover'
  <1> SUFFICES ASSUME NEW g \in Group, NEW s \in SeqsOf(g), tokens'[s] # 0,
                      PrefixOf[g] # NoPrefix
               PROVE  PrefixLen[PrefixOf[g]] * BlockSize <= Placed(s)'
    BY DEF PromptsCover, HasPrefix, SeqsOf
  <1> DEFINE least == PrefixLen[PrefixOf[g]] * BlockSize
  <1>1. s \in SeqId
    BY GroupFacts
  <1>2. least \in Nat
    BY UseAssumption, BlockAssumption
  <1>3. \A q \in SeqId : tokens[q] \in Nat
    BY UseAssumption DEF UseInv, TypeOK
  <1>4. \A q \in SeqsOf(g) : tokens[q] # 0 => least <= Placed(q)
    BY DEF PrefixInv, PromptsCover, HasPrefix
  <1> HIDE DEF least
  <1>5. tokens' = tokens /\ (s \in pending' => s \in pending) => least <= Placed(s)'
    <2> SUFFICES ASSUME tokens' = tokens, s \in pending' => s \in pending
                 PROVE  least <= Placed(s)'
      OBVIOUS
    <2>1. least <= Placed(s) /\ tokens[s] \in Nat
      BY <1>1, <1>3, <1>4
    <2> QED  BY <1>2, <2>1 DEF Placed
  <1>6. ASSUME NEW h \in Group, AppendTokens(h) PROVE least <= Placed(s)'
    <2> DEFINE ss == SeqsIn(h, "RUNNING")
    <2>1. /\ tokens'[s] = IF s \in ss THEN tokens[s] + 1 ELSE tokens[s]
          /\ pending' = pending \cup ss /\ ss \cap pending = {}
          /\ s \in ss => status[s] = "RUNNING"
      BY <1>1, <1>6 DEF AppendTokens, SeqsIn
    <2>2. s \in ss => tokens[s] # 0
      BY <1>1, <2>1 DEF UseInv, Follows
    <2> HIDE DEF ss
    <2>3. tokens[s] # 0 /\ tokens[s] \in Nat
      BY <1>1, <1>3, <2>1, <2>2
    <2>4. Placed(s)' = Placed(s)
      BY <2>1, <2>3 DEF Placed
    <2> QED  BY <1>4, <2>3, <2>4
  <1>7. ASSUME NEW h \in Group, ForkGroup(h) PROVE least <= Placed(s)'
    <2> DEFINE p == Parent[h]
               k == Child[h]
    <2>1. /\ tokens' = [tokens EXCEPT ![k] = tokens[p]] /\ pending' = pending \cup {k}
          /\ p \in pending /\ status[p] = "RUNNING"
          /\ p \in SeqId /\ k \in SeqId /\ p \in SeqsOf(h) /\ k \in SeqsOf(h)
      BY <1>7, GroupFacts DEF ForkGroup, SeqsOf
    <2> HIDE DEF p, k
    <2>2. tokens'[s] = IF s = k THEN tokens[p] ELSE tokens[s]
      BY <1>1, <2>1 DEF UseInv, TypeOK
    <2>3. CASE s = k
      <3>1. g = h
        BY <2>1, <2>3, GroupFacts
      <3>2. tokens[p] # 0
        BY <2>1 DEF UseInv, Follows
      <3>3. least <= Placed(p)
        BY <1>4, <2>1, <3>1, <3>2
      <3>4. Placed(s)' = Placed(p)
        BY <2>1, <2>2, <2>3 DEF Placed
      <3> QED  BY <3>3, <3>4
    <2>4. CASE s # k
      <3>1. tokens[s] # 0 /\ Placed(s)' = Placed(s)
        BY <2>1, <2>2, <2>4 DEF Placed
      <3> QED  BY <1>4, <3>1
    <2> QED  BY <2>3, <2>4
  <1>8. \/ \E h \in Group : AppendTokens(h)
        \/ \E h \in Group : ForkGroup(h)
        \/ tokens' = tokens /\ (s \in pending' => s \in pending)
    BY DEF Next, AllocateGroup, ReserveSlots, Recompute, SwapOutGroup, SwapInGroup,
           FreeSeq, ResetAll, vars
  <1> QED  BY <1>5, <1>6, <1>7, <1>8 DEF least

LEMMA NothingRead ==
  ASSUME UseInv, Unpinned, PrefixFree
  PROVE  AllRead
  <1>1. \A b : Pins(bm, b) = {}
    BY NothingPinned DEF Unpinned
  <1> QED  BY <1>1 DEF AllRead, ReadsPrefix, PrefixFree

LEMMA ReadStep ==
  ASSUME Legal, UseInv, PrefixInv, [Next]_vars
  PROVE  AllRead'
  <1>1. CASE PrefixFree
    <2>1. \A b : Pins(bm', b) = {}
      <3>1. \A p \in Prefix : bm'.prefix[p] = <<>>
        BY <1>1, UnpinnedStep DEF Unpinned, PrefixFree
      <3>2. Range(<<>>) = {}
        BY DEF Range
      <3> QED  BY <3>1, <3>2 DEF Pins
    <2> QED  BY <1>1, <2>1 DEF AllRead, ReadsPrefix, PrefixFree, Pins
  <1>2. CASE ~PrefixFree
    <2>1. \A h \in Group : ~SwapOutGroup(h) /\ ~SwapInGroup(h)
      <3>1. ~WithSwap
        BY <1>2 DEF Legal
      <3>2. \A h \in Group : SeqsIn(h, "SWAPPED") = {}
        BY <3>1, GroupFacts DEF SeqsIn, UseInv, NobodySwapped
      <3> QED  BY <3>1, <3>2 DEF SwapOutGroup, SwapInGroup
    <2>2. CASE bm' = bm
      BY <2>2 DEF PrefixInv, AllRead, ReadsPrefix, Behind, Pins, SeqsOf
    <2>3. ASSUME NEW g \in Group, AllocateGroup(g) PROVE AllRead'
      BY <2>3, UseAllocateGroup
    <2>4. ASSUME NEW g \in Group, ReserveSlots(g) PROVE AllRead'
      BY <2>4, UseReserveSlots
    <2>5. ASSUME NEW g \in Group, ForkGroup(g) PROVE AllRead'
      BY <2>5, UseFork
    <2>6. ASSUME NEW g \in Group, Recompute(g) PROVE AllRead'
      BY <2>6, UseRecompute
    <2>7. ASSUME NEW s \in SeqId, FreeSeq(s) PROVE AllRead'
      BY <2>7, UseFreeSeq
    <2>8. CASE ResetAll
      BY <2>8, UseResetAll
    <2>9. (\E g \in Group : AppendTokens(g)) \/ UNCHANGED vars => bm' = bm
      BY DEF AppendTokens, vars
    <2> QED  BY <2>1, <2>2, <2>3, <2>4, <2>5, <2>6, <2>7, <2>8, <2>9 DEF Next
  <1> QED  BY <1>1, <1>2

LEMMA PrefixInvStep ==
  ASSUME Legal, UseInv, PrefixInv, [Next]_vars
  PROVE  PrefixInv'
  BY UnpinnedStep, CoverStep, ReadStep DEF PrefixInv

LEMMA UseAlways ==
  ASSUME Legal
  PROVE  Spec => [](UseInv /\ PrefixInv)
  <1>1. UseInv /\ PrefixInv /\ [Next]_vars => UseInv' /\ PrefixInv'
    BY UseStep, PrefixInvStep
  <1> QED  BY <1>1, UseInit, PrefixInvInit, PTL DEF Spec

-----------------------------------------------------------------------------
(* The state of the manager is well formed after every Legal sequence.     *)
THEOREM ManagerTypeCorrect ==
  ASSUME Legal
  PROVE  Spec => []TypeOK
  <1>1. UseInv => TypeOK
    BY DEF UseInv
  <1> QED  BY <1>1, UseAlways, PTL

(* Behind the can_* tests no operation of BlockSpaceManager raises: no     *)
(* ValueError for lack of blocks, no double free, through forks, copies on *)
(* write, shared prefixes, swaps and the sliding window.                   *)
THEOREM CallsNeverRaise ==
  ASSUME Legal
  PROVE  Spec => []NoError
  <1>1. UseInv => NoError
    BY DEF UseInv, Counted, NoError
  <1> QED  BY <1>1, UseAlways, PTL

LEMMA CountedCounts ==
  ASSUME NEW c \in BlockManagers, Counted(c)
  PROVE  RefCountExact(c) /\ FreeIffUnreferenced(c)
  <1>3. \A b \in Block : /\ Cardinality(Pins(c, b)) \in Nat
                         /\ Cardinality(Pins(c, b)) = 0 <=> Pins(c, b) = {}
    BY PinFacts
  <1>4. \A b \in Block : /\ Cardinality(Holders(c, b)) \in Nat
                         /\ Cardinality(Holders(c, b)) = 0 <=> Holders(c, b) = {}
    <2> SUFFICES ASSUME NEW b \in Block
                 PROVE  /\ Cardinality(Holders(c, b)) \in Nat
                        /\ Cardinality(Holders(c, b)) = 0 <=> Holders(c, b) = {}
      OBVIOUS
    <2>1. Holders(c, b) \in SUBSET SeqId
      BY DEF Holders
    <2> QED  BY <2>1, SeqsAreFinite
  <1>5. \A b \in Block : c.ref[b] = Cardinality(Holders(c, b)) + Cardinality(Pins(c, b))
    BY DEF Counted
  <1>6. RefCountExact(c)
    BY <1>5 DEF RefCountExact
  <1>7. FreeIffUnreferenced(c)
    <2>1. \A b \in Block : c.ref[b] = 0 <=> Holders(c, b) = {} /\ Pins(c, b) = {}
      BY <1>3, <1>4, <1>5
    <2> QED  BY <2>1 DEF FreeIffUnreferenced, Counted
  <1> QED  BY <1>6, <1>7

(* A block is counted once for every sequence that holds it and for every  *)
(* prefix it belongs to, and is free when there are none, whatever was     *)
(* forked, copied or swapped before.                                       *)
THEOREM CountsAreExact ==
  ASSUME Legal
  PROVE  Spec => []RefCounts
  <1>1. UseInv => RefCounts
    BY CountedCounts DEF UseInv, TypeOK, RefCounts
  <1> QED  BY <1>1, UseAlways, PTL

(* A sequence that holds blocks has them on the device of its status, and  *)
(* exactly those of its tokens with a slot; the others have given          *)
(* everything back and wait for no slot.                                   *)
THEOREM TablesAreInPlace ==
  ASSUME Legal
  PROVE  Spec => []TablesMatchStatus
  <1>1. ASSUME UseInv PROVE TablesMatchStatus
    <2>1. \A s \in SeqId : Follows(s)
      BY <1>1 DEF UseInv
    <2> QED  BY <2>1 DEF Follows, TablesMatchStatus
  <1> QED  BY <1>1, UseAlways, PTL

LEMMA ModOfDiv ==
  ASSUME NEW w \in Nat \ {0}, NEW a \in Nat
  PROVE  a % w = a - w * (a \div w) /\ a \div w \in Nat
  BY SMTT(30)

LEMMA DivForward ==
  ASSUME NEW w \in Nat \ {0}, NEW a \in Nat
  PROVE  (a + w) \div w = (a \div w) + 1
  BY SMTT(30)

LEMMA ModBack ==
  ASSUME NEW w \in Nat \ {0}, NEW a \in Nat, a >= w
  PROVE  (a - w) % w = a % w
  <1> DEFINE b == a - w
             q == b \div w
  <1>1. b \in Nat /\ a = b + w
    OBVIOUS
  <1> HIDE DEF b
  <1>2. b % w = b - w * q /\ q \in Nat /\ a % w = a - w * (a \div w)
    BY <1>1, ModOfDiv
  <1>3. a \div w = q + 1
    BY <1>1, DivForward
  <1> HIDE DEF q
  <1>4. w * (q + 1) = w * q + w /\ w * q \in Nat
    BY <1>2
  <1>5. b % w = a % w
    BY <1>1, <1>2, <1>3, <1>4
  <1> QED  BY <1>5 DEF b

(* A sliding window keeps a table within its window of blocks, which it    *)
(* lists round and round.                                                  *)
THEOREM WindowKeepsItsRing ==
  ASSUME Legal
  PROVE  Spec => []WindowIsARing
  <1>1. ASSUME UseInv, BlockSlidingWindow > 0, NEW s \in SeqId
        PROVE  LET t == bm.tables[s]
               IN  /\ Cardinality(Range(t)) <= BlockSlidingWindow
                   /\ \A i \in DOMAIN t :
                        i > BlockSlidingWindow => t[i] = t[i - BlockSlidingWindow]
    <2> DEFINE t == bm.tables[s]
               w == BlockSlidingWindow
               front == {i \in DOMAIN t : i <= w}
               block == [i \in front |-> t[i]]
    <2>1. w \in Nat \ {0}
      BY <1>1, BlockAssumption
    <2>2. Ring(t) /\ Len(t) \in Nat /\ DOMAIN t = 1 .. Len(t)
      BY <1>1, TableFacts DEF UseInv, TypeOK, Counted
    <2>3. \A i \in DOMAIN t : i > w => t[i] = t[i - w]
      <3> SUFFICES ASSUME NEW i \in DOMAIN t, i > w PROVE t[i] = t[i - w]
        OBVIOUS
      <3>1. i - w \in DOMAIN t /\ i - 1 \in Nat /\ i - 1 >= w /\ (i - w) - 1 = (i - 1) - w
        BY <2>1, <2>2
      <3>2. (i - 1) % w = ((i - w) - 1) % w
        BY <2>1, <3>1, ModBack
      <3>3. SamePlace(i, i - w)
        BY <2>1, <3>2 DEF SamePlace
      <3> QED  BY <2>2, <3>1, <3>3 DEF Ring
    <2>4. \A i \in DOMAIN t : \E j \in front : t[i] = t[j]
      <3> SUFFICES ASSUME NEW i \in DOMAIN t PROVE \E j \in front : t[i] = t[j]
        OBVIOUS
      <3> DEFINE k == (i - 1) % w
      <3>1. i - 1 \in Nat
        BY <2>2
      <3>2. k \in 0 .. w - 1 /\ k % w = k /\ k <= i - 1
        BY <2>1, <3>1, ModMod
      <3>3. k = (i - 1) % w
        OBVIOUS
      <3> HIDE DEF k
      <3>4. k + 1 \in front /\ (k + 1) - 1 = k
        BY <2>1, <2>2, <3>2
      <3>5. SamePlace(i, k + 1)
        BY <2>1, <3>2, <3>3, <3>4 DEF SamePlace
      <3> QED  BY <2>2, <3>4, <3>5 DEF Ring
    <2>5. IsFiniteSet(front) /\ Cardinality(front) <= w
      <3>1. front \in SUBSET (1 .. w)
        BY <2>1, <2>2
      <3>2. IsFiniteSet(1 .. w) /\ Cardinality(1 .. w) = IF 1 > w THEN 0 ELSE w - 1 + 1
        <4>1. w \in Int /\ 1 \in Int
          BY <2>1
        <4> QED  BY <4>1, FS_Interval
      <3>3. Cardinality(1 .. w) = w
        BY <2>1, <3>2
      <3> HIDE DEF front
      <3> QED  BY <3>1, <3>2, <3>3, FS_Subset
    <2>6. block \in Surjection(front, Range(t))
      BY <2>4 DEF Surjection, Range
    <2> HIDE DEF front, block
    <2>7. Cardinality(Range(t)) <= Cardinality(front) /\ IsFiniteSet(Range(t))
      BY <2>5, <2>6, FS_Surjection
    <2>8. Cardinality(Range(t)) <= w
      BY <2>1, <2>5, <2>7, FS_CardinalityType
    <2> QED  BY <2>3, <2>8
  <1>2. UseInv => WindowIsARing
    BY <1>1 DEF WindowIsARing
  <1> QED  BY <1>2, UseAlways, PTL

(* A token gets its slot in a block with one holder, that belongs to no    *)
(* prefix, whether its sequence ran on or comes back from the CPU.         *)
THEOREM WriterIsAlone ==
  ASSUME Legal
  PROVE  Spec => SoleWriter
  <1> DEFINE Alone ==
        \A s \in pending \ pending' : bm'.err = "none" /\ status'[s] = "RUNNING" =>
          LET t    == bm'.tables[s]
              slot == t[LogicalBlocks(tokens[s])]
          IN  Holders(bm', slot) = {s} /\ Pins(bm', slot) = {}
  <1>1. ASSUME UseInv, PrefixInv, NEW g \in Group, ReserveSlots(g)
        PROVE  Alone
    <2> DEFINE ss == SeqsIn(g, "RUNNING")
    <2>1. Slotted(bm, bm', ss, Wanted(ss)) /\ pending' = pending \ ss /\ ss \subseteq pending
      BY <1>1, ReserveSlotted DEF ReserveSlots
    <2>2. ASSUME NEW s \in ss
          PROVE  Len(bm'.tables[s]) = LogicalBlocks(tokens[s])
      <3>1. s \in SeqId /\ status[s] = "RUNNING" /\ s \in pending
        BY <2>1, GroupFacts DEF SeqsIn
      <3>2. LogicalBlocks(tokens[s]) = IF Len(bm.tables[s]) < LogicalBlocks(tokens[s])
                                       THEN Len(bm.tables[s]) + 1 ELSE Len(bm.tables[s])
        BY <1>1, <3>1, NextSlot
      <3>3. Wanted(ss)[s] = LogicalBlocks(tokens[s])
        BY DEF Wanted
      <3> HIDE DEF ss
      <3> QED  BY <2>1, <3>2, <3>3 DEF Slotted
    <2> HIDE DEF ss
    <2> QED  BY <2>1, <2>2 DEF Slotted
  <1>2. ASSUME Legal, UseInv, PrefixInv, NEW g \in Group, SwapInGroup(g)
        PROVE  Alone
    <2> DEFINE ss == SeqsIn(g, "SWAPPED")
    <2>1. pending' = pending \ ss
      BY <1>2 DEF SwapInGroup
    <2>2. \E c : Slotted(c, bm', ss, Wanted(ss))
      BY <1>2, SwapInSlotted
    <2>3. \A s \in ss : Len(bm'.tables[s]) = LogicalBlocks(tokens[s])
      BY <1>2, UseSwapIn
    <2> HIDE DEF ss
    <2> QED  BY <2>1, <2>2, <2>3 DEF Slotted
  <1>3. ASSUME UseInv, NEW s \in SeqId, FreeSeq(s), NEW q \in pending \ pending'
        PROVE  status'[q] # "RUNNING"
    BY <1>3 DEF FreeSeq, UseInv, TypeOK
  <1>4. ASSUME UseInv, NEW g \in Group, Recompute(g), NEW q \in pending \ pending'
        PROVE  status'[q] # "RUNNING"
    BY <1>4 DEF Recompute, UseInv, TypeOK
  <1>5. ASSUME UseInv, ResetAll, NEW q \in pending \ pending'
        PROVE  status'[q] # "RUNNING"
    BY <1>5 DEF ResetAll, UseInv, TypeOK
  <1>6. ASSUME NEW g \in Group,
               AllocateGroup(g) \/ AppendTokens(g) \/ ForkGroup(g) \/ SwapOutGroup(g)
        PROVE  pending \ pending' = {}
    BY <1>6 DEF AllocateGroup, AppendTokens, ForkGroup, SwapOutGroup
  <1>7. UseInv /\ PrefixInv /\ [Next]_vars => [Alone]_vars
    <2> SUFFICES ASSUME UseInv, PrefixInv, Next PROVE Alone
      OBVIOUS
    <2>1. CASE \E g \in Group : ReserveSlots(g)
      BY <1>1, <2>1
    <2>2. CASE \E g \in Group : SwapInGroup(g)
      BY <1>2, <2>2
    <2>3. CASE \E g \in Group :
                 AllocateGroup(g) \/ AppendTokens(g) \/ ForkGroup(g) \/ SwapOutGroup(g)
      BY <1>6, <2>3
    <2>4. CASE \E g \in Group : Recompute(g)
      BY <1>4, <2>4
    <2>5. CASE \E s \in SeqId : FreeSeq(s)
      BY <1>3, <2>5
    <2>6. CASE ResetAll
      BY <1>5, <2>6
    <2> HIDE DEF Alone
    <2> QED  BY <2>1, <2>2, <2>3, <2>4, <2>5, <2>6 DEF Next
  <1> QED  BY <1>7, UseAlways, PTL DEF Spec, SoleWriter

-----------------------------------------------------------------------------
(* Every sequence with a prefix reads it in the prefix's own blocks, which *)
(* are never free and never hold a token of what follows the prefix.       *)
THEOREM PrefixKeepsItsBlocks ==
  ASSUME Legal
  PROVE  Spec => []PrefixIsShared
  <1>1. ASSUME UseInv, PrefixInv PROVE PrefixIsShared
    <2>1. \A b \in bm.gpu \cup bm.cpu : Pins(bm, b) = {}
      BY <1>1, FreeBlocksOf DEF UseInv, TypeOK, Counted
    <2>2. ASSUME NEW g \in Group, NEW s \in SeqsOf(g), bm.tables[s] # <<>>
          PROVE  LET t == bm.tables[s]
                     p == PrefixOf[g]
                     k == IF p = NoPrefix THEN 0 ELSE PrefixLen[p]
                 IN  /\ p # NoPrefix => SubSeq(t, 1, k) = bm.prefix[p]
                     /\ \A i \in k + 1 .. Len(t) : Pins(bm, t[i]) = {}
      <3> DEFINE t == bm.tables[s]
                 p == PrefixOf[g]
                 k == Behind(p)
                 u == bm.prefix[p]
      <3>1. s \in SeqId /\ p \in Prefix \cup {NoPrefix} /\ k \in Nat
        BY GroupFacts, UseAssumption, BlockAssumption DEF Behind
      <3>2. ReadsPrefix(bm, s, p)
        BY <1>1, <2>2 DEF PrefixInv, AllRead
      <3>3. status[s] \in {"RUNNING", "SWAPPED"} /\ tokens[s] # 0
        BY <1>1, <2>2, <3>1 DEF UseInv, Follows
      <3>4. /\ t \in Seq(Block) /\ Len(t) \in Nat /\ Placed(s) \in Nat
            /\ Len(t) = LogicalBlocks(Placed(s))
        BY <1>1, <3>1, <3>3, TableNotEmpty DEF UseInv, TypeOK, BlockManagers
      <3>5. ASSUME p # NoPrefix PROVE SubSeq(t, 1, k) = u
        <4>1. k = PrefixLen[p] /\ p \in Prefix
          BY <3>1, <3>5 DEF Behind
        <4>2. u \in Seq(Block) /\ Len(u) = k
          <5>1. u \in Seq(Block)
            BY <1>1, <4>1 DEF UseInv, TypeOK, BlockManagers
          <5>2. Whole(u, PrefixLen[p]) /\ u # <<>>
            BY <1>1, <3>2, <3>5, <4>1 DEF UseInv, Counted, WholePrefixes, ReadsPrefix
          <5> QED  BY <4>1, <5>1, <5>2 DEF Whole
        <4>3. k * BlockSize <= Placed(s)
          BY <1>1, <3>3, <3>5, <4>1 DEF PrefixInv, PromptsCover, HasPrefix
        <4>4. Placed(s) <= LogicalBlocks(Placed(s)) * BlockSize
          BY <3>4, LogicalBlocksGrow
        <4>5. \A i \in 1 .. k : t[i] = u[i]
          BY <3>2, <3>5 DEF ReadsPrefix
        <4> HIDE DEF t, p, k, u
        <4>6. k <= Len(t)
          <5> DEFINE n == Len(t)
          <5>1. BlockSize \in Nat \ {0} /\ n \in Nat /\ Placed(s) <= n * BlockSize
            BY <3>4, <4>4, UseAssumption
          <5> HIDE DEF n
          <5>2. k * BlockSize \in Nat /\ n * BlockSize \in Nat
            BY <3>1, <5>1
          <5>3. k * BlockSize <= n * BlockSize
            BY <3>4, <4>3, <5>1, <5>2
          <5>4. k <= n
            BY <3>1, <5>1, <5>3, TimesCancel
          <5> QED  BY <5>4 DEF n
        <4> QED  BY <3>1, <3>4, <4>2, <4>5, <4>6
      <3>6. \A i \in k + 1 .. Len(t) : Pins(bm, t[i]) = {}
        BY <3>2 DEF ReadsPrefix
      <3>7. k = IF p = NoPrefix THEN 0 ELSE PrefixLen[p]
        BY DEF Behind
      <3> HIDE DEF k
      <3> QED  BY <3>5, <3>6, <3>7
    <2> QED  BY <2>1, <2>2 DEF PrefixIsShared
  <1>2. UseInv /\ PrefixInv => PrefixIsShared
    BY <1>1
  <1> QED  BY <1>2, UseAlways, PTL
=============================================================================
