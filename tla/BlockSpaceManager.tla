------------------------- MODULE BlockSpaceManager -------------------------
(***************************************************************************)
(* qserve/core/block_manager.py: the two BlockAllocators (GPU, CPU) and    *)
(* the BlockSpaceManager that maps every sequence to a table of physical   *)
(* KV-cache blocks.                                                        *)
(*                                                                         *)
(* The manager is an object owned by the scheduler, so its state is one    *)
(* record that the callers keep in a variable:                             *)
(*    gpu, cpu   the free lists of the two allocators                      *)
(*    ref        PhysicalTokenBlock.ref_count                              *)
(*    tables     block_tables; <<>> stands for "no entry"                  *)
(*    prefix     Prefix.block_table of the prefix pool; <<>> is None       *)
(*    err        the exception an operation raised, or "none"              *)
(* An operation is the set of the states it may leave behind.  A free list *)
(* is a set: blocks come back in the iteration order of a Python set (line *)
(* 328), so which of them the next allocate() pops is not determined.      *)
(* After an exception nothing but err is meaningful: no caller catches it. *)
(***************************************************************************)
EXTENDS Integers, Sequences, FiniteSets, Functions

CONSTANTS
  GpuBlock, CpuBlock,      \* the physical blocks of the two devices
  SeqId,                   \* the sequences that may have a table
  Prefix, NoPrefix,        \* the shared prefixes; "prefix is None"
  PrefixLen,               \* Prefix.get_num_blocks()
  BlockSlidingWindow,      \* block_sliding_window; 0 is None
  Watermark                \* watermark, in percent (0.01 in the code)

ASSUME BlockAssumption ==
  /\ IsFiniteSet(GpuBlock) /\ IsFiniteSet(CpuBlock) /\ IsFiniteSet(SeqId)
  /\ IsFiniteSet(Prefix) /\ NoPrefix \notin Prefix
  /\ GpuBlock \cap CpuBlock = {}
  /\ PrefixLen \in [Prefix -> Nat \ {0}]
  /\ BlockSlidingWindow \in Nat /\ Watermark \in Nat

Block == GpuBlock \cup CpuBlock
WatermarkBlocks == (Watermark * Cardinality(GpuBlock)) \div 100

Errors == {"OutOfMemory", "DoubleFree", "PrefixNotComputed"}

BlockManagers ==
  [gpu : SUBSET GpuBlock, cpu : SUBSET CpuBlock, ref : [Block -> Nat],
   tables : [SeqId -> Seq(Block)], prefix : [Prefix -> Seq(Block)],
   err : Errors \cup {"none"}]

NewBlockManager ==
  [gpu |-> GpuBlock, cpu |-> CpuBlock, ref |-> [b \in Block |-> 0],
   tables |-> [s \in SeqId |-> <<>>], prefix |-> [p \in Prefix |-> <<>>],
   err |-> "none"]

Raise(bm, e) == [bm EXCEPT !.err = e]

-----------------------------------------------------------------------------
(* BlockAllocator: n blocks popped from the free list, in order.           *)
Popped(free, n) == Injection(1 .. n, free)

(* Mutants of FreeBlocks: the block is never put back on the free list; it *)
(* is put back although somebody still refers to it.                       *)
LosesFreedBlocks(bm, n) ==
  [bm EXCEPT !.ref = [b \in Block |-> bm.ref[b] - n[b]]]
FreesSharedBlocks(bm, n) ==
  [bm EXCEPT !.ref = [b \in Block |-> bm.ref[b] - n[b]],
             !.gpu = bm.gpu \cup {b \in GpuBlock : n[b] > 0},
             !.cpu = bm.cpu \cup {b \in CpuBlock : n[b] > 0}]

(* BlockAllocator.free, called n[b] times on every block b.                *)
FreeBlocks(bm, n) ==
  IF \E b \in Block : n[b] > bm.ref[b]
  THEN Raise(bm, "DoubleFree")
  ELSE LET back == {b \in Block : n[b] > 0 /\ n[b] = bm.ref[b]}
       IN  [bm EXCEPT !.ref = [b \in Block |-> bm.ref[b] - n[b]],
                      !.gpu = bm.gpu \cup (back \cap GpuBlock),
                      !.cpu = bm.cpu \cup (back \cap CpuBlock)]

(* How often block b is listed in the tables of the sequences ss.          *)
Uses(bm, ss, b) ==
  Cardinality(UNION {{s} \X {i \in DOMAIN bm.tables[s] : bm.tables[s][i] = b} :
                     s \in ss})

BlocksOf(bm, ss) == UNION {Range(bm.tables[s]) : s \in ss}

(* Mutant of PrefixAllocated: every prompt allocates its prefix anew.      *)
PrefixForgotten(bm, p) == FALSE

PrefixAllocated(bm, p) == p # NoPrefix /\ bm.prefix[p] # <<>>

-----------------------------------------------------------------------------
(* Mutant of CanAllocate: a prompt that can never fit is told to wait.     *)
NeverSaysNever(bm, n, p) ==
  IF Cardinality(bm.gpu) - n >= WatermarkBlocks THEN "OK" ELSE "LATER"

(* n: len(seq.logical_token_blocks); p: seq_group.prefix                   *)
CanAllocate(bm, n, p) ==
  LET own      == n - (IF PrefixAllocated(bm, p) THEN PrefixLen[p] ELSE 0)
      required == IF BlockSlidingWindow > 0 /\ own > BlockSlidingWindow
                  THEN BlockSlidingWindow ELSE own
  IN  IF Cardinality(GpuBlock) - required < WatermarkBlocks THEN "NEVER"
      ELSE IF Cardinality(bm.gpu) - required >= WatermarkBlocks THEN "OK"
      ELSE "LATER"

(* The table a prompt of n blocks gets: the prefix's blocks if they exist, *)
(* then new ones; beyond the sliding window position i lists once more the *)
(* block at position i % block_sliding_window of the whole table.          *)
PromptTable(shared, new, n) ==
  LET base == shared \o new
  IN  [i \in 1 .. n |-> IF i <= Len(base) THEN base[i]
                        ELSE base[((i - 1 - Len(shared)) % BlockSlidingWindow) + 1]]

(* ss: the WAITING sequences of a group of ng sequences.                   *)
Allocate(bm, ss, ng, n, p) ==
  LET shared  == IF PrefixAllocated(bm, p) THEN bm.prefix[p] ELSE <<>>
      own     == IF n > Len(shared) THEN n - Len(shared) ELSE 0
      fresh   == IF BlockSlidingWindow > 0 /\ own > BlockSlidingWindow
                 THEN BlockSlidingWindow ELSE own
      After(new) ==
        LET table   == PromptTable(shared, new, Len(shared) + own)
            ownSet  == {table[i] : i \in Len(shared) + 1 .. Len(table)}
            pinning == p # NoPrefix /\ ~PrefixAllocated(bm, p)
            pinned  == IF pinning /\ PrefixLen[p] < n
                       THEN SubSeq(table, 1, PrefixLen[p]) ELSE table
            pins(b) == IF pinning
                       THEN Cardinality({i \in DOMAIN pinned : pinned[i] = b}) ELSE 0
        IN  [bm EXCEPT
               !.gpu    = bm.gpu \ Range(new),
               !.ref    = [b \in Block |->
                             IF b \in ownSet THEN ng + pins(b)
                             ELSE IF b \in Range(shared) THEN bm.ref[b] + ng
                             ELSE bm.ref[b]],
               !.prefix = [q \in Prefix |-> IF pinning /\ q = p THEN pinned
                                            ELSE bm.prefix[q]],
               !.tables = [s \in SeqId |-> IF s \in ss THEN table
                                           ELSE bm.tables[s]]]
  IN  IF fresh > Cardinality(bm.gpu) THEN {Raise(bm, "OutOfMemory")}
      ELSE {After(new) : new \in Popped(bm.gpu, fresh)}

-----------------------------------------------------------------------------
(* Mutant of CanAppendSlot: off by one.                                    *)
CountsOneBlockMore(bm, numRunning) == numRunning <= Cardinality(bm.gpu) + 1

CanAppendSlot(bm, numRunning) == numRunning <= Cardinality(bm.gpu)

(* Mutant of Reused: the position is that of the previous block.           *)
ReusesPrevious(t, n) ==
  IF Len(t) < n THEN Append(t, t[((Len(t) - 1) % BlockSlidingWindow) + 1]) ELSE t

(* append_slot looks at the last block of the table once a slot is there:  *)
(* the table itself, or with the block of the sliding window listed again. *)
Reused(t, n) ==
  IF Len(t) < n THEN Append(t, t[(Len(t) % BlockSlidingWindow) + 1]) ELSE t

NeedsNewBlock(t, n) ==
  Len(t) < n /\ ~(BlockSlidingWindow > 0 /\ Len(t) >= BlockSlidingWindow)

(* Mutants of NeedsCopy: no copy on write; copy although nobody shares.    *)
NeverCopies(bm, s, n)  == FALSE
AlwaysCopies(bm, s, n) == ~NeedsNewBlock(bm.tables[s], n)

(* append_slot returns a (source, target) pair: copy on write.             *)
NeedsCopy(bm, s, n) ==
  LET t == bm.tables[s]
  IN  ~NeedsNewBlock(t, n) /\ bm.ref[Reused(t, n)[Len(Reused(t, n))]] # 1

(* n: the logical blocks of sequence s                                     *)
AppendSlot(bm, s, n) ==
  LET t    == bm.tables[s]
      u    == Reused(t, n)
      Take(c, b, table) ==
        [c EXCEPT !.gpu = c.gpu \ {b}, !.ref = [c.ref EXCEPT ![b] = 1],
                  !.tables = [c.tables EXCEPT ![s] = table]]
  IN  IF ~NeedsNewBlock(t, n) /\ ~NeedsCopy(bm, s, n)
      THEN {[bm EXCEPT !.tables = [bm.tables EXCEPT ![s] = u]]}
      ELSE IF bm.gpu = {} THEN {Raise(bm, "OutOfMemory")}
      ELSE IF NeedsNewBlock(t, n) THEN {Take(bm, b, Append(t, b)) : b \in bm.gpu}
      ELSE LET last == u[Len(u)]
               one  == [b \in Block |-> IF b = last THEN 1 ELSE 0]
           IN  {FreeBlocks(Take(bm, b, [u EXCEPT ![Len(u)] = b]), one) : b \in bm.gpu}

Fork(bm, parent, child) ==
  {[bm EXCEPT !.tables = [bm.tables EXCEPT ![child] = bm.tables[parent]],
              !.ref    = [b \in Block |-> bm.ref[b] + Uses(bm, {parent}, b)]]}

-----------------------------------------------------------------------------
(* can_swap_in / swap_in / can_swap_out / swap_out: ss is the set of the   *)
(* group's unfinished sequences, all SWAPPED (in) or all RUNNING (out).    *)
(* Mutant of CanSwapIn: the blocks that the pending tokens may open.       *)
ForgetsNextSlots(bm, ss) ==
  Cardinality(bm.gpu) - Cardinality(BlocksOf(bm, ss)) >= WatermarkBlocks

CanSwapIn(bm, ss) ==
  Cardinality(bm.gpu) - (Cardinality(BlocksOf(bm, ss)) + Cardinality(ss))
    >= WatermarkBlocks

(* Moves the blocks of `moved` to device blocks chosen by m, count for     *)
(* count, and rewrites the tables of ss; what is not moved leaves them.    *)
Moved(bm, ss, moved, m) ==
  LET kept(t) == IF Range(t) \subseteq moved THEN t
                 ELSE SelectSeq(t, LAMBDA b : b \in moved)
      to(b)   == CHOOSE c \in moved : m[c] = b
      freed   == FreeBlocks(bm, [b \in Block |-> Uses(bm, ss, b)])
  IN  [freed EXCEPT
         !.gpu    = freed.gpu \ Range(m),
         !.cpu    = freed.cpu \ Range(m),
         !.ref    = [b \in Block |-> IF b \in Range(m) THEN Uses(bm, ss, to(b))
                                     ELSE freed.ref[b]],
         !.tables = [s \in SeqId |->
                       IF s \in ss
                       THEN [i \in DOMAIN kept(bm.tables[s]) |-> m[kept(bm.tables[s])[i]]]
                       ELSE bm.tables[s]]]

(* Nothing in src/ ever sets Prefix.computed, so the assertion on line 261 *)
(* fails for every group that has a prefix.                                *)
SwapIn(bm, ss, p) ==
  LET moved == BlocksOf(bm, ss)
  IN  IF p # NoPrefix THEN {Raise(bm, "PrefixNotComputed")}
      ELSE IF Cardinality(moved) > Cardinality(bm.gpu) THEN {Raise(bm, "OutOfMemory")}
      ELSE {Moved(bm, ss, moved, m) : m \in Injection(moved, bm.gpu)}

CanSwapOut(bm, ss) == Cardinality(BlocksOf(bm, ss)) <= Cardinality(bm.cpu)

(* The prefix's blocks lose one reference each and stay on the GPU.        *)
SwapOut(bm, ss, p) ==
  LET moved == BlocksOf(bm, ss) \ (IF p = NoPrefix THEN {} ELSE Range(bm.prefix[p]))
  IN  IF Cardinality(moved) > Cardinality(bm.cpu) THEN {Raise(bm, "OutOfMemory")}
      ELSE {Moved(bm, ss, moved, m) : m \in Injection(moved, bm.cpu)}

-----------------------------------------------------------------------------
(* Mutant of Free: the entry of block_tables is not deleted.               *)
KeepsTable(bm, ss) ==
  {FreeBlocks(bm, [b \in Block |-> Cardinality({s \in ss : b \in Range(bm.tables[s])})])}

(* free(seq) for every sequence of ss, in any order: each block of a table *)
(* once, whatever its multiplicity.  Sequences without a table are skipped.*)
Free(bm, ss) ==
  LET held  == [b \in Block |-> Cardinality({s \in ss : b \in Range(bm.tables[s])})]
      freed == FreeBlocks(bm, held)
  IN  {[freed EXCEPT !.tables = [s \in SeqId |-> IF s \in ss THEN <<>>
                                                 ELSE bm.tables[s]]]}

Reset(bm) == Free(bm, SeqId)

-----------------------------------------------------------------------------
(* What the accounting has to satisfy.                                     *)

Holders(bm, b) == {s \in SeqId : b \in Range(bm.tables[s])}
Pins(bm, b)    == {p \in Prefix : b \in Range(bm.prefix[p])}

RefCountExact(bm) ==
  \A b \in Block : bm.ref[b] = Cardinality(Holders(bm, b)) + Cardinality(Pins(bm, b))

FreeIffUnreferenced(bm) ==
  \A b \in Block : b \in bm.gpu \cup bm.cpu <=> bm.ref[b] = 0
=============================================================================
