-------------------------- MODULE BlockManagerUse --------------------------
(***************************************************************************)
(* The BlockSpaceManager under a scheduler that calls it in any order,     *)
(* each call behind the can_* test that core/scheduler.py makes before it: *)
(* groups of one or two sequences (the second one a fork), with or without *)
(* a shared prefix.  Unlike the engine, which creates one sequence per     *)
(* group and never forks, this client reaches every operation of the       *)
(* manager.  Its constants switch off what the manager does not support:   *)
(* recomputing a group after a fork of it has finished, and swapping       *)
(* together with prefixes or with a window.                                *)
(*                                                                         *)
(* A decode is two actions, as in the code: the engine appends the token   *)
(* that a step computed, and the scheduler reserves its slot in the next   *)
(* step, after it may have preempted the sequence or swapped it out.       *)
(***************************************************************************)
EXTENDS BlockSpaceManager

CONSTANTS
  Group,          \* the sequence groups
  Parent, Child,  \* [Group -> SeqId]: a group's prompt sequence and its fork
  PrefixOf,       \* [Group -> Prefix \cup {NoPrefix}]
  BlockSize,      \* tokens per block
  PromptLens,     \* prompt lengths tried
  MaxTokens,      \* bound on the tokens of a sequence
  WithFork, WithSwap, \* whether the client forks / swaps
  RecomputesForks     \* whether a group is recomputed once all but one of
                      \* its sequences have finished

(* Groups share no sequence, and no prompt is empty.                       *)
ASSUME UseAssumption ==
  /\ Parent \in [Group -> SeqId] /\ Child \in [Group -> SeqId]
  /\ \A g \in Group : Parent[g] # Child[g]
  /\ \A g, h \in Group : g # h => {Parent[g], Child[g]} \cap {Parent[h], Child[h]} = {}
  /\ PrefixOf \in [Group -> Prefix \cup {NoPrefix}]
  /\ BlockSize \in Nat \ {0} /\ MaxTokens \in Nat /\ PromptLens \subseteq 1 .. MaxTokens
  /\ WithFork \in BOOLEAN /\ WithSwap \in BOOLEAN /\ RecomputesForks \in BOOLEAN

VARIABLES
  bm,       \* the block manager
  status,   \* [SeqId -> "NEW", "WAITING", "RUNNING", "SWAPPED", "FINISHED"]
  tokens,   \* [SeqId -> Nat]: tokens appended to the sequence
  pending   \* the sequences whose last token has no slot yet

vars == <<bm, status, tokens, pending>>

(* len(seq.logical_token_blocks): _append_tokens_to_blocks opens a block   *)
(* only when the last one is full.                                         *)
LogicalBlocks(t) == (t + BlockSize - 1) \div BlockSize

SeqsOf(g)       == {Parent[g], Child[g]}
SeqsIn(g, st)   == {s \in SeqsOf(g) : status[s] = st}
Created(g)      == {s \in SeqsOf(g) : status[s] # "NEW"}
HasPrefix(g, t) == PrefixOf[g] # NoPrefix => PrefixLen[PrefixOf[g]] * BlockSize <= t

Init ==
  /\ bm = NewBlockManager
  /\ tokens \in [SeqId -> PromptLens \cup {0}]
  /\ \A g \in Group : /\ tokens[Parent[g]] # 0 /\ tokens[Child[g]] = 0
                      /\ HasPrefix(g, tokens[Parent[g]])
  /\ status = [s \in SeqId |-> IF tokens[s] = 0 THEN "NEW" ELSE "WAITING"]
  /\ pending = {}

Running == bm.err = "none"

-----------------------------------------------------------------------------
(* The prompt's blocks hold all the tokens the sequence has, those it      *)
(* generated before a recomputation included.                              *)
AllocateGroup(g) ==
  /\ Running
  /\ \E s \in SeqsIn(g, "WAITING") :
       LET n == LogicalBlocks(tokens[s])
       IN  /\ CanAllocate(bm, n, PrefixOf[g]) = "OK"
           /\ bm' \in Allocate(bm, {s}, Cardinality(Created(g)), n, PrefixOf[g])
           /\ status' = [status EXCEPT ![s] = "RUNNING"]
  /\ UNCHANGED <<tokens, pending>>

(* The engine appends the token a step computed to every running sequence  *)
(* of a scheduled group; the manager hears of it when the scheduler asks   *)
(* for the slots.                                                          *)
AppendTokens(g) ==
  LET ss == SeqsIn(g, "RUNNING")
  IN  /\ Running
      /\ ss # {} /\ ss \cap pending = {} /\ \A s \in ss : tokens[s] < MaxTokens
      /\ tokens' = [s \in SeqId |-> IF s \in ss THEN tokens[s] + 1 ELSE tokens[s]]
      /\ pending' = pending \cup ss
      /\ UNCHANGED <<bm, status>>

(* Slots for all of ss, one sequence after the other, in tables that shall *)
(* have n[s] blocks.                                                       *)
AppendSlots(c, ss, n) ==
  IF \E s \in ss : ss = {s}
  THEN UNION {AppendSlot(c, s, n[s]) : s \in ss}
  ELSE UNION {UNION {AppendSlot(d, s, n[s]) : s \in ss \ {r},
                                              d \in AppendSlot(c, r, n[r])} : r \in ss}

Wanted(ss) == [s \in ss |-> LogicalBlocks(tokens[s])]

(* The scheduler's next call finds can_append_slot true.                   *)
ReserveSlots(g) ==
  LET ss == SeqsIn(g, "RUNNING")
  IN  /\ Running
      /\ ss # {} /\ ss \subseteq pending
      /\ CanAppendSlot(bm, Cardinality(ss))
      /\ bm' \in AppendSlots(bm, ss, Wanted(ss))
      /\ pending' = pending \ ss
      /\ UNCHANGED <<status, tokens>>

(* A fork takes a token of its own from the step that its parent's last    *)
(* token comes from: neither has a slot yet.                               *)
ForkGroup(g) ==
  /\ Running /\ WithFork
  /\ status[Parent[g]] = "RUNNING" /\ status[Child[g]] = "NEW"
  /\ Parent[g] \in pending
  /\ bm' \in Fork(bm, Parent[g], Child[g])
  /\ status' = [status EXCEPT ![Child[g]] = "RUNNING"]
  /\ tokens' = [tokens EXCEPT ![Child[g]] = tokens[Parent[g]]]
  /\ pending' = pending \cup {Child[g]}

(* A sequence finishes or is aborted, in whatever state it is.             *)
FreeSeq(s) ==
  /\ Running
  /\ status[s] \in {"WAITING", "RUNNING", "SWAPPED"}
  /\ bm' \in Free(bm, {s})
  /\ status' = [status EXCEPT ![s] = "FINISHED"]
  /\ pending' = pending \ {s}
  /\ UNCHANGED tokens

(* Preemption by recomputation, of a group with one unfinished sequence.   *)
(* The victims of a preemption are groups whose new tokens have no slots.  *)
Recompute(g) ==
  LET live == Created(g) \ SeqsIn(g, "FINISHED")
  IN  /\ Running
      /\ RecomputesForks \/ live = Created(g)
      /\ \E s \in SeqsIn(g, "RUNNING") :
           /\ live = {s} /\ s \in pending
           /\ bm' \in Free(bm, {s})
           /\ status' = [status EXCEPT ![s] = "WAITING"]
           /\ pending' = pending \ {s}
      /\ UNCHANGED tokens

SwapOutGroup(g) ==
  LET ss == SeqsIn(g, "RUNNING")
  IN  /\ Running /\ WithSwap
      /\ ss # {} /\ ss \subseteq pending /\ CanSwapOut(bm, ss)
      /\ bm' \in SwapOut(bm, ss, PrefixOf[g])
      /\ status' = [s \in SeqId |-> IF s \in ss THEN "SWAPPED" ELSE status[s]]
      /\ UNCHANGED <<tokens, pending>>

(* swap_in is always followed by append_slot (scheduler.py:312-313), for   *)
(* the tokens that were without a slot when the group was swapped out.     *)
SwapInGroup(g) ==
  LET ss == SeqsIn(g, "SWAPPED")
  IN  /\ Running
      /\ ss # {} /\ CanSwapIn(bm, ss)
      /\ bm' \in UNION {IF c.err = "none" THEN AppendSlots(c, ss, Wanted(ss)) ELSE {c} :
                        c \in SwapIn(bm, ss, PrefixOf[g])}
      /\ status' = [s \in SeqId |-> IF s \in ss THEN "RUNNING" ELSE status[s]]
      /\ pending' = pending \ ss
      /\ UNCHANGED tokens

ResetAll ==
  /\ Running
  /\ \E s \in SeqId : status[s] \in {"RUNNING", "SWAPPED"}
  /\ bm' \in Reset(bm)
  /\ status' = [s \in SeqId |-> IF status[s] = "NEW" THEN "NEW" ELSE "FINISHED"]
  /\ pending' = {}
  /\ UNCHANGED tokens

Next ==
  \/ \E g \in Group : \/ AllocateGroup(g) \/ AppendTokens(g) \/ ReserveSlots(g)
                      \/ ForkGroup(g) \/ Recompute(g)
                      \/ SwapOutGroup(g) \/ SwapInGroup(g)
  \/ \E s \in SeqId : FreeSeq(s)
  \/ ResetAll

Spec == Init /\ [][Next]_vars

-----------------------------------------------------------------------------
(* Type invariant.                                                         *)
TypeOK ==
  /\ bm \in BlockManagers
  /\ status \in [SeqId -> {"NEW", "WAITING", "RUNNING", "SWAPPED", "FINISHED"}]
  /\ tokens \in [SeqId -> 0 .. MaxTokens]
  /\ pending \subseteq SeqId

(* The can_* tests are sufficient: guarded by them, no operation runs out  *)
(* of blocks, frees a block twice or meets an uncomputed prefix; after     *)
(* swap_in there is a block for every sequence that needs a new one.       *)
NoError == bm.err = "none"

(* A reference count is the number of tables and prefixes that list the    *)
(* block, through forks, copies on write, swaps and shared prefixes; so    *)
(* no block is returned while someone can still write it and none leaks.   *)
RefCounts == Running => RefCountExact(bm) /\ FreeIffUnreferenced(bm)

(* The tokens of a sequence that have a slot.                              *)
Placed(s) == IF s \in pending THEN tokens[s] - 1 ELSE tokens[s]

(* A sequence that holds blocks is on the device its status says, with the *)
(* blocks of exactly the tokens that have a slot: no swap loses one, and a *)
(* token whose slot was never reserved is not taken for one that has it.   *)
(* One that waits, or is finished, holds none and lacks none.              *)
TablesMatchStatus ==
  Running => \A s \in SeqId :
    LET t == bm.tables[s]
    IN  CASE status[s] = "RUNNING" -> /\ Range(t) \subseteq GpuBlock
                                      /\ Len(t) = LogicalBlocks(Placed(s))
          [] status[s] = "SWAPPED" -> /\ Range(t) \subseteq CpuBlock
                                      /\ Len(t) = LogicalBlocks(Placed(s))
          [] OTHER                 -> t = <<>> /\ s \notin pending

(* A pending token gets its slot in a block that belongs to nobody else,   *)
(* neither to a fork nor to a prefix: copy on write came first, in the     *)
(* step of the reservation or in that of the swap-in.                      *)
SoleWriter ==
  [][\A s \in pending \ pending' : bm'.err = "none" /\ status'[s] = "RUNNING" =>
       LET t    == bm'.tables[s]
           slot == t[LogicalBlocks(tokens[s])]
       IN  Holders(bm', slot) = {s} /\ Pins(bm', slot) = {}]_vars

(* All sequences with a prefix read it in the same blocks, long after the  *)
(* prompt that filled them is gone: the blocks are on no free list, and no *)
(* token beyond a prefix lies in a block of one, whatever is forked,       *)
(* copied, recomputed or freed in between.                                 *)
PrefixIsShared ==
  Running =>
    /\ \A b \in bm.gpu \cup bm.cpu : Pins(bm, b) = {}
    /\ \A g \in Group : \A s \in SeqsOf(g) : bm.tables[s] # <<>> =>
         LET t == bm.tables[s]
             p == PrefixOf[g]
             k == IF p = NoPrefix THEN 0 ELSE PrefixLen[p]
         IN  /\ p # NoPrefix => SubSeq(t, 1, k) = bm.prefix[p]
             /\ \A i \in k + 1 .. Len(t) : Pins(bm, t[i]) = {}

(* With a sliding window a table never holds more distinct blocks than the *)
(* window, and lists them cyclically.                                      *)
WindowIsARing ==
  Running /\ BlockSlidingWindow > 0 => \A s \in SeqId :
    LET t == bm.tables[s]
    IN  /\ Cardinality(Range(t)) <= BlockSlidingWindow
        /\ \A i \in DOMAIN t : i > BlockSlidingWindow => t[i] = t[i - BlockSlidingWindow]
=============================================================================
