---------------------------- MODULE MCLLMEngine ----------------------------
(* TLC instances of LLMEngine: three requests.                             *)
EXTENDS ServiceRefinement, TLC

CONSTANTS r1, r2, r3

Three == {r1, r2, r3}
Two   == {r1, r2}

AllOne    == [r \in SeqId |-> 1]                        \* greedy sampling
TwoTwo    == [r \in SeqId |-> IF r = r3 THEN 1 ELSE 2]  \* best_of = 2 for r1 and r2

NoPrefixes == [r \in SeqId |-> NoPrefix]
NoLengths  == [p \in {} |-> 1]

BlockSymmetry == Permutations(GpuBlock) \cup Permutations(CpuBlock)
AllSymmetry   == BlockSymmetry \cup Permutations(SeqId)
=============================================================================
