------------------------ MODULE MCBlockManagerUse ------------------------
(* TLC instances of BlockManagerUse: two or three groups of at most two    *)
(* sequences, with some of g1, g2 and g3 as the Group of a configuration.  *)
EXTENDS BlockManagerUse, TLC

CONSTANTS g1, g2, g3, g1p, g1c, g2p, g2c, g3p, g3c, sys

MCParent == [g \in Group |-> CASE g = g1 -> g1p [] g = g2 -> g2p [] g = g3 -> g3p]
MCChild  == [g \in Group |-> CASE g = g1 -> g1c [] g = g2 -> g2c [] g = g3 -> g3c]
MCSeqId  == {MCParent[g] : g \in Group} \cup {MCChild[g] : g \in Group}

(* g1 and g2 carry the same prefix of one block, g3 has a prompt of its    *)
(* own; or nobody has a prefix.                                            *)
SharedPrefix == [g \in Group |-> IF g = g3 THEN NoPrefix ELSE sys]
NoPrefixes   == [g \in Group |-> NoPrefix]
OneBlock     == [p \in {sys} |-> 1]
NoLengths    == [p \in {} |-> 1]

BlockSymmetry == Permutations(GpuBlock) \cup Permutations(CpuBlock)
=============================================================================
