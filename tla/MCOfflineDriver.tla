--------------------------- MODULE MCOfflineDriver ---------------------------
(* TLC instances of OfflineDriver.                                         *)
EXTENDS OfflineDriver, TLC

CONSTANTS r1, r2, r3

Three     == {r1, r2, r3}
AllOne    == [r \in SeqId |-> 1]
NoPrefixes == [r \in SeqId |-> NoPrefix]
NoLengths  == [p \in {} |-> 1]
=============================================================================
