--------------------------- MODULE MCModelForward ---------------------------
(* TLC instances of ModelForward.                                          *)
EXTENDS ModelForward, TLC

CONSTANTS s1, s2

(* Grouped-query attention over a wide MLP, plain attention over a narrow  *)
(* one.                                                                    *)
MCSizes   == {SizesOf(2, 1, 2, 3), SizesOf(2, 2, 2, 1)}
MCPrompts == {[before |-> 1, after |-> 1], [before |-> 0, after |-> 2]}
MCTables  == s1 :> <<3, 0, 4, 6>> @@ s2 :> <<1, 5, 2, 7>>
=============================================================================
