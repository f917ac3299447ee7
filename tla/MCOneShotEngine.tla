--------------------------- MODULE MCOneShotEngine ---------------------------
(* TLC instance of OneShotEngine: the launcher's pool, a larger one and    *)
(* one that is too small for the batch.                                    *)
EXTENDS OneShotEngine
PoolSizes == {-4, 0, 2}
=============================================================================
