------------------------- MODULE MCSharedMemoryPool -------------------------
(* The constants of the pool's runs; contents and descriptions are only compared. *)
EXTENDS PoolReport, TLC

CONSTANTS d1, d2, desc1, desc2

Symmetry == Permutations(Data) \cup Permutations(Descriptions)
=============================================================================
