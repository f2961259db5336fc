--------------------------- MODULE MCLockFreeQueue ---------------------------
(***************************************************************************)
(* LockFreeQueue for several producers and consumers, which are            *)
(* interchangeable, as the addresses are.                                  *)
(***************************************************************************)
EXTENDS LockFreeQueue, TLC

Symmetry == Permutations(Producers) \cup Permutations(Consumers)
            \cup Permutations(Nodes)
=============================================================================
