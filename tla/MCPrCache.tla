------------------------------ MODULE MCPrCache ------------------------------
(* PrCache on small sets; the pids are interchangeable. *)
EXTENDS PrCache, TLC

Symmetry == Permutations(Procs)
=============================================================================
