----------------------------- MODULE MCLibrary ------------------------------
(***************************************************************************)
(* Library with strings, threads and the like that nothing tells apart.    *)
(***************************************************************************)
EXTENDS Library, TLC

Symmetry ==
    Permutations(Strings) \cup Permutations(Threads) \cup Permutations(Nodes)
      \cup Permutations(Slots) \cup Permutations(Managers)
=============================================================================
