-------------------------- MODULE MCServerRegistry --------------------------
(***************************************************************************)
(* Two configurations: full writes every part of the options, plain only   *)
(* what every creation writes.                                             *)
(***************************************************************************)
EXTENDS ServerRegistry, TLC

CONSTANTS full, plain
Symmetry == Permutations(Threads) \cup Permutations(Names) \cup Permutations(Handles)
BothConfigs == (full :> PartSet) @@ (plain :> {"base"})
=============================================================================
