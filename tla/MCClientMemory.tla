--------------------------- MODULE MCClientMemory ---------------------------
(***************************************************************************)
(* Two client handles and three sets of memory.                            *)
(***************************************************************************)
EXTENDS ClientMemory
=============================================================================
