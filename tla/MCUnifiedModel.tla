---------------------------- MODULE MCUnifiedModel ----------------------------
(***************************************************************************)
(* Small instance of UnifiedModel: as many changes as fit between reads.   *)
(***************************************************************************)
EXTENDS UnifiedModel, TLC

Symmetry == Permutations(Clients) \cup Permutations(Changes)
=============================================================================
