-------------------------- MODULE MCReleaseControl --------------------------
(***************************************************************************)
(* Small instances of ReleaseControl.  Threads and the evidence ids that   *)
(* clients deliver are interchangeable.                                    *)
(***************************************************************************)
EXTENDS ReleaseControl, TLC

Symmetry ==
  Permutations(Handlers) \cup Permutations(Evidence \ DemoEvidence)
=============================================================================
