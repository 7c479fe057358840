------------------------- MODULE MCDynamicScheduler -------------------------
(***************************************************************************)
(* Small task graphs for DynamicScheduler.  As in the orchestrator's,      *)
(* timeline may be retried on a backup worker; gate has the first rank, so *)
(* only its dependency keeps it from being first.                          *)
(***************************************************************************)
EXTENDS DynamicScheduler, TLC

CONSTANTS
  timeline, replay, gate, first, second,
  Unassigned      \* the tasks no worker is capable of

\* replay and gate await timeline: they are ready at once, or fall together.
MCFork == [t \in Tasks |-> IF t = timeline THEN {} ELSE {timeline}]

MCRank == [t \in Tasks |-> ((timeline :> 2) @@ (replay :> 3) @@ (gate :> 1))[t]]

MCCandidates ==
  [t \in Tasks |-> IF t \in Unassigned THEN << >>
                   ELSE IF t = timeline THEN <<first, second>> ELSE <<second>>]

MCMaxAttempts == [t \in Tasks |-> IF t = timeline THEN 2 ELSE 1]
=============================================================================
