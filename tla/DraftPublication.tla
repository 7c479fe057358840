-------------------------- MODULE DraftPublication --------------------------
(* What the guarded GitHub writer promises (github_adapter.py, docs/         *)
(* github-issue-pr-flow.md): the evidence of a run that passed its gate      *)
(* appears on GitHub at once and whole, as one draft pull request whose      *)
(* files and text are all of that run.  People may close it.                 *)
CONSTANTS
    Runs,       \* the pipeline runs
    Ready       \* those whose readiness is "ready"

VARIABLE drafts \* what GitHub shows: a set of [run, content, open]

vars == <<drafts>>

Init == drafts = {}

(* The run's pull request appears, with the run's own files. *)
Publish(r) ==
    /\ r \in Ready
    /\ \A d \in drafts : d.run # r
    /\ drafts' = drafts \cup {[run |-> r, content |-> r, open |-> TRUE]}

(* A reviewer closes it. *)
Close(d) ==
    /\ d \in drafts /\ d.open
    /\ drafts' = (drafts \ {d}) \cup {[d EXCEPT !.open = FALSE]}

Next == (\E r \in Runs : Publish(r)) \/ (\E d \in drafts : Close(d))

Spec == Init /\ [][Next]_vars
=============================================================================
