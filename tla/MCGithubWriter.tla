--------------------------- MODULE MCGithubWriter ---------------------------
(* Instances of GithubWriter for TLC.  The runs r1, r2 are ready and have    *)
(* different branch stems; r3 is not ready though its checks completed.      *)
EXTENDS GithubWriter

CONSTANTS r1, r2, r3, h1, h2

MCStems == {h1, h2}
MCStem == [r \in Runs |-> IF r = r2 THEN h2 ELSE h1]
MCReady == Runs \ {r3}
MCCompleted == Runs
=============================================================================
