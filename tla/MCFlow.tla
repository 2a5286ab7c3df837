------------------------------- MODULE MCFlow -------------------------------
(* Two jobs: one that moves while the other is looked for.                 *)
EXTENDS Flow

CONSTANTS j1, j2

TwoJobs == {j1, j2}
OneJob == {j1}
=============================================================================
