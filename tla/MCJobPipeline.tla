--------------------------- MODULE MCJobPipeline ---------------------------
(***************************************************************************)
(* Small instances of JobPipeline.  Two jobs of different kinds and two    *)
(* workers are enough for two threads to race for one job while the other  *)
(* job is at any step; a ceiling of one is reached by two crashes.         *)
(***************************************************************************)
EXTENDS JobPipeline, TLC

CONSTANTS j1, j2, w1, w2

TwoJobs == {j1, j2}
OneJob == {j1}
TwoWorkers == {w1, w2}

TextAndEmbed == (j1 :> "text") @@ (j2 :> "embed")
OneText == j1 :> "text"

EveryFault == {"read", "write", "rename", "list"}

WorkersAreAlike == Permutations({w1, w2})
=============================================================================
