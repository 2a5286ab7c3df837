----------------------------- MODULE MCDispatch -----------------------------
(* Two jobs, two workers: enough for a duplicate, for a job that waits     *)
(* behind another, and for a worker that sleeps while the other one runs.  *)
EXTENDS Dispatch

CONSTANTS j1, j2, w1, w2

MCJob == {j1, j2}
MCWorker == {w1, w2}
MCId == j1 :> 1 @@ j2 :> 2
=============================================================================
