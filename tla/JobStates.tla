----------------------------- MODULE JobStates -----------------------------
(***************************************************************************)
(* What a workspace promises about one job, and nothing about how: the     *)
(* states of README.md "State is location" and the contract's Status type. *)
(* A job is staged, published once, run at least once, and ends done or    *)
(* failed for good.  A run that a dead daemon left behind may be handed    *)
(* out again, but never more than MaxRecovery times.                       *)
(***************************************************************************)
EXTENDS Naturals

CONSTANTS
    Job,         \* job ids
    MaxRecovery  \* NRVNA_MAX_RECOVERY_ATTEMPTS

VARIABLES
    state,  \* state[j]: where the job is, as Flow::status names it
    runs    \* runs[j]: how many times a worker has claimed the job

vars == <<state, runs>>

Status == {"staging", "queued", "running", "done", "failed"}

Ended == {"done", "failed"}

TypeOK ==
    /\ state \in [Job -> Status]
    /\ runs \in [Job -> Nat]

Init ==
    /\ state = [j \in Job |-> "staging"]
    /\ runs = [j \in Job |-> 0]

MoveTo(j, from, to) ==
    /\ state[j] = from
    /\ state' = [state EXCEPT ![j] = to]

\* Mutant of Publish: the staged directory is renamed to the wrong place.
PublishElsewhere(j) == MoveTo(j, "staging", "writing") /\ UNCHANGED runs

Publish(j) == MoveTo(j, "staging", "queued") /\ UNCHANGED runs

Claim(j) ==
    /\ MoveTo(j, "queued", "running")
    /\ runs' = [runs EXCEPT ![j] = @ + 1]

Complete(j) == MoveTo(j, "running", "done") /\ UNCHANGED runs

Fail(j) == MoveTo(j, "running", "failed") /\ UNCHANGED runs

\* Only a job that has been run at most MaxRecovery times may run again.
Requeue(j) ==
    /\ runs[j] <= MaxRecovery
    /\ MoveTo(j, "running", "queued")
    /\ UNCHANGED runs

Next ==
    \E j \in Job :
        \/ Publish(j)
        \/ Claim(j)
        \/ Complete(j)
        \/ Fail(j)
        \/ Requeue(j)

Spec == Init /\ [][Next]_vars
=============================================================================
