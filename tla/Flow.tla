-------------------------------- MODULE Flow --------------------------------
(***************************************************************************)
(* The readers of a workspace: Flow::status, Flow::counts (flow.cpp) and   *)
(* selectSet (flw.cpp), with the wait loops of flw and nrvnad --drain      *)
(* around them.  A reader has no lock.  It looks into the state            *)
(* directories one after the other while the jobs move, and what it calls  *)
(* a state is put together from looks at different times.                  *)
(*                                                                         *)
(* The three readers differ in what they make of the looks, not in how     *)
(* they look, so a call is modelled once: it fills in sightings, and the   *)
(* answers are operators on them.  The jobs move as JobStates allows,      *)
(* which JobPipeline implements; a running one may get stuck.              *)
(*                                                                         *)
(* A look may fail.  The readers do not say so: an entry they cannot read  *)
(* is passed over, a listing that breaks off counts what it has, and an    *)
(* error while one job is looked for is its absence.                       *)
(*                                                                         *)
(* A wait is a call that counts the failures there are, and then calls     *)
(* until one is quiet: nrvnad --drain, which watches a daemon that it      *)
(* finds and begins again, as a daemon, when that one is gone.  The wait   *)
(* loops of flw do without the first call.                                 *)
(***************************************************************************)
EXTENDS JobStates, Sequences, FiniteSets

CONSTANTS
    Restarts,  \* whether a daemon may start, and recover, during a call
    MaxFaults  \* bound: looks that fail

ASSUME FlowAssumption == Restarts \in BOOLEAN /\ MaxFaults \in Nat

VARIABLES
    stuck,      \* running jobs that no worker has (JobPipeline's Stuck)
    phase,      \* "idle": no call yet, "reading", "read", "over": given up
    at,         \* how many directories the call is done with
    left,       \* the jobs not yet looked for in the directory being read
    sightings,  \* sightings[s]: the jobs seen in the directory of state s
    missed,     \* missed[s]: the jobs for which the look there has failed
    faults,
    known,      \* the jobs published when the call began (history)
    waiting,    \* the first call is over and the wait loop has begun
    watching,   \* the wait is for the daemon of another process (delegated)
    before,     \* the failed jobs that the first call saw (failedBaseline)
    older,      \* the jobs that had failed when the wait began (history)
    overlooked  \* those of them that the first call missed (history)

jobVars == <<vars, stuck>>
callVars == <<phase, at, left, sightings, missed, faults, known>>
waitVars == <<waiting, watching, before, older, overlooked>>
flowVars == <<jobVars, callVars, waitVars>>

Visible == {"queued", "running", "done", "failed"}

FlowTypeOK ==
    /\ TypeOK
    /\ stuck \subseteq Job
    /\ phase \in {"idle", "reading", "read", "over"}
    /\ at \in 0..4
    /\ left \subseteq Job
    /\ sightings \in [Visible -> SUBSET Job]
    /\ missed \in [Visible -> SUBSET Job]
    /\ faults \in 0..MaxFaults
    /\ known \subseteq Job
    /\ waiting \in BOOLEAN
    /\ watching \in BOOLEAN
    /\ before \subseteq Job
    /\ older \subseteq Job
    /\ overlooked \subseteq older

FlowInit ==
    /\ Init
    /\ stuck = {}
    /\ phase = "idle"
    /\ at = 0
    /\ left = {}
    /\ sightings = [s \in Visible |-> {}]
    /\ missed = [s \in Visible |-> {}]
    /\ faults = 0
    /\ known = {}
    /\ waiting = FALSE
    /\ watching \in BOOLEAN
    /\ before = {}
    /\ older = {}
    /\ overlooked = {}
-----------------------------------------------------------------------------
\* Mutants of Order: the order of Flow::list and Flow::meta; running before
\* queued; failed before running.
DownstreamFirst == <<"done", "failed", "running", "queued">>
RunningFirst == <<"running", "queued", "done", "failed">>
FailedEarly == <<"queued", "failed", "running", "done">>

\* Upstream first.
Order == <<"queued", "running", "done", "failed">>

\* Flow::status returns at the first directory that has the job, or at the
\* first look that fails, which it answers with Missing.
StatusOf(j) ==
    LET meets(i) == j \in sightings[Order[i]] \cup missed[Order[i]]
        first == CHOOSE i \in 1..4 :
                    meets(i) /\ \A k \in 1..(i - 1) : ~meets(k)
    IN  IF (\E i \in 1..4 : meets(i)) /\ j \in sightings[Order[first]]
        THEN Order[first]
        ELSE "missing"

\* Mutant of Quiet: a failed job keeps the queue from being quiet.
QuietWithoutFailures ==
    \A s \in {"queued", "running", "failed"} : sightings[s] = {}

\* counts() shows no queued and no running job; selectSet keeps the last
\* sighting of a job, and a set is done when none of these is pending.
Quiet == sightings["queued"] = {} /\ sightings["running"] = {}

LastSeen(s) ==
    {j \in sightings[s] :
        \A i, k \in 1..4 :
            Order[i] = s /\ i < k => j \notin sightings[Order[k]]}

NonePending == LastSeen("queued") = {} /\ LastSeen("running") = {}

\* counts() shows more failures than the first call did: exit code 1.
MoreFailed == Cardinality(sightings["failed"]) > Cardinality(before)

InState(s) == {j \in Job : state[j] = s}

Begin ==
    /\ phase' = "reading"
    /\ at' = 0
    /\ left' = Job
    /\ sightings' = [s \in Visible |-> {}]
    /\ missed' = [s \in Visible |-> {}]
    /\ known' = Job \ InState("staging")
    /\ UNCHANGED <<jobVars, faults>>

\* The wait is begun by counting.
FirstCall ==
    /\ phase = "idle"
    /\ Begin
    /\ older' = InState("failed")
    /\ overlooked' = {}
    /\ UNCHANGED <<waiting, watching, before>>

\* Mutant of EnterLoop: failures are compared with none.
EnterLoopWithoutBaseline ==
    /\ phase = "read" /\ ~waiting
    /\ Begin
    /\ waiting' = TRUE
    /\ UNCHANGED <<watching, before, older, overlooked>>

\* The baseline is kept and the loop entered, quiet or not.
EnterLoop ==
    /\ phase = "read" /\ ~waiting
    /\ Begin
    /\ waiting' = TRUE
    /\ before' = sightings["failed"]
    /\ overlooked' = older \cap missed["failed"]
    /\ UNCHANGED <<watching, older>>

\* The loop calls again.
CallAgain ==
    /\ phase = "read" /\ waiting /\ ~Quiet
    /\ Begin
    /\ UNCHANGED waitVars

\* The daemon that was watched has gone with work queued: this process becomes
\* the daemon, and its wait begins with a baseline of its own.
TakeOver ==
    /\ phase = "read" /\ waiting /\ watching /\ ~Quiet
    /\ Begin
    /\ waiting' = FALSE
    /\ watching' = FALSE
    /\ older' = InState("failed")
    /\ overlooked' = {}
    /\ UNCHANGED before

\* Exit code 1 without a verdict: another process got the lock first, or a
\* signal (or the end of the server) interrupts the drain.
GiveUp ==
    /\ phase = "read" /\ waiting /\ ~Quiet
    /\ phase' = "over"
    /\ UNCHANGED <<jobVars, at, left, sightings, missed, faults, known,
                   waitVars>>

\* The entry of one job in the directory is read, or is not there.
Look(j) ==
    /\ phase = "reading"
    /\ j \in left
    /\ left' = left \ {j}
    /\ sightings' =
        IF state[j] = Order[at + 1]
        THEN [sightings EXCEPT ![state[j]] = @ \cup {j}]
        ELSE sightings
    /\ UNCHANGED <<jobVars, phase, at, missed, faults, known, waitVars>>

\* An error hides one entry, or the listing breaks off and the entries still to
\* come are hidden.  The call goes on with the next directory.
LooksFail(hidden) ==
    /\ phase = "reading"
    /\ hidden # {}
    /\ faults < MaxFaults
    /\ faults' = faults + 1
    /\ left' = left \ hidden
    /\ missed' = [missed EXCEPT ![Order[at + 1]] = @ \cup hidden]
    /\ UNCHANGED <<jobVars, phase, at, sightings, known, waitVars>>

NextDirectory ==
    /\ phase = "reading"
    /\ left = {}
    /\ at' = at + 1
    /\ IF at + 1 = 4
       THEN phase' = "read" /\ UNCHANGED left
       ELSE left' = Job /\ UNCHANGED phase
    /\ UNCHANGED <<jobVars, sightings, missed, faults, known, waitVars>>

\* A worker ends the job that it has.
End(j) == j \notin stuck /\ (Complete(j) \/ Fail(j))

\* Everything but the recovery of a starting daemon.
Move(j) ==
    /\ Publish(j) \/ Claim(j) \/ End(j)
    /\ UNCHANGED <<stuck, callVars, waitVars>>

\* Neither the result nor the failure of a job could be put away: the worker
\* leaves it where it is ("STUCK JOB ... the next daemon will try recovery").
Strand(j) ==
    /\ state[j] = "running"
    /\ stuck' = stuck \cup {j}
    /\ UNCHANGED <<vars, callVars, waitVars>>

\* A starting daemon hands a job out again, or gives it up.
Recover(j) ==
    /\ Restarts \/ phase # "reading"
    /\ Requeue(j) \/ Fail(j)
    /\ stuck' = stuck \ {j}
    /\ UNCHANGED <<callVars, waitVars>>

Call ==
    \/ FirstCall
    \/ EnterLoop
    \/ CallAgain
    \/ TakeOver
    \/ NextDirectory
    \/ \E j \in Job : Look(j)

FlowNext ==
    \/ Call
    \/ GiveUp
    \/ \E hidden \in SUBSET left : LooksFail(hidden)
    \/ \E j \in Job : Move(j) \/ Strand(j) \/ Recover(j)

(***************************************************************************)
(* A call returns, and a daemon claims what is queued and ends what runs.  *)
(* Nobody has to publish a job, to restart a daemon or to give up, and no  *)
(* look has to fail.                                                       *)
(***************************************************************************)
FlowFairness ==
    /\ WF_flowVars(Call)
    /\ \A j \in Job :
        /\ WF_flowVars(Claim(j) /\ UNCHANGED <<stuck, callVars, waitVars>>)
        /\ WF_flowVars(End(j) /\ UNCHANGED <<stuck, callVars, waitVars>>)

FlowSpec == FlowInit /\ [][FlowNext]_flowVars /\ FlowFairness
-----------------------------------------------------------------------------
(***************************************************************************)
(* "A mid-check rename is re-observed downstream instead of reading as     *)
(* Missing" (flow.cpp:157): a job that was published before a call began   *)
(* is missing from it only if a look for the job failed.  Callers take     *)
(* Missing for an end (flw -w).                                            *)
(***************************************************************************)
NeverMissing ==
    phase = "read" =>
        \A j \in known :
            StatusOf(j) = "missing" => \E s \in Visible : j \in missed[s]

(***************************************************************************)
(* An end that a call reports is the job's end: "done" and "failed" were   *)
(* seen at some time during the call and are true after it, for flw, which *)
(* goes on to read the result, and for the last sightings of a set.        *)
(***************************************************************************)
ReportedEndIsTrue ==
    phase = "read" =>
        \A j \in Job : StatusOf(j) \in Ended => state[j] = StatusOf(j)

(***************************************************************************)
(* "Drain completes when the queue is quiet" (nrvnad.cpp:497): when a call *)
(* saw no queued and no running job, every job published before it began   *)
(* has ended, but for those that a failed look in these two directories    *)
(* has hidden.  The exit of nrvnad --drain and of flw -W.                  *)
(***************************************************************************)
QuietMeansEnded ==
    phase = "read" /\ Quiet =>
        \A j \in known \ (missed["queued"] \cup missed["running"]) :
            state[j] \in Ended

(***************************************************************************)
(* The same without the exception, as a comment has it: "only an           *)
(* observed-idle queue earns drain success" (nrvnad.cpp:659).              *)
(***************************************************************************)
QuietIsObserved ==
    phase = "read" /\ waiting /\ Quiet => \A j \in known : state[j] \in Ended

(***************************************************************************)
(* The verdict of a wait for a set (flw.cpp:299-306): when no member is    *)
(* pending in the last sightings, every member has ended, and the members  *)
(* that failed are seen to have failed.  "A mid-scan transition is         *)
(* re-observed in a later directory instead of slipping through" (:83).    *)
(* Members with an entry that could not be read are excepted.              *)
(***************************************************************************)
VerdictIsFinal ==
    phase = "read" /\ NonePending =>
        \A j \in known \ UNION {missed[s] : s \in Visible} :
            /\ state[j] \in Ended
            /\ state[j] = "failed" => j \in LastSeen("failed")

(***************************************************************************)
(* The exit code of a drain: "failures that predate this run must not      *)
(* count against this run's drain verdict" (nrvnad.cpp:612), and none of   *)
(* those that come after the baseline is forgotten.  Only numbers are      *)
(* compared, of two calls that each take four looks at a moving workspace. *)
(* An old failure counts when the baseline missed one, and a new one may   *)
(* be forgotten when the last call missed something.                       *)
(***************************************************************************)
DrainVerdict ==
    phase = "read" /\ waiting /\ Quiet =>
        /\ MoreFailed => (InState("failed") \ older) \cup overlooked # {}
        /\ ~MoreFailed /\ (\A s \in Visible \ {"done"} : missed[s] = {}) =>
               InState("failed") \cap known \subseteq before

(***************************************************************************)
(* A wait comes to an end: the loop sees the queue quiet once the jobs it  *)
(* waits for have ended, and nothing else than a job that stays stuck can  *)
(* hold it up, unless the wait is given up.                                *)
(***************************************************************************)
WaitEnds ==
    \/ <>(phase = "read" /\ waiting /\ Quiet)
    \/ <>(phase = "over")
    \/ <>[](stuck # {})
=============================================================================
