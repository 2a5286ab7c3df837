------------------------------ MODULE Dispatch ------------------------------
(***************************************************************************)
(* From input/ready to a claim: Server::scanLoop lists the directory every *)
(* five seconds and submits what it finds to the pool; a worker that pops  *)
(* an id claims it with a rename; Server::shutdown joins the scanner       *)
(* thread, then stops the pool.                                            *)
(*                                                                         *)
(* The list a scan works from is stale as soon as it is made, and an id is *)
(* submitted again when it is still in ready/ thirty seconds later, so an  *)
(* id can be queued after its job was claimed, or twice.                   *)
(***************************************************************************)
EXTENDS Pool

CONSTANTS
    Id,         \* Id[j]: the order of the ids, which start with a timestamp
    MaxFaults   \* bound: claims, listings and finalisations that fail

ASSUME DispatchAssumption ==
    /\ IsFiniteSet(Job)
    /\ MaxFaults \in Nat

VARIABLES
    place,      \* place[j]: "new", "ready", "running", "ended" or "stuck"
    claimed,    \* claimed[w]: worker w's rename of held[w] succeeded
    runs,       \* runs[j]: claims of j that succeeded (history)
    scan,       \* what scanLoop is doing
    list,       \* the ids of the current scan still to be looked at
    submitted,  \* the keys of submittedJobs
    overdue,    \* the ids submitted thirty seconds ago or more
    server,     \* "up", or how far Server::shutdown has come
    faults

scanVars == <<scan, list, submitted, overdue>>
jobVars == <<place, claimed, runs, faults>>
vars == <<poolVars, scanVars, jobVars, server>>

\* An ended job is in output/ or failed/.  A stuck one was left in processing/
\* by the worker that ran it.
Place == {"new", "ready", "running", "ended", "stuck"}

Ready == {j \in Job : place[j] = "ready"}

TypeOK ==
    /\ PoolTypeOK
    /\ place \in [Job -> Place]
    /\ claimed \in [Worker -> BOOLEAN]
    /\ runs \in [Job -> Nat]
    /\ scan \in {"list", "submit", "sleep", "ended"}
    /\ list \in Seq(Job)
    /\ submitted \subseteq Job
    /\ overdue \subseteq submitted
    /\ server \in {"up", "joining", "stopping", "down"}
    /\ faults \in 0..MaxFaults

Init ==
    /\ PoolInit
    /\ place = [j \in Job |-> "new"]
    /\ claimed = [w \in Worker |-> FALSE]
    /\ runs = [j \in Job |-> 0]
    /\ scan = "list"
    /\ list = <<>>
    /\ submitted = {}
    /\ overdue = {}
    /\ server = "up"
    /\ faults = 0
-----------------------------------------------------------------------------
Publish(j) ==
    /\ place[j] = "new"
    /\ place' = [place EXCEPT ![j] = "ready"]
    /\ UNCHANGED <<poolVars, scanVars, claimed, runs, faults, server>>

\* Mutant of Forget: the time of an id is kept when the id is forgotten.
ForgetIdsOnly(listed) ==
    /\ submitted' = submitted \cap listed
    /\ UNCHANGED overdue

\* submittedJobs forgets the ids that were not listed.
Forget(listed) ==
    /\ submitted' = submitted \cap listed
    /\ overdue' = overdue \cap listed

\* Scanner::scan sorts the ids it finds.
List ==
    /\ scan = "list"
    /\ list' \in SetToSeqs(Ready)
    /\ \A i, k \in DOMAIN list' : i < k => Id[list'[i]] < Id[list'[k]]
    /\ Forget(Ready)
    /\ scan' = "submit"
    /\ UNCHANGED <<poolVars, jobVars, server>>

\* The iteration over ready/ throws: scan returns what it has, unsorted.
ListFails ==
    /\ scan = "list"
    /\ faults < MaxFaults
    /\ faults' = faults + 1
    /\ \E S \in SUBSET Ready :
        /\ S # Ready
        /\ list' \in SetToSeqs(S)
        /\ Forget(S)
    /\ scan' = "submit"
    /\ UNCHANGED <<poolVars, place, claimed, runs, server>>

\* Mutant of ToSubmit: an id is submitted once and never again.
NeverAgain(j) == j \notin submitted

ToSubmit(j) == j \notin submitted \/ j \in overdue

\* An iteration of the loop over the list that queues its id.
SubmitHead ==
    /\ scan = "submit"
    /\ server = "up"
    /\ list # <<>>
    /\ LET j == Head(list) IN
        /\ ToSubmit(j)
        /\ Submit(j)
        /\ submitted' = submitted \cup {j}
        /\ overdue' = overdue \ {j}
    /\ list' = Tail(list)
    /\ UNCHANGED <<scan, jobVars, server>>

\* An iteration that does not try, or whose id the pool refuses.
PassOver ==
    /\ scan = "submit"
    /\ server = "up"
    /\ list # <<>>
    /\ LET j == Head(list) IN
        ToSubmit(j) => mutex = NoOne /\ Refuses(j)
    /\ list' = Tail(list)
    /\ UNCHANGED <<poolVars, scan, submitted, overdue, jobVars, server>>

\* The end of the loop over the list, reached early when the server stops.
SubmitDone ==
    /\ scan = "submit"
    /\ list = <<>> \/ server # "up"
    /\ list' = <<>>
    /\ scan' = "sleep"
    /\ UNCHANGED <<poolVars, submitted, overdue, jobVars, server>>

\* Five seconds pass, or the sleep sees the server's flag.
Sleep ==
    /\ scan = "sleep"
    /\ scan' = IF server = "up" THEN "list" ELSE "ended"
    /\ UNCHANGED <<poolVars, list, submitted, overdue, jobVars, server>>

\* Thirty seconds pass for an id of submittedJobs.
Elapse(j) ==
    /\ j \in submitted \ overdue
    /\ overdue' = overdue \cup {j}
    /\ UNCHANGED <<poolVars, scan, list, submitted, jobVars, server>>
-----------------------------------------------------------------------------
\* Mutant of Claim: a rename that fails is taken for one that succeeds.
ClaimAnyway(w) ==
    LET j == held[w] IN
    /\ wpc[w] = "process"
    /\ ~claimed[w]
    /\ place' = [place EXCEPT ![j] = "running"]
    /\ claimed' = [claimed EXCEPT ![w] = TRUE]
    /\ runs' = [runs EXCEPT ![j] = @ + 1]
    /\ UNCHANGED <<poolVars, scanVars, faults, server>>

\* moveReadyToProcessing succeeds.
Claim(w) ==
    LET j == held[w] IN
    /\ wpc[w] = "process"
    /\ ~claimed[w]
    /\ place[j] = "ready"
    /\ place' = [place EXCEPT ![j] = "running"]
    /\ claimed' = [claimed EXCEPT ![w] = TRUE]
    /\ runs' = [runs EXCEPT ![j] = @ + 1]
    /\ UNCHANGED <<poolVars, scanVars, faults, server>>

\* The rename fails: the job is gone, or (a fault) the file system refuses
\* and it stays in ready/.  process returns NotFound.
NotFound(w) ==
    LET j == held[w] IN
    /\ wpc[w] = "process"
    /\ ~claimed[w]
    /\ IF place[j] = "ready"
       THEN faults < MaxFaults /\ faults' = faults + 1
       ELSE UNCHANGED faults
    /\ Finish(w)
    /\ UNCHANGED <<scanVars, place, claimed, runs, server>>

\* Mutant of Processed: a job that did not end well is put back into ready/.
ProcessedOrPutBack(w) ==
    /\ claimed[w]
    /\ Finish(w)
    /\ claimed' = [claimed EXCEPT ![w] = FALSE]
    /\ \E where \in {"ended", "ready"} :
           place' = [place EXCEPT ![held[w]] = where]
    /\ UNCHANGED <<scanVars, runs, faults, server>>

\* process returns after a claim, the job in output/ or failed/; what it did is
\* JobPipeline's subject.  When finalizeFailure fails the job is stuck.
Processed(w) ==
    /\ claimed[w]
    /\ Finish(w)
    /\ claimed' = [claimed EXCEPT ![w] = FALSE]
    /\ \/ place' = [place EXCEPT ![held[w]] = "ended"] /\ UNCHANGED faults
       \/ /\ faults < MaxFaults
          /\ faults' = faults + 1
          /\ place' = [place EXCEPT ![held[w]] = "stuck"]
    /\ UNCHANGED <<scanVars, runs, server>>
-----------------------------------------------------------------------------
\* Server::shutdown: its flag, the join of the scanner thread, Pool::stop.
Shutdown ==
    /\ server = "up"
    /\ server' = "joining"
    /\ UNCHANGED <<poolVars, scanVars, jobVars>>

ScannerJoined ==
    /\ server = "joining"
    /\ scan = "ended"
    /\ server' = "stopping"
    /\ UNCHANGED <<poolVars, scanVars, jobVars>>

StopPool ==
    /\ server = "stopping"
    /\ StopStore \/ StopNotify \/ StopJoined
    /\ UNCHANGED <<scanVars, jobVars, server>>

\* The processor, the pool and the scanner are destroyed.
ServerDown ==
    /\ server = "stopping"
    /\ stopping = "done"
    /\ server' = "down"
    /\ UNCHANGED <<poolVars, scanVars, jobVars>>
-----------------------------------------------------------------------------
Scanner ==
    \/ List
    \/ ListFails
    \/ SubmitHead
    \/ PassOver
    \/ SubmitDone
    \/ Sleep

WorkerStep(w) ==
    \/ PoolStep(w) /\ UNCHANGED <<scanVars, jobVars, server>>
    \/ Claim(w)
    \/ NotFound(w)
    \/ Processed(w)

Stop == ScannerJoined \/ StopPool \/ ServerDown

Next ==
    \/ \E j \in Job : Publish(j) \/ Elapse(j)
    \/ Scanner
    \/ \E w \in Worker :
        \/ WorkerStep(w)
        \/ Spurious(w) /\ UNCHANGED <<scanVars, jobVars, server>>
    \/ Shutdown
    \/ Stop

(***************************************************************************)
(* Threads keep running, time passes and process returns.  Taking the      *)
(* mutex is strongly fair: it is held for a bounded time and a thread that *)
(* keeps asking for it gets it.  Nobody has to submit a job or stop the    *)
(* daemon, and nothing has to wake up spuriously.                          *)
(***************************************************************************)
Fairness ==
    /\ WF_vars(Scanner)
    /\ SF_vars(SubmitHead)
    /\ \A j \in Job : WF_vars(Elapse(j))
    /\ \A w \in Worker : SF_vars(WorkerStep(w))
    /\ WF_vars(Stop)

Spec == Init /\ [][Next]_vars /\ Fairness
-----------------------------------------------------------------------------
(***************************************************************************)
(* A job is claimed once in the life of a daemon, although the scanner     *)
(* works from stale lists and queues an id again after thirty seconds: the *)
(* rename out of ready/ (moveReadyToProcessing) is the only arbiter.       *)
(***************************************************************************)
RunsOnce == \A j \in Job : runs[j] <= 1

(***************************************************************************)
(* When Server::shutdown destroys the processor, no worker is inside it,   *)
(* process has returned for every job that was claimed, and a job that was *)
(* only queued is still in ready/ for the next daemon.  A claimed job has  *)
(* ended, or is one of those whose failure could not be recorded either.   *)
(***************************************************************************)
StuckJobs == {j \in Job : place[j] = "stuck"}

CleanStop ==
    server = "down" =>
        /\ \A w \in Worker : held[w] = NoJob
        /\ \A j \in Job : place[j] \in IF runs[j] > 0 THEN {"ended", "stuck"}
                                       ELSE {"new", "ready"}
        /\ Cardinality(StuckJobs) <= faults

(***************************************************************************)
(* A job that the daemon knows is on its way: an id of submittedJobs whose *)
(* job is still in ready/ is in the queue or in a worker's hands.  It is   *)
(* dropped, until its thirty seconds are over, only when the file system   *)
(* has refused a rename, and each refusal drops one job at most.           *)
(***************************************************************************)
Dropped ==
    {j \in Ready \cap submitted :
        j \notin ToSet(queue) /\ \A w \in Worker : held[w] # j}

DroppedByFaults == stopping # "done" => Cardinality(Dropped) <= faults

(***************************************************************************)
(* No id is lost between the scanner and the workers, and none is kept:    *)
(* jobQueue_ and enqueuedJobs_ agree, so that submit takes no new id for a *)
(* duplicate, and what has left them is claimed or the fault of a rename.  *)
(***************************************************************************)
NoIdIsLost == QueueMatchesSet /\ DroppedByFaults

(***************************************************************************)
(* Whatever the scanner queues and however often, to the workspace the     *)
(* daemon does what JobStates says: a job is claimed once, runs once, ends *)
(* and is not handed out again before another daemon has started; a stuck  *)
(* job still counts as running, which is what Flow::status says of it.     *)
(***************************************************************************)
StateOf == [new |-> "staging", ready |-> "queued", running |-> "running",
            ended |-> "done", stuck |-> "running"]

Promise == INSTANCE JobStates
    WITH MaxRecovery <- 0, state <- [j \in Job |-> StateOf[place[j]]]

KeepsPromise == Promise!Spec

(***************************************************************************)
(* A published job is claimed, unless the daemon is told to stop: also     *)
(* when it was queued and the claim failed, or a listing missed it.        *)
(***************************************************************************)
ReadyIsClaimed ==
    \A j \in Job : place[j] = "ready" ~> place[j] # "ready" \/ server # "up"

(***************************************************************************)
(* The comments of Pool::stop (pool.cpp:69, 72): all waiting threads are   *)
(* woken and all of them finish, so stop returns.                          *)
(***************************************************************************)
StopReturns == stopping = "notify" ~> stopping = "done"
=============================================================================
