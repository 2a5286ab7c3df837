-------------------------------- MODULE Pool --------------------------------
(***************************************************************************)
(* The worker pool (pool.cpp): a queue of job ids behind a mutex and a     *)
(* condition variable, worker threads that wait on it, and stop, which     *)
(* stores its flags and notifies without taking the mutex.                 *)
(*                                                                         *)
(* One thread submits (Server::scanLoop); it is joined before stop is      *)
(* called, so submit and stop never overlap and submit's first check of    *)
(* the flags and its critical section are one action.  A worker's critical *)
(* section is split where the difference shows: between the test of the    *)
(* wait's predicate and the moment the thread sleeps, it holds the mutex,  *)
(* but nothing keeps stop from running.                                    *)
(***************************************************************************)
EXTENDS Naturals, Sequences, FiniteSets, SequencesExt

CONSTANTS
    Job,     \* job ids
    Worker,  \* worker threads
    NoJob,   \* what a worker holds when it has no job
    NoOne    \* holder of the free mutex

ASSUME PoolAssumption ==
    /\ NoJob \notin Job
    /\ NoOne \notin Worker
    /\ IsFiniteSet(Worker)

VARIABLES
    queue,     \* jobQueue_
    enqueued,  \* enqueuedJobs_
    shutdown,  \* shutdown_; running_ is its negation once the pool started
    mutex,     \* the worker that holds queueMutex_ across two steps, or NoOne
    wpc,       \* wpc[w]: where worker w is
    held,      \* held[w]: the id worker w has popped
    stopping   \* how far Pool::stop has come

poolVars == <<queue, enqueued, shutdown, mutex, wpc, held, stopping>>

WorkerPC == {"loop", "lock", "block", "wait", "process", "exit"}

PoolTypeOK ==
    /\ queue \in Seq(Job)
    /\ enqueued \subseteq Job
    /\ shutdown \in BOOLEAN
    /\ mutex \in Worker \cup {NoOne}
    /\ wpc \in [Worker -> WorkerPC]
    /\ held \in [Worker -> Job \cup {NoJob}]
    /\ stopping \in {"no", "notify", "join", "done"}

Waiting == {w \in Worker : wpc[w] = "wait"}

PoolInit ==
    /\ queue = <<>>
    /\ enqueued = {}
    /\ shutdown = FALSE
    /\ mutex = NoOne
    /\ wpc = [w \in Worker |-> "loop"]
    /\ held = [w \in Worker |-> NoJob]
    /\ stopping = "no"
-----------------------------------------------------------------------------
\* submit returns false, before or inside the critical section.
Refuses(j) == shutdown \/ j \in enqueued

\* The condition variable wakes one of its waiters, if there is one.
NotifyOne ==
    IF Waiting = {}
    THEN UNCHANGED wpc
    ELSE \E w \in Waiting : wpc' = [wpc EXCEPT ![w] = "lock"]

\* Mutant of Submit: the id is queued and nobody is told.
SubmitQuietly(j) ==
    /\ mutex = NoOne
    /\ ~Refuses(j)
    /\ queue' = Append(queue, j)
    /\ enqueued' = enqueued \cup {j}
    /\ UNCHANGED <<shutdown, mutex, wpc, held, stopping>>

Submit(j) ==
    /\ mutex = NoOne
    /\ ~Refuses(j)
    /\ queue' = Append(queue, j)
    /\ enqueued' = enqueued \cup {j}
    /\ NotifyOne
    /\ UNCHANGED <<shutdown, mutex, held, stopping>>

\* The test at the head of workerLoop.
Loop(w) ==
    /\ wpc[w] = "loop"
    /\ wpc' = [wpc EXCEPT ![w] = IF shutdown THEN "exit" ELSE "lock"]
    /\ UNCHANGED <<queue, enqueued, shutdown, mutex, held, stopping>>

\* Mutant of Pop: the id is read at one end and removed at the other.
PopOtherEnd(w) ==
    /\ wpc[w] = "lock"
    /\ mutex = NoOne
    /\ ~shutdown
    /\ queue # <<>>
    /\ held' = [held EXCEPT ![w] = Head(queue)]
    /\ queue' = Front(queue)
    /\ enqueued' = enqueued \ {Head(queue)}
    /\ wpc' = [wpc EXCEPT ![w] = "process"]
    /\ UNCHANGED <<shutdown, mutex, stopping>>

Pop(w) ==
    /\ wpc[w] = "lock"
    /\ mutex = NoOne
    /\ ~shutdown
    /\ queue # <<>>
    /\ held' = [held EXCEPT ![w] = Head(queue)]
    /\ queue' = Tail(queue)
    /\ enqueued' = enqueued \ {Head(queue)}
    /\ wpc' = [wpc EXCEPT ![w] = "process"]
    /\ UNCHANGED <<shutdown, mutex, stopping>>

\* The wait returns because of the shutdown flag.
Leave(w) ==
    /\ wpc[w] = "lock"
    /\ mutex = NoOne
    /\ shutdown
    /\ wpc' = [wpc EXCEPT ![w] = "exit"]
    /\ UNCHANGED <<queue, enqueued, shutdown, mutex, held, stopping>>

\* The predicate was false: the worker is about to sleep, holding the mutex.
Test(w) ==
    /\ wpc[w] = "lock"
    /\ mutex = NoOne
    /\ ~shutdown
    /\ queue = <<>>
    /\ mutex' = w
    /\ wpc' = [wpc EXCEPT ![w] = "block"]
    /\ UNCHANGED <<queue, enqueued, shutdown, held, stopping>>

\* Sleeping and giving up the mutex are one step of the condition variable.
Block(w) ==
    /\ wpc[w] = "block"
    /\ mutex' = NoOne
    /\ wpc' = [wpc EXCEPT ![w] = "wait"]
    /\ UNCHANGED <<queue, enqueued, shutdown, held, stopping>>

\* A condition variable may wake a thread that nobody notified.
Spurious(w) ==
    /\ wpc[w] = "wait"
    /\ wpc' = [wpc EXCEPT ![w] = "lock"]
    /\ UNCHANGED <<queue, enqueued, shutdown, mutex, held, stopping>>

\* processor_ returns, or throws and is caught.
Finish(w) ==
    /\ wpc[w] = "process"
    /\ held' = [held EXCEPT ![w] = NoJob]
    /\ wpc' = [wpc EXCEPT ![w] = "loop"]
    /\ UNCHANGED <<queue, enqueued, shutdown, mutex, stopping>>

\* What worker w does outside processor_.
PoolStep(w) ==
    \/ Loop(w)
    \/ Pop(w)
    \/ Leave(w)
    \/ Test(w)
    \/ Block(w)
-----------------------------------------------------------------------------
\* Pool::stop: the flags, notify_all, the joins and the clearing.
StopStore ==
    /\ stopping = "no"
    /\ shutdown' = TRUE
    /\ stopping' = "notify"
    /\ UNCHANGED <<queue, enqueued, mutex, wpc, held>>

StopNotify ==
    /\ stopping = "notify"
    /\ wpc' = [w \in Worker |-> IF wpc[w] = "wait" THEN "lock" ELSE wpc[w]]
    /\ stopping' = "join"
    /\ UNCHANGED <<queue, enqueued, shutdown, mutex, held>>

\* Mutant of StopJoined: the threads are not waited for.
StopDetached ==
    /\ stopping = "join"
    /\ queue' = <<>>
    /\ enqueued' = {}
    /\ stopping' = "done"
    /\ UNCHANGED <<shutdown, mutex, wpc, held>>

StopJoined ==
    /\ stopping = "join"
    /\ \A w \in Worker : wpc[w] = "exit"
    /\ queue' = <<>>
    /\ enqueued' = {}
    /\ stopping' = "done"
    /\ UNCHANGED <<shutdown, mutex, wpc, held>>
-----------------------------------------------------------------------------
(***************************************************************************)
(* enqueuedJobs_ is the set of the ids in jobQueue_, and an id is queued   *)
(* once: what submit's duplicate check relies on.                          *)
(***************************************************************************)
QueueMatchesSet == IsInjective(queue) /\ enqueued = ToSet(queue)

(***************************************************************************)
(* No wakeup is lost on the way from submit to the workers: while one of   *)
(* them sleeps, as many are on their way to the queue as it has ids.       *)
(***************************************************************************)
NobodyOversleeps ==
    ~shutdown /\ Waiting # {} =>
        Len(queue) <= Cardinality({w \in Worker : wpc[w] = "lock"})
=============================================================================
