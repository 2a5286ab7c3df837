--------------------------- MODULE DispatchProofs ---------------------------
(***************************************************************************)
(* The worker pool and the scanner loop that feeds it, for every finite    *)
(* set of jobs and of workers and every number of faults: the safety       *)
(* properties of Pool and Dispatch, and that they implement JobStates.     *)
(*                                                                         *)
(* The argument: a mutex that is held across two steps is held by a worker *)
(* that found the queue empty, so nothing is queued behind its back; and a *)
(* job that was claimed is in the hands of one worker until it has ended.  *)
(***************************************************************************)
EXTENDS Dispatch, Counting, FiniteSetTheorems, TLAPS

Locking == {w \in Worker : wpc[w] = "lock"}

\* The mutex is held by who is about to sleep, in front of an empty queue.
MutexTrue ==
    /\ \A w \in Worker : wpc[w] = "block" <=> mutex = w
    /\ mutex # NoOne => queue = <<>>

\* A worker holds an id while it processes it, and only then.
HoldTrue ==
    /\ \A w \in Worker : held[w] # NoJob <=> wpc[w] = "process"
    /\ \A w \in Worker : claimed[w] => wpc[w] = "process"

\* A job that was claimed is with one worker, or has ended.
ClaimTrue ==
    /\ \A j \in Job : runs[j] = IF place[j] \in {"running", "ended", "stuck"} THEN 1 ELSE 0
    /\ \A w \in Worker : claimed[w] => place[held[w]] = "running"
    /\ \A v, w \in Worker : claimed[v] /\ claimed[w] /\ held[v] = held[w] => v = w
    /\ \A j \in Job : place[j] = "running" => \E w \in Worker : claimed[w] /\ held[w] = j

\* The pool is destroyed when its workers are gone.
StopTrue ==
    /\ stopping = "done" => \A w \in Worker : wpc[w] = "exit"
    /\ server = "down" => stopping = "done"

IInv ==
    /\ TypeOK
    /\ QueueMatchesSet
    /\ MutexTrue
    /\ NobodyOversleeps
    /\ HoldTrue
    /\ ClaimTrue
    /\ StopTrue
-----------------------------------------------------------------------------
\* What the operations on the queue do to the set of its ids.
LEMMA Appended ==
    ASSUME NEW s \in Seq(Job), NEW j \in Job \ ToSet(s), IsInjective(s)
    PROVE  /\ Append(s, j) \in Seq(Job)
           /\ ToSet(Append(s, j)) = ToSet(s) \cup {j}
           /\ IsInjective(Append(s, j))
           /\ Len(Append(s, j)) = Len(s) + 1
<1>1. /\ Append(s, j) \in Seq(Job)
      /\ Len(Append(s, j)) = Len(s) + 1
      /\ Len(s) \in Nat
      /\ DOMAIN s = 1..Len(s)
      /\ DOMAIN Append(s, j) = 1..(Len(s) + 1)
      /\ \A i \in 1..Len(s) : Append(s, j)[i] = s[i]
      /\ Append(s, j)[Len(s) + 1] = j
    OBVIOUS
<1>2. ToSet(Append(s, j)) = ToSet(s) \cup {j}
    BY <1>1 DEF ToSet
<1>3. IsInjective(Append(s, j))
    BY <1>1 DEF ToSet, IsInjective
<1> QED BY <1>1, <1>2, <1>3

LEMMA Removed ==
    ASSUME NEW s \in Seq(Job), s # <<>>, IsInjective(s)
    PROVE  /\ Head(s) \in Job
           /\ Tail(s) \in Seq(Job)
           /\ ToSet(Tail(s)) = ToSet(s) \ {Head(s)}
           /\ IsInjective(Tail(s))
           /\ Len(Tail(s)) = Len(s) - 1
           /\ Len(s) \in Nat \ {0}
<1>1. /\ Head(s) \in Job
      /\ Head(s) = s[1]
      /\ Tail(s) \in Seq(Job)
      /\ Len(s) \in Nat \ {0}
      /\ Len(Tail(s)) = Len(s) - 1
      /\ DOMAIN s = 1..Len(s)
      /\ DOMAIN Tail(s) = 1..(Len(s) - 1)
      /\ \A i \in 1..(Len(s) - 1) : Tail(s)[i] = s[i + 1]
    OBVIOUS
<1>2. ToSet(Tail(s)) = ToSet(s) \ {Head(s)}
    <2>1. ToSet(Tail(s)) \subseteq ToSet(s) \ {Head(s)}
        BY <1>1 DEF ToSet, IsInjective
    <2>2. ASSUME NEW x \in ToSet(s) \ {Head(s)}
          PROVE  x \in ToSet(Tail(s))
        <3>1. PICK i \in 1..Len(s) : x = s[i]
            BY <1>1 DEF ToSet
        <3>2. i # 1 /\ i - 1 \in 1..(Len(s) - 1)
            BY <1>1, <3>1
        <3>3. Tail(s)[i - 1] = x
            BY <1>1, <3>1, <3>2
        <3> QED BY <1>1, <3>2, <3>3 DEF ToSet
    <2> QED BY <2>1, <2>2
<1>3. IsInjective(Tail(s))
    BY <1>1 DEF IsInjective
<1> QED BY <1>1, <1>2, <1>3

LEMMA Listed ==
    ASSUME NEW S \in SUBSET Job, NEW s \in SetToSeqs(S)
    PROVE  s \in Seq(Job)
<1>1. IsFiniteSet(S)
    BY DispatchAssumption, FS_Subset
<1>2. Cardinality(S) \in Nat
    BY <1>1, FS_CardinalityType
<1>3. s \in [1..Cardinality(S) -> Job]
    BY DEF SetToSeqs
<1> QED BY <1>2, <1>3

LEMMA Initially == Init => IInv
<1> SUFFICES ASSUME Init
             PROVE  IInv
    OBVIOUS
<1> USE PoolAssumption, DispatchAssumption DEF Init, PoolInit
<1>1. PoolTypeOK
    <2>1. shutdown \in BOOLEAN
        OBVIOUS
    <2>2. queue \in Seq(Job) /\ enqueued \subseteq Job /\ mutex \in Worker \cup {NoOne}
        OBVIOUS
    <2>3. wpc \in [Worker -> WorkerPC] /\ held \in [Worker -> Job \cup {NoJob}]
        BY DEF WorkerPC
    <2>4. stopping \in {"no", "notify", "join", "done"}
        OBVIOUS
    <2> QED BY <2>1, <2>2, <2>3, <2>4 DEF PoolTypeOK
<1>2. TypeOK
    <2>1. claimed \in [Worker -> BOOLEAN]
        OBVIOUS
    <2>2. place \in [Job -> Place] /\ runs \in [Job -> Nat]
        BY DEF Place
    <2>3. list \in Seq(Job) /\ submitted \subseteq Job /\ overdue \subseteq submitted
        OBVIOUS
    <2>4. /\ scan \in {"list", "submit", "sleep", "ended"}
          /\ server \in {"up", "joining", "stopping", "down"}
          /\ faults \in 0..MaxFaults
        OBVIOUS
    <2> QED BY <1>1, <2>1, <2>2, <2>3, <2>4 DEF TypeOK
<1>3. QueueMatchesSet
    BY DEF QueueMatchesSet, ToSet, IsInjective
<1>4. MutexTrue /\ HoldTrue
    BY DEF MutexTrue, HoldTrue
<1>5. NobodyOversleeps
    BY DEF NobodyOversleeps, Waiting
<1>6. ClaimTrue /\ StopTrue
    BY DEF ClaimTrue, StopTrue
<1> QED BY <1>2, <1>3, <1>4, <1>5, <1>6 DEF IInv
-----------------------------------------------------------------------------
\* What the pool sees of a step of the daemon.
LEMMA PoolSteps ==
    ASSUME [Next]_vars
    PROVE  \/ list # <<>> /\ Submit(Head(list))
           \/ \E w \in Worker : \/ Loop(w) \/ Pop(w) \/ Leave(w) \/ Test(w) \/ Block(w)
                                \/ Spurious(w) \/ Finish(w)
           \/ StopStore \/ StopNotify \/ StopJoined
           \/ UNCHANGED poolVars
BY DEF Next, vars, Publish, Elapse, Scanner, List, ListFails, SubmitHead, PassOver, SubmitDone,
    Sleep, WorkerStep, PoolStep, Claim, NotFound, Processed, Shutdown, Stop, ScannerJoined,
    StopPool, ServerDown

LEMMA QueueNext ==
    ASSUME IInv, [Next]_vars
    PROVE  QueueMatchesSet' /\ queue' \in Seq(Job) /\ enqueued' \subseteq Job
<1> USE DEF IInv, TypeOK, PoolTypeOK, QueueMatchesSet
<1>1. CASE list # <<>> /\ Submit(Head(list))
    <2>1. Head(list) \in Job
        BY <1>1
    <2>2. /\ Head(list) \notin enqueued
          /\ queue' = Append(queue, Head(list))
          /\ enqueued' = enqueued \cup {Head(list)}
        BY <1>1 DEF Submit, Refuses
    <2> QED BY <2>1, <2>2, Appended
<1>2. ASSUME NEW w \in Worker, Pop(w)
      PROVE  QueueMatchesSet' /\ queue' \in Seq(Job) /\ enqueued' \subseteq Job
    BY <1>2, Removed DEF Pop
<1>3. CASE StopJoined
    BY <1>3 DEF StopJoined, ToSet, IsInjective
<1>4. CASE UNCHANGED <<queue, enqueued>>
    BY <1>4
<1> QED
    BY <1>1, <1>2, <1>3, <1>4, PoolSteps DEF Loop, Leave, Test, Block, Spurious, Finish,
        StopStore, StopNotify, poolVars

LEMMA PoolTypeNext ==
    ASSUME IInv, [Next]_vars
    PROVE  PoolTypeOK'
<1>1. queue' \in Seq(Job) /\ enqueued' \subseteq Job
    BY QueueNext
<1>2. shutdown' \in BOOLEAN
    <2>1. shutdown' = TRUE \/ shutdown' = shutdown
        BY PoolSteps DEF Submit, Loop, Pop, Leave, Test, Block, Spurious, Finish, StopStore,
            StopNotify, StopJoined, poolVars
    <2> QED BY <2>1 DEF IInv, TypeOK, PoolTypeOK
<1>3. /\ mutex' \in Worker \cup {NoOne}
      /\ wpc' \in [Worker -> WorkerPC]
      /\ stopping' \in {"no", "notify", "join", "done"}
    BY PoolSteps DEF IInv, TypeOK, PoolTypeOK, WorkerPC, Submit, NotifyOne, Waiting, Loop, Pop,
        Leave, Test, Block, Spurious, Finish, StopStore, StopNotify, StopJoined, poolVars
<1>4. held' \in [Worker -> Job \cup {NoJob}]
    <2>1. ASSUME NEW w \in Worker, Pop(w)
          PROVE  held' \in [Worker -> Job \cup {NoJob}]
        <3>1. Head(queue) \in Job
            BY <2>1 DEF Pop, IInv, TypeOK, PoolTypeOK
        <3> QED BY <2>1, <3>1 DEF Pop, IInv, TypeOK, PoolTypeOK
    <2>2. ASSUME NEW w \in Worker, Finish(w)
          PROVE  held' \in [Worker -> Job \cup {NoJob}]
        BY <2>2 DEF Finish, IInv, TypeOK, PoolTypeOK
    <2>3. CASE UNCHANGED held
        BY <2>3 DEF IInv, TypeOK, PoolTypeOK
    <2> QED
        BY <2>1, <2>2, <2>3, PoolSteps DEF Submit, Loop, Leave, Test, Block, Spurious,
            StopStore, StopNotify, StopJoined, poolVars
<1> QED BY <1>1, <1>2, <1>3, <1>4 DEF PoolTypeOK

LEMMA MutexNext ==
    ASSUME IInv, [Next]_vars
    PROVE  MutexTrue'
<1> USE PoolAssumption DEF IInv, TypeOK, PoolTypeOK, MutexTrue
<1>1. CASE list # <<>> /\ Submit(Head(list))
    BY <1>1 DEF Submit, NotifyOne, Waiting
<1>2. ASSUME NEW w \in Worker,
             Loop(w) \/ Leave(w) \/ Spurious(w) \/ Finish(w)
      PROVE  MutexTrue'
    BY <1>2 DEF Loop, Leave, Spurious, Finish
<1>3. ASSUME NEW w \in Worker, Pop(w)
      PROVE  MutexTrue'
    BY <1>3 DEF Pop
<1>4. ASSUME NEW w \in Worker, Test(w)
      PROVE  MutexTrue'
    BY <1>4 DEF Test
<1>5. ASSUME NEW w \in Worker, Block(w)
      PROVE  MutexTrue'
    BY <1>5 DEF Block
<1>6. CASE StopStore \/ StopNotify \/ StopJoined
    BY <1>6 DEF StopStore, StopNotify, StopJoined
<1>7. CASE UNCHANGED poolVars
    BY <1>7 DEF poolVars
<1> QED BY <1>1, <1>2, <1>3, <1>4, <1>5, <1>6, <1>7, PoolSteps

(***************************************************************************)
(* A worker that starts to sleep finds the queue empty, and every id that  *)
(* comes after that brings one worker to the lock.                         *)
(***************************************************************************)
LEMMA SleepNext ==
    ASSUME IInv, [Next]_vars
    PROVE  NobodyOversleeps'
<1> SUFFICES ASSUME ~shutdown', Waiting' # {}
             PROVE  Len(queue') <= Cardinality(Locking')
    BY DEF NobodyOversleeps, Locking
<1>0. /\ wpc \in [Worker -> WorkerPC] /\ queue \in Seq(Job)
      /\ wpc' \in [Worker -> WorkerPC]
      /\ ~shutdown
    BY PoolTypeNext, PoolSteps DEF IInv, TypeOK, PoolTypeOK, Submit, Loop, Pop, Leave, Test, Block,
        Spurious, Finish, StopStore, StopNotify, StopJoined, poolVars
<1>1. /\ IsFiniteSet(Locking) /\ IsFiniteSet(Locking')
      /\ Cardinality(Locking) \in Nat /\ Cardinality(Locking') \in Nat
    BY PoolAssumption, FS_Subset, FS_CardinalityType DEF Locking
<1>2. Waiting # {} => Len(queue) <= Cardinality(Locking)
    BY <1>0 DEF IInv, NobodyOversleeps, Locking
<1>3. CASE list # <<>> /\ Submit(Head(list))
    <2>1. PICK w \in Waiting : wpc' = [wpc EXCEPT ![w] = "lock"]
        BY <1>3 DEF Submit, NotifyOne, Waiting
    <2>2. w \notin Locking /\ Locking' = Locking \cup {w}
        BY <1>0, <2>1 DEF Locking, Waiting
    <2>3. Cardinality(Locking') = Cardinality(Locking) + 1
        BY <1>1, <2>2, FS_AddElement
    <2>4. Len(queue') = Len(queue) + 1
        BY <1>0, <1>3 DEF Submit
    <2>5. Len(queue) \in Nat
        BY <1>0
    <2> QED BY <1>1, <1>2, <2>1, <2>3, <2>4, <2>5
<1>4. ASSUME NEW w \in Worker, Pop(w)
      PROVE  Len(queue') <= Cardinality(Locking')
    <2>1. w \in Locking /\ Locking' = Locking \ {w} /\ Waiting' = Waiting
        BY <1>0, <1>4 DEF Pop, Locking, Waiting
    <2>2. Cardinality(Locking') = Cardinality(Locking) - 1
        BY <1>1, <2>1, FS_RemoveElement
    <2>3. Len(queue') = Len(queue) - 1 /\ Len(queue) \in Nat
        BY <1>0, <1>4 DEF Pop
    <2> QED BY <1>1, <1>2, <2>1, <2>2, <2>3
<1>5. ASSUME NEW w \in Worker, Test(w) \/ Block(w)
      PROVE  Len(queue') <= Cardinality(Locking')
    <2>1. queue' = <<>>
        BY <1>5, PoolAssumption DEF Test, Block, IInv, MutexTrue
    <2> QED BY <1>1, <2>1
<1>6. ASSUME NEW w \in Worker, Loop(w) \/ Spurious(w) \/ Finish(w)
      PROVE  Len(queue') <= Cardinality(Locking')
    <2>1. Waiting # {} /\ queue' = queue
        BY <1>0, <1>6 DEF Loop, Spurious, Finish, Waiting
    <2>2. Locking \subseteq Locking'
        BY <1>0, <1>6 DEF Loop, Spurious, Finish, Locking
    <2>3. Cardinality(Locking) <= Cardinality(Locking') /\ Len(queue) \in Nat
        BY <1>0, <1>1, <2>2, FS_Subset
    <2> QED BY <1>1, <1>2, <2>1, <2>3
<1>7. CASE UNCHANGED poolVars
    BY <1>2, <1>7 DEF poolVars, Locking, Waiting
<1>8. \A w \in Worker : ~Leave(w)
    BY <1>0 DEF Leave
<1>9. ~StopStore
    BY DEF StopStore
<1>10. ~StopNotify
    BY <1>0 DEF StopNotify, Waiting
<1>11. CASE StopJoined
    <2>1. queue' = <<>>
        BY <1>11 DEF StopJoined
    <2> QED BY <1>1, <2>1
<1> QED BY <1>3, <1>4, <1>5, <1>6, <1>7, <1>8, <1>9, <1>10, <1>11, PoolSteps
-----------------------------------------------------------------------------
\* What the jobs and their claims see of a step.
LEMMA JobSteps ==
    ASSUME IInv, [Next]_vars
    PROVE  \/ \E w \in Worker : Claim(w) \/ NotFound(w) \/ Processed(w)
           \/ \E w \in Worker : Pop(w) /\ UNCHANGED jobVars
           \/ \E j \in Job : Publish(j)
           \/ /\ UNCHANGED <<place, claimed, runs, held>>
              /\ \A w \in Worker : wpc'[w] = "process" <=> wpc[w] = "process"
<1>1. CASE \E j \in Job : Publish(j) \/ Elapse(j)
    BY <1>1 DEF Elapse, poolVars, jobVars
<1>2. CASE Scanner
    <2>1. UNCHANGED <<place, claimed, runs, held>>
        BY <1>2 DEF Scanner, List, ListFails, SubmitHead, Submit, PassOver, SubmitDone, Sleep,
            poolVars, jobVars
    <2>2. \A w \in Worker : wpc'[w] = "process" <=> wpc[w] = "process"
        BY <1>2 DEF Scanner, List, ListFails, SubmitHead, Submit, NotifyOne, Waiting, PassOver,
            SubmitDone, Sleep, poolVars, IInv, TypeOK, PoolTypeOK
    <2> QED BY <2>1, <2>2
<1>3. ASSUME NEW w \in Worker, WorkerStep(w) \/ (Spurious(w) /\ UNCHANGED <<scanVars, jobVars, server>>)
      PROVE  \/ Claim(w) \/ NotFound(w) \/ Processed(w)
             \/ Pop(w) /\ UNCHANGED jobVars
             \/ /\ UNCHANGED <<place, claimed, runs, held>>
                /\ \A v \in Worker : wpc'[v] = "process" <=> wpc[v] = "process"
    BY <1>3 DEF WorkerStep, PoolStep, Loop, Leave, Test, Block, Spurious, jobVars, IInv, TypeOK,
        PoolTypeOK
<1>4. CASE Shutdown \/ Stop
    BY <1>4 DEF Shutdown, Stop, ScannerJoined, StopPool, StopStore, StopNotify, StopJoined,
        ServerDown, poolVars, jobVars, IInv, TypeOK, PoolTypeOK
<1>5. CASE UNCHANGED vars
    BY <1>5 DEF vars, poolVars, jobVars
<1>6. \/ \E j \in Job : Publish(j) \/ Elapse(j)
      \/ Scanner
      \/ \E w \in Worker : WorkerStep(w) \/ (Spurious(w) /\ UNCHANGED <<scanVars, jobVars, server>>)
      \/ Shutdown \/ Stop
      \/ UNCHANGED vars
    BY DEF Next
<1>7. CASE \E w \in Worker : WorkerStep(w) \/ (Spurious(w) /\ UNCHANGED <<scanVars, jobVars, server>>)
    BY <1>3, <1>7
<1> QED BY <1>1, <1>2, <1>4, <1>5, <1>6, <1>7

LEMMA HoldNext ==
    ASSUME IInv, [Next]_vars
    PROVE  HoldTrue'
<1> USE PoolAssumption DEF IInv, TypeOK, PoolTypeOK, HoldTrue
<1>1. ASSUME NEW w \in Worker, Claim(w)
      PROVE  HoldTrue'
    BY <1>1 DEF Claim, poolVars
<1>2. ASSUME NEW w \in Worker, NotFound(w)
      PROVE  HoldTrue'
    BY <1>2 DEF NotFound, Finish
<1>3. ASSUME NEW w \in Worker, Processed(w)
      PROVE  HoldTrue'
    BY <1>3 DEF Processed, Finish
<1>4. ASSUME NEW w \in Worker, Pop(w), UNCHANGED jobVars
      PROVE  HoldTrue'
    <2>1. Head(queue) \in Job
        BY <1>4 DEF Pop
    <2>2. ~claimed[w]
        BY <1>4 DEF Pop
    <2> QED BY <1>4, <2>1, <2>2 DEF Pop, jobVars
<1>5. ASSUME NEW j \in Job, Publish(j)
      PROVE  HoldTrue'
    BY <1>5 DEF Publish, poolVars
<1>6. CASE /\ UNCHANGED <<place, claimed, runs, held>>
           /\ \A w \in Worker : wpc'[w] = "process" <=> wpc[w] = "process"
    BY <1>6
<1> QED BY <1>1, <1>2, <1>3, <1>4, <1>5, <1>6, JobSteps

\* The rename out of ready/ succeeds for one worker.
LEMMA ClaimNext ==
    ASSUME IInv, [Next]_vars
    PROVE  /\ ClaimTrue'
           /\ place' \in [Job -> Place]
           /\ claimed' \in [Worker -> BOOLEAN]
           /\ runs' \in [Job -> Nat]
<1> DEFINE Goal == /\ ClaimTrue'
                   /\ place' \in [Job -> Place]
                   /\ claimed' \in [Worker -> BOOLEAN]
                   /\ runs' \in [Job -> Nat]
<1> USE PoolAssumption DEF IInv, TypeOK, PoolTypeOK, HoldTrue
<1>0. \A w \in Worker : wpc[w] = "process" => held[w] \in Job
    OBVIOUS
<1>1. ASSUME NEW w \in Worker, Claim(w)
      PROVE  Goal
    <2>1. /\ held[w] \in Job /\ ~claimed[w] /\ place[held[w]] = "ready"
          /\ place' = [place EXCEPT ![held[w]] = "running"]
          /\ claimed' = [claimed EXCEPT ![w] = TRUE]
          /\ runs' = [runs EXCEPT ![held[w]] = @ + 1]
          /\ held' = held
        BY <1>0, <1>1 DEF Claim, poolVars
    <2>2. place' \in [Job -> Place] /\ runs' \in [Job -> Nat]
        BY <2>1 DEF Place
    <2>3. claimed' \in [Worker -> BOOLEAN]
        BY <2>1
    <2>4. \A v \in Worker : claimed'[v] => v = w \/ (claimed[v] /\ held[v] # held[w])
        BY <2>1 DEF ClaimTrue
    <2>5. \A v \in Worker : claimed[v] \/ v = w => claimed'[v]
        BY <2>1
    <2>6. \A v \in Worker : claimed'[v] => place'[held'[v]] = "running"
        BY <1>0, <2>1, <2>4 DEF ClaimTrue
    <2>7. \A u, v \in Worker : claimed'[u] /\ claimed'[v] /\ held'[u] = held'[v] => u = v
        BY <2>1, <2>4 DEF ClaimTrue
    <2>8. \A j \in Job : place'[j] = "running" => \E v \in Worker : claimed'[v] /\ held'[v] = j
        BY <2>1, <2>5 DEF ClaimTrue
    <2>9. \A j \in Job : runs'[j] = IF place'[j] \in {"running", "ended", "stuck"} THEN 1 ELSE 0
        BY <2>1 DEF ClaimTrue
    <2> QED BY <2>2, <2>3, <2>6, <2>7, <2>8, <2>9 DEF ClaimTrue
<1>2. ASSUME NEW w \in Worker, NotFound(w)
      PROVE  Goal
    <2>1. /\ UNCHANGED <<place, claimed, runs>> /\ ~claimed[w]
          /\ \A v \in Worker \ {w} : held'[v] = held[v]
        BY <1>2 DEF NotFound, Finish
    <2>2. \A v \in Worker : claimed[v] => claimed'[v] /\ held'[v] = held[v]
        BY <2>1
    <2>3. \A v \in Worker : claimed'[v] => claimed[v] /\ held'[v] = held[v]
        BY <2>1
    <2>4. \A j \in Job : place'[j] = "running" => \E v \in Worker : claimed'[v] /\ held'[v] = j
        <3> SUFFICES ASSUME NEW j \in Job, place'[j] = "running"
                     PROVE  \E v \in Worker : claimed'[v] /\ held'[v] = j
            OBVIOUS
        <3>1. PICK v \in Worker : claimed[v] /\ held[v] = j
            BY <2>1 DEF ClaimTrue
        <3> QED BY <2>2, <3>1
    <2> QED BY <2>1, <2>3, <2>4 DEF ClaimTrue
<1>3. ASSUME NEW w \in Worker, Processed(w)
      PROVE  Goal
    <2>1. /\ held[w] \in Job /\ claimed[w] /\ place[held[w]] = "running"
          /\ \E where \in {"ended", "stuck"} :
                 place' = [place EXCEPT ![held[w]] = where]
          /\ claimed' = [claimed EXCEPT ![w] = FALSE]
          /\ runs' = runs
          /\ \A v \in Worker \ {w} : held'[v] = held[v]
        BY <1>0, <1>3 DEF Processed, Finish, ClaimTrue
    <2>2. place' \in [Job -> Place] /\ runs' \in [Job -> Nat]
        BY <2>1 DEF Place
    <2>3. claimed' \in [Worker -> BOOLEAN]
        BY <2>1
    <2>4. \A v \in Worker : claimed'[v] <=> claimed[v] /\ v # w
        BY <2>1
    <2>5. \A v \in Worker : claimed'[v] => held'[v] = held[v] /\ held[v] # held[w]
        BY <2>1, <2>4 DEF ClaimTrue
    <2>6. \A v \in Worker : claimed'[v] => place'[held'[v]] = "running"
        BY <1>0, <2>1, <2>4, <2>5 DEF ClaimTrue
    <2>7. \A u, v \in Worker : claimed'[u] /\ claimed'[v] /\ held'[u] = held'[v] => u = v
        BY <2>4, <2>5 DEF ClaimTrue
    <2>8. \A j \in Job : place'[j] = "running" => \E v \in Worker : claimed'[v] /\ held'[v] = j
        <3> SUFFICES ASSUME NEW j \in Job, place'[j] = "running"
                     PROVE  \E v \in Worker : claimed'[v] /\ held'[v] = j
            OBVIOUS
        <3>1. j # held[w] /\ place[j] = "running"
            BY <2>1
        <3>2. PICK v \in Worker : claimed[v] /\ held[v] = j
            BY <3>1 DEF ClaimTrue
        <3>3. v # w
            BY <3>1, <3>2
        <3> QED BY <2>4, <2>5, <3>2, <3>3
    <2>9. \A j \in Job : runs'[j] = IF place'[j] \in {"running", "ended", "stuck"} THEN 1 ELSE 0
        BY <2>1 DEF ClaimTrue
    <2> QED BY <2>2, <2>3, <2>6, <2>7, <2>8, <2>9 DEF ClaimTrue
<1>4. ASSUME NEW w \in Worker, Pop(w), UNCHANGED jobVars
      PROVE  Goal
    <2>1. /\ UNCHANGED <<place, claimed, runs>> /\ ~claimed[w]
          /\ \A v \in Worker \ {w} : held'[v] = held[v]
        BY <1>4 DEF Pop, jobVars
    <2>2. \A v \in Worker : claimed[v] => claimed'[v] /\ held'[v] = held[v]
        BY <2>1
    <2>3. \A v \in Worker : claimed'[v] => claimed[v] /\ held'[v] = held[v]
        BY <2>1
    <2>4. \A j \in Job : place'[j] = "running" => \E v \in Worker : claimed'[v] /\ held'[v] = j
        <3> SUFFICES ASSUME NEW j \in Job, place'[j] = "running"
                     PROVE  \E v \in Worker : claimed'[v] /\ held'[v] = j
            OBVIOUS
        <3>1. PICK v \in Worker : claimed[v] /\ held[v] = j
            BY <2>1 DEF ClaimTrue
        <3> QED BY <2>2, <3>1
    <2> QED BY <2>1, <2>3, <2>4 DEF ClaimTrue
<1>5. ASSUME NEW j \in Job, Publish(j)
      PROVE  Goal
    <2>1. /\ place[j] = "new" /\ place' = [place EXCEPT ![j] = "ready"]
          /\ UNCHANGED <<claimed, runs, held>>
        BY <1>5 DEF Publish, poolVars
    <2> QED BY <1>0, <2>1 DEF ClaimTrue, Place
<1>6. CASE UNCHANGED <<place, claimed, runs, held>>
    BY <1>6 DEF ClaimTrue
<1> QED BY <1>1, <1>2, <1>3, <1>4, <1>5, <1>6, JobSteps

LEMMA StopNext ==
    ASSUME IInv, [Next]_vars
    PROVE  StopTrue'
<1> USE DEF IInv, TypeOK, PoolTypeOK, StopTrue
<1>1. stopping' = "done" => \A w \in Worker : wpc'[w] = "exit"
    BY PoolSteps DEF Submit, NotifyOne, Waiting, Loop, Pop, Leave, Test, Block, Spurious, Finish,
        StopStore, StopNotify, StopJoined, poolVars
<1>2. server' = "down" => server = "down" \/ stopping = "done"
    BY DEF Next, vars, Publish, Elapse, Scanner, List, ListFails, SubmitHead, PassOver,
        SubmitDone, Sleep, WorkerStep, Claim, NotFound, Processed, Shutdown, Stop, ScannerJoined,
        StopPool, ServerDown
<1>3. stopping = "done" => stopping' = "done"
    BY PoolSteps DEF Submit, Loop, Pop, Leave, Test, Block, Spurious, Finish,
        StopStore, StopNotify, StopJoined, poolVars
<1> QED BY <1>1, <1>2, <1>3

LEMMA TypeNext ==
    ASSUME IInv, [Next]_vars
    PROVE  TypeOK'
<1> USE DEF IInv, TypeOK
<1>1. /\ scan' \in {"list", "submit", "sleep", "ended"}
      /\ server' \in {"up", "joining", "stopping", "down"}
    BY DEF Next, vars, Publish, Elapse, Scanner, List, ListFails, SubmitHead, PassOver,
        SubmitDone, Sleep, WorkerStep, Claim, NotFound, Processed, Shutdown, Stop, ScannerJoined,
        StopPool, ServerDown, scanVars
<1>2. faults' \in 0..MaxFaults
    <2>1. faults' = faults \/ (faults < MaxFaults /\ faults' = faults + 1)
        BY DEF Next, vars, Publish, Elapse, Scanner, List, ListFails, SubmitHead, PassOver,
            SubmitDone, Sleep, WorkerStep, Claim, NotFound, Processed, Shutdown, Stop,
            ScannerJoined, StopPool, ServerDown, jobVars
    <2>2. faults \in 0..MaxFaults /\ MaxFaults \in Nat
        BY DispatchAssumption
    <2> HIDE DEF IInv, TypeOK
    <2> QED BY <2>1, <2>2
<1>3. list' \in Seq(Job) /\ submitted' \subseteq Job /\ overdue' \subseteq submitted'
    <2>1. CASE List
        <3>1. Ready \in SUBSET Job
            BY DEF Ready
        <3> QED BY <2>1, <3>1, Listed DEF List, Forget
    <2>2. CASE ListFails
        <3>1. PICK S \in SUBSET Ready : list' \in SetToSeqs(S) /\ Forget(S)
            BY <2>2 DEF ListFails
        <3>2. S \in SUBSET Job
            BY DEF Ready
        <3> QED BY <3>1, <3>2, Listed DEF Forget
    <2>3. CASE SubmitHead \/ PassOver \/ SubmitDone \/ Sleep
        <3>1. CASE SubmitHead
            <4>1. list # <<>> /\ list' = Tail(list)
                BY <3>1 DEF SubmitHead
            <4>2. submitted' = submitted \cup {Head(list)} /\ overdue' = overdue \ {Head(list)}
                BY <3>1 DEF SubmitHead
            <4>3. Head(list) \in Job /\ Tail(list) \in Seq(Job)
                BY <4>1
            <4> QED BY <4>1, <4>2, <4>3
        <3>2. CASE PassOver
            BY <3>2 DEF PassOver
        <3>3. CASE SubmitDone \/ Sleep
            <4>1. list' = <<>> \/ list' = list
                BY <3>3 DEF SubmitDone, Sleep
            <4>2. UNCHANGED <<submitted, overdue>>
                BY <3>3 DEF SubmitDone, Sleep
            <4>3. <<>> \in Seq(Job)
                OBVIOUS
            <4> QED BY <4>1, <4>2, <4>3
        <3> QED BY <2>3, <3>1, <3>2, <3>3
    <2>4. ASSUME NEW j \in Job, Elapse(j)
          PROVE  list' \in Seq(Job) /\ submitted' \subseteq Job /\ overdue' \subseteq submitted'
        BY <2>4 DEF Elapse
    <2>5. CASE UNCHANGED scanVars
        BY <2>5 DEF scanVars
    <2> QED
        BY <2>1, <2>2, <2>3, <2>4, <2>5 DEF Next, vars, Publish, Scanner, WorkerStep, Claim,
            NotFound, Processed, Shutdown, Stop, ScannerJoined, StopPool, ServerDown
<1>4. PoolTypeOK'
    BY PoolTypeNext
<1>5. place' \in [Job -> Place] /\ claimed' \in [Worker -> BOOLEAN] /\ runs' \in [Job -> Nat]
    BY ClaimNext
<1> HIDE DEF IInv
<1> QED BY <1>1, <1>2, <1>3, <1>4, <1>5

LEMMA Always == Spec => []IInv
<1>1. IInv /\ [Next]_vars => IInv'
    BY QueueNext, MutexNext, SleepNext, HoldNext, ClaimNext, StopNext, TypeNext DEF IInv
<1> QED BY <1>1, Initially, PTL DEF Spec
-----------------------------------------------------------------------------
(***************************************************************************)
(* Queue, flags, lists and the places of the jobs have their types.        *)
(***************************************************************************)
THEOREM Types == Spec => []TypeOK
BY Always, PTL DEF IInv

(***************************************************************************)
(* enqueuedJobs_ and jobQueue_ agree, so that submit's check for a         *)
(* duplicate is right (pool.cpp).                                          *)
(***************************************************************************)
LEMMA QueueIsASet == Spec => []QueueMatchesSet
BY Always, PTL DEF IInv

(***************************************************************************)
(* No wakeup between Pool::submit and workerLoop is lost, as long as the   *)
(* pool is not stopped.                                                    *)
(***************************************************************************)
THEOREM NoLostWakeup == Spec => []NobodyOversleeps
BY Always, PTL DEF IInv

(***************************************************************************)
(* A job is claimed once, however often its id is queued                   *)
(* (moveReadyToProcessing, processor.cpp).                                 *)
(***************************************************************************)
THEOREM ClaimedOnce == Spec => []RunsOnce
<1>1. IInv => RunsOnce
    BY DEF IInv, ClaimTrue, RunsOnce
<1> QED BY <1>1, Always, PTL

\* A job gets stuck when a file operation of its own fails.
LEMMA StuckNext ==
    ASSUME IInv, Cardinality(StuckJobs) <= faults, [Next]_vars
    PROVE  Cardinality(StuckJobs') <= faults'
<1>1. faults \in Nat /\ IsFiniteSet(StuckJobs)
    <2>1. StuckJobs \in SUBSET Job
        BY DEF StuckJobs
    <2> QED BY <2>1, DispatchAssumption, FS_Subset DEF IInv, TypeOK
<1>2. faults' \in {faults, faults + 1}
    BY DEF Next, vars, jobVars, Publish, Elapse, Scanner, List, ListFails, SubmitHead, PassOver,
        SubmitDone, Sleep, WorkerStep, Claim, NotFound, Processed, Shutdown, Stop,
        ScannerJoined, StopPool, ServerDown
<1>3. CASE StuckJobs' \subseteq StuckJobs
    BY <1>1, <1>2, <1>3, StaysWithin
<1>4. ASSUME NEW w \in Worker, Processed(w)
      PROVE  Cardinality(StuckJobs') <= faults'
    <2>1. CASE faults' = faults
        BY <1>3, <1>4, <2>1 DEF Processed, StuckJobs, IInv, TypeOK
    <2>2. CASE faults' = faults + 1
        <3>1. StuckJobs' \subseteq StuckJobs \cup {held[w]}
            BY <1>4 DEF Processed, StuckJobs, IInv, TypeOK
        <3> QED BY <1>1, <2>2, <3>1, GainsOne
    <2> QED BY <1>2, <2>1, <2>2
<1>5. ASSUME NEW w \in Worker, Claim(w)
      PROVE  StuckJobs' \subseteq StuckJobs
    BY <1>5 DEF Claim, StuckJobs, IInv, TypeOK
<1>6. ASSUME NEW j \in Job, Publish(j)
      PROVE  StuckJobs' \subseteq StuckJobs
    BY <1>6 DEF Publish, StuckJobs, IInv, TypeOK
<1>7. CASE UNCHANGED place
    BY <1>3, <1>7 DEF StuckJobs
<1> QED BY <1>3, <1>4, <1>5, <1>6, <1>7, JobSteps DEF NotFound, jobVars

(***************************************************************************)
(* When Server::shutdown has returned, no job is half processed and none   *)
(* that was only queued is lost; and no more jobs are stuck than file      *)
(* operations have failed.                                                 *)
(***************************************************************************)
THEOREM ShutdownIsClean == Spec => []CleanStop
<1>1. IInv /\ Cardinality(StuckJobs) <= faults => CleanStop
    <2> SUFFICES ASSUME IInv, server = "down"
                 PROVE  /\ \A w \in Worker : held[w] = NoJob
                        /\ \A j \in Job : place[j] \in IF runs[j] > 0 THEN {"ended", "stuck"}
                                                       ELSE {"new", "ready"}
        BY DEF CleanStop
    <2>1. \A w \in Worker : held[w] = NoJob /\ ~claimed[w]
        BY DEF IInv, StopTrue, HoldTrue
    <2>2. \A j \in Job : place[j] \in Place \ {"running"}
        BY <2>1 DEF IInv, TypeOK, ClaimTrue
    <2> QED BY <2>1, <2>2 DEF IInv, ClaimTrue, Place
<1>2. Init => Cardinality(StuckJobs) <= faults
    <2> SUFFICES ASSUME Init
                 PROVE  Cardinality(StuckJobs) <= faults
        OBVIOUS
    <2>1. StuckJobs = {}
        BY DEF Init, StuckJobs
    <2> QED BY <2>1, FS_EmptySet DEF Init
<1>3. IInv /\ Cardinality(StuckJobs) <= faults /\ [Next]_vars => (Cardinality(StuckJobs) <= faults)'
    BY StuckNext
<1> QED BY <1>1, <1>2, <1>3, Always, PTL DEF Spec
-----------------------------------------------------------------------------
(***************************************************************************)
(* Dropped jobs.  Between submittedJobs, the queue and the workers an id   *)
(* passes from one to the next in one step each, so only a worker that     *)
(* gives up a ready job drops it.                                          *)
(***************************************************************************)
\* The scanner knows published jobs only.
KnownTrue ==
    \A j \in Job : place[j] = "new" => j \notin submitted /\ j \notin ToSet(list)

LEMMA SeqElements ==
    ASSUME NEW s \in Seq(Job), s # <<>>
    PROVE  Head(s) \in ToSet(s) /\ ToSet(Tail(s)) \subseteq ToSet(s)
<1>1. /\ Head(s) = s[1] /\ DOMAIN s = 1..Len(s) /\ Len(s) \in Nat \ {0}
      /\ DOMAIN Tail(s) = 1..(Len(s) - 1)
      /\ \A i \in 1..(Len(s) - 1) : Tail(s)[i] = s[i + 1]
    OBVIOUS
<1> QED BY <1>1 DEF ToSet

LEMMA ListedElements ==
    ASSUME NEW S \in SUBSET Job, NEW s \in SetToSeqs(S)
    PROVE  ToSet(s) \subseteq S
<1>1. s \in [1..Cardinality(S) -> S]
    BY DEF SetToSeqs
<1> QED BY <1>1 DEF ToSet

\* What a step may add to the ids that the scanner knows.
LEMMA ScannerLearns ==
    ASSUME IInv, [Next]_vars, NEW j \in submitted' \cup ToSet(list')
    PROVE  j \in submitted \/ j \in ToSet(list) \/ place[j] = "ready"
<1> USE DEF IInv, TypeOK
<1>1. CASE List
    <2>1. Ready \in SUBSET Job
        BY DEF Ready
    <2> QED BY <1>1, <2>1, ListedElements DEF List, Forget, Ready
<1>2. CASE ListFails
    <2>1. PICK S \in SUBSET Ready : list' \in SetToSeqs(S) /\ Forget(S)
        BY <1>2 DEF ListFails
    <2>2. S \in SUBSET Job
        BY DEF Ready
    <2> QED BY <2>1, <2>2, ListedElements DEF Forget, Ready
<1>3. CASE SubmitHead
    <2>1. list # <<>> /\ list' = Tail(list) /\ submitted' = submitted \cup {Head(list)}
        BY <1>3 DEF SubmitHead
    <2> QED BY <2>1, SeqElements
<1>4. CASE PassOver
    <2>1. list # <<>> /\ list' = Tail(list) /\ submitted' = submitted
        BY <1>4 DEF PassOver
    <2> QED BY <2>1, SeqElements
<1>5. CASE SubmitDone
    <2>1. list' = <<>> /\ submitted' = submitted
        BY <1>5 DEF SubmitDone
    <2>2. ToSet(<<>>) = {}
        BY DEF ToSet
    <2> QED BY <2>1, <2>2
<1>6. CASE UNCHANGED <<list, submitted>>
    BY <1>6
<1> QED
    BY <1>1, <1>2, <1>3, <1>4, <1>5, <1>6 DEF Next, vars, Publish, Elapse, Scanner, Sleep,
        WorkerStep, Claim, NotFound, Processed, Shutdown, Stop, ScannerJoined, StopPool,
        ServerDown, scanVars

LEMMA KnownNext ==
    ASSUME IInv, KnownTrue, [Next]_vars
    PROVE  KnownTrue'
<1>1. \A j \in Job : place'[j] = "new" => place[j] = "new"
    <2>1. ASSUME NEW w \in Worker, Claim(w) \/ NotFound(w) \/ Processed(w)
          PROVE  \A j \in Job : place'[j] = "new" => place[j] = "new"
        BY <2>1 DEF Claim, NotFound, Processed, IInv, TypeOK
    <2>2. ASSUME NEW i \in Job, Publish(i)
          PROVE  \A j \in Job : place'[j] = "new" => place[j] = "new"
        BY <2>2 DEF Publish, IInv, TypeOK
    <2> QED BY <2>1, <2>2, JobSteps DEF jobVars
<1> QED BY <1>1, ScannerLearns DEF KnownTrue

DropsNone == Dropped' \subseteq Dropped /\ faults' \in {faults, faults + 1}

DropsOne ==
    /\ faults' = faults + 1
    /\ \E j \in Job : Dropped' \subseteq Dropped \cup {j}

LEMMA StepDrops ==
    ASSUME IInv, KnownTrue, [Next]_vars, stopping' # "done"
    PROVE  DropsNone \/ DropsOne
<1> USE DEF IInv, TypeOK, PoolTypeOK, Dropped, Ready, DropsNone
<1>1. ASSUME NEW j \in Job, Publish(j) PROVE DropsNone
    BY <1>1 DEF Publish, KnownTrue, poolVars, scanVars
<1>2. ASSUME NEW j \in Job, Elapse(j) PROVE DropsNone
    BY <1>2 DEF Elapse, poolVars, jobVars
<1>3. CASE List \/ ListFails
    <2>1. UNCHANGED <<queue, held, place>> /\ submitted' \subseteq submitted
        BY <1>3 DEF List, ListFails, Forget, poolVars, jobVars
    <2>2. faults' \in {faults, faults + 1}
        BY <1>3 DEF List, ListFails, jobVars
    <2> QED BY <2>1, <2>2
<1>4. CASE SubmitHead
    <2>1. /\ list # <<>> /\ queue' = Append(queue, Head(list))
          /\ Head(list) \notin enqueued
          /\ submitted' = submitted \cup {Head(list)}
          /\ UNCHANGED <<held, place, faults>>
        BY <1>4 DEF SubmitHead, Submit, Refuses, jobVars
    <2>2. Head(list) \in Job
        BY <2>1
    <2>3. ToSet(queue') = ToSet(queue) \cup {Head(list)}
        BY <2>1, <2>2, Appended DEF QueueMatchesSet
    <2> QED BY <2>1, <2>3
<1>5. CASE PassOver \/ SubmitDone \/ Sleep
    BY <1>5 DEF PassOver, SubmitDone, Sleep, poolVars, jobVars
<1>6. ASSUME NEW w \in Worker, Pop(w), UNCHANGED <<scanVars, jobVars>>
      PROVE  DropsNone
    <2>1. /\ queue # <<>> /\ queue' = Tail(queue)
          /\ held' = [held EXCEPT ![w] = Head(queue)]
          /\ wpc[w] = "lock"
        BY <1>6 DEF Pop
    <2>2. ToSet(queue') = ToSet(queue) \ {Head(queue)}
        BY <2>1, Removed DEF QueueMatchesSet
    <2>3. held[w] = NoJob /\ NoJob \notin Job
        BY <2>1, PoolAssumption DEF HoldTrue
    <2> QED BY <1>6, <2>1, <2>2, <2>3 DEF scanVars, jobVars
<1>7. ASSUME NEW w \in Worker,
             Loop(w) \/ Leave(w) \/ Test(w) \/ Block(w) \/ Spurious(w),
             UNCHANGED <<scanVars, jobVars>>
      PROVE  DropsNone
    BY <1>7 DEF Loop, Leave, Test, Block, Spurious, scanVars, jobVars
<1>8. ASSUME NEW w \in Worker, Claim(w) PROVE DropsNone
    BY <1>8 DEF Claim, poolVars, scanVars
<1>9. ASSUME NEW w \in Worker, NotFound(w) PROVE DropsNone \/ DropsOne
    <2>1. /\ held[w] \in Job /\ UNCHANGED <<queue, place, submitted>>
          /\ held' = [held EXCEPT ![w] = NoJob]
        BY <1>9 DEF NotFound, Finish, HoldTrue, scanVars
    <2>2. Dropped' \subseteq Dropped \cup {held[w]}
        BY <2>1
    <2>3. CASE place[held[w]] = "ready"
        BY <1>9, <2>1, <2>2, <2>3 DEF NotFound, DropsOne
    <2>4. CASE place[held[w]] # "ready"
        <3>1. held[w] \notin Dropped'
            BY <2>1, <2>4
        <3> QED BY <1>9, <2>2, <2>4, <3>1 DEF NotFound
    <2> QED BY <2>3, <2>4
<1>10. ASSUME NEW w \in Worker, Processed(w) PROVE DropsNone
    <2>1. /\ held[w] \in Job /\ place[held[w]] = "running"
          /\ \E where \in {"ended", "stuck"} :
                 place' = [place EXCEPT ![held[w]] = where]
          /\ held' = [held EXCEPT ![w] = NoJob]
          /\ UNCHANGED <<queue, submitted>>
          /\ faults' \in {faults, faults + 1}
        BY <1>10 DEF Processed, Finish, HoldTrue, ClaimTrue, scanVars
    <2> QED BY <2>1
<1>11. CASE Shutdown \/ ScannerJoined \/ ServerDown
    BY <1>11 DEF Shutdown, ScannerJoined, ServerDown, poolVars, scanVars, jobVars
<1>12. CASE StopPool
    BY <1>12 DEF StopPool, StopStore, StopNotify, StopJoined, scanVars, jobVars
<1>13. CASE UNCHANGED vars
    BY <1>13 DEF vars, poolVars, scanVars, jobVars
<1> HIDE DEF IInv, TypeOK, PoolTypeOK, Dropped, Ready, DropsNone
<1> QED
    BY <1>1, <1>2, <1>3, <1>4, <1>5, <1>6, <1>7, <1>8, <1>9, <1>10, <1>11, <1>12, <1>13
       DEF Next, Scanner, WorkerStep, PoolStep, Stop

LEMMA DroppedNext ==
    ASSUME IInv, KnownTrue, DroppedByFaults, [Next]_vars
    PROVE  DroppedByFaults'
<1> SUFFICES ASSUME stopping' # "done"
             PROVE  Cardinality(Dropped') <= faults'
    BY DEF DroppedByFaults
<1>1. stopping # "done"
    BY PoolSteps DEF Submit, Loop, Pop, Leave, Test, Block, Spurious, Finish, StopStore,
        StopNotify, StopJoined, poolVars
<1>2. faults \in Nat /\ Cardinality(Dropped) <= faults
    BY <1>1, DispatchAssumption DEF DroppedByFaults, IInv, TypeOK
<1>3. IsFiniteSet(Dropped)
    <2>1. Dropped \in SUBSET Job
        BY DEF Dropped, Ready
    <2> QED BY <2>1, DispatchAssumption, FS_Subset
<1>4. CASE DropsNone
    BY <1>2, <1>3, <1>4, StaysWithin DEF DropsNone
<1>5. CASE DropsOne
    BY <1>2, <1>3, <1>5, GainsOne DEF DropsOne
<1> QED BY <1>4, <1>5, StepDrops

(***************************************************************************)
(* No id is lost between the scanner, the queue and the workers, for any   *)
(* number of each: a job that the daemon knows is on its way to a claim,   *)
(* unless a rename of its own has failed.                                  *)
(***************************************************************************)
LEMMA FewAreDropped == Spec => []DroppedByFaults
<1>1. Init => KnownTrue /\ DroppedByFaults
    <2> SUFFICES ASSUME Init
                 PROVE  KnownTrue /\ DroppedByFaults
        OBVIOUS
    <2>1. Dropped = {}
        BY DEF Init, Dropped
    <2>2. DroppedByFaults
        BY <2>1, FS_EmptySet DEF Init, DroppedByFaults
    <2>3. KnownTrue
        BY DEF Init, KnownTrue, ToSet
    <2> QED BY <2>2, <2>3
<1>2. IInv /\ (KnownTrue /\ DroppedByFaults) /\ [Next]_vars => (KnownTrue /\ DroppedByFaults)'
    BY KnownNext, DroppedNext
<1> QED BY <1>1, <1>2, Always, PTL DEF Spec

(***************************************************************************)
(* Every id that the scanner has submitted is in the queue and in the set, *)
(* with a worker, claimed, or dropped for a rename that failed.            *)
(***************************************************************************)
THEOREM EveryIdIsAccounted == Spec => []NoIdIsLost
BY QueueIsASet, FewAreDropped, PTL DEF NoIdIsLost
-----------------------------------------------------------------------------
\* A change of one job's place, seen through the refinement mapping.
LEMMA PromiseMoves ==
    ASSUME TypeOK, NEW j \in Job, NEW where \in Place,
           place' = [place EXCEPT ![j] = where],
           \/ place[j] = "new" /\ where = "ready" /\ UNCHANGED runs
           \/ /\ place[j] = "ready" /\ where = "running"
              /\ runs' = [runs EXCEPT ![j] = @ + 1]
           \/ /\ place[j] = "running" /\ where \in {"ended", "stuck"}
              /\ UNCHANGED runs
    PROVE  Promise!Next \/ UNCHANGED Promise!vars
<1> DEFINE State == [i \in Job |-> StateOf[place[i]]]
           Move(from, to) == /\ State[j] = from
                             /\ State' = [State EXCEPT ![j] = to]
<1>1. Move(StateOf[place[j]], StateOf[where])
    BY DEF TypeOK, Place, StateOf
<1>2. \/ Move("staging", "queued") /\ UNCHANGED runs
      \/ Move("queued", "running") /\ runs' = [runs EXCEPT ![j] = @ + 1]
      \/ Move("running", "done") /\ UNCHANGED runs
      \/ Move("running", "running") /\ UNCHANGED runs
    <2> HIDE DEF Move
    <2> QED BY <1>1 DEF StateOf
<1>3. CASE Move("running", "running") /\ UNCHANGED runs
    BY <1>3 DEF Promise!vars
<1> QED
    BY <1>2, <1>3 DEF Promise!Next, Promise!Publish, Promise!Claim,
        Promise!Complete, Promise!MoveTo

LEMMA PromiseStep == IInv /\ [Next]_vars => [Promise!Next]_Promise!vars
<1> SUFFICES ASSUME IInv, [Next]_vars
             PROVE  [Promise!Next]_Promise!vars
    OBVIOUS
<1>1. TypeOK
    BY DEF IInv
<1>2. ASSUME NEW j \in Job, Publish(j) PROVE [Promise!Next]_Promise!vars
    BY <1>1, <1>2, PromiseMoves DEF Publish, Place
<1>3. ASSUME NEW w \in Worker, Claim(w) PROVE [Promise!Next]_Promise!vars
    <2>1. held[w] \in Job
        BY <1>3 DEF Claim, IInv, HoldTrue, TypeOK, PoolTypeOK
    <2> QED BY <1>1, <1>3, <2>1, PromiseMoves DEF Claim, Place
<1>4. ASSUME NEW w \in Worker, Processed(w) PROVE [Promise!Next]_Promise!vars
    <2>1. held[w] \in Job /\ place[held[w]] = "running"
        BY <1>4 DEF Processed, Finish, IInv, HoldTrue, ClaimTrue, TypeOK, PoolTypeOK
    <2> QED BY <1>1, <1>4, <2>1, PromiseMoves DEF Processed, Place
<1>5. UNCHANGED <<place, runs>> => UNCHANGED Promise!vars
    BY DEF Promise!vars
<1> QED BY <1>2, <1>3, <1>4, <1>5, JobSteps DEF NotFound, jobVars

(***************************************************************************)
(* Scanner, pool and workers together implement JobStates without its      *)
(* Requeue: each job is claimed once and ends once in the life of a daemon.*)
(***************************************************************************)
THEOREM PromiseKept == Spec => KeepsPromise
<1>1. Init => Promise!Init
    BY DEF Init, Promise!Init, StateOf
<1> QED BY <1>1, PromiseStep, Always, PTL DEF Spec, KeepsPromise, Promise!Spec
=============================================================================
