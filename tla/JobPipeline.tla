---------------------------- MODULE JobPipeline ----------------------------
(***************************************************************************)
(* A published job from input/ready to output/ or failed/: the worker that *)
(* claims and completes it (processor.cpp), the recovery pass that the     *)
(* next daemon makes over processing/ (server.cpp), and the failures both  *)
(* are written for: a daemon killed between any two file operations, a     *)
(* graceful stop, and file operations that fail.                           *)
(*                                                                         *)
(* A job directory is in exactly one state directory, because every move   *)
(* is one rename and ids are never reused, so its place is a function.     *)
(* Inside it the model keeps meta.json and four files: the artifact being  *)
(* written (.tmp), the artifact, error.txt and response.txt.  A file's     *)
(* content is the number of the run that wrote it, 0 when there is no      *)
(* whole copy (absent, or torn by a failed write or a crash).              *)
(***************************************************************************)
EXTENDS Naturals, FiniteSets

CONSTANTS
    Job,          \* job ids
    Worker,       \* worker threads of the pool
    NoJob,        \* a worker's job when it has none
    Kind,         \* Kind[j]: the family of job types j belongs to
    MaxRecovery,  \* NRVNA_MAX_RECOVERY_ATTEMPTS
    MaxHalts,     \* bound: crashes and graceful stops in one behaviour
    FaultKinds,   \* which file operations may fail: read, write, rename, list
    MaxFaults     \* bound: failing file operations in one behaviour

\* "text" stands for text and vision, "media" for speech in either direction.
JobKind == {"text", "embed", "media"}

ASSUME JobAssumption == NoJob \notin Job
ASSUME KindAssumption == Kind \in [Job -> JobKind]
ASSUME BoundAssumption ==
    /\ MaxRecovery \in Nat \ {0}
    /\ MaxHalts \in Nat
    /\ MaxFaults \in Nat
    /\ FaultKinds \subseteq {"read", "write", "rename", "list"}

VARIABLES
    (* on disk, surviving every crash *)
    dir,        \* dir[j]: the state directory that holds job j
    attempts,   \* attempts[j]: recovery_attempts in meta.json
    status,     \* status[j]: status in meta.json
    tmp,        \* tmp[j]: the artifact being written, <name>.tmp
    artifact,   \* artifact[j]: result.txt, embedding.json, ...
    error,      \* error[j]: error.txt
    response,   \* response[j]: response.txt, the output a failure keeps
    (* in the memory of the daemon *)
    daemon,     \* what the workspace's daemon is doing
    pc,         \* pc[w]: the next step of worker w
    job,        \* job[w]: the id worker w popped from the queue
    keeps,      \* the workers whose failure under way keeps the output
    orphans,    \* directory entries recovery has still to visit
    rpc,        \* the next step of recovery
    rjob,       \* the job recovery is handling
    rattempts,  \* its recovery_attempts, as held in memory
    rstatus,    \* its status, as held in memory
    (* history *)
    runs,       \* runs[j]: claims of j so far
    forgot,     \* jobs whose recovery_attempts a failed read has reset
    skipped,    \* orphans that this daemon's recovery broke off before
    crashes, stops, faults

meta       == <<attempts, status>>
files      == <<tmp, artifact, error, response>>
diskVars   == <<dir, meta, files>>
workerVars == <<pc, job, keeps>>
recVars    == <<orphans, rpc, rjob, rattempts, rstatus>>
history    == <<runs, forgot, skipped>>
halts      == <<crashes, stops>>
vars == <<diskVars, daemon, workerVars, recVars, history, halts, faults>>

Dir == {"writing", "ready", "processing", "output", "failed"}

Terminal == {"output", "failed"}

\* What completeJob and writeRecoveryFailure record, or "none" before them.
MetaStatus == {"none", "done", "failed"}

WorkerPC == {"idle", "claim", "execute", "doneMeta", "writeTmp",
             "renameArtifact", "moveToOutput", "failMeta", "writeError",
             "writePartial", "moveToFailed"}

RecoveryPC == {"idle", "next", "charge", "requeue", "fallback", "error",
               "meta", "move"}

\* The worker owns its job's directory: it has won the claim.
Busy(w) == pc[w] \notin {"idle", "claim"}

TypeOK ==
    /\ dir \in [Job -> Dir]
    /\ attempts \in [Job -> Nat]
    /\ status \in [Job -> MetaStatus]
    /\ tmp \in [Job -> Nat]
    /\ artifact \in [Job -> Nat]
    /\ error \in [Job -> Nat]
    /\ response \in [Job -> Nat]
    /\ daemon \in {"down", "recovering", "serving", "stopping"}
    /\ pc \in [Worker -> WorkerPC]
    /\ job \in [Worker -> Job \cup {NoJob}]
    /\ keeps \subseteq Worker
    /\ orphans \subseteq Job
    /\ rpc \in RecoveryPC
    /\ rjob \in Job \cup {NoJob}
    /\ rattempts \in Nat
    /\ rstatus \in MetaStatus
    /\ runs \in [Job -> Nat]
    /\ forgot \subseteq Job
    /\ skipped \subseteq Job
    /\ crashes \in Nat
    /\ stops \in Nat
    /\ faults \in Nat
-----------------------------------------------------------------------------
Init ==
    /\ dir = [j \in Job |-> "writing"]
    /\ attempts = [j \in Job |-> 0]
    /\ status = [j \in Job |-> "none"]
    /\ tmp = [j \in Job |-> 0]
    /\ artifact = [j \in Job |-> 0]
    /\ error = [j \in Job |-> 0]
    /\ response = [j \in Job |-> 0]
    /\ daemon = "down"
    /\ pc = [w \in Worker |-> "idle"]
    /\ job = [w \in Worker |-> NoJob]
    /\ keeps = {}
    /\ orphans = {}
    /\ rpc = "idle"
    /\ rjob = NoJob
    /\ rattempts = 0
    /\ rstatus = "none"
    /\ runs = [j \in Job |-> 0]
    /\ forgot = {}
    /\ skipped = {}
    /\ crashes = 0
    /\ stops = 0
    /\ faults = 0

\* A file operation of the given kind fails, within the bound.
Fault(kind) ==
    /\ kind \in FaultKinds
    /\ faults < MaxFaults
    /\ faults' = faults + 1

Succeed == UNCHANGED faults

\* readMetaJson: a meta.json that is missing, cannot be opened or is not what it
\* has to be has no attempts for its reader, who takes a default one.
MetaUnreadable(j) ==
    /\ Fault("read")
    /\ forgot' = forgot \cup {j}

SetDir(j, d) == dir' = [dir EXCEPT ![j] = d]

SetMeta(j, count, outcome) ==
    /\ attempts' = [attempts EXCEPT ![j] = count]
    /\ status' = [status EXCEPT ![j] = outcome]

SetTmp(j, run) ==
    /\ tmp' = [tmp EXCEPT ![j] = run]
    /\ UNCHANGED <<artifact, error, response>>

SetError(j, run) ==
    /\ error' = [error EXCEPT ![j] = run]
    /\ UNCHANGED <<tmp, artifact, response>>

SetResponse(j, run) ==
    /\ response' = [response EXCEPT ![j] = run]
    /\ UNCHANGED <<tmp, artifact, error>>

Goto(w, label) == pc' = [pc EXCEPT ![w] = label]

\* processor.process returns: the worker goes back to the queue.
Release(w) ==
    /\ Goto(w, "idle")
    /\ job' = [job EXCEPT ![w] = NoJob]
    /\ keeps' = keeps \ {w}

\* process takes its failure path; keep says whether response.txt is written.
FailWith(w, label, keep) ==
    /\ Goto(w, label)
    /\ keeps' = IF keep THEN keeps \cup {w} ELSE keeps \ {w}
    /\ UNCHANGED job
-----------------------------------------------------------------------------
(***************************************************************************)
(* The client's one visible step, Work::atomicPublish.                     *)
(***************************************************************************)
Publish(j) ==
    /\ dir[j] = "writing"
    /\ SetDir(j, "ready")
    /\ UNCHANGED <<meta, files, daemon, workerVars, recVars, history, halts,
                   faults>>

(***************************************************************************)
(* A worker.  Take is the pop from the pool's queue; the rename that       *)
(* decides the claim comes later, outside the queue's lock, and the same   *)
(* id may have been queued twice.  An entry whose job is no longer in      *)
(* ready/ when it is popped would only fail its claim, so it is left out.  *)
(***************************************************************************)
Take(w, j) ==
    /\ daemon = "serving"
    /\ pc[w] = "idle"
    /\ dir[j] = "ready"
    /\ Goto(w, "claim")
    /\ job' = [job EXCEPT ![w] = j]
    /\ UNCHANGED <<diskVars, daemon, keeps, recVars, history, halts, faults>>

\* Mutant of Claim: the error code of the rename is not looked at.
ClaimUnchecked(w) ==
    /\ pc[w] = "claim"
    /\ SetDir(job[w], "processing")
    /\ runs' = [runs EXCEPT ![job[w]] = @ + 1]
    /\ Goto(w, "execute")
    /\ UNCHANGED <<meta, files, daemon, job, keeps, recVars, forgot, skipped,
                   halts, faults>>

\* moveReadyToProcessing: the rename succeeds for one worker only.
Claim(w) ==
    /\ pc[w] = "claim"
    /\ \/ /\ dir[job[w]] = "ready"
          /\ SetDir(job[w], "processing")
          /\ runs' = [runs EXCEPT ![job[w]] = @ + 1]
          /\ Goto(w, "execute")
          /\ Succeed
          /\ UNCHANGED <<job, keeps>>
       \/ /\ IF dir[job[w]] = "ready" THEN Fault("rename") ELSE Succeed
          /\ Release(w)
          /\ UNCHANGED <<dir, runs>>
    /\ UNCHANGED <<meta, files, daemon, recVars, forgot, skipped, halts>>

\* Read the inputs and run the model.  An exception skips completeJob.
Execute(w) ==
    /\ pc[w] = "execute"
    /\ \/ Goto(w, "doneMeta") /\ UNCHANGED <<job, keeps>>
       \/ FailWith(w, "failMeta", FALSE)
       \/ Kind[job[w]] = "text" /\ FailWith(w, "failMeta", TRUE)
       \/ FailWith(w, "writeError", FALSE)
    /\ UNCHANGED <<diskVars, daemon, recVars, history, halts, faults>>

\* Mutant of CompleteJob: a fresh JobMeta, not the one read from meta.json.
CompleteJobAfresh(w, outcome, next) ==
    /\ SetMeta(job[w], 0, outcome)
    /\ Goto(w, next)
    /\ UNCHANGED <<dir, files, daemon, job, keeps, recVars, history, halts,
                   faults>>

\* writeCompletionMeta.  An unreadable meta.json is replaced by a default one,
\* and a failed write is only logged.
CompleteJob(w, outcome, next) ==
    LET j == job[w] IN
    /\ \/ /\ SetMeta(j, attempts[j], outcome)
          /\ Succeed
          /\ UNCHANGED forgot
       \/ /\ SetMeta(j, 0, outcome)
          /\ MetaUnreadable(j)
       \/ Fault("write") /\ UNCHANGED <<meta, forgot>>
    /\ Goto(w, next)
    /\ UNCHANGED <<dir, files, daemon, job, keeps, recVars, runs, skipped,
                   halts>>

\* Mutant of DoneMeta: the directory's name stands where the status belongs.
DoneMetaAsDir(w) == pc[w] = "doneMeta" /\ CompleteJob(w, "output", "writeTmp")

DoneMeta(w) == pc[w] = "doneMeta" /\ CompleteJob(w, "done", "writeTmp")

FailMeta(w) == pc[w] = "failMeta" /\ CompleteJob(w, "failed", "writeError")

\* Mutant of Unfinalized: the error path returns without recording a failure.
UnfinalizedAndDropped(w) == Release(w)

\* A finalize* call returned false: only text jobs hand their output over.
Unfinalized(w) == FailWith(w, "failMeta", Kind[job[w]] = "text")

\* A non-finite embedding is refused before anything is written.
WriteTmp(w) ==
    LET j == job[w] IN
    /\ pc[w] = "writeTmp"
    /\ \/ /\ SetTmp(j, runs[j])
          /\ Goto(w, "renameArtifact")
          /\ Succeed
          /\ UNCHANGED <<job, keeps>>
       \/ SetTmp(j, 0) /\ Unfinalized(w) /\ Fault("write")
       \/ Kind[j] = "embed" /\ Unfinalized(w) /\ Succeed /\ UNCHANGED files
    /\ UNCHANGED <<dir, meta, daemon, recVars, history, halts>>

\* Mutant of RenameArtifact: an artifact that is already there is kept.
RenameArtifactIfNone(w) ==
    LET j == job[w] IN
    /\ pc[w] = "renameArtifact"
    /\ artifact' = [artifact EXCEPT ![j] = IF @ = 0 THEN tmp[j] ELSE @]
    /\ tmp' = [tmp EXCEPT ![j] = 0]
    /\ Goto(w, "moveToOutput")
    /\ UNCHANGED <<dir, meta, error, response, daemon, job, keeps, recVars,
                   history, halts, faults>>

RenameArtifact(w) ==
    LET j == job[w] IN
    /\ pc[w] = "renameArtifact"
    /\ \/ /\ artifact' = [artifact EXCEPT ![j] = tmp[j]]
          /\ tmp' = [tmp EXCEPT ![j] = 0]
          /\ UNCHANGED <<error, response>>
          /\ Goto(w, "moveToOutput")
          /\ Succeed
          /\ UNCHANGED <<job, keeps>>
       \/ Unfinalized(w) /\ Fault("rename") /\ UNCHANGED files
    /\ UNCHANGED <<dir, meta, daemon, recVars, history, halts>>

MoveToOutput(w) ==
    /\ pc[w] = "moveToOutput"
    /\ \/ SetDir(job[w], "output") /\ Release(w) /\ Succeed
       \/ Unfinalized(w) /\ Fault("rename") /\ UNCHANGED dir
    /\ UNCHANGED <<meta, files, daemon, recVars, history, halts>>

\* Mutant of WriteError: a failed write does not keep the job from failed/.
WriteErrorAnyway(w) ==
    LET j == job[w] IN
    /\ pc[w] = "writeError"
    /\ \/ SetError(j, runs[j]) /\ Succeed
       \/ SetError(j, 0) /\ Fault("write")
    /\ Goto(w, IF w \in keeps THEN "writePartial" ELSE "moveToFailed")
    /\ UNCHANGED <<dir, meta, daemon, job, keeps, recVars, history, halts>>

\* finalizeFailure.  When it fails the job is stuck: nobody owns it and its
\* directory stays in processing/ until the next daemon.
WriteError(w) ==
    LET j == job[w] IN
    /\ pc[w] = "writeError"
    /\ \/ /\ SetError(j, runs[j])
          /\ Goto(w, IF w \in keeps THEN "writePartial" ELSE "moveToFailed")
          /\ Succeed
          /\ UNCHANGED <<job, keeps>>
       \/ SetError(j, 0) /\ Release(w) /\ Fault("write")
    /\ UNCHANGED <<dir, meta, daemon, recVars, history, halts>>

WritePartial(w) ==
    LET j == job[w] IN
    /\ pc[w] = "writePartial"
    /\ \/ /\ SetResponse(j, runs[j])
          /\ Goto(w, "moveToFailed")
          /\ Succeed
          /\ UNCHANGED <<job, keeps>>
       \/ SetResponse(j, 0) /\ Release(w) /\ Fault("write")
    /\ UNCHANGED <<dir, meta, daemon, recVars, history, halts>>

MoveToFailed(w) ==
    /\ pc[w] = "moveToFailed"
    /\ Release(w)
    /\ \/ SetDir(job[w], "failed") /\ Succeed
       \/ Fault("rename") /\ UNCHANGED dir
    /\ UNCHANGED <<meta, files, daemon, recVars, history, halts>>

WorkerStep(w) ==
    \/ \E j \in Job : Take(w, j)
    \/ Claim(w)
    \/ Execute(w)
    \/ DoneMeta(w)
    \/ WriteTmp(w)
    \/ RenameArtifact(w)
    \/ MoveToOutput(w)
    \/ FailMeta(w)
    \/ WriteError(w)
    \/ WritePartial(w)
    \/ MoveToFailed(w)
-----------------------------------------------------------------------------
(***************************************************************************)
(* Recovery, before the pool of the new daemon exists.  Each orphan is     *)
(* charged one attempt in meta.json and requeued, or ended in failed/ once *)
(* the ceiling is reached.  Any step that fails leaves it in processing/.  *)
(***************************************************************************)
\* Mutant of Start: no recovery pass over processing/.
StartWithoutRecovery ==
    /\ daemon = "down"
    /\ daemon' = "recovering"
    /\ rpc' = "next"
    /\ UNCHANGED <<diskVars, workerVars, orphans, rjob, rattempts, rstatus,
                   history, halts, faults>>

Start ==
    /\ daemon = "down"
    /\ daemon' = "recovering"
    /\ orphans' = {j \in Job : dir[j] = "processing"}
    /\ skipped' = {}
    /\ rpc' = "next"
    /\ UNCHANGED <<diskVars, workerVars, rjob, rattempts, rstatus, runs, forgot,
                   halts, faults>>

\* The loop body is over for this entry.
NextOrphan ==
    /\ rpc' = "next"
    /\ rjob' = NoJob
    /\ rattempts' = 0
    /\ rstatus' = "none"

\* readMetaJson, or a default JobMeta when meta.json cannot be read.
RecoverRead(j) ==
    /\ rpc = "next"
    /\ j \in orphans
    /\ orphans' = orphans \ {j}
    /\ rjob' = j
    /\ rpc' = "charge"
    /\ \/ /\ rattempts' = attempts[j]
          /\ rstatus' = status[j]
          /\ Succeed
          /\ UNCHANGED forgot
       \/ /\ rattempts' = 0
          /\ rstatus' = "none"
          /\ MetaUnreadable(j)
    /\ UNCHANGED <<diskVars, daemon, workerVars, runs, skipped, halts>>

\* The listing of processing/ throws between two entries.  The error is caught
\* and logged, the entries still to come are not visited, and Server::start
\* goes on all the same.
RecoveryBreaksOff ==
    /\ rpc = "next"
    /\ orphans # {}
    /\ Fault("list")
    /\ skipped' = orphans
    /\ orphans' = {}
    /\ UNCHANGED <<diskVars, daemon, workerVars, rpc, rjob, rattempts, rstatus,
                   runs, forgot, halts>>

\* Mutant of AtCeiling: one attempt too many.
PastCeiling == rattempts > MaxRecovery

AtCeiling == rattempts >= MaxRecovery

RecoverCeiling ==
    /\ rpc = "charge"
    /\ AtCeiling
    /\ rpc' = "error"
    /\ UNCHANGED <<diskVars, daemon, workerVars, orphans, rjob, rattempts,
                   rstatus, history, halts, faults>>

\* The attempt is on disk before the job can be claimed again.
RecoverCharge ==
    /\ rpc = "charge"
    /\ ~AtCeiling
    /\ rattempts' = rattempts + 1
    /\ \/ /\ SetMeta(rjob, rattempts + 1, rstatus)
          /\ rpc' = "requeue"
          /\ Succeed
       \/ rpc' = "error" /\ Fault("write") /\ UNCHANGED meta
    /\ UNCHANGED <<dir, files, daemon, workerVars, orphans, rjob, rstatus,
                   history, halts>>

RecoverRequeue ==
    /\ rpc = "requeue"
    /\ \/ SetDir(rjob, "ready") /\ NextOrphan /\ Succeed
       \/ /\ Fault("rename")
          /\ rpc' = "fallback"
          /\ UNCHANGED <<dir, rjob, rattempts, rstatus>>
    /\ UNCHANGED <<meta, files, daemon, workerVars, orphans, history, halts>>

\* The rename to failed/ that follows a failed rename to ready/.
RecoverFallback ==
    /\ rpc = "fallback"
    /\ NextOrphan
    /\ \/ SetDir(rjob, "failed") /\ Succeed
       \/ Fault("rename") /\ UNCHANGED dir
    /\ UNCHANGED <<meta, files, daemon, workerVars, orphans, history, halts>>

\* writeRecoveryFailure: error.txt, then meta.json, then the rename.
RecoverError ==
    /\ rpc = "error"
    /\ \/ /\ SetError(rjob, runs[rjob])
          /\ rpc' = "meta"
          /\ Succeed
          /\ UNCHANGED <<rjob, rattempts, rstatus>>
       \/ SetError(rjob, 0) /\ NextOrphan /\ Fault("write")
    /\ UNCHANGED <<dir, meta, daemon, workerVars, orphans, history, halts>>

RecoverMeta ==
    /\ rpc = "meta"
    /\ \/ /\ SetMeta(rjob, rattempts, "failed")
          /\ rpc' = "move"
          /\ Succeed
          /\ UNCHANGED <<rjob, rattempts, rstatus>>
       \/ NextOrphan /\ Fault("write") /\ UNCHANGED meta
    /\ UNCHANGED <<dir, files, daemon, workerVars, orphans, history, halts>>

RecoverMove ==
    /\ rpc = "move"
    /\ NextOrphan
    /\ \/ SetDir(rjob, "failed") /\ Succeed
       \/ Fault("rename") /\ UNCHANGED dir
    /\ UNCHANGED <<meta, files, daemon, workerVars, orphans, history, halts>>

\* Server::start goes on to the runners and the pool.
Serve ==
    /\ rpc = "next"
    /\ orphans = {}
    /\ rpc' = "idle"
    /\ daemon' = "serving"
    /\ UNCHANGED <<diskVars, workerVars, orphans, rjob, rattempts, rstatus,
                   history, halts, faults>>

RecoveryStep ==
    \/ \E j \in Job : RecoverRead(j)
    \/ RecoveryBreaksOff
    \/ RecoverCeiling
    \/ RecoverCharge
    \/ RecoverRequeue
    \/ RecoverFallback
    \/ RecoverError
    \/ RecoverMeta
    \/ RecoverMove
    \/ Serve
-----------------------------------------------------------------------------
CanHalt == crashes + stops < MaxHalts

\* Server::start returns false: the runners could not be created.
StartFails ==
    /\ CanHalt
    /\ rpc = "next"
    /\ orphans = {}
    /\ rpc' = "idle"
    /\ daemon' = "down"
    /\ stops' = stops + 1
    /\ UNCHANGED <<diskVars, workerVars, orphans, rjob, rattempts, rstatus,
                   history, crashes, faults>>

\* Mutant of Stop: the workers are abandoned instead of joined.
StopAtOnce ==
    /\ CanHalt
    /\ daemon = "serving"
    /\ daemon' = "down"
    /\ stops' = stops + 1
    /\ pc' = [w \in Worker |-> "idle"]
    /\ job' = [w \in Worker |-> NoJob]
    /\ keeps' = {}
    /\ UNCHANGED <<diskVars, recVars, history, crashes, faults>>

\* A first SIGTERM: the pool hands out no more work, running jobs finish.
Stop ==
    /\ CanHalt
    /\ daemon = "serving"
    /\ daemon' = "stopping"
    /\ stops' = stops + 1
    /\ UNCHANGED <<diskVars, workerVars, recVars, history, crashes, faults>>

\* Every worker thread has been joined.
Stopped ==
    /\ daemon = "stopping"
    /\ \A w \in Worker : pc[w] = "idle"
    /\ daemon' = "down"
    /\ UNCHANGED <<diskVars, workerVars, recVars, history, halts, faults>>

\* The jobs whose <name>.tmp, error.txt or response.txt a step is writing in
\* place: a crash in mid-write leaves the file torn.
WritingTmp == {job[w] : w \in {v \in Worker : pc[v] = "writeTmp"}}
WritingError ==
    {job[w] : w \in {v \in Worker : pc[v] = "writeError"}}
        \cup {j \in {rjob} : rpc = "error"}
WritingResponse == {job[w] : w \in {v \in Worker : pc[v] = "writePartial"}}

\* content' is content, but for some of the jobs in mid-write.
Torn(content, writing) ==
    {[j \in Job |-> IF j \in torn THEN 0 ELSE content[j]] :
        torn \in SUBSET writing}

\* SIGKILL, a second signal, or a fault in the model: memory is gone.
Crash ==
    /\ CanHalt
    /\ daemon # "down"
    /\ daemon' = "down"
    /\ crashes' = crashes + 1
    /\ pc' = [w \in Worker |-> "idle"]
    /\ job' = [w \in Worker |-> NoJob]
    /\ keeps' = {}
    /\ orphans' = {}
    /\ rpc' = "idle"
    /\ rjob' = NoJob
    /\ rattempts' = 0
    /\ rstatus' = "none"
    /\ tmp' \in Torn(tmp, WritingTmp)
    /\ error' \in Torn(error, WritingError)
    /\ response' \in Torn(response, WritingResponse)
    /\ UNCHANGED <<dir, meta, artifact, history, stops, faults>>

Next ==
    \/ \E j \in Job : Publish(j)
    \/ \E w \in Worker : WorkerStep(w)
    \/ Start
    \/ RecoveryStep
    \/ StartFails
    \/ Stop
    \/ Stopped
    \/ Crash

Spec == Init /\ [][Next]_vars

(***************************************************************************)
(* Assumptions of progress: the operating system runs the daemon's threads *)
(* (Runner::run returns), recovery and Server::shutdown go on, and someone *)
(* starts a daemon again after one is gone.  Nothing is assumed of the     *)
(* client, of crashes, of stops or of failing file operations.             *)
(***************************************************************************)
Fairness ==
    /\ WF_vars(Start)
    /\ WF_vars(RecoveryStep)
    /\ WF_vars(Stopped)
    /\ \A w \in Worker : WF_vars(WorkerStep(w))

FairSpec == Spec /\ Fairness
-----------------------------------------------------------------------------
(***************************************************************************)
(* Who may write into a job directory.  Two workers never own the same     *)
(* job, although the same id can be queued twice; an owned job stays in    *)
(* processing/ under its worker's feet; and recovery, which moves every    *)
(* directory it finds there, never runs beside a worker.                   *)
(***************************************************************************)
OneOwner ==
    /\ \A v, w \in Worker : v # w /\ Busy(v) /\ Busy(w) => job[v] # job[w]
    /\ \A w \in Worker : Busy(w) =>
           dir[job[w]] = "processing" /\ daemon \in {"serving", "stopping"}
    /\ rjob # NoJob => dir[rjob] = "processing" /\ daemon = "recovering"

(***************************************************************************)
(* README.md "Repeated recovery stops at a fixed ceiling": however the     *)
(* crashes, stops and failing writes fall, a job is run at most once more  *)
(* than the ceiling, as long as its attempt count was never unreadable.    *)
(***************************************************************************)
RunsBounded == \A j \in Job : j \notin forgot => runs[j] <= MaxRecovery + 1

(***************************************************************************)
(* A job in output/ holds a whole artifact, written by the run that moved  *)
(* it there and not left over from an earlier run that died, and no        *)
(* temporary file.                                                         *)
(***************************************************************************)
DoneIsFresh ==
    \A j \in Job : dir[j] = "output" =>
        /\ runs[j] > 0
        /\ artifact[j] = runs[j]
        /\ tmp[j] = 0

(***************************************************************************)
(* CONTEXT.md "Failed: The job ended with error.txt", and processor.cpp    *)
(* "Write the error first so failures always carry a diagnosis": a job in  *)
(* failed/ holds a whole error.txt that speaks of its last run.            *)
(***************************************************************************)
FailedIsDiagnosed ==
    \A j \in Job : dir[j] = "failed" =>
        runs[j] > 0 /\ error[j] = runs[j]

(***************************************************************************)
(* The same, at the moment a job enters failed/, whatever has failed       *)
(* before: only recovery's fallback rename moves a job there unexplained.  *)
(***************************************************************************)
FailuresAreDiagnosed ==
    [][\A j \in Job : dir[j] = "processing" /\ dir'[j] = "failed" =>
           \/ error'[j] = runs[j]
           \/ rpc = "fallback" /\ rjob = j]_vars

(***************************************************************************)
(* Recovery attempts are paid for by crashes and failed file operations    *)
(* only: stopping and starting the daemon, however often, brings no job    *)
(* nearer to the ceiling.                                                  *)
(***************************************************************************)
StopsAreFree == \A j \in Job : attempts[j] <= crashes + faults

(***************************************************************************)
(* The code's "STUCK JOB": a directory in processing/ that belongs to no   *)
(* worker and is not waiting for recovery, in a daemon that runs.          *)
(***************************************************************************)
Waiting(j) == j \in orphans \/ rjob = j

Stranded ==
    {j \in Job :
        /\ daemon # "down"
        /\ dir[j] = "processing"
        /\ ~Waiting(j)
        /\ \A w \in Worker : Busy(w) => job[w] # j}

(***************************************************************************)
(* A running daemon loses no job for free.  A listing of processing/ that  *)
(* breaks off costs one failure and loses every orphan it has not visited; *)
(* each other job stranded in the daemon has a failed file operation of    *)
(* its own.  So neither an error path of a worker nor a recovery that gets *)
(* to the end of its listing forgets a job.                                *)
(***************************************************************************)
Lost == Stranded \ skipped

StrandedByFaults ==
    /\ IsFiniteSet(Lost)
    /\ Cardinality(Lost) <= faults
    /\ skipped # {} => Cardinality(Lost) < faults

(***************************************************************************)
(* The pipeline keeps the promise of JobStates: terminal jobs never move,  *)
(* each move is one of its five, and only a job below the ceiling is       *)
(* queued again.                                                           *)
(***************************************************************************)
StateOf == [writing |-> "staging", ready |-> "queued",
            processing |-> "running", output |-> "done", failed |-> "failed"]

Promise == INSTANCE JobStates WITH state <- [j \in Job |-> StateOf[dir[j]]]

KeepsPromise == Promise!Spec

(***************************************************************************)
(* Every published job ends: whatever crashes and stops intervene, it      *)
(* reaches output/ or failed/ once daemons stay up long enough.  The one   *)
(* exception is the code's "STUCK JOB": a file operation failed, be it one *)
(* on the job or recovery's listing, and the job waits in processing/,     *)
(* with no owner, for the next daemon.                                     *)
(***************************************************************************)
Stuck(j) ==
    /\ faults > 0
    /\ daemon = "serving"
    /\ dir[j] = "processing"
    /\ \A w \in Worker : Busy(w) => job[w] # j

EveryJobEnds ==
    \A j \in Job : dir[j] = "ready" ~> dir[j] \in Terminal \/ Stuck(j)
-----------------------------------------------------------------------------
(***************************************************************************)
(* The inductive invariant behind the safety properties: what each program *)
(* counter says of the disk.  JobPipelineProofs proves it.                 *)
(***************************************************************************)
RecoveryOwns == rpc \notin {"idle", "next"}

\* Program counters agree with what the threads hold.
Bookkeeping ==
    /\ \A w \in Worker : pc[w] # "idle" <=> job[w] # NoJob
    /\ daemon \in {"down", "recovering"} => \A w \in Worker : pc[w] = "idle"
    /\ daemon = "recovering" <=> rpc # "idle"
    /\ RecoveryOwns <=> rjob # NoJob
    /\ daemon # "recovering" \/ skipped # {} => orphans = {}
    /\ rjob \notin orphans
    /\ \A j \in orphans : dir[j] = "processing"

\* An attempt is charged before the run it pays for.
Charged ==
    /\ \A j \in Job : j \notin forgot =>
           /\ attempts[j] <= MaxRecovery
           /\ runs[j] <= attempts[j] + 1
           /\ dir[j] \in {"writing", "ready"} => runs[j] <= attempts[j]
    /\ RecoveryOwns /\ rjob \notin forgot =>
           /\ rattempts >= attempts[rjob]
           /\ rattempts <= MaxRecovery
           /\ rpc = "requeue" => runs[rjob] <= attempts[rjob]
    /\ rpc = "charge" /\ rjob \notin forgot => rattempts = attempts[rjob]
    /\ "read" \notin FaultKinds => \A j \in Job : j \notin forgot

\* What has been written when the rename that publishes it is next.
Written ==
    /\ \A j \in Job : dir[j] \notin {"writing", "ready"} => runs[j] > 0
    /\ \A w \in Worker :
           /\ pc[w] = "renameArtifact" => tmp[job[w]] = runs[job[w]]
           /\ pc[w] = "moveToOutput" =>
                  /\ artifact[job[w]] = runs[job[w]]
                  /\ tmp[job[w]] = 0
           /\ pc[w] \in {"writePartial", "moveToFailed"} =>
                  error[job[w]] = runs[job[w]]
    /\ rpc \in {"meta", "move"} => error[rjob] = runs[rjob]
    /\ rpc = "fallback" => "rename" \in FaultKinds

\* Nobody is handling this job, so the next recovery will charge it.
Unpaid(j) ==
    /\ dir[j] = "processing"
    /\ \A w \in Worker : Busy(w) => job[w] # j
    /\ rjob = j => rpc = "charge"

\* Every attempt, and every attempt still to be charged, has its failure.
Paid ==
    /\ \A j \in Job : attempts[j] <= crashes + faults
    /\ \A j \in Job : Unpaid(j) => attempts[j] + 1 <= crashes + faults
    /\ rattempts <= crashes + faults
    /\ rpc = "charge" => rattempts + 1 <= crashes + faults
    /\ rpc = "fallback" => attempts[rjob] + 1 <= crashes + faults

Inv ==
    /\ TypeOK
    /\ Bookkeeping
    /\ OneOwner
    /\ Charged
    /\ Written
    /\ DoneIsFresh
    /\ Paid
=============================================================================
