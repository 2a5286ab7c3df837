# nrvna: a TLA+ model of the job engine

nrvna runs inference jobs that live on disk. A job is a directory; the state
directory that holds it is its state, and every state change is one rename.
`wrk` publishes a job, one daemon (`nrvnad`) per workspace claims and runs it,
`flw` looks at it. There is no database and no server to ask: what the system
promises has to hold between file operations of processes that may die at any
of them. The modules here model that engine, TLC checks them on small
instances, and TLAPS proves their safety properties for every size.

## 1. Inventory

Paths are those of the repository (`src/` below is its root).

| Part | State it keeps | Operations | Hard behaviour | What makes it correct |
| --- | --- | --- | --- | --- |
| `src/work.cpp`, `cli/wrk.cpp` (Work) | `input/writing/<id>` | option rules, `submit`, `submitAudio`, clean-up, publish | dying while staging, failed writes, rules that wrk, Work, scanner and worker each write down again | only whole jobs are published, as the ones that were asked for, and the exit code is the truth |
| `src/scanner.cpp` (Scanner) | none | `scan`, `readyJobCount` | a listing is stale at once, or fails half way | every valid ready job is found again |
| `src/pool.cpp` (Pool) | `jobQueue_`, `enqueuedJobs_`, flags, a mutex and a condition variable | `start`, `submit`, `workerLoop`, `stop` | lost wakeups, duplicates, stop against waiting workers | no id lost or kept, nobody sleeps beside work, stop returns |
| `src/processor.cpp` (Processor) | files in the job directory, `meta.json` | `process`, claim, four finalizers, failure path | death between any two file operations, writes and renames that fail, a job that can neither be finished nor be failed | one owner per directory, whole and fresh artifacts, diagnosed failures |
| `src/server.cpp` (Server) | `submittedJobs`, `shutdown_` | `start`, `recoverOrphanedJobs`, `scanLoop`, `shutdown` | crashes during recovery, a recovery that breaks off, repeated stops, retries by time | the ceiling bounds the runs, stops are free, nothing is stranded without a fault, clean shutdown |
| `src/meta.cpp` | `meta.json` | read, atomic write | unreadable file resets the counter | counters survive a crash |
| `src/flow.cpp`, `cli/flw.cpp` (readers) | none | `status`, `get`, `list`, `meta`, `counts`, `selectSet`, wait loops | four directories read one after the other while jobs move, and looks that fail without saying so | a published job is never missing, quiet means ended, but for what a failed look has hidden |
| `src/lifecycle.cpp`, `cli/nrvnad.cpp` (lifecycle) | `.nrvnad.lock`, `.pid`, `.ready`, `.info`, signal flag | lock, `query`, `stopDaemon`, runtime files, signal handler, drain | two daemons, status and stop at once, stale files, hanging shutdown, a process that outlives its lock | one daemon serves, its files are its own, a stopped daemon has left the workspace |
| `src/runner.cpp`, `src/runner_tts.cpp` (Inference) | shared models, a context per run, `vision_encoding_mutex_` | loading, `runText`, `runVision`, `runStt`, `embed`, `embedVision`, `TtsRunner::run` | workers that meet at one mutex, five limits in six places, calls that the library refuses by an assertion, objects freed by hand on seven paths | a run fits its context, encodes media alone, frees what it took and returns |
| `apps/imgsrch` (Go) | a manifest, an index, three workspaces | `index`, `advance`, `finishPipeline` | death between publishing and noting the id, two finishers | every image is indexed once |
| `apps/bckbrnr` (Swift) | prompts, mapping, responses | submit, collect, recover | quitting between the steps | every answer is delivered |
| `scripts/nrvna-lib.sh` | none | start, stop, status | adopting a daemon that is stopping | a started daemon is ready |

How they interact. `wrk` and the daemon share nothing but `input/ready/`. The
scanner thread hands ids to the pool; a worker hands an id to the processor,
whose first rename is the only arbiter of who runs the job. Recovery runs in
`Server::start`, before any worker exists and under the workspace lock; a reader
takes no lock. The processor calls the runner of its worker, and the runners of
all workers share the models and one mutex. The lock is the only thing two
daemons share, and status and stop test it by taking it.

`PROJECT.json` lists every part with its status, and the hazards at their
lines with the properties that cover them.

## 2. Modules

| Module | Models | Runs |
| --- | --- | --- |
| `JobStates` | abstract: the states of a job and the five moves between them | (refined by `JobPipeline`, `Dispatch` and `Submission`) |
| `JobPipeline` | Processor, recovery, start, stop and crash | `pipeline_safe`, `pipeline_ends`, `pipeline_fallback` |
| `Pool` | the worker pool | (composed in `Dispatch`) |
| `Dispatch` | `Pool` with the scanner loop, the claim and `Server::shutdown` | `dispatch`, `dispatch_stop` |
| `Flow` | readers, over the moves of `JobStates` | `flow`, `flow_missing`, `flow_quiet` |
| `Lifecycle` | daemons, status and stop around the workspace lock | `lifecycle`, `lifecycle_stop` |
| `Submission` | `wrk` from its options to the published job, and what the scanner and a worker make of the files | `submission` |
| `Inference` | the runners of the workers, from loading the models to the answer of a run | `inference` |

Each has an `MC` module that gives the constants their values (`JobStates` and
`Pool` within those they are part of), and `JobPipeline`, `Dispatch`, `Flow`,
`Lifecycle`, `Submission` and `Inference` have a module of theorems
(`...Proofs`, section 5); `Counting` holds two lemmas on counted sets that two of
them share. The modules meet where the parts do: `Flow` moves its jobs by the
actions of `JobStates`, which `Submission`, `Dispatch` and `JobPipeline` are
each shown to implement, for the part of a job's life that they see;
`Dispatch` contains `Pool`; `JobPipeline` and `Dispatch` take one daemon for
granted, which is `OneServer` of `Lifecycle`, and whole, valid jobs, which is
`Delivered` of `Submission`; that a run returns, which `JobPipeline` and
`Dispatch` assume of their workers, is `EveryRunEnds` of `Inference`.

### JobPipeline

`dir[j]` is the directory of job `j`; the directory is a function of the job
because ids are unique and every move is one rename. Of the files inside it the
model keeps `meta.json` (`attempts`, `status`) and `tmp`, `artifact`, `error`
and `response`, whose content is the number of the run that wrote them, 0 when
there is no whole copy. This tells a fresh file from one that an earlier run
left, and a whole one from a torn one, and nothing else does any property need.

Each worker is a program counter over the file operations of
`Processor::process` in their order, and so is recovery. Between any two of them
another thread may run, and the daemon may crash (`Crash`: everything in memory
is gone) or be told to stop (`Stop`, then `Stopped` when the workers are idle).
A file operation may fail where its kind is in `FaultKinds`: `read` (meta.json
unreadable, which the code replaces by a fresh one), `write`, `rename` and
`list`. The last is the listing of `processing/` by recovery, which throws
between two entries; the error is caught (`src/server.cpp:155-159`), the orphans
not yet visited stay where they are, and the daemon serves all the same
(`RecoveryBreaksOff`). `skipped` remembers them, since one such failure may
strand any number of jobs until the next daemon. The job types differ in their
file operations only: `text` stands for text and vision, `embed` for embeddings,
`media` for both audio directions.

### Pool and Dispatch

`Pool` has the queue, the set beside it, the flag and the mutex. The only place
where the mutex is held across two steps is between the wait's predicate
(`Test`) and the sleep (`Block`): that is where `Pool::stop`, which takes no
mutex, can come in between. `running_` is the negation of `shutdown_` once the
pool runs. `Dispatch` adds `scanLoop` (`List`, `SubmitHead`, `PassOver`,
`SubmitDone`, `Sleep`), the five seconds and the thirty seconds as steps that
may come at any time, the claim, and the shutdown of the server. What a worker
does after the claim is `JobPipeline`'s matter and one step here (`Processed`),
after which the job has ended or, at the cost of a fault, is left stuck in
`processing/`. A listing is taken at one moment; the list goes stale before it
is used, which has the same effect as entries that change while the directory is
read.

### Flow

`status`, `counts` and `selectSet` look into the same four directories in the
same order; they differ in what they make of the sightings. So one call is
modelled, which looks for the jobs one by one, directory by directory, and the
answers are operators (`StatusOf`, `Quiet`, `LastSeen`, `MoreFailed`). A wait is
a first call, whose count of failures becomes the baseline (`EnterLoop`), and
then calls until one is quiet (`CallAgain`): `nrvnad --drain`, watching another
daemon or its own. The loops of `flw` do without the first call. `known` and
`older` are history: which jobs were published when the call began, and which
had failed when the wait began. A job is looked for at one moment, so the
listing of a directory may hold any mixture of old and new entries. `Restarts`
says whether a daemon may start, and requeue a job, during a call; between two
calls it may in any case. A drain that watches a daemon (`watching`) takes over
when that one has gone (`TakeOver`): it becomes a daemon and begins again, with
a baseline of its own. To the moves of `JobStates` the module adds the worker
that can put away neither result nor failure and leaves the job where it is
(`Strand`, the `Stuck` of `JobPipeline`), until a starting daemon recovers it.

A look may fail, and no reader tells (`LooksFail`): `countSubdirs` and the scanner
catch the exception and return what they have counted, `selectSet` passes over an
entry whose meta.json cannot be read, and `status` answers any error with
Missing. `missed[s]` are the jobs that a failed look has hidden in a directory in
the current call, and `overlooked` those among the failed ones that the baseline
has missed for this reason. A wait may also be given up (`GiveUp`, phase `over`),
by a signal or because another daemon has got the lock first: its exit code is
then a failure whatever it saw.

### Lifecycle

Daemons and commands are processes; `lock` is the flock, `lockPid`, `pidFile`
and `readyFile` the files, whose content is the process that wrote them. A file
operation is a step. The release of the lock (`Close`, `LoadFails`) and the end
of the process (`Exit`) are two: in between the daemon is alive without the lock
(`exiting`), destructors run, and another one may take the lock and publish
itself, or stop may see the lock free and return. Such a daemon, like one that
is gone, has left the workspace (`HasLeft`). A signal is delivered when it is
sent. `Owned` reads the lock file, the lock and the process name in one step,
and the signal that follows is another. A daemon that fails to write its ready
file is not modelled, nor a pid that the operating system gives to another
program.

### Submission

A call of `wrk` submits at most one job and `generateId` gives it an id of its
own, so the call stands for the id. File contents are classes: of a prompt its
size (`long` is above a lowered `NRVNA_MAX_PROMPT_SIZE`, `huge` above the limit
of Work), of media their number, of a grammar where it came from; `torn` is a
file whose write failed. `Invoke` reads and checks the command line, `Submit`
and `SubmitAudio` are the checks of Work, and from `CreateJobDirectory` to
`AtomicPublish` every file operation is a step that may fail, with its way to
`CleanupFailedJob`; a `mkdir` that fails half way leaves its directory behind.
The worker's reads of a claimed job may fail as well, and it goes on with what
it has (`MisreadFiles`): fewer media files, another type, no grammar. Between
any two steps `wrk` may be killed (`Kill`) and the media that it was given may
be removed (`Vanish`).

The rules of the four parts are four sets of operators, each from its own code:
`Consistent` (wrk), `ValidPrompt` and `ValidStructuredOutput` (Work),
`ValidJobDirectory` (scanner), `Readable` and `Route` (processor). `Delivered`
says that they agree. They share `MayBeEmpty` where the code of Work and of the
processor has the same condition; the scanner's is `EmptyPromptAllowed`.

### Inference

Models are loaded once and shared (`LoadModel`, `MakeRunner`, `LoadTts`); a
worker without a projector is text-only. A run is a program counter and a record
of token counts: the prompt's, those the model has read and generated, the
context and the batch that were asked for, and what the run has allocated. The
budget is the code's arithmetic (`Accepts`, `PredictOf`, `CtxOf`, `BatchOf`),
kind by kind. `NRVNA_BATCH` is one variable that three places read in three ways
(`Batch`, `VisionBatch`, `TtsBatch`), and `env_int` lets zero and negative numbers
through where `embedVision` reads it and where `runStt` reads
`NRVNA_STT_PREDICT`. A negative context is the large unsigned number the code
makes of it, and a context of 0 is the one the model was trained for (`Asked`).

Every library call is a step that may fail; `Fail` frees what the
path frees, which is everything where destructors do it, and what
`FreedByHand` lists in `embedVision`. A call with more tokens than the library
takes at once (`TooLong`: `llama_encode` requires `n_ubatch`, `llama_decode`
`n_batch`) does not fail: an assertion of the library ends the process and every
run of it (`Abort`). What a run computes is left to chance: the
model may end the text after any token. `start` tells the three kinds of model
apart that `runText` treats differently.

## 3. Runs

Every passing run reaches all its actions, and every property of one has a
mutant in `PROJECT.json`: a plausible bug in one definition that TLC finds.

| Run | Asks | Bounds |
| --- | --- | --- |
| `pipeline_safe` | Does every job directory have one owner (`OneOwner`), does the ceiling bound the runs (`RunsBounded`), is a done job's artifact whole and of its last run (`DoneIsFresh`), do stops cost no attempts (`StopsAreFree`), does a job enter `failed/` with its diagnosis (`FailuresAreDiagnosed`), and does a job stay in `processing/` without a worker only where a file operation of its own failed or recovery never came to it (`StrandedByFaults`)? | two jobs of two kinds, two workers, ceiling 1, two crashes or stops, one fault of any of the four kinds |
| `pipeline_ends` | Does the pipeline implement `JobStates` (`KeepsPromise`), and does every published job end or get visibly stuck (`EveryJobEnds`)? | one job, two workers, ceiling 2, four halts, one failing write, rename or listing |
| `pipeline_fallback` | violation: is every job in `failed/` diagnosed (`FailedIsDiagnosed`)? | one job, a failing rename |
| `dispatch` | No lost wakeup (`NobodyOversleeps`), a job is claimed once although lists are stale (`RunsOnce`), shutdown is clean: every worker is out, and what was claimed has ended but for one stuck job per fault (`CleanStop`), no id is lost or kept on the way (`NoIdIsLost`: queue and set agree, and a known ready job is queued or held, but for one per failed rename), jobs move as `JobStates` says (`KeepsPromise`), every ready job is claimed (`ReadyIsClaimed`) | two jobs, two workers, one failing rename, listing or finalisation |
| `dispatch_stop` | violation: does `Pool::stop` return (`StopReturns`)? | no faults |
| `flow` | no published job is missing from a call (`NeverMissing`), a quiet one means that all have ended (`QuietMeansEnded`), a set's verdict hides no failure (`VerdictIsFinal`), a drain counts the failures since its baseline and no others (`DrainVerdict`), each but for the jobs that a failed look has hidden, and nothing but a job that stays stuck keeps the wait loop from ending (`WaitEnds`) | two jobs, one recovery each, one failing look, no daemon starts during a call |
| `flow_missing` | violation: `NeverMissing` when a daemon starts during a call | one job |
| `flow_quiet` | violation: does only an observed-idle queue end a wait (`QuietIsObserved`)? | one job, one failing look |
| `lifecycle` | one daemon serves (`OneServer`), stale files mislead nobody (`LoadingIsNotReady`), status keeps fresh files (`StatusKeepsFiles`), a successful stop leaves its daemon without the workspace for good (`StoppedHasLeft`), a signal goes to the owner of the workspace or to a process that has left it (`SignalsOwnerOnly`), and a daemon that was told to stop has left in the end (`ToldLeaves`) | two daemons, one repeated status, one stop, one crash or interrupt, one attempt at the lock |
| `lifecycle_stop` | violation: do a serving daemon's files stay (`FilesStay`)? | two daemons, one stop |
| `submission` | an id means a published job and an error means none (`AnswerIsTrue`), no error path forgets the staging directory (`StagingIsOwned`), a published job passes the scanner's rules and is run as what was asked for if at all (`RulesAgree`), every published job runs as the one asked for (`Delivered`), the last two but for a job that the worker itself could not read | one call with any options, up to two media files, two faults, the daemon's default prompt limit |
| `inference` | a run fits its context and its batch, and the cap leaves it what it was promised (`ContextSuffices`), one media encoding at a time (`OneMediaEncoding`), no path leaks (`NothingLeaks`), no step of a run goes back (`NoStepGoesBack`), every run returns or goes down with the daemon (`EveryRunEnds`) | two workers, all kinds of run and of model, prompts of 2, 3 and 6 tokens in a context of 6, one `NRVNA_BATCH` of 2 |

Why the bounds are enough. A race for a job or for the lock needs two; a stale
list needs a job that moves while another is handled; a ceiling of one is
passed by two crashes, and a ceiling of two tells counting from remembering; a
fault in every place is covered because the model chooses the place. A daemon
that has used up its attempts at the lock gives up, and it may wait in front of
the lock as long as it likes before each: one attempt has all the interleavings,
more only repeat them. Calls of `wrk` meet nowhere but in `input/ready/`, whose
absence is an initial state, so one call is enough; a second fault is needed to
make the clean-up after the first one fail. One failing look hides any set of
jobs. The prompts of `inference` are one that just fits into a batch; one that
does not, which text reads in two and which makes `llama_encode` and the decode
of a speech abort, and which leaves less room than `NRVNA_PREDICT` and more than
`NRVNA_STT_PREDICT`; and one that fills the context and must be refused. The
proofs below hold for every size.

`submission` gives the daemon its default prompt limit. With a lowered
`NRVNA_MAX_PROMPT_SIZE` `Delivered` is false, and the code means it so: the
scanner passes over a job that is too long, which `wrk`, in another process with
another environment, has accepted. The hazard is listed.

### What the violations show

* `pipeline_fallback`: when recovery cannot rename an orphan to `input/ready/`,
  it renames it to `failed/` and writes nothing (`src/server.cpp:142-150`).
  CONTEXT.md:27 promises an `error.txt`.
* `dispatch_stop`: `Pool::stop` stores `shutdown_` and notifies without holding
  `queueMutex_` (`src/pool.cpp:66-70`). A worker between its test and its sleep
  sleeps for ever and stop waits for it. `nrvnad stop` escalates, so
  `ToldLeaves` still holds; a SIGTERM from elsewhere leaves a daemon that
  hangs.
* `flow_missing`: looking upstream first is safe while jobs move downstream,
  and recovery moves one upstream. A caller of `flw -w` then reads Missing. The
  same interleaving makes a drain watcher see a quiet queue.
* `flow_quiet`: a listing that throws counts as one that is complete
  (`src/flow.cpp:215`), so one failed look at `input/ready/` ends a drain with
  success while jobs are queued. A comment has it that "only an observed-idle
  queue earns drain success" (`src/cli/nrvnad.cpp:659`).
* `lifecycle_stop`: stop gives the lock back and removes the runtime files
  afterwards; a daemon that started in between loses its own.

## 4. Fairness

* `JobPipeline` (`FairSpec`): threads of a running daemon go on, recovery goes
  on, and a daemon that is down is started again. Crashes, stops, faults and
  publications are never forced. Runs end: inference is bounded by its token
  limit.
* `Dispatch`: the scanner and the workers go on, time passes, `process`
  returns. Taking the mutex is strongly fair: it is held for a bounded time and
  no thread is passed over for ever by the operating system. No spurious wakeup
  is assumed.
* `Flow`: a call goes on and the daemon claims jobs and ends those that are not
  stuck, as `pipeline_ends` shows. No daemon has to start, no look has to fail
  and nobody has to give a wait up.
* `Lifecycle`: only the commands go on. A daemon may hang anywhere.
* `Submission`: the scanner passes over `ready/` again and again and a worker
  reads what it has claimed. `wrk` need not go on: it may be killed anyway.
* `Inference`: the calls into llama.cpp return or end the process. The media
  mutex is strongly fair for the reason given above. Nobody has to ask for a
  run.

`CHECK_DEADLOCK FALSE` is said where the system may stop: all jobs have ended,
all processes are gone, and, in `Inference`, a daemon whose models do not load
does not start, or one that the library ended is gone.

## 5. Proofs

Six modules hold the theorems, and `Counting` two lemmas. None carries a bound:
they hold for every set of jobs, workers, daemons, commands and calls, every
limit, and every number of crashes, stops, recoveries and faults. The
assumptions are those that the modules state by name: that ids of different
things differ, that a bound is a number, that every job has a kind, and in
`Dispatch` that jobs and workers are finite sets, since a list is a sequence of
jobs and the lost-wakeup property counts workers. `Inference` assumes of the
configuration what `env_positive_int` guarantees: the limits read with it are
positive. The other two are integers, `SttPredict` not below `-Word`. Nothing
relates a batch to a context: that large batches keep the library from ending
the daemon is a hypothesis of one theorem (`LargeBatchesSuffice`) and no
assumption.

| Module | Theorem | Statement |
| --- | --- | --- |
| `JobPipelineProofs` | `TypeCorrect`, `Ownership`, `Ceiling`, `Freshness`, `Stops` | `Spec => []TypeOK`, `OneOwner`, `RunsBounded`, `DoneIsFresh`, `StopsAreFree` |
| | `Diagnosis` | `Spec => FailuresAreDiagnosed` |
| | `DiagnosisWithoutFallback` | no rename fails: `Spec => []FailedIsDiagnosed` |
| | `StrandedOnlyByFaults` | `Spec => []StrandedByFaults` |
| | `PromiseKept` | meta.json stays readable: `Spec => KeepsPromise` |
| `DispatchProofs` | `Types`, `NoLostWakeup`, `ClaimedOnce`, `ShutdownIsClean` | `TypeOK`, `NobodyOversleeps`, `RunsOnce`, `CleanStop` |
| | `EveryIdIsAccounted`, `PromiseKept` | `Spec => []NoIdIsLost`, `Spec => KeepsPromise` |
| `FlowProofs` | `Types`, `EndsAreTrue` | `FlowSpec => []FlowTypeOK`, `FlowSpec => []ReportedEndIsTrue`, also while daemons start |
| | `Found`, `QuietIsOver`, `SetVerdict` | no daemon starts during a call: `NeverMissing`, `QuietMeansEnded`, `VerdictIsFinal` |
| | `DrainIsFair` | the same, and finitely many jobs: `DrainVerdict` |
| `LifecycleProofs` | `Types`, `OneAtATime`, `NotReadyYet`, `StatusIsHarmless`, `StopIsTrue` | `TypeOK`, `OneServer`, `LoadingIsNotReady`, `StatusKeepsFiles`, `StoppedHasLeft` |
| | `StopHitsTheOwner` | `Spec => SignalsOwnerOnly` |
| | `FilesStayWithoutStop` | no stop is used: `Spec => []FilesStay` |
| `SubmissionProofs` | `Types`, `TheAnswerIsTrue`, `StagingHasAnOwner` | `TypeOK`, `AnswerIsTrue`, `StagingIsOwned` |
| | `AcceptedIsHonoured`, `PromiseKept` | `Spec => []RulesAgree`, `Spec => KeepsPromise` |
| `InferenceProofs` | `Types`, `NoRunOverflows`, `OneAtATime`, `AllIsFreed` | `TypeOK`, `ContextSuffices`, `OneMediaEncoding`, `NothingLeaks` |
| | `NoWayBack` | `Spec => NoStepGoesBack` |
| | `LargeBatchesSuffice` | batches as large as the context: `Spec => []NeverAborts` |
| | `ContextLimit` | no image embeddings are asked for and `NRVNA_STT_PREDICT` is not below minus the overhead: `Spec => []ContextIsLimited` |

So every invariant that a passing run checks has a theorem, and so have the
action properties (`FailuresAreDiagnosed`, `SignalsOwnerOnly`, `NoStepGoesBack`)
and the three refinements (`KeepsPromise`). Four results no run repeats: that an
end which a call of `flw` reports is true (`EndsAreTrue`), that `Submission`
implements `JobStates`, and the last two theorems of `Inference`. The
conditional theorems say how far the violations reach: while no rename fails
every failed job is diagnosed, while no daemon starts during a call no job is
missing, without `nrvnad stop` the files of a daemon stay. The runs
`pipeline_fallback`, `flow_missing` and `lifecycle_stop` show that each of these
hypotheses is needed. Those of `Inference` say what a configuration has to
provide for, and the listed hazards what happens without: a text for a model
with an encoder may be longer than a batch by default, a speech with a lowered
`NRVNA_BATCH`, and `embedVision` (`src/runner.cpp:596`) compares its context with no limit,
although CONFIGURATION.md:45 calls `NRVNA_MAX_CTX` one of every job. The
hypothesis of `PromiseKept` in `JobPipelineProofs` is the hazard of
`src/server.cpp:108`: a recovery that cannot read meta.json counts from zero.

The argument is the same everywhere: the property is not inductive, because what
it forbids depends on what a process knows at its program counter; the inductive
invariant says what it knows. One lemma per part or per action shows that a step
preserves it, and a temporal step closes it. TLC checked each invariant before
it was proved.

* `JobPipeline`, `Inv`: `Bookkeeping` (counters agree with what the threads
  hold), `OneOwner`, `Charged` (an attempt is in meta.json before the run it
  pays for), `Written` (what the rename that comes next will publish) and `Paid`
  (every attempt has the crash or the fault that caused it). `StrandedByFaults`
  is a count again: a step that leaves a directory in `processing/` without an
  owner is a step in which a file operation failed, and it leaves one, unless it
  is the step in which recovery breaks off, whose orphans are `skipped` and
  whose fault strands nothing else. The action property and the refinement then
  follow step by step: `EntersFailed`, `FailedIsFinal`, `PromiseMoves`.
* `Dispatch`: a mutex held across two steps is held by a worker in front of an
  empty queue (`MutexTrue`), so nothing is queued behind its back; a worker
  holds an id exactly while it processes it (`HoldTrue`), and a claimed job is
  with one worker or has ended (`ClaimTrue`); `StopTrue` orders the shutdown. A
  known ready job leaves the queue only into a worker's hands and the hands only
  by a claim, or by a rename that failed: `DroppedByFaults`, which `NoIdIsLost`
  has beside `QueueMatchesSet`, counts these, with `KnownTrue` for what the
  scanner has forgotten meanwhile.
* `Flow`: a job that was published when the call began has been seen, or is
  still ahead of the call (`Watched`), since jobs move downstream as the call
  does; what was seen to have ended has (`Sound`); and the baseline contains the
  old failures and nothing but failures (`Counted`), so that comparing numbers
  compares sets. What the looks that failed have hidden is excepted from each of
  these, and only that.
* `Lifecycle`: who is past taking the lock and not yet past releasing it holds
  it (`LockHeld`), a pid that can be read is that of a daemon that has had the
  lock (`PidKnown`), and so a free lock means that this daemon has left
  (`StopTrue`). `ReadyTrue` and `FilesTrue` say which files are there at each step
  of a start, `Counting` keeps the counters within their types. What is signalled
  has had the lock, so it has it still or has left (`StopHitsTheOwner`).
* `Submission`: `Where` says where the job directory is at each step of a call.
  `Right` says what is in it: the files staged so far are those of the options,
  which have passed the rules of wrk and Work by then. That these rules imply the
  scanner's is one lemma (`AcceptedIsClaimable`) without a state in it.
* `Inference`: `Fits` carries the budget (`BudgetFits`) from its computation to
  the last token, `Owns` what `embedVision` has allocated at each step, and
  `Exclusion` that who evaluates media holds the mutex. The budget is made in one
  step (`BudgetIsMade`) and kept by all others (`BudgetIsKept`). `NoWayBack` gives
  a run a measure, the step it is at and then the tokens still to come, that no
  step of it raises and each of its own steps lowers.

The three refinements share `JobStates` and its mapping of directories to
statuses: `Submission` implements its first move, `Dispatch` the life of a job
under one daemon, with `MaxRecovery` 0, and `JobPipeline` the whole of it, over
crashes and recoveries.

Only model-checked: the liveness properties (`EveryJobEnds`, `ReadyIsClaimed`,
`WaitEnds`, `ToldLeaves`, `Delivered`, `EveryRunEnds`), since they rest on
fairness, which is out of the prover's reach. What the code itself has to do for
them is proved where it can be said of a state or a step: `StrandedByFaults` for
`EveryJobEnds`, `NoIdIsLost` for `ReadyIsClaimed`, `RulesAgree` for `Delivered`,
`NoStepGoesBack` for `EveryRunEnds`.

## 6. What is left

In this order:

1. `ImageIndex`: the manifest of imgsrch, its three workspaces, and two
   finishers of one project.
2. `Desk`: submit, collect and recovery of bckbrnr.
3. The wrapper's adoption of a daemon that is shutting down.

### Not modelled

* `apps/imgsrch` and `apps/bckbrnr`, in Go and Swift, are clients that reach the
  engine through `wrk` and `flw`: nothing in the engine depends on them. Their
  hazards are listed. Search, evaluation and set-up of imgsrch are sequential.
* `scripts/nrvna-lib.sh`: calls of `nrvnad` and `flw` with a timeout.
* `Flow::list` and `Flow::meta` look downstream first and may miss a job that
  moves; no document promises more. `Flow::get` reads a directory that no longer
  changes.
* The text of things: ids and their validation, JSON, tags and lineage, chat
  templates, think blocks, transcripts, the preparation of a text to be spoken,
  structured output options, logging and terminal output, option parsing and
  model lookup. Samples and embeddings are numbers no property here is about.
* A pool that cannot create its threads: the daemon does not start.
* What a daemon's `main` throws once it is up (`src/cli/nrvnad.cpp:695-702`), and
  what happens to a daemon that hangs after it has released the lock: nothing
  chases it any more, and it has no work left.
* Running out of memory. In `embedVision` it has one effect of its own: the catch
  block frees the context a second time if the exception comes after the first
  (`src/runner.cpp:663-673`).
* The width of `int`: the sum of prompt and prediction of a speech
  (`src/runner_tts.cpp:597`) overflows for an `NRVNA_PREDICT` near 2^31.
* `RunsBounded` does not speak of a job whose meta.json could not be read
  (`forgot`): its counter begins again, and the job may run any number of times.
  The hazard is listed.
