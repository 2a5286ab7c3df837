----------------------------- MODULE Submission -----------------------------
(***************************************************************************)
(* A job from the command line of wrk to the hands of a worker: the option *)
(* rules of wrk.cpp, the staging of Work::submit and Work::submitAudio     *)
(* (work.cpp), what Scanner::isValidJobDirectory lets through              *)
(* (scanner.cpp), and what Processor::process makes of the input files.    *)
(* Four pieces of code decide, each with its own rules, whether a prompt   *)
(* may be empty or how long it may be and which files a job type comes     *)
(* with; nothing but the files passes from one to the next.                *)
(*                                                                         *)
(* A call of wrk submits at most one job.  generateId gives every call an  *)
(* id of its own (time, pid and a counter), so the call stands for the id. *)
(* File contents are classes: the size of a prompt, the number of media    *)
(* files, where a grammar came from; "torn" is a file whose write failed.  *)
(***************************************************************************)
EXTENDS Naturals

CONSTANTS
    Call,         \* invocations of wrk, and the ids they generate
    MaxMedia,     \* bound: media files of one call
    DaemonReads,  \* prompt sizes within the daemon's NRVNA_MAX_PROMPT_SIZE
    MaxFaults     \* bound: failing file operations in one behaviour

\* "long" exceeds a lowered NRVNA_MAX_PROMPT_SIZE, "huge" the limit of Work.
Prompt == {"empty", "short", "long", "huge"}

ASSUME SubmissionAssumption ==
    /\ MaxMedia \in Nat \ {0}
    /\ MaxFaults \in Nat
    /\ DaemonReads \subseteq Prompt \ {"huge"}
    /\ "empty" \in DaemonReads

JobType == {"text", "vision", "embed", "tts", "stt"}

\* What a command line asks for; files says what is wrong with the schema or
\* the grammar, and usable whether the media pass validateImagePath (or Audio).
Options ==
    [modes: SUBSET {"embed", "tts", "stt"}, prompt: Prompt,
     images: 0..MaxMedia, audio: 0..MaxMedia, usable: BOOLEAN,
     structured: SUBSET {"schema", "grammar"},
     files: {"good", "unreadable", "oversized"}]

VARIABLES
    pc,        \* pc[c]: the next step of call c
    asked,     \* asked[c]: the options of c
    sources,   \* the calls whose media files are still where they were
    hasReady,  \* input/ready exists
    place,     \* place[c]: where the job directory of c is
    staged,    \* staged[c]: the files in it
    told,      \* told[c]: what c has printed
    verdict,   \* verdict[c]: what the worker made of the inputs
    litter,    \* the calls that left a directory to a failed operation (history)
    faults

vars == <<pc, asked, sources, hasReady, place, staged, told, verdict, litter,
          faults>>

\* In the order of a call that goes well, then the ways out of it.
CallPC == {"start", "open", "check", "directory", "prompt", "media", "type",
           "structured", "meta", "publish", "answer", "cleanup", "over",
           "killed"}

PromptFile == Prompt \cup {"none", "torn"}
GrammarFile == {"none", "torn", "schema", "grammar"}

Files == [prompt: PromptFile, images: 0..MaxMedia, audio: 0..MaxMedia,
          type: JobType \cup {"none", "torn"}, grammar: GrammarFile,
          meta: {"none", "torn", "plain", "structured"}]

NoFiles == [prompt |-> "none", images |-> 0, audio |-> 0, type |-> "none",
            grammar |-> "none", meta |-> "none"]

\* A job as a worker runs it: its type, prompt, media and grammar, and whether
\* a file operation failed while the worker read them (history).
Run == [as: JobType \cup {"unread", "refused"}, prompt: PromptFile,
        images: 0..MaxMedia, audio: 0..MaxMedia, grammar: GrammarFile,
        misread: BOOLEAN]

NoRun(why) == [as |-> why, prompt |-> "none", images |-> 0, audio |-> 0,
               grammar |-> "none", misread |-> FALSE]

NothingAsked == [modes |-> {}, prompt |-> "empty", images |-> 0, audio |-> 0,
                 usable |-> TRUE, structured |-> {}, files |-> "good"]

TypeOK ==
    /\ pc \in [Call -> CallPC]
    /\ asked \in [Call -> Options]
    /\ sources \subseteq Call
    /\ hasReady \in BOOLEAN
    /\ place \in [Call -> {"none", "writing", "ready", "processing"}]
    /\ staged \in [Call -> Files]
    /\ told \in [Call -> {"nothing", "id", "error"}]
    /\ verdict \in [Call -> Run]
    /\ litter \subseteq Call
    /\ faults \in 0..MaxFaults

\* The workspace may be missing: wrk creates it.
Init ==
    /\ pc = [c \in Call |-> "start"]
    /\ asked = [c \in Call |-> NothingAsked]
    /\ sources = Call
    /\ hasReady \in BOOLEAN
    /\ place = [c \in Call |-> "none"]
    /\ staged = [c \in Call |-> NoFiles]
    /\ told = [c \in Call |-> "nothing"]
    /\ verdict = [c \in Call |-> NoRun("unread")]
    /\ litter = {}
    /\ faults = 0
-----------------------------------------------------------------------------
(***************************************************************************)
(* The rules of wrk, and those that Work applies again.                    *)
(***************************************************************************)

TypeOf(o) ==
    IF "tts" \in o.modes THEN "tts"
    ELSE IF "stt" \in o.modes THEN "stt"
    ELSE IF "embed" \in o.modes THEN "embed"
    ELSE IF o.images > 0 THEN "vision"
    ELSE "text"

MayBeEmpty(type, images, audio) ==
    (type = "embed" /\ images > 0) \/ (type = "stt" /\ audio > 0)

\* wrk.cpp's own checks of the command line.
Consistent(o) ==
    /\ o.modes \in {{}, {"embed"}, {"tts"}, {"stt"}}
    /\ o.audio > 0 <=> o.modes = {"stt"}
    /\ o.prompt = "empty" => MayBeEmpty(TypeOf(o), o.images, o.audio)
    /\ o.modes \in {{"tts"}, {"stt"}} => o.images = 0
    /\ o.structured \in {{}, {"schema"}, {"grammar"}}
    /\ o.structured # {} => o.modes = {}

\* readStructuredFile, and the conversion of a schema to a grammar, which may
\* come out larger than the file was.
StructuredRead(o) ==
    \/ o.structured = {}
    \/ o.files = "good"
    \/ o.files = "oversized" /\ o.structured = {"schema"}

\* validStructuredOutput in Work::submit.
ValidStructuredOutput(o) ==
    o.structured # {} => TypeOf(o) \in {"text", "vision"} /\ o.files = "good"

\* isValidPrompt, but for the jobs that may go without a prompt.
ValidPrompt(o) ==
    /\ o.prompt # "huge"
    /\ o.prompt = "empty" => MayBeEmpty(TypeOf(o), o.images, o.audio)

MediaCount(o) == o.images + o.audio

\* validateImagePath and validateAudioPath, for every path of the call.
ValidMedia(c) == asked[c].usable /\ c \in sources
-----------------------------------------------------------------------------
(***************************************************************************)
(* A call of wrk, one step per file operation.                             *)
(***************************************************************************)
Fault ==
    /\ faults < MaxFaults
    /\ faults' = faults + 1

Succeed == UNCHANGED faults

Goto(c, label) == pc' = [pc EXCEPT ![c] = label]

Place(c, where) == place' = [place EXCEPT ![c] = where]

Stage(c, field, content) ==
    staged' = [staged EXCEPT ![c] = [@ EXCEPT ![field] = content]]

\* wrk ends with an error message and exit code 1.
Fail(c) ==
    /\ Goto(c, "over")
    /\ told' = [told EXCEPT ![c] = "error"]

\* The command line is read and checked, and so are the files it names.  A
\* malformed argument ends the call whatever the others say.
Invoke(c) ==
    /\ pc[c] = "start"
    /\ \/ /\ \E o \in Options :
              /\ Consistent(o) /\ StructuredRead(o)
              /\ asked' = [asked EXCEPT ![c] = o]
          /\ Goto(c, "open")
          /\ UNCHANGED told
       \/ Fail(c) /\ UNCHANGED asked
    /\ UNCHANGED <<sources, hasReady, place, staged, verdict, litter, faults>>

\* The constructor of Work: a failure is only logged.
CreateWorkspace(c) ==
    /\ pc[c] = "open"
    /\ Goto(c, "check")
    /\ \/ hasReady' = TRUE /\ Succeed
       \/ Fault /\ UNCHANGED hasReady
    /\ UNCHANGED <<asked, sources, place, staged, told, verdict, litter>>

Checked(c, valid) ==
    /\ pc[c] = "check"
    /\ IF valid THEN Goto(c, "directory") /\ UNCHANGED told ELSE Fail(c)
    /\ UNCHANGED <<asked, sources, hasReady, place, staged, verdict, litter,
                   faults>>

Submit(c) ==
    LET o == asked[c] IN
    /\ o.modes # {"stt"}
    /\ Checked(c, /\ ValidStructuredOutput(o)
                  /\ ValidPrompt(o)
                  /\ o.images > 0 => ValidMedia(c))

SubmitAudio(c) ==
    LET o == asked[c] IN
    /\ o.modes = {"stt"}
    /\ Checked(c, /\ o.structured = {}
                  /\ o.prompt # "huge"
                  /\ o.audio > 0
                  /\ ValidMedia(c))

\* A failure need not leave nothing behind: the directory is made and cannot be
\* looked at, and nobody cleans up after createJobDirectory.
CreateJobDirectory(c) ==
    /\ pc[c] = "directory"
    /\ \/ /\ Place(c, "writing") /\ Goto(c, "prompt") /\ Succeed
          /\ UNCHANGED <<told, litter>>
       \/ /\ Fail(c) /\ Fault
          /\ \/ UNCHANGED <<place, litter>>
             \/ Place(c, "writing") /\ litter' = litter \cup {c}
    /\ UNCHANGED <<asked, sources, hasReady, staged, verdict>>

\* A write that fails leaves a torn file and sends the call to its clean-up.
Write(c, field, content, next) ==
    /\ \/ Stage(c, field, content) /\ Goto(c, next) /\ Succeed
       \/ Stage(c, field, "torn") /\ Goto(c, "cleanup") /\ Fault
    /\ UNCHANGED <<asked, sources, hasReady, place, told, verdict, litter>>

\* Mutant of AfterMedia: only a job with media files gets a type.txt.
TypeForMediaOnly(o) == IF MediaCount(o) = 0 THEN "structured" ELSE "type"

\* The order of the writes: a text job has no type.txt, and an audio job no
\* structured output.
AfterMedia(o) == IF TypeOf(o) = "text" THEN "structured" ELSE "type"
AfterType(o) == IF TypeOf(o) = "stt" THEN "meta" ELSE "structured"

WritePromptFile(c) ==
    /\ pc[c] = "prompt"
    /\ Write(c, "prompt", asked[c].prompt,
             IF MediaCount(asked[c]) > 0 THEN "media" ELSE AfterMedia(asked[c]))

\* writeImageFiles and writeAudioFiles copy the files one after the other; a
\* file that has gone since the check fails the submission.
CopyMedia(c, field) ==
    LET have == staged[c][field] IN
    /\ pc[c] = "media"
    /\ have < asked[c][field]
    /\ \/ /\ c \in sources
          /\ Stage(c, field, have + 1)
          /\ IF have + 1 = asked[c][field] THEN Goto(c, "type") ELSE UNCHANGED pc
          /\ Succeed
       \/ /\ IF c \in sources THEN Fault ELSE Succeed
          /\ Goto(c, "cleanup")
          /\ UNCHANGED staged
    /\ UNCHANGED <<asked, sources, hasReady, place, told, verdict, litter>>

WriteTypeFile(c) ==
    /\ pc[c] = "type"
    /\ Write(c, "type", TypeOf(asked[c]), AfterType(asked[c]))

\* schema.json is for the reader of the workspace; a worker has the grammar.
WriteStructuredOutputFiles(c) ==
    /\ pc[c] = "structured"
    /\ IF asked[c].structured # {}
       THEN Write(c, "grammar", CHOOSE x \in asked[c].structured : TRUE, "meta")
       ELSE /\ Goto(c, "meta")
            /\ UNCHANGED <<asked, sources, hasReady, place, staged, told,
                           verdict, litter, faults>>

\* Mutant of WriteMetaFile: the mode stands where the output format belongs.
WriteModeAsFormat(c) ==
    /\ pc[c] = "meta"
    /\ Write(c, "meta", TypeOf(asked[c]), "publish")

WriteMetaFile(c) ==
    /\ pc[c] = "meta"
    /\ Write(c, "meta",
             IF asked[c].structured = {} THEN "plain" ELSE "structured",
             "publish")

\* Mutant of AtomicPublish: a failed rename is reported and nothing else.
PublishWithoutCleanup(c) ==
    /\ pc[c] = "publish"
    /\ IF hasReady
       THEN Place(c, "ready") /\ Goto(c, "answer") /\ UNCHANGED told
       ELSE Fail(c) /\ UNCHANGED place
    /\ UNCHANGED <<asked, sources, hasReady, staged, verdict, litter, faults>>

\* Mutant of AtomicPublish: the rename's error code is not looked at.
PublishUnchecked(c) ==
    /\ pc[c] = "publish"
    /\ Goto(c, "answer")
    /\ IF hasReady THEN Place(c, "ready") ELSE UNCHANGED place
    /\ UNCHANGED <<asked, sources, hasReady, staged, told, verdict, litter,
                   faults>>

AtomicPublish(c) ==
    /\ pc[c] = "publish"
    /\ \/ hasReady /\ Place(c, "ready") /\ Goto(c, "answer") /\ Succeed
       \/ /\ IF hasReady THEN Fault ELSE Succeed
          /\ Goto(c, "cleanup")
          /\ UNCHANGED place
    /\ UNCHANGED <<asked, sources, hasReady, staged, told, verdict, litter>>

\* remove_all reports its errors to a variable that nobody looks at.
CleanupFailedJob(c) ==
    /\ pc[c] = "cleanup"
    /\ Fail(c)
    /\ \/ Place(c, "none") /\ Succeed /\ UNCHANGED litter
       \/ Fault /\ litter' = litter \cup {c} /\ UNCHANGED place
    /\ UNCHANGED <<asked, sources, hasReady, staged, verdict>>

\* The id on standard output is all that wrk prints when it succeeds.
Answer(c) ==
    /\ pc[c] = "answer"
    /\ Goto(c, "over")
    /\ told' = [told EXCEPT ![c] = "id"]
    /\ UNCHANGED <<asked, sources, hasReady, place, staged, verdict, litter,
                   faults>>

CallStep(c) ==
    \/ Invoke(c)
    \/ CreateWorkspace(c)
    \/ Submit(c)
    \/ SubmitAudio(c)
    \/ CreateJobDirectory(c)
    \/ WritePromptFile(c)
    \/ \E field \in {"images", "audio"} : CopyMedia(c, field)
    \/ WriteTypeFile(c)
    \/ WriteStructuredOutputFiles(c)
    \/ WriteMetaFile(c)
    \/ AtomicPublish(c)
    \/ CleanupFailedJob(c)
    \/ Answer(c)
-----------------------------------------------------------------------------
(***************************************************************************)
(* What happens to a call from outside: it is killed, or the files it      *)
(* names are removed after it was started.                                 *)
(***************************************************************************)
Running(c) == pc[c] \notin {"start", "over", "killed"}

Kill(c) ==
    /\ Running(c)
    /\ Goto(c, "killed")
    /\ UNCHANGED <<asked, sources, hasReady, place, staged, told, verdict,
                   litter, faults>>

Vanish(c) ==
    /\ Running(c)
    /\ c \in sources
    /\ MediaCount(asked[c]) > 0
    /\ sources' = sources \ {c}
    /\ UNCHANGED <<pc, asked, hasReady, place, staged, told, verdict, litter,
                   faults>>
-----------------------------------------------------------------------------
(***************************************************************************)
(* The daemon's side: which directories of ready/ the scanner passes on,   *)
(* and what a worker reads from the one it has claimed.  The races for a   *)
(* job and its way to an end are in Dispatch and JobPipeline.              *)
(***************************************************************************)

\* Mutant of EmptyPromptAllowed: only embeddings may go without a prompt.
EmptyPromptForImagesOnly(f) == f.type = "embed" /\ f.images > 0

\* In an empty prompt.txt's case the scanner looks at type.txt, too.  Every
\* torn or unknown type is a text job to it (parseJobType).
EmptyPromptAllowed(f) == MayBeEmpty(f.type, f.images, f.audio)

\* isValidJobDirectory; a torn prompt is taken for a short one.
ValidJobDirectory(f) ==
    /\ f.prompt \in DaemonReads \cup {"torn"}
    /\ f.prompt = "empty" => EmptyPromptAllowed(f)

\* Scanner::scan and the worker's claim.
Claim(c) ==
    /\ hasReady
    /\ place[c] = "ready"
    /\ ValidJobDirectory(staged[c])
    /\ Place(c, "processing")
    /\ UNCHANGED <<pc, asked, sources, hasReady, staged, told, verdict, litter,
                   faults>>

ReadPrompt(f) == f.prompt \in DaemonReads \cup {"torn"}

\* An empty grammar file, or none where meta.json names an output format.
ReadGrammar(f) == ~(f.meta = "structured" /\ f.grammar = "none")

\* No type.txt means text (readJobType, tryParseJobType).
ReadJobType(f) == IF f.type = "none" THEN "text" ELSE f.type

Readable(f) ==
    /\ ReadPrompt(f)
    /\ ReadGrammar(f)
    /\ ReadJobType(f) # "torn"
    /\ f.prompt = "empty" => MayBeEmpty(ReadJobType(f), f.images, f.audio)

\* The branches of process: by type, then by whether there are images.
Route(f) ==
    LET type == ReadJobType(f) IN
    IF type \in {"tts", "stt", "embed"} THEN type
    ELSE IF f.images > 0 THEN "vision" ELSE "text"

\* What reads that fail make of the files of f.  readImages and readAudio
\* return what they have listed so far; a type.txt or a grammar that cannot be
\* looked at counts as none, one that cannot be opened as "torn", which refuses
\* the job as a prompt that cannot be read does.
MisreadFiles(f) ==
    [prompt: {f.prompt, "none"}, images: 0..f.images, audio: 0..f.audio,
     type: {f.type, "none", "torn"}, grammar: {f.grammar, "none"},
     meta: {f.meta, "none"}]

\* What process goes on with, once it has read f.
Outcome(f, misread) ==
    IF Readable(f)
    THEN [as |-> Route(f), prompt |-> f.prompt, images |-> f.images,
          audio |-> f.audio, grammar |-> f.grammar, misread |-> misread]
    ELSE [NoRun("refused") EXCEPT !.misread = misread]

\* One Fault stands for all the reads that fail together.
Process(c) ==
    /\ place[c] = "processing"
    /\ verdict[c] = NoRun("unread")
    /\ \/ /\ verdict' = [verdict EXCEPT ![c] = Outcome(staged[c], FALSE)]
          /\ Succeed
       \/ /\ \E f \in MisreadFiles(staged[c]) :
                verdict' = [verdict EXCEPT ![c] = Outcome(f, TRUE)]
          /\ Fault
    /\ UNCHANGED <<pc, asked, sources, hasReady, place, staged, told, litter>>

Next ==
    \E c \in Call :
        \/ CallStep(c)
        \/ Kill(c)
        \/ Vanish(c)
        \/ Claim(c)
        \/ Process(c)

\* The scanner passes every second, and a worker reads what it has claimed.
Fairness == \A c \in Call : WF_vars(Claim(c)) /\ WF_vars(Process(c))

Spec == Init /\ [][Next]_vars /\ Fairness
-----------------------------------------------------------------------------
\* The job that the options of a call describe.
Wanted(o) ==
    [as |-> IF o.modes # {} THEN CHOOSE m \in o.modes : TRUE
            ELSE IF o.images > 0 THEN "vision" ELSE "text",
     prompt |-> o.prompt, images |-> o.images, audio |-> o.audio,
     grammar |-> IF o.structured = {} THEN "none"
                 ELSE CHOOSE x \in o.structured : TRUE,
     misread |-> FALSE]

(***************************************************************************)
(* Every published job is run, and as what was asked for: the same type    *)
(* and prompt, all of its media, its grammar.  The rules of wrk, Work, the *)
(* scanner and the worker agree ("Jobs must remain self-contained after    *)
(* submission", work.cpp:399), whoever dies and whatever fails meanwhile.  *)
(* The exception is a job whose files the worker itself could not read: it *)
(* may run with fewer media files, or as another type.                     *)
(***************************************************************************)
Delivered ==
    \A c \in Call :
        place[c] = "ready" ~> verdict[c] = Wanted(asked[c]) \/ verdict[c].misread

(***************************************************************************)
(* What Delivered rests on, as far as one state shows it.  A job that wrk  *)
(* and Work let through is one that the scanner lets through, unless its   *)
(* prompt is beyond a limit that was lowered for the daemon only.          *)
(***************************************************************************)
ReadyIsClaimable ==
    \A c \in Call :
        place[c] = "ready" /\ asked[c].prompt \in DaemonReads =>
            ValidJobDirectory(staged[c])

(***************************************************************************)
(* A worker never refuses a job that it has been given, nor runs it as     *)
(* anything but what was asked for, whatever limit the daemon has, unless  *)
(* a file operation failed while it read the job.                          *)
(***************************************************************************)
RunAsAsked ==
    \A c \in Call :
        verdict[c] \in {NoRun("unread"), Wanted(asked[c])} \/ verdict[c].misread

(***************************************************************************)
(* The rules of wrk, Work, the scanner and the worker agree on every job   *)
(* that is published, whatever its files have gone through.                *)
(***************************************************************************)
RulesAgree == ReadyIsClaimable /\ RunAsAsked

(***************************************************************************)
(* Seen from outside, a submission is the beginning of JobStates: a job is *)
(* published once, by one step, and is not taken back by a clean-up, a     *)
(* dying wrk or a file that vanishes.                                      *)
(***************************************************************************)
StateOf == [none |-> "staging", writing |-> "staging", ready |-> "queued",
            processing |-> "running"]

Promise == INSTANCE JobStates
    WITH Job <- Call,
         MaxRecovery <- 0,
         state <- [c \in Call |-> StateOf[place[c]]],
         runs <- [c \in Call |-> IF place[c] = "processing" THEN 1 ELSE 0]

KeepsPromise == Promise!Spec

(***************************************************************************)
(* The exit of wrk is the truth: with an id the job is published, with an  *)
(* error it is not and never will be (wrk.cpp:303-311).  A caller that     *)
(* retries after an error does not run the job twice.                      *)
(***************************************************************************)
AnswerIsTrue ==
    \A c \in Call :
        /\ told[c] = "id" => place[c] \in {"ready", "processing"}
        /\ told[c] = "error" => place[c] \in {"none", "writing"}

(***************************************************************************)
(* Nothing is left in input/writing/ but what a running wrk is staging, or *)
(* what a killed one, a failed clean-up or a createJobDirectory that could *)
(* not look at its own directory has left: no error path after that one    *)
(* forgets cleanupFailedJob.                                               *)
(***************************************************************************)
StagingIsOwned ==
    \A c \in Call :
        place[c] = "writing" => Running(c) \/ pc[c] = "killed" \/ c \in litter
=============================================================================
