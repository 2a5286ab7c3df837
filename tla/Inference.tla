------------------------------ MODULE Inference ------------------------------
(***************************************************************************)
(* What happens between the inputs of a job and its output: the runners of *)
(* the workers (runner.cpp, runner_tts.cpp), from the loading of the       *)
(* models that all of them share to the answer of each run.                *)
(*                                                                         *)
(* A run takes a context of its own, sized from the length of its prompt   *)
(* and from the configured limits, reads the prompt into it and generates  *)
(* until the model ends the text or a limit is reached.  Runs with images  *)
(* or audio pass through one section that a mutex keeps to one worker.     *)
(*                                                                         *)
(* llama.cpp and mtmd are outside: each call of theirs may fail, and a     *)
(* call with more tokens than the context has a batch for ends the         *)
(* process.  Tokens are counted, not looked at.                            *)
(***************************************************************************)
EXTENDS Integers, FiniteSets

CONSTANTS
    Worker,
    Nobody,        \* not a worker: nobody holds the mutex
    Kinds,         \* the kinds of run that are asked for
    PromptSizes,   \* token counts of the prompts
    TrainCtx,      \* the context the model is trained for
    MaxCtx,        \* the smaller of NRVNA_MAX_CTX and TrainCtx
    Overhead,      \* kContextOverhead
    Predict,       \* NRVNA_PREDICT
    SttPredict,    \* NRVNA_STT_PREDICT
    TtsPredict,    \* NRVNA_PREDICT as TtsRunner reads it
    Batch,         \* NRVNA_BATCH
    VisionBatch,   \* NRVNA_BATCH as embedVision reads it
    TtsBatch,      \* NRVNA_BATCH as TtsRunner reads it
    UBatch,        \* NRVNA_UBATCH
    Slack, Floor,  \* the 8 and the 128 of embedVision's context
    Word           \* 2^32: n_ctx is a uint32_t

Kind == {"text", "vision", "stt", "embed", "embedVision", "tts"}

Media == {"vision", "stt", "embedVision"}
Embedding == {"embed", "embedVision"}
Generating == {"text", "vision", "stt"}  \* with the options of buildSamplingConfig

\* NRVNA_BATCH is read in three ways, of different defaults.  embedVision reads
\* it, and runStt reads NRVNA_STT_PREDICT, with env_int, which lets zero and
\* negative numbers through.
ASSUME InferenceAssumption ==
    /\ Nobody \notin Worker
    /\ Kinds \subseteq Kind
    /\ PromptSizes \subseteq Nat \ {0}
    /\ TrainCtx \in Nat
    /\ MaxCtx \in 1 .. TrainCtx
    /\ Overhead \in Nat
    /\ Predict \in Nat \ {0}
    /\ SttPredict \in Int
    /\ TtsPredict \in Nat \ {0}
    /\ Batch \in Nat \ {0}
    /\ VisionBatch \in Int
    /\ TtsBatch \in Nat \ {0}
    /\ UBatch \in Nat \ {0}
    /\ Slack \in Nat
    /\ Floor \in Nat
    /\ Word \in Nat
    /\ Word + SttPredict >= 0

VARIABLES
    stage,     \* how far Server::start has come with the models; "aborted"
               \* when the library has ended the process
    start,     \* how decoding starts: "prompt" in a model without encoder, else
               \* the start token of the decoder, "zero" when its id is 0
    projector, \* the workers whose multimodal context was created
    pc,        \* pc[w]: the next step of the run of worker w
    run,       \* run[w]: what that run has asked for, read, made and allocated
    holder     \* the holder of vision_encoding_mutex_

loadVars == <<stage, start, projector>>
vars == <<stage, start, projector, pc, run, holder>>

RunPC == {"unmade", "idle", "media", "tokenize", "context", "sampler",
          "encode", "start", "prompt", "lock", "eval", "generate", "vocode",
          "embedding", "ended"}

Resource == {"bitmaps", "chunks", "context", "sampler"}

Run == [kind    : Kind,
        size    : Nat,             \* n_prompt
        ctx     : Nat,             \* n_ctx of its context
        batch   : Nat,             \* n_batch of its context
        predict : Int,             \* the most tokens it may generate
        left    : Nat,             \* prompt tokens the model has not read
        past    : Nat,             \* tokens in the context
        made    : Nat,             \* tokens generated
        owned   : SUBSET Resource, \* what it has allocated and not freed
        result  : {"none", "ok", "error"}]

Fresh(k) ==
    [kind |-> k, size |-> 0, ctx |-> 0, batch |-> 0, predict |-> 0, left |-> 0,
     past |-> 0, made |-> 0, owned |-> {}, result |-> "none"]

TypeOK ==
    /\ stage \in {"model", "runners", "tts", "serving", "failed", "aborted"}
    /\ start \in {"prompt", "zero", "token"}
    /\ projector \subseteq Worker
    /\ pc \in [Worker -> RunPC]
    /\ run \in [Worker -> Run]
    /\ holder \in Worker \cup {Nobody}

Init ==
    /\ stage = "model"
    /\ start \in {"prompt", "zero", "token"}
    /\ projector = {}
    /\ pc = [w \in Worker |-> "unmade"]
    /\ run = [w \in Worker |-> Fresh("text")]
    /\ holder = Nobody
-----------------------------------------------------------------------------
(***************************************************************************)
(* Server::start makes a Runner and, with a vocoder, a TtsRunner for every *)
(* worker, one after the other and before a worker thread exists.  The     *)
(* first of each loads what the others share.                              *)
(***************************************************************************)

\* Loading fails, or the file of NRVNA_CHAT_TEMPLATE_FILE cannot be read: the
\* daemon does not start.
LoadModel ==
    /\ stage = "model"
    /\ stage' \in {"runners", "failed"}
    /\ UNCHANGED <<start, projector, pc, run, holder>>

\* Without a projector, or with one that does not load, a worker is text-only.
MakeRunner(w) ==
    /\ stage = "runners"
    /\ pc[w] = "unmade"
    /\ pc' = [pc EXCEPT ![w] = "idle"]
    /\ projector' \in {projector, projector \cup {w}}
    /\ stage' = IF \A v \in Worker \ {w} : pc[v] # "unmade" THEN "tts" ELSE stage
    /\ UNCHANGED <<start, run, holder>>

\* The speech model and the vocoder, when the daemon has one, load and have the
\* special tokens that speech needs; otherwise the daemon does not start.
LoadTts ==
    /\ stage = "tts"
    /\ stage' \in {"serving", "failed"}
    /\ UNCHANGED <<start, projector, pc, run, holder>>
-----------------------------------------------------------------------------
(***************************************************************************)
(* The budget of a run: whether a prompt of n tokens is accepted, how much *)
(* may be generated, and the context and batch to ask for.                 *)
(***************************************************************************)
AtMost(m, n) == IF m <= n THEN m ELSE n
AtLeast(m, n) == IF m >= n THEN m ELSE n

Limit(k) == IF k = "stt" THEN SttPredict ELSE Predict

\* max_predict of runText, runVision and runStt.
Room(n) == MaxCtx - n - Overhead

TtsCtx(n) == AtMost(n + TtsPredict, MaxCtx)

\* embedVision accepts every prompt.
Accepts(k, n) ==
    /\ k \in Generating => Room(n) > 0
    /\ k = "embed" => n + 1 <= MaxCtx
    /\ k = "tts" => n < TtsCtx(n)

PredictOf(k, n) ==
    IF k \in Generating THEN AtMost(Limit(k), Room(n))
    ELSE IF k = "tts" THEN AtMost(TtsPredict, TtsCtx(n) - n)
    ELSE 0

\* n_ctx of the parameters, an unsigned number of which 0 asks for the context
\* of the model.
Asked(c) == IF c < 0 THEN c + Word ELSE IF c = 0 THEN TrainCtx ELSE c

\* Mutant of CtxOf: the context is sized for the prompt and the overhead.
CtxWithoutPrediction(k, n) ==
    IF k \in Generating THEN AtMost(n + Overhead, MaxCtx)
    ELSE IF k = "tts" THEN TtsCtx(n)
    ELSE IF k = "embed" THEN n + 1
    ELSE AtLeast(n + Slack, Floor)

CtxOf(k, n) ==
    IF k \in Generating
    THEN Asked(AtMost(n + PredictOf(k, n) + Overhead, MaxCtx))
    ELSE IF k = "tts" THEN TtsCtx(n)
    ELSE IF k = "embed" THEN n + 1
    ELSE AtLeast(n + Slack, Floor)

BatchOf(k, n) ==
    IF k = "tts" THEN AtMost(TtsCtx(n), TtsBatch)
    ELSE IF k = "embed" THEN n
    ELSE IF k = "embedVision" THEN AtLeast(1, AtMost(n, VisionBatch))
    ELSE AtMost(n, Batch)
-----------------------------------------------------------------------------
(***************************************************************************)
(* What a return frees.  Every kind of run owns what it allocates through  *)
(* destructors, except embedVision, which frees by hand on each path.  Its *)
(* catch block frees a context a second time when memory runs out after    *)
(* the first time (runner.cpp:664); running out of memory is left out.     *)
(***************************************************************************)

\* Mutant of FreedByHand: the context is forgotten when evaluation fails.
FreedButContext ==
    [media     |-> {},
     tokenize  |-> {"bitmaps", "chunks"},
     context   |-> {"bitmaps", "chunks"},
     eval      |-> {"bitmaps", "chunks"},
     embedding |-> {"context"}]

FreedByHand ==
    [media     |-> {},
     tokenize  |-> {"bitmaps", "chunks"},
     context   |-> {"bitmaps", "chunks"},
     eval      |-> {"bitmaps", "chunks", "context"},
     embedding |-> {"context"}]

Freed(w) == IF run[w].kind = "embedVision" THEN FreedByHand[pc[w]] ELSE Resource

\* Run w returns from the step it is at.
Finish(w, result) ==
    /\ pc' = [pc EXCEPT ![w] = "ended"]
    /\ run' = [run EXCEPT ![w].result = result,
                          ![w].owned = @ \ Freed(w)]

\* A call of the library fails: the run returns an error.
Fail(w) == Finish(w, "error")

Step(w, next, r) ==
    /\ pc' = [pc EXCEPT ![w] = next]
    /\ run' = [run EXCEPT ![w] = r]
-----------------------------------------------------------------------------
(***************************************************************************)
(* The steps of a run.                                                     *)
(***************************************************************************)

\* Processor::processJob calls the runner of its worker.  A run with media is
\* refused without a projector, and speech to text with one that has no audio.
Begin(w) ==
    /\ stage = "serving"
    /\ pc[w] = "idle"
    /\ \E k \in Kinds :
          \/ /\ k \in Media => w \in projector
             /\ Step(w, IF k \in Media THEN "media" ELSE "tokenize", Fresh(k))
          \/ /\ k \in Media /\ (w \notin projector \/ k = "stt")
             /\ Step(w, "ended", [Fresh(k) EXCEPT !.result = "error"])
    /\ UNCHANGED <<loadVars, holder>>

\* Loading is all or nothing: a file that fails frees the ones before it.
LoadMedia(w) ==
    /\ pc[w] = "media"
    /\ \/ Step(w, "tokenize", [run[w] EXCEPT !.owned = {"bitmaps"}])
       \/ Fail(w)
    /\ UNCHANGED <<loadVars, holder>>

\* The chat template is applied (it may throw), the prompt tokenized and the
\* budget computed; a prompt that leaves no room is refused.
Tokenize(w) ==
    LET k == run[w].kind
        chunks == IF k \in Media THEN {"chunks"} ELSE {}
    IN  /\ pc[w] = "tokenize"
        /\ \/ Fail(w)
           \/ \E n \in PromptSizes :
                IF Accepts(k, n)
                THEN Step(w, "context",
                          [run[w] EXCEPT !.size = n,
                                         !.left = n,
                                         !.predict = PredictOf(k, n),
                                         !.ctx = CtxOf(k, n),
                                         !.batch = BatchOf(k, n),
                                         !.owned = @ \cup chunks])
                ELSE Finish(w, "error")
        /\ UNCHANGED <<loadVars, holder>>

CreateContext(w) ==
    /\ pc[w] = "context"
    /\ \/ Fail(w)
       \/ Step(w, IF run[w].kind = "embed" THEN "prompt"
                  ELSE IF run[w].kind = "embedVision" THEN "lock"
                  ELSE "sampler",
               [run[w] EXCEPT !.owned = @ \cup {"context"}])
    /\ UNCHANGED <<loadVars, holder>>

\* buildSampler throws when the grammar of the job is no grammar.
MakeSampler(w) ==
    /\ pc[w] = "sampler"
    /\ \/ /\ run[w].kind \in {"text", "vision"}
          /\ Fail(w)
       \/ Step(w, IF run[w].kind \in Media THEN "lock"
                  ELSE IF run[w].kind = "text" /\ start # "prompt"
                  THEN "encode"
                  ELSE "prompt",
               [run[w] EXCEPT !.owned = @ \cup {"sampler"}])
    /\ UNCHANGED <<loadVars, holder>>

\* Mutant of Chunk: the last chunk is as long as the others.
WholeBatches(w) == IF run[w].kind = "text" THEN run[w].batch ELSE run[w].left

\* The tokens of the next llama_decode of the prompt: runText goes by batches,
\* embed and TtsRunner decode the prompt in one call.
Chunk(w) ==
    IF run[w].kind = "text" THEN AtMost(run[w].batch, run[w].left) ELSE run[w].left

\* n_ubatch of the context of runText.
UBatchOf(w) == AtMost(run[w].batch, UBatch)

\* The next call has more tokens than the context was made for: llama_encode
\* requires n_ubatch, llama_decode n_batch, and both assert it.
TooLong(w) ==
    \/ pc[w] = "encode" /\ run[w].size > UBatchOf(w)
    \/ pc[w] = "prompt" /\ Chunk(w) > run[w].batch

\* The assertion fails: the daemon is gone, with every run.
Abort(w) ==
    /\ TooLong(w)
    /\ stage' = "aborted"
    /\ pc' = [v \in Worker |-> "idle"]
    /\ run' = [v \in Worker |-> Fresh("text")]
    /\ holder' = Nobody
    /\ UNCHANGED <<start, projector>>

\* runText on a model with an encoder: the whole prompt in one llama_encode.
\* Then the test for an encoder is decoder_start_token_id != 0.
Encode(w) ==
    /\ pc[w] = "encode"
    /\ ~TooLong(w)
    /\ \/ Fail(w)
       \/ Step(w, IF start = "zero" THEN "prompt" ELSE "start", run[w])
    /\ UNCHANGED <<loadVars, holder>>

DecodeStart(w) ==
    /\ pc[w] = "start"
    /\ \/ Fail(w)
       \/ Step(w, "generate", [run[w] EXCEPT !.left = 0, !.past = 1])
    /\ UNCHANGED <<loadVars, holder>>

DecodePrompt(w) ==
    LET n == Chunk(w)
    IN  /\ pc[w] = "prompt"
        /\ ~TooLong(w)
        /\ \/ Fail(w)
           \/ Step(w, IF n < run[w].left THEN "prompt"
                      ELSE IF run[w].kind = "embed" THEN "embedding"
                      ELSE "generate",
                   [run[w] EXCEPT !.left = @ - n, !.past = @ + n])
        /\ UNCHANGED <<loadVars, holder>>
-----------------------------------------------------------------------------
\* Mutant of TakesLock: the embedding of an image goes without the lock.
TakesLockToGenerate(w) == run[w].kind # "embedVision"

\* Every kind of run with media takes the mutex around the evaluation.
TakesLock(w) == run[w].kind \in Media

Lock(w) ==
    /\ pc[w] = "lock"
    /\ TakesLock(w) => holder = Nobody
    /\ holder' = IF TakesLock(w) THEN w ELSE holder
    /\ pc' = [pc EXCEPT ![w] = "eval"]
    /\ UNCHANGED <<loadVars, run>>

\* Mutant of Unlock: the mutex is released only after a success.
UnlockOnSuccess(w, done) == IF done /\ holder = w THEN Nobody ELSE holder

\* lock_guard: released at the end of its block, by a return too.
Unlock(w, done) == IF holder = w THEN Nobody ELSE holder

\* mtmd_helper_eval_chunks, which goes by batches and fails when the context is
\* full; afterwards the chunks and the media are freed.
Eval(w) ==
    /\ pc[w] = "eval"
    /\ \/ /\ Fail(w)
          /\ holder' = Unlock(w, FALSE)
       \/ /\ run[w].size <= run[w].ctx
          /\ Step(w, IF run[w].kind = "embedVision" THEN "embedding" ELSE "generate",
                  [run[w] EXCEPT !.left = 0,
                                 !.past = run[w].size,
                                 !.owned = @ \ {"bitmaps", "chunks"}])
          /\ holder' = Unlock(w, TRUE)
    /\ UNCHANGED loadVars
-----------------------------------------------------------------------------
\* The model has ended the text or the limit is reached.  A transcript must not
\* be empty; the codes of a speech are filtered, and none may be left.
EndGeneration(w) ==
    \/ /\ run[w].kind # "tts"
       /\ run[w].kind = "stt" => run[w].made > 0
       /\ Finish(w, "ok")
    \/ /\ run[w].kind \in {"stt", "tts"}
       /\ Finish(w, "error")
    \/ /\ run[w].kind = "tts"
       /\ run[w].made > 0
       /\ Step(w, "vocode", [run[w] EXCEPT !.owned = {}])

\* Mutant of Generate: a token without text is skipped and not counted.
GenerateUncounted(w) ==
    /\ pc[w] = "generate"
    /\ \/ EndGeneration(w)
       \/ /\ run[w].made < run[w].predict
          /\ \/ Fail(w)
             \/ Step(w, "generate", [run[w] EXCEPT !.past = @ + 1])
             \/ Step(w, "generate", [run[w] EXCEPT !.past = @ + 1, !.made = @ + 1])
    /\ UNCHANGED <<loadVars, holder>>

\* A decoding error, or a token without text, ends the run with an error and
\* what was generated is dropped.
Generate(w) ==
    /\ pc[w] = "generate"
    /\ \/ EndGeneration(w)
       \/ /\ run[w].made < run[w].predict
          /\ \/ Fail(w)
             \/ Step(w, "generate", [run[w] EXCEPT !.past = @ + 1, !.made = @ + 1])
    /\ UNCHANGED <<loadVars, holder>>

\* A second context, on the vocoder, turns the codes into sound.
Vocode(w) ==
    /\ pc[w] = "vocode"
    /\ \/ Fail(w)
       \/ Finish(w, "ok")
    /\ UNCHANGED <<loadVars, holder>>

\* The embedding of the sequence, or else of its last token; normalized.
GetEmbedding(w) ==
    /\ pc[w] = "embedding"
    /\ \/ Fail(w)
       \/ Finish(w, "ok")
    /\ UNCHANGED <<loadVars, holder>>

\* The result goes to the processor, which goes on with the next job; nothing
\* of the run is kept.
Return(w) ==
    /\ pc[w] = "ended"
    /\ Step(w, "idle", Fresh("text"))
    /\ UNCHANGED <<loadVars, holder>>

RunStep(w) ==
    \/ LoadMedia(w) \/ Tokenize(w) \/ CreateContext(w) \/ MakeSampler(w)
    \/ Encode(w) \/ DecodeStart(w) \/ DecodePrompt(w)
    \/ Eval(w) \/ Generate(w) \/ Vocode(w) \/ GetEmbedding(w) \/ Return(w)

Next ==
    \/ LoadModel \/ LoadTts
    \/ \E w \in Worker :
          MakeRunner(w) \/ Begin(w) \/ Lock(w) \/ RunStep(w) \/ Abort(w)

\* The calls into the library return, or end the process; a mutex goes to
\* whoever asks for it again and again.
Fairness ==
    \A w \in Worker : WF_vars(RunStep(w) \/ Abort(w)) /\ SF_vars(Lock(w))

Spec == Init /\ [][Next]_vars /\ Fairness
-----------------------------------------------------------------------------
(***************************************************************************)
(* Properties.                                                             *)
(***************************************************************************)

\* NRVNA_STT_PREDICT may be so far below zero that a transcript asks for a
\* context without room for its prompt; its evaluation then fails.
Sized(k) == k = "stt" => SttPredict >= -Overhead

\* Tokens that the run may still generate.
ToCome(r) == AtLeast(r.predict - r.made, 0)

\* The context a run asked for holds what it is going to decode: at no step the
\* tokens still to come, those of the prompt and those that may be generated,
\* exceed the room left, and no call decodes more than a batch.  The prompt of a
\* speech, which goes in one call, is the exception (Abort).
TokensFit ==
    \A w \in Worker :
        /\ pc[w] \in {"prompt", "eval", "generate"} /\ Sized(run[w].kind) =>
              run[w].past + run[w].left + ToCome(run[w]) <= run[w].ctx
        /\ pc[w] = "prompt" /\ run[w].kind # "tts" =>
              Chunk(w) \in 1 .. run[w].batch

\* The cap on a context never cuts off what the run was promised: at MaxCtx, too,
\* a generating run has its overhead left after its prompt and the last token it
\* may generate.  Image embeddings, which know no cap, are ContextIsLimited's.
Budgeted == {"context", "sampler", "encode", "start", "prompt", "lock", "eval",
             "generate"}

CapLeavesOverhead ==
    \A w \in Worker :
        pc[w] \in Budgeted /\ run[w].kind # "embedVision" /\ Sized(run[w].kind) =>
            /\ run[w].ctx <= MaxCtx
            /\ run[w].kind \in Generating =>
                  run[w].size + run[w].predict + Overhead <= run[w].ctx

\* The context of a run is large enough at every step for what it has to decode,
\* and the cap on it has taken nothing that the run was promised.
ContextSuffices == TokensFit /\ CapLeavesOverhead

\* No two workers evaluate media at the same time (the compute graph under all
\* multimodal contexts has shared state), whatever the kind of their runs.
OneMediaEncoding ==
    \A v, w \in Worker : pc[v] = "eval" /\ pc[w] = "eval" => v = w

\* A run that has returned has freed its context, its sampler and its media, on
\* every path, the ones that embedVision writes out by hand included.
NothingLeaks == \A w \in Worker : pc[w] = "ended" => run[w].owned = {}

\* Every run returns, or goes down with the daemon: the mutex does not stay with
\* a run that has failed, and generation stops at its limit when the model never
\* ends the text.
EveryRunEnds ==
    \A w \in Worker : pc[w] \notin {"unmade", "idle"} ~> pc[w] = "idle"

\* Between its beginning and its return, no step of a run goes back: each one
\* comes nearer to the end or, in the two loops, has fewer tokens to go.
Distance ==
    [media |-> 10, tokenize |-> 9, context |-> 8, sampler |-> 7, encode |-> 6,
     start |-> 5, prompt |-> 4, lock |-> 4, eval |-> 3, generate |-> 2,
     vocode |-> 1, embedding |-> 1, ended |-> 0]

ToGo(r) == r.left + (r.predict - r.made)

GoesOn(w) ==
    \/ pc'[w] \in DOMAIN Distance /\ Distance[pc'[w]] < Distance[pc[w]]
    \/ pc'[w] = pc[w] /\ ToGo(run'[w]) \in 0 .. ToGo(run[w]) - 1

NoStepGoesBack ==
    [][stage' # "aborted" =>
          \A w \in Worker : pc[w] \notin {"unmade", "idle", "ended"} =>
              UNCHANGED <<pc[w], run[w]>> \/ GoesOn(w)]_vars

\* "Per-job context limit, capped by the model's trained context"
\* (NRVNA_MAX_CTX, CONFIGURATION.md).
ContextIsLimited == \A w \in Worker : run[w].ctx <= MaxCtx

\* No call is too long for the library: the daemon does not go down with it.
\* That takes batches as large as the context, which they are not by default.
NeverAborts == stage # "aborted"
=============================================================================
