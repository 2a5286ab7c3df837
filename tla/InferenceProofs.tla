--------------------------- MODULE InferenceProofs ---------------------------
(***************************************************************************)
(* Proofs about Inference, for every set of workers, every limit and every *)
(* length of prompt: the types, the fit of the tokens into the context and *)
(* what it takes that they fit into the batches, the one worker at a time  *)
(* in the evaluation of media, that a run frees what it has allocated, and *)
(* that each of its steps brings it nearer to its end.                     *)
(*                                                                         *)
(* The invariant says of each run, by the step it is at, of which kind it  *)
(* may be, what it owns and how much room it has.  It is stated on a step  *)
(* and a run, so that an action of worker w is checked on the new step and *)
(* the new run of w alone; what is left is the mutex.                      *)
(***************************************************************************)
EXTENDS Inference, TLAPS

\* The kinds that come to a step.
KindAt(p, k) ==
    /\ p \in {"media", "lock", "eval"} => k \in Media
    /\ p \in {"sampler", "generate"} => k \in Generating \cup {"tts"}
    /\ p \in {"encode", "start"} => k = "text"
    /\ p = "prompt" => k \in {"text", "embed", "tts"}
    /\ p = "vocode" => k = "tts"
    /\ p = "embedding" => k \in Embedding

\* The room in the context, from the budget of the run to its last token.
Fits(p, r) ==
    /\ p \in {"media", "tokenize"} => r.past = 0 /\ r.made = 0
    /\ p \in Budgeted =>
          /\ r.kind # "stt" => r.made <= r.predict
          /\ Sized(r.kind) => r.past + r.left + ToCome(r) <= r.ctx
    /\ p \in Budgeted \ {"generate"} => r.left >= 1 /\ r.batch >= 1
    /\ p \in {"context", "sampler", "prompt"} =>
          (r.kind = "embed" => r.left <= r.batch)
    /\ p = "prompt" => r.left <= r.size
    /\ p \in {"context", "sampler", "encode", "start", "lock", "eval"} =>
          r.past = 0 /\ r.left = r.size
    /\ p = "generate" => r.left = 0

\* What embedVision, which frees by hand, owns at each step.
Owns(p, r) ==
    /\ p \in {"unmade", "idle", "ended"} => r.owned = {}
    /\ r.kind = "embedVision" =>
          /\ p = "media" => r.owned = {}
          /\ p = "tokenize" => r.owned \subseteq {"bitmaps"}
          /\ p = "context" => r.owned \subseteq {"bitmaps", "chunks"}
          /\ p \in {"lock", "eval"} => r.owned \subseteq {"bitmaps", "chunks", "context"}
          /\ p = "embedding" => r.owned \subseteq {"context"}

Good(p, r) ==
    /\ KindAt(p, r.kind)
    /\ Fits(p, r)
    /\ Owns(p, r)

Exclusion == \A w \in Worker : pc[w] = "eval" => holder = w

IInv ==
    /\ TypeOK
    /\ \A w \in Worker : Good(pc[w], run[w])
    /\ Exclusion
-----------------------------------------------------------------------------
\* The limit of a generating run, which is no natural number of a transcript
\* alone, and what the context has room for.
LEMMA Prediction ==
    ASSUME NEW k \in Generating, NEW n \in Nat \ {0}, Accepts(k, n)
    PROVE  /\ PredictOf(k, n) \in Int
           /\ k # "stt" => PredictOf(k, n) \in Nat
           /\ Sized(k) => n + PredictOf(k, n) + Overhead >= n
           /\ Word + (n + PredictOf(k, n) + Overhead) >= 0
           /\ n + PredictOf(k, n) + Overhead <= MaxCtx
<1> USE InferenceAssumption
<1>1. /\ Room(n) \in Nat \ {0} /\ n + Room(n) + Overhead = MaxCtx
      /\ PredictOf(k, n) = AtMost(Limit(k), Room(n))
  BY DEF Accepts, Room, PredictOf
<1>2. CASE k = "stt"
  <2>1. Limit(k) = SttPredict
    BY <1>2 DEF Limit
  <2> QED BY <1>1, <1>2, <2>1 DEF AtMost, Sized
<1>3. CASE k # "stt"
  <2>1. Limit(k) = Predict
    BY <1>3 DEF Limit
  <2> QED BY <1>1, <1>3, <2>1 DEF AtMost
<1> QED BY <1>2, <1>3

\* The budget of a prompt that is accepted: it and its prediction fit into the
\* context, and the tokens of an embedding into a batch.
LEMMA BudgetFits ==
    ASSUME NEW k \in Kind, NEW n \in Nat \ {0}, Accepts(k, n)
    PROVE  /\ PredictOf(k, n) \in Int
           /\ k # "stt" => PredictOf(k, n) \in Nat
           /\ CtxOf(k, n) \in Nat
           /\ BatchOf(k, n) \in Nat \ {0}
           /\ Sized(k) => n + AtLeast(PredictOf(k, n), 0) <= CtxOf(k, n)
           /\ k = "embed" => n <= BatchOf(k, n)
<1> USE InferenceAssumption
<1> DEFINE p == PredictOf(k, n)
<1>1. CASE k \in Embedding
  <2>1. k = "embed" \/ k = "embedVision"
    BY <1>1 DEF Embedding
  <2>2. p = 0 /\ CtxOf(k, n) \in Nat /\ n <= CtxOf(k, n)
    BY <2>1 DEF PredictOf, CtxOf, Generating, AtLeast
  <2>3. BatchOf(k, n) \in Nat \ {0} /\ (k = "embed" => n <= BatchOf(k, n))
    BY <2>1 DEF BatchOf, AtMost, AtLeast
  <2> QED BY <2>1, <2>2, <2>3 DEF AtLeast
<1>2. CASE k = "tts"
  <2>1. TtsCtx(n) \in Nat /\ TtsCtx(n) <= MaxCtx /\ n < TtsCtx(n)
    BY <1>2 DEF Accepts, TtsCtx, AtMost
  <2>2. /\ p = AtMost(TtsPredict, TtsCtx(n) - n)
        /\ CtxOf(k, n) = TtsCtx(n)
        /\ BatchOf(k, n) = AtMost(TtsCtx(n), TtsBatch)
    BY <1>2 DEF PredictOf, CtxOf, BatchOf, Generating
  <2> QED BY <1>2, <2>1, <2>2 DEF AtMost, AtLeast
<1>3. CASE k \in Generating
  <2>1. /\ p \in Int /\ (k # "stt" => p \in Nat)
        /\ Sized(k) => n + p + Overhead >= n
        /\ Word + (n + p + Overhead) >= 0
        /\ n + p + Overhead <= MaxCtx
    BY <1>3, Prediction
  <2>2. /\ CtxOf(k, n) = Asked(AtMost(n + p + Overhead, MaxCtx))
        /\ BatchOf(k, n) = AtMost(n, Batch)
        /\ k # "embed" /\ k # "tts"
    BY <1>3 DEF CtxOf, BatchOf, Generating
  <2> HIDE DEF p
  <2>3. AtMost(n + p + Overhead, MaxCtx) = n + p + Overhead
    BY <2>1 DEF AtMost
  <2>4. CtxOf(k, n) \in Nat
    BY <2>1, <2>2, <2>3 DEF Asked
  <2>5. Sized(k) => n + AtLeast(p, 0) <= CtxOf(k, n)
    BY <2>1, <2>2, <2>3 DEF Asked, AtLeast
  <2>6. BatchOf(k, n) \in Nat \ {0}
    BY <2>2 DEF AtMost
  <2> QED BY <2>1, <2>2, <2>4, <2>5, <2>6 DEF p
<1> QED BY <1>1, <1>2, <1>3 DEF Kind, Embedding, Generating
-----------------------------------------------------------------------------
\* Run w, and no other, has gone on to a step and a state that are good.
Moved(w) ==
    /\ pc' = [pc EXCEPT ![w] = pc'[w]]
    /\ run' = [run EXCEPT ![w] = run'[w]]
    /\ pc'[w] \in RunPC
    /\ run'[w] \in Run
    /\ Good(pc'[w], run'[w])

LEMMA StepMoves ==
    ASSUME TypeOK, NEW w \in Worker, NEW p \in RunPC, NEW r \in Run,
           Step(w, p, r), Good(p, r)
    PROVE  Moved(w)
BY DEF TypeOK, Step, Moved

\* A return frees all that the run owns, whoever does it.
LEMMA FinishMoves ==
    ASSUME TypeOK, NEW w \in Worker, Good(pc[w], run[w]),
           NEW x \in {"ok", "error"}, Finish(w, x),
           pc[w] \in {"media", "tokenize", "context", "sampler", "encode",
                      "start", "prompt", "eval", "generate", "vocode", "embedding"}
    PROVE  Moved(w)
<1> DEFINE r == [run[w] EXCEPT !.result = x, !.owned = @ \ Freed(w)]
<1>1. run[w] \in Run
  BY DEF TypeOK
<1>2. r \in Run /\ r.owned = run[w].owned \ Freed(w) /\ r.kind = run[w].kind
  BY <1>1 DEF Run
<1>3. run' = [run EXCEPT ![w] = r] /\ pc' = [pc EXCEPT ![w] = "ended"]
  BY <1>1 DEF Finish, TypeOK, Run
<1>4. run[w].owned \ Freed(w) = {}
  <2>1. CASE run[w].kind # "embedVision"
    BY <1>1, <2>1 DEF Freed, Run
  <2>2. CASE run[w].kind = "embedVision"
    <3>1. pc[w] \in {"media", "tokenize", "context", "eval", "embedding"}
      BY <2>2 DEF Good, KindAt, Media, Embedding, Generating
    <3>2. Freed(w) = FreedByHand[pc[w]]
      BY <2>2 DEF Freed
    <3> QED BY <2>2, <3>1, <3>2 DEF Good, Owns, FreedByHand
  <2> QED BY <2>1, <2>2
<1> HIDE DEF r
<1>5. Good("ended", r)
  BY <1>2, <1>4 DEF Good, KindAt, Fits, Owns, Budgeted
<1>6. pc'[w] = "ended" /\ run'[w] = r
  BY <1>3 DEF TypeOK
<1> QED BY <1>2, <1>3, <1>5, <1>6 DEF Moved, RunPC

\* No call decodes more of the prompt than is left, nor, of a text or of an
\* embedding, more than a batch.
LEMMA ChunkFits ==
    ASSUME NEW w \in Worker, run[w] \in Run,
           KindAt("prompt", run[w].kind), Fits("prompt", run[w])
    PROVE  /\ Chunk(w) \in 1 .. run[w].left
           /\ run[w].kind # "tts" => Chunk(w) \in 1 .. run[w].batch
<1>1. run[w].batch \in Nat /\ run[w].left \in Nat
  BY DEF Run
<1>2. /\ run[w].left >= 1 /\ run[w].batch >= 1
      /\ run[w].kind = "embed" => run[w].left <= run[w].batch
      /\ run[w].kind \in {"text", "embed", "tts"}
  BY DEF Fits, KindAt, Budgeted
<1>3. CASE run[w].kind = "text"
  BY <1>1, <1>2, <1>3 DEF Chunk, AtMost
<1>4. CASE run[w].kind # "text"
  BY <1>1, <1>2, <1>4 DEF Chunk
<1> QED BY <1>3, <1>4

\* A run that goes on goes on well, at each of its steps.
LEMMA RunMoves ==
    ASSUME TypeOK, NEW w \in Worker, Good(pc[w], run[w]),
           Begin(w) \/ Lock(w) \/ RunStep(w)
    PROVE  Moved(w)
<1> DEFINE r == run[w]
<1>1. r \in Run /\ r.kind \in Kind
  BY DEF TypeOK, Run
<1>2. \A k \in Kind : Fresh(k) \in Run /\ Fresh(k).kind = k /\ Fresh(k).owned = {}
                      /\ Fresh(k).past = 0 /\ Fresh(k).made = 0
  BY DEF Fresh, Run
<1>a. /\ KindAt(pc[w], r.kind)
      /\ Fits(pc[w], r)
      /\ Owns(pc[w], r)
  BY DEF Good
<1> HIDE DEF r
<1>3. CASE Begin(w)
  <2>1. PICK k \in Kinds :
           \/ Step(w, IF k \in Media THEN "media" ELSE "tokenize", Fresh(k))
           \/ Step(w, "ended", [Fresh(k) EXCEPT !.result = "error"])
    BY <1>3 DEF Begin
  <2>2. k \in Kind /\ Fresh(k) \in Run /\ Fresh(k).kind = k /\ Fresh(k).owned = {}
                      /\ Fresh(k).past = 0 /\ Fresh(k).made = 0
    BY <1>2, InferenceAssumption
  <2>3. CASE Step(w, IF k \in Media THEN "media" ELSE "tokenize", Fresh(k))
    <3> DEFINE q == IF k \in Media THEN "media" ELSE "tokenize"
    <3>1. Good(q, Fresh(k)) /\ q \in RunPC
      BY <2>2 DEF Good, KindAt, Fits, Owns, Budgeted, RunPC
    <3> QED BY <2>2, <2>3, <3>1, StepMoves
  <2>4. CASE Step(w, "ended", [Fresh(k) EXCEPT !.result = "error"])
    <3> DEFINE s == [Fresh(k) EXCEPT !.result = "error"]
    <3>1. s \in Run /\ s.kind = k /\ s.owned = {}
      BY <2>2 DEF Run
    <3> HIDE DEF s
    <3>2. Good("ended", s)
      BY <3>1 DEF Good, KindAt, Fits, Owns, Budgeted
    <3> QED BY <2>4, <3>1, <3>2, StepMoves DEF s, RunPC
  <2> QED BY <2>1, <2>3, <2>4
<1>4. CASE LoadMedia(w)
  <2>1. pc[w] = "media" /\ r.kind \in Media
    BY <1>4, <1>a DEF LoadMedia, KindAt
  <2>2. CASE Fail(w)
    BY <2>1, <2>2, FinishMoves DEF Fail
  <2>3. CASE Step(w, "tokenize", [r EXCEPT !.owned = {"bitmaps"}])
    <3> DEFINE s == [r EXCEPT !.owned = {"bitmaps"}]
    <3>1. s \in Run /\ s.kind = r.kind /\ s.owned = {"bitmaps"}
                      /\ s.past = 0 /\ s.made = 0
      BY <1>1, <1>a, <2>1 DEF Run, Resource, Fits
    <3> HIDE DEF s
    <3>2. Good("tokenize", s)
      BY <3>1 DEF Good, KindAt, Fits, Owns, Budgeted
    <3> QED BY <2>3, <3>1, <3>2, StepMoves DEF s, RunPC
  <2> QED BY <1>4, <2>2, <2>3 DEF LoadMedia, r
<1>5. CASE Tokenize(w)
  <2>1. pc[w] = "tokenize"
    BY <1>5 DEF Tokenize
  <2>2. CASE Fail(w) \/ Finish(w, "error")
    BY <2>1, <2>2, FinishMoves DEF Fail
  <2> DEFINE c == IF r.kind \in Media THEN {"chunks"} ELSE {}
  <2>4. c \subseteq {"chunks"}
    OBVIOUS
  <2>3. ASSUME NEW n \in PromptSizes, Accepts(r.kind, n),
               Step(w, "context",
                    [r EXCEPT !.size = n, !.left = n,
                              !.predict = PredictOf(r.kind, n),
                              !.ctx = CtxOf(r.kind, n),
                              !.batch = BatchOf(r.kind, n),
                              !.owned = @ \cup c])
        PROVE  Moved(w)
    <3> DEFINE s == [r EXCEPT !.size = n, !.left = n,
                              !.predict = PredictOf(r.kind, n),
                              !.ctx = CtxOf(r.kind, n),
                              !.batch = BatchOf(r.kind, n),
                              !.owned = @ \cup c]
    <3>1. n \in Nat \ {0}
      BY InferenceAssumption
    <3>2. /\ PredictOf(r.kind, n) \in Int
          /\ r.kind # "stt" => PredictOf(r.kind, n) \in Nat
          /\ CtxOf(r.kind, n) \in Nat
          /\ BatchOf(r.kind, n) \in Nat \ {0}
          /\ Sized(r.kind) => n + AtLeast(PredictOf(r.kind, n), 0) <= CtxOf(r.kind, n)
          /\ r.kind = "embed" => n <= BatchOf(r.kind, n)
      BY <1>1, <2>3, <3>1, BudgetFits
    <3>3. /\ s \in Run
          /\ s.kind = r.kind /\ s.size = n /\ s.left = n /\ s.past = 0 /\ s.made = 0
          /\ s.predict = PredictOf(r.kind, n)
          /\ s.ctx = CtxOf(r.kind, n)
          /\ s.batch = BatchOf(r.kind, n)
          /\ s.owned = r.owned \cup c
      BY <1>1, <1>a, <2>1, <2>4, <3>1, <3>2 DEF Run, Resource, Fits
    <3> HIDE DEF s
    <3>4. Fits("context", s)
      <4>1. s.made <= s.predict \/ s.kind = "stt"
        BY <3>2, <3>3
      <4>2. ToCome(s) = AtLeast(PredictOf(r.kind, n), 0)
        BY <3>2, <3>3 DEF ToCome, AtLeast
      <4>3. AtLeast(PredictOf(r.kind, n), 0) \in Nat
        BY <3>2 DEF AtLeast
      <4>4. Sized(s.kind) => s.past + s.left + ToCome(s) <= s.ctx
        BY <3>1, <3>2, <3>3, <4>2, <4>3
      <4> QED BY <3>1, <3>2, <3>3, <4>1, <4>4 DEF Fits, Budgeted
    <3>5. KindAt("context", s.kind) /\ Owns("context", s)
      BY <1>a, <2>1, <2>4, <3>3 DEF KindAt, Owns
    <3> QED BY <2>3, <3>3, <3>4, <3>5, StepMoves DEF s, RunPC, Good
  <2> QED BY <1>5, <2>2, <2>3 DEF Tokenize, r
<1>6. CASE CreateContext(w)
  <2> DEFINE q == IF r.kind = "embed" THEN "prompt"
                  ELSE IF r.kind = "embedVision" THEN "lock"
                  ELSE "sampler"
             s == [r EXCEPT !.owned = @ \cup {"context"}]
  <2>1. pc[w] = "context"
    BY <1>6 DEF CreateContext
  <2>2. CASE Fail(w)
    BY <2>1, <2>2, FinishMoves DEF Fail
  <2>3. CASE Step(w, q, s)
    <3>1. /\ s \in Run /\ s.owned = r.owned \cup {"context"} /\ s.kind = r.kind
          /\ s.size = r.size /\ s.ctx = r.ctx /\ s.batch = r.batch
          /\ s.predict = r.predict /\ s.left = r.left /\ s.past = r.past
          /\ s.made = r.made
      BY <1>1 DEF Run, Resource
    <3> HIDE DEF s
    <3>2. q \in RunPC /\ q \in {"prompt", "lock", "sampler"}
      BY DEF RunPC
    <3>3. KindAt(q, s.kind)
      BY <1>1, <3>1 DEF KindAt, Kind, Media, Generating
    <3>4. Fits(q, s)
      BY <1>1, <1>a, <2>1, <3>1, <3>2 DEF Fits, Budgeted, ToCome, Run
    <3>5. Owns(q, s)
      BY <1>a, <2>1, <3>1 DEF Owns
    <3> HIDE DEF q
    <3> QED BY <2>3, <3>1, <3>2, <3>3, <3>4, <3>5, StepMoves DEF Good
  <2> QED BY <1>6, <2>2, <2>3 DEF CreateContext, r
<1>7. CASE MakeSampler(w)
  <2> DEFINE q == IF r.kind \in Media THEN "lock"
                  ELSE IF r.kind = "text" /\ start # "prompt" THEN "encode"
                  ELSE "prompt"
             s == [r EXCEPT !.owned = @ \cup {"sampler"}]
  <2>1. pc[w] = "sampler" /\ r.kind \in {"text", "vision", "stt", "tts"}
    BY <1>7, <1>a DEF MakeSampler, KindAt, Generating
  <2>2. CASE Fail(w)
    BY <2>1, <2>2, FinishMoves DEF Fail
  <2>3. CASE Step(w, q, s)
    <3>1. /\ s \in Run /\ s.kind = r.kind
          /\ s.size = r.size /\ s.ctx = r.ctx /\ s.batch = r.batch
          /\ s.predict = r.predict /\ s.left = r.left /\ s.past = r.past
          /\ s.made = r.made
      BY <1>1 DEF Run, Resource
    <3> HIDE DEF s
    <3>2. q \in RunPC /\ q \in {"prompt", "lock", "encode"}
      BY DEF RunPC
    <3>3. KindAt(q, s.kind)
      BY <2>1, <3>1 DEF KindAt, Media
    <3>4. Fits(q, s)
      BY <1>1, <1>a, <2>1, <3>1, <3>2 DEF Fits, Budgeted, ToCome, Run
    <3>5. Owns(q, s)
      BY <2>1, <3>1, <3>2 DEF Owns
    <3> HIDE DEF q
    <3> QED BY <2>3, <3>1, <3>2, <3>3, <3>4, <3>5, StepMoves DEF Good
  <2> QED BY <1>7, <2>2, <2>3 DEF MakeSampler, r
<1>8. CASE Encode(w)
  <2> DEFINE q == IF start = "zero" THEN "prompt" ELSE "start"
  <2>1. pc[w] = "encode" /\ r.kind = "text"
    BY <1>8, <1>a DEF Encode, KindAt
  <2>2. CASE Fail(w)
    BY <2>1, <2>2, FinishMoves DEF Fail
  <2>3. CASE Step(w, q, r)
    <3>1. q \in RunPC /\ q \in {"prompt", "start"}
      BY DEF RunPC
    <3> HIDE DEF q
    <3>2. Good(q, r)
      BY <1>1, <1>a, <2>1, <3>1 DEF Good, KindAt, Fits, Owns, Budgeted, Run
    <3> QED BY <1>1, <2>3, <3>1, <3>2, StepMoves
  <2> QED BY <1>8, <2>2, <2>3 DEF Encode, r
<1>9. CASE DecodeStart(w)
  <2> DEFINE s == [r EXCEPT !.left = 0, !.past = 1]
  <2>1. pc[w] = "start" /\ r.kind = "text"
    BY <1>9, <1>a DEF DecodeStart, KindAt
  <2>2. CASE Fail(w)
    BY <2>1, <2>2, FinishMoves DEF Fail
  <2>3. CASE Step(w, "generate", s)
    <3>1. /\ s \in Run /\ s.kind = r.kind /\ s.left = 0 /\ s.past = 1
          /\ s.made = r.made /\ s.predict = r.predict /\ s.ctx = r.ctx
      BY <1>1 DEF Run
    <3> HIDE DEF s
    <3>2. Fits("generate", s)
      BY <1>1, <1>a, <2>1, <3>1 DEF Fits, Budgeted, Run, ToCome, AtLeast
    <3>3. Good("generate", s)
      BY <2>1, <3>1, <3>2 DEF Good, KindAt, Owns, Generating
    <3> QED BY <2>3, <3>1, <3>3, StepMoves DEF RunPC
  <2> QED BY <1>9, <2>2, <2>3 DEF DecodeStart, r
<1>10. CASE DecodePrompt(w)
  <2> DEFINE n == Chunk(w)
             q == IF n < r.left THEN "prompt"
                  ELSE IF r.kind = "embed" THEN "embedding"
                  ELSE "generate"
             s == [r EXCEPT !.left = @ - n, !.past = @ + n]
  <2>1. pc[w] = "prompt" /\ r.kind \in {"text", "embed", "tts"}
    BY <1>10, <1>a DEF DecodePrompt, KindAt
  <2>2. CASE Fail(w)
    BY <2>1, <2>2, FinishMoves DEF Fail
  <2>3. CASE Step(w, q, s)
    <3>1. n \in Nat /\ 1 <= n /\ n <= r.left
      BY <1>1, <1>a, <2>1, ChunkFits DEF Run, r
    <3> HIDE DEF n
    <3>a. r.left - n \in Nat /\ r.past + n \in Nat
      BY <1>1, <3>1 DEF Run
    <3>2. /\ s \in Run /\ s.kind = r.kind /\ s.left = r.left - n /\ s.past = r.past + n
          /\ s.made = r.made /\ s.predict = r.predict /\ s.ctx = r.ctx
          /\ s.batch = r.batch /\ s.size = r.size
      BY <1>1, <3>a DEF Run
    <3> HIDE DEF s
    <3>3. /\ q \in RunPC
          /\ q = "prompt" => n < r.left
          /\ q # "prompt" => n = r.left
          /\ q = "embedding" => r.kind = "embed"
          /\ q = "generate" => r.kind \in {"text", "tts"}
          /\ q \in {"prompt", "embedding", "generate"}
      BY <1>1, <2>1, <3>1 DEF RunPC, Run
    <3> HIDE DEF q
    <3>4. Fits(q, s)
      BY <1>1, <1>a, <2>1, <3>1, <3>2, <3>3 DEF Fits, Budgeted, Run, ToCome
    <3>5. KindAt(q, s.kind) /\ Owns(q, s)
      BY <2>1, <3>2, <3>3 DEF KindAt, Owns, Generating, Embedding
    <3> QED BY <2>3, <3>2, <3>3, <3>4, <3>5, StepMoves DEF Good
  <2> QED BY <1>10, <2>2, <2>3 DEF DecodePrompt, r
<1>11. CASE Lock(w)
  <2>1. /\ pc[w] = "lock"
        /\ pc' = [pc EXCEPT ![w] = "eval"] /\ run' = run
    BY <1>11 DEF Lock
  <2>2. pc'[w] = "eval" /\ run'[w] = r
    BY <2>1 DEF TypeOK, r
  <2>3. Good("eval", r)
    BY <1>a, <2>1 DEF Good, KindAt, Fits, Owns, Budgeted
  <2>4. run' = [run EXCEPT ![w] = r]
    BY <2>1 DEF TypeOK, r
  <2> QED BY <1>1, <2>1, <2>2, <2>3, <2>4 DEF Moved, RunPC
<1>12. CASE Eval(w)
  <2> DEFINE q == IF r.kind = "embedVision" THEN "embedding" ELSE "generate"
             s == [r EXCEPT !.left = 0, !.past = r.size,
                            !.owned = @ \ {"bitmaps", "chunks"}]
  <2>1. pc[w] = "eval" /\ r.kind \in Media
    BY <1>12, <1>a DEF Eval, KindAt
  <2>2. CASE Fail(w)
    BY <2>1, <2>2, FinishMoves DEF Fail
  <2>3. CASE Step(w, q, s)
    <3>1. /\ s \in Run /\ s.kind = r.kind /\ s.left = 0 /\ s.past = r.size
          /\ s.made = r.made /\ s.predict = r.predict /\ s.ctx = r.ctx
          /\ s.owned = r.owned \ {"bitmaps", "chunks"}
      BY <1>1 DEF Run
    <3> HIDE DEF s
    <3>2. q \in RunPC /\ q \in {"embedding", "generate"}
      BY DEF RunPC
    <3>3. KindAt(q, s.kind)
      BY <2>1, <3>1 DEF KindAt, Media, Generating, Embedding
    <3>4. Fits(q, s)
      BY <1>1, <1>a, <2>1, <3>1, <3>2 DEF Fits, Budgeted, Run, ToCome
    <3>5. Owns(q, s)
      BY <1>a, <2>1, <3>1 DEF Owns
    <3> HIDE DEF q
    <3> QED BY <2>3, <3>1, <3>2, <3>3, <3>4, <3>5, StepMoves DEF Good
  <2> QED BY <1>12, <2>2, <2>3 DEF Eval, r
<1>13. CASE Generate(w)
  <2>1. pc[w] = "generate" /\ r.kind \in Generating \cup {"tts"}
    BY <1>13, <1>a DEF Generate, KindAt
  <2>2. CASE Finish(w, "ok") \/ Finish(w, "error")
    BY <2>1, <2>2, FinishMoves
  <2>3. CASE r.kind = "tts" /\ Step(w, "vocode", [r EXCEPT !.owned = {}])
    <3> DEFINE s == [r EXCEPT !.owned = {}]
    <3>1. s \in Run /\ s.kind = r.kind
      BY <1>1 DEF Run
    <3> HIDE DEF s
    <3>2. Good("vocode", s)
      BY <2>3, <3>1 DEF Good, KindAt, Fits, Owns, Budgeted
    <3> QED BY <2>3, <3>1, <3>2, StepMoves DEF s, RunPC
  <2>4. CASE /\ r.made < r.predict
             /\ Step(w, "generate", [r EXCEPT !.past = @ + 1, !.made = @ + 1])
    <3> DEFINE s == [r EXCEPT !.past = @ + 1, !.made = @ + 1]
    <3>a. r.past + 1 \in Nat /\ r.made + 1 \in Nat
      BY <1>1 DEF Run
    <3>1. /\ s \in Run /\ s.kind = r.kind /\ s.left = r.left /\ s.past = r.past + 1
          /\ s.made = r.made + 1 /\ s.predict = r.predict /\ s.ctx = r.ctx
      BY <1>1, <3>a DEF Run
    <3> HIDE DEF s
    <3>2. Fits("generate", s)
      BY <1>1, <1>a, <2>1, <2>4, <3>1 DEF Fits, Budgeted, Run, ToCome, AtLeast
    <3>3. Good("generate", s)
      BY <2>1, <3>1, <3>2 DEF Good, KindAt, Owns, Generating
    <3> QED BY <2>4, <3>1, <3>3, StepMoves DEF s, RunPC
  <2> QED BY <1>13, <2>2, <2>3, <2>4 DEF Generate, EndGeneration, Fail, r
<1>14. CASE Vocode(w) \/ GetEmbedding(w)
  BY <1>14, FinishMoves DEF Vocode, GetEmbedding, Fail
<1>15. CASE Return(w)
  <2>1. Step(w, "idle", Fresh("text")) /\ "text" \in Kind
    BY <1>15 DEF Return, Kind
  <2>2. Good("idle", Fresh("text"))
    BY <1>2, <2>1 DEF Good, KindAt, Fits, Owns, Budgeted
  <2> QED BY <1>2, <2>1, <2>2, StepMoves DEF RunPC
<1> QED
  BY <1>3, <1>4, <1>5, <1>6, <1>7, <1>8, <1>9, <1>10, <1>11, <1>12, <1>13,
     <1>14, <1>15 DEF RunStep
-----------------------------------------------------------------------------
LEMMA InitIInv == Init => IInv
<1> SUFFICES ASSUME Init PROVE IInv
  OBVIOUS
<1>1. Fresh("text") \in Run /\ Fresh("text").owned = {} /\ Fresh("text").kind = "text"
  BY DEF Fresh, Run, Kind
<1>2. TypeOK
  BY <1>1 DEF Init, TypeOK, RunPC
<1>3. ASSUME NEW w \in Worker PROVE Good(pc[w], run[w]) /\ pc[w] # "eval"
  BY <1>1 DEF Init, Good, KindAt, Fits, Owns, Budgeted
<1> QED BY <1>2, <1>3 DEF IInv, Exclusion

\* The mutex: to take it is to find it free, to give it up is to have had it.
LEMMA NextIInv == IInv /\ [Next]_vars => IInv'
<1> SUFFICES ASSUME IInv, [Next]_vars PROVE IInv'
  OBVIOUS
<1>1. TypeOK /\ Exclusion /\ \A v \in Worker : Good(pc[v], run[v])
  BY DEF IInv
<1>2. CASE LoadModel \/ LoadTts \/ UNCHANGED vars
  <2>1. pc' = pc /\ run' = run /\ holder' = holder /\ TypeOK'
    BY <1>1, <1>2 DEF LoadModel, LoadTts, vars, TypeOK
  <2> QED BY <1>1, <2>1 DEF IInv, Exclusion
<1>3. ASSUME NEW w \in Worker, MakeRunner(w) PROVE IInv'
  <2>1. /\ pc' = [pc EXCEPT ![w] = "idle"] /\ run' = run /\ holder' = holder
        /\ pc[w] = "unmade"
    BY <1>3 DEF MakeRunner
  <2>2. TypeOK'
    BY <1>1, <1>3 DEF MakeRunner, TypeOK, RunPC
  <2>3. run[w].owned = {}
    BY <1>1, <2>1 DEF Good, Owns
  <2>4. Good("idle", run[w])
    BY <2>3 DEF Good, KindAt, Fits, Owns, Budgeted
  <2>5. \A v \in Worker : Good(pc[v], run[v])'
    BY <1>1, <2>1, <2>4 DEF TypeOK
  <2>6. Exclusion'
    BY <1>1, <2>1 DEF TypeOK, Exclusion
  <2> QED BY <2>2, <2>5, <2>6 DEF IInv
<1>4. ASSUME NEW w \in Worker, Begin(w) \/ Lock(w) \/ RunStep(w) PROVE IInv'
  <2>1. Moved(w)
    BY <1>1, <1>4, RunMoves
  <2>2. UNCHANGED loadVars
    BY <1>4 DEF Begin, Lock, RunStep, LoadMedia, Tokenize, CreateContext,
                MakeSampler, Encode, DecodeStart, DecodePrompt, Eval, Generate,
                Vocode, GetEmbedding, Return
  <2>3. CASE Lock(w)
    <3>1. run[w].kind \in Media
      BY <1>1, <2>3 DEF Lock, Good, KindAt
    <3>2. holder = Nobody /\ holder' = w
      BY <2>3, <3>1 DEF Lock, TakesLock
    <3>3. \A v \in Worker : pc[v] # "eval"
      BY <1>1, <3>2, InferenceAssumption DEF Exclusion
    <3> QED BY <1>1, <2>1, <2>2, <3>2, <3>3 DEF IInv, Exclusion, TypeOK, Moved, loadVars
  <2>4. CASE Eval(w)
    <3>1. holder = w /\ holder' = Nobody
      BY <1>1, <2>4 DEF Eval, Exclusion, Unlock
    <3>2. pc'[w] # "eval"
      BY <1>1, <2>4 DEF Eval, Fail, Finish, Step, TypeOK
    <3>3. \A v \in Worker : pc'[v] # "eval"
      BY <1>1, <2>1, <3>1, <3>2 DEF Exclusion, Moved, TypeOK
    <3> QED BY <1>1, <2>1, <2>2, <3>1, <3>3 DEF IInv, Exclusion, TypeOK, Moved, loadVars
  <2>5. CASE ~Lock(w) /\ ~Eval(w)
    <3>1. holder' = holder
      BY <1>4, <2>5 DEF Begin, RunStep, LoadMedia, Tokenize, CreateContext,
                MakeSampler, Encode, DecodeStart, DecodePrompt, Generate,
                Vocode, GetEmbedding, Return
    <3>2. pc'[w] # "eval"
      <4>1. CASE Begin(w) \/ LoadMedia(w) \/ Tokenize(w) \/ CreateContext(w)
        BY <1>1, <4>1 DEF Begin, LoadMedia, Tokenize, CreateContext, Step, Fail,
                          Finish, TypeOK
      <4>2. CASE MakeSampler(w) \/ Encode(w) \/ DecodeStart(w) \/ DecodePrompt(w)
        BY <1>1, <4>2 DEF MakeSampler, Encode, DecodeStart, DecodePrompt, Step,
                          Fail, Finish, TypeOK
      <4>3. CASE Generate(w) \/ Vocode(w) \/ GetEmbedding(w) \/ Return(w)
        BY <1>1, <4>3 DEF Generate, EndGeneration, Vocode, GetEmbedding, Return,
                          Step, Fail, Finish, TypeOK
      <4> QED BY <1>4, <2>5, <4>1, <4>2, <4>3 DEF RunStep
    <3> QED BY <1>1, <2>1, <2>2, <3>1, <3>2 DEF IInv, Exclusion, TypeOK, Moved, loadVars
  <2> QED BY <2>3, <2>4, <2>5
<1>5. ASSUME NEW w \in Worker, Abort(w) PROVE IInv'
  <2>1. Fresh("text") \in Run /\ Fresh("text").owned = {} /\ Fresh("text").kind = "text"
    BY DEF Fresh, Run, Kind
  <2>2. TypeOK'
    BY <1>1, <1>5, <2>1 DEF Abort, TypeOK, RunPC
  <2>3. ASSUME NEW v \in Worker PROVE Good(pc[v], run[v])' /\ pc'[v] # "eval"
    BY <1>5, <2>1 DEF Abort, Good, KindAt, Fits, Owns, Budgeted
  <2> QED BY <2>2, <2>3 DEF IInv, Exclusion
<1> QED BY <1>2, <1>3, <1>4, <1>5 DEF Next

LEMMA SpecIInv == Spec => []IInv
BY InitIInv, NextIInv, PTL DEF Spec
-----------------------------------------------------------------------------
\* Every run is at a step of its code with counters that are natural numbers,
\* however the limits are set, but for the limit of a transcript.
THEOREM Types == Spec => []TypeOK
<1>1. IInv => TypeOK
  BY DEF IInv
<1> QED BY <1>1, SpecIInv, PTL

\* Whatever the limits, the prompt and its prediction fit into the context and
\* no batch of the prompt is larger than the context was made for, with the two
\* exceptions that TokensFit names.
LEMMA Fit == Spec => []TokensFit
<1>1. IInv => TokensFit
  <2> SUFFICES ASSUME IInv, NEW w \in Worker
               PROVE  /\ pc[w] \in {"prompt", "eval", "generate"} /\ Sized(run[w].kind) =>
                           run[w].past + run[w].left + ToCome(run[w]) <= run[w].ctx
                      /\ pc[w] = "prompt" /\ run[w].kind # "tts" =>
                           Chunk(w) \in 1 .. run[w].batch
    BY DEF TokensFit
  <2>1. KindAt(pc[w], run[w].kind) /\ Fits(pc[w], run[w]) /\ run[w] \in Run
    BY DEF IInv, Good, TypeOK
  <2>2. pc[w] = "prompt" /\ run[w].kind # "tts" => Chunk(w) \in 1 .. run[w].batch
    BY <2>1, ChunkFits
  <2> QED BY <2>1, <2>2 DEF Fits, Budgeted
<1> QED BY <1>1, SpecIInv, PTL

\* However many workers there are, one at a time evaluates media.
THEOREM OneAtATime == Spec => []OneMediaEncoding
<1>1. IInv => OneMediaEncoding
  BY DEF IInv, Exclusion, OneMediaEncoding
<1> QED BY <1>1, SpecIInv, PTL

\* On every path to a return, what the run has allocated is freed.
THEOREM AllIsFreed == Spec => []NothingLeaks
<1>1. IInv => NothingLeaks
  BY DEF IInv, Good, Owns, NothingLeaks
<1> QED BY <1>1, SpecIInv, PTL
-----------------------------------------------------------------------------
\* The budget is made once, by Tokenize: the later steps of a run keep it.
SameBudget(r, s) ==
    /\ s.kind = r.kind /\ s.size = r.size /\ s.predict = r.predict
    /\ s.ctx = r.ctx /\ s.batch = r.batch

LEMMA FinishIs ==
    ASSUME TypeOK, NEW w \in Worker, NEW x, Finish(w, x)
    PROVE  pc'[w] = "ended" /\ SameBudget(run[w], run'[w])
<1> DEFINE r == run[w]
           s == [r EXCEPT !.result = x, !.owned = @ \ Freed(w)]
<1>1. r \in Run
  BY DEF TypeOK
<1>2. pc'[w] = "ended" /\ run'[w] = s
  BY <1>1 DEF Finish, TypeOK, Run
<1> HIDE DEF r
<1>3. SameBudget(r, s)
  BY <1>1 DEF SameBudget, Run
<1> QED BY <1>2, <1>3 DEF r

LEMMA StepIs ==
    ASSUME TypeOK, NEW w \in Worker, NEW p, NEW r, Step(w, p, r)
    PROVE  pc'[w] = p /\ run'[w] = r
BY DEF TypeOK, Step

LEMMA BudgetIsKept ==
    ASSUME TypeOK, NEW w \in Worker,
           Lock(w) \/ RunStep(w), ~Tokenize(w), ~Return(w)
    PROVE  SameBudget(run[w], run'[w])
<1> DEFINE r == run[w]
<1> SUFFICES SameBudget(r, run'[w])
  OBVIOUS
<1>1. r \in Run
  BY DEF TypeOK
<1>2. SameBudget(r, r)
  BY DEF SameBudget
<1>3. \A x : Finish(w, x) => SameBudget(r, run'[w])
  BY FinishIs
<1>4. ASSUME NEW s, NEW p, Step(w, p, s), SameBudget(r, s)
      PROVE  SameBudget(r, run'[w])
  BY <1>4, StepIs
<1> HIDE DEF r
<1>5. CASE LoadMedia(w)
  <2>1. SameBudget(r, [r EXCEPT !.owned = {"bitmaps"}])
    BY <1>1 DEF SameBudget, Run
  <2>2. Fail(w) \/ Step(w, "tokenize", [r EXCEPT !.owned = {"bitmaps"}])
    BY <1>5 DEF LoadMedia, r
  <2> QED BY <1>3, <1>4, <2>1, <2>2 DEF Fail
<1>6. CASE CreateContext(w)
  <2>1. SameBudget(r, [r EXCEPT !.owned = @ \cup {"context"}])
    BY <1>1 DEF SameBudget, Run
  <2>2. Fail(w) \/ \E p \in RunPC : Step(w, p, [r EXCEPT !.owned = @ \cup {"context"}])
    BY <1>6 DEF CreateContext, r, RunPC
  <2> QED BY <1>3, <1>4, <2>1, <2>2 DEF Fail
<1>7. CASE MakeSampler(w)
  <2>1. SameBudget(r, [r EXCEPT !.owned = @ \cup {"sampler"}])
    BY <1>1 DEF SameBudget, Run
  <2>2. Fail(w) \/ \E p \in RunPC : Step(w, p, [r EXCEPT !.owned = @ \cup {"sampler"}])
    BY <1>7 DEF MakeSampler, r, RunPC
  <2> QED BY <1>3, <1>4, <2>1, <2>2 DEF Fail
<1>8. CASE Encode(w)
  <2>1. Fail(w) \/ \E p \in RunPC : Step(w, p, r)
    BY <1>8 DEF Encode, r, RunPC
  <2> QED BY <1>2, <1>3, <1>4, <2>1 DEF Fail
<1>9. CASE DecodeStart(w)
  <2>1. SameBudget(r, [r EXCEPT !.left = 0, !.past = 1])
    BY <1>1 DEF SameBudget, Run
  <2>2. Fail(w) \/ Step(w, "generate", [r EXCEPT !.left = 0, !.past = 1])
    BY <1>9 DEF DecodeStart, r
  <2> QED BY <1>3, <1>4, <2>1, <2>2 DEF Fail
<1>10. CASE DecodePrompt(w)
  <2> DEFINE s == [r EXCEPT !.left = @ - Chunk(w), !.past = @ + Chunk(w)]
  <2>1. SameBudget(r, s)
    BY <1>1 DEF SameBudget, Run
  <2>2. Fail(w) \/ \E p \in RunPC : Step(w, p, s)
    BY <1>10 DEF DecodePrompt, r, RunPC
  <2> QED BY <1>3, <1>4, <2>1, <2>2 DEF Fail
<1>11. CASE Lock(w)
  BY <1>2, <1>11 DEF Lock, r
<1>12. CASE Eval(w)
  <2> DEFINE s == [r EXCEPT !.left = 0, !.past = r.size,
                            !.owned = @ \ {"bitmaps", "chunks"}]
  <2>1. SameBudget(r, s)
    BY <1>1 DEF SameBudget, Run
  <2>2. Fail(w) \/ \E p \in RunPC : Step(w, p, s)
    BY <1>12 DEF Eval, r, RunPC
  <2> QED BY <1>3, <1>4, <2>1, <2>2 DEF Fail
<1>13. CASE Generate(w)
  <2> DEFINE s == [r EXCEPT !.past = @ + 1, !.made = @ + 1]
             u == [r EXCEPT !.owned = {}]
  <2>1. SameBudget(r, s) /\ SameBudget(r, u)
    BY <1>1 DEF SameBudget, Run
  <2>2. \/ Finish(w, "ok") \/ Finish(w, "error")
        \/ Step(w, "generate", s) \/ Step(w, "vocode", u)
    BY <1>13 DEF Generate, EndGeneration, Fail, r
  <2> QED BY <1>3, <1>4, <2>1, <2>2
<1>14. CASE Vocode(w) \/ GetEmbedding(w)
  BY <1>3, <1>14 DEF Vocode, GetEmbedding, Fail
<1> HIDE DEF SameBudget
<1> QED
  BY <1>5, <1>6, <1>7, <1>8, <1>9, <1>10, <1>11, <1>12, <1>13, <1>14
  DEF RunStep, r

\* Only Tokenize enters the part of a run that has a budget.
LEMMA BudgetedBefore ==
    ASSUME TypeOK, NEW w \in Worker, Begin(w) \/ Lock(w) \/ RunStep(w), ~Tokenize(w),
           pc'[w] \in Budgeted
    PROVE  pc[w] \in Budgeted /\ ~Begin(w) /\ ~Return(w)
<1>1. \A x : ~Finish(w, x)
  BY FinishIs DEF Budgeted
<1>2. ~Begin(w) /\ ~Return(w) /\ ~LoadMedia(w)
  <2>1. ASSUME NEW p, NEW r, Step(w, p, r)
        PROVE  p \in Budgeted
    BY <2>1, StepIs
  <2>2. ~Begin(w)
    <3>1. ~Begin(w) \/ \E p \in {"media", "tokenize", "ended"} : \E r : Step(w, p, r)
      BY DEF Begin
    <3> QED BY <2>1, <3>1 DEF Budgeted
  <2>3. ~Return(w)
    BY <2>1 DEF Return, Budgeted
  <2>4. ~LoadMedia(w)
    BY <1>1, <2>1 DEF LoadMedia, Fail, Budgeted
  <2> QED BY <2>2, <2>3, <2>4
<1>3. ~Vocode(w) /\ ~GetEmbedding(w)
  BY <1>1 DEF Vocode, GetEmbedding, Fail
<1> QED
  BY <1>2, <1>3 DEF RunStep, CreateContext, MakeSampler, Encode, DecodeStart,
     DecodePrompt, Lock, Eval, Generate, Budgeted

\* What Tokenize does to a run that it does not end.
LEMMA BudgetIsMade ==
    ASSUME TypeOK, NEW w \in Worker, Tokenize(w), \A x : ~Finish(w, x)
    PROVE  /\ pc'[w] = "context"
           /\ \E n \in PromptSizes :
                /\ Accepts(run[w].kind, n)
                /\ run'[w].kind = run[w].kind /\ run'[w].size = n
                /\ run'[w].predict = PredictOf(run[w].kind, n)
                /\ run'[w].ctx = CtxOf(run[w].kind, n)
                /\ run'[w].batch = BatchOf(run[w].kind, n)
<1> DEFINE r == run[w]
           c == IF r.kind \in Media THEN {"chunks"} ELSE {}
           s(n) == [r EXCEPT !.size = n, !.left = n,
                             !.predict = PredictOf(r.kind, n),
                             !.ctx = CtxOf(r.kind, n),
                             !.batch = BatchOf(r.kind, n),
                             !.owned = @ \cup c]
<1>1. r \in Run
  BY DEF TypeOK
<1>2. PICK n \in PromptSizes : Accepts(r.kind, n) /\ Step(w, "context", s(n))
  BY DEF Tokenize, Fail
<1>3. pc'[w] = "context" /\ run'[w] = s(n)
  BY <1>2, StepIs
<1> HIDE DEF r, c
<1>4. /\ s(n).kind = r.kind /\ s(n).size = n
      /\ s(n).predict = PredictOf(r.kind, n)
      /\ s(n).ctx = CtxOf(r.kind, n)
      /\ s(n).batch = BatchOf(r.kind, n)
  BY <1>1 DEF Run
<1> HIDE DEF s
<1> QED BY <1>2, <1>3, <1>4 DEF r

\* What the budget is when it is made.
LEMMA BudgetIsCapped ==
    ASSUME NEW k \in Kind \ {"embedVision"}, NEW n \in Nat \ {0}, Accepts(k, n), Sized(k)
    PROVE  /\ CtxOf(k, n) <= MaxCtx
           /\ k \in Generating => n + PredictOf(k, n) + Overhead <= CtxOf(k, n)
<1> USE InferenceAssumption
<1>1. CASE k = "embed"
  BY <1>1 DEF Accepts, CtxOf, Generating
<1>2. CASE k = "tts"
  BY <1>2 DEF CtxOf, TtsCtx, AtMost, Generating
<1>3. CASE k \in Generating
  <2> DEFINE c == n + PredictOf(k, n) + Overhead
  <2>1. c \in Int /\ c >= n /\ c <= MaxCtx
    BY <1>3, Prediction
  <2>2. CtxOf(k, n) = Asked(AtMost(c, MaxCtx))
    BY <1>3 DEF CtxOf
  <2> HIDE DEF c
  <2>3. CtxOf(k, n) = c
    BY <2>1, <2>2 DEF AtMost, Asked
  <2> QED BY <2>1, <2>3 DEF c
<1> QED BY <1>1, <1>2, <1>3 DEF Kind, Generating

LEMMA CapNext == IInv /\ CapLeavesOverhead /\ [Next]_vars => CapLeavesOverhead'
<1> SUFFICES ASSUME IInv, CapLeavesOverhead, [Next]_vars, NEW v \in Worker,
                    pc'[v] \in Budgeted, run'[v].kind # "embedVision", Sized(run'[v].kind)
             PROVE  /\ run'[v].ctx <= MaxCtx
                    /\ run'[v].kind \in Generating =>
                         run'[v].size + run'[v].predict + Overhead <= run'[v].ctx
  BY DEF CapLeavesOverhead
<1>1. TypeOK /\ run[v] \in Run
  BY DEF IInv, TypeOK
<1>2. CASE pc'[v] = pc[v] /\ run'[v] = run[v]
  BY <1>2 DEF CapLeavesOverhead
<1>3. CASE LoadModel \/ LoadTts \/ UNCHANGED vars
  BY <1>2, <1>3 DEF LoadModel, LoadTts, vars
<1>4. CASE \E w \in Worker : MakeRunner(w)
  <2>1. PICK w \in Worker : MakeRunner(w)
    BY <1>4
  <2>2. v # w
    BY <1>1, <2>1 DEF MakeRunner, TypeOK, Budgeted
  <2> QED BY <1>1, <1>2, <2>1, <2>2 DEF MakeRunner, TypeOK
<1>5. ASSUME NEW w \in Worker \ {v}, Begin(w) \/ Lock(w) \/ RunStep(w)
      PROVE  pc'[v] = pc[v] /\ run'[v] = run[v]
  <2>1. Good(pc[w], run[w])
    BY DEF IInv
  <2> QED BY <1>1, <1>5, <2>1, RunMoves DEF Moved, TypeOK
<1>6. CASE Tokenize(v)
  <2>1. \A x : ~Finish(v, x)
    BY <1>1, FinishIs DEF Budgeted
  <2>2. PICK n \in PromptSizes :
           /\ Accepts(run[v].kind, n)
           /\ run'[v].kind = run[v].kind /\ run'[v].size = n
           /\ run'[v].predict = PredictOf(run[v].kind, n)
           /\ run'[v].ctx = CtxOf(run[v].kind, n)
    BY <1>1, <1>6, <2>1, BudgetIsMade
  <2>3. run[v].kind \in Kind \ {"embedVision"} /\ n \in Nat \ {0}
    BY <1>1, <2>2, InferenceAssumption DEF Run
  <2> QED BY <2>2, <2>3, BudgetIsCapped
<1>7. CASE (Begin(v) \/ Lock(v) \/ RunStep(v)) /\ ~Tokenize(v)
  <2>1. pc[v] \in Budgeted /\ ~Begin(v) /\ ~Return(v)
    BY <1>1, <1>7, BudgetedBefore
  <2>2. SameBudget(run[v], run'[v])
    BY <1>1, <1>7, <2>1, BudgetIsKept
  <2> QED BY <2>1, <2>2 DEF CapLeavesOverhead, SameBudget
<1>8. ASSUME NEW w \in Worker, Abort(w)
      PROVE  FALSE
  BY <1>8 DEF Abort, Budgeted
<1> QED BY <1>2, <1>3, <1>4, <1>5, <1>6, <1>7, <1>8 DEF Next

\* Whatever the limits and the prompt, the cap takes nothing that the run was
\* promised, and only image embeddings go beyond it.
LEMMA CapIsHarmless == Spec => []CapLeavesOverhead
<1>1. Init => CapLeavesOverhead
  BY DEF Init, CapLeavesOverhead, Budgeted
<1> QED BY <1>1, CapNext, SpecIInv, PTL DEF Spec

\* Six kinds of run, limits of which each is free and sizes that six places
\* compute (runner.cpp, runner_tts.cpp): every run has the context that it needs
\* to its last token, but for the two exceptions of TokensFit.
THEOREM NoRunOverflows == Spec => []ContextSuffices
BY Fit, CapIsHarmless, PTL DEF ContextSuffices

-----------------------------------------------------------------------------
\* What decodes its prompt in one call, llama_encode and TtsRunner, has a batch
\* for it where the batches are as large as the context.
Enough ==
    \A w \in Worker :
        pc[w] \in Budgeted /\ run[w].kind \in {"text", "tts"} =>
            run[w].size <= run[w].batch /\ run[w].size <= MaxCtx

BatchesAreLarge == MaxCtx <= Batch /\ MaxCtx <= TtsBatch /\ MaxCtx <= UBatch

LEMMA BatchSuffices ==
    ASSUME BatchesAreLarge, NEW k \in {"text", "tts"}, NEW n \in Nat \ {0}, Accepts(k, n)
    PROVE  n <= BatchOf(k, n) /\ n <= MaxCtx
<1> USE InferenceAssumption
<1>1. CASE k = "text"
  BY <1>1 DEF Accepts, Room, Generating, BatchOf, AtMost, BatchesAreLarge
<1>2. CASE k = "tts"
  BY <1>2 DEF Accepts, TtsCtx, BatchOf, AtMost, BatchesAreLarge
<1> QED BY <1>1, <1>2

LEMMA EnoughNext ==
    ASSUME BatchesAreLarge
    PROVE  IInv /\ Enough /\ [Next]_vars => Enough'
<1> SUFFICES ASSUME IInv, Enough, [Next]_vars, NEW v \in Worker,
                    pc'[v] \in Budgeted, run'[v].kind \in {"text", "tts"}
             PROVE  run'[v].size <= run'[v].batch /\ run'[v].size <= MaxCtx
  BY DEF Enough
<1>1. TypeOK /\ run[v] \in Run
  BY DEF IInv, TypeOK
<1>2. CASE pc'[v] = pc[v] /\ run'[v] = run[v]
  BY <1>2 DEF Enough
<1>3. CASE LoadModel \/ LoadTts \/ UNCHANGED vars
  BY <1>2, <1>3 DEF LoadModel, LoadTts, vars
<1>4. CASE \E w \in Worker : MakeRunner(w)
  <2>1. PICK w \in Worker : MakeRunner(w)
    BY <1>4
  <2>2. v # w
    BY <1>1, <2>1 DEF MakeRunner, TypeOK, Budgeted
  <2> QED BY <1>1, <1>2, <2>1, <2>2 DEF MakeRunner, TypeOK
<1>5. ASSUME NEW w \in Worker \ {v}, Begin(w) \/ Lock(w) \/ RunStep(w)
      PROVE  pc'[v] = pc[v] /\ run'[v] = run[v]
  <2>1. Good(pc[w], run[w])
    BY DEF IInv
  <2> QED BY <1>1, <1>5, <2>1, RunMoves DEF Moved, TypeOK
<1>6. CASE Tokenize(v)
  <2>1. \A x : ~Finish(v, x)
    BY <1>1, FinishIs DEF Budgeted
  <2>2. PICK n \in PromptSizes :
           /\ Accepts(run[v].kind, n)
           /\ run'[v].kind = run[v].kind /\ run'[v].size = n
           /\ run'[v].batch = BatchOf(run[v].kind, n)
    BY <1>1, <1>6, <2>1, BudgetIsMade
  <2>3. run[v].kind \in {"text", "tts"} /\ n \in Nat \ {0}
    BY <2>2, InferenceAssumption
  <2> QED BY <2>2, <2>3, BatchSuffices
<1>7. CASE (Begin(v) \/ Lock(v) \/ RunStep(v)) /\ ~Tokenize(v)
  <2>1. pc[v] \in Budgeted /\ ~Begin(v) /\ ~Return(v)
    BY <1>1, <1>7, BudgetedBefore
  <2>2. SameBudget(run[v], run'[v])
    BY <1>1, <1>7, <2>1, BudgetIsKept
  <2> QED BY <2>1, <2>2 DEF Enough, SameBudget
<1>8. ASSUME NEW w \in Worker, Abort(w)
      PROVE  FALSE
  BY <1>8 DEF Abort, Budgeted
<1> QED BY <1>2, <1>3, <1>4, <1>5, <1>6, <1>7, <1>8 DEF Next

\* With batches as large as the context no call is too long, and the library
\* does not end the daemon: what a user of a model with an encoder
\* (runner.cpp:495, 728) or of speech (runner_tts.cpp:634) has to provide for.
THEOREM LargeBatchesSuffice ==
    ASSUME BatchesAreLarge
    PROVE  Spec => []NeverAborts
<1>1. Init => NeverAborts /\ Enough
  BY DEF Init, NeverAborts, Enough, Budgeted
<1>2. IInv /\ Enough => \A w \in Worker : ~TooLong(w)
  <2> SUFFICES ASSUME IInv, Enough, NEW w \in Worker
               PROVE  ~TooLong(w)
    OBVIOUS
  <2>1. KindAt(pc[w], run[w].kind) /\ Fits(pc[w], run[w]) /\ run[w] \in Run
    BY DEF IInv, Good, TypeOK
  <2>2. CASE pc[w] = "encode"
    <3>1. run[w].size <= run[w].batch /\ run[w].size <= MaxCtx
      BY <2>1, <2>2 DEF KindAt, Enough, Budgeted
    <3> QED BY <2>1, <2>2, <3>1, InferenceAssumption
            DEF TooLong, UBatchOf, AtMost, BatchesAreLarge, Run
  <2>3. CASE pc[w] = "prompt"
    <3>1. Chunk(w) \in 1 .. run[w].left
          /\ (run[w].kind # "tts" => Chunk(w) \in 1 .. run[w].batch)
      BY <2>1, <2>3, ChunkFits
    <3>2. run[w].kind = "tts" => run[w].size <= run[w].batch
      BY <2>3 DEF Enough, Budgeted
    <3>3. run[w].left <= run[w].size
      BY <2>1, <2>3 DEF Fits
    <3> QED BY <2>1, <2>3, <3>1, <3>2, <3>3 DEF TooLong, Run
  <2> QED BY <2>2, <2>3 DEF TooLong
<1>3. NeverAborts /\ IInv /\ Enough /\ [Next]_vars => NeverAborts'
  <2> SUFFICES ASSUME NeverAborts, [Next]_vars, \A w \in Worker : ~Abort(w)
               PROVE  NeverAborts'
    BY <1>2 DEF Abort
  <2>1. CASE LoadModel \/ LoadTts \/ UNCHANGED vars
    BY <2>1 DEF LoadModel, LoadTts, vars, NeverAborts
  <2>2. CASE \E w \in Worker : MakeRunner(w)
    BY <2>2 DEF MakeRunner, NeverAborts
  <2>3. CASE \E w \in Worker : Begin(w) \/ Lock(w) \/ RunStep(w)
    BY <2>3 DEF Begin, Lock, RunStep, LoadMedia, Tokenize, CreateContext, MakeSampler,
                Encode, DecodeStart, DecodePrompt, Eval, Generate, Vocode, GetEmbedding,
                Return, loadVars, NeverAborts
  <2> QED BY <2>1, <2>2, <2>3 DEF Next
<1> QED BY <1>1, <1>3, EnoughNext, SpecIInv, PTL DEF Spec

\* While no image embedding is asked for and NRVNA_STT_PREDICT is not far below
\* zero, CONFIGURATION.md's "per-job context limit, capped by the model's trained
\* context" holds of every run.
THEOREM ContextLimit ==
    ASSUME "embedVision" \notin Kinds, SttPredict >= -Overhead
    PROVE  Spec => []ContextIsLimited
<1> DEFINE Limited == \A w \in Worker : run[w].kind # "embedVision" /\ run[w].ctx <= MaxCtx
<1>1. Init => Limited
  BY InferenceAssumption DEF Init, Fresh
<1>2. IInv /\ Limited /\ [Next]_vars => Limited'
  <2> SUFFICES ASSUME IInv, Limited, [Next]_vars, NEW v \in Worker
               PROVE  run'[v].kind # "embedVision" /\ run'[v].ctx <= MaxCtx
    OBVIOUS
  <2>1. TypeOK /\ run[v] \in Run
    BY DEF IInv, TypeOK
  <2>2. \A k \in Kinds : Fresh(k).kind = k /\ Fresh(k).ctx = 0 /\ Fresh(k) \in Run
    BY InferenceAssumption DEF Fresh, Run
  <2>3. Fresh("text").kind = "text" /\ Fresh("text").ctx = 0
    BY DEF Fresh
  <2>4. CASE run'[v] = run[v]
    BY <2>4
  <2>5. CASE LoadModel \/ LoadTts \/ UNCHANGED vars \/ \E w \in Worker : MakeRunner(w)
    BY <2>4, <2>5 DEF LoadModel, LoadTts, MakeRunner, vars
  <2>6. ASSUME NEW w \in Worker \ {v}, Begin(w) \/ Lock(w) \/ RunStep(w)
        PROVE  run'[v] = run[v]
    <3>1. Good(pc[w], run[w])
      BY DEF IInv
    <3> QED BY <2>1, <2>6, <3>1, RunMoves DEF Moved, TypeOK
  <2>7. CASE Tokenize(v)
    <3>1. CASE \E x : Finish(v, x)
      BY <2>1, <3>1, FinishIs DEF SameBudget
    <3>2. CASE \A x : ~Finish(v, x)
      <4>1. PICK n \in PromptSizes :
               /\ Accepts(run[v].kind, n)
               /\ run'[v].kind = run[v].kind
               /\ run'[v].ctx = CtxOf(run[v].kind, n)
        BY <2>1, <2>7, <3>2, BudgetIsMade
      <4>2. run[v].kind \in Kind \ {"embedVision"} /\ n \in Nat \ {0}
        BY <2>1, InferenceAssumption DEF Run
      <4>3. Sized(run[v].kind)
        BY DEF Sized
      <4> QED BY <4>1, <4>2, <4>3, BudgetIsCapped
    <3> QED BY <3>1, <3>2
  <2>8. CASE Begin(v)
    <3>1. PICK k \in Kinds : \/ run'[v] = Fresh(k)
                             \/ run'[v] = [Fresh(k) EXCEPT !.result = "error"]
      BY <2>1, <2>8, StepIs DEF Begin
    <3>2. Fresh(k).kind = k /\ Fresh(k).ctx = 0 /\ Fresh(k) \in Run
      BY <2>2
    <3>3. run'[v].kind = k /\ run'[v].ctx = 0
      BY <3>1, <3>2 DEF Run
    <3> QED BY <3>3, InferenceAssumption
  <2>9. CASE Return(v)
    BY <2>1, <2>3, <2>9, StepIs, InferenceAssumption DEF Return
  <2>10. CASE (Lock(v) \/ RunStep(v)) /\ ~Tokenize(v) /\ ~Return(v)
    BY <2>1, <2>10, BudgetIsKept DEF SameBudget
  <2>11. ASSUME NEW w \in Worker, Abort(w)
         PROVE  run'[v].kind # "embedVision" /\ run'[v].ctx <= MaxCtx
    BY <2>3, <2>11, InferenceAssumption DEF Abort
  <2> QED
    BY <2>4, <2>5, <2>6, <2>7, <2>8, <2>9, <2>10, <2>11 DEF Next
<1>3. Limited => ContextIsLimited
  BY DEF ContextIsLimited
<1> HIDE DEF Limited
<1> QED BY <1>1, <1>2, <1>3, SpecIInv, PTL DEF Spec
-----------------------------------------------------------------------------
\* A run stays where it is or gets nearer to its end, by its own steps only.
LEMMA RunGoesOn ==
    ASSUME IInv, NEW w \in Worker, Lock(w) \/ RunStep(w), pc[w] # "ended"
    PROVE  GoesOn(w)
<1> DEFINE r == run[w]
<1>1. /\ r \in Run /\ pc[w] \in RunPC /\ TypeOK
      /\ KindAt(pc[w], r.kind) /\ Fits(pc[w], r)
  BY DEF IInv, TypeOK, Good
<1>2. ASSUME NEW p, NEW s, Step(w, p, s)
      PROVE  pc'[w] = p /\ run'[w] = s
  BY <1>1, <1>2, StepIs
<1>3. ASSUME NEW x, Finish(w, x), pc[w] \in DOMAIN Distance
      PROVE  GoesOn(w)
  BY <1>1, <1>3, FinishIs DEF GoesOn, Distance
<1>4. ASSUME NEW p, NEW s, Step(w, p, s), pc[w] \in DOMAIN Distance,
             p \in DOMAIN Distance, Distance[p] < Distance[pc[w]]
      PROVE  GoesOn(w)
  BY <1>2, <1>4 DEF GoesOn
<1>5. CASE LoadMedia(w) \/ Tokenize(w)
  <2>1. pc[w] \in {"media", "tokenize"}
    BY <1>5 DEF LoadMedia, Tokenize
  <2>2. \/ \E x : Finish(w, x)
        \/ pc[w] = "media" /\ \E s : Step(w, "tokenize", s)
        \/ pc[w] = "tokenize" /\ \E s : Step(w, "context", s)
    BY <1>5 DEF LoadMedia, Tokenize, Fail
  <2> QED BY <1>3, <1>4, <2>1, <2>2 DEF Distance
<1>6. CASE CreateContext(w) \/ MakeSampler(w)
  <2>1. pc[w] \in {"context", "sampler"}
    BY <1>6 DEF CreateContext, MakeSampler
  <2>2. \/ \E x : Finish(w, x)
        \/ pc[w] = "context" /\ \E p \in {"prompt", "lock", "sampler"} : \E s : Step(w, p, s)
        \/ pc[w] = "sampler" /\ \E p \in {"prompt", "lock", "encode"} : \E s : Step(w, p, s)
    BY <1>6 DEF CreateContext, MakeSampler, Fail
  <2> QED BY <1>3, <1>4, <2>1, <2>2 DEF Distance
<1>7. CASE Encode(w) \/ DecodeStart(w)
  <2>1. pc[w] \in {"encode", "start"}
    BY <1>7 DEF Encode, DecodeStart
  <2>2. \/ \E x : Finish(w, x)
        \/ pc[w] = "encode" /\ \E p \in {"prompt", "start"} : \E s : Step(w, p, s)
        \/ pc[w] = "start" /\ \E s : Step(w, "generate", s)
    BY <1>7 DEF Encode, DecodeStart, Fail
  <2> QED BY <1>3, <1>4, <2>1, <2>2 DEF Distance
<1>8. CASE DecodePrompt(w)
  <2> DEFINE n == Chunk(w)
             s == [r EXCEPT !.left = @ - n, !.past = @ + n]
  <2>1. pc[w] = "prompt"
    BY <1>8 DEF DecodePrompt
  <2>2. n \in Nat /\ 1 <= n /\ n <= r.left
    BY <1>1, <2>1, ChunkFits DEF Run
  <2>3. CASE n < r.left /\ Step(w, "prompt", s)
    <3>1. pc'[w] = "prompt" /\ run'[w] = s
      BY <1>2, <2>3
    <3> HIDE DEF r, n
    <3>2. s.left = r.left - n /\ s.predict = r.predict /\ s.made = r.made
      BY <1>1 DEF Run
    <3>3. /\ r.left \in Nat /\ r.predict \in Int /\ r.made \in Nat
          /\ r.made <= r.predict
      BY <1>1, <2>1 DEF Run, Fits, Budgeted, KindAt
    <3> HIDE DEF s
    <3>4. ToGo(s) \in 0 .. ToGo(r) - 1
      BY <2>2, <2>3, <3>2, <3>3 DEF ToGo
    <3> QED BY <2>1, <3>1, <3>4 DEF GoesOn, r
  <2>4. CASE \/ \E x : Finish(w, x)
             \/ Step(w, "embedding", s) \/ Step(w, "generate", s)
    BY <1>3, <1>4, <2>1, <2>4 DEF Distance
  <2> QED BY <1>8, <2>3, <2>4 DEF DecodePrompt, Fail
<1>9. CASE Lock(w) \/ Eval(w)
  <2>1. CASE Lock(w)
    BY <1>1, <2>1 DEF Lock, GoesOn, Distance, TypeOK
  <2>2. CASE Eval(w)
    <3>1. pc[w] = "eval" /\ (\/ \E x : Finish(w, x)
                             \/ \E p \in {"embedding", "generate"} : \E s : Step(w, p, s))
      BY <2>2 DEF Eval, Fail
    <3> QED BY <1>3, <1>4, <3>1 DEF Distance
  <2> QED BY <1>9, <2>1, <2>2
<1>10. CASE Generate(w)
  <2> DEFINE s == [r EXCEPT !.past = @ + 1, !.made = @ + 1]
  <2>1. pc[w] = "generate"
    BY <1>10 DEF Generate
  <2>2. CASE r.made < r.predict /\ Step(w, "generate", s)
    <3>1. pc'[w] = "generate" /\ run'[w] = s
      BY <1>2, <2>2
    <3> HIDE DEF r
    <3>2. s.left = r.left /\ s.predict = r.predict /\ s.made = r.made + 1
      BY <1>1 DEF Run
    <3>3. r.left \in Nat /\ r.predict \in Int /\ r.made \in Nat
      BY <1>1 DEF Run
    <3> HIDE DEF s
    <3>4. ToGo(s) \in 0 .. ToGo(r) - 1
      BY <2>2, <3>2, <3>3 DEF ToGo
    <3> QED BY <2>1, <3>1, <3>4 DEF GoesOn, r
  <2>3. CASE (\E x : Finish(w, x)) \/ \E u : Step(w, "vocode", u)
    BY <1>3, <1>4, <2>1, <2>3 DEF Distance
  <2> QED BY <1>10, <2>2, <2>3 DEF Generate, EndGeneration, Fail
<1>11. CASE Vocode(w) \/ GetEmbedding(w)
  <2>1. pc[w] \in {"vocode", "embedding"} /\ \E x : Finish(w, x)
    BY <1>11 DEF Vocode, GetEmbedding, Fail
  <2> QED BY <1>3, <2>1 DEF Distance
<1> QED
  BY <1>5, <1>6, <1>7, <1>8, <1>9, <1>10, <1>11 DEF RunStep, Return

\* Each step of a run brings it nearer to its return, for every limit and every
\* prompt: what EveryRunEnds needs of the code, beside a fair scheduler.
THEOREM NoWayBack == Spec => NoStepGoesBack
<1>1. IInv /\ [Next]_vars =>
        [stage' # "aborted" =>
          \A w \in Worker : pc[w] \notin {"unmade", "idle", "ended"} =>
              UNCHANGED <<pc[w], run[w]>> \/ GoesOn(w)]_vars
  <2> SUFFICES ASSUME IInv, [Next]_vars, stage' # "aborted", NEW v \in Worker,
                      pc[v] \notin {"unmade", "idle", "ended"}
               PROVE  UNCHANGED <<pc[v], run[v]>> \/ GoesOn(v)
    OBVIOUS
  <2>1. TypeOK
    BY DEF IInv
  <2>2. CASE LoadModel \/ LoadTts \/ UNCHANGED vars
    BY <2>2 DEF LoadModel, LoadTts, vars
  <2>3. ASSUME NEW w \in Worker, MakeRunner(w)
        PROVE  UNCHANGED <<pc[v], run[v]>>
    BY <2>1, <2>3 DEF MakeRunner, TypeOK
  <2>4. ASSUME NEW w \in Worker \ {v}, Begin(w) \/ Lock(w) \/ RunStep(w)
        PROVE  UNCHANGED <<pc[v], run[v]>>
    <3>1. Good(pc[w], run[w])
      BY DEF IInv
    <3> QED BY <2>1, <2>4, <3>1, RunMoves DEF Moved, TypeOK
  <2>5. ~Begin(v)
    BY DEF Begin
  <2>6. CASE Lock(v) \/ RunStep(v)
    BY <2>6, RunGoesOn
  <2>7. \A w \in Worker : ~Abort(w)
    BY DEF Abort
  <2> QED BY <2>2, <2>3, <2>4, <2>5, <2>6, <2>7 DEF Next
<1> QED BY <1>1, SpecIInv, PTL DEF Spec, NoStepGoesBack
=============================================================================
