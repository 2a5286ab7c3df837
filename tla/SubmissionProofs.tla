-------------------------- MODULE SubmissionProofs --------------------------
(***************************************************************************)
(* Proofs about Submission, for any number of calls, media files and       *)
(* failing file operations: the types, that the exit of wrk is the truth,  *)
(* that nothing is forgotten in input/writing/, that a published job will  *)
(* be claimed and is run as it was asked for, and that Submission          *)
(* implements JobStates.                                                   *)
(*                                                                         *)
(* None of this is inductive: what wrk prints and what it leaves behind    *)
(* depends on where its job directory is at each step, and what is run on  *)
(* what was staged by then.  Where says the one, Right the other.          *)
(***************************************************************************)
EXTENDS Submission, TLAPS

Staging == {"prompt", "media", "type", "structured", "meta", "publish", "cleanup"}

Where ==
    \A c \in Call :
        /\ pc[c] \in {"start", "open", "check", "directory"} =>
              place[c] = "none" /\ told[c] = "nothing"
        /\ pc[c] \in Staging => place[c] = "writing" /\ told[c] = "nothing"
        /\ pc[c] = "answer" =>
              place[c] \in {"ready", "processing"} /\ told[c] = "nothing"
        /\ pc[c] = "over" =>
              \/ told[c] = "id" /\ place[c] \in {"ready", "processing"}
              \/ told[c] = "error" /\ place[c] = "none"
              \/ told[c] = "error" /\ place[c] = "writing" /\ c \in litter
        /\ pc[c] = "killed" => told[c] = "nothing"

IInv == TypeOK /\ Where
-----------------------------------------------------------------------------
LEMMA InitIInv == Init => IInv
<1> SUFFICES ASSUME Init PROVE IInv
  OBVIOUS
<1>1. NothingAsked \in Options
  BY SubmissionAssumption DEF NothingAsked, Options, Prompt
<1>2. NoFiles \in Files
  BY SubmissionAssumption DEF NoFiles, Files, PromptFile, GrammarFile
<1>3. NoRun("unread") \in Run
  BY SubmissionAssumption DEF NoRun, Run, PromptFile, GrammarFile
<1>4. TypeOK
  BY <1>1, <1>2, <1>3, SubmissionAssumption DEF Init, TypeOK, CallPC
<1>5. Where
  BY DEF Init, Where, Staging
<1> QED BY <1>4, <1>5 DEF IInv

\* A file of the right class, put into a job directory, leaves it well typed.
LEMMA StageTypes ==
    ASSUME TypeOK, NEW c \in Call,
           NEW field \in {"prompt", "images", "audio", "type", "grammar", "meta"},
           NEW content,
           [staged[c] EXCEPT ![field] = content] \in Files,
           Stage(c, field, content)
    PROVE  staged' \in [Call -> Files]
BY DEF Stage, TypeOK

LEMMA WriteTypes ==
    ASSUME TypeOK, NEW c \in Call, NEW next \in CallPC,
           NEW field \in {"prompt", "type", "grammar", "meta"}, NEW content,
           [staged[c] EXCEPT ![field] = content] \in Files,
           [staged[c] EXCEPT ![field] = "torn"] \in Files,
           Write(c, field, content, next)
    PROVE  TypeOK'
<1>1. staged' \in [Call -> Files]
  BY StageTypes DEF Write
<1>2. pc' \in [Call -> CallPC]
  BY DEF Write, Goto, TypeOK, CallPC
<1>3. faults' \in 0..MaxFaults
  BY SubmissionAssumption DEF Write, Fault, Succeed, TypeOK
<1> QED BY <1>1, <1>2, <1>3 DEF Write, TypeOK

LEMMA TypeNext == IInv /\ [Next]_vars => TypeOK'
<1> SUFFICES ASSUME IInv, [Next]_vars PROVE TypeOK'
  OBVIOUS
<1> USE SubmissionAssumption
<1>1. TypeOK
  BY DEF IInv
<1>2. ASSUME NEW c \in Call PROVE asked[c] \in Options /\ staged[c] \in Files
  BY <1>1 DEF TypeOK
<1>3. \A o \in Options : TypeOf(o) \in JobType /\ o.prompt \in Prompt
  BY DEF TypeOf, JobType, Options
<1>4. ASSUME NEW c \in Call, Invoke(c) PROVE TypeOK'
  BY <1>1, <1>4 DEF Invoke, Fail, Goto, TypeOK, CallPC
<1>5. ASSUME NEW c \in Call, CreateWorkspace(c) PROVE TypeOK'
  <2>1. hasReady' \in BOOLEAN
    BY <1>1, <1>5 DEF CreateWorkspace, TypeOK
  <2>2. pc' \in [Call -> CallPC]
    BY <1>1, <1>5 DEF CreateWorkspace, Goto, TypeOK, CallPC
  <2>3. faults' \in 0..MaxFaults
    BY <1>1, <1>5 DEF CreateWorkspace, Fault, Succeed, TypeOK
  <2> QED BY <1>1, <1>5, <2>1, <2>2, <2>3 DEF CreateWorkspace, TypeOK
<1>6. ASSUME NEW c \in Call, Submit(c) \/ SubmitAudio(c) PROVE TypeOK'
  <2>1. PICK valid \in BOOLEAN : Checked(c, valid)
    BY <1>6 DEF Submit, SubmitAudio
  <2> QED BY <1>1, <2>1 DEF Checked, Fail, Goto, TypeOK, CallPC
<1>7. ASSUME NEW c \in Call, CreateJobDirectory(c) PROVE TypeOK'
  BY <1>1, <1>7 DEF CreateJobDirectory, Place, Goto, Fault, Succeed, Fail, TypeOK,
                    CallPC
<1>8. ASSUME NEW c \in Call, WritePromptFile(c) PROVE TypeOK'
  <2>1. \A x \in PromptFile : [staged[c] EXCEPT !["prompt"] = x] \in Files
    BY <1>2, <1>8 DEF Files
  <2>2. asked[c].prompt \in PromptFile /\ "torn" \in PromptFile
    BY <1>2, <1>3, <1>8 DEF PromptFile
  <2> DEFINE q == IF MediaCount(asked[c]) > 0 THEN "media" ELSE AfterMedia(asked[c])
  <2>3. q \in CallPC
    BY DEF CallPC, AfterMedia
  <2> HIDE DEF q
  <2> QED BY <1>1, <1>8, <2>1, <2>2, <2>3, WriteTypes DEF WritePromptFile, q
<1>9. ASSUME NEW c \in Call, NEW field \in {"images", "audio"}, CopyMedia(c, field)
      PROVE  TypeOK'
  <2>1. /\ staged[c][field] \in 0..MaxMedia /\ asked[c][field] \in 0..MaxMedia
        /\ staged[c][field] < asked[c][field]
    BY <1>2, <1>9 DEF CopyMedia, Files, Options
  <2>2. staged[c][field] + 1 \in 0..MaxMedia
    BY <2>1
  <2>3. [staged[c] EXCEPT ![field] = staged[c][field] + 1] \in Files
    BY <1>2, <1>9, <2>2 DEF Files
  <2>4. staged' \in [Call -> Files]
    BY <1>1, <1>9, <2>3, StageTypes DEF CopyMedia, TypeOK
  <2> QED BY <1>1, <1>9, <2>4 DEF CopyMedia, Goto, Fault, Succeed, TypeOK, CallPC
<1>10. ASSUME NEW c \in Call, WriteTypeFile(c) PROVE TypeOK'
  <2>1. \A x \in JobType \cup {"torn"} : [staged[c] EXCEPT !["type"] = x] \in Files
    BY <1>2, <1>10 DEF Files
  <2>2. TypeOf(asked[c]) \in JobType /\ AfterType(asked[c]) \in CallPC
    BY <1>2, <1>3, <1>10 DEF AfterType, CallPC
  <2> QED BY <1>1, <1>10, <2>1, <2>2, WriteTypes DEF WriteTypeFile
<1>11. ASSUME NEW c \in Call, WriteStructuredOutputFiles(c) PROVE TypeOK'
  <2>1. CASE asked[c].structured # {}
    <3> DEFINE g == CHOOSE x \in asked[c].structured : TRUE
    <3>1. g \in {"schema", "grammar"}
      BY <1>2, <1>11, <2>1 DEF Options
    <3> HIDE DEF g
    <3>2. \A x \in GrammarFile : [staged[c] EXCEPT !["grammar"] = x] \in Files
      BY <1>2, <1>11 DEF Files
    <3>3. g \in GrammarFile /\ "torn" \in GrammarFile /\ "meta" \in CallPC
      BY <3>1 DEF GrammarFile, CallPC
    <3>4. Write(c, "grammar", g, "meta")
      BY <1>11, <2>1 DEF WriteStructuredOutputFiles, g
    <3> QED BY <1>1, <3>2, <3>3, <3>4, WriteTypes
  <2>2. CASE asked[c].structured = {}
    BY <1>1, <1>11, <2>2 DEF WriteStructuredOutputFiles, Goto, TypeOK, CallPC
  <2> QED BY <2>1, <2>2
<1>12. ASSUME NEW c \in Call, WriteMetaFile(c) PROVE TypeOK'
  <2>1. \A x \in {"plain", "structured", "torn"} :
           [staged[c] EXCEPT !["meta"] = x] \in Files
    BY <1>2, <1>12 DEF Files
  <2>2. "publish" \in CallPC
    BY DEF CallPC
  <2> QED BY <1>1, <1>12, <2>1, <2>2, WriteTypes DEF WriteMetaFile
<1>13. ASSUME NEW c \in Call, AtomicPublish(c) PROVE TypeOK'
  BY <1>1, <1>13 DEF AtomicPublish, Place, Goto, Fault, Succeed, TypeOK, CallPC
<1>14. ASSUME NEW c \in Call, CleanupFailedJob(c) \/ Answer(c) PROVE TypeOK'
  BY <1>1, <1>14 DEF CleanupFailedJob, Answer, Place, Goto, Fail, Fault, Succeed,
                     TypeOK, CallPC
<1>15. ASSUME NEW c \in Call, Kill(c) \/ Vanish(c) \/ Claim(c) PROVE TypeOK'
  BY <1>1, <1>15 DEF Kill, Vanish, Claim, Goto, Place, TypeOK, CallPC
<1>16. ASSUME NEW c \in Call, Process(c) PROVE TypeOK'
  <2>1. staged[c] \in Files /\ MisreadFiles(staged[c]) \subseteq Files
    BY <1>2, <1>16 DEF MisreadFiles, Files, PromptFile, GrammarFile
  <2>2. PICK f \in Files, misread \in BOOLEAN :
           verdict' = [verdict EXCEPT ![c] = Outcome(f, misread)]
    BY <1>16, <2>1 DEF Process
  <2>3. Outcome(f, misread) \in Run
    <3>1. Route(f) \in JobType
      BY DEF Route, JobType
    <3>2. [NoRun("refused") EXCEPT !.misread = misread] \in Run
      BY DEF NoRun, Run, PromptFile, GrammarFile
    <3>3. [as |-> Route(f), prompt |-> f.prompt, images |-> f.images,
           audio |-> f.audio, grammar |-> f.grammar, misread |-> misread] \in Run
      BY <3>1 DEF Run, Files
    <3> QED BY <3>2, <3>3 DEF Outcome
  <2>4. verdict' \in [Call -> Run]
    BY <1>1, <2>2, <2>3 DEF TypeOK
  <2>5. faults' \in 0..MaxFaults
    <3>1. Fault \/ Succeed
      BY <1>16 DEF Process
    <3> QED BY <1>1, <3>1 DEF Fault, Succeed, TypeOK
  <2> QED BY <1>1, <1>16, <2>4, <2>5 DEF Process, TypeOK
<1>17. CASE UNCHANGED vars
  BY <1>1, <1>17 DEF vars, TypeOK
<1> QED
  BY <1>4, <1>5, <1>6, <1>7, <1>8, <1>9, <1>10, <1>11, <1>12, <1>13, <1>14,
     <1>15, <1>16, <1>17 DEF Next, CallStep
-----------------------------------------------------------------------------
LEMMA WhereNext == IInv /\ [Next]_vars => Where'
<1> SUFFICES ASSUME IInv, [Next]_vars PROVE Where'
  OBVIOUS
<1> USE DEF TypeOK, Where, Staging, Goto, Place, Fail
<1>1. TypeOK /\ Where
  BY DEF IInv
<1>2. ASSUME NEW c \in Call, Invoke(c) \/ CreateWorkspace(c) \/ Submit(c) \/ SubmitAudio(c)
      PROVE  Where'
  BY <1>1, <1>2 DEF Invoke, CreateWorkspace, Submit, SubmitAudio, Checked
<1>3. ASSUME NEW c \in Call, CreateJobDirectory(c) PROVE Where'
  BY <1>1, <1>3 DEF CreateJobDirectory
<1>4. ASSUME NEW c \in Call, NEW next \in Staging, NEW field, NEW content,
             pc[c] \in Staging, Write(c, field, content, next)
      PROVE  Where'
  BY <1>1, <1>4 DEF Write
<1>5. ASSUME NEW c \in Call, WritePromptFile(c) \/ WriteTypeFile(c) \/ WriteMetaFile(c)
      PROVE  Where'
  BY <1>4, <1>5 DEF WritePromptFile, WriteTypeFile, WriteMetaFile, AfterMedia,
                    AfterType
<1>6. ASSUME NEW c \in Call, WriteStructuredOutputFiles(c) PROVE Where'
  <2>1. CASE asked[c].structured # {}
    BY <1>4, <1>6, <2>1 DEF WriteStructuredOutputFiles
  <2>2. CASE asked[c].structured = {}
    BY <1>1, <1>6, <2>2 DEF WriteStructuredOutputFiles
  <2> QED BY <2>1, <2>2
<1>7. ASSUME NEW c \in Call, NEW field \in {"images", "audio"}, CopyMedia(c, field)
      PROVE  Where'
  BY <1>1, <1>7 DEF CopyMedia
<1>8. ASSUME NEW c \in Call, AtomicPublish(c) \/ Answer(c) PROVE Where'
  BY <1>1, <1>8 DEF AtomicPublish, Answer
<1>9. ASSUME NEW c \in Call, CleanupFailedJob(c) PROVE Where'
  BY <1>1, <1>9 DEF CleanupFailedJob
<1>10. ASSUME NEW c \in Call, Kill(c) \/ Vanish(c) PROVE Where'
  <2>1. CASE Kill(c)
    <3>1. told[c] = "nothing"
      BY <1>1, <2>1 DEF Kill, Running, CallPC
    <3> QED BY <1>1, <2>1, <3>1 DEF Kill
  <2>2. CASE Vanish(c)
    BY <1>1, <2>2 DEF Vanish
  <2> QED BY <1>10, <2>1, <2>2
<1>11. ASSUME NEW c \in Call, Claim(c) \/ Process(c) PROVE Where'
  BY <1>1, <1>11 DEF Claim, Process
<1>12. CASE UNCHANGED vars
  BY <1>1, <1>12 DEF vars
<1> QED
  BY <1>2, <1>3, <1>5, <1>6, <1>7, <1>8, <1>9, <1>10, <1>11, <1>12
     DEF Next, CallStep

LEMMA SpecIInv == Spec => []IInv
<1>1. IInv /\ [Next]_vars => IInv'
  BY TypeNext, WhereNext DEF IInv
<1> QED BY InitIInv, <1>1, PTL DEF Spec
-----------------------------------------------------------------------------
(***************************************************************************)
(* What is in a job directory at each step of its call.  Claims and        *)
(* verdicts follow from what is there at the rename, so Right says how far *)
(* each file has come by then, and that the options were let through.      *)
(***************************************************************************)
TypeFileOf(o) == IF TypeOf(o) = "text" THEN "none" ELSE TypeOf(o)
GrammarOf(o) ==
    IF o.structured = {} THEN "none" ELSE CHOOSE x \in o.structured : TRUE
MetaOf(o) == IF o.structured = {} THEN "plain" ELSE "structured"

\* The files of f, up to one of the steps of a call that stages the options o.
HasPrompt(f, o) == f.prompt = o.prompt
HasMedia(f, o) == HasPrompt(f, o) /\ f.images = o.images /\ f.audio = o.audio
HasType(f, o) == HasMedia(f, o) /\ f.type = TypeFileOf(o)
HasGrammar(f, o) == HasType(f, o) /\ f.grammar = GrammarOf(o)
HasAll(f, o) == HasGrammar(f, o) /\ f.meta = MetaOf(o)

Right(c) ==
    LET o == asked[c]
        f == staged[c]
    IN  /\ pc[c] \in {"open", "check"} => Consistent(o)
        /\ pc[c] \in Staging \cup {"directory"} \/ place[c] # "none" =>
               Consistent(o) /\ ValidPrompt(o)
        /\ pc[c] \in {"start", "open", "check", "directory", "prompt"} =>
               f = NoFiles
        /\ pc[c] = "media" =>
               /\ HasPrompt(f, o)
               /\ f.images <= o.images /\ f.audio <= o.audio
               /\ MediaCount(o) > 0
        /\ pc[c] = "type" => HasMedia(f, o) /\ TypeOf(o) # "text"
        /\ pc[c] = "structured" => HasType(f, o)
        /\ pc[c] = "meta" => HasGrammar(f, o)
        /\ pc[c] \in {"media", "type"} => f.type = "none"
        /\ pc[c] \in {"media", "type", "structured"} => f.grammar = "none"
        /\ pc[c] = "publish" \/ place[c] \in {"ready", "processing"} =>
               HasAll(f, o)
        /\ place[c] = "processing" => ValidJobDirectory(f)
        /\ place[c] # "processing" => verdict[c] = NoRun("unread")
        /\ verdict[c] \in {NoRun("unread"), Wanted(o)} \/ verdict[c].misread

AllRight == \A c \in Call : Right(c)

FieldName == {"prompt", "images", "audio", "type", "grammar", "meta"}

\* A step of one call says nothing about the job of another.
LEMMA RightOfOthers ==
    ASSUME TypeOK, NEW c \in Call, NEW d \in Call \ {c}, Right(d),
           CallStep(c) \/ Kill(c) \/ Vanish(c) \/ Claim(c) \/ Process(c)
    PROVE  Right(d)'
<1>1. /\ pc'[d] = pc[d] /\ asked'[d] = asked[d] /\ place'[d] = place[d]
      /\ staged'[d] = staged[d] /\ verdict'[d] = verdict[d]
  BY DEF TypeOK, CallStep, Invoke, CreateWorkspace, Submit, SubmitAudio, Checked,
         CreateJobDirectory, WritePromptFile, CopyMedia, WriteTypeFile,
         WriteStructuredOutputFiles, WriteMetaFile, AtomicPublish,
         CleanupFailedJob, Answer, Kill, Vanish, Claim, Process, Write, Stage,
         Goto, Place, Fail
<1> QED
  BY <1>1 DEF Right

\* Which files a write leaves alone.
LEMMA StageFields ==
    ASSUME TypeOK, NEW c \in Call, NEW field \in FieldName, NEW content,
           Stage(c, field, content)
    PROVE  /\ staged'[c][field] = content
           /\ \A g \in FieldName \ {field} : staged'[c][g] = staged[c][g]
BY DEF TypeOK, Stage, Files, FieldName

\* What let a call's options through is what the scanner and the worker ask for.
LEMMA AcceptedIsClaimable ==
    ASSUME NEW o \in Options, Consistent(o), ValidPrompt(o),
           NEW f \in Files, HasAll(f, o), o.prompt \in DaemonReads
    PROVE  ValidJobDirectory(f)
BY DEF Consistent, ValidPrompt, HasAll, HasGrammar, HasType, HasMedia, HasPrompt,
       TypeFileOf, ValidJobDirectory, EmptyPromptAllowed, MayBeEmpty, TypeOf,
       Options

LEMMA AcceptedIsReadable ==
    ASSUME NEW o \in Options, Consistent(o), ValidPrompt(o),
           NEW f \in Files, HasAll(f, o), ValidJobDirectory(f)
    PROVE  Readable(f) /\ Route(f) = Wanted(o).as
<1> USE DEF HasAll, HasGrammar, HasType, HasMedia, HasPrompt
<1>1. ReadJobType(f) = TypeOf(o)
  BY DEF ReadJobType, TypeFileOf, TypeOf
<1>2. TypeOf(o) \in JobType
  BY DEF TypeOf, JobType
<1>3. ReadPrompt(f)
  BY DEF ValidJobDirectory, ReadPrompt
<1>4. ReadGrammar(f)
  <2>1. o.structured # {} => GrammarOf(o) \in {"schema", "grammar"}
    BY DEF GrammarOf, Options
  <2> QED
    BY <2>1 DEF ReadGrammar, MetaOf
<1>5. f.prompt = "empty" => MayBeEmpty(ReadJobType(f), f.images, f.audio)
  BY <1>1 DEF ValidPrompt
<1>6. Readable(f)
  BY <1>1, <1>2, <1>3, <1>4, <1>5 DEF Readable, JobType
<1>7. Route(f) = Wanted(o).as
  <2>1. CASE o.modes = {}
    BY <1>1, <2>1 DEF Route, Wanted, TypeOf, Options
  <2>2. CASE o.modes # {}
    <3>1. PICK m \in {"embed", "tts", "stt"} : o.modes = {m}
      BY <2>2 DEF Consistent
    <3>2. Wanted(o).as = m
      BY <3>1 DEF Wanted
    <3>3. TypeOf(o) = m
      BY <3>1 DEF TypeOf
    <3> QED
      BY <1>1, <3>2, <3>3 DEF Route
  <2> QED
    BY <2>1, <2>2
<1> QED
  BY <1>6, <1>7

LEMMA RightNext == IInv /\ AllRight /\ [Next]_vars => AllRight'
<1> SUFFICES ASSUME IInv, AllRight, [Next]_vars, NEW d \in Call PROVE Right(d)'
  BY DEF AllRight
<1>1. TypeOK /\ Where /\ Right(d)
  BY DEF IInv, AllRight
<1>2. asked[d] \in Options /\ staged[d] \in Files /\ pc[d] \in CallPC
  BY <1>1 DEF TypeOK
<1> USE DEF Staging, Goto, Place, Fail
<1>3. CASE Invoke(d)
  BY <1>1, <1>3 DEF Right, Invoke, TypeOK, Where
<1>4. CASE CreateWorkspace(d)
  BY <1>1, <1>4 DEF Right, CreateWorkspace, TypeOK, Where
<1>5. CASE Submit(d)
  BY <1>1, <1>5 DEF Right, Submit, Checked, TypeOK, Where
<1>6. CASE SubmitAudio(d)
  <2>1. asked[d].modes = {"stt"} /\ asked[d].audio > 0 => TypeOf(asked[d]) = "stt"
    BY DEF TypeOf
  <2>2. CASE pc'[d] = "directory"
    <3>1. ValidPrompt(asked[d])
      BY <1>1, <1>6, <2>1, <2>2
         DEF SubmitAudio, Checked, ValidPrompt, MayBeEmpty, TypeOK
    <3> QED
      BY <1>1, <1>6, <2>2, <3>1 DEF Right, SubmitAudio, Checked, TypeOK, Where
  <2>3. CASE pc'[d] = "over"
    BY <1>1, <1>6, <2>3 DEF Right, SubmitAudio, Checked, TypeOK, Where
  <2> QED
    BY <1>1, <1>6, <2>2, <2>3 DEF SubmitAudio, Checked, TypeOK
<1>7. CASE CreateJobDirectory(d)
  BY <1>1, <1>7 DEF Right, CreateJobDirectory, TypeOK, Where
<1>8. ASSUME NEW next \in CallPC, NEW field \in FieldName, NEW content,
             pc[d] \in Staging, Write(d, field, content, next)
      PROVE  /\ pc'[d] = "cleanup" => Right(d)'
             /\ pc'[d] # "cleanup" =>
                    /\ pc'[d] = next
                    /\ staged'[d][field] = content
                    /\ \A g \in FieldName \ {field} : staged'[d][g] = staged[d][g]
             /\ place'[d] = "writing" /\ asked'[d] = asked[d]
             /\ verdict'[d] = verdict[d]
  <2>1. /\ place'[d] = "writing" /\ asked'[d] = asked[d]
        /\ verdict'[d] = verdict[d]
    BY <1>1, <1>8 DEF Write, Where
  <2>2. pc'[d] = "cleanup" => Right(d)'
    BY <1>1, <1>8, <2>1 DEF Right, Where
  <2>3. ASSUME pc'[d] # "cleanup"
        PROVE  pc'[d] = next /\ Stage(d, field, content)
    BY <1>1, <1>8, <2>3 DEF Write, TypeOK
  <2> QED
    BY <1>1, <2>1, <2>2, <2>3, StageFields
<1>9. CASE WritePromptFile(d)
  <2> DEFINE q == IF MediaCount(asked[d]) > 0 THEN "media" ELSE AfterMedia(asked[d])
  <2>1. q \in {"media", "type", "structured"} /\ q \in CallPC
    BY DEF AfterMedia, CallPC
  <2>2. pc[d] = "prompt" /\ Write(d, "prompt", asked[d].prompt, q)
    BY <1>9 DEF WritePromptFile
  <2> HIDE DEF q
  <2>3. CASE pc'[d] = "cleanup"
    BY <1>8, <2>1, <2>2, <2>3 DEF FieldName
  <2>4. CASE pc'[d] # "cleanup"
    <3>1. /\ pc'[d] = q /\ staged'[d].prompt = asked[d].prompt
          /\ \A g \in FieldName \ {"prompt"} : staged'[d][g] = NoFiles[g]
          /\ place'[d] = "writing" /\ asked'[d] = asked[d]
          /\ verdict'[d] = verdict[d]
      BY <1>1, <1>8, <2>1, <2>2, <2>4 DEF FieldName, Right
    <3>2. /\ staged'[d].images = 0 /\ staged'[d].audio = 0
          /\ staged'[d].type = "none" /\ staged'[d].grammar = "none"
          /\ staged'[d].meta = "none"
      BY <3>1 DEF FieldName, NoFiles
    <3>3. asked[d].images \in Nat /\ asked[d].audio \in Nat
      BY <1>2 DEF Options
    <3>4. q # "media" => asked[d].images = 0 /\ asked[d].audio = 0
      BY <3>3 DEF q, MediaCount
    <3>5. q = "media" => MediaCount(asked[d]) > 0
      BY DEF q, AfterMedia
    <3>6. /\ q = "type" => TypeOf(asked[d]) # "text"
          /\ q = "structured" => TypeOf(asked[d]) = "text"
      BY DEF q, AfterMedia
    <3>7. Consistent(asked[d]) /\ ValidPrompt(asked[d])
      BY <1>1, <2>2 DEF Right
    <3>8. verdict[d] = NoRun("unread")
      BY <1>1, <2>2 DEF Right, Where
    <3> QED
      BY <2>1, <3>1, <3>2, <3>3, <3>4, <3>5, <3>6, <3>7, <3>8
         DEF Right, HasPrompt, HasMedia, HasType, TypeFileOf
  <2> QED
    BY <2>3, <2>4
<1>10. ASSUME NEW field \in {"images", "audio"}, CopyMedia(d, field) PROVE Right(d)'
  <2> DEFINE other == IF field = "images" THEN "audio" ELSE "images"
  <2>1. /\ pc[d] = "media" /\ place[d] = "writing" /\ verdict[d] = NoRun("unread")
        /\ Consistent(asked[d]) /\ ValidPrompt(asked[d])
        /\ HasPrompt(staged[d], asked[d])
        /\ staged[d].images <= asked[d].images /\ staged[d].audio <= asked[d].audio
        /\ MediaCount(asked[d]) > 0
        /\ staged[d].type = "none" /\ staged[d].grammar = "none"
        /\ staged[d][field] < asked[d][field]
    BY <1>1, <1>10 DEF CopyMedia, Right, Where
  <2>2. /\ place'[d] = "writing" /\ asked'[d] = asked[d] /\ verdict'[d] = verdict[d]
    BY <1>10, <2>1 DEF CopyMedia
  <2>3. CASE pc'[d] = "cleanup"
    BY <2>1, <2>2, <2>3 DEF Right
  <2>4. CASE pc'[d] # "cleanup"
    <3>1. /\ Stage(d, field, staged[d][field] + 1)
          /\ pc'[d] = IF staged[d][field] + 1 = asked[d][field] THEN "type" ELSE "media"
      BY <1>1, <1>10, <2>1, <2>4 DEF CopyMedia, TypeOK
    <3>2. /\ staged'[d][field] = staged[d][field] + 1
          /\ \A g \in FieldName \ {field} : staged'[d][g] = staged[d][g]
      BY <1>1, <3>1, StageFields DEF FieldName
    <3>3. /\ staged'[d].prompt = staged[d].prompt
          /\ staged'[d].type = staged[d].type
          /\ staged'[d].grammar = staged[d].grammar
      BY <3>2 DEF FieldName
    <3>4. /\ asked[d].images \in Nat /\ asked[d].audio \in Nat
          /\ staged[d].images \in Nat /\ staged[d].audio \in Nat
      BY <1>2 DEF Options, Files
    <3>5. asked[d].images = 0 \/ asked[d].audio = 0
      BY <2>1, <3>4 DEF Consistent
    <3>6. TypeOf(asked[d]) # "text"
      BY <2>1, <3>4, <3>5 DEF Consistent, TypeOf, MediaCount
    <3>7. CASE field = "images"
      <4>1. /\ staged'[d].images = staged[d].images + 1
            /\ staged'[d].audio = staged[d].audio
            /\ staged[d].images < asked[d].images
        BY <2>1, <3>2, <3>7 DEF FieldName
      <4>2. asked[d].audio = 0 /\ staged[d].audio = 0
        BY <2>1, <3>4, <3>5, <4>1
      <4>3. CASE pc'[d] = "type"
        BY <2>1, <2>2, <3>1, <3>3, <3>4, <3>6, <3>7, <4>1, <4>2, <4>3
           DEF Right, HasMedia, HasPrompt
      <4>4. CASE pc'[d] = "media"
        BY <2>1, <2>2, <3>1, <3>3, <3>4, <3>6, <3>7, <4>1, <4>2, <4>4
           DEF Right, HasMedia, HasPrompt
      <4> QED
        BY <3>1, <4>3, <4>4
    <3>8. CASE field = "audio"
      <4>1. /\ staged'[d].audio = staged[d].audio + 1
            /\ staged'[d].images = staged[d].images
            /\ staged[d].audio < asked[d].audio
        BY <2>1, <3>2, <3>8 DEF FieldName
      <4>2. asked[d].images = 0 /\ staged[d].images = 0
        BY <2>1, <3>4, <3>5, <4>1
      <4>3. CASE pc'[d] = "type"
        BY <2>1, <2>2, <3>1, <3>3, <3>4, <3>6, <3>8, <4>1, <4>2, <4>3
           DEF Right, HasMedia, HasPrompt
      <4>4. CASE pc'[d] = "media"
        BY <2>1, <2>2, <3>1, <3>3, <3>4, <3>6, <3>8, <4>1, <4>2, <4>4
           DEF Right, HasMedia, HasPrompt
      <4> QED
        BY <3>1, <4>3, <4>4
    <3> QED
      BY <3>7, <3>8
  <2> QED
    BY <2>3, <2>4
<1>11. CASE WriteTypeFile(d)
  <2>1. AfterType(asked[d]) \in {"structured", "meta"} \cap CallPC
    BY DEF AfterType, CallPC
  <2>2. pc[d] = "type" /\ Write(d, "type", TypeOf(asked[d]), AfterType(asked[d]))
    BY <1>11 DEF WriteTypeFile
  <2>3. CASE pc'[d] = "cleanup"
    BY <1>8, <2>1, <2>2, <2>3 DEF FieldName
  <2>4. CASE pc'[d] # "cleanup"
    <3>1. /\ pc'[d] = AfterType(asked[d]) /\ staged'[d].type = TypeOf(asked[d])
          /\ \A g \in FieldName \ {"type"} : staged'[d][g] = staged[d][g]
          /\ place'[d] = "writing" /\ asked'[d] = asked[d]
          /\ verdict'[d] = verdict[d]
      BY <1>8, <2>1, <2>2, <2>4 DEF FieldName
    <3>2. /\ staged'[d].prompt = staged[d].prompt
          /\ staged'[d].images = staged[d].images
          /\ staged'[d].audio = staged[d].audio
          /\ staged'[d].grammar = staged[d].grammar
      BY <3>1 DEF FieldName
    <3>3. /\ Consistent(asked[d]) /\ ValidPrompt(asked[d])
          /\ HasMedia(staged[d], asked[d]) /\ TypeOf(asked[d]) # "text"
          /\ staged[d].grammar = "none" /\ verdict[d] = NoRun("unread")
      BY <1>1, <2>2 DEF Right, Where
    <3>4. HasType(staged'[d], asked'[d])
      BY <3>1, <3>2, <3>3 DEF HasType, HasMedia, HasPrompt, TypeFileOf
    <3>5. AfterType(asked[d]) = "meta" => GrammarOf(asked[d]) = "none"
      <4>1. AfterType(asked[d]) = "meta" => asked[d].structured = {}
        <5>1. AfterType(asked[d]) = "meta" => "stt" \in asked[d].modes
          BY DEF AfterType, TypeOf
        <5> QED
          BY <3>3, <5>1 DEF Consistent
      <4> QED
        BY <4>1 DEF GrammarOf
    <3> QED
      BY <2>1, <3>1, <3>2, <3>3, <3>4, <3>5 DEF Right, HasGrammar
  <2> QED
    BY <2>3, <2>4
<1>12. CASE WriteStructuredOutputFiles(d)
  <2>1. CASE asked[d].structured = {}
    <3>1. GrammarOf(asked[d]) = "none"
      BY <2>1 DEF GrammarOf
    <3> QED
      BY <1>1, <1>12, <2>1, <3>1
         DEF WriteStructuredOutputFiles, Right, HasGrammar, TypeOK, Where
  <2>2. CASE asked[d].structured # {}
    <3>1. pc[d] = "structured" /\ Write(d, "grammar", GrammarOf(asked[d]), "meta")
      BY <1>12, <2>2 DEF WriteStructuredOutputFiles, GrammarOf
    <3>2. CASE pc'[d] = "cleanup"
      BY <1>8, <3>1, <3>2 DEF FieldName, CallPC
    <3>3. CASE pc'[d] # "cleanup"
      <4>1. /\ pc'[d] = "meta" /\ staged'[d].grammar = GrammarOf(asked[d])
            /\ \A g \in FieldName \ {"grammar"} : staged'[d][g] = staged[d][g]
            /\ place'[d] = "writing" /\ asked'[d] = asked[d]
            /\ verdict'[d] = verdict[d]
        BY <1>8, <3>1, <3>3 DEF FieldName, CallPC
      <4>2. /\ staged'[d].prompt = staged[d].prompt
            /\ staged'[d].images = staged[d].images
            /\ staged'[d].audio = staged[d].audio
            /\ staged'[d].type = staged[d].type
        BY <4>1 DEF FieldName
      <4>3. /\ Consistent(asked[d]) /\ ValidPrompt(asked[d])
            /\ HasType(staged[d], asked[d]) /\ verdict[d] = NoRun("unread")
        BY <1>1, <3>1 DEF Right, Where
      <4> QED
        BY <4>1, <4>2, <4>3 DEF Right, HasGrammar, HasType, HasMedia, HasPrompt
    <3> QED
      BY <3>2, <3>3
  <2> QED
    BY <2>1, <2>2
<1>13. CASE WriteMetaFile(d)
  <2>1. pc[d] = "meta" /\ Write(d, "meta", MetaOf(asked[d]), "publish")
    BY <1>13 DEF WriteMetaFile, MetaOf
  <2>2. CASE pc'[d] = "cleanup"
    BY <1>8, <2>1, <2>2 DEF FieldName, CallPC
  <2>3. CASE pc'[d] # "cleanup"
    <3>1. /\ pc'[d] = "publish" /\ staged'[d].meta = MetaOf(asked[d])
          /\ \A g \in FieldName \ {"meta"} : staged'[d][g] = staged[d][g]
          /\ place'[d] = "writing" /\ asked'[d] = asked[d]
          /\ verdict'[d] = verdict[d]
      BY <1>8, <2>1, <2>3 DEF FieldName, CallPC
    <3>2. /\ staged'[d].prompt = staged[d].prompt
          /\ staged'[d].images = staged[d].images
          /\ staged'[d].audio = staged[d].audio
          /\ staged'[d].type = staged[d].type
          /\ staged'[d].grammar = staged[d].grammar
      BY <3>1 DEF FieldName
    <3>3. /\ Consistent(asked[d]) /\ ValidPrompt(asked[d])
          /\ HasGrammar(staged[d], asked[d]) /\ verdict[d] = NoRun("unread")
      BY <1>1, <2>1 DEF Right, Where
    <3> QED
      BY <3>1, <3>2, <3>3
         DEF Right, HasAll, HasGrammar, HasType, HasMedia, HasPrompt
  <2> QED
    BY <2>2, <2>3
<1>14. CASE AtomicPublish(d) \/ Answer(d) \/ CleanupFailedJob(d)
  BY <1>1, <1>14
     DEF AtomicPublish, Answer, CleanupFailedJob, Right, TypeOK, Where
<1>15. CASE Kill(d) \/ Vanish(d)
  BY <1>1, <1>15 DEF Kill, Vanish, Right, TypeOK, Where
<1>16. CASE Claim(d)
  BY <1>1, <1>16 DEF Claim, Right, TypeOK
<1>17. CASE Process(d)
  <2>1. /\ Consistent(asked[d]) /\ ValidPrompt(asked[d])
        /\ HasAll(staged[d], asked[d]) /\ ValidJobDirectory(staged[d])
    BY <1>1, <1>17 DEF Process, Right
  <2>2. Readable(staged[d]) /\ Route(staged[d]) = Wanted(asked[d]).as
    BY <1>2, <2>1, AcceptedIsReadable
  <2>3. Outcome(staged[d], FALSE) = Wanted(asked[d])
    BY <2>1, <2>2
       DEF Outcome, Wanted, HasAll, HasGrammar, HasType, HasMedia, HasPrompt,
           GrammarOf
  <2>4. \A f : Outcome(f, TRUE).misread
    BY DEF Outcome, NoRun
  <2>5. verdict'[d] = Wanted(asked[d]) \/ verdict'[d].misread
    <3>1. \/ verdict' = [verdict EXCEPT ![d] = Outcome(staged[d], FALSE)]
          \/ \E f : verdict' = [verdict EXCEPT ![d] = Outcome(f, TRUE)]
      BY <1>17 DEF Process
    <3>2. \/ verdict'[d] = Outcome(staged[d], FALSE)
          \/ \E f : verdict'[d] = Outcome(f, TRUE)
      BY <1>1, <3>1 DEF TypeOK
    <3> QED BY <2>3, <2>4, <3>2
  <2> QED
    BY <1>1, <1>17, <2>5 DEF Process, Right
<1>18. CASE UNCHANGED vars
  BY <1>1, <1>18 DEF vars, Right
<1>19. ASSUME NEW c \in Call \ {d},
              CallStep(c) \/ Kill(c) \/ Vanish(c) \/ Claim(c) \/ Process(c)
       PROVE  Right(d)'
  BY <1>1, <1>19, RightOfOthers
<1> QED
  BY <1>3, <1>4, <1>5, <1>6, <1>7, <1>9, <1>10, <1>11, <1>12, <1>13, <1>14,
     <1>15, <1>16, <1>17, <1>18, <1>19 DEF Next, CallStep

LEMMA SpecAllRight == Spec => []AllRight
<1>1. Init => AllRight
  BY DEF Init, AllRight, Right, Staging
<1> QED
  BY <1>1, RightNext, SpecIInv, PTL DEF Spec

-----------------------------------------------------------------------------
\* Every variable has its type, the files of a job their classes.
THEOREM Types == Spec => []TypeOK
<1>1. IInv => TypeOK
  BY DEF IInv
<1> QED BY <1>1, SpecIInv, PTL

\* An id on standard output is the id of a published job, and after an error
\* the job is not published: whatever fails, dies or disappears.
THEOREM TheAnswerIsTrue == Spec => []AnswerIsTrue
<1>1. IInv => AnswerIsTrue
  <2> SUFFICES ASSUME IInv, NEW c \in Call
               PROVE  /\ told[c] = "id" => place[c] \in {"ready", "processing"}
                      /\ told[c] = "error" => place[c] \in {"none", "writing"}
    BY DEF AnswerIsTrue
  <2>1. pc[c] \in CallPC
    BY DEF IInv, TypeOK
  <2> QED BY <2>1 DEF IInv, Where, Staging, CallPC
<1> QED BY <1>1, SpecIInv, PTL

\* What is in input/writing/ belongs to a wrk that runs, was killed or could not
\* clean up.
THEOREM StagingHasAnOwner == Spec => []StagingIsOwned
<1>1. IInv => StagingIsOwned
  <2> SUFFICES ASSUME IInv, NEW c \in Call, place[c] = "writing"
               PROVE  Running(c) \/ pc[c] = "killed" \/ c \in litter
    BY DEF StagingIsOwned
  <2>1. pc[c] \in CallPC
    BY DEF IInv, TypeOK
  <2> QED BY <2>1 DEF IInv, Where, Staging, CallPC, Running
<1> QED BY <1>1, SpecIInv, PTL
-----------------------------------------------------------------------------

\* A published job passes the scanner, unless its prompt is beyond the limit
\* of the daemon: what wrk and Work let through, the scanner lets through.
LEMMA PublishedIsClaimable == Spec => []ReadyIsClaimable
<1>1. IInv /\ AllRight => ReadyIsClaimable
  <2> SUFFICES ASSUME IInv, AllRight, NEW c \in Call,
                      place[c] = "ready", asked[c].prompt \in DaemonReads
               PROVE  ValidJobDirectory(staged[c])
    BY DEF ReadyIsClaimable
  <2>1. asked[c] \in Options /\ staged[c] \in Files
    BY DEF IInv, TypeOK
  <2>2. /\ Consistent(asked[c]) /\ ValidPrompt(asked[c])
        /\ HasAll(staged[c], asked[c])
    BY DEF AllRight, Right
  <2> QED BY <2>1, <2>2, AcceptedIsClaimable
<1> QED BY <1>1, SpecIInv, SpecAllRight, PTL

\* What a worker runs is what was asked for, and it refuses nothing that wrk
\* let through: four pieces of code agree on the options of a job.
LEMMA RunAsWasAsked == Spec => []RunAsAsked
<1>1. AllRight => RunAsAsked
  BY DEF AllRight, Right, RunAsAsked
<1> QED BY <1>1, SpecAllRight, PTL

\* What wrk accepts the daemon takes and runs as it was asked for: the rules
\* that wrk.cpp, work.cpp, scanner.cpp and processor.cpp each write down agree.
THEOREM AcceptedIsHonoured == Spec => []RulesAgree
BY PublishedIsClaimable, RunAsWasAsked, PTL DEF RulesAgree
-----------------------------------------------------------------------------
\* Only the rename and the claim move a job in the eyes of JobStates.
LEMMA PromiseStep == IInv /\ [Next]_vars => [Promise!Next]_Promise!vars
<1> SUFFICES ASSUME IInv, [Next]_vars PROVE [Promise!Next]_Promise!vars
  OBVIOUS
<1> DEFINE State == [c \in Call |-> StateOf[place[c]]]
           Runs == [c \in Call |-> IF place[c] = "processing" THEN 1 ELSE 0]
<1>1. TypeOK /\ Where
  BY DEF IInv
<1>12. /\ place \in [Call -> {"none", "writing", "ready", "processing"}]
       /\ StateOf["none"] = "staging" /\ StateOf["writing"] = "staging"
       /\ StateOf["ready"] = "queued" /\ StateOf["processing"] = "running"
  BY <1>1 DEF TypeOK, StateOf
<1>2. UNCHANGED place => UNCHANGED Promise!vars
  BY DEF Promise!vars
<1>3. ASSUME NEW c \in Call, NEW where \in {"none", "writing"},
             place[c] \in {"none", "writing"}, Place(c, where)
      PROVE  UNCHANGED Promise!vars
  <2>1. State' = State /\ Runs' = Runs
    BY <1>12, <1>3 DEF Place
  <2> QED BY <2>1 DEF Promise!vars
<1>4. ASSUME NEW c \in Call, place[c] = "writing", Place(c, "ready")
      PROVE  Promise!Next
  <2>1. State[c] = "staging"
    BY <1>12, <1>4
  <2>2. \A d \in Call : place'[d] = IF d = c THEN "ready" ELSE place[d]
    BY <1>12, <1>4 DEF Place
  <2>3. State' = [State EXCEPT ![c] = "queued"]
    BY <1>12, <2>2
  <2>4. Runs' = Runs
    BY <1>4, <2>2
  <2> QED BY <2>1, <2>3, <2>4 DEF Promise!Next, Promise!Publish, Promise!MoveTo
<1>5. ASSUME NEW c \in Call, place[c] = "ready", Place(c, "processing")
      PROVE  Promise!Next
  <2>1. State[c] = "queued"
    BY <1>12, <1>5
  <2>2. \A d \in Call : place'[d] = IF d = c THEN "processing" ELSE place[d]
    BY <1>12, <1>5 DEF Place
  <2>3. State' = [State EXCEPT ![c] = "running"]
    BY <1>12, <2>2
  <2>4. Runs' = [Runs EXCEPT ![c] = @ + 1]
    <3>1. [Runs EXCEPT ![c] = @ + 1] = [d \in Call |-> IF d = c THEN 0 + 1 ELSE Runs[d]]
      BY <1>5, Zenon
    <3>2. \A d \in Call : Runs'[d] = IF d = c THEN 1 ELSE Runs[d]
      BY <1>5, <2>2, Zenon
    <3>3. Runs' = [d \in Call |-> IF d = c THEN 1 ELSE Runs[d]]
      BY <3>2, Zenon
    <3>4. 0 + 1 = 1
      OBVIOUS
    <3> QED BY <3>1, <3>3, <3>4, Zenon
  <2> QED BY <2>1, <2>3, <2>4 DEF Promise!Next, Promise!Claim, Promise!MoveTo
<1>6. ASSUME NEW c \in Call, CreateJobDirectory(c)
      PROVE  UNCHANGED Promise!vars
  BY <1>1, <1>2, <1>3, <1>6 DEF CreateJobDirectory, Where
<1>7. ASSUME NEW c \in Call, CleanupFailedJob(c)
      PROVE  UNCHANGED Promise!vars
  BY <1>1, <1>2, <1>3, <1>7 DEF CleanupFailedJob, Where, Staging
<1>8. ASSUME NEW c \in Call, AtomicPublish(c)
      PROVE  Promise!Next \/ UNCHANGED Promise!vars
  BY <1>1, <1>2, <1>4, <1>8 DEF AtomicPublish, Where, Staging
<1>9. ASSUME NEW c \in Call, Claim(c) PROVE Promise!Next
  BY <1>5, <1>9 DEF Claim
<1>10. ASSUME NEW c \in Call,
              \/ Invoke(c) \/ CreateWorkspace(c) \/ Submit(c) \/ SubmitAudio(c)
              \/ WritePromptFile(c) \/ WriteTypeFile(c) \/ WriteMetaFile(c)
              \/ WriteStructuredOutputFiles(c) \/ Answer(c) \/ Kill(c)
              \/ Vanish(c) \/ Process(c)
              \/ \E field \in {"images", "audio"} : CopyMedia(c, field)
       PROVE  UNCHANGED place
  BY <1>10 DEF Invoke, CreateWorkspace, Submit, SubmitAudio, Checked,
               WritePromptFile, CopyMedia, WriteTypeFile, WriteMetaFile,
               WriteStructuredOutputFiles, Write, Answer, Kill, Vanish, Process
<1>11. CASE UNCHANGED vars
  BY <1>2, <1>11 DEF vars
<1> QED
  BY <1>2, <1>6, <1>7, <1>8, <1>9, <1>10, <1>11 DEF Next, CallStep

\* A submission implements the beginning of JobStates: a job is published by
\* one step and never taken back, whatever fails, dies or disappears.
THEOREM PromiseKept == Spec => KeepsPromise
<1>1. Init => Promise!Init
  BY DEF Init, Promise!Init, StateOf
<1> QED
  BY <1>1, PromiseStep, SpecIInv, PTL DEF Spec, KeepsPromise, Promise!Spec
=============================================================================
