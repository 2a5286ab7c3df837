------------------------- MODULE JobPipelineProofs -------------------------
(***************************************************************************)
(* The safety properties of JobPipeline for any number of jobs, workers,   *)
(* crashes, stops and failing file operations, and any ceiling.            *)
(*                                                                         *)
(* None of the properties is inductive alone.  Inv adds what the program   *)
(* counters know: which files are whole when the rename that publishes     *)
(* them is next (Written), that an attempt is on disk before the run it    *)
(* pays for (Charged), and that each attempt, charged or still to be       *)
(* charged, has a crash or a failed operation of its own (Paid).  One      *)
(* lemma per part shows that a step preserves it; a step that leaves the   *)
(* part's variables alone is one case, every other action has its own.     *)
(***************************************************************************)
EXTENDS JobPipeline, Counting, TLAPS

\* Tuples of variables and the updates the actions are written with.
USE DEF meta, files, diskVars, workerVars, recVars, history, halts, Fault,
        Succeed, SetDir, SetMeta, SetTmp, SetError, SetResponse, Goto,
        Release, FailWith, Unfinalized, NextOrphan, AtCeiling, CanHalt,
        MetaUnreadable

(***************************************************************************)
(* Type correctness.  A worker that is past "idle" holds a job, so the     *)
(* counters it reads from disk are counters.                               *)
(***************************************************************************)
LEMMA TypeNext == TypeOK /\ Bookkeeping /\ [Next]_vars => TypeOK'
<1> SUFFICES ASSUME TypeOK, Bookkeeping, [Next]_vars PROVE TypeOK'
  OBVIOUS
<1> USE DEF TypeOK, Dir, MetaStatus, WorkerPC, RecoveryPC
<1>1. ASSUME NEW j \in Job, Publish(j) PROVE TypeOK'
  BY <1>1 DEF Publish
<1>2. ASSUME NEW w \in Worker, WorkerStep(w) PROVE TypeOK'
  <2>1. pc[w] # "idle" => job[w] \in Job
    BY DEF Bookkeeping
  <2>2. CASE \E j \in Job : Take(w, j)
    BY <2>2 DEF Take
  <2>3. CASE Claim(w)
    BY <2>3 DEF Claim
  <2>4. CASE Execute(w)
    BY <2>4 DEF Execute
  <2>5. CASE DoneMeta(w)
    BY <2>1, <2>5 DEF DoneMeta, CompleteJob
  <2>6. CASE WriteTmp(w)
    BY <2>1, <2>6 DEF WriteTmp
  <2>7. CASE RenameArtifact(w)
    BY <2>1, <2>7 DEF RenameArtifact
  <2>8. CASE MoveToOutput(w)
    BY <2>8 DEF MoveToOutput
  <2>9. CASE FailMeta(w)
    BY <2>1, <2>9 DEF FailMeta, CompleteJob
  <2>10. CASE WriteError(w)
    BY <2>1, <2>10 DEF WriteError
  <2>11. CASE WritePartial(w)
    BY <2>1, <2>11 DEF WritePartial
  <2>12. CASE MoveToFailed(w)
    BY <2>12 DEF MoveToFailed
  <2> QED
    BY <1>2, <2>2, <2>3, <2>4, <2>5, <2>6, <2>7, <2>8, <2>9, <2>10, <2>11,
       <2>12 DEF WorkerStep
<1>3. CASE Start \/ Serve \/ RecoveryBreaksOff \/ StartFails \/ Stop \/ Stopped
  BY <1>3 DEF Start, Serve, RecoveryBreaksOff, StartFails, Stop, Stopped
<1>4. ASSUME NEW j \in Job, RecoverRead(j) PROVE TypeOK'
  BY <1>4 DEF RecoverRead
<1>5. CASE RecoverCeiling \/ RecoverCharge \/ RecoverRequeue \/ RecoverFallback
  BY <1>5 DEF RecoverCeiling, RecoverCharge, RecoverRequeue, RecoverFallback
<1>6. CASE RecoverError \/ RecoverMeta \/ RecoverMove
  BY <1>6 DEF RecoverError, RecoverMeta, RecoverMove, Bookkeeping, RecoveryOwns
<1>7. CASE Crash
  BY <1>7 DEF Crash, Torn
<1>8. CASE UNCHANGED vars
  BY <1>8 DEF vars
<1> QED
  BY <1>1, <1>2, <1>3, <1>4, <1>5, <1>6, <1>7, <1>8 DEF Next, RecoveryStep

(***************************************************************************)
(* Threads and what they hold.  Recovery's orphans stay in processing/     *)
(* because no worker runs beside it.                                       *)
(***************************************************************************)
LEMMA BookkeepingNext == Inv /\ [Next]_vars => Bookkeeping'
<1> SUFFICES ASSUME Inv, [Next]_vars PROVE Bookkeeping'
  OBVIOUS
<1> USE JobAssumption DEF Inv, TypeOK, Bookkeeping, RecoveryOwns, JobAssumption
<1>1. ASSUME NEW j \in Job, Publish(j) PROVE Bookkeeping'
  BY <1>1 DEF Publish
<1>2. ASSUME NEW w \in Worker, WorkerStep(w) PROVE Bookkeeping'
  <2>1. daemon \notin {"down", "recovering"}
    BY <1>2 DEF WorkerStep, Take, Claim, Execute, DoneMeta, WriteTmp,
         RenameArtifact, MoveToOutput, FailMeta, WriteError, WritePartial,
         MoveToFailed
  <2>2. UNCHANGED <<daemon, recVars>>
    BY <1>2 DEF WorkerStep, Take, Claim, Execute, DoneMeta, CompleteJob,
         WriteTmp, RenameArtifact, MoveToOutput, FailMeta, WriteError,
         WritePartial, MoveToFailed
  <2>3. pc'[w] # "idle" <=> job'[w] # NoJob
    BY <1>2 DEF WorkerStep, Take, Claim, Execute, DoneMeta, CompleteJob,
         WriteTmp, RenameArtifact, MoveToOutput, FailMeta, WriteError,
         WritePartial, MoveToFailed
  <2>4. \A v \in Worker \ {w} : pc'[v] = pc[v] /\ job'[v] = job[v]
    BY <1>2 DEF WorkerStep, Take, Claim, Execute, DoneMeta, CompleteJob,
         WriteTmp, RenameArtifact, MoveToOutput, FailMeta, WriteError,
         WritePartial, MoveToFailed
  <2> QED
    BY <2>1, <2>2, <2>3, <2>4
<1>3. CASE Start \/ Serve \/ RecoveryBreaksOff \/ StartFails \/ Stop \/ Stopped
  BY <1>3 DEF Start, Serve, RecoveryBreaksOff, StartFails, Stop, Stopped
<1>4. ASSUME NEW j \in Job, RecoverRead(j) PROVE Bookkeeping'
  BY <1>4 DEF RecoverRead
<1>5. CASE RecoverCeiling \/ RecoverCharge
  BY <1>5 DEF RecoverCeiling, RecoverCharge
<1>6. CASE RecoverRequeue \/ RecoverFallback
  BY <1>6 DEF RecoverRequeue, RecoverFallback
<1>7. CASE RecoverError \/ RecoverMeta \/ RecoverMove
  BY <1>7 DEF RecoverError, RecoverMeta, RecoverMove
<1>8. CASE Crash
  BY <1>8 DEF Crash
<1>9. CASE UNCHANGED vars
  BY <1>9 DEF vars
<1> QED
  BY <1>1, <1>2, <1>3, <1>4, <1>5, <1>6, <1>7, <1>8, <1>9
     DEF Next, RecoveryStep

(***************************************************************************)
(* One owner per directory.  The claim is the only way in, and it needs    *)
(* the directory in ready/, where no owned job is.                         *)
(***************************************************************************)
LEMMA OneOwnerNext == Inv /\ [Next]_vars => OneOwner'
<1> SUFFICES ASSUME Inv, [Next]_vars PROVE OneOwner'
  OBVIOUS
<1> USE JobAssumption
    DEF Inv, TypeOK, Bookkeeping, OneOwner, Busy, RecoveryOwns, JobAssumption
<1>1. ASSUME NEW j \in Job, Publish(j) PROVE OneOwner'
  BY <1>1 DEF Publish
<1>2. ASSUME NEW w \in Worker, NEW j \in Job, Take(w, j) PROVE OneOwner'
  BY <1>2 DEF Take
<1>3. ASSUME NEW w \in Worker, Claim(w) PROVE OneOwner'
  BY <1>3 DEF Claim
<1>4. ASSUME NEW w \in Worker, Execute(w) \/ DoneMeta(w) \/ FailMeta(w)
      PROVE  OneOwner'
  BY <1>4 DEF Execute, DoneMeta, FailMeta, CompleteJob
<1>5. ASSUME NEW w \in Worker, WriteTmp(w) \/ RenameArtifact(w)
      PROVE  OneOwner'
  BY <1>5 DEF WriteTmp, RenameArtifact
<1>6. ASSUME NEW w \in Worker, MoveToOutput(w) \/ MoveToFailed(w)
      PROVE  OneOwner'
  BY <1>6 DEF MoveToOutput, MoveToFailed
<1>7. ASSUME NEW w \in Worker, WriteError(w) \/ WritePartial(w)
      PROVE  OneOwner'
  BY <1>7 DEF WriteError, WritePartial
<1>8. CASE Start \/ Serve \/ RecoveryBreaksOff \/ StartFails \/ Stop \/ Stopped
  BY <1>8 DEF Start, Serve, RecoveryBreaksOff, StartFails, Stop, Stopped
<1>9. ASSUME NEW j \in Job, RecoverRead(j) PROVE OneOwner'
  BY <1>9 DEF RecoverRead
<1>10. CASE RecoverCeiling \/ RecoverCharge \/ RecoverMeta
  BY <1>10 DEF RecoverCeiling, RecoverCharge, RecoverMeta
<1>11. CASE RecoverRequeue \/ RecoverFallback \/ RecoverMove
  BY <1>11 DEF RecoverRequeue, RecoverFallback, RecoverMove
<1>12. CASE RecoverError
  BY <1>12 DEF RecoverError
<1>13. CASE Crash
  BY <1>13 DEF Crash
<1>14. CASE UNCHANGED vars
  BY <1>14 DEF vars
<1> QED
  BY <1>1, <1>2, <1>3, <1>4, <1>5, <1>6, <1>7, <1>8, <1>9, <1>10, <1>11,
     <1>12, <1>13, <1>14 DEF Next, WorkerStep, RecoveryStep

(***************************************************************************)
(* The attempt is charged before the job is requeued, and a run that is    *)
(* under way is at most one ahead of the attempts on disk.                 *)
(***************************************************************************)
LEMMA ChargedNext == Inv /\ [Next]_vars => Charged'
<1> SUFFICES ASSUME Inv, [Next]_vars PROVE Charged'
  OBVIOUS
<1> USE JobAssumption, BoundAssumption
    DEF Inv, TypeOK, Bookkeeping, OneOwner, Busy, RecoveryOwns, Charged,
        JobAssumption, BoundAssumption
<1>1. ASSUME NEW j \in Job, Publish(j) PROVE Charged'
  BY <1>1 DEF Publish
<1>2. ASSUME NEW w \in Worker, Claim(w) PROVE Charged'
  BY <1>2 DEF Claim
<1>3. ASSUME NEW w \in Worker, DoneMeta(w) \/ FailMeta(w) PROVE Charged'
  BY <1>3 DEF DoneMeta, FailMeta, CompleteJob
<1>4. ASSUME NEW w \in Worker, MoveToOutput(w) \/ MoveToFailed(w)
      PROVE  Charged'
  BY <1>4 DEF MoveToOutput, MoveToFailed
<1>5. CASE Start \/ Serve \/ RecoveryBreaksOff \/ StartFails
  BY <1>5 DEF Start, Serve, RecoveryBreaksOff, StartFails
<1>6. ASSUME NEW j \in Job, RecoverRead(j) PROVE Charged'
  BY <1>6 DEF RecoverRead
<1>7. CASE RecoverCeiling
  BY <1>7 DEF RecoverCeiling
<1>8. CASE RecoverCharge
  BY <1>8 DEF RecoverCharge
<1>9. CASE RecoverRequeue \/ RecoverFallback
  BY <1>9 DEF RecoverRequeue, RecoverFallback
<1>10. CASE RecoverError \/ RecoverMeta \/ RecoverMove
  BY <1>10 DEF RecoverError, RecoverMeta, RecoverMove
<1>11. CASE Crash
  BY <1>11 DEF Crash
<1>12. CASE UNCHANGED <<dir, attempts, runs, forgot, rpc, rjob, rattempts>>
  BY <1>12
<1>13. ASSUME NEW w \in Worker,
              \/ \E j \in Job : Take(w, j)
              \/ Execute(w) \/ WriteTmp(w) \/ RenameArtifact(w)
              \/ WriteError(w) \/ WritePartial(w)
       PROVE  UNCHANGED <<dir, attempts, runs, forgot, rpc, rjob, rattempts>>
  BY <1>13 DEF Take, Execute, WriteTmp, RenameArtifact, WriteError,
       WritePartial
<1>14. CASE Stop \/ Stopped \/ UNCHANGED vars
  BY <1>12, <1>14 DEF Stop, Stopped, vars
<1> QED
  BY <1>1, <1>2, <1>3, <1>4, <1>5, <1>6, <1>7, <1>8, <1>9, <1>10, <1>11,
     <1>12, <1>13, <1>14 DEF Next, WorkerStep, RecoveryStep

(***************************************************************************)
(* A file is whole from the step that wrote it to the rename that          *)
(* publishes it: only the owner writes into the directory, and a crash     *)
(* tears nothing but what a step was writing.                              *)
(***************************************************************************)
LEMMA WrittenNext == Inv /\ [Next]_vars => Written'
<1> SUFFICES ASSUME Inv, [Next]_vars PROVE Written'
  OBVIOUS
<1> USE JobAssumption
    DEF Inv, TypeOK, Bookkeeping, OneOwner, Busy, RecoveryOwns, Written,
        JobAssumption
<1>1. ASSUME NEW j \in Job, Publish(j) PROVE Written'
  BY <1>1 DEF Publish
<1>2. ASSUME NEW w \in Worker, NEW j \in Job, Take(w, j) PROVE Written'
  BY <1>2 DEF Take
<1>3. ASSUME NEW w \in Worker, Claim(w) PROVE Written'
  BY <1>3 DEF Claim
<1>4. ASSUME NEW w \in Worker, Execute(w) \/ DoneMeta(w) \/ FailMeta(w)
      PROVE  Written'
  BY <1>4 DEF Execute, DoneMeta, FailMeta, CompleteJob
<1>5. ASSUME NEW w \in Worker, WriteTmp(w) PROVE Written'
  BY <1>5 DEF WriteTmp
<1>6. ASSUME NEW w \in Worker, RenameArtifact(w) PROVE Written'
  BY <1>6 DEF RenameArtifact
<1>7. ASSUME NEW w \in Worker, WriteError(w) PROVE Written'
  BY <1>7 DEF WriteError
<1>8. ASSUME NEW w \in Worker, WritePartial(w) PROVE Written'
  BY <1>8 DEF WritePartial
<1>9. ASSUME NEW w \in Worker, MoveToOutput(w) \/ MoveToFailed(w)
      PROVE  Written'
  BY <1>9 DEF MoveToOutput, MoveToFailed
<1>10. CASE \/ Start \/ Serve \/ RecoveryBreaksOff \/ StartFails
            \/ Stop \/ Stopped
  BY <1>10 DEF Start, Serve, RecoveryBreaksOff, StartFails, Stop, Stopped
<1>11. ASSUME NEW j \in Job, RecoverRead(j) PROVE Written'
  BY <1>11 DEF RecoverRead
<1>12. CASE RecoverCeiling \/ RecoverCharge \/ RecoverMeta
  BY <1>12 DEF RecoverCeiling, RecoverCharge, RecoverMeta
<1>13. CASE RecoverRequeue \/ RecoverFallback \/ RecoverMove
  BY <1>13 DEF RecoverRequeue, RecoverFallback, RecoverMove
<1>14. CASE RecoverError
  BY <1>14 DEF RecoverError
<1>15. CASE Crash
  BY <1>15 DEF Crash
<1>16. CASE UNCHANGED vars
  BY <1>16 DEF vars
<1> QED
  BY <1>1, <1>2, <1>3, <1>4, <1>5, <1>6, <1>7, <1>8, <1>9, <1>10, <1>11,
     <1>12, <1>13, <1>14, <1>15, <1>16 DEF Next, WorkerStep, RecoveryStep

(***************************************************************************)
(* What is in output/ was written by the run that moved it there, and      *)
(* nothing writes into output/ afterwards, not even a crash.               *)
(***************************************************************************)
LEMMA FreshNext == Inv /\ [Next]_vars => DoneIsFresh'
<1> SUFFICES ASSUME Inv, [Next]_vars PROVE DoneIsFresh'
  OBVIOUS
<1> USE JobAssumption
    DEF Inv, TypeOK, Bookkeeping, OneOwner, Busy, RecoveryOwns, DoneIsFresh,
        JobAssumption
<1>1. ASSUME NEW j \in Job, Publish(j) PROVE DoneIsFresh'
  BY <1>1 DEF Publish
<1>2. ASSUME NEW w \in Worker, Claim(w) PROVE DoneIsFresh'
  BY <1>2 DEF Claim
<1>3. ASSUME NEW w \in Worker, WriteTmp(w) \/ RenameArtifact(w)
      PROVE  DoneIsFresh'
  BY <1>3 DEF WriteTmp, RenameArtifact
<1>4. ASSUME NEW w \in Worker, MoveToOutput(w) PROVE DoneIsFresh'
  BY <1>4 DEF MoveToOutput, Written
<1>5. ASSUME NEW w \in Worker, MoveToFailed(w) PROVE DoneIsFresh'
  BY <1>5 DEF MoveToFailed
<1>6. CASE RecoverRequeue \/ RecoverFallback \/ RecoverMove
  BY <1>6 DEF RecoverRequeue, RecoverFallback, RecoverMove
<1>7. CASE Crash
  <2>1. \A j \in WritingTmp : dir[j] = "processing"
    BY DEF WritingTmp
  <2> QED
    BY <1>7, <2>1 DEF Crash, Torn
<1>8. CASE UNCHANGED <<dir, tmp, artifact, runs>>
  BY <1>8
<1>9. ASSUME NEW w \in Worker,
             \/ \E j \in Job : Take(w, j)
             \/ Execute(w) \/ DoneMeta(w) \/ FailMeta(w)
             \/ WriteError(w) \/ WritePartial(w)
      PROVE  UNCHANGED <<dir, tmp, artifact, runs>>
  BY <1>9 DEF Take, Execute, DoneMeta, FailMeta, CompleteJob, WriteError,
       WritePartial
<1>10. ASSUME \/ \E j \in Job : RecoverRead(j)
              \/ RecoverCeiling \/ RecoverCharge \/ RecoverError
              \/ RecoverMeta \/ Serve \/ RecoveryBreaksOff
       PROVE  UNCHANGED <<dir, tmp, artifact, runs>>
  BY <1>10 DEF RecoverRead, RecoverCeiling, RecoverCharge, RecoverError,
       RecoverMeta, Serve, RecoveryBreaksOff
<1>11. ASSUME Start \/ StartFails \/ Stop \/ Stopped \/ UNCHANGED vars
       PROVE  UNCHANGED <<dir, tmp, artifact, runs>>
  BY <1>11 DEF Start, StartFails, Stop, Stopped, vars
<1> QED
  BY <1>1, <1>2, <1>3, <1>4, <1>5, <1>6, <1>7, <1>8, <1>9, <1>10, <1>11
     DEF Next, WorkerStep, RecoveryStep

(***************************************************************************)
(* A job is abandoned in processing/ by a crash or by a failed file        *)
(* operation only, and each abandonment is charged once: a stop waits for  *)
(* the workers, so it abandons nothing.                                    *)
(***************************************************************************)
LEMMA PaidNext == Inv /\ [Next]_vars => Paid'
<1> SUFFICES ASSUME Inv, [Next]_vars PROVE Paid'
  OBVIOUS
<1> USE JobAssumption
    DEF Inv, TypeOK, Bookkeeping, OneOwner, Busy, RecoveryOwns, Paid, Unpaid,
        JobAssumption
<1>1. ASSUME NEW j \in Job, Publish(j) PROVE Paid'
  BY <1>1 DEF Publish
<1>2. ASSUME NEW w \in Worker, NEW j \in Job, Take(w, j) PROVE Paid'
  BY <1>2 DEF Take
<1>3. ASSUME NEW w \in Worker, Claim(w) PROVE Paid'
  BY <1>3 DEF Claim
<1>4. ASSUME NEW w \in Worker, Execute(w) PROVE Paid'
  BY <1>4 DEF Execute
<1>5. ASSUME NEW w \in Worker, DoneMeta(w) \/ FailMeta(w) PROVE Paid'
  BY <1>5 DEF DoneMeta, FailMeta, CompleteJob
<1>6. ASSUME NEW w \in Worker, WriteTmp(w) \/ RenameArtifact(w) PROVE Paid'
  BY <1>6 DEF WriteTmp, RenameArtifact
<1>7. ASSUME NEW w \in Worker, MoveToOutput(w) PROVE Paid'
  BY <1>7 DEF MoveToOutput
<1>8. ASSUME NEW w \in Worker, WriteError(w) \/ WritePartial(w) PROVE Paid'
  BY <1>8 DEF WriteError, WritePartial
<1>9. ASSUME NEW w \in Worker, MoveToFailed(w) PROVE Paid'
  BY <1>9 DEF MoveToFailed
<1>10. CASE \/ Start \/ Serve \/ RecoveryBreaksOff \/ StartFails
            \/ Stop \/ Stopped
  BY <1>10 DEF Start, Serve, RecoveryBreaksOff, StartFails, Stop, Stopped
<1>11. ASSUME NEW j \in Job, RecoverRead(j) PROVE Paid'
  BY <1>11 DEF RecoverRead
<1>12. CASE RecoverCeiling \/ RecoverCharge
  BY <1>12 DEF RecoverCeiling, RecoverCharge
<1>13. CASE RecoverRequeue \/ RecoverFallback
  BY <1>13 DEF RecoverRequeue, RecoverFallback
<1>14. CASE RecoverError \/ RecoverMeta \/ RecoverMove
  BY <1>14 DEF RecoverError, RecoverMeta, RecoverMove
<1>15. CASE Crash
  BY <1>15 DEF Crash
<1>16. CASE UNCHANGED vars
  BY <1>16 DEF vars
<1> QED
  BY <1>1, <1>2, <1>3, <1>4, <1>5, <1>6, <1>7, <1>8, <1>9, <1>10, <1>11,
     <1>12, <1>13, <1>14, <1>15, <1>16 DEF Next, WorkerStep, RecoveryStep
-----------------------------------------------------------------------------
LEMMA InvInit == Init => Inv
BY BoundAssumption
   DEF Init, Inv, TypeOK, Dir, MetaStatus, WorkerPC, RecoveryPC, Bookkeeping,
       OneOwner, Busy, RecoveryOwns, Charged, Written, DoneIsFresh, Paid,
       Unpaid, BoundAssumption

\* Inv is inductive: the conjunction of the lemmas above.
LEMMA InvNext == Inv /\ [Next]_vars => Inv'
<1> SUFFICES ASSUME Inv, [Next]_vars PROVE Inv'
  OBVIOUS
<1>1. TypeOK /\ Bookkeeping
  BY DEF Inv
<1> QED
  BY <1>1, TypeNext, BookkeepingNext, OneOwnerNext, ChargedNext, WrittenNext,
     FreshNext, PaidNext DEF Inv

LEMMA Invariance == Spec => []Inv
BY InvInit, InvNext, PTL DEF Spec

(***************************************************************************)
(* Every variable of the workspace and of the daemon keeps its type.       *)
(***************************************************************************)
THEOREM TypeCorrect == Spec => []TypeOK
<1>1. Inv => TypeOK
  BY DEF Inv
<1> QED
  BY <1>1, Invariance, PTL

(***************************************************************************)
(* A job directory has one owner: the rename from ready/ to processing/    *)
(* is enough to keep any number of workers, and recovery, out of each      *)
(* other's jobs.                                                           *)
(***************************************************************************)
THEOREM Ownership == Spec => []OneOwner
<1>1. Inv => OneOwner
  BY DEF Inv
<1> QED
  BY <1>1, Invariance, PTL

(***************************************************************************)
(* The recovery ceiling bounds the runs of a job, for any ceiling.         *)
(***************************************************************************)
THEOREM Ceiling == Spec => []RunsBounded
<1>1. Inv => RunsBounded
  <2> SUFFICES ASSUME Inv, NEW j \in Job, j \notin forgot
               PROVE  runs[j] <= MaxRecovery + 1
    BY DEF RunsBounded
  <2>1. attempts[j] <= MaxRecovery /\ runs[j] <= attempts[j] + 1
    BY DEF Inv, Charged
  <2> QED
    BY <2>1, BoundAssumption DEF Inv, TypeOK, BoundAssumption
<1> QED
  BY <1>1, Invariance, PTL

(***************************************************************************)
(* A job in output/ holds the whole artifact of its last run.              *)
(***************************************************************************)
THEOREM Freshness == Spec => []DoneIsFresh
<1>1. Inv => DoneIsFresh
  BY DEF Inv
<1> QED
  BY <1>1, Invariance, PTL

(***************************************************************************)
(* Recovery attempts never outnumber the crashes and failed operations.    *)
(***************************************************************************)
THEOREM Stops == Spec => []StopsAreFree
<1>1. Inv => StopsAreFree
  BY DEF Inv, Paid, StopsAreFree
<1> QED
  BY <1>1, Invariance, PTL
-----------------------------------------------------------------------------
(***************************************************************************)
(* Lost jobs.  A step loses one job at most, and only when its file        *)
(* operation fails: every other way out of a worker's or recovery's hands  *)
(* is a rename out of processing/.  The exception is a listing that breaks *)
(* off, which loses no job that is not counted in skipped.                 *)
(***************************************************************************)
LosesNone ==
    /\ Lost' \subseteq Lost
    /\ skipped' = skipped
    /\ faults' \in {faults, faults + 1}

LosesOne ==
    /\ faults' = faults + 1
    /\ skipped' = skipped
    /\ \E j \in Job : Lost' \subseteq Lost \cup {j}

\* A worker gives its job up only in the last steps of the failure path.
LEMMA WorkerLoses ==
    ASSUME Inv, NEW w \in Worker, WorkerStep(w)
    PROVE  LosesNone \/ LosesOne
<1> USE JobAssumption
    DEF Inv, TypeOK, Bookkeeping, OneOwner, Busy, Stranded, Lost, Waiting,
        JobAssumption, LosesNone
<1>1. CASE \E j \in Job : Take(w, j)
  BY <1>1 DEF Take
<1>2. CASE Claim(w)
  BY <1>2 DEF Claim
<1>3. CASE Execute(w)
  BY <1>3 DEF Execute
<1>4. CASE DoneMeta(w) \/ FailMeta(w)
  BY <1>4 DEF DoneMeta, FailMeta, CompleteJob
<1>5. CASE WriteTmp(w)
  BY <1>5 DEF WriteTmp
<1>6. CASE RenameArtifact(w)
  BY <1>6 DEF RenameArtifact
<1>7. CASE MoveToOutput(w)
  BY <1>7 DEF MoveToOutput
<1>8. ASSUME WriteError(w) \/ WritePartial(w) \/ MoveToFailed(w)
      PROVE  LosesNone \/ LosesOne
  <2>1. /\ job[w] \in Job
        /\ skipped' = skipped
        /\ faults' \in {faults, faults + 1}
        /\ Lost' \subseteq Lost \cup {job[w]}
    BY <1>8 DEF WriteError, WritePartial, MoveToFailed
  <2>2. CASE faults' = faults
    BY <1>8, <2>2 DEF WriteError, WritePartial, MoveToFailed
  <2> QED
    BY <2>1, <2>2 DEF LosesOne
<1> QED
  BY <1>1, <1>2, <1>3, <1>4, <1>5, <1>6, <1>7, <1>8 DEF WorkerStep

\* A recovery step gives up the job it holds when the operation fails.
LEMMA RecoveryLoses ==
    ASSUME Inv, RecoveryStep, ~RecoveryBreaksOff
    PROVE  LosesNone \/ LosesOne
<1> USE JobAssumption
    DEF Inv, TypeOK, Bookkeeping, OneOwner, Busy, RecoveryOwns, Stranded, Lost,
        Waiting, JobAssumption, LosesNone
<1>1. CASE \E j \in Job : RecoverRead(j)
  BY <1>1 DEF RecoverRead
<1>2. CASE RecoverCeiling \/ RecoverCharge \/ Serve
  BY <1>2 DEF RecoverCeiling, RecoverCharge, Serve
<1>3. CASE RecoverRequeue
  BY <1>3 DEF RecoverRequeue
<1>4. ASSUME RecoverFallback \/ RecoverError \/ RecoverMeta \/ RecoverMove
      PROVE  LosesNone \/ LosesOne
  <2>1. rjob \in Job
    BY <1>4 DEF RecoverFallback, RecoverError, RecoverMeta, RecoverMove
  <2>2. Lost' \subseteq Lost \cup {rjob}
    BY <1>4, <2>1
       DEF RecoverFallback, RecoverError, RecoverMeta, RecoverMove
  <2>3. CASE faults' = faults
    BY <1>4, <2>1, <2>3
       DEF RecoverFallback, RecoverError, RecoverMeta, RecoverMove
  <2>4. faults' \in {faults, faults + 1} /\ skipped' = skipped
    BY <1>4 DEF RecoverFallback, RecoverError, RecoverMeta, RecoverMove
  <2> QED
    BY <2>1, <2>2, <2>3, <2>4 DEF LosesOne
<1> QED
  BY <1>1, <1>2, <1>3, <1>4 DEF RecoveryStep

LEMMA StepLoses ==
    ASSUME Inv, [Next]_vars, ~Start, ~RecoveryBreaksOff
    PROVE  LosesNone \/ LosesOne
<1> USE DEF Inv, TypeOK, Stranded, Lost, Waiting, Busy, LosesNone
<1>1. CASE \E j \in Job : Publish(j)
  BY <1>1 DEF Publish
<1>2. CASE \E w \in Worker : WorkerStep(w)
  BY <1>2, WorkerLoses
<1>3. CASE RecoveryStep
  BY <1>3, RecoveryLoses
<1>4. CASE StartFails \/ Stop \/ Stopped \/ Crash
  BY <1>4 DEF StartFails, Stop, Stopped, Crash
<1>5. CASE UNCHANGED vars
  BY <1>5 DEF vars
<1> QED
  BY <1>1, <1>2, <1>3, <1>4, <1>5 DEF Next

\* Recovery takes up every job that is in processing/ when it starts.
LEMMA StartLosesNothing ==
    ASSUME Inv, Start
    PROVE  Lost' = {} /\ skipped' = {} /\ faults' = faults
BY DEF Inv, TypeOK, Start, Stranded, Lost, Waiting

\* The listing breaks off at most once, with orphans still to visit.
LEMMA BreakLosesTheSkipped ==
    ASSUME Inv, RecoveryBreaksOff
    PROVE  Lost' \subseteq Lost /\ skipped = {} /\ faults' = faults + 1
BY DEF Inv, TypeOK, Bookkeeping, RecoveryBreaksOff, Stranded, Lost, Waiting,
       Busy

LEMMA StrandedNext ==
    ASSUME Inv, StrandedByFaults, [Next]_vars
    PROVE  StrandedByFaults'
<1> DEFINE Budget == IF skipped = {} THEN faults ELSE faults - 1
<1>1. /\ faults \in Nat /\ Budget \in Nat
      /\ IsFiniteSet(Lost) /\ Cardinality(Lost) <= Budget
  <2>1. faults \in Nat /\ IsFiniteSet(Lost) /\ Cardinality(Lost) \in Nat
    BY FS_CardinalityType DEF Inv, TypeOK, StrandedByFaults
  <2> QED
    BY <2>1 DEF StrandedByFaults
<1>2. CASE Start
  <2>1. Lost' = {} /\ skipped' = {} /\ faults' \in Nat
    BY <1>1, <1>2, StartLosesNothing
  <2>2. IsFiniteSet(Lost') /\ Cardinality(Lost') = 0
    BY <2>1, FS_EmptySet
  <2> QED
    BY <2>1, <2>2 DEF StrandedByFaults
<1>3. CASE RecoveryBreaksOff
  <2>1. /\ Lost' \subseteq Lost /\ faults' = faults + 1
        /\ Cardinality(Lost) <= faults
    BY <1>1, <1>3, BreakLosesTheSkipped
  <2>2. IsFiniteSet(Lost') /\ Cardinality(Lost') <= faults
    BY <1>1, <2>1, StaysWithin
  <2>3. Cardinality(Lost') \in Nat
    BY <2>2, FS_CardinalityType
  <2> QED
    BY <1>1, <2>1, <2>2, <2>3 DEF StrandedByFaults
<1>4. CASE LosesNone
  <2>1. Budget' = IF skipped = {} THEN faults' ELSE faults' - 1
    BY <1>4 DEF LosesNone
  <2>2. faults' = faults \/ faults' = faults + 1
    BY <1>4 DEF LosesNone
  <2>3. Budget' \in Nat /\ Budget <= Budget'
    BY <1>1, <2>1, <2>2
  <2>4. IsFiniteSet(Lost') /\ Cardinality(Lost') <= Budget'
    BY <1>1, <1>4, <2>3, StaysWithin DEF LosesNone
  <2>5. Cardinality(Lost') \in Nat
    BY <2>4, FS_CardinalityType
  <2> QED
    BY <1>1, <1>4, <2>2, <2>4, <2>5 DEF StrandedByFaults, LosesNone
<1>5. CASE LosesOne
  <2>1. PICK j \in Job : Lost' \subseteq Lost \cup {j}
    BY <1>5 DEF LosesOne
  <2>2. IsFiniteSet(Lost') /\ Cardinality(Lost') <= Budget + 1
    BY <1>1, <2>1, GainsOne
  <2>3. Cardinality(Lost') \in Nat
    BY <2>2, FS_CardinalityType
  <2>4. Budget' = Budget + 1
    BY <1>1, <1>5 DEF LosesOne
  <2> QED
    BY <1>1, <1>5, <2>2, <2>3, <2>4 DEF StrandedByFaults, LosesOne
<1> QED
  BY <1>2, <1>3, <1>4, <1>5, StepLoses

(***************************************************************************)
(* Each job that a running daemon has lost is paid for by a failed file    *)
(* operation of its own, or was left unvisited by recovery's one failed    *)
(* listing, for any number of jobs, workers and failures.                  *)
(***************************************************************************)
THEOREM StrandedOnlyByFaults == Spec => []StrandedByFaults
<1>1. Init => StrandedByFaults
  <2> SUFFICES ASSUME Init PROVE StrandedByFaults
    OBVIOUS
  <2>1. Lost = {} /\ skipped = {}
    BY DEF Init, Stranded, Lost
  <2> QED
    BY <2>1, FS_EmptySet DEF Init, StrandedByFaults
<1>2. Inv /\ StrandedByFaults /\ [Next]_vars => StrandedByFaults'
  BY StrandedNext
<1> QED
  BY <1>1, <1>2, Invariance, PTL DEF Spec
-----------------------------------------------------------------------------
(***************************************************************************)
(* What a step may do to a job directory, and what is in it when it does.  *)
(***************************************************************************)
\* Entering failed/: the diagnosis is there, or the fallback moved it.
LEMMA EntersFailed ==
    ASSUME Inv, [Next]_vars, NEW j \in Job,
           dir[j] # "failed", dir'[j] = "failed"
    PROVE  \/ rpc = "fallback" /\ rjob = j
           \/ error'[j] = runs[j] /\ runs'[j] = runs[j] /\ runs[j] > 0
<1> USE JobAssumption
    DEF Inv, TypeOK, Bookkeeping, OneOwner, Busy, RecoveryOwns, Written,
        JobAssumption
<1>1. CASE \E w \in Worker : MoveToFailed(w)
  BY <1>1 DEF MoveToFailed
<1>2. CASE RecoverFallback
  BY <1>2 DEF RecoverFallback
<1>3. CASE RecoverMove
  BY <1>3 DEF RecoverMove
<1>4. ASSUME \/ \E i \in Job : Publish(i)
             \/ \E w \in Worker : Claim(w) \/ MoveToOutput(w)
             \/ RecoverRequeue
      PROVE  FALSE
  BY <1>4 DEF Publish, Claim, MoveToOutput, RecoverRequeue
<1>5. ASSUME NEW w \in Worker,
             \/ \E i \in Job : Take(w, i)
             \/ Execute(w) \/ DoneMeta(w) \/ FailMeta(w) \/ WriteTmp(w)
             \/ RenameArtifact(w) \/ WriteError(w) \/ WritePartial(w)
      PROVE  FALSE
  BY <1>5 DEF Take, Execute, DoneMeta, FailMeta, CompleteJob, WriteTmp,
       RenameArtifact, WriteError, WritePartial
<1>6. ASSUME \/ \E i \in Job : RecoverRead(i)
             \/ RecoverCeiling \/ RecoverCharge \/ RecoverError
             \/ RecoverMeta \/ Serve \/ RecoveryBreaksOff
      PROVE  FALSE
  BY <1>6 DEF RecoverRead, RecoverCeiling, RecoverCharge, RecoverError,
       RecoverMeta, Serve, RecoveryBreaksOff
<1>7. ASSUME \/ Start \/ StartFails \/ Stop \/ Stopped \/ Crash
             \/ UNCHANGED vars
      PROVE  FALSE
  BY <1>7 DEF Start, StartFails, Stop, Stopped, Crash, vars
<1> QED
  BY <1>1, <1>2, <1>3, <1>4, <1>5, <1>6, <1>7
     DEF Next, WorkerStep, RecoveryStep

\* Nothing is written into failed/, and no job leaves it.
LEMMA FailedIsFinal ==
    ASSUME Inv, [Next]_vars, NEW j \in Job, dir[j] = "failed"
    PROVE  dir'[j] = "failed" /\ error'[j] = error[j] /\ runs'[j] = runs[j]
<1> USE JobAssumption
    DEF Inv, TypeOK, Bookkeeping, OneOwner, Busy, RecoveryOwns, JobAssumption
<1>1. CASE \E i \in Job : Publish(i)
  BY <1>1 DEF Publish
<1>2. ASSUME NEW w \in Worker, WorkerStep(w)
      PROVE  dir'[j] = dir[j] /\ error'[j] = error[j] /\ runs'[j] = runs[j]
  BY <1>2 DEF WorkerStep, Take, Claim, Execute, DoneMeta, CompleteJob,
       WriteTmp, RenameArtifact, MoveToOutput, FailMeta, WriteError,
       WritePartial, MoveToFailed
<1>3. ASSUME RecoveryStep
      PROVE  dir'[j] = dir[j] /\ error'[j] = error[j] /\ runs'[j] = runs[j]
  BY <1>3 DEF RecoveryStep, RecoverRead, RecoverCeiling, RecoverCharge,
       RecoverRequeue, RecoverFallback, RecoverError, RecoverMeta,
       RecoverMove, Serve, RecoveryBreaksOff
<1>4. CASE Start \/ StartFails \/ Stop \/ Stopped \/ UNCHANGED vars
  BY <1>4 DEF Start, StartFails, Stop, Stopped, vars
<1>5. CASE Crash
  <2>1. \A i \in WritingError : dir[i] = "processing"
    BY DEF WritingError
  <2> QED
    BY <1>5, <2>1 DEF Crash, Torn
<1> QED
  BY <1>1, <1>2, <1>3, <1>4, <1>5 DEF Next

(***************************************************************************)
(* A job enters failed/ with a diagnosis of its last run, recovery's       *)
(* fallback rename excepted.                                               *)
(***************************************************************************)
THEOREM Diagnosis == Spec => FailuresAreDiagnosed
<1>1. Inv /\ [Next]_vars =>
          [\A j \in Job : dir[j] = "processing" /\ dir'[j] = "failed" =>
              \/ error'[j] = runs[j]
              \/ rpc = "fallback" /\ rjob = j]_vars
  <2> SUFFICES ASSUME Inv, [Next]_vars, NEW j \in Job,
                      dir[j] = "processing", dir'[j] = "failed"
               PROVE  \/ error'[j] = runs[j]
                      \/ rpc = "fallback" /\ rjob = j
    OBVIOUS
  <2> QED
    BY EntersFailed
<1> QED
  BY <1>1, Invariance, PTL DEF Spec, FailuresAreDiagnosed

(***************************************************************************)
(* While no rename fails, and whatever else does, CONTEXT.md's "Failed:    *)
(* the job ended with error.txt" holds of every job in failed/ for good.   *)
(***************************************************************************)
THEOREM DiagnosisWithoutFallback ==
    ASSUME "rename" \notin FaultKinds
    PROVE  Spec => []FailedIsDiagnosed
<1>1. Init => FailedIsDiagnosed
  BY DEF Init, FailedIsDiagnosed
<1>2. Inv /\ FailedIsDiagnosed /\ [Next]_vars => FailedIsDiagnosed'
  <2> SUFFICES ASSUME Inv, FailedIsDiagnosed, [Next]_vars,
                      NEW j \in Job, dir'[j] = "failed"
               PROVE  runs'[j] > 0 /\ error'[j] = runs'[j]
    BY DEF FailedIsDiagnosed
  <2>1. rpc # "fallback"
    BY DEF Inv, Written
  <2>2. CASE dir[j] = "failed"
    BY <2>2, FailedIsFinal DEF FailedIsDiagnosed
  <2>3. CASE dir[j] # "failed"
    BY <2>1, <2>3, EntersFailed
  <2> QED
    BY <2>2, <2>3
<1> QED
  BY <1>1, <1>2, Invariance, PTL DEF Spec

(***************************************************************************)
(* A move between state directories, seen through the refinement mapping,  *)
(* is one of the five moves of JobStates.                                  *)
(***************************************************************************)
LEMMA PromiseMoves ==
    ASSUME TypeOK, NEW j \in Job, NEW d \in Dir, SetDir(j, d),
           \/ dir[j] = "writing" /\ d = "ready" /\ UNCHANGED runs
           \/ /\ dir[j] = "ready" /\ d = "processing"
              /\ runs' = [runs EXCEPT ![j] = @ + 1]
           \/ dir[j] = "processing" /\ d = "output" /\ UNCHANGED runs
           \/ dir[j] = "processing" /\ d = "failed" /\ UNCHANGED runs
           \/ /\ dir[j] = "processing" /\ d = "ready"
              /\ runs[j] <= MaxRecovery
              /\ UNCHANGED runs
    PROVE  Promise!Next
<1> DEFINE State == [i \in Job |-> StateOf[dir[i]]]
           Move(from, to) == /\ State[j] = from
                             /\ State' = [State EXCEPT ![j] = to]
<1>1. Move(StateOf[dir[j]], StateOf[d])
  BY DEF TypeOK, Dir, StateOf
<1>2. \/ Move("staging", "queued") /\ UNCHANGED runs
      \/ /\ Move("queued", "running")
         /\ runs' = [runs EXCEPT ![j] = @ + 1]
      \/ Move("running", "done") /\ UNCHANGED runs
      \/ Move("running", "failed") /\ UNCHANGED runs
      \/ /\ Move("running", "queued")
         /\ runs[j] <= MaxRecovery
         /\ UNCHANGED runs
  <2> HIDE DEF Move
  <2> QED
    BY <1>1 DEF StateOf
<1> QED
  BY <1>2
     DEF Promise!Next, Promise!MoveTo, Promise!Publish, Promise!Claim,
         Promise!Complete, Promise!Fail, Promise!Requeue

(***************************************************************************)
(* Which of the five each action is; the ceiling is what allows a requeue. *)
(***************************************************************************)
LEMMA PromiseStep ==
    ASSUME "read" \notin FaultKinds, Inv, [Next]_vars
    PROVE  [Promise!Next]_Promise!vars
<1> USE JobAssumption
    DEF Inv, Bookkeeping, OneOwner, RecoveryOwns, JobAssumption
<1>1. TypeOK
  OBVIOUS
<1>2. ASSUME NEW j \in Job, Publish(j) PROVE Promise!Next
  BY <1>1, <1>2, PromiseMoves DEF Publish, Dir
<1>3. ASSUME NEW w \in Worker, Claim(w)
      PROVE  Promise!Next \/ UNCHANGED <<dir, runs>>
  BY <1>1, <1>3, PromiseMoves DEF Claim, Dir, TypeOK
<1>4. ASSUME NEW w \in Worker, MoveToOutput(w) \/ MoveToFailed(w)
      PROVE  Promise!Next \/ UNCHANGED <<dir, runs>>
  BY <1>1, <1>4, PromiseMoves DEF MoveToOutput, MoveToFailed, Busy, Dir, TypeOK
<1>5. ASSUME RecoverRequeue
      PROVE  Promise!Next \/ UNCHANGED <<dir, runs>>
  <2>1. rjob \in Job /\ dir[rjob] = "processing"
    BY <1>5 DEF RecoverRequeue, TypeOK
  <2>2. runs[rjob] <= MaxRecovery
    BY <1>5, <2>1, BoundAssumption
       DEF RecoverRequeue, TypeOK, Charged, BoundAssumption
  <2> QED
    BY <1>1, <1>5, <2>1, <2>2, PromiseMoves DEF RecoverRequeue, Dir
<1>6. ASSUME RecoverFallback \/ RecoverMove
      PROVE  Promise!Next \/ UNCHANGED <<dir, runs>>
  BY <1>1, <1>6, PromiseMoves DEF RecoverFallback, RecoverMove, Dir, TypeOK
<1>7. ASSUME NEW w \in Worker,
             \/ \E j \in Job : Take(w, j)
             \/ Execute(w) \/ DoneMeta(w) \/ FailMeta(w) \/ WriteTmp(w)
             \/ RenameArtifact(w) \/ WriteError(w) \/ WritePartial(w)
      PROVE  UNCHANGED <<dir, runs>>
  BY <1>7 DEF Take, Execute, DoneMeta, FailMeta, CompleteJob, WriteTmp,
       RenameArtifact, WriteError, WritePartial
<1>8. ASSUME \/ \E j \in Job : RecoverRead(j)
             \/ RecoverCeiling \/ RecoverCharge \/ RecoverError
             \/ RecoverMeta \/ Serve \/ RecoveryBreaksOff
      PROVE  UNCHANGED <<dir, runs>>
  BY <1>8 DEF RecoverRead, RecoverCeiling, RecoverCharge, RecoverError,
       RecoverMeta, Serve, RecoveryBreaksOff
<1>9. ASSUME \/ Start \/ StartFails \/ Stop \/ Stopped \/ Crash
             \/ UNCHANGED vars
      PROVE  UNCHANGED <<dir, runs>>
  BY <1>9 DEF Start, StartFails, Stop, Stopped, Crash, vars
<1>10. UNCHANGED <<dir, runs>> => UNCHANGED Promise!vars
  BY DEF Promise!vars
<1> QED
  BY <1>2, <1>3, <1>4, <1>5, <1>6, <1>7, <1>8, <1>9, <1>10
     DEF Next, WorkerStep, RecoveryStep

(***************************************************************************)
(* While meta.json stays readable the pipeline implements JobStates: every *)
(* step is one of its five moves of one job, or leaves all of them alone.  *)
(***************************************************************************)
THEOREM PromiseKept ==
    ASSUME "read" \notin FaultKinds
    PROVE  Spec => KeepsPromise
<1>1. Init => Promise!Init
  BY DEF Init, Promise!Init, StateOf
<1>2. Inv /\ [Next]_vars => [Promise!Next]_Promise!vars
  BY PromiseStep
<1> QED
  BY <1>1, <1>2, Invariance, PTL DEF Spec, KeepsPromise, Promise!Spec
=============================================================================
