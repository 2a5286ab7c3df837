--------------------------- MODULE LifecycleProofs ---------------------------
(***************************************************************************)
(* Who runs on a workspace, for every number of daemons, status and stop   *)
(* commands, attempts at the lock, crashes and signals: the safety         *)
(* properties of Lifecycle.                                                *)
(*                                                                         *)
(* The argument: who is past taking the lock holds it, so a file that a    *)
(* daemon or a query writes under the lock is written by one process at a  *)
(* time; and a pid that can be read belongs to a daemon that has had the   *)
(* lock, so that a free lock means that this daemon has left.              *)
(***************************************************************************)
EXTENDS Lifecycle, FiniteSetTheorems, TLAPS

Locked == {"locked", "truncated", "named", "cleared", "loading", "up", "leaving", "closing"}

Cleaning == {"cleanPid", "cleanReady", "unlock"}

Chasing == {"verify", "kill", "poll", "recheck", "removePid", "removeReady"}

Tidying == {"removePid", "removeReady", "stopped"}

\* Counters stay below their bounds while they may still be raised.
Counting ==
    /\ \A d \in Daemon : dpc[d] \in {"off", "acquire"} => tries[d] < Attempts
    /\ \A c \in Stopper : cpc[c] \in {"idle"} \cup Cleaning => level[c] = 0
    /\ \A c \in Stopper : cpc[c] \in {"readPid", "readReady", "readLock", "verify", "kill", "poll"}
                            => level[c] <= 2

LockHeld ==
    /\ \A d \in Daemon : dpc[d] \in Locked => lock = d
    /\ \A c \in Client : cpc[c] \in Cleaning => lock = c

\* A pid is that of a daemon that has taken the lock.
PidKnown ==
    /\ \A d \in Daemon : lockPid = d \/ pidFile = d => dpc[d] \notin {"off", "acquire"}
    /\ \A c \in Client : target[c] # Nobody => dpc[target[c]] \notin {"off", "acquire"}
    /\ \A c \in Stopper : cpc[c] \in Chasing => target[c] # Nobody

ReadyTrue == \A d \in Daemon : dpc[d] \in {"cleared", "loading"} => readyFile = Nobody

FilesTrue ==
    (\A c \in Stopper : cpc[c] \notin Tidying) =>
        \A d \in Daemon :
            /\ dpc[d] \in {"loading", "up"} => pidFile = d
            /\ dpc[d] = "up" => readyFile = d

StopTrue ==
    \A c \in Stopper :
        cpc[c] \in {"removePid", "removeReady"} \/ (cpc[c] = "stopped" /\ level[c] > 0)
            => target[c] # Nobody /\ HasLeft(target[c])

IInv == TypeOK /\ Counting /\ LockHeld /\ PidKnown /\ ReadyTrue /\ FilesTrue /\ StopTrue
-----------------------------------------------------------------------------
LEMMA Initially == Init => IInv
BY LifecycleAssumption DEF Init, IInv, TypeOK, Pid, DaemonPC, ClientPC, Client, Counting, LockHeld,
    PidKnown, ReadyTrue, FilesTrue, StopTrue, Locked, Cleaning, Chasing, Tidying

(***************************************************************************)
(* What death, of a signal or otherwise, does: a daemon is gone and has    *)
(* lost its lock, or nothing of this has happened.                         *)
(***************************************************************************)
Struck ==
    /\ dpc' \in [Daemon -> DaemonPC]
    /\ lock' \in {lock, Nobody}
    /\ term' \in [Daemon -> BOOLEAN]
    /\ \A e \in Daemon : dpc'[e] \in {dpc[e], "gone"}
    /\ \A e \in Daemon : dpc'[e] # "gone" /\ lock = e => lock' = e
    /\ \A c \in Client : lock = c => lock' = c

LEMMA Death ==
    ASSUME TypeOK, NEW d \in Daemon, Dies(d), term' \in [Daemon -> BOOLEAN]
    PROVE  Struck
BY LifecycleAssumption DEF TypeOK, Dies, DaemonPC, Client, Struck

LEMMA Termination ==
    ASSUME TypeOK, NEW d \in Daemon, Terminate(d)
    PROVE  Struck
<1>1. CASE Alive(d) /\ term[d]
    <2>1. Dies(d) /\ term' \in [Daemon -> BOOLEAN]
        BY <1>1 DEF Terminate, TypeOK
    <2> QED BY <2>1, Death
<1>2. CASE ~(Alive(d) /\ term[d])
    <2>1. dpc' = dpc /\ lock' = lock /\ term' = [term EXCEPT ![d] = Alive(d)]
        BY <1>2 DEF Terminate
    <2>2. Alive(d) \in BOOLEAN
        BY DEF Alive
    <2>3. term' \in [Daemon -> BOOLEAN]
        BY <2>1, <2>2, Zenon DEF TypeOK
    <2> QED BY <2>1, <2>3 DEF TypeOK, Struck
<1> QED BY <1>1, <1>2

\* Nothing that the invariant says of daemons alone is hurt by it.
LEMMA StruckKeeps ==
    ASSUME IInv, Struck, UNCHANGED <<files, tries>>
    PROVE  /\ lock' \in Daemon \cup Client \cup {Nobody}
           /\ \A d \in Daemon : dpc'[d] \in {"off", "acquire"} => tries'[d] < Attempts
           /\ \A d \in Daemon : dpc'[d] \in Locked => lock' = d
           /\ \A d \in Daemon : lockPid' = d \/ pidFile' = d => dpc'[d] \notin {"off", "acquire"}
           /\ \A d \in Daemon : dpc[d] \notin {"off", "acquire"} => dpc'[d] \notin {"off", "acquire"}
           /\ \A d \in Daemon : HasLeft(d) => HasLeft(d)'
           /\ ReadyTrue'
<1> USE DEF IInv, TypeOK, Struck, files
<1>1. lock' \in Daemon \cup Client \cup {Nobody}
    OBVIOUS
<1>2. \A d \in Daemon : dpc'[d] \in {"off", "acquire"} => tries'[d] < Attempts
    BY DEF Counting
<1>3. \A d \in Daemon : dpc'[d] \in Locked => lock' = d
    BY DEF LockHeld, Locked
<1>4. \A d \in Daemon : dpc[d] \notin {"off", "acquire"} => dpc'[d] \notin {"off", "acquire"}
    OBVIOUS
<1>5. \A d \in Daemon : lockPid' = d \/ pidFile' = d => dpc'[d] \notin {"off", "acquire"}
    BY <1>4 DEF PidKnown
<1>6. \A d \in Daemon : HasLeft(d) => HasLeft(d)'
    BY DEF HasLeft
<1>7. ReadyTrue'
    BY DEF ReadyTrue
<1> QED BY <1>1, <1>2, <1>3, <1>4, <1>5, <1>6, <1>7

LEMMA HitKeeps ==
    ASSUME IInv, NEW d \in Daemon, Crash(d) \/ Interrupt(d)
    PROVE  IInv'
<1>1. UNCHANGED <<files, tries, clientVars>> /\ hits' \in 0..MaxHits
    <2>1. UNCHANGED <<files, tries, clientVars>> /\ hits < MaxHits /\ hits' = hits + 1
        BY DEF Crash, Interrupt
    <2>2. hits \in 0..MaxHits /\ MaxHits \in Nat
        BY LifecycleAssumption DEF IInv, TypeOK
    <2> QED BY <2>1, <2>2
<1>2. Struck
    <2>1. CASE Crash(d)
        BY <2>1, Death DEF Crash, IInv, TypeOK
    <2>2. CASE Interrupt(d)
        BY <2>2, Termination DEF Interrupt, IInv
    <2> QED BY <2>1, <2>2
<1> USE <1>1, <1>2, StruckKeeps DEF IInv, files, clientVars
<1>3. TypeOK'
    BY DEF TypeOK, Struck
<1>4. Counting'
    BY DEF Counting
<1>5. LockHeld'
    BY DEF LockHeld, Struck
<1>6. PidKnown'
    BY DEF PidKnown, TypeOK, Pid
<1>7. FilesTrue'
    BY DEF FilesTrue, Struck
<1>8. StopTrue'
    BY DEF StopTrue, TypeOK, Pid, Client
<1> QED BY <1>3, <1>4, <1>5, <1>6, <1>7, <1>8
-----------------------------------------------------------------------------
\* The steps of a daemon that is not hit.
LEMMA DaemonTypes ==
    ASSUME IInv, NEW d \in Daemon, DaemonStep(d)
    PROVE  TypeOK' /\ Counting'
<1> USE LifecycleAssumption DEF IInv, TypeOK, Pid, Counting, DaemonGoes
<1>1. CASE Launch(d)
    BY <1>1 DEF Launch, clientVars, files, DaemonPC
<1>2. CASE TakeLock(d)
    BY <1>2 DEF TakeLock, clientVars, files, DaemonPC
<1>3. CASE MissLock(d)
    <2>0. tries \in [Daemon -> 0..Attempts] /\ tries[d] < Attempts
        BY <1>3 DEF MissLock
    <2>1. Attempts \in Nat /\ tries[d] \in 0..Attempts
        BY <2>0
    <2>2. /\ tries' \in [Daemon -> 0..Attempts]
          /\ tries'[d] = tries[d] + 1
          /\ \A e \in Daemon : tries'[e] = IF e = d THEN tries[d] + 1 ELSE tries[e]
        <3>1. tries[d] + 1 \in 0..Attempts
            <4> HIDE DEF IInv
            <4> QED BY <2>0, <2>1
        <3> QED BY <1>3, <2>0, <3>1 DEF MissLock
    <2>3. dpc' = IF tries'[d] = Attempts THEN [dpc EXCEPT ![d] = "exiting"] ELSE dpc
        BY <1>3 DEF MissLock
    <2>4. dpc' \in [Daemon -> DaemonPC]
        BY <2>3 DEF DaemonPC
    <2>5. TypeOK'
        BY <1>3, <2>2, <2>4 DEF MissLock, clientVars, files
    <2>6. \A e \in Daemon : dpc'[e] \in {"off", "acquire"} => tries'[e] < Attempts
        <3> SUFFICES ASSUME NEW e \in Daemon, dpc'[e] \in {"off", "acquire"}
                     PROVE  tries'[e] < Attempts
            OBVIOUS
        <3>1. CASE e = d
            <4>1. tries'[d] # Attempts /\ tries'[d] \in 0..Attempts
                BY <2>2, <2>3, <3>1
            <4> HIDE DEF IInv
            <4> QED BY <2>1, <3>1, <4>1
        <3>2. CASE e # d
            BY <2>2, <2>3, <3>2
        <3> QED BY <3>1, <3>2
    <2>7. Counting'
        BY <1>3, <2>6 DEF MissLock, clientVars
    <2> QED BY <2>5, <2>7
<1>4. CASE TruncateLock(d) \/ WriteLock(d)
    BY <1>4 DEF TruncateLock, WriteLock, clientVars, files, DaemonPC
<1>5. CASE ClearReady(d) \/ WritePid(d)
    BY <1>5 DEF ClearReady, WritePid, clientVars, files, DaemonPC
<1>6. CASE LoadFails(d) \/ Serve(d)
    BY <1>6 DEF LoadFails, Serve, clientVars, files, DaemonPC
<1>7. CASE Leave(d) \/ RemoveReady(d) \/ Close(d) \/ Exit(d)
    BY <1>7 DEF Leave, RemoveReady, Close, Exit, clientVars, files, DaemonPC
<1>8. CASE Crash(d) \/ Interrupt(d)
    BY <1>8, HitKeeps
<1> QED BY <1>1, <1>2, <1>3, <1>4, <1>5, <1>6, <1>7, <1>8 DEF DaemonStep

LEMMA DaemonSafe ==
    ASSUME IInv, NEW d \in Daemon, DaemonStep(d)
    PROVE  LockHeld' /\ PidKnown' /\ ReadyTrue' /\ FilesTrue' /\ StopTrue'
<1> USE LifecycleAssumption DEF IInv, TypeOK, Pid, DaemonGoes, LockHeld, PidKnown, ReadyTrue,
        FilesTrue, StopTrue, HasLeft, Client
<1>0. UNCHANGED clientVars
    BY DEF DaemonStep, Launch, TakeLock, MissLock, TruncateLock, WriteLock, ClearReady,
        WritePid, LoadFails, Serve, Leave, RemoveReady, Close, Exit, Crash, Interrupt
<1>1. CASE Launch(d)
    BY <1>1, <1>0 DEF Launch, clientVars, files, Locked
<1>2. CASE TakeLock(d)
    BY <1>2, <1>0 DEF TakeLock, clientVars, files, Locked
<1>3. CASE MissLock(d)
    BY <1>3, <1>0 DEF MissLock, clientVars, files, Locked
<1>4. CASE TruncateLock(d)
    <2>1. LockHeld'
        BY <1>4, <1>0 DEF TruncateLock, clientVars, files, Locked
    <2>2. PidKnown'
        BY <1>4, <1>0 DEF TruncateLock, clientVars, files, Locked
    <2>3. ReadyTrue'
        BY <1>4, <1>0 DEF TruncateLock, clientVars, files, Locked
    <2>4. FilesTrue'
        BY <1>4, <1>0 DEF TruncateLock, clientVars, files, Locked
    <2>5. StopTrue'
        BY <1>4, <1>0 DEF TruncateLock, clientVars, files, Locked
    <2> QED BY <2>1, <2>2, <2>3, <2>4, <2>5
<1>5. CASE WriteLock(d)
    <2>1. LockHeld'
        BY <1>5, <1>0 DEF WriteLock, clientVars, files, Locked
    <2>2. PidKnown'
        BY <1>5, <1>0 DEF WriteLock, clientVars, files, Locked
    <2>3. ReadyTrue'
        BY <1>5, <1>0 DEF WriteLock, clientVars, files, Locked
    <2>4. FilesTrue'
        BY <1>5, <1>0 DEF WriteLock, clientVars, files, Locked
    <2>5. StopTrue'
        BY <1>5, <1>0 DEF WriteLock, clientVars, files, Locked
    <2> QED BY <2>1, <2>2, <2>3, <2>4, <2>5
<1>6. CASE ClearReady(d)
    <2>1. LockHeld'
        BY <1>6, <1>0 DEF ClearReady, clientVars, files, Locked
    <2>2. PidKnown'
        BY <1>6, <1>0 DEF ClearReady, clientVars, files, Locked
    <2>3. ReadyTrue'
        BY <1>6, <1>0 DEF ClearReady, clientVars, files, Locked
    <2>4. FilesTrue'
        BY <1>6, <1>0 DEF ClearReady, clientVars, files, Locked
    <2>5. StopTrue'
        BY <1>6, <1>0 DEF ClearReady, clientVars, files, Locked
    <2> QED BY <2>1, <2>2, <2>3, <2>4, <2>5
<1>7. CASE WritePid(d)
    <2>1. LockHeld'
        BY <1>7, <1>0 DEF WritePid, clientVars, files, Locked
    <2>2. PidKnown'
        BY <1>7, <1>0 DEF WritePid, clientVars, files, Locked
    <2>3. ReadyTrue'
        BY <1>7, <1>0 DEF WritePid, clientVars, files, Locked
    <2>4. FilesTrue'
        BY <1>7, <1>0 DEF WritePid, clientVars, files, Locked
    <2>5. StopTrue'
        BY <1>7, <1>0 DEF WritePid, clientVars, files, Locked
    <2> QED BY <2>1, <2>2, <2>3, <2>4, <2>5
<1>8. CASE LoadFails(d)
    <2>1. LockHeld'
        BY <1>8, <1>0 DEF LoadFails, clientVars, files, Locked
    <2>2. PidKnown'
        BY <1>8, <1>0 DEF LoadFails, clientVars, files, Locked
    <2>3. ReadyTrue'
        BY <1>8, <1>0 DEF LoadFails, clientVars, files, Locked
    <2>4. FilesTrue'
        BY <1>8, <1>0 DEF LoadFails, clientVars, files, Locked
    <2>5. StopTrue'
        BY <1>8, <1>0 DEF LoadFails, clientVars, files, Locked
    <2> QED BY <2>1, <2>2, <2>3, <2>4, <2>5
<1>9. CASE Serve(d)
    <2>1. LockHeld'
        BY <1>9, <1>0 DEF Serve, clientVars, files, Locked
    <2>2. PidKnown'
        BY <1>9, <1>0 DEF Serve, clientVars, files, Locked
    <2>3. ReadyTrue'
        BY <1>9, <1>0 DEF Serve, clientVars, files, Locked
    <2>4. FilesTrue'
        BY <1>9, <1>0 DEF Serve, clientVars, files, Locked
    <2>5. StopTrue'
        BY <1>9, <1>0 DEF Serve, clientVars, files, Locked
    <2> QED BY <2>1, <2>2, <2>3, <2>4, <2>5
<1>10. CASE Leave(d)
    <2>1. LockHeld'
        BY <1>10, <1>0 DEF Leave, clientVars, files, Locked
    <2>2. PidKnown'
        BY <1>10, <1>0 DEF Leave, clientVars, files, Locked
    <2>3. ReadyTrue'
        BY <1>10, <1>0 DEF Leave, clientVars, files, Locked
    <2>4. FilesTrue'
        BY <1>10, <1>0 DEF Leave, clientVars, files, Locked
    <2>5. StopTrue'
        BY <1>10, <1>0 DEF Leave, clientVars, files, Locked
    <2> QED BY <2>1, <2>2, <2>3, <2>4, <2>5
<1>11. CASE RemoveReady(d)
    <2>1. LockHeld'
        BY <1>11, <1>0 DEF RemoveReady, clientVars, files, Locked
    <2>2. PidKnown'
        BY <1>11, <1>0 DEF RemoveReady, clientVars, files, Locked
    <2>3. ReadyTrue'
        BY <1>11, <1>0 DEF RemoveReady, clientVars, files, Locked
    <2>4. FilesTrue'
        BY <1>11, <1>0 DEF RemoveReady, clientVars, files, Locked
    <2>5. StopTrue'
        BY <1>11, <1>0 DEF RemoveReady, clientVars, files, Locked
    <2> QED BY <2>1, <2>2, <2>3, <2>4, <2>5
<1>12. CASE Close(d)
    <2>1. LockHeld'
        BY <1>12, <1>0 DEF Close, clientVars, files, Locked
    <2>2. PidKnown'
        BY <1>12, <1>0 DEF Close, clientVars, files, Locked
    <2>3. ReadyTrue'
        BY <1>12, <1>0 DEF Close, clientVars, files, Locked
    <2>4. FilesTrue'
        BY <1>12, <1>0 DEF Close, clientVars, files, Locked
    <2>5. StopTrue'
        BY <1>12, <1>0 DEF Close, clientVars, files, Locked
    <2> QED BY <2>1, <2>2, <2>3, <2>4, <2>5
<1>13. CASE Exit(d)
    <2>1. LockHeld'
        BY <1>13, <1>0 DEF Exit, clientVars, files, Locked
    <2>2. PidKnown'
        BY <1>13, <1>0 DEF Exit, clientVars, files, Locked
    <2>3. ReadyTrue'
        BY <1>13, <1>0 DEF Exit, clientVars, files, Locked
    <2>4. FilesTrue'
        BY <1>13, <1>0 DEF Exit, clientVars, files, Locked
    <2>5. StopTrue'
        BY <1>13, <1>0 DEF Exit, clientVars, files, Locked
    <2> QED BY <2>1, <2>2, <2>3, <2>4, <2>5
<1>14. CASE Crash(d) \/ Interrupt(d)
    BY <1>14, HitKeeps
<1> QED BY <1>1, <1>2, <1>3, <1>4, <1>5, <1>6, <1>7, <1>8, <1>9, <1>10, <1>11, <1>12, <1>13, <1>14
    DEF DaemonStep

LEMMA QueryKeeps ==
    ASSUME IInv, NEW c \in Client, Query(c)
    PROVE  IInv'
<1> USE LifecycleAssumption DEF IInv, TypeOK, Pid, ClientGoes, LockHeld, PidKnown, ReadyTrue,
        FilesTrue, StopTrue, HasLeft, Client, Counting, daemonVars, files, ClientPC, Cleaning, Locked,
        Chasing, Tidying
<1>0. UNCHANGED daemonVars /\ UNCHANGED <<lockPid, level>>
    BY DEF Query, ProbeFree, ProbeHeld, CleanPid, CleanReady, Unlock, ReadPid, ReadReady, files
<1>1. CASE ProbeFree(c)
    BY <1>1, <1>0 DEF ProbeFree
<1>2. CASE ProbeHeld(c)
    <2>1. TypeOK'
        BY <1>2, <1>0 DEF ProbeHeld
    <2>2. Counting'
        <3>1. \A e \in Client : cpc'[e] = IF e = c THEN "readPid" ELSE cpc[e]
            BY <1>2 DEF ProbeHeld
        <3>2. c \in Stopper => level[c] = 0
            BY <1>2 DEF ProbeHeld
        <3>3. Counting /\ UNCHANGED <<dpc, tries, level>> /\ Stopper \subseteq Client
            BY <1>0
        <3> HIDE DEF IInv, TypeOK, LockHeld, PidKnown, ReadyTrue, FilesTrue, StopTrue
        <3> QED BY <3>1, <3>2, <3>3
    <2>3. LockHeld'
        BY <1>2, <1>0 DEF ProbeHeld
    <2>4. PidKnown'
        BY <1>2, <1>0 DEF ProbeHeld
    <2>5. ReadyTrue'
        BY <1>2, <1>0 DEF ProbeHeld
    <2>6. FilesTrue'
        BY <1>2, <1>0 DEF ProbeHeld
    <2>7. StopTrue'
        BY <1>2, <1>0 DEF ProbeHeld
    <2> QED BY <2>1, <2>2, <2>3, <2>4, <2>5, <2>6, <2>7
<1>3. CASE CleanPid(c)
    BY <1>3, <1>0 DEF CleanPid
<1>4. CASE CleanReady(c)
    BY <1>4, <1>0 DEF CleanReady
<1>5. CASE Unlock(c)
    <2>1. TypeOK'
        BY <1>5, <1>0 DEF Unlock
    <2>2. Counting'
        BY <1>5, <1>0 DEF Unlock
    <2>3. LockHeld'
        BY <1>5, <1>0 DEF Unlock
    <2>4. PidKnown'
        BY <1>5, <1>0 DEF Unlock
    <2>5. ReadyTrue'
        BY <1>5, <1>0 DEF Unlock
    <2>6. FilesTrue'
        BY <1>5, <1>0 DEF Unlock
    <2>7. StopTrue'
        <3>1. \A e \in Client : cpc'[e] \in {cpc[e], "idle", "stopped"} /\ (e # c => cpc'[e] = cpc[e])
            BY <1>5 DEF Unlock
        <3>2. c \in Stopper => level[c] = 0
            BY <1>5 DEF Unlock
        <3>3. UNCHANGED <<dpc, target, level>>
            BY <1>5, <1>0 DEF Unlock
        <3>4. \A e \in Stopper : level'[e] > 0 => e # c /\ cpc'[e] = cpc[e]
            <4> HIDE DEF IInv, TypeOK, LockHeld, PidKnown, ReadyTrue, FilesTrue, StopTrue
            <4> QED BY <3>1, <3>2, <3>3
        <3>5. \A e \in Stopper : cpc'[e] \in {"removePid", "removeReady"} => cpc'[e] = cpc[e]
            BY <3>1
        <3> QED BY <3>3, <3>4, <3>5
    <2> QED BY <2>1, <2>2, <2>3, <2>4, <2>5, <2>6, <2>7
<1>6. CASE ReadPid(c)
    BY <1>6, <1>0 DEF ReadPid
<1>7. CASE ReadReady(c)
    BY <1>7, <1>0 DEF ReadReady
<1> QED BY <1>1, <1>2, <1>3, <1>4, <1>5, <1>6, <1>7 DEF Query

\* A signal goes to the daemon that was verified, or to one that is gone.
LEMMA KillKeeps ==
    ASSUME IInv, NEW c \in Stopper, Kill(c)
    PROVE  IInv'
<1>1. /\ UNCHANGED <<files, tries, hits, target, answer>>
      /\ cpc[c] = "kill" /\ c \in Client
      /\ cpc' = [cpc EXCEPT ![c] = IF level[c] = 2 THEN "recheck" ELSE "poll"]
      /\ level' = [level EXCEPT ![c] = @ + 1]
    BY DEF Kill, ClientGoes, Client
<1>2. target[c] \in Daemon /\ level[c] \in 0..2
    <2>1. target[c] \in Daemon
        BY <1>1 DEF IInv, PidKnown, Chasing, TypeOK, Pid
    <2>2. level[c] \in 0..3 /\ level[c] <= 2
        BY <1>1 DEF IInv, Counting, TypeOK
    <2> QED BY <2>1, <2>2
<1>3. Struck
    <2>1. CASE level[c] = 2 /\ Alive(target[c])
        BY <1>2, <2>1, Death DEF Kill, IInv, TypeOK
    <2>2. CASE level[c] = 2 /\ ~Alive(target[c])
        BY <2>2 DEF Kill, IInv, TypeOK, Struck
    <2>3. CASE level[c] # 2
        BY <1>2, <2>3, Termination DEF Kill, IInv
    <2> QED BY <2>1, <2>2, <2>3
<1>4. /\ cpc' \in [Client -> ClientPC]
      /\ \A e \in Client \ {c} : cpc'[e] = cpc[e]
      /\ cpc'[c] = IF level[c] = 2 THEN "recheck" ELSE "poll"
    BY <1>1 DEF IInv, TypeOK, ClientPC
<1>5. /\ level' \in [Stopper -> 0..3]
      /\ \A e \in Stopper \ {c} : level'[e] = level[e]
      /\ level'[c] = level[c] + 1
    <2>1. level \in [Stopper -> 0..3]
        BY DEF IInv, TypeOK
    <2>2. level[c] + 1 \in 0..3
        BY <1>2
    <2> QED BY <1>1, <2>1, <2>2
<1> USE <1>1, <1>2, <1>3, <1>4, <1>5, StruckKeeps DEF IInv
<1>6. TypeOK'
    BY DEF TypeOK, Struck, files
<1>7. Counting'
    BY DEF Counting, Cleaning, Client
<1>8. LockHeld'
    BY DEF LockHeld, Struck, Cleaning
<1>9. PidKnown'
    <2>1. \A e \in Client : target'[e] # Nobody => dpc'[target'[e]] \notin {"off", "acquire"}
        <3>1. \A e \in Client : target[e] # Nobody =>
                target[e] \in Daemon /\ dpc[target[e]] \notin {"off", "acquire"}
            <4> HIDE <1>1, <1>2, <1>3, <1>4, <1>5, StruckKeeps
            <4> QED BY DEF IInv, PidKnown, TypeOK, Pid
        <3>2. target' = target
            OBVIOUS
        <3>3. \A d \in Daemon : dpc[d] \notin {"off", "acquire"} => dpc'[d] \notin {"off", "acquire"}
            OBVIOUS
        <3> HIDE <1>1, <1>2, <1>3, <1>4, <1>5, StruckKeeps DEF IInv
        <3> QED BY <3>1, <3>2, <3>3
    <2>2. \A e \in Stopper : cpc'[e] \in Chasing => target'[e] # Nobody
        BY LifecycleAssumption DEF PidKnown, Client
    <2> QED BY <2>1, <2>2 DEF PidKnown
<1>10. FilesTrue'
    BY DEF FilesTrue, Struck, files, Tidying, Client
<1>11. StopTrue'
    <2>1. cpc'[c] \notin {"removePid", "removeReady", "stopped"}
        OBVIOUS
    <2>2. \A e \in Stopper \ {c} : cpc'[e] = cpc[e] /\ level'[e] = level[e] /\ target'[e] \in Pid
        BY DEF Client, TypeOK
    <2> QED BY <2>1, <2>2 DEF StopTrue, Pid
<1> QED BY <1>6, <1>7, <1>8, <1>9, <1>10, <1>11

LEMMA StopKeeps ==
    ASSUME IInv, NEW c \in Stopper, StopStep(c)
    PROVE  IInv'
<1> USE LifecycleAssumption DEF IInv, TypeOK, Pid, ClientGoes, LockHeld, PidKnown, ReadyTrue,
        FilesTrue, StopTrue, HasLeft, Client, Counting, daemonVars, files, ClientPC, Cleaning, Locked,
        Chasing, Tidying
<1>1. CASE ReadLock(c)
    BY <1>1 DEF ReadLock
<1>2. CASE Verify(c)
    BY <1>2 DEF Verify
<1>3. CASE Kill(c)
    BY <1>3, KillKeeps
<1>4. CASE Released(c)
    BY <1>4 DEF Released
<1>5. CASE Deadline(c)
    BY <1>5 DEF Deadline
<1>6. CASE Recheck(c)
    <2>1. TypeOK'
        BY <1>6 DEF Recheck, DaemonPC
    <2>2. Counting'
        BY <1>6 DEF Recheck, DaemonPC
    <2>3. LockHeld'
        BY <1>6 DEF Recheck, DaemonPC
    <2>4. PidKnown'
        BY <1>6 DEF Recheck, DaemonPC
    <2>5. ReadyTrue'
        BY <1>6 DEF Recheck, DaemonPC
    <2>6. FilesTrue'
        BY <1>6 DEF Recheck, DaemonPC
    <2>7. StopTrue'
        <3>1. UNCHANGED <<lock, dpc, target, level>>
            BY <1>6 DEF Recheck
        <3>2. \A e \in Stopper \ {c} : cpc'[e] = cpc[e]
            BY <1>6 DEF Recheck
        <3>3. cpc'[c] = IF lock = Nobody THEN "removePid" ELSE "failed"
            BY <1>6 DEF Recheck
        <3>4. target[c] \in Daemon /\ dpc[target[c]] \in DaemonPC \ {"off", "acquire"}
            BY <1>6 DEF Recheck
        <3>5. lock = Nobody => HasLeft(target[c])
            BY <3>4 DEF DaemonPC
        <3> QED BY <3>1, <3>2, <3>3, <3>4, <3>5
    <2> QED BY <2>1, <2>2, <2>3, <2>4, <2>5, <2>6, <2>7
<1>7. CASE RemovePidFile(c)
    BY <1>7 DEF RemovePidFile
<1>8. CASE RemoveReadyFile(c)
    BY <1>8 DEF RemoveReadyFile
<1> QED BY <1>1, <1>2, <1>3, <1>4, <1>5, <1>6, <1>7, <1>8 DEF StopStep

LEMMA Invariance == IInv /\ [Next]_vars => IInv'
<1> SUFFICES ASSUME IInv, [Next]_vars
             PROVE  IInv'
    OBVIOUS
<1>1. CASE Next
    BY <1>1, DaemonTypes, DaemonSafe, QueryKeeps, StopKeeps DEF Next, IInv
<1>2. CASE UNCHANGED vars
    BY <1>2 DEF vars, files, daemonVars, clientVars, IInv, TypeOK, Counting, LockHeld, PidKnown,
        ReadyTrue, FilesTrue, StopTrue, HasLeft
<1> QED BY <1>1, <1>2

LEMMA Always == Spec => []IInv
BY Initially, Invariance, PTL DEF Spec
-----------------------------------------------------------------------------
(***************************************************************************)
(* Locks, files, counters and what commands remember have their types.     *)
(***************************************************************************)
THEOREM Types == Spec => []TypeOK
BY Always, PTL DEF IInv

(***************************************************************************)
(* However many daemons are started, one works on the job directories      *)
(* (acquireWorkspaceLock, nrvnad.cpp).                                     *)
(***************************************************************************)
THEOREM OneAtATime == Spec => []OneServer
<1>1. IInv => OneServer
    <2> SUFFICES ASSUME IInv
                 PROVE  Cardinality(Serving) <= 1
        BY DEF OneServer
    <2>1. Serving \subseteq {lock}
        BY DEF IInv, LockHeld, Serving, Locked
    <2>2. IsFiniteSet({lock}) /\ Cardinality({lock}) = 1
        BY FS_Singleton
    <2>3. Cardinality(Serving) <= Cardinality({lock}) /\ IsFiniteSet(Serving)
        BY <2>1, <2>2, FS_Subset
    <2> QED BY <2>2, <2>3
<1> QED BY <1>1, Always, PTL

(***************************************************************************)
(* A ready file that a crash left behind is gone before a daemon loads its *)
(* model (removeRuntimeFiles, nrvnad.cpp:521).                             *)
(***************************************************************************)
THEOREM NotReadyYet == Spec => []LoadingIsNotReady
<1>1. IInv => LoadingIsNotReady
    BY DEF IInv, ReadyTrue, LoadingIsNotReady
<1> QED BY <1>1, Always, PTL

(***************************************************************************)
(* Status removes no file of a daemon that serves, because it removes      *)
(* files while it holds the lock (lifecycle.cpp:125).                      *)
(***************************************************************************)
THEOREM StatusIsHarmless == Spec => []StatusKeepsFiles
<1>1. IInv => StatusKeepsFiles
    BY DEF IInv, FilesTrue, Tidying, StatusKeepsFiles, FilesStay
<1> QED BY <1>1, Always, PTL

(***************************************************************************)
(* What takes files away from a serving daemon in the run lifecycle_stop   *)
(* is the stop alone: on a workspace that no nrvnad stop is used on, the   *)
(* files of a daemon stay, whatever else is killed, started or asked.      *)
(***************************************************************************)
THEOREM FilesStayWithoutStop ==
    ASSUME Stopper = {}
    PROVE  Spec => []FilesStay
<1>1. StatusKeepsFiles => FilesStay
    BY DEF StatusKeepsFiles
<1> QED BY <1>1, StatusIsHarmless, PTL

(***************************************************************************)
(* A signal of a stop goes to the owner of the workspace or to a process   *)
(* that has released it (workspaceOwnedByNrvnad, lifecycle.cpp:85), though *)
(* the owner may change between the test and the signal.                   *)
(***************************************************************************)
THEOREM StopHitsTheOwner == Spec => SignalsOwnerOnly
<1>1. IInv /\ [Next]_vars =>
        [\A c \in Stopper : level'[c] # level[c] =>
            \/ lock = target[c]
            \/ target[c] \in Daemon /\ HasLeft(target[c])]_vars
    <2> SUFFICES ASSUME IInv, Next, NEW c \in Stopper, level'[c] # level[c]
                 PROVE  \/ lock = target[c]
                        \/ target[c] \in Daemon /\ HasLeft(target[c])
        BY DEF vars, clientVars
    <2>1. ~(\E d \in Daemon : DaemonStep(d)) /\ ~(\E e \in Client : Query(e))
        BY DEF DaemonStep, Launch, TakeLock, MissLock, TruncateLock, WriteLock, ClearReady,
            WritePid, LoadFails, Serve, Leave, RemoveReady, Close, Exit, Crash, Interrupt, Query,
            ProbeFree, ProbeHeld, CleanPid, CleanReady, Unlock, ReadPid, ReadReady, clientVars
    <2>2. PICK e \in Stopper : StopStep(e)
        BY <2>1 DEF Next
    <2>3. Kill(e)
        BY <2>2 DEF StopStep, ReadLock, Verify, Released, Deadline, Recheck, RemovePidFile,
            RemoveReadyFile
    <2>4. e = c /\ cpc[c] = "kill"
        BY <2>3 DEF Kill, ClientGoes, IInv, TypeOK
    <2>5. target[c] \in Daemon /\ dpc[target[c]] \in DaemonPC \ {"off", "acquire"}
        BY <2>4 DEF IInv, TypeOK, PidKnown, Chasing, Client, Pid
    <2> QED BY <2>5 DEF IInv, LockHeld, Locked, DaemonPC, HasLeft
<1> QED BY <1>1, Always, PTL DEF Spec, SignalsOwnerOnly

(***************************************************************************)
(* A stop that signalled and reports success has seen its daemon give up   *)
(* the workspace (stopDaemon, lifecycle.cpp), which it never takes again.  *)
(***************************************************************************)
THEOREM StopIsTrue == Spec => []StoppedHasLeft
<1>1. IInv => StoppedHasLeft
    BY DEF IInv, StopTrue, Tidying, StoppedHasLeft
<1> QED BY <1>1, Always, PTL
=============================================================================
