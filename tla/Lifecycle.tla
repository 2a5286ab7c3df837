----------------------------- MODULE Lifecycle -----------------------------
(***************************************************************************)
(* Who runs on a workspace: nrvnad processes that take the workspace lock  *)
(* and publish their pid and a ready file (nrvnad.cpp), and the commands   *)
(* nrvnad status and nrvnad stop, which find out about them (lifecycle.cpp)*)
(*                                                                         *)
(* The lock is a flock: one process holds it, and it goes with the process.*)
(* It is taken by daemons, and for a moment by the commands, which test it *)
(* by taking it.  A query keeps it while it removes stale files, which is  *)
(* a step per file here.  lockIsHeld takes and frees it at once; that is   *)
(* one step here, the moment in which others see it being left to queries. *)
(*                                                                         *)
(* .nrvnad.info is written before the ready file and removed with it, and  *)
(* only adds detail to an answer: it is left out.                          *)
(***************************************************************************)
EXTENDS Naturals, FiniteSets

CONSTANTS
    Daemon,     \* nrvnad processes, each started at most once
    Prober,     \* callers of nrvnad status, each asking again and again
    Stopper,    \* callers of nrvnad stop
    Nobody,     \* no process: a free lock, an empty or missing file
    Attempts,   \* how often a daemon tries to take the lock (10 in the code)
    MaxHits     \* bound: daemons killed or interrupted from outside

Client == Prober \cup Stopper

ASSUME LifecycleAssumption ==
    /\ Daemon \cap Client = {}
    /\ Prober \cap Stopper = {}
    /\ Nobody \notin Daemon \cup Client
    /\ Attempts \in Nat \ {0}
    /\ MaxHits \in Nat

VARIABLES
    lock,       \* the holder of the flock on .nrvnad.lock
    lockPid,    \* the pid in .nrvnad.lock
    pidFile,    \* the pid in .nrvnad.pid
    readyFile,  \* the writer of .nrvnad.ready
    dpc,        \* dpc[d]: how far daemon d has come
    tries,      \* tries[d]: its failed attempts to take the lock
    term,       \* term[d]: g_shutdown_requested
    cpc,        \* cpc[c]: how far client c has come
    target,     \* target[c]: the pid client c has read
    answer,     \* answer[c]: what a query of client c returned
    level,      \* level[c]: signals the stop of client c has sent
    hits        \* daemons killed or interrupted so far

files == <<lockPid, pidFile, readyFile>>
daemonVars == <<dpc, tries, term, hits>>
clientVars == <<cpc, target, answer, level>>
vars == <<lock, files, daemonVars, clientVars>>

DaemonPC == {"off", "acquire", "locked", "truncated", "named", "cleared",
             "loading", "up", "leaving", "closing", "exiting", "gone"}

ClientPC == {"idle", "cleanPid", "cleanReady", "unlock", "readPid", "readReady",
             "readLock", "verify", "kill", "poll", "recheck", "removePid",
             "removeReady", "stopped", "failed"}

Pid == Daemon \cup {Nobody}

TypeOK ==
    /\ lock \in Daemon \cup Client \cup {Nobody}
    /\ lockPid \in Pid
    /\ pidFile \in Pid
    /\ readyFile \in Pid
    /\ dpc \in [Daemon -> DaemonPC]
    /\ tries \in [Daemon -> 0..Attempts]
    /\ term \in [Daemon -> BOOLEAN]
    /\ cpc \in [Client -> ClientPC]
    /\ target \in [Client -> Pid]
    /\ answer \in [Client -> {"none", "not running", "starting", "ready"}]
    /\ level \in [Stopper -> 0..3]
    /\ hits \in 0..MaxHits

Init ==
    /\ lock = Nobody
    /\ lockPid = Nobody
    /\ pidFile = Nobody
    /\ readyFile = Nobody
    /\ dpc = [d \in Daemon |-> "off"]
    /\ tries = [d \in Daemon |-> 0]
    /\ term = [d \in Daemon |-> FALSE]
    /\ cpc = [c \in Client |-> "idle"]
    /\ target = [c \in Client |-> Nobody]
    /\ answer = [c \in Client |-> "none"]
    /\ level = [c \in Stopper |-> 0]
    /\ hits = 0
-----------------------------------------------------------------------------
DaemonGoes(d, from, to) ==
    /\ dpc[d] = from
    /\ dpc' = [dpc EXCEPT ![d] = to]

\* Mutant of Launch: the lock file is named before the lock is taken.
LaunchAndName(d) ==
    /\ DaemonGoes(d, "off", "acquire")
    /\ lockPid' = d
    /\ UNCHANGED <<lock, pidFile, readyFile, tries, term, hits, clientVars>>

Launch(d) ==
    /\ DaemonGoes(d, "off", "acquire")
    /\ UNCHANGED <<lock, files, tries, term, hits, clientVars>>

\* acquireWorkspaceLock: an attempt that succeeds, and one that fails.
TakeLock(d) ==
    /\ DaemonGoes(d, "acquire", "locked")
    /\ lock = Nobody
    /\ lock' = d
    /\ UNCHANGED <<files, tries, term, hits, clientVars>>

\* Mutant of MissLock: one attempt too many.
MissLockOnceMore(d) ==
    /\ dpc[d] = "acquire"
    /\ lock # Nobody
    /\ tries' = [tries EXCEPT ![d] = @ + 1]
    /\ dpc' = IF tries'[d] > Attempts THEN [dpc EXCEPT ![d] = "exiting"] ELSE dpc
    /\ UNCHANGED <<lock, files, term, hits, clientVars>>

MissLock(d) ==
    /\ dpc[d] = "acquire"
    /\ lock # Nobody
    /\ tries' = [tries EXCEPT ![d] = @ + 1]
    /\ dpc' = IF tries'[d] = Attempts THEN [dpc EXCEPT ![d] = "exiting"] ELSE dpc
    /\ UNCHANGED <<lock, files, term, hits, clientVars>>

\* The pid of the last holder stays in the lock file until it is truncated.
TruncateLock(d) ==
    /\ DaemonGoes(d, "locked", "truncated")
    /\ lockPid' = Nobody
    /\ UNCHANGED <<lock, pidFile, readyFile, tries, term, hits, clientVars>>

WriteLock(d) ==
    /\ DaemonGoes(d, "truncated", "named")
    /\ lockPid' = d
    /\ UNCHANGED <<lock, pidFile, readyFile, tries, term, hits, clientVars>>

\* Mutant of ClearReady: the files of an unclean exit are left alone.
KeepReady(d) ==
    /\ DaemonGoes(d, "named", "cleared")
    /\ UNCHANGED <<lock, files, tries, term, hits, clientVars>>

\* removeRuntimeFiles, at the start.
ClearReady(d) ==
    /\ DaemonGoes(d, "named", "cleared")
    /\ readyFile' = Nobody
    /\ UNCHANGED <<lock, lockPid, pidFile, tries, term, hits, clientVars>>

WritePid(d) ==
    /\ DaemonGoes(d, "cleared", "loading")
    /\ pidFile' = d
    /\ UNCHANGED <<lock, lockPid, readyFile, tries, term, hits, clientVars>>

\* The model cannot be loaded: the lock is released, and the process is on its
\* way out.
LoadFails(d) ==
    /\ DaemonGoes(d, "loading", "exiting")
    /\ lock' = Nobody
    /\ UNCHANGED <<files, tries, term, hits, clientVars>>

\* Server::start, then writeRuntimeFiles.
Serve(d) ==
    /\ DaemonGoes(d, "loading", "up")
    /\ readyFile' = d
    /\ UNCHANGED <<lock, lockPid, pidFile, tries, term, hits, clientVars>>

\* The main loop ends: a signal came, or (--drain) the queue is idle.
Leave(d) ==
    /\ DaemonGoes(d, "up", "leaving")
    /\ pidFile' = Nobody
    /\ UNCHANGED <<lock, lockPid, readyFile, tries, term, hits, clientVars>>

\* Mutant of RemoveReady: the lock is given up before the server is down.
RemoveReadyAndUnlock(d) ==
    /\ DaemonGoes(d, "leaving", "closing")
    /\ readyFile' = Nobody
    /\ lock' = Nobody
    /\ UNCHANGED <<lockPid, pidFile, tries, term, hits, clientVars>>

RemoveReady(d) ==
    /\ DaemonGoes(d, "leaving", "closing")
    /\ readyFile' = Nobody
    /\ UNCHANGED <<lock, lockPid, pidFile, tries, term, hits, clientVars>>

\* Server::shutdown returns; the lock is released while the process lives on.
Close(d) ==
    /\ DaemonGoes(d, "closing", "exiting")
    /\ lock' = IF lock = d THEN Nobody ELSE lock
    /\ UNCHANGED <<files, tries, term, hits, clientVars>>

\* The process ends: the destructors are through, and main returns.
Exit(d) ==
    /\ DaemonGoes(d, "exiting", "gone")
    /\ UNCHANGED <<lock, files, tries, term, hits, clientVars>>

Alive(d) == dpc[d] \notin {"off", "gone"}

\* A process that is killed loses its lock and leaves its files.
Dies(d) ==
    /\ dpc' = [dpc EXCEPT ![d] = "gone"]
    /\ lock' = IF lock = d THEN Nobody ELSE lock

Crash(d) ==
    /\ Alive(d)
    /\ hits < MaxHits
    /\ hits' = hits + 1
    /\ Dies(d)
    /\ UNCHANGED <<files, tries, term, clientVars>>

\* signalHandler: the first signal asks, the second forces the exit.
Terminate(d) ==
    IF Alive(d) /\ term[d]
    THEN Dies(d) /\ UNCHANGED term
    ELSE /\ term' = [term EXCEPT ![d] = Alive(d)]
         /\ UNCHANGED <<dpc, lock>>

\* SIGINT from a terminal.
Interrupt(d) ==
    /\ Alive(d)
    /\ hits < MaxHits
    /\ hits' = hits + 1
    /\ Terminate(d)
    /\ UNCHANGED <<files, tries, clientVars>>
-----------------------------------------------------------------------------
ClientGoes(c, from, to) ==
    /\ cpc[c] = from
    /\ cpc' = [cpc EXCEPT ![c] = to]

\* query: the lock is free and taken, or somebody holds it.
ProbeFree(c) ==
    /\ lock = Nobody
    /\ ClientGoes(c, "idle", "cleanPid")
    /\ lock' = c
    /\ UNCHANGED <<files, daemonVars, target, answer, level>>

ProbeHeld(c) ==
    /\ lock # Nobody
    /\ ClientGoes(c, "idle", "readPid")
    /\ UNCHANGED <<lock, files, daemonVars, target, answer, level>>

\* Mutant of CleanPid: the lock is given up before the files are removed.
UnlockAndCleanPid(c) ==
    /\ ClientGoes(c, "cleanPid", "cleanReady")
    /\ pidFile' = Nobody
    /\ lock' = Nobody
    /\ UNCHANGED <<lockPid, readyFile, daemonVars, target, answer, level>>

CleanPid(c) ==
    /\ ClientGoes(c, "cleanPid", "cleanReady")
    /\ pidFile' = Nobody
    /\ UNCHANGED <<lock, lockPid, readyFile, daemonVars, target, answer, level>>

CleanReady(c) ==
    /\ ClientGoes(c, "cleanReady", "unlock")
    /\ readyFile' = Nobody
    /\ UNCHANGED <<lock, lockPid, pidFile, daemonVars, target, answer, level>>

\* A status command ends, and may be given again; a stop has nothing to do.
Unlock(c) ==
    /\ ClientGoes(c, "unlock", IF c \in Prober THEN "idle" ELSE "stopped")
    /\ lock' = IF lock = c THEN Nobody ELSE lock
    /\ answer' = [answer EXCEPT ![c] = "not running"]
    /\ UNCHANGED <<files, daemonVars, target, level>>

ReadPid(c) ==
    /\ ClientGoes(c, "readPid", "readReady")
    /\ target' = [target EXCEPT ![c] = pidFile]
    /\ UNCHANGED <<lock, files, daemonVars, answer, level>>

ReadReady(c) ==
    /\ ClientGoes(c, "readReady", IF c \in Prober THEN "idle" ELSE "readLock")
    /\ answer' = [answer EXCEPT ![c] =
                    IF readyFile # Nobody THEN "ready" ELSE "starting"]
    /\ UNCHANGED <<lock, files, daemonVars, target, level>>
-----------------------------------------------------------------------------
\* stopDaemon prefers the pid in the lock file, and refuses to guess one.
ReadLock(c) ==
    /\ LET pid == IF lockPid # Nobody THEN lockPid ELSE target[c] IN
        /\ target' = [target EXCEPT ![c] = pid]
        /\ ClientGoes(c, "readLock", IF pid = Nobody THEN "failed" ELSE "verify")
    /\ UNCHANGED <<lock, files, daemonVars, answer, level>>

\* workspaceOwnedByNrvnad
Owned(pid) == lockPid = pid /\ lock # Nobody /\ Alive(pid)

Verify(c) ==
    /\ ClientGoes(c, "verify", IF Owned(target[c]) THEN "kill" ELSE "failed")
    /\ UNCHANGED <<lock, files, daemonVars, target, answer, level>>

\* SIGTERM, SIGTERM again, SIGKILL.  The pid may be dead by now.
Kill(c) ==
    /\ ClientGoes(c, "kill", IF level[c] = 2 THEN "recheck" ELSE "poll")
    /\ level' = [level EXCEPT ![c] = @ + 1]
    /\ IF level[c] = 2
       THEN IF Alive(target[c])
            THEN Dies(target[c]) /\ UNCHANGED term
            ELSE UNCHANGED <<dpc, lock, term>>
       ELSE Terminate(target[c])
    /\ UNCHANGED <<files, tries, hits, target, answer>>

Released(c) ==
    /\ lock = Nobody
    /\ ClientGoes(c, "poll", "recheck")
    /\ UNCHANGED <<lock, files, daemonVars, target, answer, level>>

\* Mutant of Deadline: a stop that runs out of time gives up.
GiveUp(c) ==
    /\ lock # Nobody
    /\ ClientGoes(c, "poll", "failed")
    /\ UNCHANGED <<lock, files, daemonVars, target, answer, level>>

\* Mutant of Deadline: running out of time counts as success.
DeadlineIsSuccess(c) ==
    /\ lock # Nobody
    /\ ClientGoes(c, "poll", "removePid")
    /\ UNCHANGED <<lock, files, daemonVars, target, answer, level>>

\* The deadline passes and the lock is still held: on to the next signal.
Deadline(c) ==
    /\ lock # Nobody
    /\ ClientGoes(c, "poll", "verify")
    /\ UNCHANGED <<lock, files, daemonVars, target, answer, level>>

Recheck(c) ==
    /\ ClientGoes(c, "recheck", IF lock = Nobody THEN "removePid" ELSE "failed")
    /\ UNCHANGED <<lock, files, daemonVars, target, answer, level>>

RemovePidFile(c) ==
    /\ ClientGoes(c, "removePid", "removeReady")
    /\ pidFile' = Nobody
    /\ UNCHANGED <<lock, lockPid, readyFile, daemonVars, target, answer, level>>

RemoveReadyFile(c) ==
    /\ ClientGoes(c, "removeReady", "stopped")
    /\ readyFile' = Nobody
    /\ UNCHANGED <<lock, lockPid, pidFile, daemonVars, target, answer, level>>
-----------------------------------------------------------------------------
DaemonStep(d) ==
    \/ Launch(d)
    \/ TakeLock(d)
    \/ MissLock(d)
    \/ TruncateLock(d)
    \/ WriteLock(d)
    \/ ClearReady(d)
    \/ WritePid(d)
    \/ LoadFails(d)
    \/ Serve(d)
    \/ Leave(d)
    \/ RemoveReady(d)
    \/ Close(d)
    \/ Exit(d)
    \/ Crash(d)
    \/ Interrupt(d)

Query(c) ==
    \/ ProbeFree(c)
    \/ ProbeHeld(c)
    \/ CleanPid(c)
    \/ CleanReady(c)
    \/ Unlock(c)
    \/ ReadPid(c)
    \/ ReadReady(c)

StopStep(c) ==
    \/ ReadLock(c)
    \/ Verify(c)
    \/ Kill(c)
    \/ Released(c)
    \/ Deadline(c)
    \/ Recheck(c)
    \/ RemovePidFile(c)
    \/ RemoveReadyFile(c)

Next ==
    \/ \E d \in Daemon : DaemonStep(d)
    \/ \E c \in Client : Query(c)
    \/ \E c \in Stopper : StopStep(c)

(***************************************************************************)
(* A command runs on until it returns, and a query gives the lock back.    *)
(* Nothing is assumed of a daemon: it may load for ever, and a worker that *)
(* never returns keeps Server::shutdown from returning.                    *)
(***************************************************************************)
Fairness ==
    /\ \A c \in Client : WF_vars(Query(c) /\ cpc[c] # "idle")
    /\ \A c \in Stopper : WF_vars(StopStep(c))

Spec == Init /\ [][Next]_vars /\ Fairness
-----------------------------------------------------------------------------
Serving == {d \in Daemon : dpc[d] \in {"loading", "up", "leaving", "closing"}}

(***************************************************************************)
(* At most one daemon works on the job directories: recovery, workers and  *)
(* shutdown all happen under the workspace lock, whatever the commands and *)
(* a second daemon do.  JobPipeline and Dispatch take this for granted.    *)
(***************************************************************************)
OneServer == Cardinality(Serving) <= 1

(***************************************************************************)
(* A ready file that an unclean exit left behind does not make a daemon    *)
(* look ready that is still loading (nrvnad.cpp:521-524).                  *)
(***************************************************************************)
LoadingIsNotReady ==
    \A d \in Daemon : dpc[d] = "loading" => readyFile = Nobody

(***************************************************************************)
(* A daemon that serves is known to do so: its pid and its ready file are  *)
(* there until it removes them.  "A daemon starting concurrently can't     *)
(* have its fresh files deleted" (lifecycle.cpp:125-126).                  *)
(***************************************************************************)
FilesStay ==
    \A d \in Daemon : dpc[d] = "up" => pidFile = d /\ readyFile = d

(***************************************************************************)
(* The same where no stop has found the lock free: status removes stale    *)
(* files, of crashed daemons, and never those of the daemon that serves.   *)
(***************************************************************************)
StatusKeepsFiles ==
    (\A c \in Stopper : cpc[c] \notin {"removePid", "removeReady", "stopped"})
        => FilesStay

\* A daemon that has given up the lock, or up on it.  Its process may be there
\* for a while (Exit), but it touches the workspace no more.
HasLeft(d) == dpc[d] \in {"exiting", "gone"}

(***************************************************************************)
(* "Wait for the lock to release ... 0 = stopped" (lifecycle.hpp:42-44):   *)
(* a stop that signalled a daemon and reports success leaves this daemon   *)
(* without the workspace for good, not only for the moment of the test.    *)
(* That the process has ended is not promised, nor true: see Exit.         *)
(***************************************************************************)
StoppedHasLeft ==
    \A c \in Stopper :
        cpc[c] = "stopped" /\ level[c] > 0 => HasLeft(target[c])

(***************************************************************************)
(* "A signal is safe only while the same nrvnad still owns this workspace" *)
(* (lifecycle.cpp:84), but the test comes before the signal, by a file and *)
(* a lock that are looked at one after the other.  Whoever is signalled    *)
(* has the lock at that moment, or has had it and has given it up: such a  *)
(* process may still be on its way out, but has no work left to lose.  A   *)
(* daemon that waits for the lock, or that has taken over meanwhile, is    *)
(* left alone.                                                             *)
(***************************************************************************)
SignalsOwnerOnly ==
    [][\A c \in Stopper : level'[c] # level[c] =>
          \/ lock = target[c]
          \/ target[c] \in Daemon /\ HasLeft(target[c])]_vars

(***************************************************************************)
(* A daemon that was told to stop has left the workspace in the end, even  *)
(* when its shutdown hangs: the deadlines lead to a forced exit and to     *)
(* SIGKILL.  A process that hangs after it released the lock is not        *)
(* chased any more.                                                        *)
(***************************************************************************)
ToldLeaves ==
    \A c \in Stopper, d \in Daemon :
        cpc[c] = "poll" /\ target[c] = d ~> HasLeft(d)
=============================================================================
