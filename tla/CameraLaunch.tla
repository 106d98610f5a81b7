---------------------------- MODULE CameraLaunch ----------------------------
(***************************************************************************)
(* The launch of pgphoto: the wrapper (container/ondisk/pgphoto.wrapper.in) *)
(* that becomes pgphoto by exec, and the helper that replaces a running    *)
(* one (container/ondisk/restart_gphoto.sh).                               *)
(*                                                                         *)
(* Both are shell scripts: every read, test, mkdir and rm is a step, and   *)
(* wrappers started by the watchdog of the app, wrappers started by a      *)
(* helper, helpers and pgphotos run between them.  They share files: the   *)
(* launch lock (a directory with the pid of its owner), the PID file, the  *)
(* record of the last launch, the restart lock; and TCP port 8080.         *)
(***************************************************************************)
EXTENDS FiniteSets, Naturals

CONSTANTS
  Pids,      \* process ids: each is a wrapper, then pgphoto, then free again
  Helpers,   \* calls of restart_gphoto that may run at the same time
  None,      \* no process
  MaxAlive,  \* bound: wrappers and pgphotos alive at a time
  MaxFaults, \* bound: signals and crashes
  MaxCalls   \* bound: calls of restart_gphoto

ASSUME NoneAssumption == None \notin Pids
ASSUME BoundsAssumption == {MaxAlive, MaxFaults, MaxCalls} \subseteq Nat

VARIABLES
  pc,         \* where each process is; "none" when there is no such process
  sees,       \* LOCKPID: the owner of the launch lock it has read
  port,       \* the process that listens on port 8080
  lock,       \* LAUNCH_LOCK: the directory exists
  lockPid,    \* the pid file in it
  pidFile,    \* PIDFILE
  backoff,    \* BACKOFF_FILE names a recent launch
  hpc,        \* where each helper is
  old, new,   \* PID, NEWPID of the helper
  restartLock, \* LOCKDIR of restart_gphoto.sh exists
  watchdog,   \* the app's watchdog launches the wrapper on its own
  orphaned,   \* history: a helper was interrupted before its wrapper became pgphoto
  faults, calls  \* bounded counters

procs == <<pc, sees, port>>
launchLock == <<lock, lockPid>>
files == <<pidFile, backoff>>
helper == <<hpc, old, new, restartLock>>
env == <<watchdog, orphaned, faults, calls>>
vars == <<procs, launchLock, files, helper, env>>

\* Before the traps are set, and after; then the program is pgphoto, and "dying"
\* once a helper has sent it KILL and the kernel has not ended it yet.
Untrapped == {"mkdir", "look", "lookAgain", "judge", "reclaim", "retake", "publish"}
Trapped == {"check", "delay", "sleep", "record", "release", "unlock", "exec"}
Leaving == {"exit", "unlockExit"}
Wrapper == Untrapped \union Trapped \union Leaving
Pgphoto == {"starting", "serving", "dying"}

\* pid_is_pgphoto: the command line of the process is the stage-2 binary.
IsPgphoto(p) == p # None /\ pc[p] \in Pgphoto
Alive(p) == pc[p] # "none"
\* It still runs its program.
Live(p) == pc[p] \notin {"none", "dying"}

\* A process id is not given out again while something remembers it.
Fresh(p) ==
  /\ Cardinality({q \in Pids : Alive(q)}) < MaxAlive
  /\ ~Alive(p) /\ p \notin {lockPid, pidFile}
  /\ \A q \in Pids : sees[q] # p
  /\ \A h \in Helpers : p \notin {old[h], new[h]}

Init ==
  /\ \/ pc = [p \in Pids |-> "none"] /\ port = None /\ pidFile = None
     \/ \E p \in Pids :   \* a stock boot writes no PID file
          /\ \/ pc = [q \in Pids |-> IF q = p THEN "serving" ELSE "none"] /\ port = p
             \/ pc = [q \in Pids |-> IF q = p THEN "starting" ELSE "none"] /\ port = None
          /\ pidFile \in {None, p}
  /\ sees = [p \in Pids |-> None]
  /\ lock = FALSE /\ lockPid = None /\ backoff = FALSE
  /\ hpc = [h \in Helpers |-> "none"]
  /\ old = [h \in Helpers |-> None] /\ new = [h \in Helpers |-> None]
  /\ restartLock = FALSE /\ watchdog \in BOOLEAN /\ orphaned = FALSE
  /\ faults = 0 /\ calls = 0

Go(p, s) == pc[p] # s /\ pc' = [pc EXCEPT ![p] = s]

\* The process is no more, and with it its listener.
Dies(p) ==
  /\ pc' = [pc EXCEPT ![p] = "none"] /\ sees' = [sees EXCEPT ![p] = None]
  /\ port' = (IF port = p THEN None ELSE port)

(***************************************************************************)
(* The wrapper.                                                            *)
(***************************************************************************)
\* mkdir, the first time or after the old lock was removed.
Mkdir(p) ==
  /\ pc[p] \in {"mkdir", "retake"}
  /\ IF ~lock
     THEN /\ lock' = TRUE /\ lockPid' = None
          /\ Go(p, "publish") /\ UNCHANGED <<sees, port>>
     ELSE /\ UNCHANGED launchLock
          /\ IF pc[p] = "mkdir" THEN Go(p, "look") /\ UNCHANGED <<sees, port>>
             ELSE Dies(p)
  /\ UNCHANGED <<files, helper, env>>

\* The pid in the lock is read, and a second later again if there was none:
\* a second is enough to write it.
Look(p) ==
  /\ \/ /\ pc[p] = "look"
        /\ Go(p, IF lockPid = None THEN "lookAgain" ELSE "judge")
     \/ /\ pc[p] = "lookAgain" /\ \A q \in Pids : pc[q] # "publish"
        /\ Go(p, "judge")
  /\ sees' = [sees EXCEPT ![p] = lockPid]
  /\ UNCHANGED <<port, launchLock, files, helper, env>>

\* (defect) a lock that exists is always respected
JudgeRespecting(p) == pc[p] = "judge" /\ Dies(p)
\* A launch in progress is left alone, any other lock is reclaimed.
Judge(p) ==
  /\ pc[p] = "judge"
  /\ IF IsPgphoto(sees[p]) THEN Dies(p)
     ELSE Go(p, "reclaim") /\ UNCHANGED <<sees, port>>

Judges(p) == Judge(p) /\ UNCHANGED <<launchLock, files, helper, env>>

Reclaim(p) ==
  /\ pc[p] = "reclaim" /\ Go(p, "retake")
  /\ lock' = FALSE /\ lockPid' = None
  /\ UNCHANGED <<sees, port, files, helper, env>>

\* (defect) the pid file is there without its directory
PublishedAnyway(p) == lockPid' = p
\* The pid is written if the directory still exists.
Published(p) == lockPid' = IF lock THEN p ELSE None

Publish(p) ==
  /\ pc[p] = "publish" /\ Go(p, "check")
  /\ Published(p)
  /\ UNCHANGED <<sees, port, lock, files, helper, env>>

\* A launch of what is already running is refused.
Check(p) ==
  /\ pc[p] = "check" /\ Go(p, IF IsPgphoto(pidFile) THEN "exit" ELSE "delay")
  /\ UNCHANGED <<sees, port, launchLock, files, helper, env>>

\* The launch is recorded; one soon after another waits (see LaunchBackoff).
Delay(p) ==
  /\ pc[p] = "delay"
  /\ \/ Go(p, "record")
     \/ backoff /\ Go(p, "sleep")
  /\ backoff' = TRUE
  /\ UNCHANGED <<sees, port, launchLock, pidFile, helper, env>>

Wake(p) ==
  /\ pc[p] = "sleep" /\ Go(p, "record")
  /\ UNCHANGED <<sees, port, launchLock, files, helper, env>>

Record(p) ==
  /\ pc[p] = "record" /\ Go(p, "release")
  /\ pidFile' = p
  /\ UNCHANGED <<sees, port, launchLock, backoff, helper, env>>

\* release_launch_lock: whose lock it is, then rm.
Release(p) ==
  /\ \/ /\ pc[p] = "release" /\ Go(p, IF lockPid = p THEN "unlock" ELSE "exec")
        /\ UNCHANGED <<sees, port>>
     \/ /\ pc[p] = "exit"
        /\ IF lockPid = p THEN Go(p, "unlockExit") /\ UNCHANGED <<sees, port>>
           ELSE Dies(p)
  /\ UNCHANGED <<launchLock, files, helper, env>>

Unlock(p) ==
  /\ \/ pc[p] = "unlock" /\ Go(p, "exec") /\ UNCHANGED <<sees, port>>
     \/ pc[p] = "unlockExit" /\ Dies(p)
  /\ lock' = FALSE /\ lockPid' = None
  /\ UNCHANGED <<files, helper, env>>

Exec(p) ==
  /\ pc[p] = "exec" /\ Go(p, "starting")
  /\ sees' = [sees EXCEPT ![p] = None]
  /\ UNCHANGED <<port, launchLock, files, helper, env>>

(***************************************************************************)
(* pgphoto, the watchdog and the signals (external).                       *)
(***************************************************************************)
\* pgphoto listens, or ends because somebody else does.
Bind(p) ==
  /\ pc[p] = "starting"
  /\ IF port = None THEN port' = p /\ Go(p, "serving") /\ UNCHANGED <<sees>>
     ELSE Dies(p)
  /\ UNCHANGED <<launchLock, files, helper, env>>

Watch(p) ==
  /\ watchdog /\ port = None /\ Fresh(p) /\ Go(p, "mkdir")
  /\ UNCHANGED <<sees, port, launchLock, files, helper, env>>

Fault == faults < MaxFaults /\ faults' = faults + 1 /\ UNCHANGED <<watchdog, calls>>

\* A KILL takes effect once the process has left the kernel, for instance a
\* transfer to the camera: at some time.
Ends(p) ==
  /\ pc[p] = "dying" /\ Dies(p)
  /\ UNCHANGED <<launchLock, files, helper, env>>

\* SIGKILL, or a crash of pgphoto.
Killed(p) ==
  /\ Alive(p) /\ Dies(p) /\ Fault /\ UNCHANGED orphaned
  /\ UNCHANGED <<launchLock, files, helper>>

\* TERM, HUP or INT to a wrapper.  The trap is `exit 143`; the trap of EXIT
\* releases the lock if it is still set.
Term(p) ==
  /\ Fault /\ UNCHANGED orphaned
  /\ \/ pc[p] \in Untrapped \union {"exec"} /\ Dies(p)
     \/ /\ pc[p] \in Trapped \ {"exec"} /\ Go(p, "exit") /\ UNCHANGED <<sees, port>>
  /\ UNCHANGED <<launchLock, files, helper>>

(***************************************************************************)
(* restart_gphoto.                                                         *)
(***************************************************************************)
HGo(h, s) == hpc' = [hpc EXCEPT ![h] = s]

\* The helper returns: the trap of EXIT removes its lock.
Returns(h) ==
  /\ HGo(h, "none") /\ restartLock' = FALSE
  /\ old' = [old EXCEPT ![h] = None] /\ new' = [new EXCEPT ![h] = None]

\* A call while the lock exists returns at once, whoever made the lock.
Call(h) ==
  /\ hpc[h] = "none" /\ ~restartLock /\ restartLock' = TRUE /\ HGo(h, "find")
  /\ calls < MaxCalls /\ calls' = calls + 1
  /\ UNCHANGED <<procs, launchLock, files, old, new, watchdog, orphaned, faults>>

\* The pgphoto of the PID file, or any other.
Find(h) ==
  /\ hpc[h] = "find"
  /\ IF IsPgphoto(pidFile)
     THEN old' = [old EXCEPT ![h] = pidFile] /\ HGo(h, "stop") /\ UNCHANGED pidFile
     ELSE /\ pidFile' = None
          /\ \/ \E p \in Pids : /\ IsPgphoto(p) /\ old' = [old EXCEPT ![h] = p]
                                /\ HGo(h, "stop")
             \/ /\ \A p \in Pids : ~IsPgphoto(p)
                /\ HGo(h, "clean") /\ UNCHANGED old
  /\ UNCHANGED <<procs, launchLock, backoff, new, restartLock, env>>

\* TERM: pgphoto ends now or takes its time.
Stop(h) ==
  /\ hpc[h] = "stop" /\ HGo(h, "wait")
  /\ Dies(old[h]) \/ UNCHANGED procs
  /\ UNCHANGED <<launchLock, files, old, new, restartLock, env>>

\* With a listener on the port the helper gives up, else it goes on.
PortFree(h) ==
  IF port = None THEN HGo(h, "clean") /\ UNCHANGED <<old, new, restartLock>> ELSE Returns(h)

\* (defect) a process that has freed its port is taken for ended
StoppedUnbound(h) == PortFree(h) /\ UNCHANGED procs
\* After TERM: when it has ended the port decides; if it never does, KILL.
Stopped(h) ==
  IF ~Alive(old[h]) THEN PortFree(h) /\ UNCHANGED procs
  ELSE Go(old[h], "dying") /\ UNCHANGED <<sees, port>>
       /\ HGo(h, "killed") /\ UNCHANGED <<old, new, restartLock>>

\* After KILL the port alone decides, whether the process has ended by then or not.
Wait(h) ==
  /\ \/ hpc[h] = "wait" /\ Stopped(h)
     \/ hpc[h] = "wait" /\ Alive(old[h]) /\ Dies(old[h]) /\ UNCHANGED helper  \* it ends late
     \/ hpc[h] = "killed" /\ PortFree(h) /\ UNCHANGED procs
  /\ UNCHANGED <<launchLock, files, env>>

Clean(h) ==
  /\ hpc[h] = "clean" /\ HGo(h, "lock")
  /\ pidFile' = None /\ backoff' = FALSE
  /\ UNCHANGED <<procs, launchLock, old, new, restartLock, env>>

\* The launch lock: looked at twice, a second apart, then removed.
LockLook(h) ==
  /\ \/ hpc[h] = "lock"
     \/ hpc[h] = "lockAgain" /\ \A q \in Pids : pc[q] # "publish"
  /\ IF hpc[h] = "lock" /\ ~lock
     THEN HGo(h, "launch") /\ UNCHANGED <<old, new, restartLock>>
     ELSE IF IsPgphoto(lockPid) THEN Returns(h)
     ELSE /\ HGo(h, IF hpc[h] = "lock" THEN "lockAgain" ELSE "rmLock")
          /\ UNCHANGED <<old, new, restartLock>>
  /\ UNCHANGED <<procs, launchLock, files, env>>

LockRemove(h) ==
  /\ hpc[h] = "rmLock" /\ HGo(h, "launch")
  /\ lock' = FALSE /\ lockPid' = None
  /\ UNCHANGED <<procs, files, old, new, restartLock, env>>

Launch(h) ==
  /\ hpc[h] = "launch" /\ HGo(h, "record")
  /\ \E p \in Pids : Fresh(p) /\ Go(p, "mkdir") /\ new' = [new EXCEPT ![h] = p]
  /\ UNCHANGED <<sees, port, launchLock, files, old, restartLock, env>>

HRecord(h) ==
  /\ hpc[h] = "record" /\ HGo(h, "verify")
  /\ pidFile' = new[h]
  /\ UNCHANGED <<procs, launchLock, backoff, old, new, restartLock, env>>

\* Two seconds later the wrapper has become pgphoto, unless it backs off;
\* then the port must come, in time.
Verify(h) ==
  /\ \/ /\ hpc[h] = "verify" /\ pc[new[h]] \notin Wrapper \ {"sleep"}
        /\ IF IsPgphoto(new[h]) THEN HGo(h, "ready") /\ UNCHANGED <<old, new, restartLock>>
           ELSE Returns(h)
     \/ hpc[h] = "ready" /\ Returns(h)
  /\ UNCHANGED <<procs, launchLock, files, env>>

\* SIGKILL: no trap runs.
HKilled(h) ==
  /\ hpc[h] # "none" /\ Fault /\ UNCHANGED orphaned
  /\ HGo(h, "none") /\ UNCHANGED restartLock
  /\ old' = [old EXCEPT ![h] = None] /\ new' = [new EXCEPT ![h] = None]
  /\ UNCHANGED <<procs, launchLock, files>>

\* TERM, HUP or INT: the helper exits, and the trap of EXIT removes the restart
\* lock.  The wrapper it has launched goes on.
HInterrupted(h) ==
  /\ hpc[h] # "none" /\ Fault /\ Returns(h)
  /\ orphaned' = (orphaned \/ (new[h] # None /\ pc[new[h]] \in Wrapper))
  /\ UNCHANGED <<procs, launchLock, files>>

-----------------------------------------------------------------------------
Launches(p) ==
  \/ Mkdir(p) \/ Look(p) \/ Judges(p) \/ Reclaim(p) \/ Publish(p) \/ Check(p)
  \/ Delay(p) \/ Wake(p) \/ Record(p) \/ Release(p) \/ Unlock(p) \/ Exec(p) \/ Bind(p)

Restarts(h) ==
  \/ Find(h) \/ Stop(h) \/ Wait(h) \/ Clean(h) \/ LockLook(h) \/ LockRemove(h)
  \/ Launch(h) \/ HRecord(h) \/ Verify(h)

Next ==
  \/ \E p \in Pids : Launches(p) \/ Watch(p) \/ Ends(p) \/ Killed(p) \/ Term(p)
  \/ \E h \in Helpers : Call(h) \/ Restarts(h) \/ HKilled(h) \/ HInterrupted(h)

Spec == Init /\ [][Next]_vars

\* A script goes on, a KILL takes effect, and the watchdog launches as long as nobody listens.
Fairness ==
  /\ \A p \in Pids : WF_vars(Launches(p)) /\ WF_vars(Ends(p))
  /\ \A h \in Helpers : WF_vars(Restarts(h))
  /\ WF_vars(\E p \in Pids : Watch(p))

FairSpec == Spec /\ Fairness

-----------------------------------------------------------------------------
PidOrNone == Pids \union {None}
HelperAt == {"none", "find", "stop", "wait", "killed", "clean", "lock", "lockAgain", "rmLock",
             "launch", "record", "verify", "ready"}

TypeOK ==
  /\ pc \in [Pids -> {"none"} \union Wrapper \union Pgphoto]
  /\ sees \in [Pids -> PidOrNone] /\ port \in PidOrNone
  /\ lock \in BOOLEAN /\ lockPid \in PidOrNone /\ (~lock => lockPid = None)
  /\ pidFile \in PidOrNone /\ backoff \in BOOLEAN
  /\ hpc \in [Helpers -> HelperAt]
  /\ old \in [Helpers -> PidOrNone] /\ new \in [Helpers -> PidOrNone]
  /\ restartLock \in BOOLEAN /\ watchdog \in BOOLEAN /\ orphaned \in BOOLEAN
  /\ faults \in 0..MaxFaults /\ calls \in 0..MaxCalls

\* As long as only restarts launch, and none was interrupted while its wrapper was
\* on its way, there is one pgphoto beside those a KILL is about to end, whether
\* the restarts work, fail or are killed.
OneOwner ==
  ~watchdog /\ ~orphaned =>
    \A p, q \in Pids : (IsPgphoto(p) /\ IsPgphoto(q) /\ Live(p) /\ Live(q)) => p = q

\* What a helper was to replace has ended, or has got its KILL and has no
\* listener, before the helper launches anything.
OldGone ==
  \A h \in Helpers :
    hpc[h] \in {"clean", "lock", "lockAgain", "rmLock", "launch", "record", "verify", "ready"}
      /\ old[h] # None => ~Live(old[h]) /\ port # old[h]

\* Restarts alone never have two pgphotos.
OneProcess ==
  ~watchdog /\ ~orphaned => \A p, q \in Pids : IsPgphoto(p) /\ IsPgphoto(q) => p = q

\* A wrapper survives its helper: even then restarts alone have one pgphoto.
OneOwnerInterrupted ==
  ~watchdog => \A p, q \in Pids : (IsPgphoto(p) /\ IsPgphoto(q) /\ Live(p) /\ Live(q)) => p = q

\* Whoever was killed and whatever lock was left, the watchdog gets somebody to
\* listen again.
ServedAgain == watchdog => []<>(port # None)

\* The lock of a launch that is under way is removed by nobody else.
LiveLockKept ==
  [][\A p \in Pids : lockPid = p /\ pc[p] \in Wrapper /\ lockPid' # p => pc'[p] # pc[p]]_vars

\* A restart is refused only while another is in progress.
RefusesOnlyRaces == restartLock => \E h \in Helpers : hpc[h] # "none"
=============================================================================
