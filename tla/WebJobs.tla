------------------------------ MODULE WebJobs ------------------------------
(***************************************************************************)
(* The background jobs of polaris-httpd: the live solve, the autofocus     *)
(* sweep and the historic-image test solve. Each is a doubly forked        *)
(* wrapper process that runs one script with system(), and each is known   *)
(* to the server only through files: a status word, the wrapper's pid, a   *)
(* result. The three kinds share nothing but the event loop, so a          *)
(* behaviour is about one kind.                                            *)
(*                                                                         *)
(* A handler reads its files one after the other while the job runs on:    *)
(* what it decides is a second step. Pids are not reused.                  *)
(***************************************************************************)
EXTENDS Naturals, FiniteSets

CONSTANTS MaxJobs,     \* jobs started in a behaviour
          MaxCrashes   \* wrappers killed from outside (out of memory)

VARIABLES kind,      \* "solve", "focus" or "test"
          status,    \* JOB_STATUS, AF_STATUS or TEST_STATUS
          pidfile,   \* JOB_PID, AF_PID or TEST_PID: a job, or 0
          result,    \* the job whose solution the result file holds, or 0
          epoch,     \* the job whose frame time the epoch file holds, or 0
          wrapper,   \* per job: none, young, working, closing, dead
          script,    \* per job: none, running, timed, solved, failed, dead
          asked,     \* the request in progress and what it has read
          applied,   \* the last alignment sent: the solution, the frame time
          stopped,   \* the last sweep request was a stop, and was confirmed
          crashes,
          loose      \* history: a job has escaped its files (see Loose)

vars == <<kind, status, pidfile, result, epoch, wrapper, script, asked,
          applied, stopped, crashes, loose>>

Jobs == 1..MaxJobs
Kinds == {"solve", "focus", "test"}
Idle == [op |-> "none", running |-> FALSE, solution |-> 0]

Alive(j) == j # 0 /\ wrapper[j] \in {"young", "working", "closing"}
Executing(j) == script[j] \in {"running", "timed"}
Young == \E j \in Jobs : wrapper[j] = "young"

Init ==
    /\ kind \in Kinds
    /\ status = "idle"
    /\ pidfile = 0 /\ result = 0 /\ epoch = 0
    /\ wrapper = [j \in Jobs |-> "none"] /\ script = [j \in Jobs |-> "none"]
    /\ asked = Idle /\ applied = <<0, 0>>
    /\ stopped = FALSE /\ crashes = 0 /\ loose = FALSE

TypeOK ==
    /\ kind \in Kinds
    /\ status \in {"idle", "running", "done", "failed", "cancelled"}
    /\ pidfile \in 0..MaxJobs /\ result \in 0..MaxJobs /\ epoch \in 0..MaxJobs
    /\ wrapper \in [Jobs -> {"none", "young", "working", "closing", "dead"}]
    /\ script \in [Jobs -> {"none", "running", "timed", "solved", "failed", "dead"}]
    /\ asked \in [op : {"none", "start", "cancel", "poll", "apply"},
                  running : BOOLEAN, solution : 0..MaxJobs]
    /\ applied \in (0..MaxJobs) \X (0..MaxJobs)
    /\ stopped \in BOOLEAN /\ crashes \in 0..MaxCrashes /\ loose \in BOOLEAN

----------------------------------------------------------------------------
(* Requests.                                                               *)

JobFiles == <<pidfile, result, epoch, wrapper, script>>

\* The status word is read first: "running, or only looks like it".
Ask(op) ==
    /\ asked = Idle
    /\ asked' = [Idle EXCEPT !.op = op, !.running = status = "running"]
    /\ UNCHANGED <<kind, status, JobFiles, applied, stopped, crashes, loose>>

Ops == IF kind = "solve" THEN {"start"}
       ELSE IF kind = "test" THEN {"start", "cancel"} ELSE {"start", "poll"}
Request == \E op \in Ops : Ask(op)

Answered == asked' = Idle
\* (defect) the lock is not looked at
BelievedIdle == FALSE
BelievedRunning == asked.running /\ Alive(pidfile)

(* A request that looks while a job has not yet written its pid takes the  *)
(* job for dead; one that starts a job while the last is about to unlink   *)
(* the pid file loses the new pid to it.                                   *)
Loose == loose \/ Young
Ending == \E j \in Jobs : wrapper[j] = "closing"

Refuse ==
    /\ asked.op = "start" /\ BelievedRunning
    /\ Answered
    /\ UNCHANGED <<kind, status, JobFiles, applied, stopped, crashes, loose>>

\* The result is removed and the job forked, before its pid is on file.
Launch(pidOnFile) ==
    /\ asked.op = "start" /\ ~BelievedRunning
    /\ pidfile' = pidOnFile
    /\ result' = 0
    /\ loose' = (Loose \/ Ending)
    /\ stopped' = FALSE
    /\ \/ \E j \in Jobs :
              /\ wrapper[j] = "none" /\ \A i \in 1..(j - 1) : wrapper[i] # "none"
              /\ wrapper' = [wrapper EXCEPT ![j] = "young"]
              /\ status' = "running"
       \/ /\ status' = "failed"               \* fork() fails
          /\ UNCHANGED wrapper
    /\ Answered
    /\ UNCHANGED <<kind, epoch, script, applied, crashes>>

\* A lock that only looks like one is cleared before the job is forked.
Unlocked == IF asked.running THEN 0 ELSE pidfile

LaunchSolve == kind = "solve" /\ Launch(Unlocked)
LaunchSweep == kind = "focus" /\ Launch(Unlocked)
LaunchTest == kind = "test" /\ Launch(0)

\* test_running() when nothing runs: the lock goes, whatever it was.
TestCleared ==
    /\ ~BelievedRunning
    /\ pidfile' = 0
    /\ status' = IF asked.running THEN "failed" ELSE status
    /\ loose' = Loose
    /\ UNCHANGED <<wrapper, script>>

\* A test whose frame, solver, hint or sensor is not acceptable.
RefuseTest ==
    /\ kind = "test" /\ asked.op = "start"
    /\ TestCleared
    /\ Answered
    /\ UNCHANGED <<kind, result, epoch, applied, stopped, crashes>>

\* (defect) SIGTERM to the wrapper alone
KillWrapper(j) ==
    /\ wrapper' = IF Alive(j) THEN [wrapper EXCEPT ![j] = "dead"] ELSE wrapper
    /\ UNCHANGED script

\* SIGTERM to the group: the wrapper, the script and the solver under it.
KillGroup(j) ==
    /\ wrapper' = IF Alive(j) THEN [wrapper EXCEPT ![j] = "dead"] ELSE wrapper
    /\ script' = IF Alive(j) /\ script[j] \in {"running", "timed"}
                 THEN [script EXCEPT ![j] = "dead"] ELSE script

\* /api/cancel: "failed" is written whether or not anything was running.
CancelSolve ==
    /\ kind = "solve" /\ asked = Idle
    /\ KillGroup(pidfile)
    /\ status' = "failed" /\ pidfile' = 0
    /\ loose' = Loose
    /\ UNCHANGED <<kind, result, epoch, asked, applied, stopped, crashes>>

\* /api/test/cancel.
CancelTest ==
    /\ asked.op = "cancel"
    /\ \/ TestCleared
       \/ /\ BelievedRunning
          /\ KillGroup(pidfile)
          /\ pidfile' = 0 /\ status' = "cancelled"
          /\ UNCHANGED loose
    /\ Answered
    /\ UNCHANGED <<kind, result, epoch, applied, stopped, crashes>>

\* stop=1: the wrapper is signalled, not its group; the pid stays on file.
StopSweep ==
    /\ kind = "focus" /\ asked = Idle
    /\ wrapper' = IF Alive(pidfile) THEN [wrapper EXCEPT ![pidfile] = "dead"] ELSE wrapper
    /\ status' = "failed"
    /\ stopped' = TRUE
    /\ loose' = (loose \/ Young \/ (pidfile # 0 /\ Executing(pidfile)))
    /\ UNCHANGED <<kind, pidfile, result, epoch, script, asked, applied, crashes>>

\* GET of the sweep: a status with no live process behind it becomes "failed".
PollSweep ==
    /\ asked.op = "poll"
    /\ LET stale == asked.running /\ ~Alive(pidfile)
       IN  /\ status' = IF stale THEN "failed" ELSE status
           /\ pidfile' = IF stale THEN 0 ELSE pidfile
           /\ loose' = (loose \/ (stale /\ Young))
    /\ Answered
    /\ UNCHANGED <<kind, result, epoch, wrapper, script, applied, stopped, crashes>>

\* /api/apply reads the solution, then the time of the frame.
AskApply ==
    /\ kind = "solve" /\ asked = Idle /\ result # 0
    /\ asked' = [Idle EXCEPT !.op = "apply", !.solution = result]
    /\ UNCHANGED <<kind, status, JobFiles, applied, stopped, crashes, loose>>

\* Applied at the frame's time, or refused: too old, unknown, not aligned.
\* With force=1 a frame whose time is unknown is applied as of now: that is
\* the user's word, and is not recorded.
Apply ==
    /\ asked.op = "apply"
    /\ applied' \in {applied} \cup {<<asked.solution, e>> : e \in {epoch} \ {0}}
    /\ Answered
    /\ UNCHANGED <<kind, status, JobFiles, stopped, crashes, loose>>

----------------------------------------------------------------------------
(* The job.                                                                *)

Requests == <<kind, asked, applied, stopped, crashes, loose>>

WritePid(j) ==
    /\ wrapper[j] = "young"
    /\ wrapper' = [wrapper EXCEPT ![j] = "working"]
    /\ pidfile' = j
    /\ UNCHANGED <<Requests, status, result, epoch, script>>

\* system(): the shell truncates the result before the script begins.
RunScript(j) ==
    /\ wrapper[j] = "working" /\ script[j] = "none"
    /\ script' = [script EXCEPT ![j] = "running"]
    /\ result' = 0
    /\ UNCHANGED <<Requests, status, pidfile, epoch, wrapper>>

\* solve-now.sh records the frame's time before it solves.
TimeFrame(j) ==
    /\ script[j] = "running"
    /\ script' = [script EXCEPT ![j] = "timed"]
    /\ epoch' = j
    /\ UNCHANGED <<Requests, status, pidfile, result, wrapper>>

\* (defect) the solution is written before the time of its frame
ScriptEndsUntimed(j) ==
    /\ Executing(j)
    /\ \/ script' = [script EXCEPT ![j] = "solved"] /\ result' = j
       \/ script' = [script EXCEPT ![j] = "failed"] /\ UNCHANGED result
    /\ UNCHANGED <<Requests, status, pidfile, epoch, wrapper>>

ScriptEnds(j) ==
    /\ \/ /\ script[j] = "timed"
          /\ script' = [script EXCEPT ![j] = "solved"]
          /\ result' = j
       \/ /\ Executing(j)
          /\ script' = [script EXCEPT ![j] = "failed"]
          /\ UNCHANGED result
    /\ UNCHANGED <<Requests, status, pidfile, epoch, wrapper>>

\* (defect) a script that fails leaves no verdict
SetVerdictOnSuccess(j) ==
    /\ wrapper[j] = "working" /\ script[j] \in {"solved", "failed"}
    /\ status' = IF script[j] = "solved" THEN "done" ELSE status
    /\ wrapper' = [wrapper EXCEPT ![j] = "closing"]
    /\ UNCHANGED <<Requests, pidfile, result, epoch, script>>

SetVerdict(j) ==
    /\ wrapper[j] = "working" /\ script[j] \in {"solved", "failed"}
    /\ status' = IF script[j] = "solved" THEN "done" ELSE "failed"
    /\ wrapper' = [wrapper EXCEPT ![j] = "closing"]
    /\ UNCHANGED <<Requests, pidfile, result, epoch, script>>

Leave(j) ==
    /\ wrapper[j] = "closing"
    /\ wrapper' = [wrapper EXCEPT ![j] = "dead"]
    /\ pidfile' = 0
    /\ UNCHANGED <<Requests, status, result, epoch, script>>

\* A job that dies without a final status, with its script or without.
Crash(j) ==
    /\ Alive(j) /\ crashes < MaxCrashes
    /\ crashes' = crashes + 1
    /\ wrapper' = [wrapper EXCEPT ![j] = "dead"]
    /\ \/ /\ script' = IF Executing(j) THEN [script EXCEPT ![j] = "dead"] ELSE script
          /\ UNCHANGED loose
       \/ /\ Executing(j)
          /\ loose' = TRUE
          /\ UNCHANGED script
    /\ UNCHANGED <<kind, status, pidfile, result, epoch, asked, applied, stopped>>

JobStep(j) == \/ WritePid(j) \/ RunScript(j) \/ TimeFrame(j) \/ ScriptEnds(j)
              \/ SetVerdict(j) \/ Leave(j)

Next ==
    \/ Request \/ Refuse \/ RefuseTest
    \/ LaunchSolve \/ LaunchSweep \/ LaunchTest
    \/ CancelSolve \/ CancelTest \/ StopSweep \/ PollSweep
    \/ AskApply \/ Apply
    \/ \E j \in Jobs : JobStep(j) \/ Crash(j)

\* The kernel schedules a job, and every script bounds its waits.
Fairness == \A j \in Jobs : WF_vars(JobStep(j))

Spec == Init /\ [][Next]_vars /\ Fairness

----------------------------------------------------------------------------

(* As long as no job has escaped its files, one script of the kind runs:   *)
(* two solves, or two sweeps of the focuser, do not overlap, whatever      *)
(* crashed, was cancelled or was asked for in between.                     *)
OneScript == loose \/ Cardinality({j \in Jobs : Executing(j)}) <= 1

(* A job that runs can be seen and cancelled: the status says so and the   *)
(* pid on file is its own.                                                 *)
RunningIsReachable ==
    \/ loose
    \/ \A j \in Jobs : wrapper[j] = "working" => status = "running" /\ pidfile = j

(* A solution is pushed to the mount with the time of its own frame.       *)
AppliedAtItsFrame == loose \/ applied[1] = applied[2]

(* A job that is not killed from outside reaches a verdict, so the status  *)
(* does not say "running" for ever.                                        *)
JobsEnd == status = "running" ~> (status # "running" \/ crashes > 0)

(* "POST stop=1 aborts one": after a stop no sweep drives the focuser.     *)
StopEndsSweep == stopped => \A j \in Jobs : ~Executing(j)

=============================================================================
