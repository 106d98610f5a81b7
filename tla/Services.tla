------------------------------ MODULE Services ------------------------------
(***************************************************************************)
(* The services whose properties need fairness, side by side as in Parts:  *)
(* the USB supervisor, the background jobs of the web server and the       *)
(* gotos. They share no state with one another.                            *)
(***************************************************************************)
EXTENDS UsbSupervisor

CONSTANTS
  MaxJobs, MaxCrashes,    \* of WebJobs
  MaxMoves, RefineMax     \* of Gotos

ASSUME JobsAssumption == MaxJobs \in Nat

VARIABLES part,
  kind, status, pidfile, result, epoch, wrapper, script, asked, applied, stopped,
  crashes, loose,
  headMoving, aborted, stage, client, answer, passes, slewPid, busy

Web == INSTANCE WebJobs
Pointing == INSTANCE Gotos WITH
  moving <- headMoving, owner <- client, reply <- answer

supervisorVars == <<pc, camera, attached, bound, baseline, candidate, stable, restarts,
                    quarantined, qcandidate, qstable, retry, grace, seen, seenFor, absorbed,
                    sinceRestart>>
jobVars == <<kind, status, pidfile, result, epoch, wrapper, script, asked, applied, stopped,
             crashes, loose>>
gotoVars == <<headMoving, aborted, stage, client, answer, passes, slewPid, busy>>

ServicesInit ==
  /\ part \in {"supervisor", "jobs", "gotos"}
  /\ Init /\ (part # "supervisor" => camera = 0)
  /\ Web!Init /\ (part # "jobs" => kind = "solve")
  /\ Pointing!Init

OnlyPart(p) ==
  /\ part = p /\ UNCHANGED part
  /\ p # "supervisor" => UNCHANGED supervisorVars
  /\ p # "jobs" => UNCHANGED jobVars
  /\ p # "gotos" => UNCHANGED gotoVars

ServicesNext ==
  \/ OnlyPart("supervisor") /\ Next
  \/ OnlyPart("jobs") /\ Web!Next
  \/ OnlyPart("gotos") /\ Pointing!Next

\* The fairness of each service, in the behaviours that are about it.
ServicesFairness ==
  /\ part = "supervisor" => Fairness
  /\ \A j \in Web!Jobs : WF_jobVars(part = "jobs" /\ Web!JobStep(j))
  /\ \A m \in Pointing!Moves : WF_gotoVars(part = "gotos" /\ Pointing!MoveStep(m))

servicesVars == <<part, supervisorVars, jobVars, gotoVars>>

ServicesSpec ==
  /\ ServicesInit
  /\ [][ServicesNext]_servicesVars
  /\ ServicesFairness

-----------------------------------------------------------------------------
\* The properties of the services, each stated in its module.
SupervisorSettles == part = "supervisor" => Settles
OneScript == Web!OneScript
RunningIsReachable == Web!RunningIsReachable
AppliedAtItsFrame == Web!AppliedAtItsFrame
JobsEnd == Web!JobsEnd
GotosEnd == Pointing!GotosEnd
=============================================================================
