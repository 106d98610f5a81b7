------------------------ MODULE CameraLaunch_proofs ------------------------
(***************************************************************************)
(* Proofs about CameraLaunch, for any number of processes, helpers, calls  *)
(* and faults.                                                             *)
(*                                                                         *)
(* A step of a process moves it alone and brings none to life (Moves);     *)
(* only a launch does, with a process id that nothing remembers.  That     *)
(* gives OldInv.  AloneInv follows one live process, wrapper or pgphoto,   *)
(* from helper to helper, as long as nobody else launches.  Others may be  *)
(* dying beside it; RecordedInv says that then the PID file names the live *)
(* one, so that no helper takes a dying one for it.                        *)
(***************************************************************************)
EXTENDS CameraLaunch, TLAPS

At == {"none"} \union Wrapper \union Pgphoto

-----------------------------------------------------------------------------
(* Types *)

ProcTypes == pc' \in [Pids -> At] /\ sees' \in [Pids -> PidOrNone] /\ port' \in PidOrNone

LEMMA Names ==
  /\ None \in PidOrNone /\ "none" \in At /\ Wrapper \subseteq At /\ Pgphoto \subseteq At
  /\ \A p \in Pids : p \in PidOrNone /\ p # None
BY NoneAssumption DEF PidOrNone, At

LEMMA GoTypes ==
  ASSUME TypeOK, NEW p \in Pids, NEW s \in At, Go(p, s)
  PROVE  pc' \in [Pids -> At]
BY DEF TypeOK, Go, At

LEMMA DiesTypes ==
  ASSUME TypeOK, NEW p \in Pids, Dies(p)
  PROVE  ProcTypes
BY Names DEF TypeOK, Dies, ProcTypes, At

LEMMA StillTypes ==
  ASSUME TypeOK, NEW p \in Pids, NEW s \in At, Go(p, s), UNCHANGED <<sees, port>>
  PROVE  ProcTypes
BY GoTypes DEF TypeOK, ProcTypes

LEMMA LaunchesTypes ==
  ASSUME TypeOK, NEW p \in Pids, Launches(p)
  PROVE  TypeOK'
<1> USE DEF TypeOK
<1>0. UNCHANGED helper /\ UNCHANGED env
  BY DEF Launches, Mkdir, Look, Judges, Reclaim, Publish, Check, Delay, Wake, Record, Release,
         Unlock, Exec, Bind
<1>1. ASSUME ProcTypes, UNCHANGED launchLock, UNCHANGED files PROVE TypeOK'
  BY <1>0, <1>1 DEF ProcTypes, launchLock, files, helper, env, At
<1>2. CASE Mkdir(p)
  <2>1. ProcTypes
    <3>1. CASE ~lock
      BY <1>2, <3>1, StillTypes DEF Mkdir, At, Wrapper, Untrapped
    <3>2. CASE lock
      BY <1>2, <3>2, StillTypes, DiesTypes DEF Mkdir, At, Wrapper, Untrapped
    <3> QED BY <3>1, <3>2
  <2>2. lock' \in BOOLEAN /\ lockPid' \in PidOrNone /\ (~lock' => lockPid' = None) /\ UNCHANGED files
    BY <1>2, Names DEF Mkdir, launchLock
  <2> QED BY <2>1, <2>2, <1>0 DEF ProcTypes, files, helper, env, At
<1>3. CASE Look(p)
  <2>1. pc' \in [Pids -> At]
    BY <1>3, GoTypes DEF Look, At, Wrapper, Untrapped
  <2>2. sees' \in [Pids -> PidOrNone]
    BY <1>3 DEF Look
  <2> QED BY <1>1, <1>3, <2>1, <2>2 DEF Look, ProcTypes
<1>4. CASE Judges(p)
  <2>1. ProcTypes
    BY <1>4, StillTypes, DiesTypes DEF Judges, Judge, At, Wrapper, Untrapped
  <2> QED BY <1>1, <1>4, <2>1 DEF Judges
<1>5. CASE Reclaim(p)
  <2>1. ProcTypes
    BY <1>5, StillTypes DEF Reclaim, At, Wrapper, Untrapped
  <2> QED BY <1>0, <1>5, <2>1, Names DEF Reclaim, ProcTypes, files, helper, env, At
<1>6. CASE Publish(p)
  <2>1. ProcTypes
    BY <1>6, StillTypes DEF Publish, At, Wrapper, Trapped
  <2>2. lock' = lock /\ lockPid' \in PidOrNone /\ (~lock' => lockPid' = None)
    BY <1>6, Names DEF Publish, Published
  <2> QED BY <1>0, <1>6, <2>1, <2>2 DEF Publish, ProcTypes, files, helper, env, At
<1>7. CASE Check(p) \/ Wake(p)
  <2>1. ProcTypes
    BY <1>7, StillTypes DEF Check, Wake, At, Wrapper, Trapped, Leaving
  <2> QED BY <1>1, <1>7, <2>1 DEF Check, Wake
<1>8. CASE Delay(p)
  <2>1. ProcTypes
    BY <1>8, StillTypes DEF Delay, At, Wrapper, Trapped
  <2> QED BY <1>0, <1>8, <2>1 DEF Delay, ProcTypes, launchLock, helper, env, At
<1>9. CASE Record(p)
  <2>1. ProcTypes
    BY <1>9, StillTypes DEF Record, At, Wrapper, Trapped
  <2> QED BY <1>0, <1>9, <2>1, Names DEF Record, ProcTypes, launchLock, helper, env, At
<1>10. CASE Release(p)
  <2>1. ProcTypes
    BY <1>10, StillTypes, DiesTypes DEF Release, At, Wrapper, Trapped, Leaving
  <2> QED BY <1>1, <1>10, <2>1 DEF Release
<1>11. CASE Unlock(p)
  <2>1. ProcTypes
    BY <1>11, StillTypes, DiesTypes DEF Unlock, At, Wrapper, Trapped
  <2> QED BY <1>0, <1>11, <2>1, Names DEF Unlock, ProcTypes, files, helper, env, At
<1>12. CASE Exec(p)
  <2>1. pc' \in [Pids -> At]
    BY <1>12, GoTypes DEF Exec, At, Pgphoto
  <2> QED BY <1>1, <1>12, <2>1, Names DEF Exec, ProcTypes
<1>13. CASE Bind(p)
  <2>1. ProcTypes
    <3>1. CASE port = None
      <4>1. pc' \in [Pids -> At]
        BY <1>13, <3>1, GoTypes DEF Bind, At, Pgphoto
      <4> QED BY <1>13, <3>1, <4>1, Names DEF Bind, ProcTypes
    <3>2. CASE port # None
      BY <1>13, <3>2, DiesTypes DEF Bind
    <3> QED BY <3>1, <3>2
  <2> QED BY <1>1, <1>13, <2>1 DEF Bind
<1> QED
  BY <1>2, <1>3, <1>4, <1>5, <1>6, <1>7, <1>8, <1>9, <1>10, <1>11, <1>12, <1>13 DEF Launches

HelperTypes ==
  /\ hpc' \in [Helpers -> HelperAt] /\ restartLock' \in BOOLEAN
  /\ old' \in [Helpers -> PidOrNone] /\ new' \in [Helpers -> PidOrNone]

LEMMA HGoTypes ==
  ASSUME TypeOK, NEW h \in Helpers, NEW s \in HelperAt, HGo(h, s)
  PROVE  hpc' \in [Helpers -> HelperAt]
BY DEF TypeOK, HGo

LEMMA ReturnsTypes ==
  ASSUME TypeOK, NEW h \in Helpers, Returns(h)
  PROVE  HelperTypes
BY Names DEF TypeOK, Returns, HGo, HelperTypes, HelperAt

LEMMA RestartsTypes ==
  ASSUME TypeOK, NEW h \in Helpers, Restarts(h)
  PROVE  TypeOK'
<1> USE DEF TypeOK
<1>0. UNCHANGED env
  BY DEF Restarts, Find, Stop, Wait, Clean, LockLook, LockRemove, Launch, HRecord, Verify
<1>1. ASSUME HelperTypes, UNCHANGED procs, UNCHANGED launchLock, pidFile' \in PidOrNone,
             backoff' \in BOOLEAN
      PROVE TypeOK'
  BY <1>0, <1>1 DEF HelperTypes, procs, launchLock, env
<1>2. CASE Find(h)
  <2>1. hpc' \in [Helpers -> HelperAt]
    BY <1>2, HGoTypes DEF Find, HelperAt
  <2>2. old' \in [Helpers -> PidOrNone] /\ pidFile' \in PidOrNone
    BY <1>2, Names DEF Find
  <2> QED BY <1>1, <1>2, <2>1, <2>2 DEF Find, HelperTypes
<1>3. CASE Stop(h)
  <2>1. HelperTypes
    BY <1>3, HGoTypes DEF Stop, HelperAt, HelperTypes
  <2>2. CASE UNCHANGED procs
    BY <1>1, <1>3, <2>1, <2>2 DEF Stop, files
  <2>3. CASE Dies(old[h])
    <3>1. pc' \in [Pids -> At]
      BY <2>3 DEF Dies, At
    <3>2. sees' \in [Pids -> PidOrNone] /\ port' \in PidOrNone
      BY <2>3, Names DEF Dies
    <3> QED BY <1>0, <1>3, <2>1, <3>1, <3>2 DEF Stop, HelperTypes, launchLock, files, env, At
  <2> QED BY <1>3, <2>2, <2>3 DEF Stop
<1>4. CASE Wait(h)
  <2>1. CASE PortFree(h) /\ UNCHANGED procs
    <3>1. HelperTypes
      BY <2>1, HGoTypes, ReturnsTypes DEF PortFree, HelperAt, HelperTypes
    <3> QED BY <1>1, <1>4, <2>1, <3>1 DEF Wait, files
  <2>2. CASE Dies(old[h]) /\ UNCHANGED helper
    <3>1. pc' \in [Pids -> At]
      BY <2>2 DEF Dies, At
    <3>2. sees' \in [Pids -> PidOrNone] /\ port' \in PidOrNone
      BY <2>2, Names DEF Dies
    <3> QED BY <1>0, <1>4, <2>2, <3>1, <3>2 DEF Wait, launchLock, files, helper, env, At
  <2>3. CASE /\ Go(old[h], "dying") /\ UNCHANGED <<sees, port>>
             /\ HGo(h, "killed") /\ UNCHANGED <<old, new, restartLock>>
    <3>1. pc' \in [Pids -> At]
      BY <2>3 DEF Go, At, Pgphoto
    <3>2. HelperTypes
      BY <2>3, HGoTypes DEF HelperAt, HelperTypes
    <3> QED BY <1>0, <1>4, <2>3, <3>1, <3>2 DEF Wait, HelperTypes, launchLock, files, env, At
  <2> QED BY <1>4, <2>1, <2>2, <2>3 DEF Wait, Stopped
<1>5. CASE Clean(h)
  <2>1. HelperTypes
    BY <1>5, HGoTypes DEF Clean, HelperAt, HelperTypes
  <2> QED BY <1>1, <1>5, <2>1, Names DEF Clean
<1>6. CASE LockLook(h)
  <2>1. HelperTypes
    <3>1. CASE HGo(h, "launch") /\ UNCHANGED <<old, new, restartLock>>
      BY <3>1, HGoTypes DEF HelperAt, HelperTypes
    <3>2. CASE Returns(h)
      BY <3>2, ReturnsTypes
    <3>3. CASE (HGo(h, "lockAgain") \/ HGo(h, "rmLock")) /\ UNCHANGED <<old, new, restartLock>>
      BY <3>3, HGoTypes DEF HelperAt, HelperTypes
    <3> QED BY <1>6, <3>1, <3>2, <3>3 DEF LockLook
  <2> QED BY <1>1, <1>6, <2>1 DEF LockLook, files
<1>7. CASE LockRemove(h)
  <2>1. HelperTypes
    BY <1>7, HGoTypes DEF LockRemove, HelperAt, HelperTypes
  <2> QED BY <1>0, <1>7, <2>1, Names DEF LockRemove, HelperTypes, procs, files, env
<1>8. CASE Launch(h)
  <2>1. PICK p \in Pids : Go(p, "mkdir") /\ new' = [new EXCEPT ![h] = p]
    BY <1>8 DEF Launch
  <2>2. pc' \in [Pids -> At]
    BY <2>1, GoTypes DEF At, Wrapper, Untrapped
  <2>3. HelperTypes
    BY <1>8, <2>1, HGoTypes, Names DEF Launch, HelperAt, HelperTypes
  <2> QED BY <1>0, <1>8, <2>2, <2>3 DEF Launch, HelperTypes, launchLock, files, env, At
<1>9. CASE HRecord(h)
  <2>1. HelperTypes
    BY <1>9, HGoTypes DEF HRecord, HelperAt, HelperTypes
  <2> QED BY <1>1, <1>9, <2>1 DEF HRecord
<1>10. CASE Verify(h)
  <2>1. HelperTypes
    BY <1>10, HGoTypes, ReturnsTypes DEF Verify, HelperAt, HelperTypes
  <2> QED BY <1>1, <1>10, <2>1 DEF Verify, files
<1> QED BY <1>2, <1>3, <1>4, <1>5, <1>6, <1>7, <1>8, <1>9, <1>10 DEF Restarts

LEMMA NextTypeOK == TypeOK /\ [Next]_vars => TypeOK'
<1> SUFFICES ASSUME TypeOK, [Next]_vars PROVE TypeOK' OBVIOUS
<1> USE DEF TypeOK
<1>1. ASSUME NEW p \in Pids, Launches(p) PROVE TypeOK'
  BY <1>1, LaunchesTypes
<1>2. ASSUME NEW p \in Pids, Watch(p) PROVE TypeOK'
  <2>1. pc' \in [Pids -> At]
    BY <1>2, GoTypes DEF Watch, At, Wrapper, Untrapped
  <2> QED BY <1>2, <2>1 DEF Watch, launchLock, files, helper, env, At
<1>3. ASSUME Fault PROVE faults' \in 0..MaxFaults /\ UNCHANGED <<watchdog, calls>>
  BY <1>3, BoundsAssumption DEF Fault
<1>4. ASSUME NEW p \in Pids, Killed(p) PROVE TypeOK'
  <2>1. ProcTypes
    BY <1>4, DiesTypes DEF Killed
  <2> QED BY <1>3, <1>4, <2>1 DEF Killed, ProcTypes, launchLock, files, helper, At
<1>5. ASSUME NEW p \in Pids, Term(p) PROVE TypeOK'
  <2>1. ProcTypes
    BY <1>5, DiesTypes, StillTypes DEF Term, At, Wrapper, Leaving
  <2> QED BY <1>3, <1>5, <2>1 DEF Term, ProcTypes, launchLock, files, helper, At
<1>6. ASSUME NEW h \in Helpers, Call(h) PROVE TypeOK'
  <2>1. hpc' \in [Helpers -> HelperAt]
    BY <1>6, HGoTypes DEF Call, HelperAt
  <2>2. calls' \in 0..MaxCalls
    BY <1>6, BoundsAssumption DEF Call
  <2> QED BY <1>6, <2>1, <2>2 DEF Call, procs, launchLock, files
<1>7. ASSUME NEW h \in Helpers, Restarts(h) PROVE TypeOK'
  BY <1>7, RestartsTypes
<1>8. ASSUME NEW h \in Helpers, HKilled(h) PROVE TypeOK'
  <2>1. hpc' \in [Helpers -> HelperAt]
    BY <1>8, HGoTypes DEF HKilled, HelperAt
  <2>2. old' \in [Helpers -> PidOrNone] /\ new' \in [Helpers -> PidOrNone]
    BY <1>8, Names DEF HKilled
  <2> QED BY <1>3, <1>8, <2>1, <2>2 DEF HKilled, procs, launchLock, files
<1>9. ASSUME NEW h \in Helpers, HInterrupted(h) PROVE TypeOK'
  <2>1. HelperTypes
    BY <1>9, ReturnsTypes DEF HInterrupted
  <2>2. orphaned' \in BOOLEAN
    BY <1>9 DEF HInterrupted
  <2> QED BY <1>3, <1>9, <2>1, <2>2 DEF HInterrupted, HelperTypes, procs, launchLock, files
<1>10. ASSUME NEW p \in Pids, Ends(p) PROVE TypeOK'
  <2>1. ProcTypes
    BY <1>10, DiesTypes DEF Ends
  <2> QED BY <1>10, <2>1 DEF Ends, ProcTypes, launchLock, files, helper, env, At
<1>11. CASE UNCHANGED vars
  BY <1>11 DEF vars, procs, launchLock, files, helper, env
<1> QED BY <1>1, <1>2, <1>4, <1>5, <1>6, <1>7, <1>8, <1>9, <1>10, <1>11 DEF Next

LEMMA InitTypeOK == Init => TypeOK
<1> SUFFICES ASSUME Init PROVE TypeOK OBVIOUS
<1>1. pc \in [Pids -> At] /\ port \in PidOrNone /\ pidFile \in PidOrNone
  BY Names DEF Init, At, Pgphoto
<1>2. 0 \in 0..MaxFaults /\ 0 \in 0..MaxCalls
  BY BoundsAssumption
<1>3. "none" \in HelperAt
  BY DEF HelperAt
<1> QED BY <1>1, <1>2, <1>3, Names DEF Init, TypeOK, At

\* Every variable keeps its type; in particular the launch lock never has a pid
\* without its directory.
THEOREM TypeCorrect == Spec => []TypeOK
BY InitTypeOK, NextTypeOK, PTL DEF Spec

-----------------------------------------------------------------------------
(* What a step does to the processes *)

Early == Untrapped \union {"check", "delay"}
Running == {"starting", "serving"}

\* Nothing of p comes to life but p itself, and only what it already was; nobody
\* gets a listener but a live process.
Moves(p) ==
  /\ Alive(p)
  /\ \A q \in Pids : q # p => pc'[q] = pc[q]
  /\ pc[p] \in Pgphoto => pc'[p] \in Pgphoto \union {"none"}
  /\ pc'[p] = "dying" => pc[p] = "dying"
  /\ ~Live(p) => pc'[p] \in {"dying", "none"}
  /\ port' \in {port, None} \/ (port' = p /\ Live(p))

LEMMA DiesMoves ==
  ASSUME TypeOK, NEW p \in Pids, Alive(p), Dies(p)
  PROVE  Moves(p) /\ pc'[p] = "none"
BY DEF TypeOK, Dies, Moves

LEMMA GoMoves ==
  ASSUME TypeOK, NEW p \in Pids, NEW s, pc[p] \in Wrapper, s # "dying", Go(p, s), UNCHANGED port
  PROVE  Moves(p) /\ pc'[p] = s
BY DEF TypeOK, Go, Moves, Alive, Live, Wrapper, Untrapped, Trapped, Leaving, Pgphoto

LEMMA LaunchesMoves ==
  ASSUME TypeOK, NEW p \in Pids, Launches(p)
  PROVE  /\ Moves(p) /\ UNCHANGED <<helper, env>>
         /\ pc'[p] = "sleep" => backoff /\ pc[p] \in Early
         /\ pc'[p] \in Early => backoff' = backoff /\ pc[p] \in Early
<1> USE DEF Wrapper, Untrapped, Trapped, Leaving, Early
<1>1. CASE Mkdir(p)
  <2>1. CASE Dies(p)
    BY <1>1, <2>1, DiesMoves DEF Mkdir, Alive, files
  <2>2. CASE (Go(p, "publish") \/ Go(p, "look")) /\ UNCHANGED port
    BY <1>1, <2>2, GoMoves DEF Mkdir, files
  <2> QED BY <1>1, <2>1, <2>2 DEF Mkdir
<1>2. CASE Look(p)
  BY <1>2, GoMoves DEF Look, files
<1>3. CASE Judges(p)
  <2>1. CASE Dies(p)
    BY <1>3, <2>1, DiesMoves DEF Judges, Judge, Alive, files
  <2>2. CASE Go(p, "reclaim") /\ UNCHANGED port
    BY <1>3, <2>2, GoMoves DEF Judges, Judge, files
  <2> QED BY <1>3, <2>1, <2>2 DEF Judges, Judge
<1>4. CASE Reclaim(p)
  BY <1>4, GoMoves DEF Reclaim, files
<1>5. CASE Publish(p)
  BY <1>5, GoMoves DEF Publish, files
<1>6. CASE Check(p)
  BY <1>6, GoMoves DEF Check, files
<1>7. CASE Delay(p)
  <2>1. pc[p] \in Wrapper /\ pc[p] \in Early /\ UNCHANGED <<helper, env>> /\ UNCHANGED port
    BY <1>7 DEF Delay
  <2>2. CASE Go(p, "record")
    BY <2>1, <2>2, GoMoves
  <2>3. CASE backoff /\ Go(p, "sleep")
    <3>1. Moves(p) /\ pc'[p] = "sleep"
      BY <2>1, <2>3, GoMoves
    <3>2. pc'[p] \notin Early
      BY <3>1
    <3> QED BY <2>1, <2>3, <3>1, <3>2
  <2> QED BY <1>7, <2>2, <2>3 DEF Delay
<1>8. CASE Wake(p)
  BY <1>8, GoMoves DEF Wake
<1>9. CASE Record(p)
  BY <1>9, GoMoves DEF Record
<1>10. CASE Release(p)
  <2>1. CASE Dies(p)
    BY <1>10, <2>1, DiesMoves DEF Release, Alive
  <2>2. CASE (Go(p, "unlock") \/ Go(p, "exec") \/ Go(p, "unlockExit")) /\ UNCHANGED port
    BY <1>10, <2>2, GoMoves DEF Release
  <2> QED BY <1>10, <2>1, <2>2 DEF Release
<1>11. CASE Unlock(p)
  <2>1. CASE pc[p] = "unlock" /\ Go(p, "exec")
    BY <1>11, <2>1, GoMoves DEF Unlock
  <2>2. CASE pc[p] = "unlockExit" /\ Dies(p)
    BY <1>11, <2>2, DiesMoves DEF Unlock, Alive
  <2> QED BY <1>11, <2>1, <2>2 DEF Unlock
<1>12. CASE Exec(p)
  BY <1>12, GoMoves DEF Exec
<1>13. CASE Bind(p)
  <2>1. CASE Go(p, "serving") /\ port' = p
    BY <1>13, <2>1 DEF Bind, Go, TypeOK, Moves, Alive, Live, Pgphoto
  <2>2. CASE Dies(p)
    BY <1>13, <2>2, DiesMoves DEF Bind, Alive
  <2> QED BY <1>13, <2>1, <2>2 DEF Bind
<1> QED
  BY <1>1, <1>2, <1>3, <1>4, <1>5, <1>6, <1>7, <1>8, <1>9, <1>10, <1>11, <1>12, <1>13 DEF Launches

LEMMA FaultMoves ==
  ASSUME TypeOK, NEW p \in Pids, Ends(p) \/ Killed(p) \/ Term(p)
  PROVE  /\ Moves(p) /\ UNCHANGED <<helper, files, watchdog, orphaned>>
         /\ pc'[p] = "none" \/ (Live(p) /\ pc'[p] = "exit")
<1>1. CASE Killed(p)
  BY <1>1, DiesMoves DEF Killed, Fault
<1>2. CASE Term(p) /\ Dies(p)
  BY <1>2, DiesMoves DEF Term, Fault, Alive, Untrapped, Trapped
<1>3. CASE Term(p) /\ pc[p] \in Trapped \ {"exec"} /\ Go(p, "exit") /\ UNCHANGED port
  BY <1>3, GoMoves DEF Term, Fault, Wrapper, Live, Trapped
<1>4. CASE Ends(p)
  BY <1>4, DiesMoves DEF Ends, Alive, env
<1> QED BY <1>1, <1>2, <1>3, <1>4 DEF Term

\* A helper moves no process but the one it stops, and that to its end.
LEMMA RestartsMove ==
  ASSUME TypeOK, NEW h \in Helpers, Find(h) \/ Stop(h) \/ Wait(h) \/ Clean(h) \/ LockLook(h)
           \/ LockRemove(h) \/ HRecord(h) \/ Verify(h)
  PROVE  /\ UNCHANGED pc \/ hpc[h] \in {"stop", "wait"}
         /\ \A q \in Pids : pc'[q] \in {pc[q], "none", "dying"} /\ (Live(q)' => Live(q))
         /\ port' \in {port, None}
<1>1. CASE Stop(h)
  BY <1>1 DEF Stop, Dies, procs, TypeOK, Live
<1>2. CASE Wait(h)
  BY <1>2 DEF Wait, Stopped, Dies, Go, procs, TypeOK, Live
<1>3. CASE Find(h) \/ Clean(h) \/ LockLook(h) \/ LockRemove(h) \/ HRecord(h) \/ Verify(h)
  BY <1>3 DEF Find, Clean, LockLook, LockRemove, HRecord, Verify, procs, Live
<1> QED BY <1>1, <1>2, <1>3

-----------------------------------------------------------------------------
(* The one to be replaced *)

After == {"clean", "lock", "lockAgain", "rmLock", "launch", "record", "verify", "ready"}
OldInv ==
  \A h \in Helpers :
    /\ hpc[h] \in {"none", "find"} => old[h] = None
    /\ hpc[h] = "killed" /\ old[h] # None => ~Live(old[h])
    /\ hpc[h] \in After /\ old[h] # None => ~Live(old[h]) /\ port # old[h]

\* Who comes to life is nobody's old one, and who does not live gets no listener.
StaysGone ==
  \A q \in Pids :
    /\ Live(q)' => Live(q) \/ \A h \in Helpers : old[h] # q
    /\ port' = q => port = q \/ Live(q)

LEMMA OldStaysGone ==
  ASSUME TypeOK, OldInv, UNCHANGED <<hpc, old>>, StaysGone
  PROVE  OldInv'
BY DEF TypeOK, OldInv, PidOrNone, StaysGone, Live, After

LEMMA MovesStayGone ==
  ASSUME TypeOK, NEW p \in Pids, Moves(p)
  PROVE  StaysGone
BY Names DEF Moves, StaysGone, Live, TypeOK

\* A helper other than h keeps what it had.
LEMMA OthersStayGone ==
  ASSUME TypeOK, OldInv, StaysGone, NEW h \in Helpers,
         \A g \in Helpers : g # h => hpc'[g] = hpc[g] /\ old'[g] = old[g],
         hpc'[h] \in {"none", "find"} => old'[h] = None,
         hpc'[h] = "killed" /\ old'[h] # None => ~Live(old[h])' ,
         hpc'[h] \in After /\ old'[h] # None => ~Live(old[h])' /\ port' # old'[h]
  PROVE  OldInv'
<1> SUFFICES ASSUME NEW g \in Helpers
             PROVE  /\ hpc'[g] \in {"none", "find"} => old'[g] = None
                    /\ hpc'[g] = "killed" /\ old'[g] # None => ~Live(old[g])'
                    /\ hpc'[g] \in After /\ old'[g] # None => ~Live(old[g])' /\ port' # old'[g]
  BY DEF OldInv
<1>1. CASE g = h
  BY <1>1
<1>2. CASE g # h
  <2>1. old[g] \in Pids \/ old[g] = None
    BY DEF TypeOK, PidOrNone
  <2> QED BY <1>2, <2>1 DEF OldInv, StaysGone, Live, After
<1> QED BY <1>1, <1>2

LEMMA NextOldInv == TypeOK /\ OldInv /\ [Next]_vars => OldInv'
<1> SUFFICES ASSUME TypeOK, OldInv, [Next]_vars PROVE OldInv' OBVIOUS
<1>1. ASSUME NEW p \in Pids, Launches(p) \/ Ends(p) \/ Killed(p) \/ Term(p) PROVE OldInv'
  <2>1. Moves(p) /\ UNCHANGED helper
    BY <1>1, LaunchesMoves, FaultMoves
  <2> QED BY <2>1, MovesStayGone, OldStaysGone DEF helper
<1>2. ASSUME NEW p \in Pids, Watch(p) PROVE OldInv'
  <2>1. StaysGone
    BY <1>2 DEF Watch, Fresh, Go, TypeOK, Live, StaysGone
  <2> QED BY <1>2, <2>1, OldStaysGone DEF Watch, helper
<1>3. ASSUME UNCHANGED <<pc, port>> PROVE StaysGone
  BY <1>3 DEF StaysGone, Live
<1>4. ASSUME NEW h \in Helpers, Call(h) PROVE OldInv'
  <2>1. hpc' = [hpc EXCEPT ![h] = "find"] /\ UNCHANGED old /\ old[h] = None
    BY <1>4 DEF Call, HGo, OldInv
  <2> QED BY <1>3, <1>4, <2>1, OthersStayGone DEF Call, procs, TypeOK, After
<1>5. ASSUME NEW h \in Helpers, Returns(h) \/ HKilled(h), StaysGone PROVE OldInv'
  <2>1. hpc' = [hpc EXCEPT ![h] = "none"] /\ old' = [old EXCEPT ![h] = None]
    BY <1>5 DEF Returns, HKilled, HGo
  <2> QED BY <1>5, <2>1, OthersStayGone DEF TypeOK, After
<1>6. ASSUME NEW h \in Helpers, Launch(h) PROVE OldInv'
  <2>1. PICK p \in Pids : Fresh(p) /\ Go(p, "mkdir")
    BY <1>6 DEF Launch
  <2>2. /\ \A q \in Pids : Live(q)' => Live(q) \/ \A g \in Helpers : old[g] # q
        /\ UNCHANGED port
    BY <1>6, <2>1 DEF Launch, Go, TypeOK, Live, Fresh
  <2>3. StaysGone
    BY <2>2 DEF StaysGone
  <2>4. hpc[h] = "launch" /\ hpc' = [hpc EXCEPT ![h] = "record"] /\ UNCHANGED old
    BY <1>6 DEF Launch, HGo
  <2>5. old[h] # None => ~Live(old[h])' /\ port' # old[h]
    BY <2>2, <2>4 DEF OldInv, After, TypeOK, PidOrNone, Live
  <2> QED BY <2>3, <2>4, <2>5, OthersStayGone DEF TypeOK, Live
<1>7. ASSUME NEW h \in Helpers, Find(h) \/ Stop(h) \/ Wait(h) \/ Clean(h) \/ LockLook(h)
               \/ LockRemove(h) \/ HRecord(h) \/ Verify(h)
      PROVE  OldInv'
  <2>0. (\A q \in Pids : Live(q)' => Live(q)) /\ port' \in {port, None}
    BY <1>7, RestartsMove
  <2>1. StaysGone
    BY <2>0, Names DEF StaysGone
  <2>2. CASE Returns(h)
    BY <1>5, <2>1, <2>2
  <2>3. CASE UNCHANGED <<hpc, old>>
    BY <2>1, <2>3, OldStaysGone
  <2>4. CASE hpc' = [hpc EXCEPT ![h] = "stop"] /\ \A g \in Helpers : g # h => old'[g] = old[g]
    BY <2>1, <2>4, OthersStayGone DEF TypeOK, After
  <2>5. CASE hpc' = [hpc EXCEPT ![h] = "wait"] /\ old' = old
    BY <2>1, <2>5, OthersStayGone DEF TypeOK, After
  <2>6. CASE /\ \E s \in After : hpc' = [hpc EXCEPT ![h] = s]
             /\ old' = old /\ (old[h] # None => ~Live(old[h]) /\ port # old[h])
    <3>1. old[h] # None => ~Live(old[h])' /\ port' # old[h]
      BY <2>0, <2>6, Names DEF TypeOK, PidOrNone, Live
    <3> QED BY <2>1, <2>6, <3>1, OthersStayGone DEF TypeOK, After, Live
  <2>7. hpc[h] \in After \union {"find"} /\ old[h] # None => ~Live(old[h]) /\ port # old[h]
    BY DEF OldInv
  <2>8. CASE Find(h)
    <3>1. CASE hpc' = [hpc EXCEPT ![h] = "stop"]
      BY <2>4, <2>8, <3>1 DEF Find, TypeOK
    <3>2. CASE hpc' = [hpc EXCEPT ![h] = "clean"] /\ old' = old
      BY <2>6, <2>7, <2>8, <3>2 DEF Find, After
    <3> QED BY <2>8, <3>1, <3>2 DEF Find, HGo
  <2>9. CASE Stop(h)
    BY <2>5, <2>9 DEF Stop, HGo
  <2>10. CASE Wait(h)
    <3>1. ASSUME PortFree(h), old[h] # None => ~Live(old[h]) PROVE OldInv'
      <4>1. CASE port = None /\ hpc' = [hpc EXCEPT ![h] = "clean"] /\ old' = old
        BY <2>6, <3>1, <4>1 DEF After
      <4> QED BY <2>2, <3>1, <4>1 DEF PortFree, HGo
    <3>2. ASSUME hpc[h] = "wait", Stopped(h) PROVE OldInv'
      <4>1. CASE ~Alive(old[h])
        BY <3>1, <3>2, <4>1 DEF Stopped, Alive, Live
      <4>2. CASE Alive(old[h])
        <5>1. /\ pc' = [pc EXCEPT ![old[h]] = "dying"] /\ old' = old
              /\ hpc' = [hpc EXCEPT ![h] = "killed"]
          BY <3>2, <4>2 DEF Stopped, Go, HGo
        <5>2. old[h] # None => ~Live(old[h])'
          BY <5>1 DEF Live, TypeOK, PidOrNone
        <5> QED BY <2>1, <5>1, <5>2, OthersStayGone DEF TypeOK, After, Live
      <4> QED BY <4>1, <4>2
    <3>3. CASE hpc[h] = "killed" /\ PortFree(h)
      BY <3>1, <3>3 DEF OldInv
    <3> QED BY <2>3, <2>10, <3>2, <3>3 DEF Wait, helper
  <2>11. CASE Clean(h) \/ LockRemove(h) \/ HRecord(h)
    BY <2>6, <2>7, <2>11 DEF Clean, LockRemove, HRecord, HGo, After
  <2>12. CASE LockLook(h)
    BY <2>2, <2>6, <2>7, <2>12 DEF LockLook, HGo, After
  <2>13. CASE Verify(h)
    BY <2>2, <2>6, <2>7, <2>13 DEF Verify, HGo, After
  <2> QED BY <1>7, <2>8, <2>9, <2>10, <2>11, <2>12, <2>13
<1>8. ASSUME NEW h \in Helpers, HKilled(h) \/ HInterrupted(h) PROVE OldInv'
  BY <1>3, <1>5, <1>8 DEF HKilled, HInterrupted, procs
<1>9. CASE UNCHANGED vars
  BY <1>3, <1>9, OldStaysGone DEF vars, procs, helper
<1> QED
  BY <1>1, <1>2, <1>4, <1>6, <1>7, <1>8, <1>9 DEF Next, Restarts

\* Before a helper launches anything, what it replaces has ended, or has got its
\* KILL and has no listener, however many helpers and wrappers run, and whoever is
\* killed or interrupted.
THEOREM OldGoneCorrect == Spec => []OldGone
<1>1. Init => OldInv
  BY DEF Init, OldInv, After
<1>2. OldInv => OldGone
  BY DEF OldInv, OldGone, After
<1>3. Init => TypeOK /\ OldInv
  BY <1>1, InitTypeOK
<1>4. TypeOK /\ OldInv /\ [Next]_vars => (TypeOK /\ OldInv)'
  BY NextTypeOK, NextOldInv
<1> QED BY <1>2, <1>3, <1>4, PTL DEF Spec

-----------------------------------------------------------------------------
(* One live process, while only restarts launch *)

\* One helper at a time; the lock of a killed one keeps all others out.
HelpersInv ==
  /\ \A g, h \in Helpers : hpc[g] # "none" /\ hpc[h] # "none" => g = h
  /\ \A h \in Helpers : hpc[h] # "none" => restartLock

\* What lives, by where the helper is.
Expected(h) ==
  /\ hpc[h] = "find" => \A p \in Pids : Live(p) => IsPgphoto(p)
  /\ hpc[h] \in {"stop", "wait"} => \A p \in Pids : Live(p) => p = old[h] /\ IsPgphoto(p)
  /\ hpc[h] \in {"killed", "clean", "lock", "lockAgain", "rmLock", "launch"} =>
       \A p \in Pids : ~Live(p)
  /\ hpc[h] \in {"record", "verify", "ready"} => \A p \in Pids : Live(p) => p = new[h]
  /\ hpc[h] = "ready" => \A p \in Pids : Live(p) => IsPgphoto(p)

AloneInv ==
  /\ \A p, q \in Pids : Live(p) /\ Live(q) => p = q
  /\ ~restartLock => \A p \in Pids : Live(p) => IsPgphoto(p)
  /\ \A h \in Helpers : Expected(h)

\* A wrapper started by a helper finds no launch before it to back off from.
PromptInv ==
  /\ \A h \in Helpers : hpc[h] \in {"lock", "lockAgain", "rmLock", "launch"} => ~backoff
  /\ \A p \in Pids : pc[p] # "sleep" /\ (pc[p] \in Early => ~backoff)

\* The PID file names the wrapper that has recorded itself, and the pgphoto it
\* becomes, at least while another is dying.
Late == {"release", "unlock", "exec"}
RecordedInv ==
  \A p \in Pids :
    /\ pc[p] \in Late => pidFile = p
    /\ pc[p] \in Running => pidFile = p \/ \A q \in Pids : pc[q] # "dying"

AllInv == HelpersInv /\ AloneInv /\ PromptInv /\ RecordedInv
OneInv == ~watchdog /\ ~orphaned => AllInv

LEMMA Lives ==
  ASSUME TypeOK, NEW p \in Pids
  PROVE  /\ Live(p) => Alive(p) /\ (pc[p] \in Wrapper \/ pc[p] \in Running)
         /\ IsPgphoto(p) <=> pc[p] \in Pgphoto
         /\ Live(p) /\ IsPgphoto(p) <=> pc[p] \in Running
         /\ pc[p] \in Wrapper => Live(p) /\ ~IsPgphoto(p)
BY Names DEF TypeOK, Live, Alive, IsPgphoto, Running, Pgphoto, Wrapper, Untrapped, Trapped, Leaving

LEMMA InitOneInv == Init => OneInv
<1> SUFFICES ASSUME Init PROVE OneInv OBVIOUS
<1>1. HelpersInv /\ \A h \in Helpers : Expected(h)
  BY DEF Init, HelpersInv, Expected
<1>2. \A p \in Pids : pc[p] \in {"none", "serving", "starting"}
  BY DEF Init
<1>3. PromptInv /\ RecordedInv
  BY <1>2 DEF Init, PromptInv, RecordedInv, Early, Untrapped, Late
<1>4. \A p, q \in Pids : Live(p) /\ Live(q) => p = q
  BY DEF Init, Live
<1>5. \A p \in Pids : Live(p) => IsPgphoto(p)
  BY <1>2, Names DEF Live, IsPgphoto, Pgphoto
<1> QED BY <1>1, <1>3, <1>4, <1>5 DEF OneInv, AllInv, AloneInv

\* What a wrapper's step does to the PID file.
LEMMA LaunchesRecord ==
  ASSUME TypeOK, NEW p \in Pids, Launches(p)
  PROVE  /\ Live(p) /\ pidFile' \in {pidFile, p}
         /\ pc'[p] \in Late => pidFile' = p \/ (pc[p] \in Late /\ UNCHANGED pidFile)
         /\ pc'[p] \in Running => pc[p] \in Running \union {"exec"} /\ UNCHANGED pidFile
<1> USE DEF TypeOK, Live, Late, Running, Go, Dies
<1>1. CASE Mkdir(p) \/ Look(p) \/ Judges(p) \/ Reclaim(p)
  BY <1>1 DEF Mkdir, Look, Judges, Judge, Reclaim, files
<1>2. CASE Publish(p) \/ Check(p) \/ Delay(p) \/ Wake(p) \/ Record(p)
  BY <1>2 DEF Publish, Check, Delay, Wake, Record, files
<1>3. CASE Release(p) \/ Unlock(p) \/ Exec(p) \/ Bind(p)
  BY <1>3 DEF Release, Unlock, Exec, Bind, files
<1> QED BY <1>1, <1>2, <1>3 DEF Launches

\* A step of the live process itself.
LEMMA MoveKeepsOne ==
  ASSUME TypeOK, AllInv, NEW p \in Pids, Live(p), Moves(p), UNCHANGED helper,
         pc'[p] = "sleep" => backoff /\ pc[p] \in Early,
         pc'[p] \in Early => backoff' = backoff /\ pc[p] \in Early,
         pidFile' \in {pidFile, p},
         pc'[p] \in Late => pidFile' = p \/ (pc[p] \in Late /\ UNCHANGED pidFile),
         pc'[p] \in Running => pc[p] \in Running \union {"exec"} /\ UNCHANGED pidFile
  PROVE  AllInv'
<1> USE DEF AllInv
<1>1. \A q \in Pids : Live(q)' => Live(q)
  BY DEF Moves, Live
<1>2. \A q \in Pids : Live(q)' /\ IsPgphoto(q) => IsPgphoto(q)'
  BY DEF Moves, Live, IsPgphoto
<1>3. HelpersInv'
  BY DEF HelpersInv, helper
<1>4. \A h \in Helpers : Expected(h)'
  BY <1>1, <1>2 DEF AloneInv, Expected, helper
<1>5. AloneInv'
  BY <1>1, <1>2, <1>4 DEF AloneInv, helper
<1>6. \A q \in Pids : q # p => pc'[q] \in {"none", "dying"}
  BY DEF Moves, AloneInv, Live
<1>7. PromptInv'
  <2>1. pc'[p] # "sleep" /\ (pc'[p] \in Early => ~backoff')
    BY DEF PromptInv
  <2>2. \A h \in Helpers : hpc'[h] \notin {"lock", "lockAgain", "rmLock", "launch"}
    BY DEF AloneInv, Expected, helper
  <2>3. "none" \notin Early /\ "dying" \notin Early
    BY DEF Early, Untrapped
  <2> QED BY <1>6, <2>1, <2>2, <2>3 DEF PromptInv
<1>8. RecordedInv'
  <2>1. \A q \in Pids : pc'[q] = "dying" => pc[q] = "dying"
    BY DEF Moves
  <2>2. pc'[p] \in Late => pidFile' = p
    BY DEF RecordedInv
  <2>3. pc'[p] \in Running => pidFile' = p \/ \A q \in Pids : pc[q] # "dying"
    BY DEF RecordedInv, Late
  <2>4. "none" \notin Late \union Running /\ "dying" \notin Late \union Running
    BY DEF Late, Running
  <2> QED BY <1>6, <2>1, <2>2, <2>3, <2>4 DEF RecordedInv
<1> QED BY <1>3, <1>5, <1>7, <1>8

\* A process that ends.
LEMMA EndKeepsOne ==
  ASSUME TypeOK, AllInv, NEW p \in Pids, Moves(p), pc'[p] = "none", UNCHANGED <<helper, files>>
  PROVE  AllInv'
<1> USE DEF AllInv
<1>1. \A q \in Pids : pc'[q] \in {pc[q], "none"}
  BY DEF Moves
<1>2. \A q \in Pids : Live(q)' => Live(q) /\ IsPgphoto(q)' = IsPgphoto(q)
  BY <1>1 DEF Live, IsPgphoto
<1>3. HelpersInv'
  BY DEF HelpersInv, helper
<1>4. \A h \in Helpers : Expected(h)'
  BY <1>2 DEF AloneInv, Expected, helper
<1>5. AloneInv'
  BY <1>2, <1>4 DEF AloneInv, helper
<1>6. PromptInv'
  BY <1>1 DEF PromptInv, helper, files, Early, Untrapped
<1>7. RecordedInv'
  BY <1>1 DEF RecordedInv, files, Late, Running
<1> QED BY <1>3, <1>5, <1>6, <1>7

\* A step of the helper, by where it comes to and what it leaves alive.
LEMMA HelperKeepsOne ==
  ASSUME TypeOK, AllInv, NEW h \in Helpers, hpc[h] # "none",
         \A g \in Helpers : g # h => hpc'[g] = hpc[g],
         \A p \in Pids : pc'[p] \in {pc[p], "none", "dying"} /\ (Live(p)' => Live(p)),
         hpc'[h] = "none" => ~restartLock' /\ \A p \in Pids : Live(p)' => IsPgphoto(p),
         hpc'[h] # "none" => UNCHANGED restartLock /\ Expected(h)',
         backoff' = backoff \/ ~backoff',
         hpc'[h] \in {"lock", "lockAgain", "rmLock", "launch"} => ~backoff',
         RecordedInv'
  PROVE  AllInv'
<1> USE DEF AllInv
<1>1. \A g \in Helpers : g # h => hpc[g] = "none" /\ hpc'[g] = "none"
  BY DEF HelpersInv
<1>2. \A p \in Pids : Live(p)' => Live(p) /\ pc'[p] = pc[p]
  BY DEF Live
<1>3. HelpersInv'
  <2>1. restartLock /\ \A g \in Helpers : hpc'[g] # "none" => g = h
    BY <1>1 DEF HelpersInv
  <2> QED BY <2>1 DEF HelpersInv
<1>4. Expected(h)'
  BY DEF Expected
<1>5. \A g \in Helpers : Expected(g)'
  <2>1. ASSUME NEW g \in Helpers, g # h PROVE Expected(g)'
    BY <1>1, <2>1 DEF Expected
  <2> QED BY <1>4, <2>1
<1>6. \A p \in Pids : Live(p)' /\ IsPgphoto(p) => IsPgphoto(p)'
  BY <1>2 DEF IsPgphoto
<1>7. ~restartLock' => hpc'[h] = "none"
  BY DEF HelpersInv
<1>8. AloneInv'
  BY <1>2, <1>5, <1>6, <1>7 DEF AloneInv
<1>9. PromptInv'
  <2>1. \A p \in Pids : pc'[p] # "sleep" /\ (pc'[p] \in Early => ~backoff')
    BY DEF PromptInv, Early, Untrapped
  <2> QED BY <1>1, <2>1 DEF PromptInv
<1> QED BY <1>3, <1>8, <1>9

\* The PID file after a step that leaves nobody new dying beside a live one.
LEMMA StillRecorded ==
  ASSUME TypeOK, RecordedInv, pidFile' = pidFile,
         \A p \in Pids : pc'[p] \in {pc[p], "none"}
  PROVE  RecordedInv'
BY DEF RecordedInv, Late, Running

LEMMA NobodyRecorded ==
  ASSUME TypeOK, \A p \in Pids : ~Live(p)'
  PROVE  RecordedInv'
BY DEF RecordedInv, Late, Running, Live

LEMMA ReturnsKeepsOne ==
  ASSUME TypeOK, AllInv, NEW h \in Helpers, hpc[h] # "none",
         Returns(h), UNCHANGED <<pc, pidFile, backoff>>,
         \A p \in Pids : Live(p) => IsPgphoto(p)
  PROVE  AllInv'
<1>1. hpc'[h] = "none" /\ ~restartLock' /\ \A g \in Helpers : g # h => hpc'[g] = hpc[g]
  BY DEF Returns, HGo, TypeOK
<1>2. \A p \in Pids : (Live(p)' => IsPgphoto(p)) /\ (Live(p)' => Live(p)) /\ pc'[p] = pc[p]
  BY DEF Live
<1>3. RecordedInv'
  BY StillRecorded DEF AllInv
<1> QED BY <1>1, <1>2, <1>3, HelperKeepsOne

LEMMA RestartsKeepOne ==
  ASSUME TypeOK, AllInv, NEW h \in Helpers, Restarts(h)
  PROVE  AllInv'
<1>0. Expected(h) /\ \A s : HGo(h, s) => hpc'[h] = s /\ \A g \in Helpers : g # h => hpc'[g] = hpc[g]
  BY DEF AllInv, AloneInv, HGo, TypeOK
<1>a. ASSUME UNCHANGED pc
      PROVE  \A p \in Pids : /\ pc'[p] \in {pc[p], "none", "dying"} /\ pc'[p] \in {pc[p], "none"}
                             /\ Live(p)' = Live(p) /\ IsPgphoto(p)' = IsPgphoto(p)
  BY <1>a DEF Live, IsPgphoto
<1>1. CASE Find(h)
  <2>1. hpc[h] = "find" /\ UNCHANGED <<pc, restartLock, backoff>>
    BY <1>1 DEF Find, procs
  <2>2. \A p \in Pids : Live(p) => IsPgphoto(p)
    BY <1>0, <2>1 DEF Expected
  <2>3. IsPgphoto(pidFile) => pidFile \in Pids
    BY DEF IsPgphoto, TypeOK, PidOrNone
  <2>4. pidFile' = pidFile \/ (pidFile' = None /\ ~IsPgphoto(pidFile))
    BY <1>1 DEF Find
  <2>5. RecordedInv'
    <3>1. CASE pidFile' = pidFile
      BY <1>a, <2>1, <3>1, StillRecorded DEF AllInv
    <3>2. CASE ~IsPgphoto(pidFile)
      <4>1. \A p \in Pids : pc[p] \in Running => \A q \in Pids : pc[q] # "dying"
        BY <3>2, Lives DEF AllInv, RecordedInv
      <4>2. \A p \in Pids : pc[p] \notin Late
        BY <2>2, Lives DEF Late, Wrapper, Trapped
      <4> QED BY <2>1, <4>1, <4>2 DEF RecordedInv
    <3> QED BY <2>4, <3>1, <3>2
  <2>6. CASE \E p \in Pids : IsPgphoto(p) /\ old' = [old EXCEPT ![h] = p] /\ HGo(h, "stop")
                             /\ (p = pidFile \/ ~IsPgphoto(pidFile))
    <3>1. PICK p \in Pids : /\ IsPgphoto(p) /\ old' = [old EXCEPT ![h] = p] /\ HGo(h, "stop")
                            /\ (p = pidFile \/ ~IsPgphoto(pidFile))
      BY <2>6
    <3>2. old'[h] = p /\ (Live(p) \/ pc[p] = "dying")
      BY <3>1, Lives DEF TypeOK, Live, Pgphoto
    <3>3. ASSUME NEW q \in Pids, Live(q) PROVE q = p
      <4>1. CASE Live(p)
        BY <3>3, <4>1 DEF AllInv, AloneInv
      <4>2. CASE pc[p] = "dying"
        <5>1. pc[q] \in Running /\ pidFile = q
          BY <2>2, <3>3, <4>2, Lives DEF AllInv, RecordedInv
        <5> QED BY <2>2, <3>1, <3>3, <5>1
      <4> QED BY <3>2, <4>1, <4>2
    <3>4. \A q \in Pids : Live(q)' => q = old'[h] /\ IsPgphoto(q)'
      BY <1>a, <2>1, <2>2, <3>2, <3>3
    <3>5. hpc'[h] = "stop" /\ Expected(h)'
      BY <1>0, <3>1, <3>4 DEF Expected
    <3> QED BY <1>0, <1>a, <2>1, <2>5, <3>1, <3>5, HelperKeepsOne
  <2>7. CASE (\A p \in Pids : ~IsPgphoto(p)) /\ HGo(h, "clean")
    <3>1. \A p \in Pids : ~Live(p)'
      BY <1>a, <2>1, <2>2, <2>7
    <3>2. hpc'[h] = "clean" /\ Expected(h)'
      BY <1>0, <2>7, <3>1 DEF Expected
    <3> QED BY <1>0, <1>a, <2>1, <2>5, <2>7, <3>2, HelperKeepsOne
  <2> QED BY <1>1, <2>3, <2>6, <2>7 DEF Find
<1>2. CASE Stop(h)
  <2>1. hpc[h] = "stop" /\ HGo(h, "wait") /\ UNCHANGED <<old, restartLock, backoff, pidFile>>
    BY <1>2 DEF Stop, files
  <2>2. \A p \in Pids : pc'[p] \in {pc[p], "none"}
    BY <1>2 DEF Stop, Dies, procs, TypeOK
  <2>3. \A p \in Pids : Live(p)' => Live(p) /\ p = old'[h] /\ IsPgphoto(p)'
    BY <1>0, <2>1, <2>2 DEF Expected, Live, IsPgphoto
  <2>4. hpc'[h] = "wait" /\ Expected(h)'
    BY <1>0, <2>1, <2>3 DEF Expected
  <2>5. RecordedInv'
    BY <2>1, <2>2, StillRecorded DEF AllInv
  <2> QED BY <1>0, <2>1, <2>2, <2>3, <2>4, <2>5, HelperKeepsOne
<1>3. CASE Wait(h)
  <2>1. hpc[h] \in {"wait", "killed"} /\ UNCHANGED <<backoff, pidFile>>
    BY <1>3 DEF Wait, files
  <2>2. hpc[h] = "wait" => \A p \in Pids : Live(p) => p = old[h] /\ IsPgphoto(p)
    BY <1>0 DEF Expected
  <2>3. ASSUME PortFree(h), UNCHANGED procs, \A p \in Pids : ~Live(p) PROVE AllInv'
    <3>1. UNCHANGED pc /\ \A p \in Pids : ~Live(p)'
      BY <1>a, <2>3 DEF procs
    <3>2. CASE Returns(h)
      BY <2>1, <2>3, <3>1, <3>2, ReturnsKeepsOne
    <3>3. CASE HGo(h, "clean") /\ UNCHANGED restartLock
      <4>1. hpc'[h] = "clean" /\ Expected(h)'
        BY <1>0, <3>1, <3>3 DEF Expected
      <4> QED BY <1>0, <1>a, <2>1, <3>1, <3>3, <4>1, NobodyRecorded, HelperKeepsOne
    <3> QED BY <2>3, <3>2, <3>3 DEF PortFree
  <2>4. CASE hpc[h] = "wait" /\ Dies(old[h]) /\ UNCHANGED helper
    <3>1. \A p \in Pids : pc'[p] \in {pc[p], "none"}
      BY <2>4 DEF Dies, TypeOK
    <3>2. \A p \in Pids : Live(p)' => Live(p) /\ p = old'[h] /\ IsPgphoto(p)'
      BY <2>2, <2>4, <3>1 DEF Live, IsPgphoto, helper
    <3>3. Expected(h)' /\ hpc'[h] = "wait"
      BY <2>4, <3>2 DEF Expected, helper
    <3>4. RecordedInv'
      BY <2>1, <3>1, StillRecorded DEF AllInv
    <3> QED BY <2>1, <2>4, <3>1, <3>2, <3>3, <3>4, HelperKeepsOne DEF helper
  <2>5. CASE hpc[h] = "wait" /\ Stopped(h)
    <3>1. CASE ~Alive(old[h])
      <4>1. \A p \in Pids : ~Live(p)
        BY <2>2, <2>5, <3>1, Lives
      <4> QED BY <2>3, <2>5, <3>1, <4>1 DEF Stopped
    <3>2. CASE Alive(old[h])
      <4>1. pc' = [pc EXCEPT ![old[h]] = "dying"] /\ HGo(h, "killed") /\ UNCHANGED restartLock
        BY <2>5, <3>2 DEF Stopped, Go
      <4>2. \A p \in Pids : pc'[p] \in {pc[p], "none", "dying"} /\ ~Live(p)'
        BY <2>2, <2>5, <4>1 DEF Live, TypeOK
      <4>3. hpc'[h] = "killed" /\ Expected(h)'
        BY <1>0, <4>1, <4>2 DEF Expected
      <4> QED BY <1>0, <2>1, <4>1, <4>2, <4>3, NobodyRecorded, HelperKeepsOne
    <3> QED BY <3>1, <3>2
  <2>6. CASE hpc[h] = "killed" /\ PortFree(h) /\ UNCHANGED procs
    BY <1>0, <2>3, <2>6 DEF Expected
  <2> QED BY <1>3, <2>4, <2>5, <2>6 DEF Wait
<1>4. CASE Clean(h) \/ LockRemove(h)
  <2>1. UNCHANGED <<pc, restartLock>> /\ (backoff' = backoff \/ ~backoff')
    BY <1>4 DEF Clean, LockRemove, procs, files
  <2>2. /\ hpc[h] \in {"clean", "rmLock"} /\ hpc'[h] \in {"lock", "launch"} /\ ~backoff'
        /\ \A g \in Helpers : g # h => hpc'[g] = hpc[g]
    BY <1>0, <1>4 DEF Clean, LockRemove, AllInv, PromptInv, files
  <2>3. \A p \in Pids : ~Live(p)'
    BY <1>0, <1>a, <2>1, <2>2 DEF Expected
  <2>4. Expected(h)'
    BY <2>2, <2>3 DEF Expected
  <2> QED BY <1>a, <2>1, <2>2, <2>3, <2>4, NobodyRecorded, HelperKeepsOne
<1>5. CASE LockLook(h)
  <2>1. hpc[h] \in {"lock", "lockAgain"} /\ UNCHANGED <<pc, pidFile, backoff>> /\ ~backoff
    BY <1>5 DEF LockLook, procs, files, AllInv, PromptInv
  <2>2. \A p \in Pids : ~Live(p) /\ ~Live(p)'
    BY <1>0, <1>a, <2>1 DEF Expected
  <2>3. CASE Returns(h)
    BY <2>1, <2>2, <2>3, ReturnsKeepsOne
  <2>4. CASE UNCHANGED restartLock /\ (HGo(h, "launch") \/ HGo(h, "lockAgain") \/ HGo(h, "rmLock"))
    <3>1. hpc'[h] \in {"launch", "lockAgain", "rmLock"}
      BY <1>0, <2>4
    <3>2. Expected(h)'
      BY <2>2, <3>1 DEF Expected
    <3> QED BY <1>0, <1>a, <2>1, <2>2, <2>4, <3>1, <3>2, NobodyRecorded, HelperKeepsOne
  <2> QED BY <1>5, <2>3, <2>4 DEF LockLook
<1>6. CASE Launch(h)
  <2>1. PICK p \in Pids : Go(p, "mkdir") /\ new' = [new EXCEPT ![h] = p]
    BY <1>6 DEF Launch
  <2>2. /\ hpc[h] = "launch" /\ hpc'[h] = "record" /\ UNCHANGED <<restartLock, backoff>> /\ ~backoff
        /\ \A g \in Helpers : g # h => hpc[g] = "none" /\ hpc'[g] = "none"
    BY <1>0, <1>6 DEF Launch, files, AllInv, PromptInv, HelpersInv
  <2>3. /\ \A q \in Pids : q # p => ~Live(q)' /\ pc'[q] \in {"none", "dying"}
        /\ pc'[p] = "mkdir" /\ new'[h] = p
    BY <1>0, <2>1, <2>2 DEF Expected, Live, Go, TypeOK
  <2>4. restartLock /\ restartLock'
    BY <2>2 DEF AllInv, HelpersInv
  <2>5. HelpersInv'
    BY <2>2, <2>4 DEF HelpersInv
  <2>6. \A g \in Helpers : Expected(g)'
    BY <2>2, <2>3 DEF Expected
  <2>7. AloneInv'
    BY <2>3, <2>4, <2>6 DEF AloneInv
  <2>8. PromptInv' /\ RecordedInv'
    BY <2>2, <2>3 DEF PromptInv, RecordedInv, Early, Untrapped, Late, Running
  <2> QED BY <2>5, <2>7, <2>8 DEF AllInv
<1>7. CASE HRecord(h)
  <2>1. /\ hpc[h] = "record" /\ HGo(h, "verify") /\ UNCHANGED <<pc, new, restartLock, backoff>>
        /\ pidFile' = new[h]
    BY <1>7 DEF HRecord, procs
  <2>2. \A p \in Pids : Live(p) => p = new[h]
    BY <1>0, <2>1 DEF Expected
  <2>3. hpc'[h] = "verify" /\ Expected(h)'
    BY <1>0, <1>a, <2>1, <2>2 DEF Expected
  <2>4. RecordedInv'
    BY <2>1, <2>2, Lives DEF RecordedInv, Late, Wrapper, Trapped
  <2> QED BY <1>0, <1>a, <2>1, <2>3, <2>4, HelperKeepsOne
<1>8. CASE Verify(h)
  <2>1. hpc[h] \in {"verify", "ready"} /\ UNCHANGED <<pc, pidFile, backoff>>
    BY <1>8 DEF Verify, procs, files
  <2>2. \A p \in Pids : Live(p) => p = new[h]
    BY <1>0, <2>1 DEF Expected
  <2>3. \A p \in Pids : Live(p) => IsPgphoto(p)
    <3>1. CASE hpc[h] = "ready"
      BY <1>0, <3>1 DEF Expected
    <3>2. CASE pc[new[h]] \notin Wrapper \ {"sleep"}
      <4> SUFFICES ASSUME NEW p \in Pids, Live(p) PROVE IsPgphoto(p)
        OBVIOUS
      <4>1. pc[p] \notin Wrapper \ {"sleep"} /\ pc[p] # "sleep"
        BY <2>2, <3>2 DEF AllInv, PromptInv
      <4> QED BY <4>1, Lives
    <3> QED BY <1>8, <3>1, <3>2 DEF Verify
  <2>4. CASE Returns(h)
    BY <2>1, <2>3, <2>4, ReturnsKeepsOne
  <2>5. CASE HGo(h, "ready") /\ UNCHANGED <<new, restartLock>>
    <3>1. hpc'[h] = "ready" /\ Expected(h)'
      BY <1>0, <1>a, <2>1, <2>2, <2>3, <2>5 DEF Expected
    <3>2. RecordedInv'
      BY <1>a, <2>1, StillRecorded DEF AllInv
    <3> QED BY <1>0, <1>a, <2>1, <2>5, <3>1, <3>2, HelperKeepsOne
  <2> QED BY <1>8, <2>4, <2>5 DEF Verify
<1> QED BY <1>1, <1>2, <1>3, <1>4, <1>5, <1>6, <1>7, <1>8 DEF Restarts

LEMMA NextOneInv == TypeOK /\ OneInv /\ [Next]_vars => OneInv'
<1> SUFFICES ASSUME TypeOK, OneInv, [Next]_vars, ~watchdog', ~orphaned'
             PROVE  AllInv'
  BY DEF OneInv
<1>0. ~watchdog /\ ~orphaned
  <2>1. CASE \E h \in Helpers : HInterrupted(h)
    <3>1. watchdog' = watchdog
      BY <2>1 DEF HInterrupted, Fault
    <3>2. ~orphaned
      BY <2>1, Zenon DEF HInterrupted
    <3> QED BY <3>1, <3>2
  <2>2. CASE \E p \in Pids : Launches(p) \/ Ends(p) \/ Killed(p) \/ Term(p)
    BY <2>2, LaunchesMoves, FaultMoves DEF env
  <2>3. CASE \E h \in Helpers : Restarts(h) \/ Call(h) \/ HKilled(h)
    BY <2>3 DEF Call, HKilled, Fault, Restarts, Find, Stop, Wait, Clean, LockLook, LockRemove,
                Launch, HRecord, Verify, env
  <2>4. CASE (\E p \in Pids : Watch(p)) \/ UNCHANGED vars
    BY <2>4 DEF Watch, env, vars
  <2> QED BY <2>1, <2>2, <2>3, <2>4 DEF Next
<1>1. AllInv
  BY <1>0 DEF OneInv
<1>2. ASSUME NEW p \in Pids, Launches(p) PROVE AllInv'
  BY <1>1, <1>2, LaunchesMoves, LaunchesRecord, MoveKeepsOne
<1>3. ASSUME NEW p \in Pids, Ends(p) \/ Killed(p) \/ Term(p) PROVE AllInv'
  <2>1. Moves(p) /\ UNCHANGED <<helper, files>>
    BY <1>3, FaultMoves
  <2>2. CASE pc'[p] = "none"
    BY <1>1, <2>1, <2>2, EndKeepsOne
  <2>3. CASE Live(p) /\ pc'[p] = "exit"
    <3>1. pc'[p] # "sleep" /\ pc'[p] \notin Early /\ pc'[p] \notin Late /\ pc'[p] \notin Running
      BY <2>3 DEF Early, Untrapped, Late, Running
    <3>2. pidFile' = pidFile
      BY <2>1 DEF files
    <3> QED BY <1>1, <2>1, <2>3, <3>1, <3>2, MoveKeepsOne
  <2> QED BY <1>3, <2>2, <2>3, FaultMoves
<1>4. ASSUME NEW p \in Pids, Watch(p) PROVE FALSE
  BY <1>0, <1>4 DEF Watch
<1>5. ASSUME NEW h \in Helpers, Call(h) PROVE AllInv'
  <2>1. /\ ~restartLock /\ restartLock' /\ UNCHANGED <<pc, old, new, backoff, pidFile>>
        /\ hpc'[h] = "find" /\ \A g \in Helpers : g # h => hpc'[g] = hpc[g]
    BY <1>5 DEF Call, HGo, procs, files, TypeOK
  <2>2. \A g \in Helpers : hpc[g] = "none"
    BY <1>1, <2>1 DEF AllInv, HelpersInv
  <2>3. \A p \in Pids : Live(p)' => IsPgphoto(p)'
    BY <1>1, <2>1 DEF AllInv, AloneInv, Live, IsPgphoto
  <2>4. HelpersInv' /\ PromptInv' /\ RecordedInv'
    BY <1>1, <2>1, <2>2 DEF AllInv, HelpersInv, PromptInv, RecordedInv
  <2>5. \A g \in Helpers : Expected(g)'
    BY <2>1, <2>2, <2>3 DEF Expected
  <2>6. AloneInv'
    BY <1>1, <2>1, <2>3, <2>5 DEF AllInv, AloneInv, Live
  <2> QED BY <2>4, <2>6 DEF AllInv
<1>6. ASSUME NEW h \in Helpers, Restarts(h) PROVE AllInv'
  BY <1>1, <1>6, RestartsKeepOne
<1>7. ASSUME NEW h \in Helpers, HKilled(h) PROVE AllInv'
  <2>1. /\ UNCHANGED <<pc, restartLock, backoff, pidFile>> /\ hpc[h] # "none"
        /\ \A g \in Helpers : hpc'[g] = IF g = h THEN "none" ELSE hpc[g]
    BY <1>7 DEF HKilled, HGo, procs, files, TypeOK
  <2>2. \A g \in Helpers : hpc'[g] = "none"
    BY <1>1, <2>1 DEF AllInv, HelpersInv
  <2>3. restartLock'
    BY <1>1, <2>1 DEF AllInv, HelpersInv
  <2>4. HelpersInv' /\ PromptInv' /\ RecordedInv' /\ \A g \in Helpers : Expected(g)'
    BY <1>1, <2>1, <2>2 DEF AllInv, HelpersInv, PromptInv, RecordedInv, Expected
  <2> QED BY <1>1, <2>1, <2>3, <2>4 DEF AllInv, AloneInv, Live
<1>8. ASSUME NEW h \in Helpers, HInterrupted(h) PROVE AllInv'
  <2>1. hpc[h] # "none" /\ Returns(h) /\ UNCHANGED <<pc, pidFile, backoff>>
    BY <1>8 DEF HInterrupted, procs, files
  <2>2. ~(new[h] # None /\ pc[new[h]] \in Wrapper)
    BY <1>8 DEF HInterrupted
  <2>3. Expected(h) /\ hpc[h] \in HelperAt
    BY <1>1 DEF AllInv, AloneInv, TypeOK
  <2>4. ASSUME NEW p \in Pids, Live(p) PROVE IsPgphoto(p)
    <3>1. CASE hpc[h] \in {"record", "verify", "ready"}
      <4>1. p = new[h] /\ p # None
        BY <2>3, <2>4, <3>1, Names DEF Expected
      <4> QED BY <2>2, <2>4, <4>1, Lives
    <3> QED BY <2>1, <2>3, <2>4, <3>1 DEF Expected, HelperAt
  <2> QED BY <1>1, <2>1, <2>4, ReturnsKeepsOne
<1>9. CASE UNCHANGED vars
  <2>1. UNCHANGED <<pc, pidFile, backoff, helper>>
    BY <1>9 DEF vars, procs, files
  <2>2. HelpersInv' /\ PromptInv' /\ RecordedInv' /\ \A h \in Helpers : Expected(h)'
    BY <1>1, <2>1
    DEF helper, AllInv, HelpersInv, PromptInv, RecordedInv, AloneInv, Expected, Live, IsPgphoto
  <2> QED BY <1>1, <2>1, <2>2 DEF helper, AllInv, AloneInv, Live, IsPgphoto
<1> QED BY <1>2, <1>3, <1>4, <1>5, <1>6, <1>7, <1>8, <1>9 DEF Next

\* As long as only restarts launch, and none is interrupted while its wrapper is
\* on its way, there is one pgphoto beside those a KILL is about to end, however
\* many restarts are called and whatever is killed in the middle of them.
THEOREM OneOwnerCorrect == Spec => []OneOwner
<1>1. OneInv => OneOwner
  BY DEF OneInv, AllInv, AloneInv, OneOwner
<1>2. Init => TypeOK /\ OneInv
  BY InitTypeOK, InitOneInv
<1>3. TypeOK /\ OneInv /\ [Next]_vars => (TypeOK /\ OneInv)'
  BY NextTypeOK, NextOneInv
<1> QED BY <1>1, <1>2, <1>3, PTL DEF Spec
=============================================================================
