------------------------------- MODULE Gotos -------------------------------
(***************************************************************************)
(* Pointing the head: the Alpaca, LX200, INDI and page handlers of         *)
(* polaris-httpd and the polaris-mount processes they launch.              *)
(*                                                                         *)
(* Every goto is a process of its own with a connection of its own, and it *)
(* sends more than one command: the first move, then up to RefineMax       *)
(* corrections. An abort is another process. Coordinates are abstracted:   *)
(* whether a goto is accepted, refused, close enough or not converging is  *)
(* left open. The gate on alignment is in MountAlignment.                  *)
(***************************************************************************)
EXTENDS Naturals

CONSTANTS MaxMoves,    \* gotos in a behaviour
          RefineMax    \* refine_max: corrections of one goto

VARIABLES moving,      \* the goto the head is executing, or 0
          aborted,     \* an abort was sent after the last goto was asked for
          stage,       \* per goto: none, posing, first, aiming, pass, ended
          owner,       \* per goto: who launched it
          reply,       \* per goto: what the head told it: none, ok, refused
          passes,      \* per goto: corrections made
          slewPid,     \* g_slew_pid: the last asynchronous goto, or 0
          busy         \* per process: the goto it waits for, or 0

vars == <<moving, aborted, stage, owner, reply, passes, slewPid, busy>>

Processes == {"web", "lx200"}    \* the ones that wait; INDI never does
Moves == 1..MaxMoves
Stages == {"none", "posing", "first", "aiming", "pass", "ended"}
Owners == {"async", "sync", "page", "lx200", "indi"}

Init ==
    /\ moving = 0 /\ aborted = FALSE /\ slewPid = 0
    /\ stage = [m \in Moves |-> "none"] /\ owner = [m \in Moves |-> "page"]
    /\ reply = [m \in Moves |-> "none"] /\ passes = [m \in Moves |-> 0]
    /\ busy = [p \in Processes |-> 0]

TypeOK ==
    /\ moving \in 0..MaxMoves /\ slewPid \in 0..MaxMoves /\ aborted \in BOOLEAN
    /\ stage \in [Moves -> Stages] /\ owner \in [Moves -> Owners]
    /\ reply \in [Moves -> {"none", "ok", "refused"}]
    /\ passes \in [Moves -> 0..RefineMax]
    /\ busy \in [Processes -> 0..MaxMoves]

----------------------------------------------------------------------------
(* Requests that move the head.                                            *)

Free(p) == busy[p] = 0

\* A polaris-mount process for the next goto.
Start(c, m) ==
    /\ stage[m] = "none" /\ \A k \in 1..(m - 1) : stage[k] # "none"
    /\ stage' = [stage EXCEPT ![m] = "posing"]
    /\ owner' = [owner EXCEPT ![m] = c]
    /\ aborted' = FALSE
    /\ UNCHANGED <<moving, reply, passes>>

Wait(p, m) == busy' = [busy EXCEPT ![p] = m]

\* slewtocoordinatesasync, slewtotargetasync: a forked child waits for it.
SlewAsync(m) ==
    /\ Free("web") /\ Start("async", m)
    /\ slewPid' = m
    /\ UNCHANGED busy

\* slewtocoordinates, slewtotarget, and the asynchronous ones if fork fails.
SlewInline(m) ==
    /\ Free("web") /\ Start("sync", m)
    /\ Wait("web", m)
    /\ UNCHANGED slewPid

\* /api/astro/goto, confirmed, with a position and an aligned head.
SlewPage(m) ==
    /\ Free("web") /\ Start("page", m)
    /\ UNCHANGED <<busy, slewPid>>

\* :MS# is answered when the goto has ended.
SlewLx200(m) ==
    /\ Free("lx200") /\ Start("lx200", m)
    /\ Wait("lx200", m)
    /\ UNCHANGED slewPid

\* EQUATORIAL_EOD_COORD, unless the mode is SYNC.
SlewIndi(m) == Start("indi", m) /\ UNCHANGED <<busy, slewPid>>

Slew(m) == SlewAsync(m) \/ SlewInline(m) \/ SlewPage(m) \/ SlewLx200(m) \/ SlewIndi(m)

Stopped(m) == IF m = 0 THEN reply ELSE [reply EXCEPT ![m] = "refused"]

\* polaris-mount abort: one order to the head, and no process is signalled.
AbortHead ==
    /\ moving' = 0
    /\ reply' = Stopped(moving)
    /\ aborted' = TRUE
    /\ UNCHANGED <<stage, owner, passes, busy>>

\* abortslew ends the child that waits, not the polaris-mount under it, which
\* inherits an ignored SIGPIPE and so survives the loss of its reader.
AbortAlpaca == Free("web") /\ AbortHead /\ slewPid' = 0

AbortLx200 == Free("lx200") /\ AbortHead /\ UNCHANGED slewPid

\* TELESCOPE_ABORT_MOTION, and TELESCOPE_PARK, which is no move either.
AbortIndi == AbortHead /\ UNCHANGED slewPid

\* The server is restarted; the gotos it launched go on without it.
Restart ==
    /\ slewPid' = 0 /\ busy' = [busy EXCEPT !["web"] = 0]
    /\ UNCHANGED <<moving, aborted, stage, owner, reply, passes>>

\* "slewing" is the life of the child; finished children are reaped.
Reap ==
    /\ slewPid # 0 /\ stage[slewPid] = "ended"
    /\ slewPid' = 0
    /\ UNCHANGED <<moving, aborted, stage, owner, reply, passes, busy>>

----------------------------------------------------------------------------
(* One goto: polaris-mount goto-radec.                                     *)

Running(m) == stage[m] \in {"posing", "first", "aiming", "pass"}

Command(m, next) ==
    /\ moving' = m
    /\ reply' = [Stopped(moving) EXCEPT ![m] = "none"]
    /\ stage' = [stage EXCEPT ![m] = next]

End(m) ==
    /\ stage' = [stage EXCEPT ![m] = "ended"]
    /\ busy' = [p \in Processes |-> IF busy[p] = m THEN 0 ELSE busy[p]]

\* The pose is asked for, then the move is checked and sent, or refused.
FirstMove(m) ==
    /\ stage[m] = "posing"
    /\ \/ Command(m, "first") /\ UNCHANGED busy
       \/ End(m) /\ UNCHANGED <<moving, reply>>
    /\ UNCHANGED <<aborted, owner, passes, slewPid>>

\* The first move must be reported finished; ret < 0, or silence, ends it.
FirstAnswer(m) ==
    /\ stage[m] = "first"
    /\ \/ /\ reply[m] = "ok"
          /\ stage' = [stage EXCEPT ![m] = "aiming"]
          /\ UNCHANGED busy
       \/ reply[m] # "ok" /\ End(m)
    /\ UNCHANGED <<moving, aborted, owner, reply, passes, slewPid>>

\* Close enough, not converging, refused by check_move, or out of passes.
Enough(m) ==
    /\ stage[m] = "aiming"
    /\ End(m)
    /\ UNCHANGED <<moving, aborted, owner, reply, passes, slewPid>>

\* (defect) a goto corrects until it is close enough
MayCorrectForEver(m) == TRUE
MayCorrect(m) == passes[m] < RefineMax

Correct(m) ==
    /\ stage[m] = "aiming" /\ MayCorrect(m)
    /\ Command(m, "pass")
    /\ passes' = [passes EXCEPT ![m] = (@ + 1) % (RefineMax + 1)]
    /\ UNCHANGED <<aborted, owner, slewPid, busy>>

\* What the head says of a correction is not looked at.
PassAnswer(m) ==
    /\ stage[m] = "pass"
    /\ stage' = [stage EXCEPT ![m] = "aiming"]
    /\ UNCHANGED <<moving, aborted, owner, reply, passes, slewPid, busy>>

\* "timeout -t 60" around the gotos of INDI and of the page.
Cut(m) ==
    /\ Running(m) /\ owner[m] \in {"indi", "page"}
    /\ End(m)
    /\ UNCHANGED <<moving, aborted, owner, reply, passes, slewPid>>

\* The head arrives, or gives up the move.
Arrive ==
    /\ moving # 0
    /\ moving' = 0
    /\ reply' \in {[reply EXCEPT ![moving] = r] : r \in {"ok", "refused"}}
    /\ UNCHANGED <<aborted, stage, owner, passes, slewPid, busy>>

MoveStep(m) == FirstMove(m) \/ FirstAnswer(m) \/ Enough(m) \/ Correct(m) \/ PassAnswer(m)

Next ==
    \/ AbortAlpaca \/ AbortLx200 \/ AbortIndi
    \/ Restart \/ Reap \/ Arrive
    \/ \E m \in Moves : Slew(m) \/ MoveStep(m) \/ Cut(m)

\* A goto runs on: every wait of polaris-mount is bounded.
Fairness == \A m \in Moves : WF_vars(MoveStep(m))

Spec == Init /\ [][Next]_vars /\ Fairness

----------------------------------------------------------------------------

(* A goto ends: its corrections are bounded, so a head that cannot settle, *)
(* or that another client keeps moving, does not keep it for ever.         *)
GotosEnd == \A m \in Moves : Running(m) ~> ~Running(m)

(* After an abort, and with no goto asked for since, nothing moves the     *)
(* head: "polaris-mount abort (works during a slew)".                      *)
AbortHolds == aborted => moving = 0

=============================================================================
