--------------------------- MODULE UsbSupervisor ---------------------------
(***************************************************************************)
(* The USB supervisor: container/ondisk/camera_usb_supervisor.sh.          *)
(*                                                                         *)
(* pgphoto stays with the USB device it opened.  The supervisor polls the  *)
(* identity of the camera and restarts pgphoto when it has changed for     *)
(* good: absorbed while the device starts up, debounced, spaced out, on a  *)
(* budget, and after the budget only from a quarantine.                    *)
(*                                                                         *)
(* A poll is one step; the call of restart_gphoto in it blocks the loop,   *)
(* so it is two more, and the camera may come and go meanwhile.  An        *)
(* identity is a device number: every time a camera is attached it gets a  *)
(* new one.  0 is the empty fingerprint.                                   *)
(***************************************************************************)
EXTENDS Integers

CONSTANTS
  StablePolls, CooldownPolls,  \* STABLE_POLLS, RESTART_COOLDOWN_POLLS
  MaxRestarts,    \* MAX_RESTARTS
  RetryPolls,     \* RESTART_RETRY_POLLS
  RebindPolls,    \* REBIND_STABLE_POLLS
  GracePolls,     \* STARTUP_GRACE_POLLS
  MaxAttached     \* bound: how often a camera is attached

ASSUME PollsAssumption ==
  /\ StablePolls \in Nat \ {0} /\ CooldownPolls \in Nat
  /\ MaxRestarts \in Nat /\ RetryPolls \in Nat
  /\ RebindPolls \in Nat \ {0} /\ GracePolls \in Nat
ASSUME EnvAssumption == MaxAttached \in Nat \ {0}

\* COOLDOWN: the larger of the two.
Cooldown == IF CooldownPolls > StablePolls THEN CooldownPolls ELSE StablePolls

VARIABLES
  pc,         \* where the loop is: between polls, or in restart_gphoto
  camera,     \* the identity on the bus now
  attached,   \* how often a camera was attached (environment)
  bound,      \* the identity pgphoto has open; -1 while it still starts
  baseline, candidate,  \* the variables of the same names
  stable,     \* stable, to Cooldown
  restarts, quarantined, qcandidate,  \* the variables of the same names
  qstable,    \* qstable, to RebindPolls
  retry,      \* retry_after_poll - polls, 0 when past
  grace,      \* startup grace polls left
  seen,       \* history: the identity the last poll read
  seenFor,    \* history: for how many polls it has been the same, to a cap
  absorbed,   \* history: the grace took a change for its baseline after pgphoto
              \* had opened the identity before, and pgphoto was not restarted
  sinceRestart  \* history: polls since restart_gphoto was last called, to Cooldown

bus == <<camera, attached>>
pgphoto == <<bound, absorbed>>
change == <<candidate, stable>>
quarantine == <<quarantined, qcandidate, qstable>>
history == <<seen, seenFor, sinceRestart>>
vars == <<pc, bus, pgphoto, baseline, change, restarts, quarantine, retry, grace, history>>

Opening == -1
Capped(t, cap) == IF t > cap THEN cap ELSE t
Left(t) == IF t = 0 THEN 0 ELSE t - 1
Longest == Cooldown + RebindPolls

Init ==
  /\ pc = "poll" /\ camera \in {0, 1} /\ attached = camera /\ bound = Opening
  /\ baseline = camera /\ candidate = camera /\ stable = 0
  /\ restarts = 0 /\ quarantined = FALSE /\ qcandidate = 0 /\ qstable = 0
  /\ retry = 0 /\ grace = GracePolls
  /\ seen = camera /\ seenFor = 0 /\ sinceRestart = Cooldown /\ absorbed = FALSE

(***************************************************************************)
(* One poll.                                                               *)
(***************************************************************************)
\* What every poll does: it is counted, and it reads the identity.
Reads ==
  /\ pc = "poll"
  /\ retry' = Left(retry)
  /\ seen' = camera
  /\ seenFor' = IF camera = seen THEN Capped(seenFor + 1, Longest) ELSE 1
  /\ UNCHANGED <<bus, bound>>

Counts == sinceRestart' = Capped(sinceRestart + 1, Cooldown)

\* Startup grace: a change is absorbed.
PollGrace ==
  /\ Reads /\ Counts
  /\ grace > 0 /\ grace' = grace - 1
  /\ IF camera # baseline
     THEN /\ baseline' = camera /\ candidate' = camera /\ stable' = 0
          /\ absorbed' = (absorbed \/ bound \notin {Opening, camera})
     ELSE UNCHANGED <<baseline, change, absorbed>>
  /\ UNCHANGED <<pc, restarts, quarantine>>

\* (defect) the identity is taken for the one that was counted
DebouncedAnyChange ==
  IF camera = baseline THEN candidate' = baseline /\ stable' = 0
  ELSE candidate' = camera /\ stable' = Capped(stable + 1, Cooldown)

\* The change must be the same for Cooldown polls in a row.
Debounced ==
  IF camera = baseline THEN candidate' = baseline /\ stable' = 0
  ELSE IF camera = candidate
       THEN candidate' = candidate /\ stable' = Capped(stable + 1, Cooldown)
       ELSE candidate' = camera /\ stable' = 1

Calls == pc' = "restart" /\ sinceRestart' = 0

\* (defect) after the budget the identity is accepted as healthy
BudgetSpentAdopting ==
  /\ baseline' = candidate' /\ Counts /\ UNCHANGED <<pc, quarantine>>
\* restart_budget_exhausted.
BudgetSpent ==
  /\ quarantined' = TRUE /\ qcandidate' = candidate' /\ qstable' = 0
  /\ Counts /\ UNCHANGED <<pc, baseline>>

Exhausted == MaxRestarts > 0 /\ restarts >= MaxRestarts

PollWatch ==
  /\ Reads /\ grace = 0 /\ ~quarantined
  /\ Debounced
  /\ IF stable' >= Cooldown /\ retry' = 0
     THEN IF Exhausted THEN BudgetSpent
          ELSE Calls /\ UNCHANGED <<baseline, quarantine>>
     ELSE Counts /\ UNCHANGED <<pc, baseline, quarantine>>
  /\ UNCHANGED <<restarts, grace, absorbed>>

\* (defect) the quarantine waits for the identity it began with
RevalidatedFrozen ==
  /\ qcandidate' = qcandidate
  /\ qstable' = IF camera = qcandidate THEN Capped(qstable + 1, RebindPolls) ELSE 0
\* The quarantined identity must stay the same, whichever it is.
Revalidated ==
  /\ qcandidate' = camera
  /\ qstable' = IF camera = qcandidate THEN Capped(qstable + 1, RebindPolls) ELSE 1

PollQuarantine ==
  /\ Reads /\ grace = 0 /\ quarantined
  /\ Revalidated
  /\ IF qstable' >= RebindPolls /\ retry' = 0 THEN Calls ELSE Counts /\ UNCHANGED pc
  /\ UNCHANGED <<baseline, change, restarts, quarantined, grace, absorbed>>

(***************************************************************************)
(* restart_gphoto (see CameraLaunch): pgphoto is started and opens the     *)
(* camera that is there then, or the helper fails before or after that.    *)
(***************************************************************************)
Target == IF quarantined THEN qcandidate ELSE candidate

RestartOpens ==
  /\ pc = "restart" /\ pc' = "opened"
  /\ bound' = camera /\ absorbed' = FALSE
  /\ UNCHANGED <<bus, baseline, change, restarts, quarantine, retry, grace, history>>

\* It worked: the identity that was debounced is the one to compare with.
RestartWorks ==
  /\ pc = "opened" /\ pc' = "poll"
  /\ baseline' = Target /\ stable' = 0 /\ retry' = 0
  /\ IF quarantined
     THEN /\ candidate' = qcandidate /\ restarts' = 0
          /\ quarantined' = FALSE /\ qcandidate' = 0 /\ qstable' = 0
     ELSE restarts' = restarts + 1 /\ UNCHANGED <<candidate, quarantine>>
  /\ UNCHANGED <<bus, pgphoto, grace, history>>

\* (defect) a failed retry is forgotten about at once
RetryAtOnce == retry' = 0
RetryLater == retry' = RetryPolls

\* It did not, and maybe pgphoto is gone: the change stays pending.
RestartFails ==
  /\ pc \in {"restart", "opened"} /\ pc' = "poll"
  /\ bound' \in {bound, 0}
  /\ RetryLater
  /\ IF quarantined
     THEN qstable' = RebindPolls /\ UNCHANGED <<change, restarts>>
     ELSE restarts' = restarts + 1 /\ stable' = Cooldown /\ UNCHANGED <<candidate, qstable>>
  /\ UNCHANGED <<bus, absorbed, baseline, quarantined, qcandidate, grace, history>>

(***************************************************************************)
(* The camera, and pgphoto on its own (external).                          *)
(***************************************************************************)
Attach ==
  /\ attached < MaxAttached
  /\ attached' = attached + 1 /\ camera' = attached'
  /\ UNCHANGED <<pc, pgphoto, baseline, change, restarts, quarantine, retry, grace, history>>

Detach ==
  /\ camera # 0 /\ camera' = 0
  /\ UNCHANGED <<pc, attached, pgphoto, baseline, change, restarts, quarantine, retry, grace,
                 history>>

\* The pgphoto whose wrapper started this supervisor comes to open the camera,
\* in the startup grace or after it: the wrapper goes on without waiting.
FirstOpen ==
  /\ bound = Opening
  /\ bound' = camera
  /\ UNCHANGED <<pc, bus, absorbed, baseline, change, restarts, quarantine, retry, grace, history>>

-----------------------------------------------------------------------------
Next ==
  \/ PollGrace \/ PollWatch \/ PollQuarantine
  \/ RestartOpens \/ RestartWorks \/ RestartFails
  \/ Attach \/ Detach \/ FirstOpen

Spec == Init /\ [][Next]_vars

\* The loop goes on, restart_gphoto returns, pgphoto opens the camera in the
\* end, and a restart that is tried for ever works in the end.
Fairness ==
  /\ WF_vars(PollGrace) /\ WF_vars(PollWatch) /\ WF_vars(PollQuarantine)
  /\ SF_vars(RestartOpens) /\ SF_vars(RestartWorks) /\ WF_vars(FirstOpen)

FairSpec == Spec /\ Fairness

-----------------------------------------------------------------------------
Ids == 0..MaxAttached

TypeOK ==
  /\ pc \in {"poll", "restart", "opened"}
  /\ camera \in Ids /\ attached \in Ids /\ bound \in Ids \union {Opening}
  /\ baseline \in Ids /\ candidate \in Ids /\ stable \in 0..Cooldown
  /\ restarts \in Nat /\ (MaxRestarts > 0 => restarts <= MaxRestarts)
  /\ quarantined \in BOOLEAN /\ qcandidate \in Ids /\ qstable \in 0..RebindPolls
  /\ retry \in 0..RetryPolls /\ grace \in 0..GracePolls
  /\ seen \in Ids /\ seenFor \in 0..Longest /\ sinceRestart \in 0..Cooldown
  /\ absorbed \in BOOLEAN

\* When the supervisor is content, pgphoto has the camera that is on the bus
\* and not one that has gone, but for a change that the startup grace absorbed
\* after pgphoto had opened the camera.
Content == baseline = camera /\ camera # 0 /\ pc = "poll" /\ ~quarantined
ContentMeansBound == Content => bound \in {camera, Opening} \/ absorbed

\* Without the exception, as test_camera_usb_supervisor.sh has it: the absorbed
\* change "must NOT leave pgphoto bound to stale camera/session state". No run
\* has it: an early open and one new attachment in the grace refute it.
ContentAlways == Content => bound \in {camera, Opening}

\* A flap cannot restart pgphoto more often than every Cooldown polls, with
\* failed attempts, retries and the quarantine taken together.
RestartsSpaced ==
  [][pc = "poll" /\ pc' = "restart" => sinceRestart >= Cooldown - 1]_vars

\* pgphoto is restarted only for an identity that was the same for as many
\* polls in a row as the state of the supervisor asks for.
RestartsDebounced ==
  [][pc = "poll" /\ pc' = "restart"
       => seenFor' >= IF quarantined THEN RebindPolls ELSE Cooldown]_vars

\* However often the camera came and went, and restarts failed, once it stays
\* pgphoto comes to be with it and the supervisor leaves its quarantine; with
\* a change that the startup grace absorbed under it, pgphoto stays behind.
Settles ==
  <>[](~quarantined /\ baseline = camera /\ (camera # 0 => bound = camera \/ absorbed))
=============================================================================
