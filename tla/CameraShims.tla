---------------------------- MODULE CameraShims ----------------------------
(***************************************************************************)
(* What the stage-2 loader puts between the host application (pgphoto) and *)
(* libgphoto2 for a Pentax body: the gates in front of a preview, the      *)
(* classification of what the camera answers, and the session lifecycle    *)
(* around gp_camera_init and gp_camera_capture                             *)
(* (container/stage2_loader.c).                                            *)
(*                                                                         *)
(* The host is multi-threaded and the loader takes no lock.  One thread    *)
(* asks for previews, one opens sessions, others take pictures.  A call    *)
(* into libgphoto2 takes time, so it is a step to go in and a step to come *)
(* out.  Before and after it a store to a variable that another thread     *)
(* stores to as well is a step of its own, and so is a read that another   *)
(* thread may change under the reader.  What is merged with its neighbour  *)
(* cannot be told apart: the flags that only the preview thread raises,    *)
(* read by it in a row, and stores that only it ever reads back.           *)
(*                                                                         *)
(* Time passes in seconds.  A deadline is kept as the time left to it, a   *)
(* stamp as the time since.                                                *)
(***************************************************************************)
EXTENDS Integers

CONSTANTS
  Capturers,     \* threads that take pictures
  FailuresMax,   \* STAGE2_PENTAX_PREVIEW_BACKOFF_MAX
  CooldownSecs,  \* STAGE2_PENTAX_PREVIEW_BACKOFF_SECS
  MinInterval,   \* STAGE2_PENTAX_PREVIEW_MIN_INTERVAL_SECS
  SettleSecs,    \* STAGE2_PENTAX_PREVIEW_SETTLE_SECS
  Guarded        \* STAGE2_CAPTURE_GUARD

ASSUME LimitsAssumption ==
  /\ FailuresMax \in Nat \ {0} /\ CooldownSecs \in Nat \ {0}
  /\ MinInterval \in Nat /\ SettleSecs \in Nat
ASSUME ModesAssumption == Guarded \in BOOLEAN

VARIABLES
  overlap,       \* the host: it asks for previews while it opens a session; never changes
  preview,       \* where the preview thread is: see Gates, InCamera and Counting
  count,         \* its register with the failure counter, while Counting
  init,          \* where gp_camera_init is: the next flag it clears, or see TypeOK
  capture,       \* who is inside the real gp_camera_capture
  inFlight,      \* g_capture_in_flight
  disabled,      \* g_pentax_preview_disabled
  unhealthy,     \* g_pentax_preview_session_unhealthy
  lastTerminal,  \* g_pentax_preview_last_terminal; 0 is GP_OK
  timeouts,      \* g_pentax_preview_timeouts, to FailuresMax + 1
  cooldown,      \* g_pentax_preview_backoff_until - now
  wasOpen,       \* g_pentax_session_was_open
  settle,        \* g_pentax_preview_settle_until - now, or Unset
  sinceFetch,    \* now - g_pentax_preview_last_fetch
  hidden,        \* history: the last answer was not the error that had killed the session
  fatal,         \* history: the transport error this session died of
  strikes,       \* history: transient failures in a row since the session's flags were cleared
  sinceStrike,   \* history: time since the last of them, if any
  sinceLive,     \* history: time since a session found live view running
  raced,         \* history: a preview was past the settle check while that window was armed
  refused        \* history: this session found that it has no previews

flags == <<disabled, unhealthy, lastTerminal>>
budget == <<timeouts, cooldown>>
window == <<wasOpen, settle, sinceLive, raced>>
row == <<strikes, sinceStrike>>
session == <<fatal, refused>>
others == <<overlap, capture, inFlight>>
vars == <<others, preview, count, init, flags, budget, window, sinceFetch, hidden, session, row>>

Transport == {"io", "no device"}         \* -7, and -70 to -20
Transient == {"timeout", "busy"}         \* -10, -110
Results == {"ok", "unsupported", "unknown"} \union Transport \union Transient

Past == {"sweep", "sweeping", "pace"}            \* the settle window was looked at
Gates == {"code", "window"} \union Past          \* on the way to the camera
InCamera == {"current", "old"}                   \* in a call of this session, of an older one
Counting == {"strike", "budget"}                 \* at the failure budget
Clearing == {"timeouts", "cooldown", "unhealthy", "lastTerminal"}

Unset == -1                                      \* a deadline of 0
Capped(t, cap) == IF t > cap THEN cap ELSE t
Left(t) == IF t > 0 THEN t - 1 ELSE t

-----------------------------------------------------------------------------
Init ==
  /\ overlap \in BOOLEAN
  /\ preview = "none" /\ count = 0 /\ init = "idle"
  /\ capture = [c \in Capturers |-> FALSE] /\ inFlight = FALSE
  /\ disabled = FALSE /\ unhealthy = FALSE /\ lastTerminal = "ok"
  /\ timeouts = 0 /\ cooldown = 0
  /\ wasOpen = FALSE /\ settle = Unset /\ sinceFetch = MinInterval
  /\ hidden = FALSE /\ fatal = "none" /\ refused = FALSE
  /\ strikes = 0 /\ sinceStrike = CooldownSecs /\ sinceLive = SettleSecs /\ raced = FALSE

(***************************************************************************)
(* gp_camera_capture_preview.                                              *)
(***************************************************************************)
Turn == overlap \/ init = "idle"

Says(r) == hidden' = (fatal # "none" /\ r # fatal)

\* The call returns without asking the camera.
Tell(r) == preview' = "none" /\ Says(r)

\* The first gates.  Only this thread raises what they read.
Entry ==
  \/ disabled /\ Tell("unsupported")
  \/ ~disabled /\ unhealthy /\ preview' = "code" /\ UNCHANGED hidden
  \/ ~disabled /\ ~unhealthy /\ cooldown > 0 /\ Tell("busy")
  \/ ~disabled /\ ~unhealthy /\ cooldown <= 0 /\ preview' = "window" /\ UNCHANGED hidden

\* (defect) the loader counts its own busy answers
EnterCounting ==
  /\ preview = "none" /\ Turn /\ Entry
  /\ cooldown' = IF ~disabled /\ ~unhealthy /\ cooldown > 0 /\ timeouts >= FailuresMax
                 THEN CooldownSecs ELSE cooldown
  /\ UNCHANGED <<others, count, init, flags, timeouts, window, sinceFetch, session, row>>

Enter ==
  /\ preview = "none" /\ Turn /\ Entry
  /\ UNCHANGED <<others, count, init, flags, budget, window, sinceFetch, session, row>>

\* A dead session: the code is another variable than the flag.
ReadCode ==
  /\ preview = "code" /\ Tell(lastTerminal)
  /\ UNCHANGED <<others, count, init, flags, budget, window, sinceFetch, session, row>>

\* The settle window: ahead, not armed, or over, and then to be swept.
LookAtWindow ==
  /\ preview = "window"
  /\ \/ wasOpen /\ settle > 0 /\ Tell("busy") /\ UNCHANGED raced
     \/ wasOpen /\ settle = 0 /\ preview' = "sweep" /\ UNCHANGED hidden
        /\ raced' = (raced \/ init = "arming")
     \/ (~wasOpen \/ settle = Unset) /\ preview' = "pace" /\ UNCHANGED hidden
        /\ raced' = (raced \/ init = "arming")
  /\ UNCHANGED <<others, count, init, flags, budget, wasOpen, settle, sinceLive, sinceFetch,
                 session, row>>

SweepFlag ==
  /\ preview = "sweep" /\ preview' = "sweeping" /\ wasOpen' = FALSE
  /\ UNCHANGED <<others, count, init, flags, budget, settle, sinceLive, raced, sinceFetch, hidden,
                 session, row>>

SweepTime ==
  /\ preview = "sweeping" /\ preview' = "pace" /\ settle' = Unset
  /\ UNCHANGED <<others, count, init, flags, budget, wasOpen, sinceLive, raced, sinceFetch, hidden,
                 session, row>>

\* The interval, a stamp of this thread alone: too early, or the camera is asked.
Pace ==
  /\ preview = "pace"
  /\ \/ sinceFetch < MinInterval /\ Tell("busy") /\ UNCHANGED sinceFetch
     \/ sinceFetch >= MinInterval /\ preview' = "current" /\ sinceFetch' = 0 /\ UNCHANGED hidden
  /\ UNCHANGED <<others, count, init, flags, budget, window, session, row>>

\* (defect) only "unsupported" is final
ClassifyOnlyDisable(r) ==
  \/ r = "ok" /\ timeouts' = 0 /\ cooldown' = 0 /\ UNCHANGED flags
  \/ r = "unsupported" /\ disabled' = TRUE /\ UNCHANGED <<unhealthy, lastTerminal, budget>>
  \/ r \notin {"ok", "unsupported"} /\ UNCHANGED <<flags, budget>>

\* The result is classified before policy is applied.  The code of a dead
\* session is stored after the flag, but only this thread reads it back.
Classify(r) ==
  \/ r = "ok" /\ timeouts' = 0 /\ cooldown' = 0 /\ UNCHANGED flags
  \/ r = "unsupported" /\ disabled' = TRUE /\ UNCHANGED <<unhealthy, lastTerminal, budget>>
  \/ r \in Transport /\ unhealthy' = TRUE /\ lastTerminal' = r /\ UNCHANGED <<disabled, budget>>
  \/ r \in Transient \union {"unknown"} /\ UNCHANGED <<flags, budget>>

\* What goes on to the failure budget, with the counter in a register.
Counted(r) == r \in Transient

\* The camera answers.
Answer(r) ==
  /\ preview \in InCamera
  /\ Classify(r) /\ Says(r)
  /\ IF Counted(r) THEN preview' = "strike" /\ count' = Capped(timeouts + 1, FailuresMax + 1)
     ELSE preview' = "none" /\ UNCHANGED count
  /\ fatal' = IF r \in Transport /\ preview = "current" THEN r ELSE fatal
  /\ strikes' = IF Counted(r) /\ init \notin Clearing THEN Capped(strikes + 1, FailuresMax) ELSE 0
  /\ sinceStrike' = IF Counted(r) THEN 0 ELSE CooldownSecs
  /\ refused' = (refused \/ (preview = "current" /\ r = "unsupported"))
  /\ UNCHANGED <<others, init, window, sinceFetch>>

Strike ==
  /\ preview = "strike" /\ preview' = "budget" /\ timeouts' = count
  /\ UNCHANGED <<others, count, init, flags, cooldown, window, sinceFetch, hidden, session, row>>

\* (defect) only the failure that reaches the limit starts a cooldown
JudgeOnce ==
  /\ preview = "budget" /\ preview' = "none" /\ count' = 0
  /\ \E c \in {count, timeouts} : cooldown' = IF c = FailuresMax THEN CooldownSecs ELSE cooldown
  /\ UNCHANGED <<others, init, flags, timeouts, window, sinceFetch, hidden, session, row>>

\* The cooldown, when the budget is spent: by the counter as it was counted, or
\* as it is in memory, where an init may have cleared it.
Judge ==
  /\ preview = "budget" /\ preview' = "none" /\ count' = 0
  /\ \E c \in {count, timeouts} : cooldown' = IF c >= FailuresMax THEN CooldownSecs ELSE cooldown
  /\ UNCHANGED <<others, init, flags, timeouts, window, sinceFetch, hidden, session, row>>

Previews ==
  \/ Enter \/ ReadCode \/ LookAtWindow \/ SweepFlag \/ SweepTime \/ Pace
  \/ \E r \in Results : Answer(r)
  \/ Strike \/ Judge

(***************************************************************************)
(* gp_camera_init.                                                         *)
(***************************************************************************)
\* Refused, without any effect, while the guard sees a capture in flight.
Opens ==
  /\ init = "idle" /\ (overlap \/ preview = "none") /\ ~(Guarded /\ inFlight)
  /\ init' = "opening"
  /\ UNCHANGED <<others, preview, count, flags, budget, window, sinceFetch, hidden, session, row>>

OpenFails ==
  /\ init = "opening" /\ init' = "idle"
  /\ UNCHANGED <<others, preview, count, flags, budget, window, sinceFetch, hidden, session, row>>

\* (defect) the capability that was found missing stays missing
OpenedKeepingDisable ==
  /\ init = "opening" /\ init' = "timeouts" /\ strikes' = 0
  /\ UNCHANGED <<others, preview, count, flags, budget, window, sinceFetch, hidden, session,
                 sinceStrike>>

\* (defect) a new session forgets the settle window with the rest
OpenedForgettingSettle ==
  /\ init = "opening" /\ init' = "timeouts" /\ disabled' = FALSE /\ strikes' = 0
  /\ wasOpen' = FALSE /\ settle' = Unset
  /\ UNCHANGED <<others, preview, count, unhealthy, lastTerminal, budget, sinceLive, raced,
                 sinceFetch, hidden, session, sinceStrike>>

\* The real init succeeded: the flags are cleared one after the other.  The
\* failures of the session before no longer count.
Opened ==
  /\ init = "opening" /\ init' = "timeouts" /\ disabled' = FALSE /\ strikes' = 0
  /\ UNCHANGED <<others, preview, count, unhealthy, lastTerminal, budget, window, sinceFetch,
                 hidden, session, sinceStrike>>

ClearTimeouts ==
  /\ init = "timeouts" /\ init' = "cooldown" /\ timeouts' = 0
  /\ UNCHANGED <<others, preview, count, flags, cooldown, window, sinceFetch, hidden, session, row>>

ClearCooldown ==
  /\ init = "cooldown" /\ init' = "unhealthy" /\ cooldown' = 0
  /\ UNCHANGED <<others, preview, count, flags, timeouts, window, sinceFetch, hidden, session, row>>

ClearUnhealthy ==
  /\ init = "unhealthy" /\ init' = "lastTerminal" /\ unhealthy' = FALSE
  /\ UNCHANGED <<others, preview, count, disabled, lastTerminal, budget, window, sinceFetch, hidden,
                 session, row>>

\* With the last store the session is new: what a call of an older one may
\* still say is not of it.
Cleared ==
  /\ init = "lastTerminal" /\ init' = "probing" /\ lastTerminal' = "ok"
  /\ preview' = IF preview = "current" THEN "old" ELSE preview
  /\ fatal' = "none" /\ refused' = FALSE
  /\ UNCHANGED <<others, count, disabled, unhealthy, budget, window, sinceFetch, hidden, row>>

\* The keep-live-view shim looks whether live view was running already, and
\* then arms the settle window: the flag, and the time.
Probed(live) ==
  /\ init = "probing"
  /\ IF live /\ SettleSecs > 0
     THEN init' = "arming" /\ wasOpen' = TRUE /\ sinceLive' = 0 /\ raced' = (preview \in Past)
     ELSE init' = "idle" /\ UNCHANGED <<wasOpen, sinceLive, raced>>
  /\ UNCHANGED <<others, preview, count, flags, budget, settle, sinceFetch, hidden, session, row>>

Armed ==
  /\ init = "arming" /\ init' = "idle" /\ settle' = SettleSecs
  /\ UNCHANGED <<others, preview, count, flags, budget, wasOpen, sinceLive, raced, sinceFetch,
                 hidden, session, row>>

Clears == Opened \/ ClearTimeouts \/ ClearCooldown \/ ClearUnhealthy \/ Cleared

(***************************************************************************)
(* gp_camera_capture.  The mark is kept whether or not the guard is on: it *)
(* is also kept for the empty-path check, which is on by default.  That    *)
(* check turns a success without a file into an error and keeps no state.  *)
(***************************************************************************)
Shoot(c) ==
  /\ ~capture[c] /\ capture' = [capture EXCEPT ![c] = TRUE] /\ inFlight' = TRUE
  /\ UNCHANGED <<overlap, preview, count, init, flags, budget, window, sinceFetch, hidden, session,
                 row>>

Shot(c) ==
  /\ capture[c] /\ capture' = [capture EXCEPT ![c] = FALSE] /\ inFlight' = FALSE
  /\ UNCHANGED <<overlap, preview, count, init, flags, budget, window, sinceFetch, hidden, session,
                 row>>

Second ==
  /\ cooldown' = Left(cooldown) /\ settle' = Left(settle)
  /\ sinceFetch' = Capped(sinceFetch + 1, MinInterval)
  /\ sinceStrike' = Capped(sinceStrike + 1, CooldownSecs)
  /\ sinceLive' = Capped(sinceLive + 1, SettleSecs)
  /\ UNCHANGED <<others, preview, count, init, flags, timeouts, wasOpen, raced, hidden, session,
                 strikes>>

-----------------------------------------------------------------------------
Next ==
  \/ Previews
  \/ Opens \/ OpenFails \/ Clears \/ Armed \/ \E live \in BOOLEAN : Probed(live)
  \/ \E c \in Capturers : Shoot(c) \/ Shot(c)
  \/ Second

Spec == Init /\ [][Next]_vars

\* Every call returns in the end, the host goes on asking for previews, and
\* the clock goes on.
Fairness ==
  /\ WF_vars(Previews)
  /\ WF_vars(OpenFails \/ Clears \/ Armed \/ \E live \in BOOLEAN : Probed(live))
  /\ WF_vars(Second)

FairSpec == Spec /\ Fairness

-----------------------------------------------------------------------------
TypeOK ==
  /\ overlap \in BOOLEAN /\ preview \in {"none"} \union Gates \union InCamera \union Counting
  /\ count \in 0..(FailuresMax + 1)
  /\ init \in {"idle", "opening", "probing", "arming"} \union Clearing
  /\ capture \in [Capturers -> BOOLEAN] /\ inFlight \in BOOLEAN
  /\ disabled \in BOOLEAN /\ unhealthy \in BOOLEAN /\ lastTerminal \in Transport \union {"ok"}
  /\ timeouts \in 0..(FailuresMax + 1) /\ cooldown \in 0..CooldownSecs
  /\ wasOpen \in BOOLEAN /\ settle \in Unset..SettleSecs /\ sinceFetch \in 0..MinInterval
  /\ hidden \in BOOLEAN /\ fatal \in Transport \union {"none"} /\ refused \in BOOLEAN
  /\ strikes \in 0..FailuresMax /\ sinceStrike \in 0..CooldownSecs
  /\ sinceLive \in 0..SettleSecs /\ raced \in BOOLEAN

Asked == preview = "pace" /\ preview' = "current"

\* After FailuresMax transient failures in a row the camera is left alone for
\* CooldownSecs, after every further one too: the traffic starves the radio.
TrafficBounded == [][Asked /\ strikes >= FailuresMax => sinceStrike >= CooldownSecs]_vars

\* A session that found live view running is not asked for a frame before it
\* has had SettleSecs to settle, unless a preview was between its look at the
\* window and its call while the window was armed: that one goes through, and
\* may sweep the new window away with the old one.
SettleRespected == [][Asked /\ ~raced => sinceLive >= SettleSecs]_vars

\* "While inside it, return 'camera busy' instead of generating PTP traffic"
\* (comment on the settle window), with no exception for the race.
SettleAlways == [][Asked => sinceLive >= SettleSecs]_vars

\* When one thread opens sessions and asks for previews: from the transport
\* error that kills a session to the next session, every preview is answered
\* with that error and never with "busy", so the rebind is not put off.
TerminalSurfaces == ~overlap => ~hidden

\* With one such thread, too, what a session knows of its body and its port it
\* learned itself: "a previous session's NOT_SUPPORTED disable must not leak
\* into this one".
LeakFree == ~overlap => (disabled => refused) /\ (unhealthy => lastTerminal = fatal)

\* The loader's own busy answers do not keep the camera from being asked: with
\* a healthy session and no more inits it is asked again and again.
FrameComes ==
  <>[](init = "idle" /\ ~disabled /\ ~unhealthy) => []<>(preview = "current")

\* "Any non-timeout result resets the counter" (comment of SHIM #5): a cooldown
\* starts only after FailuresMax failures in a row.
CooldownEarned == [][cooldown' > cooldown => strikes' >= FailuresMax]_vars

\* "keep returning the ORIGINAL terminal class": a session marked dead has a
\* code to answer with, and it is not GP_OK.
CodeKept == unhealthy => lastTerminal # "ok"
=============================================================================
