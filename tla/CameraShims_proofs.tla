------------------------- MODULE CameraShims_proofs -------------------------
(***************************************************************************)
(* What CameraShims promises, for every limit and any number of capturers. *)
(*                                                                         *)
(* Two of the promises hold however the threads interleave: the radio is   *)
(* spared (TrafficBounded), and a session is left to settle but by the     *)
(* preview that races with the arming (SettleRespected).  Each needs the   *)
(* deadline the code keeps tied to the time that has really passed.  The   *)
(* other two are promises of one thread:                                   *)
(* they need that no preview is in the camera while a session is opened,   *)
(* and fail without it (README, known disagreements).                      *)
(***************************************************************************)
EXTENDS CameraShims, TLAPS

\* Where a counter is kept, no fewer failures are in it than came in a row; what
\* is left of the cooldown completes the time since the last of them; and a
\* preview that is past the first gates found the cooldown over.
Spared ==
  /\ init \in Clearing => strikes = 0
  /\ preview # "strike" => strikes <= timeouts
  /\ preview \in Counting => strikes <= count
  /\ strikes >= FailuresMax /\ preview \notin Counting => cooldown + sinceStrike >= CooldownSecs
  /\ strikes >= FailuresMax /\ preview \in {"window"} \union Past => sinceStrike >= CooldownSecs

\* Unless a preview raced with the arming: what is left of the settle window
\* completes the age of the session, the window counts, and who is past the
\* look at it found it over.
Settling ==
  raced \/ /\ init = "arming" => wasOpen /\ preview \notin Past
           /\ preview \in Past => sinceLive >= SettleSecs
           /\ \/ sinceLive >= SettleSecs
              \/ init = "arming"
              \/ wasOpen /\ settle + sinceLive >= SettleSecs

\* One thread: a session is opened only when no preview is under way, and a
\* preview goes on to the camera only when the session is well.
OneThread ==
  /\ preview # "none" => init = "idle"
  /\ preview = "code" => unhealthy /\ ~disabled
  /\ preview \notin {"none", "code"} => preview # "old" /\ fatal = "none" /\ ~disabled /\ ~unhealthy
  /\ init \in Clearing => ~disabled
  /\ init = "lastTerminal" => ~unhealthy
  /\ fatal # "none" => ~disabled /\ (unhealthy \/ init = "lastTerminal")

IInv ==
  /\ TypeOK /\ Spared /\ Settling
  /\ LeakFree /\ TerminalSurfaces
  /\ ~overlap => OneThread

-----------------------------------------------------------------------------
LEMMA CappedInRange ==
  ASSUME NEW t \in Nat, NEW cap \in Nat
  PROVE  /\ Capped(t, cap) \in 0..cap
         /\ Capped(t, cap) <= t
         /\ Capped(t, cap) = t \/ Capped(t, cap) = cap
BY DEF Capped

LEMMA LeftInRange ==
  ASSUME NEW cap \in Nat, NEW t \in Unset..cap
  PROVE  /\ Left(t) \in Unset..cap /\ (t >= 0 => Left(t) >= 0)
         /\ Left(t) + 1 >= t /\ (t <= 0 => Left(t) = t)
BY DEF Left, Unset

\* The numbers alone, for the steps that only reckon.
LEMMA Numbers ==
  ASSUME TypeOK
  PROVE  /\ FailuresMax \in Nat /\ CooldownSecs \in Nat /\ SettleSecs \in Nat /\ FailuresMax > 0
         /\ timeouts \in Nat /\ strikes \in Nat /\ count \in Nat
         /\ cooldown \in Nat /\ sinceStrike \in Nat
         /\ settle \in Int /\ sinceLive \in Nat
BY LimitsAssumption DEF TypeOK, Unset

\* The thread is at one place.
LEMMA Places ==
  /\ "none" \notin Past /\ "code" \notin Past /\ "window" \notin Past
  /\ "none" \notin Counting /\ "code" \notin Counting /\ "window" \notin Counting
  /\ "idle" \notin Clearing /\ "opening" \notin Clearing /\ "probing" \notin Clearing
  /\ "arming" \notin Clearing
  /\ \A p \in InCamera : p \notin Past /\ p \notin Counting /\ p # "window" /\ p # "strike"
  /\ \A p \in Past : p \notin Counting /\ p \notin InCamera /\ p # "window" /\ p # "strike"
BY DEF Past, Counting, Clearing, InCamera

LEMMA SameHost == [Next]_vars => overlap' = overlap
BY DEF Next, Previews, Enter, ReadCode, LookAtWindow, SweepFlag, SweepTime, Pace, Answer, Strike,
       Judge, Opens, OpenFails, Clears, Opened, ClearTimeouts, ClearCooldown, ClearUnhealthy,
       Cleared, Probed, Armed, Shoot, Shot, Second, vars, others

LEMMA Zero ==
  /\ 0 \in 0..(FailuresMax + 1) /\ 0 \in 0..CooldownSecs /\ 0 \in 0..SettleSecs
  /\ 0 \in 0..FailuresMax /\ MinInterval \in 0..MinInterval /\ 0 \in 0..MinInterval
  /\ CooldownSecs \in 0..CooldownSecs /\ SettleSecs \in 0..SettleSecs
  /\ Unset \in Unset..SettleSecs /\ SettleSecs \in Unset..SettleSecs
BY LimitsAssumption DEF Unset

LEMMA InitIInv == Init => IInv
<1> SUFFICES ASSUME Init PROVE IInv OBVIOUS
<1>1. TypeOK
  BY Zero DEF Init, TypeOK
<1>2. Spared /\ Settling
  BY LimitsAssumption, Places DEF Init, Spared, Settling
<1>3. OneThread /\ LeakFree /\ TerminalSurfaces
  BY Places DEF Init, OneThread, LeakFree, TerminalSurfaces
<1> QED BY <1>1, <1>2, <1>3 DEF IInv

-----------------------------------------------------------------------------
(* Types *)

LEMMA ClassifyTypes ==
  ASSUME TypeOK, NEW r \in Results, Classify(r)
  PROVE  /\ disabled' \in BOOLEAN /\ unhealthy' \in BOOLEAN
         /\ lastTerminal' \in Transport \union {"ok"}
         /\ timeouts' \in 0..(FailuresMax + 1) /\ cooldown' \in 0..CooldownSecs
<1>1. CASE r = "ok" /\ timeouts' = 0 /\ cooldown' = 0 /\ UNCHANGED flags
  BY <1>1, Zero DEF TypeOK, flags
<1>2. CASE r \in Transport /\ unhealthy' = TRUE /\ lastTerminal' = r
           /\ UNCHANGED <<disabled, budget>>
  BY <1>2 DEF TypeOK, budget
<1>3. CASE disabled' = TRUE /\ UNCHANGED <<unhealthy, lastTerminal, budget>>
  BY <1>3 DEF TypeOK, budget
<1>4. CASE UNCHANGED <<flags, budget>>
  BY <1>4 DEF TypeOK, flags, budget
<1> QED BY <1>1, <1>2, <1>3, <1>4 DEF Classify

LEMMA NextTypeOK == TypeOK /\ [Next]_vars => TypeOK'
<1> SUFFICES ASSUME TypeOK, [Next]_vars PROVE TypeOK' OBVIOUS
<1> USE LimitsAssumption DEF others, flags, budget, window, session, row
<1>1. CASE Enter \/ ReadCode
  BY <1>1 DEF Enter, Entry, ReadCode, Tell, Says, Gates, TypeOK
<1>2. CASE LookAtWindow
  <2>1. hidden' \in BOOLEAN /\ raced' \in BOOLEAN
    BY <1>2 DEF LookAtWindow, Tell, Says, TypeOK
  <2>2. preview' \in {"none"} \union Gates
    BY <1>2 DEF LookAtWindow, Tell, Gates, Past
  <2> QED BY <1>2, <2>1, <2>2 DEF LookAtWindow, TypeOK
<1>3. CASE SweepFlag \/ SweepTime
  BY <1>3, Zero DEF SweepFlag, SweepTime, Gates, Past, TypeOK
<1>4. CASE Pace
  <2>1. hidden' \in BOOLEAN
    BY <1>4 DEF Pace, Tell, Says, TypeOK
  <2>2. preview' \in {"none"} \union InCamera /\ sinceFetch' \in 0..MinInterval
    BY <1>4, Zero DEF Pace, Tell, InCamera, TypeOK
  <2> QED BY <1>4, <2>1, <2>2 DEF Pace, TypeOK
<1>5. ASSUME NEW r \in Results, Answer(r) PROVE TypeOK'
  <2>1. Classify(r) /\ hidden' \in BOOLEAN BY <1>5 DEF Answer, Says
  <2>2. strikes + 1 \in Nat /\ timeouts + 1 \in Nat /\ FailuresMax \in Nat /\ FailuresMax + 1 \in Nat
    BY DEF TypeOK
  <2>3. strikes' \in 0..FailuresMax
    BY <1>5, <2>2, Zero, CappedInRange DEF Answer
  <2>4. count' \in 0..(FailuresMax + 1)
    BY <1>5, <2>2, CappedInRange DEF Answer, TypeOK
  <2>5. sinceStrike' \in 0..CooldownSecs
    BY <1>5, Zero DEF Answer
  <2>6. fatal' \in Transport \union {"none"} /\ refused' \in BOOLEAN
    BY <1>5 DEF Answer, TypeOK
  <2>7. preview' \in {"none", "strike"}
    BY <1>5 DEF Answer
  <2>8. /\ disabled' \in BOOLEAN /\ unhealthy' \in BOOLEAN
        /\ lastTerminal' \in Transport \union {"ok"}
        /\ timeouts' \in 0..(FailuresMax + 1) /\ cooldown' \in 0..CooldownSecs
    BY <2>1, ClassifyTypes
  <2> QED BY <1>5, <2>1, <2>3, <2>4, <2>5, <2>6, <2>7, <2>8 DEF Answer, Counting, TypeOK
<1>6. CASE Strike \/ Judge
  BY <1>6, Zero DEF Strike, Judge, Counting, TypeOK
<1>7. CASE Opens \/ OpenFails
  BY <1>7 DEF Opens, OpenFails, TypeOK
<1>8. CASE Opened \/ ClearTimeouts \/ ClearCooldown
  BY <1>8, Zero DEF Opened, ClearTimeouts, ClearCooldown, Clearing, TypeOK
<1>9. CASE ClearUnhealthy \/ Cleared
  BY <1>9 DEF ClearUnhealthy, Cleared, Clearing, InCamera, TypeOK
<1>10. ASSUME NEW live \in BOOLEAN, Probed(live) PROVE TypeOK'
  <2>1. raced' \in BOOLEAN
    <3>1. raced' = (preview \in Past) \/ raced' = raced
      BY <1>10 DEF Probed
    <3>2. (preview \in Past) \in BOOLEAN
      OBVIOUS
    <3> QED BY <3>1, <3>2, Zenon DEF TypeOK
  <2>2. sinceLive' \in 0..SettleSecs /\ wasOpen' \in BOOLEAN
    BY <1>10, Zero DEF Probed, TypeOK
  <2> QED BY <1>10, <2>1, <2>2 DEF Probed, TypeOK
<1>11. CASE Armed
  BY <1>11, Zero DEF Armed, TypeOK
<1>12. ASSUME NEW c \in Capturers, Shoot(c) \/ Shot(c) PROVE TypeOK'
  BY <1>12 DEF Shoot, Shot, TypeOK
<1>13. CASE Second
  <2>1. cooldown \in Unset..CooldownSecs /\ cooldown >= 0
    BY DEF TypeOK, Unset
  <2>2. cooldown' \in 0..CooldownSecs
    BY <1>13, <2>1, LeftInRange DEF Second, Unset
  <2>3. settle' \in Unset..SettleSecs
    BY <1>13, LeftInRange DEF Second, TypeOK
  <2>4. sinceFetch' \in 0..MinInterval
    BY <1>13, CappedInRange DEF Second, TypeOK
  <2>5. sinceStrike' \in 0..CooldownSecs /\ sinceLive' \in 0..SettleSecs
    BY <1>13, CappedInRange DEF Second, TypeOK
  <2> QED BY <1>13, <2>2, <2>3, <2>4, <2>5 DEF Second, TypeOK
<1>14. CASE UNCHANGED vars
  BY <1>14 DEF TypeOK, vars
<1> QED
  BY <1>1, <1>2, <1>3, <1>4, <1>5, <1>6, <1>7, <1>8, <1>9, <1>10, <1>11, <1>12, <1>13, <1>14
  DEF Next, Previews, Clears

-----------------------------------------------------------------------------
(* The deadlines *)

LEMMA NextSpared == TypeOK /\ Spared /\ [Next]_vars => Spared'
<1> SUFFICES ASSUME TypeOK, Spared, [Next]_vars PROVE Spared' OBVIOUS
<1> USE LimitsAssumption DEF others, flags, budget, window, session, row
<1>1. CASE Enter
  <2>1. \/ preview' \in {"none", "code"}
        \/ preview' = "window" /\ cooldown <= 0
    BY <1>1 DEF Enter, Entry, Tell
  <2>2. preview \notin Counting /\ preview # "strike"
    BY <1>1, Places DEF Enter
  <2>3. strikes >= FailuresMax /\ cooldown <= 0 => sinceStrike >= CooldownSecs
    BY <2>2, Numbers DEF Spared
  <2>4. UNCHANGED <<init, strikes, timeouts, count, cooldown, sinceStrike>>
    BY <1>1 DEF Enter
  <2> QED BY <2>1, <2>2, <2>3, <2>4, Places DEF Spared
<1>2. CASE ReadCode \/ LookAtWindow \/ SweepFlag \/ SweepTime \/ Pace
  <2>1. UNCHANGED <<init, strikes, timeouts, count, cooldown, sinceStrike>>
    BY <1>2 DEF ReadCode, LookAtWindow, SweepFlag, SweepTime, Pace
  <2>2. preview \notin Counting /\ preview' \notin Counting /\ preview # "strike" /\ preview' # "strike"
    BY <1>2 DEF ReadCode, LookAtWindow, SweepFlag, SweepTime, Pace, Tell, Counting
  <2>3. preview' \in {"window"} \union Past => preview \in {"window"} \union Past
    BY <1>2 DEF ReadCode, LookAtWindow, SweepFlag, SweepTime, Pace, Tell, Past
  <2> QED BY <2>1, <2>2, <2>3 DEF Spared
<1>3. ASSUME NEW r \in Results, Answer(r) PROVE Spared'
  <2>1. init' = init /\ preview # "strike" /\ strikes <= timeouts
    BY <1>3, Places DEF Answer, Spared
  <2>2. CASE Counted(r) /\ init \notin Clearing
    <3>1. /\ preview' = "strike" /\ strikes' = Capped(strikes + 1, FailuresMax)
          /\ count' = Capped(timeouts + 1, FailuresMax + 1)
      BY <1>3, <2>2 DEF Answer
    <3>2. strikes' <= count'
      BY <2>1, <3>1, Numbers DEF Capped
    <3> QED BY <2>1, <2>2, <3>1, <3>2 DEF Spared, Counting, Past
  <2>3. CASE Counted(r) /\ init \in Clearing
    <3>1. preview' = "strike" /\ strikes' = 0 /\ count' = Capped(timeouts + 1, FailuresMax + 1)
      BY <1>3, <2>3 DEF Answer
    <3>2. strikes' <= count'
      BY <3>1, Numbers DEF Capped
    <3> QED BY <2>1, <2>3, <3>1, <3>2 DEF Spared, Counting, Past
  <2>4. CASE ~Counted(r)
    <3>1. preview' = "none" /\ strikes' = 0
      BY <1>3, <2>4 DEF Answer
    <3>2. timeouts' \in 0..(FailuresMax + 1)
      BY <1>3, ClassifyTypes DEF Answer
    <3> QED BY <3>1, <3>2, Places DEF Spared
  <2> QED BY <2>2, <2>3, <2>4
<1>4. CASE Strike
  BY <1>4 DEF Strike, Spared, Counting, Past
<1>5. CASE Judge
  <2>1. /\ preview = "budget" /\ preview' = "none"
        /\ UNCHANGED <<init, strikes, timeouts, sinceStrike>>
    BY <1>5 DEF Judge
  <2>2. strikes <= count /\ strikes <= timeouts
    BY <2>1 DEF Spared, Counting
  <2>3. PICK c \in {count, timeouts} :
           cooldown' = IF c >= FailuresMax THEN CooldownSecs ELSE cooldown
    BY <1>5 DEF Judge
  <2>4. strikes >= FailuresMax => cooldown' = CooldownSecs
    BY <2>2, <2>3, Numbers
  <2>5. cooldown' + sinceStrike >= CooldownSecs \/ ~(strikes >= FailuresMax)
    BY <2>4, Numbers
  <2> QED BY <2>1, <2>2, <2>5, Places DEF Spared
<1>6. CASE Opens \/ OpenFails
  BY <1>6, Places DEF Opens, OpenFails, Spared
<1>7. CASE Opened
  BY <1>7, Numbers DEF Opened, Spared
<1>8. CASE ClearTimeouts \/ ClearCooldown
  <2>1. /\ strikes = 0 /\ strikes' = 0 /\ preview' = preview /\ count' = count
        /\ timeouts' \in Nat
    BY <1>8, Numbers DEF ClearTimeouts, ClearCooldown, Spared, Clearing
  <2> QED BY <2>1, Numbers DEF Spared
<1>9. CASE ClearUnhealthy
  BY <1>9 DEF ClearUnhealthy, Spared, Clearing
<1>10. CASE Cleared
  <2>1. /\ init' = "probing" /\ UNCHANGED <<strikes, timeouts, count, cooldown, sinceStrike>>
    BY <1>10 DEF Cleared
  <2>2. preview' = preview \/ (preview = "current" /\ preview' = "old")
    BY <1>10 DEF Cleared
  <2> QED BY <2>1, <2>2, Places DEF Spared, InCamera
<1>11. ASSUME NEW live \in BOOLEAN, Probed(live) PROVE Spared'
  BY <1>11, Places DEF Probed, Spared
<1>12. CASE Armed
  BY <1>12, Places DEF Armed, Spared
<1>13. ASSUME NEW c \in Capturers, Shoot(c) \/ Shot(c) PROVE Spared'
  BY <1>13 DEF Shoot, Shot, Spared
<1>14. CASE Second
  <2>1. cooldown' + 1 >= cooldown /\ cooldown' \in Nat
    BY <1>14, Numbers DEF Second, Left
  <2>2. sinceStrike' = sinceStrike + 1 \/ sinceStrike' = CooldownSecs
    BY <1>14 DEF Second, Capped
  <2>3. UNCHANGED <<init, preview, strikes, timeouts, count>>
    BY <1>14 DEF Second
  <2> QED BY <2>1, <2>2, <2>3, Numbers DEF Spared
<1>15. CASE UNCHANGED vars
  BY <1>15 DEF Spared, vars
<1> QED
  BY <1>1, <1>2, <1>3, <1>4, <1>5, <1>6, <1>7, <1>8, <1>9, <1>10, <1>11, <1>12, <1>13, <1>14,
     <1>15
  DEF Next, Previews, Clears

LEMMA NextSettling == TypeOK /\ Settling /\ [Next]_vars => Settling'
<1> SUFFICES ASSUME TypeOK, Settling, [Next]_vars PROVE Settling' OBVIOUS
<1> USE LimitsAssumption DEF others, flags, budget, window, session, row
<1>1. CASE LookAtWindow
  <2>1. UNCHANGED <<init, wasOpen, settle, sinceLive>>
    BY <1>1 DEF LookAtWindow
  <2>2. CASE wasOpen /\ settle > 0
    BY <1>1, <2>1, <2>2, Places DEF LookAtWindow, Tell, Settling, Unset
  <2>3. CASE ~(wasOpen /\ settle > 0)
    <3>1. raced' = (raced \/ init = "arming")
      BY <1>1, <2>3 DEF LookAtWindow
    <3>2. ~wasOpen \/ settle <= 0
      BY <2>3, Numbers
    <3>3. ASSUME ~raced' PROVE sinceLive >= SettleSecs /\ init # "arming" /\ ~raced
      <4>1. ~raced /\ init # "arming"
        BY <3>1, <3>3
      <4>2. sinceLive >= SettleSecs \/ (wasOpen /\ settle + sinceLive >= SettleSecs)
        BY <4>1 DEF Settling
      <4> QED BY <3>2, <4>1, <4>2, Numbers
    <3> QED BY <2>1, <3>3 DEF Settling
  <2> QED BY <2>2, <2>3
<1>2. CASE SweepFlag \/ SweepTime
  <2>1. /\ preview \in Past /\ init' = init /\ sinceLive' = sinceLive /\ raced' = raced
        /\ wasOpen' = wasOpen \/ wasOpen' = FALSE
    BY <1>2 DEF SweepFlag, SweepTime, Past
  <2>2. ~raced => sinceLive >= SettleSecs
    BY <2>1 DEF Settling
  <2>3. ~raced => init # "arming"
    BY <2>1 DEF Settling
  <2> QED BY <2>1, <2>2, <2>3 DEF Settling
<1>3. ASSUME NEW live \in BOOLEAN, Probed(live) PROVE Settling'
  <2>1. CASE live /\ SettleSecs > 0
    BY <1>3, <2>1 DEF Probed, Settling
  <2>2. CASE ~(live /\ SettleSecs > 0)
    BY <1>3, <2>2 DEF Probed, Settling
  <2> QED BY <2>1, <2>2
<1>4. CASE Armed
  <2>1. settle' = SettleSecs /\ UNCHANGED <<preview, wasOpen, sinceLive, raced>> /\ init' = "idle"
    BY <1>4 DEF Armed
  <2>2. SettleSecs + sinceLive >= SettleSecs /\ (~raced => wasOpen)
    BY <1>4, Numbers DEF Armed, Settling
  <2> QED BY <2>1, <2>2 DEF Settling
<1>5. CASE Second
  <2>1. settle' + 1 >= settle /\ settle' \in Int /\ (settle <= 0 => settle' = settle)
    BY <1>5, Numbers DEF Second, Left
  <2>2. sinceLive' = sinceLive + 1 \/ sinceLive' = SettleSecs
    BY <1>5 DEF Second, Capped
  <2>3. UNCHANGED <<init, preview, wasOpen, raced>>
    BY <1>5 DEF Second
  <2>4. sinceLive' >= sinceLive \/ sinceLive' >= SettleSecs
    BY <2>2, Numbers
  <2>5. settle + sinceLive >= SettleSecs =>
          sinceLive' >= SettleSecs \/ settle' + sinceLive' >= SettleSecs
    BY <2>1, <2>2, Numbers
  <2>6. sinceLive >= SettleSecs => sinceLive' >= SettleSecs
    BY <2>2, Numbers
  <2> QED BY <2>3, <2>5, <2>6 DEF Settling
<1>6. CASE Pace \/ Enter \/ ReadCode \/ Strike \/ Judge \/ \E r \in Results : Answer(r)
  <2>1. UNCHANGED <<init, wasOpen, settle, sinceLive, raced>>
    BY <1>6 DEF Pace, Enter, ReadCode, Strike, Judge, Answer
  <2>2. preview' \notin Past
    BY <1>6 DEF Pace, Enter, Entry, ReadCode, Strike, Judge, Answer, Tell, Past
  <2> QED BY <2>1, <2>2 DEF Settling
<1>7. CASE Opens \/ OpenFails \/ Clears
  <2>1. UNCHANGED <<wasOpen, settle, sinceLive, raced>> /\ init # "arming" /\ init' # "arming"
    BY <1>7 DEF Opens, OpenFails, Clears, Opened, ClearTimeouts, ClearCooldown, ClearUnhealthy,
       Cleared
  <2>2. preview' \in Past => preview \in Past
    BY <1>7 DEF Opens, OpenFails, Clears, Opened, ClearTimeouts, ClearCooldown, ClearUnhealthy,
       Cleared, Past
  <2> QED BY <2>1, <2>2 DEF Settling
<1>8. ASSUME NEW c \in Capturers, Shoot(c) \/ Shot(c) PROVE Settling'
  BY <1>8 DEF Shoot, Shot, Settling
<1>9. CASE UNCHANGED vars
  BY <1>9 DEF Settling, vars
<1> QED
  BY <1>1, <1>2, <1>3, <1>4, <1>5, <1>6, <1>7, <1>8, <1>9 DEF Next, Previews

-----------------------------------------------------------------------------
(* One thread *)

LEMMA NextOneThread ==
  TypeOK /\ ~overlap /\ OneThread /\ LeakFree /\ [Next]_vars => OneThread' /\ LeakFree'
<1> SUFFICES ASSUME TypeOK, ~overlap, OneThread, LeakFree, [Next]_vars
             PROVE  OneThread' /\ LeakFree'
  OBVIOUS
<1> USE DEF OneThread, LeakFree, others, flags, budget, window, session, row
<1>1. CASE Enter
  <2>1. init = "idle" BY <1>1 DEF Enter, Turn
  <2>2. /\ preview' \in {"none", "code", "window"}
        /\ preview' = "code" => unhealthy /\ ~disabled
        /\ preview' = "window" => ~unhealthy /\ ~disabled
    BY <1>1 DEF Enter, Entry, Tell
  <2> QED BY <1>1, <2>1, <2>2 DEF Enter
<1>2. CASE ReadCode \/ LookAtWindow \/ SweepFlag \/ SweepTime \/ Pace \/ Strike \/ Judge
  <2>1. UNCHANGED <<overlap, init, disabled, unhealthy, lastTerminal, fatal, refused>>
    BY <1>2 DEF ReadCode, LookAtWindow, SweepFlag, SweepTime, Pace, Strike, Judge
  <2>2. preview' = "none" \/ (preview \notin {"none", "code"} /\ preview' \notin {"code", "old"})
    BY <1>2 DEF ReadCode, LookAtWindow, SweepFlag, SweepTime, Pace, Strike, Judge, Tell
  <2> QED BY <2>1, <2>2
<1>3. ASSUME NEW r \in Results, Answer(r) PROVE OneThread' /\ LeakFree'
  <2>1. preview = "current" /\ init = "idle" /\ fatal = "none" /\ ~disabled /\ ~unhealthy
    BY <1>3 DEF Answer, InCamera
  <2>2. init' = "idle" /\ overlap' = overlap /\ preview' \in {"none", "strike"}
    BY <1>3, <2>1 DEF Answer
  <2>3. CASE r \in Transport
    <3>1. /\ r # "ok" /\ r # "unsupported" /\ r # "none"
          /\ r \notin Transient \union {"unknown"} /\ ~Counted(r)
      BY <2>3 DEF Transport, Transient, Counted
    <3>2. unhealthy' = TRUE /\ lastTerminal' = r /\ disabled' = disabled
      BY <1>3, <3>1 DEF Answer, Classify
    <3>3. fatal' = r /\ preview' = "none"
      BY <1>3, <2>1, <2>3, <3>1 DEF Answer
    <3> QED BY <2>1, <2>2, <3>1, <3>2, <3>3, Places
  <2>4. CASE r = "unsupported"
    <3>1. r \notin Transient \union {"unknown"} /\ r \notin Transport /\ ~Counted(r)
      BY <2>4 DEF Transport, Transient, Counted
    <3>2. disabled' = TRUE /\ unhealthy' = unhealthy
      BY <1>3, <2>4, <3>1 DEF Answer, Classify
    <3>3. fatal' = fatal /\ refused' = TRUE /\ preview' = "none"
      BY <1>3, <2>1, <2>4, <3>1 DEF Answer
    <3> QED BY <2>1, <2>2, <3>2, <3>3, Places
  <2>5. CASE r \notin Transport /\ r # "unsupported"
    <3>1. disabled' = disabled /\ unhealthy' = unhealthy
      BY <1>3, <2>5 DEF Answer, Classify
    <3>2. fatal' = fatal
      BY <1>3, <2>5 DEF Answer
    <3> QED BY <2>1, <2>2, <3>1, <3>2, Places
  <2> QED BY <2>3, <2>4, <2>5
<1>4. CASE Opens \/ OpenFails
  BY <1>4, Places DEF Opens, OpenFails
<1>5. CASE Opened
  BY <1>5 DEF Opened, Clearing
<1>6. CASE ClearTimeouts \/ ClearCooldown \/ ClearUnhealthy
  BY <1>6 DEF ClearTimeouts, ClearCooldown, ClearUnhealthy, Clearing
<1>7. CASE Cleared
  <2>1. preview = "none" /\ ~disabled /\ ~unhealthy
    BY <1>7 DEF Cleared, Clearing
  <2>2. /\ preview' = "none" /\ init' = "probing" /\ fatal' = "none"
        /\ UNCHANGED <<overlap, disabled, unhealthy>>
    BY <1>7, <2>1 DEF Cleared
  <2> QED BY <2>1, <2>2, Places
<1>8. ASSUME NEW live \in BOOLEAN, Probed(live) PROVE OneThread' /\ LeakFree'
  BY <1>8, Places DEF Probed
<1>9. CASE Armed
  BY <1>9, Places DEF Armed
<1>10. ASSUME NEW c \in Capturers, Shoot(c) \/ Shot(c) PROVE OneThread' /\ LeakFree'
  BY <1>10 DEF Shoot, Shot
<1>11. CASE Second \/ UNCHANGED vars
  BY <1>11 DEF Second, vars
<1> QED
  BY <1>1, <1>2, <1>3, <1>4, <1>5, <1>6, <1>7, <1>8, <1>9, <1>10, <1>11
  DEF Next, Previews, Clears

LEMMA NextTerminal ==
  /\ TypeOK /\ ~overlap /\ OneThread /\ LeakFree /\ TerminalSurfaces /\ [Next]_vars
  => TerminalSurfaces'
<1> SUFFICES ASSUME TypeOK, ~overlap, OneThread, LeakFree, TerminalSurfaces, [Next]_vars
             PROVE  TerminalSurfaces'
  OBVIOUS
<1> USE DEF TerminalSurfaces
<1>1. CASE Enter
  <2>1. init = "idle" BY <1>1 DEF Enter, Turn
  <2>2. fatal # "none" => ~disabled /\ unhealthy
    BY <2>1 DEF OneThread
  <2>3. hidden' = hidden \/ (fatal = "none" /\ hidden' = FALSE)
    BY <1>1, <2>2 DEF Enter, Entry, Tell, Says
  <2> QED BY <2>3
<1>2. CASE ReadCode
  <2>1. lastTerminal = fatal
    BY <1>2 DEF ReadCode, OneThread, LeakFree
  <2> QED BY <1>2, <2>1 DEF ReadCode, Tell, Says
<1>3. CASE LookAtWindow \/ Pace \/ \E r \in Results : Answer(r)
  <2>1. preview \notin {"none", "code"}
    BY <1>3 DEF LookAtWindow, Pace, Answer, InCamera
  <2>2. fatal = "none" BY <2>1 DEF OneThread
  <2> QED BY <1>3, <2>2 DEF LookAtWindow, Pace, Answer, Tell, Says
<1>4. CASE UNCHANGED hidden
  BY <1>4
<1> QED
  BY <1>1, <1>2, <1>3, <1>4
  DEF Next, Previews, SweepFlag, SweepTime, Strike, Judge, Opens, OpenFails, Clears, Opened,
      ClearTimeouts, ClearCooldown, ClearUnhealthy, Cleared, Probed, Armed, Shoot, Shot, Second,
      vars

LEMMA NextIInv == IInv /\ [Next]_vars => IInv'
<1> SUFFICES ASSUME IInv, [Next]_vars PROVE IInv' OBVIOUS
<1>1. TypeOK' /\ Spared' /\ Settling'
  BY NextTypeOK, NextSpared, NextSettling DEF IInv
<1>2. ~overlap => OneThread' /\ LeakFree' /\ TerminalSurfaces'
  BY NextOneThread, NextTerminal DEF IInv
<1>3. overlap => LeakFree' /\ TerminalSurfaces'
  BY SameHost DEF LeakFree, TerminalSurfaces
<1> QED BY <1>1, <1>2, <1>3, SameHost DEF IInv

-----------------------------------------------------------------------------
\* The inductive invariant holds of the shims however the threads interleave.
THEOREM Invariant == Spec => []IInv
<1>1. Init => IInv BY InitIInv
<1>2. IInv /\ [Next]_vars => IInv' BY NextIInv
<1> QED BY <1>1, <1>2, PTL DEF Spec

\* Every variable stays in its type: the counter, the deadlines and the code
\* that is surfaced among them.
THEOREM TypeCorrect == Spec => []TypeOK
<1>1. IInv => TypeOK BY DEF IInv
<1> QED BY <1>1, Invariant, PTL

\* Only the last step before the camera asks it.
LEMMA AskedAtPace == Asked => preview \in Past /\ preview \notin Counting
BY DEF Asked, Past, Counting

\* The preview backoff of stage2_shim_gp_camera_capture_preview: once
\* FailuresMax transient failures have come in a row, every further call to the
\* camera is CooldownSecs after the last of them, with any number of threads.
THEOREM TrafficCorrect == Spec => TrafficBounded
<1>1. IInv /\ [Next]_vars => [Asked /\ strikes >= FailuresMax => sinceStrike >= CooldownSecs]_vars
  BY AskedAtPace DEF IInv, Spared
<1> QED BY <1>1, Invariant, PTL DEF Spec, TrafficBounded

\* The settle window of issue #121, read, swept and armed in several steps by
\* two threads: no frame is asked for in the SettleSecs after a session was found
\* with live view running, but by the preview that was past its look at the
\* window when it was armed, or after it.
THEOREM SettleCorrect == Spec => SettleRespected
<1>1. IInv /\ [Next]_vars => [Asked /\ ~raced => sinceLive >= SettleSecs]_vars
  BY AskedAtPace DEF IInv, Settling
<1> QED BY <1>1, Invariant, PTL DEF Spec, SettleRespected

\* When one thread asks for previews and opens sessions, the error that killed
\* a session is the answer to every preview until the next one (issue #127).
THEOREM TerminalCorrect == Spec => []TerminalSurfaces
<1>1. IInv => TerminalSurfaces BY DEF IInv
<1> QED BY <1>1, Invariant, PTL

\* And nothing an earlier session found out about the camera outlives it.
THEOREM LeakCorrect == Spec => []LeakFree
<1>1. IInv => LeakFree BY DEF IInv
<1> QED BY <1>1, Invariant, PTL
=============================================================================
