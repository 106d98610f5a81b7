----------------------------- MODULE PolarisJog -----------------------------
(***************************************************************************)
(* Hold-to-move with the dead man on the server's side of the wire:        *)
(* container/astro/polaris-jog.c, driven by the select() loop of           *)
(* polaris-httpd.c over the control link of polaris-link.c.                *)
(*                                                                         *)
(* A browser declares "move this axis" with a short lease and renews it    *)
(* while a control is held.  The server turns the intent into frames for   *)
(* the head - a stream of speeds (the fast family) or a latched press that *)
(* must be matched by a release (the slow family) - and must stop the axis *)
(* when the lease runs out.                                                *)
(*                                                                         *)
(* The loop runs  select -> pump -> tick -> handle -> select  on a single  *)
(* thread; pc names the stage it is about to run.  The head reads frames   *)
(* concurrently.  Frames of different axes drive different motors, so the  *)
(* order between axes is not observable and each axis has its own queue.   *)
(* Times are relative to now, as the code only ever tests a deadline       *)
(* against now.                                                            *)
(***************************************************************************)
EXTENDS Integers, Sequences, FiniteSets

CONSTANTS
  Axes,               \* the motor axes
  Speeds, Gears,      \* nonzero speeds and gears a browser may ask for
  SpeedMin, SpeedMax, \* JOG_SPEED_MIN, JOG_SPEED_MAX
  GearMin, GearMax,   \* JOG_GEAR_MIN, JOG_GEAR_MAX
  Lease, Repeat,      \* JOG_LEASE_MS and JOG_REPEAT_MS, in time units
  IdleSleep,          \* the 250 ms cap of the loop's select(), in time units
  HandleMax,          \* the longest an inline HTTP request holds the loop
  LateCap,            \* bound: lateness is not counted beyond this
  TxCap,              \* bound: frames of one axis the transmit buffer holds
  Faults              \* which of "cut", "close", "stall" the run allows

ASSUME SpeedAssumption ==
  /\ SpeedMin \in Int /\ SpeedMax \in Int /\ 0 < SpeedMin /\ SpeedMin <= SpeedMax
  /\ Speeds \subseteq Int \ {0}
ASSUME GearAssumption ==
  /\ GearMin \in Int /\ GearMax \in Int /\ 0 < GearMin /\ GearMin <= GearMax
  /\ Gears \subseteq Int \ {0}
ASSUME TimeAssumption ==
  /\ Lease \in Nat \ {0} /\ Repeat \in Nat \ {0} /\ IdleSleep \in Nat \ {0}
  /\ HandleMax \in Nat /\ LateCap \in Nat /\ HandleMax < LateCap
ASSUME BufferAssumption == TxCap \in Nat /\ Faults \subseteq {"cut", "close", "stall"}

VARIABLES
  pc,      \* the stage of the event loop
  status,  \* plink_status()
  sock,    \* the TCP connection under it: "none", "ok", or "broken" unnoticed
  ax,      \* g_ax: what the server believes of each axis
  tx,      \* frames accepted by plink_send that the head has not read
  head,    \* what each motor of the head is doing (external)
  lost,    \* history: a frame for the axis was discarded, or its motion was
           \* forgotten without a stop, at some time
  client   \* a browser is alive and may send requests
vars == <<pc, status, sock, ax, tx, head, lost, client>>
link == <<status, sock, tx, lost>>

(***************************************************************************)
(* Values.                                                                 *)
(***************************************************************************)
Clamp(v, lo, hi) == IF v < lo THEN lo ELSE IF v > hi THEN hi ELSE v

\* The value that goes on the wire: the sign is the direction, the magnitude
\* is clamped into the range of the family.
WireSpeedUnclamped(v) == IF v > SpeedMax THEN SpeedMax ELSE IF v < -SpeedMax THEN -SpeedMax ELSE v
WireSpeed(v) == IF v < 0 THEN -Clamp(-v, SpeedMin, SpeedMax) ELSE Clamp(v, SpeedMin, SpeedMax)
WireGear(g) == IF g < 0 THEN -Clamp(-g, GearMin, GearMax) ELSE Clamp(g, GearMin, GearMax)

WireSpeeds == ((-SpeedMax)..(-SpeedMin)) \cup (SpeedMin..SpeedMax)
WireGears == ((-GearMax)..(-GearMin)) \cup (GearMin..GearMax)

Frame == [fam : {"fast"}, val : WireSpeeds \cup {0}, on : {TRUE}]
           \cup [fam : {"slow"}, val : WireGears, on : BOOLEAN]
Fast(v) == [fam |-> "fast", val |-> v, on |-> TRUE]
Slow(g, on) == [fam |-> "slow", val |-> WireGear(g), on |-> on]

AxisState == [speed : WireSpeeds \cup {0}, gear : Gears \cup {0}, pressed : BOOLEAN,
              lease : (-LateCap)..Lease, next : (-LateCap)..Repeat]
Stopped == [speed |-> 0, gear |-> 0, pressed |-> FALSE, lease |-> 0, next |-> 0]
Moving(s) == s.pressed \/ s.speed # 0

\* What one motor of the head is doing: the speed of its stream and the gears
\* latched on it (external).
HeadState == [fast : WireSpeeds \cup {0}, held : SUBSET WireGears]
Still == [fast |-> 0, held |-> {}]

\* The head takes a frame.  A press latches until its release; a speed holds,
\* since nobody has shown that the head times a stream out.
Obey(h, f) ==
  IF f.fam = "fast" THEN [h EXCEPT !.fast = f.val]
  ELSE [h EXCEPT !.held = IF f.on THEN @ \cup {f.val} ELSE @ \ {f.val}]

(***************************************************************************)
(* What one call puts on the wire and what it leaves the axis at.          *)
(***************************************************************************)
If(c, frames) == IF c THEN frames ELSE <<>>

StopFrames(s) == If(s.pressed, <<Slow(s.gear, FALSE)>>) \o If(s.speed # 0, <<Fast(0)>>)

\* (defect) the family changes and the press is left latched
FastFramesKeepingPress(s, w) == If(s.speed # w, <<Fast(w)>>)
\* jog_set, fast family: release an outstanding press, send on a change.
FastFrames(s, w) == If(s.pressed, <<Slow(s.gear, FALSE)>>) \o If(s.speed # w, <<Fast(w)>>)
FastState(s, w) ==
  [speed |-> w, gear |-> IF s.pressed THEN 0 ELSE s.gear, pressed |-> FALSE,
   lease |-> Lease, next |-> IF s.speed # w THEN Repeat ELSE s.next]

\* (defect) the new gear is pressed before the old one is released
SlowFramesPressFirst(s, g) ==
  If(s.speed # 0, <<Fast(0)>>)
    \o If(~s.pressed \/ s.gear # g,
          <<Slow(g, TRUE)>> \o If(s.pressed, <<Slow(s.gear, FALSE)>>))
\* jog_set, slow family: zero the fast stream; press only what is not pressed,
\* after releasing what was.
SlowFrames(s, g) ==
  If(s.speed # 0, <<Fast(0)>>)
    \o If(~s.pressed \/ s.gear # g,
          If(s.pressed, <<Slow(s.gear, FALSE)>>) \o <<Slow(g, TRUE)>>)
SlowState(s, g) == [speed |-> 0, gear |-> g, pressed |-> TRUE, lease |-> Lease, next |-> 0]

SetFrames(s, v, g) ==
  IF v = 0 /\ g = 0 THEN StopFrames(s)
  ELSE IF v # 0 THEN FastFrames(s, WireSpeed(v)) ELSE SlowFrames(s, g)
SetState(s, v, g) ==
  IF v = 0 /\ g = 0 THEN Stopped
  ELSE IF v # 0 THEN FastState(s, WireSpeed(v)) ELSE SlowState(s, g)

\* jog_tick with the link up, for one axis: the dead man, then the repeat.
Expired(s) == Moving(s) /\ s.lease <= 0
RepeatDue(s) == ~Expired(s) /\ s.speed # 0 /\ s.next <= 0
TickFrames(s) ==
  IF Expired(s) THEN StopFrames(s) ELSE If(RepeatDue(s), <<Fast(s.speed)>>)
\* (defect) the server's own repeat renews the lease
TickStateRenewing(s) ==
  IF Expired(s) THEN Stopped
  ELSE IF RepeatDue(s) THEN [s EXCEPT !.next = Repeat, !.lease = Lease] ELSE s
TickState(s) ==
  IF Expired(s) THEN Stopped
  ELSE IF RepeatDue(s) THEN [s EXCEPT !.next = Repeat] ELSE s

(***************************************************************************)
(* Time.  jog_next_deadline_ms bounds how long select() may sleep.         *)
(***************************************************************************)
Later(t, d) == IF t - d < -LateCap THEN -LateCap ELSE t - d

Aged(s, d) ==
  IF Moving(s)
  THEN [s EXCEPT !.lease = Later(@, d), !.next = IF s.speed # 0 THEN Later(@, d) ELSE @]
  ELSE s

\* (defect) the latest deadline is taken for the earliest
MaySleepToLatest(d) ==
  /\ d <= IdleSleep
  /\ \/ \A a \in Axes : ~Moving(ax[a])
     \/ d = 0
     \/ \E a \in Axes : /\ Moving(ax[a]) /\ d <= ax[a].lease
                        /\ ax[a].speed # 0 => d <= ax[a].next
\* A sleep of d is within every deadline: the lease of a moving axis, the next
\* repeat of a streaming one, and the cap.  A deadline already past means 0.
MaySleep(d) ==
  /\ d <= IdleSleep
  /\ \A a \in Axes : Moving(ax[a]) =>
       /\ d = 0 \/ d <= ax[a].lease
       /\ ax[a].speed # 0 => (d = 0 \/ d <= ax[a].next)

(***************************************************************************)
(* The link as its callers see it.                                         *)
(***************************************************************************)
\* (defect) the buffer outlives the connection
DisconnectKeepingTx(sent) ==
  /\ status' = "DOWN"
  /\ sock' = "none"
  /\ UNCHANGED <<tx, lost>>
\* plink_close and drop: the descriptor is closed and g_tx emptied.
Disconnect(sent) ==
  /\ status' = "DOWN"
  /\ sock' = "none"
  /\ tx' = [a \in Axes |-> <<>>]
  /\ lost' = [a \in Axes |-> lost[a] \/ tx[a] # <<>> \/ sent[a] # <<>>]

\* plink_send for each frame of sent[a], for each axis.  Nobody looks at its
\* result.  A frame beyond the buffer is dropped and so is every frame while
\* the link is not UP; a write to a broken connection closes the link.
Transmit(sent) ==
  \/ /\ status = "UP"
     /\ tx' = [a \in Axes |->
                 SubSeq(tx[a] \o sent[a], 1, Clamp(Len(tx[a] \o sent[a]), 0, TxCap))]
     /\ lost' = [a \in Axes |-> lost[a] \/ Len(tx[a] \o sent[a]) > TxCap]
     /\ UNCHANGED <<status, sock>>
  \/ /\ status = "UP" /\ sock = "broken" /\ \E a \in Axes : sent[a] # <<>>
     /\ Disconnect(sent)
  \/ /\ status # "UP"
     /\ lost' = [a \in Axes |-> lost[a] \/ sent[a] # <<>>]
     /\ UNCHANGED <<status, sock, tx>>

Nothing == [a \in Axes |-> <<>>]
Only(b, frames) == [a \in Axes |-> IF a = b THEN frames ELSE <<>>]

-----------------------------------------------------------------------------
Init ==
  /\ pc = "select"
  /\ status = "DOWN"
  /\ sock = "none"
  /\ ax = [a \in Axes |-> Stopped]
  /\ tx = [a \in Axes |-> <<>>]
  /\ head = [a \in Axes |-> Still]
  /\ lost = [a \in Axes |-> FALSE]
  /\ client = TRUE

\* select() returns after d: on its timeout, or earlier on a readable socket.
Select(d) ==
  /\ pc = "select" /\ pc' = "pump"
  /\ MaySleep(d)
  /\ ax' = [a \in Axes |-> Aged(ax[a], d)]
  /\ UNCHANGED <<link, head, client>>

\* plink_pump.  One call moves a connection at most one step up.
PumpIdle ==
  /\ pc = "pump" /\ pc' = "tick"
  /\ UNCHANGED <<link, ax, head, client>>

PumpConnect ==
  /\ pc = "pump" /\ pc' = "tick"
  /\ status = "DOWN"
  /\ status' = "CONNECTING"
  /\ UNCHANGED <<sock, tx, lost, ax, head, client>>

PumpFinish ==
  /\ pc = "pump" /\ pc' = "tick"
  /\ status = "CONNECTING"
  /\ \/ status' = "UP" /\ sock' = "ok"
     \/ status' = "DOWN" /\ sock' = "none"
  /\ UNCHANGED <<tx, lost, ax, head, client>>

\* End of file, a read error, a failed drain, or PLINK_SILENCE_MS of silence.
PumpLost ==
  /\ pc = "pump" /\ pc' = "tick"
  /\ status = "UP" /\ sock = "broken"
  /\ Disconnect(Nothing)
  /\ UNCHANGED <<ax, head, client>>

\* link_reconcile finds that the link is no longer wanted.
PumpClose ==
  /\ pc = "pump" /\ pc' = "tick"
  /\ "close" \in Faults
  /\ status # "DOWN"
  /\ Disconnect(Nothing)
  /\ UNCHANGED <<ax, head, client>>

\* (defect) the intents are kept for when the link is back
TickDownKeeping ==
  /\ pc = "tick" /\ pc' = "handle"
  /\ status # "UP"
  /\ UNCHANGED <<link, ax, head, client>>
\* jog_tick with the link down: every intent is cleared, no frame is sent.
TickDown ==
  /\ pc = "tick" /\ pc' = "handle"
  /\ status # "UP"
  /\ ax' = [a \in Axes |-> Stopped]
  /\ lost' = [a \in Axes |-> lost[a] \/ Moving(ax[a])]
  /\ UNCHANGED <<status, sock, tx, head, client>>

TickUp ==
  /\ pc = "tick" /\ pc' = "handle"
  /\ status = "UP"
  /\ ax' = [a \in Axes |-> TickState(ax[a])]
  /\ Transmit([a \in Axes |-> TickFrames(ax[a])])
  /\ UNCHANGED <<head, client>>

\* /api/move: refused with 503 unless the link is up.
Move(a, v, g) ==
  /\ pc = "handle" /\ pc' = "select"
  /\ client /\ status = "UP"
  /\ ax' = [ax EXCEPT ![a] = SetState(@, v, g)]
  /\ Transmit(Only(a, SetFrames(ax[a], v, g)))
  /\ UNCHANGED <<head, client>>

\* /api/stop: jog_stop_all, answered ok whatever the state of the link.
StopAll ==
  /\ pc = "handle" /\ pc' = "select"
  /\ client
  /\ ax' = [a \in Axes |-> Stopped]
  /\ Transmit([a \in Axes |-> StopFrames(ax[a])])
  /\ UNCHANGED <<head, client>>

\* No request, or one that does not jog: it may hold the thread for d (popen
\* of polaris-mount, system, usleep) and may find the connection broken.
OtherRequest(d) ==
  /\ pc = "handle" /\ pc' = "select"
  /\ ax' = [a \in Axes |-> Aged(ax[a], d)]
  /\ \/ UNCHANGED link
     \/ status = "UP" /\ sock = "broken" /\ Disconnect(Nothing)
  /\ UNCHANGED <<head, client>>

\* handle() blocks in read() on an accepted connection whose request has not
\* arrived; the descriptor has no receive timeout.
AcceptSilent ==
  /\ pc = "handle" /\ pc' = "reading"
  /\ "stall" \in Faults
  /\ UNCHANGED <<link, ax, head, client>>

ReadWaits ==
  /\ pc = "reading"
  /\ ax' = [a \in Axes |-> Aged(ax[a], 1)]
  /\ UNCHANGED <<pc, link, head, client>>

ReadEnds ==
  /\ pc = "reading" /\ pc' = "select"
  /\ UNCHANGED <<link, ax, head, client>>

Move_(a) == \E v \in Speeds \cup {0}, g \in Gears \cup {0} : Move(a, v, g)
Handle == \/ StopAll \/ AcceptSilent
          \/ \E a \in Axes : Move_(a)
          \/ \E d \in 0..HandleMax : OtherRequest(d)
Pump == PumpIdle \/ PumpConnect \/ PumpFinish \/ PumpLost \/ PumpClose
Tick == TickDown \/ TickUp

\* The browser goes away: tab closed, phone locked, out of range.
ClientVanishes ==
  /\ client
  /\ client' = FALSE
  /\ UNCHANGED <<pc, link, ax, head>>

\* The connection dies under a link that believes it is UP.
Cut ==
  /\ "cut" \in Faults
  /\ sock = "ok"
  /\ sock' = "broken"
  /\ UNCHANGED <<pc, status, tx, lost, ax, head, client>>

HeadReads(a) ==
  /\ sock = "ok" /\ tx[a] # <<>>
  /\ head' = [head EXCEPT ![a] = Obey(@, Head(tx[a]))]
  /\ tx' = [tx EXCEPT ![a] = Tail(@)]
  /\ UNCHANGED <<pc, status, sock, lost, ax, client>>

Next ==
  \/ \E d \in 0..IdleSleep : Select(d)
  \/ Pump \/ Tick \/ Handle \/ ReadWaits \/ ReadEnds
  \/ ClientVanishes \/ Cut
  \/ \E a \in Axes : HeadReads(a)

Spec == Init /\ [][Next]_vars

(***************************************************************************)
(* Fairness.  The server's thread runs; time passes (select is not always  *)
(* woken at once); the head reads a live connection; a broken connection   *)
(* is noticed, at the latest by the silence watchdog.  Nothing says that a *)
(* silent client ever speaks, that a browser stays, or that a connection   *)
(* comes up.                                                               *)
(***************************************************************************)
Fairness ==
  /\ WF_vars(\E d \in 0..IdleSleep : Select(d))
  /\ SF_vars(\E d \in 1..IdleSleep : Select(d))
  /\ WF_vars(Pump) /\ WF_vars(Tick) /\ WF_vars(Handle)
  /\ SF_vars(PumpLost)
  /\ \A a \in Axes : WF_vars(HeadReads(a))

FairSpec == Spec /\ Fairness

-----------------------------------------------------------------------------
(***************************************************************************)
(* Properties.                                                             *)
(***************************************************************************)
TypeOK ==
  /\ pc \in {"select", "pump", "tick", "handle", "reading"}
  /\ status \in {"DOWN", "CONNECTING", "UP"}
  /\ sock \in {"none", "ok", "broken"}
  /\ ax \in [Axes -> AxisState]
  /\ tx \in [Axes -> Seq(Frame)]
  /\ head \in [Axes -> HeadState]
  /\ lost \in [Axes -> BOOLEAN]
  /\ client \in BOOLEAN

\* Once a head doing h has read the first n frames of q, its stream is v ...
IsFast(f) == f.fam = "fast"
FastAfter(h, q, n, v) ==
  \/ h.fast = v /\ \A i \in 1..n : ~IsFast(q[i])
  \/ \E i \in 1..n : /\ IsFast(q[i]) /\ q[i].val = v
                     /\ \A j \in (i+1)..n : ~IsFast(q[j])

\* ... gear g is latched on it exactly if b ...
IsSlow(f, g) == f.fam = "slow" /\ f.val = g
HeldAfter(h, q, n, g, b) ==
  \/ (g \in h.held) = b /\ \A i \in 1..n : ~IsSlow(q[i], g)
  \/ \E i \in 1..n : /\ IsSlow(q[i], g) /\ q[i].on = b
                     /\ \A j \in (i+1)..n : ~IsSlow(q[j], g)

\* ... and altogether it is doing c.
Doing(h, q, n, c) ==
  /\ FastAfter(h, q, n, c.fast)
  /\ \A g \in WireGears : HeldAfter(h, q, n, g, g \in c.held)

Belief(s) == [fast |-> s.speed, held |-> IF s.pressed THEN {WireGear(s.gear)} ELSE {}]

\* What the server believes an axis is doing is what the head will be doing
\* once it has read what is already on its way - for as long as no frame of
\* the axis was discarded and no motion forgotten.  A release left out of any
\* path of jog_set, jog_stop or jog_tick breaks it.
BeliefMatchesHead ==
  \A a \in Axes : ~lost[a] => Doing(head[a], tx[a], Len(tx[a]), Belief(ax[a]))

\* The head never has two presses latched on one axis, nor a press under a
\* running stream ("the slow press stays outstanding underneath the fast
\* stream and survives the stop", jog_set), at any point of its reading.
OneMotionState(c) ==
  /\ \A g1, g2 \in c.held : g1 = g2
  /\ c.held # {} => c.fast = 0
OneMotion == \A a \in Axes : ~lost[a] => OneMotionState(head[a])

\* The stop, and the repeat of a stream, are late by no more than the request
\* that held the loop: the sleep computed by jog_next_deadline_ms never
\* overshoots.  It cannot hold when a silent client may hold handle().
StopOnTime ==
  "stall" \notin Faults =>
    \A a \in Axes : Moving(ax[a]) =>
      /\ ax[a].lease >= -HandleMax
      /\ ax[a].speed # 0 => ax[a].next >= -HandleMax

\* No intent and no frame of one session survives into the next: the loop
\* always runs jog_tick between a link going down and coming up again.
IntentDiesWithSession ==
  [][status # "UP" /\ status' = "UP" =>
       \A a \in Axes : ~Moving(ax[a]) /\ tx[a] = <<>>]_vars

\* The link assumed here is the one polaris-link.c is shown to implement.
Session == INSTANCE LinkSession WITH waiting <- \E a \in Axes : tx[a] # <<>>
ImplementsSession == Session!Spec

\* No client holds the loop in a read for ever (HTTPD:3037 has no timeout).
RequestsArrive == []<>(pc # "reading")

\* "A dead browser therefore STOPS the mount instead of abandoning it in
\* motion" (polaris-jog.h): the server lets go of the axis and, unless frames
\* were discarded, the head comes to rest.
DeadBrowserStops ==
  RequestsArrive =>
    \A a \in Axes :
      ~client ~> ~Moving(ax[a]) /\ (head[a] = Still \/ lost[a])

\* "The link dropping stops every axis too" (polaris-jog.h), and "'there is no
\* link' means it already has" ended (polaris-httpd.c).
LinkLossStops == \A a \in Axes : status # "UP" ~> head[a] = Still

\* "Dropping a frame is bad, but ... the joystick will send another in 100 ms"
\* (polaris-link.c): on a connection that never failed, an axis the server
\* believes idle is at rest once the head has read everything.
DropIsMadeGood ==
  \A a \in Axes :
    status = "UP" /\ sock = "ok" /\ ~Moving(ax[a]) /\ tx[a] = <<>>
      => head[a] = Still

\* "Send the stop even if we believe the axis is already stopped when the link
\* has just come back" (polaris-jog.c): a stop request over a working link
\* sends something to an axis that is moving.
StopSentRegardless ==
  [][StopAll /\ status = "UP" /\ sock = "ok" =>
       \A a \in Axes : head[a] # Still => tx'[a] # <<>>]_vars

\* "jog_tick() must be called from the event loop at least as often as the
\* repeat interval" (polaris-jog.h): a stream is never a whole interval behind.
TickOftenEnough ==
  \A a \in Axes : Moving(ax[a]) /\ ax[a].speed # 0 => ax[a].next > -Repeat
=============================================================================
