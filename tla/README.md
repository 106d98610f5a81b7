# Verification of the Polaris firmware patcher

TLA+ models of the concurrent and timed parts of this repository: the server
that drives the motorised head, the shims that keep a camera alive under a
vendor program, and the shell scripts that start, supervise and restart that
program on the device. TLC checks small instances; TLAPS proves the properties
that matter most for every value of the constants.

## 1. The system

The repository builds patched firmware for a camera head and a set of programs
that run on it. Two groups of components have behaviour worth a model.

### The server on the head (`src/container/astro`)

`polaris-httpd.c` is one thread. A pass of its loop (4824-4917) sleeps in
`select` until the earliest deadline, then runs, always in this order:
`link_reconcile`, `plink_pump`, `jog_tick`, `prog_tick`, `astro_tick`, and then
at most one HTTP request, inline. A request may block the loop: it calls other
programs, or waits in `read` for a client that says nothing. The modules it
calls keep their state in static variables:

| part | state | operations | hard because |
|---|---|---|---|
| `polaris-link.c` | connection, wanted or not, retry delay and time, transmit buffer, last reply per opcode, time of the last byte | open, close, pump, send, get | connect, read and write fail separately; a write can close the link inside any `plink_send`; periodic frames share the buffer with commands |
| `polaris-jog.c` | per axis: speed, gear, pressed, lease, next repeat | set, stop all, tick, next deadline | a dead man's lease against a repeat stream; two motion families of which one latches; results of `plink_send` are ignored |
| `polaris-prog.c` | the one run: kind, counts, poll and silence clocks, paused | start (7 kinds), preview, pause, cancel, tick | the end is read from single-slot replies, which other clients also cause; a poll or a cancel may cross an ack |
| `polaris-astro.c` | active, heartbeat time, tracking | enter, leave, align, track, tick | several orders per operation, a heartbeat the loop may miss |
| handlers in `polaris-httpd.c` | link policy, what is known of the alignment | about 60 endpoints | run between the ticks; LX200 and INDI sessions are forks of the server with a memory of their own |
| jobs: solve, sweep, test solve | a status word, a pid and a result in files | start, cancel, stop, poll, apply | the files are read one by one while the job, a process that outlives the request, writes them |
| `polaris-mount.c` | none that lasts: one process per order | goto with corrections, abort, state, align | several may run at once, each with a connection of its own |
| `polaris-rate-*.c` | plan, active points, time of the last switch | set plan, tick, encode | the axes share a level; the MCU has a dwell time, the head a watchdog |

Parts interact by calls within one thread; the environment is the head over TCP
(and the app, which talks to the same head), browsers, and the clock.

### The camera side on the device (`src/container`)

The vendor's `pgphoto` drives the camera through libgphoto2.

| part | state | operations | hard because |
|---|---|---|---|
| `stage2_loader.c`, shims | terminal error, back-off counter and time, settle time, capture flag, previews disabled | session open, preview, capture, config read | called from threads of the vendor; flags are set and cleared one at a time around camera calls that last seconds |
| `stage2_loader.c`, slots | table of entry points, crash handlers | constructor, config read and write | called while not yet filled; the constructor may give up half way |
| `stage2_ipolar_frames.c` | frame slots, references, generation | publish, borrow, release | one mutex, borrowed frames outlive sessions |
| `camera_usb_supervisor.sh` | baseline and candidate identity, counters, budget, quarantine | poll, restart | the camera changes while a restart blocks the loop |
| `pgphoto.wrapper.in` | lock directory, PID file, back-off record | launch | may run several times at once; becomes `pgphoto` by `exec` |
| `restart_gphoto.sh` | its own lock | stop, wait, launch, verify | races the watchdog, may be killed |

### What makes each part correct

- Link: no command crosses into another session; the head is registered with
  before it is commanded; silence is noticed and only silence; the link comes back.
- Jog: what the server believes of an axis is what the head does; one motion at
  a time; the motor stops when the browser is gone.
- Programmes: the server knows what runs; the end of a run is the run's own end;
  a silent head is reported, and only a silent head.
- Shims: a failing camera is left alone, a dead session says so, nothing of an old
  session marks a new one, frames come in the end.
- Uploads: the head plays the points that were started, or something was lost on the way.
- Jobs: one script at a time, every job can be cancelled and reaches a verdict, a
  solution is applied at the time of its own frame.
- Pointing: what asks the gate never reads the position of an unaligned head (slews and syncs do not ask); a goto
  ends, an abort holds.
- Rate control: the plan averages to the rate asked for, a point lasts its dwell time.
- Loader and frame store: no slot is ever null, no config crashes the vendor's parser,
  the pixels of a leased frame do not change.
- Supervisor and launch: `pgphoto` ends up bound to the camera that stays; one
  `pgphoto`; a crash anywhere is recovered from; launches are paced.

The remaining parts (plate solving, guiding scripts, wifi, the binary patchers,
build tooling, the web interface) are listed with reasons in `PROJECT.json`.

## 2. Modules

| module | models | checked by | proofs |
|---|---|---|---|
| `LinkSession` | the abstract link its users rely on: up, down, whether a command waits | refinement targets | – |
| `PolarisLink` | `polaris-link.c` | `MCPolarisLink` | `PolarisLink_proofs` |
| `PolarisJog` | `polaris-jog.c`, the loop around it, the head's motors | `MCPolarisJog` | `PolarisJog_proofs` |
| `PolarisProgram` | `polaris-prog.c`, the loop, the head's programme | `MCPolarisProgram` | `PolarisProgram_proofs` |
| `AstroSession` | `polaris-astro.c`, the loop, the settings of the head | `MCAstroSession` | `AstroSession_proofs` |
| `CameraShims` | open, preview and capture shims of `stage2_loader.c` | `MCCameraShims` | `CameraShims_proofs` |
| `UsbSupervisor` | `camera_usb_supervisor.sh` | `Services` | `Services_proofs` |
| `CameraLaunch` | `pgphoto.wrapper.in`, `restart_gphoto.sh` | `MCCameraLaunch` | `CameraLaunch_proofs` |
| `LaunchBackoff` | the back-off arithmetic of the wrapper | `MCParts` | `Parts_proofs` |
| `ProgramDrafts` | keyframes, waypoints and the uploads of `polaris-prog.c` | `MCParts` | `Parts_proofs` |
| `RateControl` | `polaris-rate-plan.c`, `-scheduler.c`, `-wire.c`, `-fake-head.c` | `MCParts` | `Parts_proofs` |
| `FrameRegister` | the abstract frame store: the latest frame, and leases | refinement target | – |
| `IpolarFrames` | `stage2_ipolar_frames.c`, `stage2_ipolar_adapter.c` | `MCParts` | `Parts_proofs` |
| `StageTwoLoader` | the constructor, the slots and the config shims of `stage2_loader.c` | `MCParts` | `Parts_proofs` |
| `MountAlignment` | what the server knows of the alignment, and who asks for a position | `MCParts` | `Parts_proofs` |
| `WebJobs` | the background jobs of `polaris-httpd.c` | `Services` | `Services_proofs` |
| `Gotos` | gotos and aborts: `polaris-mount.c` and the handlers that launch it | `Services`, `Gotos` | – |

**Composition.** `PolarisLink` implements `LinkSession`; `PolarisJog`,
`PolarisProgram` and `AstroSession` use a link reduced to what its callers can see, and
that reduced link implements `LinkSession` too. So what the users assume of the link
(a session begins with nothing queued, nothing waits while it is not up, it is
never up without having been connecting) is what the link provides. `UsbSupervisor`
sees the restart as two steps whose insides are `CameraLaunch`; `CameraLaunch` sees
the back-off as a nondeterministic wait whose length is `LaunchBackoff`. `ProgramDrafts`
looks into the uploads of which `PolarisProgram` sees the last order; `Gotos` and
`MountAlignment` split `polaris-mount` into what moves the head and what reads it.

`Parts` and `Services` are not compositions in this sense: they put components that
share no variable next to one another, and a behaviour is about one of them. Their state
space is the union of those of the parts, and a part's properties are those of its own
specification. `Services` has the parts with liveness, each with its own fairness. Both have
the constants of their parts for their own, so the theorems are about `PartsSpec` and
`ServicesSpec` for every value of them; `MCParts` and `Services.cfg` give the small ones.

### How state and actions correspond to the code

`PolarisLink`. `status`, `want_open`, `tx`, `toTry` (from `g_next_try_ms`),
`backoff` (`g_backoff_ms`), `sinceReg`, `sinceBeat` and `sinceRx` are the static
variables; times are counted down or up instead of compared. `wire` and `rx` are the
connection, `greeting` what the head has made of it, `quiet` and `mute` for how long it
said nothing. `PumpTry`, `PumpRefused`, `PumpUp`, `PumpReadFails`, `PumpServe` and
`PumpSilent` are the branches of `plink_pump`, `Send` is `plink_send` with its
drain, `Drop` is `drop`, and `WriteFault` the error branch of `tx_drain`, which
closes without `drop`. The buffer holds frames; a write takes any number of them
and leaves the rest.

`PolarisJog`. `pc` is the stage of the pass; `ax` is `g_ax`; a call is reduced to
the frames it emits and the state it leaves (`FastFrames`/`FastState` and so on),
`Transmit` is `plink_send` for each. A frame that does not fit is dropped and
`lost` remembers it. `head` obeys frames in order: a stream holds until changed, a
press latches until its release. `ReadWaits` is the `read` without a timeout.

`PolarisProgram`. `g` is the record of the run, `news`/`fresh` the reply slot and
the `seen` counts, `rx` the socket, `head` the run on the head. `DoneStep`, `Op` and
`Polled` are the table `wire_for`. `Begun` is `begin`, `Absorbed` and `Ends` are
`absorb_reply`, `Watched` the stale test. Orders are records, never text.

`AstroSession`. `a` is `A` (with `next` for `next_ahrs_ms`, relative to now); what an
operation sends is a sequence of orders (`EnterOrders`, `LeaveOrders`, `TrackOrders`), and
`Transmit` sends them one by one, the last result being the one the code looks at.
The head is four settings that each hold until set again; `Belief` is what they must be for
the page to be right. The server may start on a head that was left in use, and `lost`
says then, or once an order or a session was dropped, that the head is no longer what the
server thinks: a dropped order is not made good.

`CameraShims`. A store to a variable that another thread stores to as well is a step of
its own, and so is a read that another thread may change under the reader; a camera call is two (it begins, it
returns). Merged are the flags only the preview thread raises, when it reads them in a row, and stores that only it
reads back. A preview is on its way to the camera (`Gates`: the flags, the look at the settle window, the two stores
that sweep it, the pace), in it (`InCamera`), or at the failure budget, whose counter it reads in one step and stores in
another (`Counting`). `overlap`, chosen at the start,
allows previews while a session is opened; `Guarded` is the configuration of the capture guard. `raced` remembers
that a preview was past the settle check while the window was armed, `hidden` that an answer was not the error
of which the session died.

`UsbSupervisor`. A poll is one step, since nothing else writes its variables; the
restart in it is two, between which the camera may come and go. The identity is a
number that grows with every attachment. `bound` is what `pgphoto` opened, at any time after
its start; `absorbed` remembers that the startup grace took a change for its baseline after `pgphoto` had opened
the camera. `SupervisorSettles` of the run is its `Settles`.

`ProgramDrafts`. A behaviour is about a free programme, a path-lapse or holy grail, whose
stores share nothing but the link. `points` is `g_keys` or `g_wp`, `slot` the last answer to 517,
`active` the run (or `g_grail_on`). An upload is a batch of frames handed to `plink_send` one by one:
`Accepted`, `Broken` (a write fails, the link closes, the head may have read any part),
`Holed` (a frame does not fit, a shorter one after it does) and, for holy grail, `CutShort`.
`draft` and `does` are the head, `meant` remembers what it was last told completely. What the head has after
some frames is not computed one frame at a time: `DraftAfter` and `DoesAfter` say which frame decides (the last one
that writes a point, the last that opens, ends, starts or cancels), which is what can be proved about.

`RateControl`. `plan`, `active`, `since` (from `last_switch_s`), `phase` (from
`cycle_start_s`) and `stopSent` are the scheduler; `moving` and `silent` the fake head.
`RatePlan` is the planner as an operator, with the rates as whole numbers of 0.0001 degree
per second and the duty as a fraction; `Tick` is a scheduler tick and the delivery of all it
emits, `Pass` the clock in steps of 25 ms, of which all four intervals are multiples.

`IpolarFrames`. Each function of the store is one step. What it does outside the mutex does not
show: the flag `initialized`, read before the lock, is read again under it, and the buffers that `destroy` frees after
the unlock are those of a store that is down and not leased. Left out is a thread that waits for the
mutex while it is destroyed. A reader's look at its pixels (`Seen`) is outside. A frame is
its number. `build` tells the buffers of one `init` from those of the next; `wiped` remembers an
`init` that cleared the counts of a store still leased, which the code allows after an exit that a lease refused.

`StageTwoLoader`. `at` is the place of the constructor, `slot` what each slot holds;
one symbol stands for each kind (with a shim of its own, shimmed in a mode, plain). `site`, chosen at the
start, is what this boot finds: libraries, symbols, address space and variables of the environment.
`Fatal` is a call through any slot at any moment. The config shims keep nothing, so their answer
is one record: whether a widget is given, which of the helpers that read and free widgets are resolved, and how many
widgets are left (`live`). Without `gp_widget_free` the caller is given none and the widget of the library is lost.

`MountAlignment`. `log` is the last 284 line still in the log, `memory` the `g_last_track` of the server
and of its two forks, `file` the `TRACK_FILE`; `Known` is `alignment_state`, `Note` is
`note_track`. Every handler that asks the gate is an action of its own, and `readAt` is the state of the head at
its last read; the slews and syncs of Alpaca, LX200 and INDI and the hint of a solve read without asking, and `ungated` is
the same for them.

`WebJobs`. `status`, `pidfile`, `result` and `epoch` are the files, `wrapper` the doubly forked
process and `script` what it runs in `system`. A request reads the status (`Ask`) and
acts in a second step. `loose` becomes true when a request fell into a window in which the
pid on file is not that of the job (the job writes it itself, after the request was answered, and
removes it after its verdict), when a job died without its script, or when a running sweep was stopped.

`Gotos`. `stage` is how far each `polaris-mount goto-radec` is, `moving` which of them the
head executes, `slewPid` is `g_slew_pid`, `busy` the process that waits in `run_capture`.

`CameraLaunch`. Every `mkdir`, read, test and `rm` of the two scripts is a step of
its process. `exec` keeps the process id. A second is long enough to write the
pid file, which is what the scripts' own sleeps assume. `watchdog`, chosen at the
start, says whether the app launches wrappers of its own. After a KILL the old process is `dying` until the
kernel has ended it: the helper looks only at the port. `orphaned` remembers that a helper was interrupted (TERM, HUP, INT:
its trap removes the restart lock) while the wrapper it had launched was on its way to `pgphoto`.

`LaunchBackoff`. The record is its `COUNT` and its age; `ClockSet` is the device getting the time, after which the
record may be of any age, or of a time to come. A record that is malformed, old or of the future does not count.

## 3. What TLC checks

| run | size | shows |
|---|---|---|
| `jog_live` | one axis, all speeds and gears, two frames; 390 thousand | `BeliefMatchesHead`, `DeadBrowserStops` |
| `link` | delays 1-2, silence 1, three frames; 102 thousand | `RegisteredBeforeCommand`, `ImplementsSession`, `SilenceNoticed`, `Reconnects` |
| `prog_safety` | a counting, a pausable and a polled kind, two runs; 2.8 million | `ServerKnows`, `EndedByItsOwn` |
| `prog_live` | six kinds, one run, cuts, silence and acks; 184 thousand | `StaleMeansSilent`, `EndNoticed`, `SilenceTold` |
| `astro` | push every 3, sleep 2, requests up to 1, three orders; 4 million | `HeadIsAsAsked`, `TracksInItsMode`, `PushRearmed` |
| `shims` | one preview, one capture, session opens at any time or on the thread of the previews; 1.1 million | `TrafficBounded`, `SettleRespected`, `TerminalSurfaces`, `LeakFree`, `FrameComes` |
| `launch` | three process ids, two alive, one fault, one restart; 644 thousand | `OneOwner`, `ServedAgain` |
| `parts` | seven components side by side; 981 thousand | `TypesOK`; jog: `StopOnTime`; back-off: `StartsBounded`; rates: `PlanSound`, `HeadFollows`, `DwellKept`; frames: `ImplementsRegister`; loader: `FailsClosed`, `ConfigSafe`; alignment: `NoReadUnaligned`; drafts: `HeadHasUploads` |
| `services` | three services side by side; 183 thousand | supervisor: `ContentMeansBound`, `RestartsSpaced`, `SupervisorSettles`; jobs: `OneScript`, `RunningIsReachable`, `AppliedAtItsFrame`, `JobsEnd`; gotos: `GotosEnd` |
| `jog_link_loss` | violated | `LinkLossStops` |
| `launch_live_lock` | violated | `LiveLockKept` |
| `goto_abort` | violated | `AbortHolds` |

A property that is proved for every value of the constants and needs no second opinion is not
in this table but in section 4. `TypeOK` is such a one: `parts` checks it for its seven
components at once (`TypesOK`), the other modules with proofs have it as a theorem.

Every definition whose comment begins with `(defect)` is a plausible bug; `PROJECT.json` pairs each with the property that
finds it. They are used by no specification.

**Bounds.** Times are in units in which the code's constants keep their order
(repeat < lease, heartbeat < silence, poll no longer than stale); clocks stop at
the largest value a comparison can tell apart, so the bound on a clock loses no
behaviour. Buffers of one to three frames are full after one operation, which
is the interesting case. The jog in `parts` needs two axes (the earliest of two deadlines) but only one
speed; `jog_live` needs all families and gears but only one axis, since axes share
nothing but the loop and the link. In `astro` the push is due after two sleeps, a request can
delay it beyond its time, and a buffer of three orders takes an operation but not two.
`MaxRuns = 2` is enough for a reply of one run to reach the
next; `prog_live` has one (three of its kinds were also checked with two runs: 2.1 million states). It leaves
out two ends, for which `EndNoticed` is refuted (section 5): a free programme that fails, and a sun run that ends without its
field. `shims` has three failures, an interval of 2 and 5 seconds to settle, as shipped, and a cooldown of 8 seconds
for 30: it is only longer than everything else. One fault in `launch` leaves one lock behind, and what recovers from it is
itself interleaved with another wrapper.

In `parts` and `services` the back-off and the supervisor have the shipped numbers. The scheduler
has one axis, since axes share only the planner's level, and four targets (negative, zero to hold or to
stop, below the slowest point, on it); the planner is checked on every pair of 15 rates at the edges
of its ladders, held or not. The frame store has its three buffers and three readers, so that all can be
leased, four frames, three sessions and two builds. The loader has all combinations of what a
boot may find. The drafts have two points, the least that can be started, and a buffer of four
frames: an upload just fits, and one behind anything else does not. They have one pose, since the points are told
apart by their number. Two jobs of a kind are what overlaps, with one crash; two gotos are one that moves the
head and one that interferes, with as many corrections as tell the bound from none.

**Deadlock** is checked except in `parts`, `services` and `goto_abort`, where the processes end and
the bounds may end a behaviour, and in the launch runs, where nothing is left to do once
nobody launches: with the watchdog away and no restart called the device really
stays without a `pgphoto`.

**Fairness.** The loop, the scripts and the threads go on (weak fairness of each step): they wait only for what is
modelled as a step. The kernel ends a process that was sent KILL in the end. The head reads what it was sent and
shoots unless it is silent; a connection attempt has some outcome. Strong fairness is used where the environment may
interfere for ever: `select` does not return at once every time (time passes), a connection that broke is noticed in
the end, as the watchdog of `PolarisLink` makes sure, and a restart that is tried for ever opens the camera and works
in the end, without which nothing could be said of recovery. `Reconnects` assumes no luck: it speaks of a head that
stays in reach. A job and a goto go on because every wait in them is bounded (`wait_for`, `WAIT_FOR_FRAME`); the
events that cut them short are not assumed. A request that never arrives is not excluded by fairness:
`DeadBrowserStops` states its absence as an assumption (`RequestsArrive`), because the code has no timeout there. In
the same way `FrameComes` assumes that the session is well and no init is under way, and `ServedAgain` that there is a
watchdog.

## 4. What is proved

All constants are arbitrary but for the named assumptions of each module: the
ranges of speed and gear positive and ordered, timings positive and the bound on
lateness above the longest request (`PolarisJog`, `AstroSession`), delays ordered and a buffer that
takes a registration, a heartbeat and a command (`PolarisLink`), times and limits that
are positive (`PolarisProgram`, `CameraShims`, `UsbSupervisor`), bounds that are natural
numbers and a `None` that is no process id (`CameraLaunch`). In `Parts`: five launch delays that
grow, none beyond the two minutes that reset them, and the last of them twice with the other
three no shorter than that (`BackoffAssumption`; as shipped 5 + 10 + 30 + 60 + 60 >= 120 seconds); rates that
are whole units (`RateAssumption`); a finite set of readers, and slots that have a first (`StoreAssumption`);
bounds that are numbers (`DraftsAssumption`, and `JobsAssumption` in `Services`). `RestartsSpaced` alone has a
hypothesis in its theorem (below). The conditions under which other properties hold (`~overlap`, `~raced`, `~watchdog`,
`~orphaned`, `~absorbed`, `~wiped`, `~clockSet`, `~loose`, `~lost`) are part of the property, and section 5 lists what
fails without them.

Every proved property was first checked by TLC. Of those, the runs keep the ones a small instance
adds something to; proved and no longer in a run are `OneMotion`, `IntentDiesWithSession`,
`NoStaleCommand`, `WatchdogWaits`, `OpenAsAsked`, `RunDiesWithSession`, `PollPaced`,
`SessionEndsWithLink`, `RestartsDebounced`, `OldGone`, `LeasedBytesKept`, and `ImplementsSession`
of the jog, the programmes and the astro session.

`PolarisJog_proofs`. The head is behind the server by what is in the buffer, so
`BeliefMatchesHead` says that the head's state followed by the frames in the buffer is
the belief. The recursion over the buffer is avoided by naming the last frame that
decides a motion (`Doing`). The property is not inductive: the head reads one frame
at a time. `Trusted` says the same of every prefix of the buffer, that each leads to a
state with one motion, and `Coherence` that a record of an axis never holds two. Lemmas show
that each path of `jog_set`, `jog_stop` and `jog_tick` emits frames that lead from the old belief to the new through
such states. `BeliefInv` puts them together. `SessionInv` (no axis moves while connecting after the tick) gives
`IntentDiesWithSession`; `TimeInv` bounds every clock stage by stage of the pass
and gives `StopOnTime`.

`PolarisLink_proofs`. `TxInv` (what the buffer may hold in each state, and that a registration stands before every
command) gives `NoStaleCommand` and `RegisteredBeforeCommand`. A pass of the pump writes up to three times, before,
between and after the registration and the heartbeat it queues, and any write may stop anywhere (`DrainQueue`).
`ClockInv` (the receive clock runs ahead of the head's silence only by a frame not yet read) gives `WatchdogWaits`.
`OpenAsAsked`, that the link is wanted exactly when policy last asked for it whatever failed, is proved only.
`LinkImplementsSession` is the refinement.

`PolarisProgram_proofs`. `PollInv` ties the poll clock to the time since the last
poll, `QuietInv` the silence clock to the head's silence (but for a message the
next tick absorbs), `SessionInv` is as in the jog. They give `PollPaced`,
`StaleMeansSilent` and `RunDiesWithSession`, and the refinement.

`ServerKnows` and `EndedByItsOwn` need to know what every order and every message still under way
is about. `RunInv` (`RunsAgree`) says so of the record of the server, the run of the head, the
orders in `tx`, the messages in `rx` and the reply slots at once: programmes are begun in the order of
their numbers, all above the one the head is on (`RunsIn`); under the number of a run the head does, or will
do, what the server started (`KindIn`); no message speaks of a run the head has not begun (`HeardIn`); and a
message that says the run the head is on is over is right (`RightIn`). `AgreeReads`, `AgreeStarts` and
their neighbours say what each kind of step does to it. It gives `EndedByItsOwn`. For `ServerKnows`,
`KnowsInv` says that the head, after the orders under way (`HeadAfter`: the last one that begins, and what
was cancelled or paused behind it), does what the server tracks.

`AstroSession_proofs`. The head is behind the server by the orders in the buffer.
`AsAsked` says that once it has read them it is set as the session asks; that is not
enough for `TracksInItsMode`, which speaks of every moment of the reading, so `Ordered` says
of each prefix of the buffer that it ends in mode 8 or without tracking. `AppendEnd` and
`AppendOrdered` say what one more order does to the two, `ReadAsAsked` and `ReadOrdered`
what reading one does, and a lemma for each operation (`EnterQueues` to `LeaveQueues`)
adds up its orders. `PushInv` (time since the push plus time to the next is at most
`AhrsEvery`) and `LateInv` (how late the push can be at each stage of a pass) give
`PushRearmed`; `SessionInv` gives `SessionEndsWithLink` and the refinement.

`CameraShims_proofs`. `Spared` and `Settling` tie each deadline the code keeps to
the time that passed, for any interleaving and any number of capturing threads. `Spared` follows the counter also while
the preview thread holds it in a register. `Settling` says that who is past the look at the window found it over; it
holds until a preview races with the arming (`raced`), and one that does may sweep the new window away.
`OneThread` says where a preview can be while a session is opened; it holds
when `overlap` is false, and so do the two properties that need it. They give `TrafficBounded`, `SettleRespected`,
`TerminalSurfaces` and `LeakFree`.

`Services_proofs`, the supervisor. An identity that left the bus never returns (`BusInv`), because the
kernel numbers attachments; so one that the supervisor holds and that is still on the bus
was there all the time since it was read. `BoundInv` concludes that `pgphoto` opened that
one, for the baseline and for the target of a restart under way, and gives
`ContentMeansBound`. The exception is a change that the startup grace absorbed when `pgphoto` had the camera open
already: then the baseline is right and `pgphoto` keeps a device that has gone (`absorbed`, section 5). `SupervisorSettles`
has the same exception. `PollsInv` ties the debounce counters to the polls that really read the
identity and gives `RestartsDebounced`; `SpaceInv` ties them to the polls since the last
restart and gives `RestartsSpaced` if `RetryPolls >= Cooldown`, which holds as shipped (5
and 5). No other relation between the thresholds is assumed.

`CameraLaunch_proofs`. A step of a process moves it alone, and only a launch brings one to
life, under a process id that no file and no helper remembers (`Moves`). So what a helper
found gone stays gone: `OldInv`, which gives `OldGone` for any number of helpers, wrappers,
calls and faults. Gone is either ended, or sent KILL and without its listener: a process may take its time to die,
and the helper does not wait for it. `OneOwner` says that without the watchdog one `pgphoto` lives, those that die
not counted, as long as no helper was interrupted while its wrapper was on its way. It is not
inductive, since a second wrapper breaks it only later: `AloneInv` says that one
process of any kind lives and, for each stage of a helper, which one it may be (what it
replaces, nobody, what it launched); `HelpersInv` that the restart lock admits one helper
even after one was killed; `RecordedInv` that the PID file names the living `pgphoto` while another is dying, so that the
next helper does not take the dying one for it; `PromptInv` that a launch by a helper finds no back-off record
and so does not outlive its verification asleep.

`Services_proofs`, the jobs. `Tied` says that one wrapper of the kind is alive at most, that the status says so, that the
pid on file is its own from the moment it is written, and that a request in progress which
read the status before the job started cannot have been answered after: that is what makes `OneScript` true although
the check and the launch are two steps. `FrameTied` says that a solution that can be read is
that of the epoch on file and that no job is left to replace either before the request is
answered; it gives `AppliedAtItsFrame`. Both hold until a job escapes its files (`loose`).
TLC checked `JobInv` with three jobs before it was proved; the run has two.

`Parts_proofs` takes one component after the other. Every step of `Parts` is a step of the
component or leaves it alone (`AlignmentSteps`, `LoaderSteps`, ...).

The alignment. `AlignmentInv`: while the head is unaligned every trace of an alignment (log,
track file, memory of each process) says so or nothing. So the gate, which goes by one of them,
does not let a read pass (`NoReadUnaligned`). That is all it says: the reads that do not ask the gate do reach an
unaligned head (`NeverReadUnaligned`, section 5). As for the steps: the actions that align the head are the ones
that may leave a stale "unaligned" behind, which is harmless.

The loader. How far the constructor is says what the slots hold (`LoaderInv`), also while threads call; it gives
`FailsClosed`. `ConfigSafe` is a property of each answer: what is given is a
whole copy, and no widget is left over if the library can free one.

The rates. `PlanSound` is about operators: the level carries every axis and none below it does (`LevelCarries`), and
the two points of an axis are neighbours of the ladder that average to exactly the rate, in fractions
(`BracketAverages`). `RateInv` says of the scheduler and the head that what moves is what was last commanded, and that
the head's lease of an axis is no younger than the scheduler's dwell; it gives `HeadFollows` and `DwellKept`.

The frame store. It is a register with leases because nobody writes under a
reader. `CountInv` says that a buffer counts exactly the views on it, a cardinality
that each `Acquire` and `Release` moves by one; so the buffer a frame is filled into has no reader
(`Uncounted`). `LeaseInv` says that no view outlives the store it is of, which teardown is
refused for, and `PublishedInv` that what is published is a frame that came, older than the next one. Together they give
`LeasedBytesCorrect`, and each step of the store maps to a step of `FrameRegister`: a publish is one, also when
it drops the frame (a stutter); an end of session or a teardown is `EndSession`. The two invariants of the leases, the
theorem and the refinement hold until an `init` wipes the counts of a store that is still leased (`wiped`). The
code does not prevent that, and `LeasedBytesAlwaysKept` is false (section 5).

The back-off. `StartsBounded` counts starts in a window, but the state of the script has only the last `COUNT` and the
age of the record, and both forget. `BackoffInv` therefore says that there are true ages of the last five starts and
of the last launch (an existential: they are not in the state) such that what is in the state fits them, until the
clock of the device is set and the age is no age any more (`clockSet`): with `COUNT` c the last start waited
`Delays[c]` after the one before it, that one `Delays[c - 1]`, and the first of the row came a whole `Stable` after
its predecessor. A sixth start in the window would have to follow five such waits, which is what `BackoffAssumption`
rules out (`BackoffLaunch`, `BackoffStart`, `BackoffTick`).

The drafts. `Told` is `HeadHasUploads` with the frames still under way read: what the head will play is what was
meant. `UploadPlays` shows that a whole upload makes the head play exactly its points in their order, whatever draft
it had; `ReadOne` that reading one frame changes nothing of what it will play; `LostTypes` that each way to lose a
part makes `meant` unsure.

The types. `TypesCorrect` adds to these what they leave out: that a plan is made of whole
numbers and its level is one of the table (`PlanTyped`), and that the counters of the frame store keep
to their bounds (`BoundsStep`).

Model-checked only: everything under fairness (`DeadBrowserStops`, `SilenceNoticed`,
`Reconnects`, `EndNoticed`, `SilenceTold`, `FrameComes`, `SupervisorSettles`, `ServedAgain`,
`JobsEnd`, `GotosEnd`), which the prover cannot reach. Every invariant, every action property and every refinement
a passing run checks is a theorem as well.

## 5. Known disagreements

Places where a comment, header or test says one thing and the code does another.
Three have a run. The others are stated in the modules and found by TLC with the
constants of the run named, changed as shown.

| property | says | why it fails | module, constants |
|---|---|---|---|
| `LinkLossStops` | `polaris-jog.h`: the link dropping stops every axis | intents are cleared without a frame; the head keeps a latched press or a stream | run `jog_link_loss` |
| `LiveLockKept` | `SKILL.md:750`: live-owner locks are preserved | the owner is a shell until after it gave the lock back, and only `pgphoto` counts | run `launch_live_lock` |
| `AbortHolds` | `docs/ASTRO.md:1042`: abort works during a slew | a goto sends its moves itself; the abort neither ends it nor waits for it | run `goto_abort` |
| `DropIsMadeGood` | `polaris-link.c`: the joystick sends another in 100 ms | a dropped release is not sent again | `PolarisJog`, `jog_link_loss` with `Faults = {}` |
| `StopSentRegardless` | `polaris-jog.c`: send the stop even if the axis is believed stopped | nothing is emitted for an axis believed stopped | `PolarisJog`, as `jog_link_loss` |
| `TickOftenEnough` | `polaris-jog.h`: the tick is called at least every repeat interval | a request holds the loop | `PolarisJog`, `HandleMax = 2`, `LateCap = 3` |
| `DeadBrowserStops` without `RequestsArrive` | `polaris-jog.h`: a dead browser stops the mount | a silent client holds `read` | `PolarisJog`, as `jog_live` |
| `NoRetryStorm` | `polaris-link.c`: back-off, not a retry storm | a write error closes without the delay | `PolarisLink`, `MayFail = {"write"}` |
| `DelayGrows` | `polaris-link.c`: the delay resets on a successful registration | it resets on connect | `PolarisLink`, `BackoffMax = 4` |
| `TotalSilence` | `polaris-link.h`: total silence | an echo of the own heartbeat is eaten before the clock is set | `PolarisLink`, `MayFail = {"echo"}` |
| `RegistersFirst` | `polaris-link.h`: up means registered | a heartbeat or a full buffer can precede the registration | `PolarisLink`, `MayFail = {"write"}`, `RegEvery = 3`, `BeatEvery = 1`, `Silence = 2` |
| `CompleteMeansDone` | `polaris-prog.c`: do not call a stalled run complete | a late ack of the run before ends it | `PolarisProgram`, `Kinds = {"lapse"}`, `May = {"ack"}` |
| `StopsWhateverRuns` | `polaris-prog.h`: stop whatever is running | after a reconnect the run is forgotten and cancel sends nothing | `PolarisProgram`, `May = {"cut"}` |
| `WakesForWork` | `polaris-prog.h`: until the tick next has work | a kind that is not polled has a deadline that stays past | `PolarisProgram`, `Kinds = {"hdr"}` |
| `EndNoticed`, `sun` | `polaris-prog.c:77` | an end without its field is not recognised | `PolarisProgram`, `Kinds = {"sun"}`, `May = {"bare end"}` |
| `EndNoticed`, `plc` | as above | a failed free programme ends with a step no rule names | `PolarisProgram`, `Kinds = {"plc"}`, `May = {"fail"}` |
| `LeavingStopsTracking` | `polaris-astro.h:19`: leaving stops tracking first if needed | a lost link or a restarted server forgets the tracking; the next leave sends no stop | `AstroSession`, `astro` |
| `LeakFree` with `overlap` | session flags belong to a session | a preview of the old session returns after the new one cleared them | `CameraShims`, `shims` without the condition `~overlap` |
| `CodeKept` | `stage2_loader.c`: keep returning the original class | the flag is set before the code | `CameraShims`, as above |
| `CooldownEarned` | `stage2_loader.c`: any other result resets the counter | transient errors leave it | `CameraShims`, `Capturers = {}`, `Guarded = FALSE` |
| `SettleAlways` | `stage2_loader.c:707`: inside the window, busy instead of traffic | a preview past its look at the window goes through, and may sweep a window armed meanwhile | `CameraShims`, as `shims` |
| `ContentAlways` | `test_camera_usb_supervisor.sh:156`: not left bound to a stale camera | a change in the grace after `pgphoto` opened the camera becomes the baseline | `UsbSupervisor`, as in `services` |
| `OneProcess` | `restart_gphoto.sh:2`: single-owner restart helper | after the KILL only the port is looked at; the old process may not have ended | `CameraLaunch`, `Helpers = {h1}`, `MaxAlive = 3`, `MaxFaults = 1`, `MaxCalls = 2` |
| `OneOwnerInterrupted` | as above | the trap removes the restart lock while the wrapper goes on; the next call launches another | `CameraLaunch`, as `launch` with `MaxCalls = 2` |
| `RefusesOnlyRaces` | `camera_usb_supervisor.sh:41`: refused if a restart is in progress | a killed helper leaves its lock for good | `CameraLaunch`, `launch` |
| `SurvivorResets` | `pgphoto.wrapper.in:108`: two minutes of life reset the delays | the age is measured from before the delay | `LaunchBackoff`, constants as in `MCParts` |
| `StopEndsSweep` | `polaris-httpd.c:3815`: POST stop=1 aborts one | the signal goes to the wrapper, not to its group; the sweep goes on | `WebJobs`, `MaxJobs = 1`, `MaxCrashes = 0` |
| `LeasedBytesAlwaysKept` | `stage2_ipolar_adapter.c:112`: preserve state while consumers still lease | init after a refused exit clears the counts of a store that is still leased | `IpolarFrames`, as in `MCParts` |
| `NeverReadUnaligned` | `docs/ASTRO.md:1099`: mount untouched while unaligned, 0 connections | slews, syncs and the hint of a solve read the pose without asking the gate | `MountAlignment` |
| `PoseIsCurrent` | `polaris-prog.h:276`: the head's CURRENT pose | the pose is that of the last poll, at most five seconds ago, or of an earlier link | `ProgramDrafts`, `Poses = {p1, p2}`, `MaxPoints = 2`, `TxCap = 4` |

## 6. Not modelled, and why

Text: the format of orders, JSON and pages, field validation. Floating point: plate solving,
star extraction, the pointing model, coordinates, the sun times; a model of them would be a second
program, and TLC has no reals. Files written once: install, restore, the binary patchers and the
build. The loops of the guide, alignment, goto-solve and wifi scripts: each measures, calls another program and
sleeps, and what they share with the server (gotos, the solve job, the track file) is modelled from the
server's side. Of the server: discovery, catalogues, settings, status pages, the cameras that INDI and
Alpaca expose, and the guide pulses of INDI, which start and stop an axis by two processes. The starshoot
adapter keeps no frames.

Known limits of what is modelled: process ids are not reused in `WebJobs`; the page's goto that solves and recenters
is one goto; another client of the head (the app, which may start and stop programmes of its own and answers to which
fill the same slots) is not modelled in `PolarisProgram`; the clock of the device is set once; the watchdog does not
restart `pgphoto` behind the supervisor; the preview of a path-lapse and the photo track of a free programme are
frames like the others.

## 7. Plan

1. Proofs: the types of `WebJobs` and `Gotos`; an invariant of `Gotos` that bounds what is left of a goto, the
   safety behind `GotosEnd`; and abstract specifications still to be stated and implemented: one job with a
   verdict for the files of `WebJobs`, an upload that is one message for `ProgramDrafts`.
2. The guide, goto-watch and frame-watch scripts as a queue with lost and late results.
3. A composition of link, jog, programme and astro session over one loop, with their
   separate modules as refinements; as separate specifications they have up to four million states each,
   so this needs a coarser loop.
