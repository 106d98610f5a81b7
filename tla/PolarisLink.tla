---------------------------- MODULE PolarisLink ----------------------------
(***************************************************************************)
(* The one long-lived connection to the control port of the head:          *)
(* container/astro/polaris-link.c, and link_reconcile of polaris-httpd.c   *)
(* that opens and closes it to match policy.                               *)
(*                                                                         *)
(* The event loop calls link_reconcile, plink_pump and the users of        *)
(* plink_send in a fixed order; here they may come in any order and with   *)
(* any time between them, so nothing depends on how long a request holds   *)
(* the loop.  A frame is a unit: the buffer keeps the bytes of a partly    *)
(* written one in place, so frames are never reordered or torn.            *)
(***************************************************************************)
EXTENDS Integers, Sequences

CONSTANTS
  BackoffMin, BackoffMax,  \* BACKOFF_MIN, BACKOFF_MAX, in time units
  RegEvery, BeatEvery,     \* REREGISTER_MS, HEARTBEAT_MS
  Silence,                 \* PLINK_SILENCE_MS
  TxCap,                   \* bound: frames the transmit buffer holds
  MayFail                  \* which of "write", "echo" the run allows

ASSUME TimesAssumption ==
  /\ BackoffMin \in Nat \ {0} /\ BackoffMax \in Nat /\ BackoffMin <= BackoffMax
  /\ RegEvery \in Nat /\ BeatEvery \in Nat /\ Silence \in Nat
ASSUME TxAssumption == TxCap \in Nat /\ TxCap >= 3 /\ MayFail \subseteq {"write", "echo"}

VARIABLES
  wanted,     \* link_wanted(): the mount is aligned, or the user insists
  asked,      \* the last answer link_reconcile acted on
  want_open,  \* g_want_open
  status,     \* g_status; the descriptor is open exactly when it is not DOWN
  tx,         \* g_tx: frames queued and not yet written
  toTry,      \* g_next_try_ms - now, 0 when due
  backoff,    \* g_backoff_ms
  sinceReg, sinceBeat, sinceRx,  \* now - g_last_reg_ms, g_last_hb_ms, last_rx_ms
  net,        \* the head's control port can be reached (environment)
  wire,       \* the TCP connection: none, pending, refused, up, reset
  rx,         \* what lies in the socket unread: nothing, an echo, a frame
  greeting,   \* what the head has made of the frames of this connection
  quiet,      \* history: time since the head last sent a byte, or connected
  mute,       \* history: time since the head last sent a frame, or connected
  failures,   \* history: failures since the head was last heard from, to 2
  sinceEnd    \* history: time since a connection or an attempt last failed

policy == <<wanted, asked, want_open>>
timers == <<sinceReg, sinceBeat, sinceRx>>
retry == <<toTry, backoff>>
history == <<quiet, mute, failures, sinceEnd>>
vars == <<policy, status, tx, retry, timers, net, wire, rx, greeting, history>>

Capped(t, cap) == IF t > cap THEN cap ELSE t
Limit == BackoffMin  \* sinceEnd is compared with nothing longer
Ages(t, cap) == Capped(t + 1, cap + 1)

(***************************************************************************)
(* The head: what it makes of the frames of one connection (external).     *)
(***************************************************************************)
Greetings == {"nothing", "registered", "early beat", "late", "early command"}
Unregistered(g) == g \in {"nothing", "early beat"}

CommandFirst(frames) ==
  \E i \in 1..Len(frames) :
    frames[i] = "cmd" /\ \A j \in 1..(i-1) : frames[j] # "reg"

Heard(g, frames) ==
  IF ~Unregistered(g) \/ frames = <<>> THEN g
  ELSE IF g = "nothing" /\ frames[1] = "reg" THEN "registered"
  ELSE IF CommandFirst(frames) THEN "early command"
  ELSE IF \E i \in 1..Len(frames) : frames[i] = "reg" THEN "late" ELSE "early beat"

(***************************************************************************)
(* Ending a connection.                                                    *)
(***************************************************************************)
\* The descriptor is closed.
Closed == status' = "DOWN" /\ wire' = "none" /\ rx' = "nothing"
Failed == failures' = Capped(failures + 1, 2) /\ sinceEnd' = 0

Delay == toTry' = backoff /\ backoff' = Capped(2 * backoff, BackoffMax)

\* (defect) the buffer outlives the connection
DropKeepingTx == Closed /\ tx' = tx /\ Delay /\ Failed
\* drop: the connection failed; wait, and wait longer the next time.
Drop == Closed /\ tx' = <<>> /\ Delay /\ Failed

\* (defect) a write fault is taken for a request to close
WriteFaultClosing(left) == Closed /\ tx' = left /\ want_open' = FALSE /\ Failed
\* tx_drain met an error: plink_close, then g_want_open = 1.  No delay is set.
\* What the caller queues after that, on a link that is DOWN, stays in g_tx.
WriteFault(left) == Closed /\ tx' = left /\ want_open' = TRUE /\ Failed

\* (defect) the buffer has no end
QueueUnbounded(q, frames) == q \o frames
\* tx_queue: a frame that does not fit is dropped.
Queue(q, frames) == SubSeq(q \o frames, 1, Capped(Len(q) + Len(frames), TxCap))

\* tx_drain on q, to a head that has heard g: some of it is written, the rest
\* stays for the next time.
DrainTo(q, g) ==
  \E n \in 0..Len(q) :
    /\ tx' = SubSeq(q, n + 1, Len(q))
    /\ greeting' = Heard(g, SubSeq(q, 1, n))
Drain(q) == DrainTo(q, greeting)

If(c, frames) == IF c THEN frames ELSE <<>>

-----------------------------------------------------------------------------
Init ==
  /\ wanted \in BOOLEAN /\ asked = "unset" /\ want_open = FALSE
  /\ status = "DOWN" /\ tx = <<>>
  /\ toTry = 0 /\ backoff = BackoffMin
  /\ sinceReg = 0 /\ sinceBeat = 0 /\ sinceRx = 0
  /\ net \in BOOLEAN /\ wire = "none" /\ rx = "nothing" /\ greeting = "nothing"
  /\ quiet = 0 /\ mute = 0 /\ failures = 0 /\ sinceEnd = Limit

\* link_reconcile: plink_open ...
Reconcile ==
  /\ wanted /\ asked # "yes" /\ asked' = "yes"
  /\ want_open' = TRUE
  /\ IF status = "DOWN"
     THEN toTry' = 0 /\ backoff' = BackoffMin /\ failures' = 0 /\ sinceEnd' = Limit
     ELSE UNCHANGED <<retry, failures, sinceEnd>>
  /\ UNCHANGED <<wanted, status, tx, timers, net, wire, rx, greeting, quiet, mute>>

\* ... or plink_close.
ReconcileClose ==
  /\ ~wanted /\ asked # "no" /\ asked' = "no"
  /\ want_open' = FALSE
  /\ Closed /\ tx' = <<>>
  /\ UNCHANGED <<wanted, retry, timers, net, greeting, history>>

\* plink_pump, DOWN: try_connect when the delay is over.  It may fail at once.
PumpTry ==
  /\ want_open /\ status = "DOWN" /\ toTry = 0
  /\ \/ /\ status' = "CONNECTING" /\ wire' = "pending"
        /\ greeting' = "nothing"
        /\ UNCHANGED <<tx, rx, retry, failures, sinceEnd>>
     \/ ~net /\ Drop /\ UNCHANGED greeting
  /\ UNCHANGED <<policy, timers, net, quiet, mute>>

\* CONNECTING: SO_ERROR has the verdict.
PumpRefused ==
  /\ want_open /\ status = "CONNECTING" /\ wire \in {"refused", "reset"}
  /\ Drop
  /\ UNCHANGED <<policy, timers, net, greeting, quiet, mute>>

\* (defect) a connection is UP at once and registers when the timer says so
PumpUpUnregistered ==
  /\ want_open /\ status = "CONNECTING" /\ wire \in {"up", "reset"}
  /\ status' = "UP" /\ backoff' = BackoffMin
  /\ sinceReg' = sinceReg /\ sinceBeat' = 0 /\ sinceRx' = 0
  /\ Drain(tx)
  /\ UNCHANGED <<policy, toTry, net, wire, rx, history>>
\* The connection is established: the delay and the clocks are reset and
\* register_link queues the registration.
PumpUp ==
  /\ want_open /\ status = "CONNECTING" /\ wire \in {"up", "reset"}
  /\ status' = "UP" /\ backoff' = BackoffMin
  /\ sinceReg' = 0 /\ sinceBeat' = 0 /\ sinceRx' = 0
  /\ Drain(Queue(tx, <<"reg">>))
  /\ UNCHANGED <<policy, toTry, net, wire, rx, history>>

\* ... or the write of the registration fails.
PumpUpFails ==
  /\ want_open /\ status = "CONNECTING" /\ wire = "reset" /\ "write" \in MayFail
  /\ WriteFault(<<>>)
  /\ backoff' = BackoffMin
  /\ sinceReg' = 0 /\ sinceBeat' = 0 /\ sinceRx' = 0
  /\ UNCHANGED <<wanted, asked, toTry, net, greeting, quiet, mute>>

\* UP: the read fails, or finds the end of the stream.
PumpReadFails ==
  /\ want_open /\ status = "UP" /\ wire = "reset" /\ rx = "nothing"
  /\ Drop
  /\ UNCHANGED <<policy, timers, net, greeting, quiet, mute>>

\* UP, and nothing failed: read, drain, register again, beat; then the
\* watchdog, which drops a connection on which no frame has come for Silence.
RegDue == sinceReg > RegEvery
BeatDue == sinceBeat > BeatEvery
Due == If(RegDue, <<"reg">>) \o If(BeatDue, <<"beat">>)
\* (defect) our own heartbeat counts as traffic
HeardAgeBeating == IF rx = "frame" \/ BeatDue THEN 0 ELSE sinceRx
HeardAge == IF rx = "frame" THEN 0 ELSE sinceRx

\* Drain, register and drain, beat and drain. (Two drains with nothing queued
\* between them are one.)
DrainDue ==
  \E n \in 0..Len(tx) :
    LET q == Queue(SubSeq(tx, n + 1, Len(tx)), If(RegDue, <<"reg">>))
        g == Heard(greeting, SubSeq(tx, 1, n))
    IN \E k \in 0..Len(q) :
         DrainTo(Queue(SubSeq(q, k + 1, Len(q)), If(BeatDue, <<"beat">>)),
                 Heard(g, SubSeq(q, 1, k)))

Served ==
  /\ sinceReg' = IF RegDue THEN 0 ELSE sinceReg
  /\ sinceBeat' = IF BeatDue THEN 0 ELSE sinceBeat
  /\ sinceRx' = HeardAge
  /\ UNCHANGED <<policy, net, quiet, mute>>

PumpServe ==
  /\ want_open /\ status = "UP" /\ ~(wire = "reset" /\ rx = "nothing")
  /\ HeardAge <= Silence
  /\ DrainDue
  /\ rx' = "nothing"
  /\ failures' = IF rx = "frame" THEN 0 ELSE failures
  /\ Served
  /\ UNCHANGED <<status, retry, wire, sinceEnd>>

PumpSilent ==
  /\ want_open /\ status = "UP"
  /\ HeardAge > Silence
  /\ Drop
  /\ Served
  /\ UNCHANGED greeting

\* UP, and a write failed: the connection was reset after the read.  If it was
\* the first drain both due frames are left behind, if it was the
\* registration's only the heartbeat is.
PumpWriteFails ==
  /\ want_open /\ status = "UP" /\ wire = "reset" /\ "write" \in MayFail
  /\ HeardAge <= Silence
  /\ \/ tx # <<>> /\ WriteFault(Due)
     \/ RegDue /\ WriteFault(If(BeatDue, <<"beat">>))
     \/ BeatDue /\ WriteFault(<<>>)
  /\ sinceReg' = IF RegDue THEN 0 ELSE sinceReg
  /\ sinceBeat' = IF BeatDue THEN 0 ELSE sinceBeat
  /\ sinceRx' = HeardAge
  /\ UNCHANGED <<wanted, asked, retry, net, greeting, quiet, mute>>

\* (defect) plink_send does not look at the state of the link
SendAnyway ==
  /\ Len(tx) < TxCap
  /\ Drain(Append(tx, "cmd"))
  /\ UNCHANGED <<policy, status, retry, timers, net, wire, rx, history>>
\* plink_send by a user of the link.
Send ==
  /\ status = "UP" /\ Len(tx) < TxCap
  /\ Drain(Append(tx, "cmd"))
  /\ UNCHANGED <<policy, status, retry, timers, net, wire, rx, history>>

SendFull ==
  /\ status = "UP" /\ Len(tx) = TxCap
  /\ UNCHANGED vars

SendFails ==
  /\ status = "UP" /\ wire = "reset" /\ "write" \in MayFail
  /\ WriteFault(<<>>)
  /\ UNCHANGED <<wanted, asked, retry, timers, net, greeting, quiet, mute>>

Pump == PumpTry \/ PumpRefused \/ PumpUp \/ PumpUpFails \/ PumpReadFails \/ PumpServe \/ PumpSilent
          \/ PumpWriteFails

(***************************************************************************)
(* The environment: policy, time, network, head.                           *)
(***************************************************************************)
PolicyChanges ==
  /\ wanted' = ~wanted
  /\ UNCHANGED <<asked, want_open, status, tx, retry, timers, net, wire, rx, greeting, history>>

Elapse ==
  /\ toTry' = IF toTry > 0 THEN toTry - 1 ELSE 0
  /\ sinceReg' = Ages(sinceReg, RegEvery)
  /\ sinceBeat' = Ages(sinceBeat, BeatEvery)
  /\ sinceRx' = Ages(sinceRx, Silence)
  /\ quiet' = Ages(quiet, Silence) /\ mute' = Ages(mute, Silence)
  /\ sinceEnd' = Capped(sinceEnd + 1, Limit)
  /\ UNCHANGED <<policy, status, tx, backoff, net, wire, rx, greeting, failures>>

NetChanges ==
  /\ net' = ~net
  /\ UNCHANGED <<policy, status, tx, retry, timers, wire, rx, greeting, history>>

Connected ==
  /\ wire = "pending" /\ net
  /\ wire' = "up" /\ quiet' = 0 /\ mute' = 0
  /\ UNCHANGED <<policy, status, tx, retry, timers, net, rx, greeting, failures, sinceEnd>>

Refused ==
  /\ wire = "pending" /\ ~net
  /\ wire' = "refused"
  /\ UNCHANGED <<policy, status, tx, retry, timers, net, rx, greeting, history>>

Reset ==
  /\ wire = "up" /\ ~net
  /\ wire' = "reset"
  /\ UNCHANGED <<policy, status, tx, retry, timers, net, rx, greeting, history>>

HeadSends(what) ==
  /\ wire = "up" /\ net
  /\ rx' = IF rx = "frame" THEN rx ELSE what
  /\ quiet' = 0 /\ mute' = IF what = "frame" THEN 0 ELSE mute
  /\ UNCHANGED <<policy, status, tx, retry, timers, net, wire, greeting, failures, sinceEnd>>

HeadSpeaks == HeadSends("frame")
HeadEchoes == "echo" \in MayFail /\ HeadSends("echo")

Next ==
  \/ Reconcile \/ ReconcileClose \/ Pump \/ Send \/ SendFull \/ SendFails
  \/ PolicyChanges \/ Elapse
  \/ NetChanges \/ Connected \/ Refused \/ Reset \/ HeadSpeaks \/ HeadEchoes

Spec == Init /\ [][Next]_vars

\* The loop keeps calling link_reconcile and plink_pump, time passes, and a
\* connection attempt has an outcome.  A pump that has nothing to do changes
\* nothing, so its weak fairness asks for the useful ones only.
Fairness ==
  /\ WF_vars(Reconcile) /\ WF_vars(ReconcileClose)
  /\ WF_vars(Pump) /\ WF_vars(Elapse)
  /\ WF_vars(Connected) /\ WF_vars(Refused)

FairSpec == Spec /\ Fairness

-----------------------------------------------------------------------------
TypeOK ==
  /\ wanted \in BOOLEAN /\ asked \in {"unset", "yes", "no"} /\ want_open \in BOOLEAN
  /\ status \in {"DOWN", "CONNECTING", "UP"}
  /\ tx \in Seq({"reg", "beat", "cmd"}) /\ Len(tx) <= TxCap
  /\ toTry \in 0..BackoffMax /\ backoff \in BackoffMin..BackoffMax
  /\ sinceReg \in 0..(RegEvery + 1) /\ sinceBeat \in 0..(BeatEvery + 1)
  /\ sinceRx \in 0..(Silence + 1)
  /\ net \in BOOLEAN /\ wire \in {"none", "pending", "refused", "up", "reset"}
  /\ rx \in {"nothing", "echo", "frame"}
  /\ greeting \in Greetings
  /\ quiet \in 0..(Silence + 1) /\ mute \in 0..(Silence + 1)
  /\ failures \in 0..2 /\ sinceEnd \in 0..Limit

\* A command accepted in one session is never left to be written in the next:
\* a mount that comes back from a radio drop must not start to move.
NoStaleCommand == status # "UP" => \A i \in 1..Len(tx) : tx[i] # "cmd"

\* No command reaches the head on a connection it has not been registered on
\* ("Registration is what makes the device count us as a client").
RegisteredBeforeCommand == greeting # "early command"

\* A fault never turns the link off and policy never leaves it on: it keeps
\* trying exactly while link_reconcile was last told to have it open.
OpenAsAsked == asked # "unset" => (want_open <=> asked = "yes")

\* The watchdog cuts a live connection only when it has had no frame for
\* PLINK_SILENCE_MS - not for what an earlier session last heard.
WatchdogWaits ==
  [][status = "UP" /\ status' = "DOWN" /\ wire = "up" /\ want_open'
       => mute > Silence]_vars

\* The radio is gone and TCP believes everything is fine: the link finds out.
SilenceNoticed == ~net ~> net \/ status # "UP"

\* Once it is wanted and the head stays in reach, the link is up again and again.
Reconnects == <>[](wanted /\ net) => []<>(status = "UP")

\* The abstract link of its users.
Session == INSTANCE LinkSession
  WITH waiting <- \E i \in 1..Len(tx) : tx[i] = "cmd"
ImplementsSession == Session!Spec

\* "Milliseconds of total silence from the head before the link is treated as
\* dead" (polaris-link.h): an echo of our heartbeat is not silence.
TotalSilence ==
  [][status = "UP" /\ status' = "DOWN" /\ wire = "up" /\ want_open'
       => quiet > Silence]_vars

\* "BACKOFF, NOT A RETRY STORM" (polaris-link.c): after a failure the next
\* attempt comes no sooner than the shortest delay.
NoRetryStorm ==
  [][status = "DOWN" /\ status' = "CONNECTING" => sinceEnd >= BackoffMin]_vars

\* "the delay grows 1s -> 30s and resets on a successful registration"
\* (polaris-link.c): the second failure in a row without a word from the head
\* waits longer than the first.
DelayGrows ==
  [][failures >= 1 /\ failures' = 2 /\ sinceEnd' = 0 /\ wire # wire'
       => toTry' > BackoffMin]_vars

\* PLINK_UP is "connected AND registered" (polaris-link.h): the registration is
\* what the head hears first on a connection.
RegistersFirst == greeting \notin {"early beat", "late"}
=============================================================================
