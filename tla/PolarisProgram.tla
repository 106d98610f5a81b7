--------------------------- MODULE PolarisProgram ---------------------------
(***************************************************************************)
(* The capture programmes: container/astro/polaris-prog.c, driven by the   *)
(* select() loop of polaris-httpd.c over the control link.                 *)
(*                                                                         *)
(* A programme runs on the head by itself.  The server starts it, polls    *)
(* (or waits for) the count of frames left, and decides from what it reads *)
(* whether the run is still on.  It never sees the messages themselves:    *)
(* the link keeps the latest one of each opcode in a slot that outlives    *)
(* runs and connections, and a counter tells a new one from a seen one.    *)
(*                                                                         *)
(* The loop runs  select -> pump -> tick -> handle -> select; the head and *)
(* the network act in between.  Times are relative to now.                 *)
(***************************************************************************)
EXTENDS Integers, Sequences, SequencesExt

CONSTANTS
  Kinds,         \* the programmes a browser may start
  Frames,        \* how many frames it may ask for
  Poll, Stale,   \* POLL_MS and STALE_MS, in time units
  IdleSleep,     \* the 250 ms cap of the loop's select(), in time units
  HandleMax,     \* the longest an inline HTTP request holds the loop
  TxCap,         \* bound: orders the transmit buffer holds
  RxCap,         \* bound: messages that wait in the socket
  MaxRuns,       \* bound: programmes started in one behaviour
  May            \* what else happens: "cut", "silence", "ack", "fail", "bare end", "others"

AllKinds == {"lapse", "pano", "hdr", "focus", "plc", "pathlapse", "sun"}

ASSUME KindAssumption == Kinds \subseteq AllKinds
ASSUME CountAssumption ==
  /\ Frames \subseteq Nat \ {0}
  /\ TxCap \in Nat /\ RxCap \in Nat /\ MaxRuns \in Nat
ASSUME TimeAssumption ==
  Poll \in Nat \ {0} /\ Stale \in Nat \ {0} /\ IdleSleep \in Nat \ {0} /\ HandleMax \in Nat

VARIABLES
  pc,       \* the stage of the event loop
  status,   \* plink_status()
  sock,     \* the TCP connection under it: "none", "ok", or "broken" unnoticed
  tx,       \* orders accepted by plink_send that the head has not read
  rx,       \* messages of the head that plink_pump has not read
  slot,     \* plink_get: the latest message of each opcode
  fresh,    \* slot.count # seen[kind]: the kind has not absorbed its slot
  g,        \* the running programme, as the server sees it
  head,     \* the run on the head (external)
  silent,   \* the head answers nothing any more: the camera has died
  runs,     \* history: programmes started so far
  lost,     \* history: an order was discarded, or a run abandoned with the link
  misled,   \* history: a message about another run was taken for this one's
  sincePoll,  \* history: time since the last poll was sent
  quiet     \* history: time since a message of g's opcode came, or g began

link == <<status, sock, tx>>
news == <<slot, fresh>>
env == <<head, silent>>
history == <<runs, lost, misled, sincePoll, quiet>>
vars == <<pc, link, rx, news, g, env, history>>

\* NoStep, Absent: the message has no step, no count under the key its kind reads.
NoStep == -1
Absent == -3
\* Counts of the head: a failed free programme, no run on the opcode, no end.
Failed == -1
NoRunCount == -1
Unlimited == -2

Least(a, b) == IF a < b THEN a ELSE b
Most(a, b) == IF a > b THEN a ELSE b

(***************************************************************************)
(* What the server knows of each kind (wire_for).                          *)
(***************************************************************************)
\* PATH-LAPSE rides the opcode of the timelapse; a focus preview that of focus.
Op(k) == IF k = "pathlapse" THEN "lapse" ELSE IF k = "preview" THEN "focus" ELSE k
Opcodes == {Op(k) : k \in AllKinds}

Polled(k) == k \notin {"hdr", "sun"}
DoneStep == [k \in AllKinds |->
  IF k = "hdr" THEN 3 ELSE IF k = "focus" THEN 5 ELSE IF k = "plc" THEN 0
  ELSE IF k = "sun" THEN 4 ELSE NoStep]

\* run is the run a message speaks of (history).
Message(k, step, left, run) == [op |-> Op(k), step |-> step, left |-> left, run |-> run]
Nothing == [op |-> "none", step |-> NoStep, left |-> Absent, run |-> 0]

Order(what, k, n, run) == [what |-> what, kind |-> k, left |-> n, run |-> run]

(***************************************************************************)
(* The head (external).                                                    *)
(***************************************************************************)
NoRun == [kind |-> "none", left |-> 0, run |-> 0, paused |-> FALSE]
\* It has nothing left to do.
Over(h) == h.kind = "none" \/ h.left \in {0, Failed}

\* A cancel names a programme: the head obeys it for a run of that opcode, and
\* tells the preview from the stack.
Cancels(o, h) ==
  o.what = "cancel" /\ Op(h.kind) = Op(o.kind) /\ (h.kind = "preview" <=> o.kind = "preview")
Obey(h, o) ==
  IF o.what = "begin" THEN [kind |-> o.kind, left |-> o.left, run |-> o.run, paused |-> FALSE]
  ELSE IF Cancels(o, h) THEN NoRun
  ELSE IF o.what \in {"pause", "resume"} /\ h.kind = "pano"
       THEN [h EXCEPT !.paused = (o.what = "pause")]
  ELSE h

\* The last order of q that is one of these, or 0.
Latest(q, these) == Max({0} \cup {i \in 1..Len(q) : q[i].what \in these})
\* What the head will be doing once it has read q, an order at a time: the last
\* programme begun, unless cancelled since, and as the last pause or resume has it.
HeadAfter(h, q) ==
  LET began == Latest(q, {"begin"})
      turned == Latest(q, {"pause", "resume"})
      base == IF began = 0 THEN h ELSE Obey(h, q[began])
  IN IF \E i \in (began + 1)..Len(q) : Cancels(q[i], base) THEN NoRun
     ELSE IF turned > began THEN Obey(base, q[turned]) ELSE base

\* The count it reports: 283 answers with a state (2: started) instead.
Count(h, k) ==
  IF Op(h.kind) # Op(k) THEN NoRunCount
  ELSE IF k = "plc" /\ h.left > 0 THEN 2 ELSE h.left

\* Its answer to an order, having obeyed it.  Only some heads acknowledge, and
\* focus and HDR do so without a count under their key.
Answer(before, after, o) ==
  IF o.what = "poll"
  THEN <<Message(o.kind, IF o.kind = "focus" THEN 7 ELSE IF o.kind = "plc" THEN 5 ELSE NoStep,
                 Count(after, o.kind), after.run)>>
  ELSE IF o.what = "begin" /\ ~Polled(o.kind)
  THEN <<Message(o.kind, 5, after.left, after.run)>>
  ELSE IF "ack" \in May /\ o.what = "cancel" /\ o.kind # "plc"
  THEN <<Message(o.kind, IF o.kind \in {"hdr", "focus", "preview"} THEN 6 ELSE NoStep,
                 IF o.kind \in {"hdr", "focus", "preview"} THEN Absent ELSE 0, before.run)>>
  ELSE IF "ack" \in May /\ o.what = "begin" /\ Op(o.kind) = "focus"
  THEN <<Message(o.kind, 8, Absent, after.run)>>
  ELSE <<>>

\* What it says by itself when the count of a push-driven run changes.
Push(h) ==
  IF Polled(h.kind) THEN <<>>
  ELSE IF h.left > 0 THEN <<Message(h.kind, 5, h.left, h.run)>>
  ELSE IF h.kind = "sun" /\ "bare end" \in May THEN <<Message("sun", 3, Absent, h.run)>>
  ELSE <<Message(h.kind, DoneStep[h.kind], 0, h.run)>>

(***************************************************************************)
(* The server's record of a run.                                           *)
(***************************************************************************)
Idle == [kind |-> "none", run |-> 0, total |-> 0, remaining |-> 0, paused |-> 0,
         stale |-> FALSE, toPoll |-> 0, unheard |-> 0]

\* (defect) the poll clock is not set
BegunPolling(k, n, mode) ==
  [kind |-> k, run |-> runs + 1, total |-> n, remaining |-> -1,
   paused |-> mode, stale |-> FALSE, toPoll |-> 0, unheard |-> 0]
\* begin: total -1 stands for an unlimited run (remaining -2), and for a free
\* programme or a sun run, whose remaining is unknown (-1).  paused = 2 marks a
\* focus preview.
Begun(k, n, mode) ==
  [kind |-> k, run |-> runs + 1, total |-> n,
   remaining |-> IF n = -1 /\ k \notin {"plc", "sun"} THEN -2 ELSE -1,
   paused |-> mode, stale |-> FALSE, toPoll |-> Poll, unheard |-> 0]

\* (defect) only a pushed step ends a run
EndsByStep(k, m) == m.step # NoStep /\ m.step = DoneStep[k]
\* (defect) a count below one is an end
EndsBelowOne(k, m) == (m.step # NoStep /\ m.step = DoneStep[k]) \/ m.left \in {0, NoRunCount, Unlimited}
\* The reply says that the run is over.
Ends(k, m) == (m.step # NoStep /\ m.step = DoneStep[k]) \/ m.left = 0

\* (defect) a reply does not stamp the clock, nor clear stale
AbsorbedQuietly(p, isNew, m) ==
  IF ~isNew THEN p ELSE IF Ends(p.kind, m) THEN Idle ELSE [p EXCEPT !.remaining = Most(m.left, @)]
\* absorb_reply on a run p and the slot of its opcode.
Absorbed(p, isNew, m) ==
  IF ~isNew THEN p
  ELSE IF Ends(p.kind, m) THEN Idle
  ELSE [p EXCEPT !.unheard = 0, !.stale = FALSE, !.remaining = IF m.left > 0 THEN m.left ELSE @]

PollDue(p) == p.kind # "none" /\ Polled(p.kind) /\ p.toPoll = 0

\* (defect) the watchdog looks at the poll clock only
WatchedNever(p) == IF PollDue(p) THEN [p EXCEPT !.toPoll = Poll] ELSE p
\* prog_tick after absorb_reply: the poll clock and the watchdog.
Watched(p) ==
  IF p.kind = "none" THEN p
  ELSE [p EXCEPT !.toPoll = IF PollDue(p) THEN Poll ELSE @,
                 !.stale = @ \/ p.unheard > Stale]

\* prog_cancel
CancelOrders(p) ==
  IF p.kind = "none" THEN <<>>
  ELSE <<Order("cancel", IF p.paused = 2 THEN "preview" ELSE p.kind, 0, p.run)>>

\* What a start sends.  The points of a timeline are one order; the interval of a
\* panorama and the appointment of a free programme come last.
StartOrders(k, n, extra) ==
  (IF k \in {"lapse", "pathlapse", "plc"} THEN <<Order("points", k, n, runs + 1)>> ELSE <<>>)
    \o <<Order("begin", k, n, runs + 1)>>
    \o (IF extra /\ k \in {"pano", "plc"} THEN <<Order("extra", k, n, runs + 1)>> ELSE <<>>)

\* prog_next_deadline_ms, while a programme is on.
Deadline == g.toPoll

-----------------------------------------------------------------------------
(***************************************************************************)
(* The link as its callers see it.                                         *)
(***************************************************************************)
Fits(n) == status = "UP" /\ Len(tx) + n <= TxCap

\* (defect) what waits stays for the next connection
DisconnectKeeping ==
  /\ status' = "DOWN" /\ sock' = "none" /\ lost' = TRUE
  /\ rx' = <<>> /\ UNCHANGED tx
\* plink_close and drop: the socket is closed, what waits in it is gone.
Disconnect ==
  /\ status' = "DOWN" /\ sock' = "none"
  /\ tx' = <<>> /\ rx' = <<>>
  /\ lost' = TRUE

\* (defect) what does not fit is queued all the same
TransmitUncapped(orders) ==
  \/ /\ status = "UP"
     /\ tx' = tx \o orders /\ Len(tx) < TxCap
     /\ UNCHANGED <<status, sock, rx, lost>>
  \/ status # "UP" /\ UNCHANGED <<status, sock, tx, rx, lost>>
\* plink_send for each order in turn, by callers that ignore its result.
Transmit(orders) ==
  \/ /\ status = "UP"
     /\ tx' = SubSeq(tx \o orders, 1, Least(Len(tx) + Len(orders), TxCap))
     /\ lost' = (lost \/ ~Fits(Len(orders)))
     /\ UNCHANGED <<status, sock, rx>>
  \/ status = "UP" /\ sock = "broken" /\ orders # <<>> /\ Disconnect
  \/ /\ status # "UP"
     /\ lost' = (lost \/ orders # <<>>)
     /\ UNCHANGED <<status, sock, tx, rx>>

\* Time passes: at most the caps that tell the cases apart.
Aged(d) ==
  /\ g' = IF g.kind = "none" THEN g
          ELSE [g EXCEPT !.toPoll = Most(0, @ - d), !.unheard = Least(@ + d, Stale + 1)]
  /\ sincePoll' = Least(sincePoll + d, Poll)
  /\ quiet' = Least(quiet + d, Stale + 1)

Init ==
  /\ pc = "select" /\ status = "DOWN" /\ sock = "none" /\ tx = <<>> /\ rx = <<>>
  /\ slot = [o \in Opcodes |-> Nothing] /\ fresh = [k \in AllKinds |-> FALSE]
  /\ g = Idle /\ head = NoRun /\ silent = FALSE
  /\ runs = 0 /\ lost = FALSE /\ misled = FALSE /\ sincePoll = Poll /\ quiet = 0

\* select() sleeps at least a millisecond, and past a due poll no longer.
Select(d) ==
  /\ pc = "select" /\ pc' = "pump"
  /\ d <= IdleSleep
  /\ g.kind # "none" => d <= Most(1, Deadline)
  /\ Aged(d)
  /\ UNCHANGED <<link, rx, news, env, runs, lost, misled>>

PumpIdle ==
  /\ pc = "pump" /\ pc' = "tick"
  /\ status # "UP"
  /\ UNCHANGED <<link, rx, news, g, env, history>>

PumpConnect ==
  /\ pc = "pump" /\ pc' = "tick"
  /\ status = "DOWN" /\ status' = "CONNECTING"
  /\ UNCHANGED <<sock, tx, rx, news, g, env, history>>

PumpFinish ==
  /\ pc = "pump" /\ pc' = "tick"
  /\ status = "CONNECTING"
  /\ \/ status' = "UP" /\ sock' = "ok"
     \/ status' = "DOWN" /\ sock' = "none"
  /\ UNCHANGED <<tx, rx, news, g, env, history>>

\* plink_pump reads everything that waits; of each opcode the last one stays.
Came(o) == {i \in 1..Len(rx) : rx[i].op = o}
PumpRead ==
  /\ pc = "pump" /\ pc' = "tick"
  /\ status = "UP"
  /\ slot' = [o \in Opcodes |->
       IF Came(o) = {} THEN slot[o] ELSE rx[CHOOSE i \in Came(o) : \A j \in Came(o) : j <= i]]
  /\ fresh' = [k \in AllKinds |-> fresh[k] \/ Came(Op(k)) # {}]
  /\ rx' = <<>>
  /\ quiet' = IF g.kind # "none" /\ Came(Op(g.kind)) # {} THEN 0 ELSE quiet
  /\ UNCHANGED <<link, g, env, runs, lost, misled, sincePoll>>

PumpLost ==
  /\ pc = "pump" /\ pc' = "tick"
  /\ status = "UP" /\ sock = "broken"
  /\ Disconnect
  /\ UNCHANGED <<news, g, env, runs, misled, sincePoll, quiet>>

TickIdle ==
  /\ pc = "tick" /\ pc' = "handle"
  /\ g.kind = "none"
  /\ UNCHANGED <<link, rx, news, g, env, history>>

\* (defect) the run is kept for when the link is back
TickDownKeeping ==
  /\ pc = "tick" /\ pc' = "handle"
  /\ g.kind # "none" /\ status # "UP"
  /\ UNCHANGED <<link, rx, news, g, env, history>>
\* prog_tick: a programme cannot outlive the link.
TickDown ==
  /\ pc = "tick" /\ pc' = "handle"
  /\ g.kind # "none" /\ status # "UP"
  /\ g' = Idle /\ lost' = TRUE
  /\ UNCHANGED <<link, rx, news, env, runs, misled, sincePoll, quiet>>

TickUp ==
  /\ pc = "tick" /\ pc' = "handle"
  /\ g.kind # "none" /\ status = "UP"
  /\ LET m == slot[Op(g.kind)]
         p == Absorbed(g, fresh[g.kind], m)
     IN /\ fresh' = [fresh EXCEPT ![g.kind] = FALSE]
        /\ g' = Watched(p)
        /\ misled' = (misled \/ (p.kind = "none" /\ m.run # g.run))
        /\ Transmit(IF PollDue(p) THEN <<Order("poll", p.kind, 0, p.run)>> ELSE <<>>)
        /\ sincePoll' = IF PollDue(p) THEN 0 ELSE sincePoll
  /\ UNCHANGED <<slot, env, runs, quiet>>

\* prog_start_*: refused while a programme is on or the link is not UP.  A free
\* programme and a path-lapse begin whatever plink_send answers, the others only
\* if their first order was accepted.
Total(k, n) == IF n = Unlimited \/ k \in {"plc", "sun"} THEN -1 ELSE n
Start(k, n, extra) ==
  /\ pc = "handle" /\ pc' = "select"
  /\ runs < MaxRuns
  /\ g.kind = "none" /\ status = "UP"
  /\ k \notin {"plc", "pathlapse"} => Fits(1)
  /\ n = Unlimited => k \in {"lapse", "pathlapse"}
  /\ g' = Begun(k, Total(k, n), 0)
  /\ Transmit(StartOrders(k, n, extra))
  /\ runs' = runs + 1 /\ quiet' = 0
  /\ UNCHANGED <<news, env, misled, sincePoll>>

\* prog_focus_preview: a dry traverse, kept as a focus run marked 2.
StartPreview(n) ==
  /\ pc = "handle" /\ pc' = "select"
  /\ runs < MaxRuns
  /\ g.kind = "none" /\ Fits(1)
  /\ g' = Begun("focus", n, 2)
  /\ Transmit(StartOrders("preview", n, FALSE))
  /\ runs' = runs + 1 /\ quiet' = 0
  /\ UNCHANGED <<news, env, misled, sincePoll>>

\* /api/prog/cancel, answered ok in any case.
Cancel ==
  /\ pc = "handle" /\ pc' = "select"
  /\ g' = Idle
  /\ Transmit(CancelOrders(g))
  /\ UNCHANGED <<news, env, runs, misled, sincePoll, quiet>>

\* (defect) the pause is noted though the order was not accepted
PanoPauseAnyway(on) ==
  /\ pc = "handle" /\ pc' = "select"
  /\ g.kind = "pano"
  /\ g' = [g EXCEPT !.paused = IF on THEN 1 ELSE 0]
  /\ tx' = IF Fits(1) THEN Append(tx, Order(IF on THEN "pause" ELSE "resume", "pano", 0, g.run)) ELSE tx
  /\ UNCHANGED <<status, sock, rx, news, env, history>>
\* prog_pano_pause
PanoPause(on) ==
  /\ pc = "handle" /\ pc' = "select"
  /\ g.kind = "pano" /\ Fits(1)
  /\ g' = [g EXCEPT !.paused = IF on THEN 1 ELSE 0]
  /\ Transmit(<<Order(IF on THEN "pause" ELSE "resume", "pano", 0, g.run)>>)
  /\ UNCHANGED <<news, env, runs, misled, sincePoll, quiet>>

\* No request, a refused one, or one that is not about programmes: it holds the
\* thread for d, may send an order of its own and may find the connection broken.
OtherRequest(d, orders) ==
  /\ pc = "handle" /\ pc' = "select"
  /\ orders # <<>> => Fits(Len(orders))
  /\ Transmit(orders)
  /\ Aged(d)
  /\ UNCHANGED <<news, env, runs, misled>>

\* What the other users of the link put into its buffer.
OtherOrders == {<<>>} \cup IF "others" \in May THEN {<<Order("extra", "none", 0, 0)>>} ELSE {}

StartAny ==
  \/ \E k \in Kinds, n \in Frames \cup {Unlimited}, extra \in BOOLEAN : Start(k, n, extra)
  \/ "focus" \in Kinds /\ \E n \in Frames : StartPreview(n)
Pump == PumpIdle \/ PumpConnect \/ PumpFinish \/ PumpRead \/ PumpLost
Tick == TickIdle \/ TickDown \/ TickUp
Handle ==
  \/ StartAny \/ Cancel \/ \E on \in BOOLEAN : PanoPause(on)
  \/ \E d \in 0..HandleMax, orders \in OtherOrders : OtherRequest(d, orders)

\* The network and the head.
Cut ==
  /\ "cut" \in May
  /\ sock = "ok" /\ sock' = "broken"
  /\ UNCHANGED <<pc, status, tx, rx, news, g, env, history>>

HeadReads ==
  /\ sock = "ok" /\ tx # <<>>
  /\ LET o == Head(tx)
         said == IF silent THEN <<>> ELSE Answer(head, Obey(head, o), o)
     IN /\ Len(rx) + Len(said) <= RxCap
        /\ head' = Obey(head, o)
        /\ rx' = rx \o said
  /\ tx' = Tail(tx)
  /\ UNCHANGED <<pc, status, sock, news, g, silent, history>>

HeadShoots ==
  /\ head.left > 0 /\ ~head.paused /\ ~silent
  /\ head' = [head EXCEPT !.left = @ - 1]
  /\ LET said == IF sock = "ok" THEN Push(head') ELSE <<>>
     IN /\ Len(rx) + Len(said) <= RxCap
        /\ rx' = rx \o said
  /\ UNCHANGED <<pc, link, news, g, silent, history>>

HeadFails ==
  /\ "fail" \in May
  /\ head.kind = "plc" /\ head.left > 0
  /\ head' = [head EXCEPT !.left = Failed]
  /\ UNCHANGED <<pc, link, rx, news, g, silent, history>>

HeadSilenced ==
  /\ "silence" \in May
  /\ silent' = TRUE
  /\ UNCHANGED <<pc, link, rx, news, g, head, history>>

Next ==
  \/ \E d \in 0..IdleSleep : Select(d)
  \/ Pump \/ Tick \/ Handle
  \/ Cut \/ HeadReads \/ HeadShoots \/ HeadFails \/ HeadSilenced

Spec == Init /\ [][Next]_vars

\* The loop goes round; time passes, however often select() returns at once; the
\* head reads and shoots.
Fairness ==
  /\ SF_vars(\E d \in 1..IdleSleep : Select(d))
  /\ WF_vars(Pump) /\ WF_vars(Tick) /\ WF_vars(Handle)
  /\ WF_vars(HeadReads) /\ WF_vars(HeadShoots)

FairSpec == Spec /\ Fairness

-----------------------------------------------------------------------------
RunType == [kind : AllKinds \cup {"none"}, run : Nat, total : Int, remaining : Int,
            paused : 0..2, stale : BOOLEAN, toPoll : 0..Poll, unheard : 0..(Stale + 1)]
MessageType == [op : Opcodes \cup {"none"}, step : Int, left : Int, run : Nat]
Orders == {"points", "begin", "extra", "poll", "pause", "resume", "cancel"}
OrderType == [what : Orders, kind : AllKinds \cup {"preview", "none"}, left : Int, run : Nat]
HeadType == [kind : AllKinds \cup {"preview", "none"}, left : Int, run : Nat, paused : BOOLEAN]

TypeOK ==
  /\ pc \in {"select", "pump", "tick", "handle"}
  /\ status \in {"DOWN", "CONNECTING", "UP"} /\ sock \in {"none", "ok", "broken"}
  /\ tx \in Seq(OrderType) /\ Len(tx) <= TxCap
  /\ rx \in Seq(MessageType) /\ Len(rx) <= RxCap
  /\ slot \in [Opcodes -> MessageType] /\ fresh \in [AllKinds -> BOOLEAN]
  /\ g \in RunType /\ head \in HeadType /\ silent \in BOOLEAN
  /\ runs \in 0..MaxRuns /\ lost \in BOOLEAN /\ misled \in BOOLEAN
  /\ sincePoll \in 0..Poll /\ quiet \in 0..(Stale + 1)

\* "A programme cannot outlive the link" (prog_tick): none is on when a new
\* session begins, so no run of the one before is taken for one of this.
RunDiesWithSession == [][status # "UP" /\ status' = "UP" => g'.kind = "none"]_vars

\* The poll is paced across runs too: cancelling and starting again does not make
\* the server ask sooner than POLL_MS after it last asked (a tick sends polls only).
PollPaced == [][pc = "tick" /\ Len(tx') > Len(tx) => sincePoll = Poll]_vars

\* "Stale, not finished": a run is reported as lost track of only when the head
\* has said nothing on its opcode for STALE_MS since the run began.
StaleMeansSilent == g.stale /\ pc # "tick" => quiet > Stale

\* A reply about the run itself ends it only when the head is done with it.
EndedByItsOwn ==
  [][pc = "tick" /\ status = "UP" /\ g.kind # "none" /\ g'.kind = "none"
       /\ slot[Op(g.kind)].run = g.run
     => head.run # g.run \/ Over(head)]_vars

\* Unless an order was lost, a run was abandoned with the link, or a message about
\* another run was believed, the server and the head agree once the head has read
\* what was sent: it does the run the server tracks, paused as the server says,
\* and nothing the server does not know of.
ServerKnows ==
  ~lost /\ ~misled =>
    LET h == HeadAfter(head, tx)
    IN IF g.kind = "none" THEN Over(h)
       ELSE h.run = g.run /\ (g.kind = "pano" => (h.paused <=> g.paused = 1))

\* A run that is over on the head is over for the server, however it learns it.
EndNoticed ==
  (g.kind # "none" /\ head.run = g.run /\ Over(head))
    ~> (g.kind = "none" \/ status # "UP" \/ sock # "ok" \/ silent)

\* A head that has fallen silent is not reported as running for ever.
SilenceTold == (g.kind # "none" /\ silent) ~> (g.stale \/ g.kind = "none")

\* The abstract link of its users.
Session == INSTANCE LinkSession WITH waiting <- tx # <<>>
ImplementsSession == Session!Spec

\* "Do NOT silently call that complete ... telling someone their 400-frame
\* timelapse finished when it stalled at frame 12 is worse" (polaris-prog.c).
CompleteMeansDone ==
  [][pc = "tick" /\ status = "UP" /\ g.kind # "none" /\ g'.kind = "none"
     => LET h == HeadAfter(head, tx) IN h.run # g.run \/ Over(h)]_vars

\* "Stop whatever is running" (prog_cancel, polaris-prog.h).
StopsWhateverRuns ==
  [][Cancel /\ status = "UP" /\ sock = "ok" => Over(HeadAfter(head, tx'))]_vars

\* "Milliseconds until prog_tick() next has work" (polaris-prog.h).
WakesForWork == pc = "select" /\ g.kind # "none" /\ Deadline = 0 => Polled(g.kind)
=============================================================================
