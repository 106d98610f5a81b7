---------------------------- MODULE AstroSession ----------------------------
(***************************************************************************)
(* Celestial mode: container/astro/polaris-astro.c, driven by the select() *)
(* loop of polaris-httpd.c over the control link of polaris-link.c.        *)
(*                                                                         *)
(* The server holds a session open on the head: mode 8, an attitude push   *)
(* that must be re-armed again and again, and tracking at a rate.  Each    *)
(* operation is several orders, any of which may be lost, and the session  *)
(* has to be unwound in the reverse of the order it was set up in.         *)
(*                                                                         *)
(* The loop is the one of PolarisJog; what the other parts of the server   *)
(* send is seen here only as orders that take room in the buffer.  Times   *)
(* are relative to now.                                                    *)
(***************************************************************************)
EXTENDS Integers, Sequences, FiniteSets

CONSTANTS
  AhrsEvery,  \* AHRS_MS, in time units
  IdleSleep,  \* the 250 ms cap of the loop's select(), in time units
  HandleMax,  \* the longest an inline HTTP request holds the loop
  LateCap,    \* bound: lateness is not counted beyond this
  TxCap       \* bound: the orders the transmit buffer holds

ASSUME TimeAssumption ==
  /\ AhrsEvery \in Nat \ {0} /\ IdleSleep \in Nat \ {0}
  /\ HandleMax \in Nat /\ LateCap \in Nat /\ HandleMax < LateCap
ASSUME BufferAssumption == TxCap \in Nat

VARIABLES
  pc,      \* the stage of the event loop
  status,  \* plink_status()
  sock,    \* the TCP connection under it: "none", "ok", or "broken" unnoticed
  a,       \* A: what the session asked for
  tx,      \* orders accepted by plink_send that the head has not read
  head,    \* what the head is set to (external)
  lost,    \* history: an order was discarded, or a session ended without its
           \* orders, at some time; or the server started on a head in use
  unarmed  \* history: time since the push of the session was last re-armed
vars == <<pc, status, sock, a, tx, head, lost, unarmed>>
link == <<status, sock, tx, lost>>

(***************************************************************************)
(* Values.                                                                 *)
(***************************************************************************)
Rates == {"sidereal", "lunar"}
Ops == {"mode", "ahrs", "half", "track"}  \* 285, 520, 536, 531
Args == {"astro", "photo", "on", "off"} \cup Rates
Order == [op : Ops \cup {"other"}, arg : Args]
Say(op, arg) == [op |-> op, arg |-> arg]
Other == Say("other", "on")               \* 527 and what other parts send

OnOff(b) == IF b THEN "on" ELSE "off"

Session == [active : BOOLEAN, next : (-LateCap)..AhrsEvery,
            track : Rates \cup {"off"}, half : BOOLEAN]
Closed == [active |-> FALSE, next |-> 0, track |-> "off", half |-> FALSE]

\* A setting holds until it is set again (external).
HeadState == [Ops -> Args]
Obey(h, o) == IF o.op \in Ops THEN [h EXCEPT ![o.op] = o.arg] ELSE h

\* What a head in this state is set to; half speed means nothing unless it tracks.
Belief(s) == [op \in Ops |->
  IF op = "mode" THEN IF s.active THEN "astro" ELSE "photo"
  ELSE IF op = "ahrs" THEN OnOff(s.active)
  ELSE IF op = "half" THEN OnOff(s.half) ELSE s.track]
Told(s) == IF s.track = "off" THEN Ops \ {"half"} ELSE Ops

(***************************************************************************)
(* What one call puts on the wire.                                         *)
(***************************************************************************)
If(c, orders) == IF c THEN orders ELSE <<>>

EnterOrders == <<Say("mode", "astro"), Say("ahrs", "on")>>
\* (defect) the mode is left before what depends on it is unwound
LeaveOrdersModeFirst(s) ==
  <<Say("mode", "photo")>> \o If(s.track # "off", <<Say("track", "off")>>) \o <<Say("ahrs", "off")>>
LeaveOrders(s) ==
  If(s.track # "off", <<Say("track", "off")>>) \o <<Say("ahrs", "off"), Say("mode", "photo")>>
\* (defect) half speed is only spoken of when it is wanted
TrackOrdersHalfOnly(r, h) == If(h, <<Say("half", "on")>>) \o <<Say("track", r)>>
TrackOrders(r, h) == <<Say("half", OnOff(h)), Say("track", r)>>
ArmOrders == <<Say("ahrs", "on")>>

(***************************************************************************)
(* The link as its callers see it.                                         *)
(***************************************************************************)
\* (defect) what was accepted waits for the next connection
DisconnectKeeping(sent) ==
  /\ status' = "DOWN" /\ sock' = "none" /\ UNCHANGED tx
  /\ lost' = (lost \/ sent # <<>>)
Disconnect(sent) ==
  /\ status' = "DOWN" /\ sock' = "none" /\ tx' = <<>>
  /\ lost' = (lost \/ tx # <<>> \/ sent # <<>>)

\* The orders of one call - at most three - that are among the kept.
Kept(sent, kept) ==
  If(1 \in kept, SubSeq(sent, 1, 1)) \o If(2 \in kept, SubSeq(sent, 2, 2))
    \o If(3 \in kept, SubSeq(sent, 3, 3))

\* plink_send for each order; taken is the result of the last, the only one
\* anybody looks at.  An order beyond the buffer is dropped, though a shorter
\* one after it may still fit.  A write to a broken connection closes the
\* link: the order counts as sent, the ones after it are refused.
Transmit(sent, taken) ==
  \/ /\ status = "UP" /\ Len(tx) + Len(sent) <= TxCap
     /\ tx' = tx \o sent /\ taken = TRUE
     /\ UNCHANGED <<status, sock, lost>>
  \/ /\ status = "UP" /\ Len(tx) + Len(sent) > TxCap
     /\ \E kept \in SUBSET (1..Len(sent)) :
          /\ Len(tx) + Cardinality(kept) <= TxCap
          /\ tx' = tx \o Kept(sent, kept) /\ taken = (Len(sent) \in kept)
     /\ lost' = TRUE
     /\ UNCHANGED <<status, sock>>
  \/ /\ status = "UP" /\ sock = "broken"
     /\ Len(sent) = 1 => taken
     /\ Disconnect(sent)

-----------------------------------------------------------------------------
Idle(h) == h["mode"] = "photo" /\ h["ahrs"] = "off" /\ h["track"] = "off"

\* The server may have been restarted under a head that was left in use.
Init ==
  /\ pc = "select" /\ status = "DOWN" /\ sock = "none"
  /\ a = Closed /\ tx = <<>> /\ unarmed = 0
  /\ head \in {h \in HeadState :
                 /\ h["mode"] \in {"astro", "photo"} /\ h["track"] \in Rates \cup {"off"}
                 /\ {h["ahrs"], h["half"]} \subseteq {"on", "off"}}
  /\ lost = ~Idle(head)

(***************************************************************************)
(* The loop.                                                               *)
(***************************************************************************)
Later(t, d) == IF t - d < -LateCap THEN -LateCap ELSE t - d
Aged(s, d) == IF s.active THEN [s EXCEPT !.next = Later(@, d)] ELSE s
Older(d) == IF unarmed + d > AhrsEvery + LateCap THEN AhrsEvery + LateCap ELSE unarmed + d
Pass(d) == a' = Aged(a, d) /\ unarmed' = IF a.active THEN Older(d) ELSE unarmed

\* (defect) the sleep is not cut short for the session
MaySleepThrough(d) == d <= IdleSleep
\* astro_next_deadline_ms bounds how long select() may sleep.
MaySleep(d) == d <= IdleSleep /\ (a.active => d = 0 \/ d <= a.next)

Select(d) ==
  /\ pc = "select" /\ pc' = "pump"
  /\ MaySleep(d) /\ Pass(d)
  /\ UNCHANGED <<link, head>>

\* plink_pump and telemetry_poll.  One call moves a connection one step up.
PumpIdle ==
  /\ pc = "pump" /\ pc' = "tick"
  /\ UNCHANGED <<link, a, head, unarmed>>

PumpConnect ==
  /\ pc = "pump" /\ pc' = "tick"
  /\ status = "DOWN" /\ status' = "CONNECTING"
  /\ UNCHANGED <<sock, tx, lost, a, head, unarmed>>

PumpFinish ==
  /\ pc = "pump" /\ pc' = "tick"
  /\ status = "CONNECTING"
  /\ \/ status' = "UP" /\ sock' = "ok"
     \/ status' = "DOWN" /\ sock' = "none"
  /\ UNCHANGED <<tx, lost, a, head, unarmed>>

\* The connection is found lost, or link_reconcile that it is not wanted.
PumpCloses ==
  /\ pc = "pump" /\ pc' = "tick"
  /\ status # "DOWN" /\ Disconnect(<<>>)
  /\ UNCHANGED <<a, head, unarmed>>

\* (defect) the session waits for the link to come back
TickDownWaiting ==
  /\ pc = "tick" /\ pc' = "handle"
  /\ status # "UP"
  /\ UNCHANGED <<link, a, head, unarmed>>
\* astro_tick with the link down: the session is folded without an order.
TickDown ==
  /\ pc = "tick" /\ pc' = "handle"
  /\ status # "UP"
  /\ a' = Closed /\ unarmed' = 0 /\ lost' = (lost \/ a.active)
  /\ UNCHANGED <<status, sock, tx, head>>

TickDue ==
  /\ pc = "tick" /\ pc' = "handle"
  /\ status = "UP" /\ a.active /\ a.next <= 0
  /\ a' = [a EXCEPT !.next = AhrsEvery]
  /\ \E taken \in BOOLEAN :
       Transmit(ArmOrders, taken) /\ unarmed' = IF taken THEN 0 ELSE unarmed
  /\ UNCHANGED head

TickQuiet ==
  /\ pc = "tick" /\ pc' = "handle"
  /\ status = "UP" /\ ~(a.active /\ a.next <= 0)
  /\ UNCHANGED <<link, a, head, unarmed>>

(***************************************************************************)
(* The requests of /api/astro.  A refused one changes nothing.             *)
(***************************************************************************)
Enter ==
  /\ pc = "handle" /\ pc' = "select"
  /\ status = "UP" /\ ~a.active
  /\ a' = [Closed EXCEPT !.active = TRUE, !.next = AhrsEvery]
  /\ \E taken \in BOOLEAN :
       Transmit(EnterOrders, taken) /\ unarmed' = IF taken THEN 0 ELSE unarmed
  /\ UNCHANGED head

Leave ==
  /\ pc = "handle" /\ pc' = "select"
  /\ a.active /\ a' = Closed /\ unarmed' = 0
  /\ \/ status = "UP" /\ \E taken \in BOOLEAN : Transmit(LeaveOrders(a), taken)
     \/ status # "UP" /\ lost' = TRUE /\ UNCHANGED <<status, sock, tx>>
  /\ UNCHANGED head

Align ==
  /\ pc = "handle" /\ pc' = "select"
  /\ status = "UP" /\ a.active
  /\ \E taken \in BOOLEAN : Transmit(<<Other>>, taken)
  /\ UNCHANGED <<a, head, unarmed>>

\* What is asked for is kept only if the last of the orders was taken.
TrackOn(r, h) ==
  /\ pc = "handle" /\ pc' = "select"
  /\ status = "UP" /\ a.active
  /\ \E taken \in BOOLEAN :
       /\ Transmit(TrackOrders(r, h), taken)
       /\ a' = IF taken THEN [a EXCEPT !.track = r, !.half = h] ELSE a
  /\ UNCHANGED <<head, unarmed>>

TrackOff ==
  /\ pc = "handle" /\ pc' = "select"
  /\ status = "UP" /\ a.active
  /\ \E taken \in BOOLEAN :
       /\ Transmit(<<Say("track", "off")>>, taken)
       /\ a' = IF taken THEN [a EXCEPT !.track = "off"] ELSE a
  /\ UNCHANGED <<head, unarmed>>

\* No request, or one of another part of the server: it may hold the thread
\* for d, and may send an order of its own.
OtherRequest(d) ==
  /\ pc = "handle" /\ pc' = "select"
  /\ Pass(d)
  /\ UNCHANGED link \/ \E taken \in BOOLEAN : Transmit(<<Other>>, taken)
  /\ UNCHANGED head

(***************************************************************************)
(* The world.                                                              *)
(***************************************************************************)
Cut ==
  /\ sock = "ok" /\ sock' = "broken"
  /\ UNCHANGED <<pc, status, a, tx, head, lost, unarmed>>

HeadReads ==
  /\ sock = "ok" /\ tx # <<>>
  /\ head' = Obey(head, Head(tx)) /\ tx' = Tail(tx)
  /\ UNCHANGED <<pc, status, sock, a, lost, unarmed>>

Pump == PumpIdle \/ PumpConnect \/ PumpFinish \/ PumpCloses
Tick == TickDown \/ TickDue \/ TickQuiet
Handle ==
  \/ Enter \/ Leave \/ Align \/ TrackOff
  \/ \E r \in Rates, h \in BOOLEAN : TrackOn(r, h)
  \/ \E d \in 0..HandleMax : OtherRequest(d)

Next ==
  \/ \E d \in 0..IdleSleep : Select(d)
  \/ Pump \/ Tick \/ Handle \/ Cut \/ HeadReads

Spec == Init /\ [][Next]_vars

-----------------------------------------------------------------------------
(***************************************************************************)
(* Properties.                                                             *)
(***************************************************************************)
TypeOK ==
  /\ pc \in {"select", "pump", "tick", "handle"}
  /\ status \in {"DOWN", "CONNECTING", "UP"}
  /\ sock \in {"none", "ok", "broken"}
  /\ a \in Session
  /\ tx \in Seq(Order)
  /\ head \in HeadState
  /\ lost \in BOOLEAN
  /\ unarmed \in 0..(AhrsEvery + LateCap)

\* Once a head set to h has read the first n orders of q, its op is v.
After(h, q, n, op, v) ==
  \/ h[op] = v /\ \A i \in 1..n : q[i].op # op
  \/ \E i \in 1..n : /\ q[i].op = op /\ q[i].arg = v
                     /\ \A j \in (i+1)..n : q[j].op # op

\* The page shows what the session asked for (astro_status_json); as long as
\* no order was discarded, that is what the head is set to once it has read
\* what is on its way: mode, push, tracking and, while it tracks, the speed.
HeadIsAsAsked ==
  ~lost => \A op \in Told(a) : After(head, tx, Len(tx), op, Belief(a)[op])

\* "The head will not track until it is in mode 8, and you cannot leave mode 8
\* while tracking" (polaris-astro.h): at no point of its reading does the head
\* see an order that is out of order.
TracksInItsMode == ~lost => (head["mode"] # "astro" => head["track"] = "off")

\* "Re-sent about every 5 s or the quaternion stream stops" (polaris-astro.h):
\* the push of an open session is re-armed every AhrsEvery, late by no more
\* than the request that held the loop, whatever else the server does.
PushRearmed ==
  a.active /\ status = "UP" /\ ~lost => unarmed <= AhrsEvery + HandleMax

\* "The session cannot survive a link loss" (astro_tick): the next link begins
\* with no session and no order of the old one.
SessionEndsWithLink ==
  [][status # "UP" /\ status' = "UP" => ~a.active /\ tx = <<>>]_vars

\* The link assumed here is the one polaris-link.c is shown to implement.
Link == INSTANCE LinkSession WITH waiting <- tx # <<>>
ImplementsSession == Link!Spec

\* "Leaving while tracking stops tracking first" (test_astro.c): a head that is
\* told to leave its mode is not tracking, also after a link was lost.
LeavingStopsTracking ==
  [][head["mode"] = "astro" /\ head'["mode"] = "photo" => head["track"] = "off"]_vars
=============================================================================
