------------------------ MODULE AstroSession_proofs ------------------------
(***************************************************************************)
(* Proofs about AstroSession, for every timing and every buffer.           *)
(*                                                                         *)
(* HeadInv is the heart: as long as nothing was discarded the head, after  *)
(* the orders on their way, is set as the session asks, and at every point *)
(* of its reading it is in mode 8 or does not track.  The first lemmas say *)
(* what one more order at the back, and one less at the front, do to such  *)
(* a queue.  PushInv ties the time since the push was re-armed to the time *)
(* left to the next; LateInv bounds that time stage by stage of the pass.  *)
(***************************************************************************)
EXTENDS AstroSession, SequenceTheorems, TLAPS

AtEnd(h, q, op, v) == After(h, q, Len(q), op, v)
InMode(h, q, n) == After(h, q, n, "mode", "astro") \/ After(h, q, n, "track", "off")
Ordered(h, q) == \A n \in 0..Len(q) : InMode(h, q, n)
AsAsked(h, q, s) == \A op \in Told(s) : AtEnd(h, q, op, Belief(s)[op])

SessionInv ==
  /\ ~a.active => a = Closed /\ unarmed = 0
  /\ status # "UP" => tx = <<>>
  /\ status = "CONNECTING" /\ pc # "tick" => ~a.active
LateInv ==
  a.active =>
    /\ a.next >= -HandleMax
    /\ pc = "handle" => a.next >= 1
PushInv == a.active /\ ~lost => unarmed + a.next <= AhrsEvery
HeadInv == ~lost => AsAsked(head, tx, a) /\ Ordered(head, tx)

IInv == TypeOK /\ SessionInv /\ LateInv /\ PushInv /\ HeadInv

-----------------------------------------------------------------------------
(* The queue between the server and the head *)

LEMMA ReadAfter ==
  ASSUME NEW h \in HeadState, NEW q \in Seq(Order), q # <<>>,
         NEW n \in 0..Len(Tail(q)), NEW op \in Ops, NEW v,
         After(h, q, n + 1, op, v)
  PROVE  After(Obey(h, Head(q)), Tail(q), n, op, v)
<1> DEFINE t == Tail(q)
           k == Obey(h, Head(q))
<1>1. /\ Len(t) = Len(q) - 1 /\ Len(q) \in Nat /\ n + 1 <= Len(q) /\ n \in Nat
      /\ \A i \in 1..n : t[i] = q[i + 1]
      /\ Head(q) = q[1] /\ q[1] \in Order
  OBVIOUS
<1>2. k[op] = IF q[1].op = op THEN q[1].arg ELSE h[op]
  BY <1>1 DEF Obey, HeadState, Order
<1>3. CASE h[op] = v /\ \A i \in 1..(n + 1) : q[i].op # op
  BY <1>1, <1>2, <1>3 DEF After
<1>4. CASE \E i \in 1..(n + 1) : /\ q[i].op = op /\ q[i].arg = v
                                 /\ \A j \in (i+1)..(n + 1) : q[j].op # op
  <2>1. PICK i \in 1..(n + 1) : /\ q[i].op = op /\ q[i].arg = v
                                /\ \A j \in (i+1)..(n + 1) : q[j].op # op
    BY <1>4
  <2>2. \A j \in 1..n : j >= i => t[j].op # op
    BY <2>1, <1>1
  <2>3. CASE i = 1
    BY <2>1, <2>2, <2>3, <1>1, <1>2 DEF After
  <2>4. CASE i # 1
    <3>1. i - 1 \in 1..n /\ t[i - 1] = q[i]
      BY <2>4, <1>1
    <3>2. \A j \in ((i - 1) + 1)..n : t[j].op # op
      BY <2>2
    <3> QED BY <3>1, <3>2, <2>1 DEF After
  <2> QED BY <2>3, <2>4
<1> QED BY <1>3, <1>4 DEF After

\* An order further back changes nothing of what the head is before it ...
LEMMA AppendPrefix ==
  ASSUME NEW h \in HeadState, NEW q \in Seq(Order), NEW o \in Order,
         NEW n \in 0..Len(q), NEW op, NEW v
  PROVE  After(h, Append(q, o), n, op, v) <=> After(h, q, n, op, v)
<1>1. /\ Len(q) \in Nat /\ n \in Nat /\ n <= Len(q)
      /\ \A i \in 1..n : Append(q, o)[i] = q[i]
  OBVIOUS
<1> QED BY <1>1 DEF After

\* ... it sets its own op and leaves the others.
LEMMA AppendEnd ==
  ASSUME NEW h \in HeadState, NEW q \in Seq(Order), NEW o \in Order, NEW op, NEW v
  PROVE  /\ Append(q, o) \in Seq(Order) /\ Len(Append(q, o)) = Len(q) + 1
         /\ o.op = op /\ o.arg = v => AtEnd(h, Append(q, o), op, v)
         /\ o.op # op /\ AtEnd(h, q, op, v) => AtEnd(h, Append(q, o), op, v)
<1> DEFINE r == Append(q, o)
<1>1. /\ Len(q) \in Nat /\ r \in Seq(Order) /\ Len(r) = Len(q) + 1 /\ r[Len(q) + 1] = o
      /\ \A i \in 1..Len(q) : r[i] = q[i]
  OBVIOUS
<1>2. ASSUME o.op = op, o.arg = v PROVE AtEnd(h, r, op, v)
  BY <1>1, <1>2 DEF AtEnd, After
<1>3. ASSUME o.op # op, AtEnd(h, q, op, v) PROVE AtEnd(h, r, op, v)
  <2>1. \A i \in 1..(Len(q) + 1) : r[i].op = op => i <= Len(q) /\ q[i].op = op
    BY <1>1, <1>3
  <2> QED BY <1>1, <1>3, <2>1 DEF AtEnd, After
<1> QED BY <1>1, <1>2, <1>3

\* An order may be queued when the head is still in its mode after it.
LEMMA AppendOrdered ==
  ASSUME NEW h \in HeadState, NEW q \in Seq(Order), NEW o \in Order, Ordered(h, q),
         \/ AtEnd(h, Append(q, o), "mode", "astro")
         \/ AtEnd(h, Append(q, o), "track", "off")
  PROVE  Ordered(h, Append(q, o))
<1> DEFINE r == Append(q, o)
<1>1. Len(r) = Len(q) + 1 /\ Len(q) \in Nat
  OBVIOUS
<1>2. ASSUME NEW n \in 0..Len(q) PROVE InMode(h, r, n)
  BY AppendPrefix DEF Ordered, InMode
<1>3. InMode(h, r, Len(q) + 1)
  BY <1>1 DEF InMode, AtEnd
<1>4. \A n \in 0..Len(r) : n \in 0..Len(q) \/ n = Len(q) + 1
  BY <1>1
<1> QED BY <1>2, <1>3, <1>4 DEF Ordered

LEMMA ReadOrdered ==
  ASSUME NEW h \in HeadState, NEW q \in Seq(Order), q # <<>>, Ordered(h, q)
  PROVE  Ordered(Obey(h, Head(q)), Tail(q))
<1> SUFFICES ASSUME NEW n \in 0..Len(Tail(q))
             PROVE  InMode(Obey(h, Head(q)), Tail(q), n)
  BY DEF Ordered
<1>1. n + 1 \in 0..Len(q)
  OBVIOUS
<1>2. InMode(h, q, n + 1)
  BY <1>1 DEF Ordered
<1>3. "mode" \in Ops /\ "track" \in Ops
  BY DEF Ops
<1> QED BY <1>2, <1>3, ReadAfter DEF InMode

LEMMA ReadAsAsked ==
  ASSUME NEW h \in HeadState, NEW q \in Seq(Order), q # <<>>, NEW s, AsAsked(h, q, s)
  PROVE  AsAsked(Obey(h, Head(q)), Tail(q), s)
<1>1. Len(Tail(q)) \in 0..Len(Tail(q)) /\ Len(Tail(q)) + 1 = Len(q)
  OBVIOUS
<1>2. ASSUME NEW op \in Told(s) PROVE AtEnd(Obey(h, Head(q)), Tail(q), op, Belief(s)[op])
  <2>1. op \in Ops BY DEF Told
  <2>2. After(h, q, Len(Tail(q)) + 1, op, Belief(s)[op])
    BY <1>1 DEF AsAsked, AtEnd
  <2> QED BY <1>1, <2>1, <2>2, ReadAfter DEF AtEnd
<1> QED BY <1>2 DEF AsAsked

\* What an empty queue leaves the head at is what it is.
LEMMA Empty ==
  ASSUME NEW h \in HeadState, NEW op, NEW v
  PROVE  AtEnd(h, <<>>, op, v) <=> h[op] = v
<1>1. Len(<<>>) = 0 OBVIOUS
<1> QED BY <1>1 DEF AtEnd, After

LEMMA NoneRead ==
  ASSUME NEW h \in HeadState, NEW q \in Seq(Order), Ordered(h, q)
  PROVE  h["mode"] = "astro" \/ h["track"] = "off"
<1>1. 0 \in 0..Len(q) OBVIOUS
<1>2. InMode(h, q, 0) BY <1>1 DEF Ordered
<1> QED BY <1>2 DEF InMode, After

-----------------------------------------------------------------------------
(* What each operation queues *)

Mode(s) == IF s.active THEN "astro" ELSE "photo"

LEMMA AsAskedIs ==
  ASSUME NEW h, NEW q, NEW s \in Session
  PROVE  AsAsked(h, q, s) <=>
           /\ AtEnd(h, q, "mode", Mode(s))
           /\ AtEnd(h, q, "ahrs", OnOff(s.active))
           /\ AtEnd(h, q, "track", s.track)
           /\ s.track # "off" => AtEnd(h, q, "half", OnOff(s.half))
<1>1. /\ Belief(s)["mode"] = Mode(s) /\ Belief(s)["ahrs"] = OnOff(s.active)
      /\ Belief(s)["half"] = OnOff(s.half) /\ Belief(s)["track"] = s.track
  BY DEF Belief, Ops, Mode
<1>2. Told(s) = IF s.track = "off" THEN {"mode", "ahrs", "track"}
                ELSE {"mode", "ahrs", "track", "half"}
  BY DEF Told, Ops
<1> QED BY <1>1, <1>2 DEF AsAsked

LEMMA Sayings ==
  /\ Closed \in Session
  /\ Other \in Order
  /\ \A b \in BOOLEAN : OnOff(b) \in Args
  /\ \A op \in Ops, arg \in Args : Say(op, arg) \in Order
  /\ EnterOrders \in Seq(Order) /\ ArmOrders \in Seq(Order) /\ <<Other>> \in Seq(Order)
  /\ <<Say("track", "off")>> \in Seq(Order)
<1>1. Closed \in Session
  BY TimeAssumption DEF Closed, Session
<1>2. Other \in Order
  BY DEF Other, Say, Order, Args
<1>3. \A b \in BOOLEAN : OnOff(b) \in Args
  BY DEF OnOff, Args
<1>4. \A op \in Ops, arg \in Args : Say(op, arg) \in Order
  BY DEF Say, Order
<1>5. /\ Say("mode", "astro") \in Order /\ Say("ahrs", "on") \in Order
      /\ Say("track", "off") \in Order
  BY <1>4 DEF Ops, Args
<1>6. EnterOrders \in Seq(Order)
  BY <1>5 DEF EnterOrders
<1>7. ArmOrders \in Seq(Order)
  BY <1>5 DEF ArmOrders
<1>8. <<Other>> \in Seq(Order)
  BY <1>2
<1>9. <<Say("track", "off")>> \in Seq(Order)
  BY <1>5
<1> QED BY <1>1, <1>2, <1>3, <1>4, <1>6, <1>7, <1>8, <1>9

LEMMA TrackTypes ==
  ASSUME NEW r \in Rates, NEW f \in BOOLEAN
  PROVE  TrackOrders(r, f) \in Seq(Order)
<1>1. Say("half", OnOff(f)) \in Order /\ Say("track", r) \in Order
  BY Sayings DEF Ops, Args
<1> QED BY <1>1 DEF TrackOrders

LEMMA LeaveTypes ==
  ASSUME NEW s
  PROVE  LeaveOrders(s) \in Seq(Order)
<1>1. /\ Say("track", "off") \in Order /\ Say("ahrs", "off") \in Order
      /\ Say("mode", "photo") \in Order
  BY Sayings DEF Ops, Args
<1>2. /\ <<Say("track", "off")>> \in Seq(Order) /\ <<>> \in Seq(Order)
      /\ <<Say("ahrs", "off"), Say("mode", "photo")>> \in Seq(Order)
  BY <1>1
<1> QED BY <1>2 DEF LeaveOrders, If

LEMMA EnterQueues ==
  ASSUME NEW h \in HeadState, NEW q \in Seq(Order), NEW s \in Session,
         AsAsked(h, q, Closed), Ordered(h, q), s.active, s.track = "off"
  PROVE  AsAsked(h, q \o EnterOrders, s) /\ Ordered(h, q \o EnterOrders)
<1> DEFINE o1 == Say("mode", "astro")
           o2 == Say("ahrs", "on")
           q1 == Append(q, o1)
           q2 == Append(q1, o2)
<1>1. o1 \in Order /\ o2 \in Order
  BY Sayings DEF Ops, Args
<1>2. q \o EnterOrders = q2 /\ q1 \in Seq(Order)
  BY <1>1 DEF EnterOrders
<1>3. AtEnd(h, q, "track", "off")
  BY AsAskedIs, Sayings DEF Closed
<1>4. /\ o1.op = "mode" /\ o1.arg = "astro" /\ o2.op = "ahrs" /\ o2.arg = "on"
  BY DEF Say
<1>5. AtEnd(h, q1, "mode", "astro") /\ AtEnd(h, q1, "track", "off")
  BY <1>1, <1>3, <1>4, AppendEnd
<1>6. AtEnd(h, q2, "mode", "astro") /\ AtEnd(h, q2, "track", "off") /\ AtEnd(h, q2, "ahrs", "on")
  BY <1>1, <1>2, <1>4, <1>5, AppendEnd
<1>7. Ordered(h, q1)
  BY <1>1, <1>5, AppendOrdered
<1>8. Ordered(h, q2)
  BY <1>1, <1>2, <1>6, <1>7, AppendOrdered
<1>9. AsAsked(h, q2, s)
  BY <1>6, AsAskedIs DEF Mode, OnOff
<1> QED BY <1>2, <1>8, <1>9

\* An order that leaves all settings as they are asked for.
LEMMA SameQueues ==
  ASSUME NEW h \in HeadState, NEW q \in Seq(Order), NEW s \in Session, NEW o \in Order,
         AsAsked(h, q, s), Ordered(h, q), s.active \/ s.track = "off",
         \/ o.op = "other"
         \/ o.op = "ahrs" /\ o.arg = OnOff(s.active)
  PROVE  AsAsked(h, q \o <<o>>, s) /\ Ordered(h, q \o <<o>>)
<1> DEFINE r == Append(q, o)
<1>1. q \o <<o>> = r
  OBVIOUS
<1>2. /\ AtEnd(h, q, "mode", Mode(s)) /\ AtEnd(h, q, "ahrs", OnOff(s.active))
      /\ AtEnd(h, q, "track", s.track)
      /\ s.track # "off" => AtEnd(h, q, "half", OnOff(s.half))
  BY AsAskedIs
<1>3. /\ AtEnd(h, r, "mode", Mode(s)) /\ AtEnd(h, r, "ahrs", OnOff(s.active))
      /\ AtEnd(h, r, "track", s.track)
      /\ s.track # "off" => AtEnd(h, r, "half", OnOff(s.half))
  BY <1>2, AppendEnd
<1>4. AsAsked(h, r, s)
  BY <1>3, AsAskedIs
<1>5. Ordered(h, r)
  BY <1>3, AppendOrdered DEF Mode
<1> QED BY <1>1, <1>4, <1>5

LEMMA TrackQueues ==
  ASSUME NEW h \in HeadState, NEW q \in Seq(Order), NEW s \in Session, NEW t \in Session,
         NEW r \in Rates, NEW f \in BOOLEAN,
         AsAsked(h, q, s), Ordered(h, q), s.active, t.active, t.track = r, t.half = f
  PROVE  AsAsked(h, q \o TrackOrders(r, f), t) /\ Ordered(h, q \o TrackOrders(r, f))
<1> DEFINE o1 == Say("half", OnOff(f))
           o2 == Say("track", r)
           q1 == Append(q, o1)
           q2 == Append(q1, o2)
<1>1. o1 \in Order /\ o2 \in Order
  BY Sayings DEF Ops, Args
<1>2. q \o TrackOrders(r, f) = q2 /\ q1 \in Seq(Order)
  BY <1>1 DEF TrackOrders
<1>3. AtEnd(h, q, "mode", "astro") /\ AtEnd(h, q, "ahrs", "on")
  BY AsAskedIs DEF Mode, OnOff
<1>4. /\ o1.op = "half" /\ o1.arg = OnOff(f) /\ o2.op = "track" /\ o2.arg = r
  BY DEF Say
<1>5. AtEnd(h, q1, "mode", "astro") /\ AtEnd(h, q1, "ahrs", "on") /\ AtEnd(h, q1, "half", OnOff(f))
  BY <1>1, <1>3, <1>4, AppendEnd
<1>6. /\ AtEnd(h, q2, "mode", "astro") /\ AtEnd(h, q2, "ahrs", "on")
      /\ AtEnd(h, q2, "half", OnOff(f)) /\ AtEnd(h, q2, "track", r)
  BY <1>1, <1>2, <1>4, <1>5, AppendEnd
<1>7. Ordered(h, q1)
  BY <1>1, <1>5, AppendOrdered
<1>8. Ordered(h, q2)
  BY <1>1, <1>2, <1>6, <1>7, AppendOrdered
<1>9. AsAsked(h, q2, t)
  BY <1>6, AsAskedIs DEF Mode, OnOff
<1> QED BY <1>2, <1>8, <1>9

LEMMA StopQueues ==
  ASSUME NEW h \in HeadState, NEW q \in Seq(Order), NEW s \in Session, NEW t \in Session,
         AsAsked(h, q, s), Ordered(h, q), s.active, t.active, t.track = "off"
  PROVE  LET r == q \o <<Say("track", "off")>>
         IN  r \in Seq(Order) /\ AsAsked(h, r, t) /\ Ordered(h, r)
<1> DEFINE o == Say("track", "off")
           r == Append(q, o)
<1>1. o \in Order
  BY Sayings DEF Ops, Args
<1>2. q \o <<o>> = r /\ r \in Seq(Order)
  BY <1>1
<1>3. AtEnd(h, q, "mode", "astro") /\ AtEnd(h, q, "ahrs", "on")
  BY AsAskedIs DEF Mode, OnOff
<1>4. o.op = "track" /\ o.arg = "off"
  BY DEF Say
<1>5. AtEnd(h, r, "mode", "astro") /\ AtEnd(h, r, "ahrs", "on") /\ AtEnd(h, r, "track", "off")
  BY <1>1, <1>3, <1>4, AppendEnd
<1>6. Ordered(h, r)
  BY <1>1, <1>5, AppendOrdered
<1>7. AsAsked(h, r, t)
  BY <1>5, AsAskedIs DEF Mode, OnOff
<1> QED BY <1>2, <1>6, <1>7

\* Leaving: first the tracking, if any, then the rest.
LEMMA LeaveQueues ==
  ASSUME NEW h \in HeadState, NEW q \in Seq(Order), NEW s \in Session,
         AsAsked(h, q, s), Ordered(h, q), s.active
  PROVE  AsAsked(h, q \o LeaveOrders(s), Closed) /\ Ordered(h, q \o LeaveOrders(s))
<1> DEFINE o1 == Say("ahrs", "off")
           o2 == Say("mode", "photo")
           first == If(s.track # "off", <<Say("track", "off")>>)
           q0 == q \o first
           q1 == Append(q0, o1)
           q2 == Append(q1, o2)
<1>1. o1 \in Order /\ o2 \in Order
  BY Sayings DEF Ops, Args
<1>2. q0 \in Seq(Order) /\ Ordered(h, q0) /\ AtEnd(h, q0, "track", "off")
  <2>1. CASE s.track = "off"
    <3>1. q0 = q BY <2>1 DEF If
    <3> QED BY <2>1, <3>1, AsAskedIs
  <2>2. CASE s.track # "off"
    <3> DEFINE t == [s EXCEPT !.track = "off"]
    <3>1. t \in Session /\ t.active /\ t.track = "off"
      BY DEF Session
    <3>2. q0 = q \o <<Say("track", "off")>>
      BY <2>2 DEF If
    <3>3. q0 \in Seq(Order) /\ AsAsked(h, q0, t) /\ Ordered(h, q0)
      BY <3>1, <3>2, StopQueues
    <3>4. AtEnd(h, q0, "track", t.track)
      BY <3>1, <3>3, AsAskedIs
    <3> QED BY <3>1, <3>3, <3>4
  <2> QED BY <2>1, <2>2
<1>3. q \o LeaveOrders(s) = q2 /\ q1 \in Seq(Order)
  <2>1. first \in Seq(Order)
    BY Sayings DEF If
  <2>2. LeaveOrders(s) = first \o <<o1, o2>>
    BY DEF LeaveOrders
  <2> HIDE DEF first
  <2> QED BY <1>1, <1>2, <2>1, <2>2
<1> HIDE DEF q0
<1>4. /\ o1.op = "ahrs" /\ o1.arg = "off" /\ o2.op = "mode" /\ o2.arg = "photo"
  BY DEF Say
<1>5. AtEnd(h, q1, "track", "off") /\ AtEnd(h, q1, "ahrs", "off")
  BY <1>1, <1>2, <1>4, AppendEnd
<1>6. AtEnd(h, q2, "track", "off") /\ AtEnd(h, q2, "ahrs", "off") /\ AtEnd(h, q2, "mode", "photo")
  BY <1>1, <1>3, <1>4, <1>5, AppendEnd
<1>7. Ordered(h, q1)
  BY <1>1, <1>2, <1>5, AppendOrdered
<1>8. Ordered(h, q2)
  BY <1>1, <1>3, <1>6, <1>7, AppendOrdered
<1>9. AsAsked(h, q2, Closed)
  BY <1>6, AsAskedIs, Sayings DEF Mode, OnOff, Closed
<1> QED BY <1>3, <1>8, <1>9

-----------------------------------------------------------------------------
(* The link *)

LEMMA KeptTypes ==
  ASSUME NEW sent \in Seq(Order), NEW kept \in SUBSET (1..Len(sent))
  PROVE  Kept(sent, kept) \in Seq(Order)
<1>1. ASSUME NEW k \in 1..3 PROVE If(k \in kept, SubSeq(sent, k, k)) \in Seq(Order)
  <2>1. CASE k \in kept
    <3>1. k \in 1..Len(sent) BY <2>1
    <3>2. SubSeq(sent, k, k) \in Seq(Order) BY <3>1
    <3> QED BY <2>1, <3>2 DEF If
  <2>2. CASE k \notin kept
    <3>1. <<>> \in Seq(Order) OBVIOUS
    <3> QED BY <2>2, <3>1 DEF If
  <2> QED BY <2>1, <2>2
<1>2. /\ If(1 \in kept, SubSeq(sent, 1, 1)) \in Seq(Order)
      /\ If(2 \in kept, SubSeq(sent, 2, 2)) \in Seq(Order)
      /\ If(3 \in kept, SubSeq(sent, 3, 3)) \in Seq(Order)
  BY <1>1
<1> QED BY <1>2 DEF Kept

LEMMA TransmitTypes ==
  ASSUME TypeOK, NEW sent \in Seq(Order), NEW taken \in BOOLEAN, Transmit(sent, taken)
  PROVE  /\ status = "UP" /\ status' \in {"DOWN", "UP"} /\ sock' \in {"none", "ok", "broken"}
         /\ tx' \in Seq(Order) /\ lost' \in BOOLEAN
         /\ status' # "UP" => tx' = <<>>
<1>1. CASE UNCHANGED <<status, sock, lost>> /\ status = "UP" /\ tx' = tx \o sent
  BY <1>1 DEF TypeOK
<1>2. CASE /\ status = "UP" /\ lost' = TRUE /\ UNCHANGED <<status, sock>>
           /\ \E kept \in SUBSET (1..Len(sent)) : tx' = tx \o Kept(sent, kept)
  BY <1>2, KeptTypes DEF TypeOK
<1>3. CASE status = "UP" /\ Disconnect(sent)
  BY <1>3 DEF Disconnect, TypeOK
<1> QED BY <1>1, <1>2, <1>3 DEF Transmit

\* If nothing was lost, all was queued and nothing else happened.
LEMMA TransmitWhole ==
  ASSUME NEW sent, sent # <<>>, NEW taken, Transmit(sent, taken), ~lost'
  PROVE  /\ ~lost /\ taken = TRUE /\ tx' = tx \o sent
         /\ status = "UP" /\ UNCHANGED <<status, sock>>
<1>1. CASE UNCHANGED <<status, sock, lost>> /\ status = "UP" /\ tx' = tx \o sent /\ taken = TRUE
  BY <1>1
<1>2. CASE lost' = TRUE
  BY <1>2
<1>3. CASE Disconnect(sent)
  BY <1>3 DEF Disconnect
<1> QED BY <1>1, <1>2, <1>3 DEF Transmit

LEMMA Nonempty ==
  /\ EnterOrders # <<>> /\ ArmOrders # <<>> /\ <<Other>> # <<>>
  /\ <<Say("track", "off")>> # <<>>
  /\ \A s : LeaveOrders(s) # <<>>
  /\ \A r, f : TrackOrders(r, f) # <<>>
<1>1. ASSUME NEW s PROVE LeaveOrders(s) # <<>>
  <2>1. CASE s.track # "off"
    <3>1. LeaveOrders(s) = <<Say("track", "off")>> \o <<Say("ahrs", "off"), Say("mode", "photo")>>
      BY <2>1 DEF LeaveOrders, If
    <3> QED BY <3>1
  <2>2. CASE s.track = "off"
    <3>1. LeaveOrders(s) = <<>> \o <<Say("ahrs", "off"), Say("mode", "photo")>>
      BY <2>2 DEF LeaveOrders, If
    <3> QED BY <3>1
  <2> QED BY <2>1, <2>2
<1> QED BY <1>1 DEF EnterOrders, ArmOrders, TrackOrders

-----------------------------------------------------------------------------
(* Time *)

LEMMA Numbers ==
  ASSUME TypeOK
  PROVE  /\ AhrsEvery \in Nat /\ AhrsEvery >= 1 /\ IdleSleep \in Nat
         /\ HandleMax \in Nat /\ LateCap \in Nat /\ HandleMax < LateCap
         /\ a.next \in Int /\ a.next >= -LateCap /\ a.next <= AhrsEvery
         /\ unarmed \in Nat /\ unarmed <= AhrsEvery + LateCap
BY TimeAssumption DEF TypeOK, Session

LEMMA Passing ==
  ASSUME TypeOK, NEW d \in Nat, Pass(d)
  PROVE  /\ a' \in Session /\ unarmed' \in 0..(AhrsEvery + LateCap)
         /\ a'.active = a.active /\ a'.track = a.track /\ a'.half = a.half
         /\ a.active => /\ a'.next >= a.next - d
                        /\ a'.next = a.next - d \/ a'.next = -LateCap
                        /\ unarmed' <= unarmed + d
         /\ ~a.active => a' = a /\ unarmed' = unarmed
<1>1. CASE a.active
  <2>1. a' = [a EXCEPT !.next = Later(a.next, d)]
    BY <1>1 DEF Pass, Aged
  <2>2. /\ Later(a.next, d) \in (-LateCap)..AhrsEvery /\ Later(a.next, d) >= a.next - d
        /\ Later(a.next, d) = a.next - d \/ Later(a.next, d) = -LateCap
    BY Numbers DEF Later
  <2>3. unarmed' \in 0..(AhrsEvery + LateCap) /\ unarmed' <= unarmed + d
    BY <1>1, Numbers DEF Pass, Older
  <2>4. a \in Session
    BY DEF TypeOK
  <2>5. /\ a' \in Session /\ a'.active = a.active /\ a'.track = a.track /\ a'.half = a.half
        /\ a'.next = Later(a.next, d)
    BY <2>1, <2>2, <2>4 DEF Session
  <2> QED BY <1>1, <2>2, <2>3, <2>5
<1>2. CASE ~a.active
  BY <1>2 DEF Pass, Aged, TypeOK
<1> QED BY <1>1, <1>2 DEF TypeOK, Session

\* A pass of time keeps what does not speak of it.
LEMMA PassingAsAsked ==
  ASSUME NEW h, NEW q, NEW s \in Session, NEW t \in Session,
         t.active = s.active, t.track = s.track, t.half = s.half, AsAsked(h, q, s)
  PROVE  AsAsked(h, q, t)
BY AsAskedIs DEF Mode

-----------------------------------------------------------------------------
(* The initial state *)

LEMMA InitIInv == Init => IInv
<1> SUFFICES ASSUME Init PROVE IInv OBVIOUS
<1>1. TypeOK
  <2>1. 0 \in 0..(AhrsEvery + LateCap)
    BY TimeAssumption
  <2>2. lost \in BOOLEAN
    BY DEF Init
  <2> QED BY <2>1, <2>2, Sayings DEF Init, TypeOK
<1>2. SessionInv /\ LateInv /\ PushInv
  BY DEF Init, SessionInv, LateInv, PushInv, Closed
<1>3. HeadInv
  <2> SUFFICES ASSUME ~lost PROVE AsAsked(head, tx, a) /\ Ordered(head, tx)
    BY DEF HeadInv
  <2>1. head["mode"] = "photo" /\ head["ahrs"] = "off" /\ head["track"] = "off"
    BY DEF Init, Idle
  <2>2. tx = <<>> /\ head \in HeadState /\ a = Closed
    BY DEF Init
  <2>3. /\ AtEnd(head, tx, "mode", "photo") /\ AtEnd(head, tx, "ahrs", "off")
        /\ AtEnd(head, tx, "track", "off")
    BY <2>1, <2>2, Empty
  <2>4. AsAsked(head, tx, a)
    BY <2>2, <2>3, AsAskedIs, Sayings DEF Closed, Mode, OnOff
  <2>5. \A n \in 0..Len(tx) : n = Len(tx)
    BY <2>2
  <2>6. Ordered(head, tx)
    BY <2>3, <2>5 DEF Ordered, InMode, AtEnd
  <2> QED BY <2>4, <2>6
<1> QED BY <1>1, <1>2, <1>3 DEF IInv

-----------------------------------------------------------------------------
(* Types *)

LEMMA NextTypeOK == TypeOK /\ [Next]_vars => TypeOK'
<1> SUFFICES ASSUME TypeOK, [Next]_vars PROVE TypeOK' OBVIOUS
<1>0. 0 \in 0..(AhrsEvery + LateCap) /\ AhrsEvery \in (-LateCap)..AhrsEvery
  BY TimeAssumption
<1>1. ASSUME NEW d \in 0..IdleSleep, Select(d) PROVE TypeOK'
  <2>1. d \in Nat BY Numbers
  <2> QED BY <1>1, <2>1, Passing DEF Select, TypeOK, link
<1>2. CASE PumpIdle \/ PumpConnect \/ PumpFinish
  BY <1>2 DEF PumpIdle, PumpConnect, PumpFinish, TypeOK, link
<1>3. CASE PumpCloses
  <2>1. <<>> \in Seq(Order) OBVIOUS
  <2> QED BY <1>3, <2>1 DEF PumpCloses, Disconnect, TypeOK
<1>4. CASE TickDown
  BY <1>4, <1>0, Sayings DEF TickDown, TypeOK
<1>5. CASE TickDue
  <2>1. PICK taken \in BOOLEAN :
          Transmit(ArmOrders, taken) /\ unarmed' = IF taken THEN 0 ELSE unarmed
    BY <1>5 DEF TickDue
  <2>2. a' \in Session
    BY <1>5, <1>0 DEF TickDue, TypeOK, Session
  <2> QED BY <1>5, <1>0, <2>1, <2>2, TransmitTypes, Sayings DEF TickDue, TypeOK
<1>6. CASE TickQuiet
  BY <1>6 DEF TickQuiet, TypeOK, link
<1>7. CASE Enter
  <2>1. PICK taken \in BOOLEAN :
          Transmit(EnterOrders, taken) /\ unarmed' = IF taken THEN 0 ELSE unarmed
    BY <1>7 DEF Enter
  <2>2. a' \in Session
    BY <1>7, <1>0, Sayings DEF Enter, Session
  <2> QED BY <1>7, <1>0, <2>1, <2>2, TransmitTypes, Sayings DEF Enter, TypeOK
<1>8. CASE Leave
  <2>1. CASE \E taken \in BOOLEAN : Transmit(LeaveOrders(a), taken)
    BY <1>8, <1>0, <2>1, TransmitTypes, LeaveTypes, Sayings DEF Leave, TypeOK
  <2>2. CASE lost' = TRUE /\ UNCHANGED <<status, sock, tx>>
    BY <1>8, <1>0, <2>2, Sayings DEF Leave, TypeOK
  <2> QED BY <1>8, <2>1, <2>2 DEF Leave
<1>9. CASE Align
  BY <1>9, TransmitTypes, Sayings DEF Align, TypeOK
<1>10. ASSUME NEW r \in Rates, NEW h \in BOOLEAN, TrackOn(r, h) PROVE TypeOK'
  <2>1. PICK taken \in BOOLEAN :
          /\ Transmit(TrackOrders(r, h), taken)
          /\ a' = IF taken THEN [a EXCEPT !.track = r, !.half = h] ELSE a
    BY <1>10 DEF TrackOn
  <2>2. a' \in Session
    BY <2>1 DEF TypeOK, Session
  <2> QED BY <1>10, <2>1, <2>2, TransmitTypes, TrackTypes DEF TrackOn, TypeOK
<1>11. CASE TrackOff
  <2>1. PICK taken \in BOOLEAN :
          /\ Transmit(<<Say("track", "off")>>, taken)
          /\ a' = IF taken THEN [a EXCEPT !.track = "off"] ELSE a
    BY <1>11 DEF TrackOff
  <2>2. a' \in Session
    BY <2>1 DEF TypeOK, Session
  <2> QED BY <1>11, <2>1, <2>2, TransmitTypes, Sayings DEF TrackOff, TypeOK
<1>12. ASSUME NEW d \in 0..HandleMax, OtherRequest(d) PROVE TypeOK'
  <2>1. d \in Nat BY Numbers
  <2>2. a' \in Session /\ unarmed' \in 0..(AhrsEvery + LateCap)
    BY <1>12, <2>1, Passing DEF OtherRequest
  <2>3. CASE UNCHANGED link
    BY <1>12, <2>2, <2>3 DEF OtherRequest, TypeOK, link
  <2>4. CASE \E taken \in BOOLEAN : Transmit(<<Other>>, taken)
    BY <1>12, <2>2, <2>4, TransmitTypes, Sayings DEF OtherRequest, TypeOK
  <2> QED BY <1>12, <2>3, <2>4 DEF OtherRequest
<1>13. CASE Cut
  BY <1>13 DEF Cut, TypeOK
<1>14. CASE HeadReads
  <2>1. Head(tx) \in Order /\ Tail(tx) \in Seq(Order)
    BY <1>14 DEF HeadReads, TypeOK
  <2>2. Obey(head, Head(tx)) \in HeadState
    BY <2>1 DEF Obey, TypeOK, HeadState, Order
  <2> QED BY <1>14, <2>1, <2>2 DEF HeadReads, TypeOK
<1>15. CASE UNCHANGED vars
  BY <1>15 DEF vars, TypeOK
<1> QED
  BY <1>1, <1>2, <1>3, <1>4, <1>5, <1>6, <1>7, <1>8, <1>9, <1>10, <1>11, <1>12, <1>13, <1>14,
     <1>15
  DEF Next, Pump, Tick, Handle

-----------------------------------------------------------------------------
(* Sessions and time *)

LEMMA NextSessionInv == TypeOK /\ SessionInv /\ [Next]_vars => SessionInv'
<1> SUFFICES ASSUME TypeOK, SessionInv, [Next]_vars PROVE SessionInv' OBVIOUS
<1> USE DEF SessionInv
<1>1. ASSUME NEW d \in 0..IdleSleep, Select(d) PROVE SessionInv'
  <2>1. d \in Nat BY Numbers
  <2> QED BY <1>1, <2>1, Passing DEF Select, link
<1>2. CASE PumpIdle \/ PumpConnect \/ PumpFinish \/ PumpCloses
  BY <1>2 DEF PumpIdle, PumpConnect, PumpFinish, PumpCloses, Disconnect, link
<1>3. CASE TickDown
  BY <1>3 DEF TickDown, Closed
<1>4. CASE TickDue
  <2>1. PICK taken \in BOOLEAN : Transmit(ArmOrders, taken)
    BY <1>4 DEF TickDue
  <2>2. a'.active
    BY <1>4 DEF TickDue, TypeOK, Session
  <2> QED BY <1>4, <2>1, <2>2, TransmitTypes, Sayings DEF TickDue
<1>5. CASE TickQuiet
  BY <1>5 DEF TickQuiet, link
<1>6. CASE Enter
  <2>1. PICK taken \in BOOLEAN : Transmit(EnterOrders, taken)
    BY <1>6 DEF Enter
  <2>2. a'.active
    BY <1>6 DEF Enter, Closed
  <2> QED BY <1>6, <2>1, <2>2, TransmitTypes, Sayings DEF Enter
<1>7. CASE Leave
  <2>1. a' = Closed /\ unarmed' = 0 /\ ~Closed.active
    BY <1>7 DEF Leave, Closed
  <2>2. CASE \E taken \in BOOLEAN : Transmit(LeaveOrders(a), taken)
    BY <1>7, <2>1, <2>2, TransmitTypes, LeaveTypes
  <2>3. CASE UNCHANGED <<status, sock, tx>>
    BY <1>7, <2>1, <2>3
  <2> QED BY <1>7, <2>2, <2>3 DEF Leave
<1>8. CASE Align
  BY <1>8, TransmitTypes, Sayings DEF Align
<1>9. ASSUME NEW r \in Rates, NEW h \in BOOLEAN, TrackOn(r, h) PROVE SessionInv'
  <2>1. PICK taken \in BOOLEAN : Transmit(TrackOrders(r, h), taken)
    BY <1>9 DEF TrackOn
  <2>2. a'.active
    BY <1>9 DEF TrackOn, TypeOK, Session
  <2> QED BY <1>9, <2>1, <2>2, TransmitTypes, TrackTypes DEF TrackOn
<1>10. CASE TrackOff
  <2>1. PICK taken \in BOOLEAN : Transmit(<<Say("track", "off")>>, taken)
    BY <1>10 DEF TrackOff
  <2>2. a'.active
    BY <1>10 DEF TrackOff, TypeOK, Session
  <2> QED BY <1>10, <2>1, <2>2, TransmitTypes, Sayings DEF TrackOff
<1>11. ASSUME NEW d \in 0..HandleMax, OtherRequest(d) PROVE SessionInv'
  <2>1. d \in Nat BY Numbers
  <2>2. a'.active = a.active /\ (~a.active => a' = a /\ unarmed' = unarmed)
    BY <1>11, <2>1, Passing DEF OtherRequest
  <2>3. CASE UNCHANGED link
    BY <1>11, <2>2, <2>3 DEF OtherRequest, link
  <2>4. CASE \E taken \in BOOLEAN : Transmit(<<Other>>, taken)
    BY <1>11, <2>2, <2>4, TransmitTypes, Sayings DEF OtherRequest
  <2> QED BY <1>11, <2>3, <2>4 DEF OtherRequest
<1>12. CASE Cut
  BY <1>12 DEF Cut
<1>13. CASE HeadReads
  BY <1>13 DEF HeadReads
<1>14. CASE UNCHANGED vars
  BY <1>14 DEF vars
<1> QED
  BY <1>1, <1>2, <1>3, <1>4, <1>5, <1>6, <1>7, <1>8, <1>9, <1>10, <1>11, <1>12, <1>13, <1>14
  DEF Next, Pump, Tick, Handle

LEMMA NextTimes ==
  TypeOK /\ LateInv /\ PushInv /\ [Next]_vars => LateInv' /\ PushInv'
<1> SUFFICES ASSUME TypeOK, LateInv, PushInv, [Next]_vars PROVE LateInv' /\ PushInv' OBVIOUS
<1> USE DEF LateInv, PushInv
<1>1. ASSUME NEW d \in 0..IdleSleep, Select(d) PROVE LateInv' /\ PushInv'
  <2>1. d \in Nat /\ Pass(d) /\ pc' = "pump" /\ lost' = lost
    BY <1>1, Numbers DEF Select, link
  <2>2. a.active => d = 0 \/ d <= a.next
    BY <1>1 DEF Select, MaySleep
  <2>3. ASSUME a'.active PROVE a.active /\ a'.next = a.next - d /\ unarmed' <= unarmed + d
    <3>1. /\ a.active /\ unarmed' <= unarmed + d
          /\ a'.next = a.next - d \/ a'.next = -LateCap
      BY <2>1, <2>3, Passing
    <3>2. a.next - d > -LateCap
      <4>1. a.next >= -HandleMax /\ (d = 0 \/ d <= a.next)
        BY <3>1, <2>2
      <4>2. a.next \in Int /\ HandleMax \in Nat /\ LateCap \in Nat /\ HandleMax < LateCap
        BY Numbers
      <4> QED BY <4>1, <4>2, <2>1
    <3>3. a'.next >= a.next - d
      BY <2>1, <3>1, Passing
    <3>4. a'.next # -LateCap
      BY <3>2, <3>3, <2>1, Numbers
    <3> QED BY <3>1, <3>4
  <2>4. unarmed' \in Nat /\ unarmed \in Nat /\ a.next \in Int
    BY <2>1, Passing, Numbers
  <2> QED BY <2>1, <2>2, <2>3, <2>4, Numbers
<1>2. CASE UNCHANGED <<a, unarmed>> /\ (lost => lost') /\ pc' # "handle"
  BY <1>2
<1>3. CASE TickDown
  BY <1>3 DEF TickDown, Closed
<1>4. CASE TickDue
  <2>1. PICK taken \in BOOLEAN :
          Transmit(ArmOrders, taken) /\ unarmed' = IF taken THEN 0 ELSE unarmed
    BY <1>4 DEF TickDue
  <2>2. a'.next = AhrsEvery
    BY <1>4 DEF TickDue, TypeOK, Session
  <2>3. ~lost' => unarmed' = 0
    BY <2>1, TransmitWhole, Nonempty
  <2> QED BY <2>2, <2>3, Numbers
<1>5. CASE TickQuiet
  BY <1>5, Numbers DEF TickQuiet, link
<1>6. CASE Enter
  <2>1. PICK taken \in BOOLEAN :
          Transmit(EnterOrders, taken) /\ unarmed' = IF taken THEN 0 ELSE unarmed
    BY <1>6 DEF Enter
  <2>2. a'.next = AhrsEvery /\ pc' = "select"
    BY <1>6 DEF Enter, Closed
  <2>3. ~lost' => unarmed' = 0
    BY <2>1, TransmitWhole, Nonempty
  <2> QED BY <2>2, <2>3, Numbers
<1>7. CASE Leave
  BY <1>7 DEF Leave, Closed
<1>8. CASE Align
  <2>1. PICK taken \in BOOLEAN : Transmit(<<Other>>, taken)
    BY <1>8 DEF Align
  <2>2. lost => lost'
    BY <2>1, TransmitWhole, Nonempty
  <2> QED BY <1>8, <2>2, <1>2 DEF Align
<1>9. ASSUME NEW r \in Rates, NEW h \in BOOLEAN, TrackOn(r, h) PROVE LateInv' /\ PushInv'
  <2>1. PICK taken \in BOOLEAN : Transmit(TrackOrders(r, h), taken)
    BY <1>9 DEF TrackOn
  <2>2. lost => lost'
    BY <2>1, TransmitWhole, Nonempty
  <2>3. a'.next = a.next /\ a.active /\ unarmed' = unarmed /\ pc' = "select"
    BY <1>9 DEF TrackOn, TypeOK, Session
  <2> QED BY <2>2, <2>3
<1>10. CASE TrackOff
  <2>1. PICK taken \in BOOLEAN : Transmit(<<Say("track", "off")>>, taken)
    BY <1>10 DEF TrackOff
  <2>2. lost => lost'
    BY <2>1, TransmitWhole, Nonempty
  <2>3. a'.next = a.next /\ a.active /\ unarmed' = unarmed /\ pc' = "select"
    BY <1>10 DEF TrackOff, TypeOK, Session
  <2> QED BY <2>2, <2>3
<1>11. ASSUME NEW d \in 0..HandleMax, OtherRequest(d) PROVE LateInv' /\ PushInv'
  <2>1. d \in Nat /\ d <= HandleMax /\ Pass(d) /\ pc = "handle" /\ pc' = "select"
    BY <1>11, Numbers DEF OtherRequest
  <2>2. lost => lost'
    <3>1. CASE UNCHANGED link
      BY <3>1 DEF link
    <3>2. CASE \E taken \in BOOLEAN : Transmit(<<Other>>, taken)
      BY <3>2, TransmitWhole, Nonempty
    <3> QED BY <1>11, <3>1, <3>2 DEF OtherRequest
  <2>3. ASSUME a'.active PROVE a.active /\ a'.next = a.next - d /\ unarmed' <= unarmed + d
    <3>1. /\ a.active /\ unarmed' <= unarmed + d
          /\ a'.next = a.next - d \/ a'.next = -LateCap
      BY <2>1, <2>3, Passing
    <3>2. a.next - d > -LateCap
      <4>1. a.next >= 1 /\ d <= HandleMax
        BY <3>1, <2>1
      <4>2. a.next \in Int /\ HandleMax \in Nat /\ LateCap \in Nat /\ HandleMax < LateCap
        BY Numbers
      <4> QED BY <4>1, <4>2, <2>1
    <3>3. a'.next >= a.next - d
      BY <2>1, <3>1, Passing
    <3>4. a'.next # -LateCap
      BY <3>2, <3>3, <2>1, Numbers
    <3> QED BY <3>1, <3>4
  <2>4. unarmed' \in Nat /\ unarmed \in Nat /\ a.next \in Int
    BY <2>1, Passing, Numbers
  <2> QED BY <2>1, <2>2, <2>3, <2>4, Numbers
<1>12. CASE Pump
  <2>1. UNCHANGED <<a, unarmed>> /\ pc' = "tick"
    BY <1>12 DEF Pump, PumpIdle, PumpConnect, PumpFinish, PumpCloses
  <2>2. lost => lost'
    BY <1>12 DEF Pump, PumpIdle, PumpConnect, PumpFinish, PumpCloses, Disconnect, link
  <2> QED BY <2>1, <2>2
<1>13. CASE Cut \/ HeadReads \/ UNCHANGED vars
  BY <1>13 DEF Cut, HeadReads, vars
<1> QED
  BY <1>1, <1>3, <1>4, <1>5, <1>6, <1>7, <1>8, <1>9, <1>10, <1>11, <1>12, <1>13
  DEF Next, Tick, Handle

-----------------------------------------------------------------------------
(* The head *)

LEMMA NextHeadInv == TypeOK /\ SessionInv /\ HeadInv /\ [Next]_vars => HeadInv'
<1> SUFFICES ASSUME TypeOK, SessionInv, HeadInv, [Next]_vars, ~lost'
             PROVE  AsAsked(head', tx', a') /\ Ordered(head', tx')
  BY DEF HeadInv
<1>0. /\ head \in HeadState /\ tx \in Seq(Order) /\ a \in Session /\ a' \in Session
      /\ a.active \/ a.track = "off"
      /\ ~lost => AsAsked(head, tx, a) /\ Ordered(head, tx)
  BY NextTypeOK DEF TypeOK, SessionInv, HeadInv, Closed
<1>1. ASSUME NEW d \in 0..IdleSleep, Select(d)
      PROVE  AsAsked(head', tx', a') /\ Ordered(head', tx')
  <2>1. d \in Nat /\ Pass(d) /\ tx' = tx /\ head' = head /\ ~lost
    BY <1>1, Numbers DEF Select, link
  <2>2. a'.active = a.active /\ a'.track = a.track /\ a'.half = a.half
    BY <2>1, Passing
  <2> QED BY <1>0, <2>1, <2>2, PassingAsAsked
<1>2. CASE Pump
  <2>1. a' = a /\ head' = head
    BY <1>2 DEF Pump, PumpIdle, PumpConnect, PumpFinish, PumpCloses
  <2>2. tx' = tx /\ ~lost
    <3>1. CASE PumpIdle \/ PumpConnect \/ PumpFinish
      BY <3>1 DEF PumpIdle, PumpConnect, PumpFinish, link
    <3>2. CASE PumpCloses
      <4>1. tx' = <<>> /\ lost' = (lost \/ tx # <<>> \/ <<>> # <<>>)
        BY <3>2 DEF PumpCloses, Disconnect
      <4>2. ~lost /\ tx = <<>>
        BY <4>1
      <4> QED BY <4>1, <4>2
    <3> QED BY <1>2, <3>1, <3>2 DEF Pump
  <2> QED BY <1>0, <2>1, <2>2
<1>3. CASE TickDown
  <2>1. ~lost /\ ~a.active /\ a' = Closed /\ tx' = tx /\ head' = head
    BY <1>3 DEF TickDown
  <2>2. a = Closed
    BY <2>1 DEF SessionInv
  <2> QED BY <1>0, <2>1, <2>2
<1>4. CASE TickDue
  <2>1. PICK taken \in BOOLEAN : Transmit(ArmOrders, taken)
    BY <1>4 DEF TickDue
  <2>2. ~lost /\ tx' = tx \o ArmOrders /\ head' = head
    BY <1>4, <2>1, TransmitWhole, Nonempty DEF TickDue
  <2>3. Say("ahrs", "on") \in Order
    BY Sayings DEF Ops, Args
  <2>4. Say("ahrs", "on").op = "ahrs" /\ Say("ahrs", "on").arg = OnOff(a.active)
    BY <1>4 DEF TickDue, Say, OnOff
  <2>5. AsAsked(head, tx', a) /\ Ordered(head, tx')
    BY <1>0, <2>2, <2>3, <2>4, SameQueues DEF ArmOrders
  <2>6. a'.active = a.active /\ a'.track = a.track /\ a'.half = a.half
    BY <1>0, <1>4 DEF TickDue, Session
  <2> QED BY <1>0, <2>2, <2>5, <2>6, PassingAsAsked
<1>5. CASE Enter
  <2>1. PICK taken \in BOOLEAN : Transmit(EnterOrders, taken)
    BY <1>5 DEF Enter
  <2>2. ~lost /\ tx' = tx \o EnterOrders /\ head' = head
    BY <1>5, <2>1, TransmitWhole, Nonempty DEF Enter
  <2>3. a = Closed
    BY <1>5 DEF Enter, SessionInv
  <2>4. a'.active /\ a'.track = "off"
    BY <1>5 DEF Enter, Closed
  <2> QED BY <1>0, <2>2, <2>3, <2>4, EnterQueues
<1>6. CASE Leave
  <2>1. a.active /\ a' = Closed /\ head' = head
    BY <1>6 DEF Leave
  <2>2. PICK taken \in BOOLEAN : Transmit(LeaveOrders(a), taken)
    BY <1>6 DEF Leave
  <2>3. ~lost /\ tx' = tx \o LeaveOrders(a)
    BY <2>2, TransmitWhole, Nonempty
  <2> QED BY <1>0, <2>1, <2>3, LeaveQueues
<1>7. ASSUME NEW taken \in BOOLEAN, Transmit(<<Other>>, taken)
      PROVE  AsAsked(head, tx', a) /\ Ordered(head, tx')
  <2>1. ~lost /\ tx' = tx \o <<Other>>
    BY <1>7, TransmitWhole, Nonempty
  <2>2. Other \in Order /\ Other.op = "other"
    BY Sayings DEF Other, Say
  <2> QED BY <1>0, <2>1, <2>2, SameQueues
<1>8. CASE Align
  BY <1>7, <1>8 DEF Align
<1>9. ASSUME NEW r \in Rates, NEW h \in BOOLEAN, TrackOn(r, h)
      PROVE  AsAsked(head', tx', a') /\ Ordered(head', tx')
  <2>1. PICK taken \in BOOLEAN :
          /\ Transmit(TrackOrders(r, h), taken)
          /\ a' = IF taken THEN [a EXCEPT !.track = r, !.half = h] ELSE a
    BY <1>9 DEF TrackOn
  <2>2. ~lost /\ taken /\ tx' = tx \o TrackOrders(r, h) /\ head' = head /\ a.active
    BY <1>9, <2>1, TransmitWhole, Nonempty DEF TrackOn
  <2>3. a'.active /\ a'.track = r /\ a'.half = h
    BY <1>0, <2>1, <2>2 DEF Session
  <2> QED BY <1>0, <2>2, <2>3, TrackQueues
<1>10. CASE TrackOff
  <2>1. PICK taken \in BOOLEAN :
          /\ Transmit(<<Say("track", "off")>>, taken)
          /\ a' = IF taken THEN [a EXCEPT !.track = "off"] ELSE a
    BY <1>10 DEF TrackOff
  <2>2. ~lost /\ taken /\ tx' = tx \o <<Say("track", "off")>> /\ head' = head /\ a.active
    BY <1>10, <2>1, TransmitWhole, Nonempty DEF TrackOff
  <2>3. a'.active /\ a'.track = "off"
    BY <1>0, <2>1, <2>2 DEF Session
  <2> QED BY <1>0, <2>2, <2>3, StopQueues
<1>11. ASSUME NEW d \in 0..HandleMax, OtherRequest(d)
       PROVE  AsAsked(head', tx', a') /\ Ordered(head', tx')
  <2>1. d \in Nat /\ Pass(d) /\ head' = head
    BY <1>11, Numbers DEF OtherRequest
  <2>2. a'.active = a.active /\ a'.track = a.track /\ a'.half = a.half
    BY <2>1, Passing
  <2>3. AsAsked(head, tx', a) /\ Ordered(head, tx')
    <3>1. CASE UNCHANGED link
      BY <1>0, <3>1 DEF link
    <3>2. CASE \E taken \in BOOLEAN : Transmit(<<Other>>, taken)
      BY <1>7, <3>2
    <3> QED BY <1>11, <3>1, <3>2 DEF OtherRequest
  <2> QED BY <1>0, <2>1, <2>2, <2>3, PassingAsAsked
<1>12. CASE TickQuiet \/ Cut \/ UNCHANGED vars
  BY <1>0, <1>12 DEF TickQuiet, Cut, vars, link
<1>13. CASE HeadReads
  <2>1. head' = Obey(head, Head(tx)) /\ tx' = Tail(tx) /\ tx # <<>> /\ a' = a /\ ~lost
    BY <1>13 DEF HeadReads
  <2> QED BY <1>0, <2>1, ReadAsAsked, ReadOrdered
<1> QED
  BY <1>1, <1>2, <1>3, <1>4, <1>5, <1>6, <1>8, <1>9, <1>10, <1>11, <1>12, <1>13
  DEF Next, Tick, Handle

-----------------------------------------------------------------------------
(* The theorems *)

LEMMA Invariant == Spec => []IInv
<1>1. IInv /\ [Next]_vars => IInv'
  BY NextTypeOK, NextSessionInv, NextTimes, NextHeadInv DEF IInv
<1> QED BY <1>1, InitIInv, PTL DEF Spec

\* Every variable keeps its type: in particular the time to the next push and
\* the time since the last one stay within their bounds.
THEOREM TypeCorrect == Spec => []TypeOK
<1>1. IInv => TypeOK BY DEF IInv
<1> QED BY <1>1, Invariant, PTL

\* What astro_status_json shows is what the head is set to once it has read
\* what is on its way, as long as no order was discarded.
THEOREM HeadCorrect == Spec => []HeadIsAsAsked
<1>1. IInv => HeadIsAsAsked
  BY DEF IInv, HeadInv, HeadIsAsAsked, AsAsked, AtEnd
<1> QED BY <1>1, Invariant, PTL

\* As long as no order was discarded the head tracks only in mode 8, at every
\* point of its reading.
THEOREM ModeCorrect == Spec => []TracksInItsMode
<1>1. IInv => TracksInItsMode
  BY NoneRead DEF IInv, TypeOK, HeadInv, TracksInItsMode
<1> QED BY <1>1, Invariant, PTL

\* The sleep chosen by astro_next_deadline_ms re-arms the push in time, for
\* every length of an inline request below LateCap.
THEOREM PushCorrect == Spec => []PushRearmed
<1>1. IInv => PushRearmed
  <2> SUFFICES ASSUME IInv, a.active, ~lost PROVE unarmed <= AhrsEvery + HandleMax
    BY DEF PushRearmed
  <2>1. a.next >= -HandleMax /\ unarmed + a.next <= AhrsEvery /\ TypeOK
    BY DEF IInv, LateInv, PushInv
  <2> QED BY <2>1, Numbers
<1> QED BY <1>1, Invariant, PTL

\* astro_tick folds the session before the loop can bring the link up again.
THEOREM SessionCorrect == Spec => SessionEndsWithLink
<1>1. IInv /\ [Next]_vars => [status # "UP" /\ status' = "UP" => ~a.active /\ tx = <<>>]_vars
  <2> SUFFICES ASSUME IInv, [Next]_vars, status # "UP", status' = "UP"
               PROVE  ~a.active /\ tx = <<>>
    OBVIOUS
  <2>1. PumpFinish
    BY DEF Next, Select, Pump, PumpIdle, PumpConnect, PumpCloses, Tick, TickDown, TickDue,
           TickQuiet, Handle, Enter, Leave, Align, TrackOff, TrackOn, OtherRequest, Cut,
           HeadReads, Transmit, Disconnect, link, vars
  <2> QED BY <2>1 DEF PumpFinish, IInv, SessionInv
<1> QED BY <1>1, Invariant, PTL DEF Spec, SessionEndsWithLink

\* The link under the session is the abstract one.
THEOREM AstroImplementsSession == Spec => ImplementsSession
<1>1. Init => Link!Init
  BY DEF Init, Link!Init
<1>2. IInv /\ [Next]_vars => [Link!Next]_(Link!vars)
  <2> SUFFICES ASSUME IInv, [Next]_vars PROVE [Link!Next]_(Link!vars)
    OBVIOUS
  <2> USE DEF Link!Next, Link!vars
  <2>1. (status # "UP" => tx = <<>>) /\ (status' # "UP" => tx' = <<>>)
    BY NextSessionInv DEF IInv, SessionInv
  <2>2. CASE status' = "DOWN"
    BY <2>1, <2>2 DEF Link!End
  <2>3. CASE status = "UP" /\ status' = "UP"
    BY <2>3 DEF Link!Accept
  <2>4. CASE tx' = tx /\ status' = status
    BY <2>4
  <2>5. CASE PumpConnect
    BY <2>1, <2>5 DEF PumpConnect, Link!Connect
  <2>6. CASE PumpFinish
    BY <2>1, <2>2, <2>6 DEF PumpFinish, Link!Establish
  <2>7. \/ PumpConnect \/ PumpFinish \/ status' = "DOWN"
        \/ (status = "UP" /\ status' = "UP") \/ (tx' = tx /\ status' = status)
    BY <2>1
    DEF Next, Select, Pump, PumpIdle, PumpCloses, Tick, TickDown, TickDue, TickQuiet, Handle,
        Enter, Leave, Align, TrackOff, TrackOn, OtherRequest, Cut, HeadReads, Transmit,
        Disconnect, link, vars
  <2> QED BY <2>2, <2>3, <2>4, <2>5, <2>6, <2>7
<1> QED BY <1>1, <1>2, Invariant, PTL DEF Spec, ImplementsSession, Link!Spec
=============================================================================
