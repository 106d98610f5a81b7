----------------------- MODULE PolarisProgram_proofs -----------------------
(***************************************************************************)
(* Proofs about PolarisProgram, for every choice of the programmes, of the *)
(* times, of the buffer sizes and of what else may happen.                 *)
(***************************************************************************)
EXTENDS PolarisProgram, SequenceTheorems, FiniteSetTheorems, TLAPS

\* What lies under plink_status(): no order waits on a link that is not UP.
LinkInv == IF status = "UP" THEN sock \in {"ok", "broken"} ELSE sock = "none" /\ tx = <<>>

\* A run survives the end of its session only until the next tick, which comes
\* before the link can be UP again.
SessionInv == status = "CONNECTING" /\ pc # "tick" => g.kind = "none"

\* The poll clock never runs ahead of the time since the last poll.
PollInv == g.kind # "none" => sincePoll + g.toPoll >= Poll

\* The watchdog's clock never runs ahead of the head's silence, save for a message
\* that the next tick is about to absorb.
QuietInv ==
  /\ g.kind = "none" => ~g.stale
  /\ g.kind # "none" =>
       \/ pc = "tick" /\ fresh[g.kind]
       \/ g.unheard <= quiet /\ (g.stale => quiet > Stale)

IInv == TypeOK /\ LinkInv /\ SessionInv /\ PollInv /\ QuietInv

-----------------------------------------------------------------------------
(***************************************************************************)
(* Sets and sequences.                                                     *)
(***************************************************************************)
\* A finite set of integers that is not empty has a largest element: the smallest,
\* under inclusion, of its upper parts is a singleton.
LEMMA LargestExists ==
  ASSUME NEW S \in SUBSET Int, IsFiniteSet(S), S # {}
  PROVE  \E i \in S : \A j \in S : j <= i
<1> DEFINE Upper(i) == {j \in S : j >= i}
           T == {Upper(i) : i \in S}
<1>0. S \subseteq Int /\ \A i \in S : Upper(i) \subseteq S
  OBVIOUS
<1>1. T \subseteq FiniteSubsetsOf(S) /\ T # {}
  <2>1. FiniteSubsetsOf(S) = SUBSET S
    BY FS_FiniteSubsetsOfFinite
  <2>2. \A V \in T : V \in SUBSET S
    BY <1>0
  <2>3. T # {}
    OBVIOUS
  <2> QED BY <2>1, <2>2, <2>3
<1>2. IsWellFoundedOn(StrictSubsetOrdering(S), FiniteSubsetsOf(S))
  BY FS_StrictSubsetOrderingWellFounded
<1>3. PICK U \in T : \A V \in T : <<V, U>> \notin StrictSubsetOrdering(S)
  <2> HIDE DEF T
  <2> QED BY <1>1, <1>2, WFMin
<1>4. PICK i \in S : U = Upper(i)
  BY <1>3
<1>5. ASSUME NEW j \in S, j > i PROVE FALSE
  <2>1. Upper(j) \in T
    OBVIOUS
  <2>2. i \in Int /\ j \in Int /\ j > i
    BY <1>0, <1>5
  <2>3. Upper(j) \subseteq U /\ i \in U /\ i \notin Upper(j)
    <3>1. \A k \in Int : k >= j => k >= i
      BY <2>2
    <3>2. i >= i /\ ~(i >= j)
      BY <2>2
    <3> QED BY <1>0, <1>4, <3>1, <3>2
  <2>4. U \in SUBSET S /\ Upper(j) \in SUBSET S
    BY <1>4
  <2>5. <<Upper(j), U>> \in StrictSubsetOrdering(S)
    BY <2>3, <2>4 DEF StrictSubsetOrdering
  <2> QED BY <2>1, <2>5, <1>3
<1>6. i \in Int /\ S \subseteq Int
  BY <1>4
<1> HIDE DEF Upper, T
<1>7. \A j \in S : j <= i
  BY <1>5, <1>6
<1> QED BY <1>4, <1>7

\* The last message of an opcode is one of those that came.
LEMMA LastCame ==
  ASSUME NEW o, rx \in Seq(MessageType), Came(o) # {}
  PROVE  LET i == CHOOSE i \in Came(o) : \A j \in Came(o) : j <= i
         IN i \in Came(o) /\ i \in 1..Len(rx)
<1>1. Came(o) \in SUBSET (1..Len(rx)) /\ Len(rx) \in Nat
  BY DEF Came
<1>2. Came(o) \in SUBSET Int /\ IsFiniteSet(Came(o))
  <2>1. IsFiniteSet(1..Len(rx)) /\ 1..Len(rx) \subseteq Int
    BY <1>1, FS_Interval
  <2> QED BY <1>1, <2>1, FS_Subset
<1>3. \E i \in Came(o) : \A j \in Came(o) : j <= i
  BY <1>2, LargestExists
<1> QED BY <1>1, <1>3

-----------------------------------------------------------------------------
(***************************************************************************)
(* Messages and orders.                                                    *)
(***************************************************************************)
AnyKind == AllKinds \cup {"preview", "none"}

LEMMA OpType ==
  /\ \A k \in AllKinds : Op(k) \in Opcodes
  /\ \A k \in AnyKind : Op(k) \in Opcodes \cup {"none"}
<1>1. Op("preview") = Op("focus") /\ Op("none") = "none" /\ "focus" \in AllKinds
  BY DEF Op, AllKinds
<1> QED BY <1>1 DEF Opcodes, AnyKind

LEMMA DoneStepType == \A k \in AllKinds : DoneStep[k] \in Int
BY DEF DoneStep, NoStep

LEMMA MessageIn ==
  ASSUME NEW k \in AnyKind, NEW step \in Int, NEW left \in Int, NEW run \in Nat
  PROVE  Message(k, step, left, run) \in MessageType
BY OpType DEF Message, MessageType

LEMMA OrderIn ==
  ASSUME NEW what \in Orders, NEW k \in AnyKind, NEW n \in Int, NEW run \in Nat
  PROVE  Order(what, k, n, run) \in OrderType /\ <<Order(what, k, n, run)>> \in Seq(OrderType)
<1>1. Order(what, k, n, run) \in OrderType
  BY DEF Order, OrderType, AnyKind
<1> QED BY <1>1

LEMMA CountType == ASSUME NEW h \in HeadType, NEW k \in AnyKind PROVE Count(h, k) \in Int
BY DEF Count, HeadType, NoRunCount

LEMMA ObeyType == ASSUME NEW h \in HeadType, NEW o \in OrderType PROVE Obey(h, o) \in HeadType
<1> DEFINE begun == [kind |-> o.kind, left |-> o.left, run |-> o.run, paused |-> FALSE]
           held == [h EXCEPT !.paused = (o.what = "pause")]
<1>1. begun \in HeadType
  BY DEF HeadType, OrderType
<1>2. NoRun \in HeadType
  BY DEF HeadType, NoRun
<1>3. held \in HeadType
  <2>1. (o.what = "pause") \in BOOLEAN
    OBVIOUS
  <2> DEFINE b == (o.what = "pause")
  <2>2. b \in BOOLEAN /\ held = [h EXCEPT !.paused = b]
    BY <2>1
  <2> HIDE DEF b, held
  <2> QED BY <2>2 DEF HeadType
<1>4. Obey(h, o) = begun \/ Obey(h, o) = NoRun \/ Obey(h, o) = held \/ Obey(h, o) = h
  BY DEF Obey
<1> HIDE DEF begun, held
<1> QED BY <1>1, <1>2, <1>3, <1>4

\* A head says one message at a time, or none.
LEMMA SaidIn ==
  /\ <<>> \in Seq(MessageType)
  /\ \A e \in MessageType : <<e>> \in Seq(MessageType)
OBVIOUS

LEMMA AnswerType ==
  ASSUME NEW h \in HeadType, NEW j \in HeadType, NEW o \in OrderType
  PROVE  Answer(h, j, o) \in Seq(MessageType)
<1>1. /\ o.kind \in AnyKind /\ h.run \in Nat /\ j.run \in Nat /\ j.left \in Int
      /\ Count(j, o.kind) \in Int
  BY CountType DEF OrderType, HeadType, AnyKind
<1> DEFINE poll == Message(o.kind, IF o.kind = "focus" THEN 7 ELSE IF o.kind = "plc" THEN 5 ELSE NoStep,
                           Count(j, o.kind), j.run)
           first == Message(o.kind, 5, j.left, j.run)
           cancelled == Message(o.kind, IF o.kind \in {"hdr", "focus", "preview"} THEN 6 ELSE NoStep,
                                IF o.kind \in {"hdr", "focus", "preview"} THEN Absent ELSE 0, h.run)
           begun == Message(o.kind, 8, Absent, j.run)
<1>2. poll \in MessageType /\ first \in MessageType /\ cancelled \in MessageType /\ begun \in MessageType
  BY <1>1, MessageIn DEF NoStep, Absent
<1>3. \/ Answer(h, j, o) = <<poll>> \/ Answer(h, j, o) = <<first>> \/ Answer(h, j, o) = <<cancelled>>
      \/ Answer(h, j, o) = <<begun>> \/ Answer(h, j, o) = <<>>
  BY DEF Answer
<1> HIDE DEF poll, first, cancelled, begun
<1> QED BY <1>2, <1>3, SaidIn

LEMMA PushType == ASSUME NEW h \in HeadType PROVE Push(h) \in Seq(MessageType)
<1>1. /\ h.kind \in AnyKind /\ h.left \in Int /\ h.run \in Nat
  BY DEF HeadType, AnyKind
<1>2. CASE Polled(h.kind)
  BY <1>2, SaidIn DEF Push
<1>3. CASE ~Polled(h.kind)
  <2>1. h.kind \in AllKinds
    BY <1>3 DEF Polled, AllKinds
  <2> DEFINE left == Message(h.kind, 5, h.left, h.run)
             bare == Message("sun", 3, Absent, h.run)
             done == Message(h.kind, DoneStep[h.kind], 0, h.run)
  <2>2. left \in MessageType /\ bare \in MessageType /\ done \in MessageType
    <3>1. DoneStep[h.kind] \in Int /\ "sun" \in AnyKind
      BY <2>1, DoneStepType DEF AnyKind, AllKinds
    <3> QED BY <1>1, <3>1, MessageIn DEF Absent
  <2>3. Push(h) = <<left>> \/ Push(h) = <<bare>> \/ Push(h) = <<done>>
    BY <1>3 DEF Push
  <2> HIDE DEF left, bare, done
  <2> QED BY <2>2, <2>3, SaidIn
<1> QED BY <1>2, <1>3

LEMMA BegunType ==
  ASSUME TypeOK, NEW k \in AllKinds, NEW n \in Int, NEW mode \in 0..2
  PROVE  Begun(k, n, mode) \in RunType
BY CountAssumption, TimeAssumption DEF Begun, RunType, TypeOK

LEMMA StartOrdersType ==
  ASSUME TypeOK, NEW k \in AllKinds \cup {"preview"}, NEW n \in Int, NEW extra \in BOOLEAN
  PROVE  StartOrders(k, n, extra) \in Seq(OrderType)
<1>1. runs + 1 \in Nat /\ k \in AnyKind
  BY CountAssumption DEF TypeOK, AnyKind
<1>2. /\ <<Order("points", k, n, runs + 1)>> \in Seq(OrderType)
      /\ <<Order("begin", k, n, runs + 1)>> \in Seq(OrderType)
      /\ <<Order("extra", k, n, runs + 1)>> \in Seq(OrderType)
  BY <1>1, OrderIn DEF Orders
<1> DEFINE a == IF k \in {"lapse", "pathlapse", "plc"} THEN <<Order("points", k, n, runs + 1)>> ELSE <<>>
           b == <<Order("begin", k, n, runs + 1)>>
           c == IF extra /\ k \in {"pano", "plc"} THEN <<Order("extra", k, n, runs + 1)>> ELSE <<>>
<1>3. a \in Seq(OrderType) /\ b \in Seq(OrderType) /\ c \in Seq(OrderType)
  BY <1>2
<1>4. StartOrders(k, n, extra) = a \o b \o c
  BY DEF StartOrders
<1> HIDE DEF a, b, c
<1> QED BY <1>3, <1>4

-----------------------------------------------------------------------------
(***************************************************************************)
(* The steps that several actions share.                                   *)
(***************************************************************************)
\* plink_send keeps the types of the link, never brings it up, and leaves nothing
\* waiting on a link that is not UP.
LEMMA TransmitKeeps ==
  ASSUME TypeOK, LinkInv, NEW orders \in Seq(OrderType), Transmit(orders)
  PROVE  /\ status' \in {"DOWN", "CONNECTING", "UP"} /\ sock' \in {"none", "ok", "broken"}
         /\ tx' \in Seq(OrderType) /\ Len(tx') <= TxCap
         /\ rx' \in Seq(MessageType) /\ Len(rx') <= RxCap /\ lost' \in BOOLEAN
         /\ LinkInv'
         /\ status' = status \/ (status = "UP" /\ status' = "DOWN")
         /\ orders = <<>> => tx' = tx
         /\ status # "UP" => tx' = tx
<1>1. CASE /\ status = "UP"
           /\ tx' = SubSeq(tx \o orders, 1, Least(Len(tx) + Len(orders), TxCap))
           /\ lost' = (lost \/ ~Fits(Len(orders)))
           /\ UNCHANGED <<status, sock, rx>>
  <2> DEFINE q == tx \o orders
             n == Least(Len(tx) + Len(orders), TxCap)
  <2>1. q \in Seq(OrderType) /\ Len(q) = Len(tx) + Len(orders) /\ Len(tx) \in Nat /\ Len(orders) \in Nat
    BY DEF TypeOK
  <2>2. n \in Nat /\ n <= TxCap /\ n <= Len(q)
    BY <2>1, CountAssumption DEF Least
  <2>3. tx' = SubSeq(q, 1, n)
    BY <1>1
  <2>5. orders = <<>> => tx' = tx
    <3> SUFFICES ASSUME orders = <<>> PROVE SubSeq(q, 1, n) = tx
      BY <2>3
    <3>1. q = tx /\ n = Len(tx)
      BY CountAssumption DEF TypeOK, Least
    <3> QED BY <3>1 DEF TypeOK
  <2> HIDE DEF q, n
  <2>4. SubSeq(q, 1, n) \in Seq(OrderType) /\ Len(SubSeq(q, 1, n)) = n
    BY <2>1, <2>2, SubSeqProperties
  <2>6. rx \in Seq(MessageType) /\ Len(rx) <= RxCap /\ sock \in {"none", "ok", "broken"} /\ lost \in BOOLEAN
    BY DEF TypeOK
  <2>7. lost' \in BOOLEAN /\ LinkInv'
    BY <1>1, <2>6 DEF LinkInv
  <2> QED BY <1>1, <2>2, <2>3, <2>4, <2>5, <2>6, <2>7
<1>2. CASE status = "UP" /\ sock = "broken" /\ orders # <<>> /\ Disconnect
  <2>1. <<>> \in Seq(OrderType) /\ <<>> \in Seq(MessageType)
    OBVIOUS
  <2> QED BY <1>2, <2>1, CountAssumption DEF Disconnect, LinkInv
<1>3. CASE status # "UP" /\ lost' = (lost \/ orders # <<>>) /\ UNCHANGED <<status, sock, tx, rx>>
  <2>1. lost' \in BOOLEAN
    BY <1>3 DEF TypeOK
  <2> QED BY <1>3, <2>1 DEF TypeOK, LinkInv
<1> QED BY <1>1, <1>2, <1>3 DEF Transmit

\* Time passes for both clocks of each pair alike.
LEMMA AgedKeeps ==
  ASSUME TypeOK, PollInv, pc # "tick", pc' # "tick", QuietInv, NEW d \in Nat, Aged(d)
  PROVE  /\ g' \in RunType /\ sincePoll' \in 0..Poll /\ quiet' \in 0..(Stale + 1)
         /\ PollInv' /\ QuietInv' /\ g'.kind = g.kind
<1>1. /\ g \in RunType /\ sincePoll \in 0..Poll /\ quiet \in 0..(Stale + 1)
      /\ g.toPoll \in 0..Poll /\ g.unheard \in 0..(Stale + 1)
      /\ Poll \in Nat /\ Stale \in Nat
  BY TimeAssumption DEF TypeOK, RunType
<1>2. sincePoll' \in 0..Poll /\ quiet' \in 0..(Stale + 1)
  BY <1>1 DEF Aged, Least
<1>3. CASE g.kind = "none"
  BY <1>1, <1>2, <1>3 DEF Aged, PollInv, QuietInv
<1>4. CASE g.kind # "none"
  <2> DEFINE t == Most(0, g.toPoll - d)
             u == Least(g.unheard + d, Stale + 1)
  <2>1. t \in 0..Poll /\ u \in 0..(Stale + 1)
    BY <1>1 DEF Most, Least
  <2>2. g' = [g EXCEPT !.toPoll = t, !.unheard = u]
    BY <1>4 DEF Aged
  <2>3. sincePoll + g.toPoll >= Poll => sincePoll' + t >= Poll
    BY <1>1 DEF Aged, Most, Least
  <2>4. /\ g.unheard <= quiet => u <= quiet'
        /\ quiet > Stale => quiet' > Stale
    BY <1>1 DEF Aged, Least
  <2> HIDE DEF t, u
  <2>5. g' \in RunType /\ g'.toPoll = t /\ g'.unheard = u /\ g'.kind = g.kind /\ g'.stale = g.stale
    BY <1>1, <2>1, <2>2 DEF RunType
  <2> QED BY <1>2, <1>4, <2>3, <2>4, <2>5 DEF PollInv, QuietInv
<1> QED BY <1>3, <1>4

\* The watchdog and the poll clock, on the run a reply has left.
LEMMA AbsorbedType ==
  ASSUME NEW p \in RunType, NEW b \in BOOLEAN, NEW m \in MessageType
  PROVE  /\ Absorbed(p, b, m) \in RunType
         /\ Absorbed(p, b, m) = Idle \/ Absorbed(p, b, m).kind = p.kind
         /\ Absorbed(p, b, m).kind # "none" => Absorbed(p, b, m).toPoll = p.toPoll
<1>1. Idle \in RunType
  BY TimeAssumption DEF Idle, RunType
<1>2. m.left \in Int /\ p.remaining \in Int
  BY DEF MessageType, RunType
<1> DEFINE r == IF m.left > 0 THEN m.left ELSE p.remaining
           h == [p EXCEPT !.unheard = 0, !.stale = FALSE, !.remaining = r]
<1>3. r \in Int /\ 0 \in 0..(Stale + 1)
  BY <1>2, TimeAssumption
<1>4. Absorbed(p, b, m) = p \/ Absorbed(p, b, m) = Idle \/ Absorbed(p, b, m) = h
  BY DEF Absorbed
<1> HIDE DEF r
<1>5. h \in RunType /\ h.kind = p.kind /\ h.toPoll = p.toPoll
  BY <1>3 DEF RunType
<1> HIDE DEF h
<1>6. Idle.kind = "none"
  BY DEF Idle
<1> QED BY <1>1, <1>4, <1>5, <1>6

LEMMA WatchedType ==
  ASSUME NEW p \in RunType
  PROVE  /\ Watched(p) \in RunType /\ Watched(p).kind = p.kind /\ Watched(p).unheard = p.unheard
         /\ Watched(p).toPoll = IF PollDue(p) THEN Poll ELSE p.toPoll
         /\ Watched(p).stale = (p.stale \/ (p.kind # "none" /\ p.unheard > Stale))
<1>1. /\ p.toPoll \in 0..Poll /\ p.stale \in BOOLEAN /\ Poll \in Nat
  BY TimeAssumption DEF RunType
<1>2. CASE p.kind = "none"
  BY <1>1, <1>2 DEF Watched, PollDue
<1>3. CASE p.kind # "none"
  <2> DEFINE t == IF PollDue(p) THEN Poll ELSE p.toPoll
             b == p.stale \/ p.unheard > Stale
  <2>1. t \in 0..Poll /\ b \in BOOLEAN
    BY <1>1
  <2>2. Watched(p) = [p EXCEPT !.toPoll = t, !.stale = b]
    BY <1>3 DEF Watched
  <2>4. b = (p.stale \/ (p.kind # "none" /\ p.unheard > Stale))
    BY <1>3
  <2> HIDE DEF t, b
  <2>3. /\ Watched(p) \in RunType /\ Watched(p).kind = p.kind /\ Watched(p).unheard = p.unheard
        /\ Watched(p).toPoll = t /\ Watched(p).stale = b
    BY <2>1, <2>2 DEF RunType
  <2> QED BY <2>3, <2>4 DEF t
<1> QED BY <1>2, <1>3

-----------------------------------------------------------------------------
(***************************************************************************)
(* The invariant.                                                          *)
(***************************************************************************)
LEMMA InitInv == Init => IInv
<1> SUFFICES ASSUME Init PROVE IInv
  OBVIOUS
<1>1. Nothing \in MessageType /\ Idle \in RunType /\ NoRun \in HeadType
  BY TimeAssumption DEF Nothing, NoStep, Absent, MessageType, Idle, RunType, NoRun, HeadType
<1>2. <<>> \in Seq(OrderType) /\ <<>> \in Seq(MessageType)
  OBVIOUS
<1>3. slot \in [Opcodes -> MessageType] /\ fresh \in [AllKinds -> BOOLEAN]
  BY <1>1 DEF Init
<1>4. TypeOK
  <2>1. /\ pc \in {"select", "pump", "tick", "handle"}
        /\ status \in {"DOWN", "CONNECTING", "UP"} /\ sock \in {"none", "ok", "broken"}
        /\ lost \in BOOLEAN /\ misled \in BOOLEAN /\ silent \in BOOLEAN
    BY DEF Init
  <2>2. /\ tx \in Seq(OrderType) /\ rx \in Seq(MessageType) /\ Len(tx) = 0 /\ Len(rx) = 0
    BY <1>2 DEF Init
  <2>3. runs \in 0..MaxRuns /\ sincePoll \in 0..Poll /\ quiet \in 0..(Stale + 1)
    BY CountAssumption, TimeAssumption DEF Init
  <2>4. g \in RunType /\ head \in HeadType
    BY <1>1 DEF Init
  <2> QED BY <1>3, <2>1, <2>2, <2>3, <2>4, CountAssumption DEF TypeOK
<1>5. Idle.kind = "none" /\ Idle.stale = FALSE
  BY DEF Idle
<1> QED BY <1>4, <1>5 DEF Init, IInv, LinkInv, SessionInv, PollInv, QuietInv

LEMMA SelectInv == ASSUME IInv, NEW d \in 0..IdleSleep, Select(d) PROVE IInv'
<1>1. pc = "select" /\ pc' = "pump" /\ Aged(d) /\ UNCHANGED <<link, rx, news, env, runs, lost, misled>>
  BY DEF Select
<1>2. /\ g' \in RunType /\ sincePoll' \in 0..Poll /\ quiet' \in 0..(Stale + 1)
      /\ PollInv' /\ QuietInv' /\ g'.kind = g.kind
  BY <1>1, AgedKeeps, TimeAssumption DEF IInv
<1>3. TypeOK'
  BY <1>1, <1>2 DEF IInv, TypeOK, link, news, env
<1> QED BY <1>1, <1>2, <1>3 DEF IInv, LinkInv, SessionInv, link

LEMMA PumpInv == ASSUME IInv, Pump PROVE IInv'
<1>1. CASE PumpIdle
  BY <1>1 DEF PumpIdle, IInv, TypeOK, LinkInv, SessionInv, PollInv, QuietInv, link, news, env,
       history
<1>2. CASE PumpConnect
  BY <1>2 DEF PumpConnect, IInv, TypeOK, LinkInv, SessionInv, PollInv, QuietInv, news, env, history
<1>3. CASE PumpFinish
  BY <1>3 DEF PumpFinish, IInv, TypeOK, LinkInv, SessionInv, PollInv, QuietInv, news, env, history
<1>4. CASE PumpRead
  <2>1. /\ pc = "pump" /\ pc' = "tick" /\ status = "UP" /\ rx' = <<>>
        /\ UNCHANGED <<link, g, env, runs, lost, misled, sincePoll>>
    BY <1>4 DEF PumpRead
  <2>2. slot' \in [Opcodes -> MessageType]
    <3> DEFINE last(o) == CHOOSE i \in Came(o) : \A j \in Came(o) : j <= i
    <3>1. rx \in Seq(MessageType) /\ slot \in [Opcodes -> MessageType]
      BY DEF IInv, TypeOK
    <3>2. \A o \in Opcodes : Came(o) # {} => last(o) \in 1..Len(rx)
      BY <3>1, LastCame
    <3>3. \A o \in Opcodes : Came(o) # {} => rx[last(o)] \in MessageType
      <4> HIDE DEF last
      <4> QED BY <3>1, <3>2
    <3>4. slot' = [o \in Opcodes |-> IF Came(o) = {} THEN slot[o] ELSE rx[last(o)]]
      BY <1>4 DEF PumpRead
    <3> HIDE DEF last
    <3> QED BY <3>1, <3>3, <3>4
  <2>3. fresh' \in [AllKinds -> BOOLEAN] /\ \A k \in AllKinds : fresh'[k] = (fresh[k] \/ Came(Op(k)) # {})
    <3>1. fresh' = [k \in AllKinds |-> fresh[k] \/ Came(Op(k)) # {}]
      BY <1>4 DEF PumpRead
    <3> QED BY <3>1
  <2>4. /\ quiet' \in 0..(Stale + 1)
        /\ quiet' = quiet \/ (g.kind # "none" /\ Came(Op(g.kind)) # {})
    BY <1>4, TimeAssumption DEF PumpRead, IInv, TypeOK
  <2>5. <<>> \in Seq(MessageType) /\ Len(<<>>) = 0
    OBVIOUS
  <2>6. TypeOK'
    BY <2>1, <2>2, <2>3, <2>4, <2>5, CountAssumption DEF IInv, TypeOK, link, env
  <2>7. g.kind # "none" => g.kind \in AllKinds
    BY DEF IInv, TypeOK, RunType
  <2>8. QuietInv'
    BY <2>1, <2>3, <2>4, <2>7 DEF IInv, QuietInv
  <2> QED BY <2>1, <2>6, <2>8 DEF IInv, LinkInv, SessionInv, PollInv, link
<1>5. CASE PumpLost
  <2>1. <<>> \in Seq(OrderType) /\ <<>> \in Seq(MessageType)
    OBVIOUS
  <2> QED BY <1>5, <2>1, CountAssumption
    DEF PumpLost, Disconnect, IInv, TypeOK, LinkInv, SessionInv, PollInv, QuietInv, news, env
<1> QED BY <1>1, <1>2, <1>3, <1>4, <1>5 DEF Pump

LEMMA TickInv == ASSUME IInv, Tick PROVE IInv'
<1>1. CASE TickIdle
  BY <1>1 DEF TickIdle, IInv, TypeOK, LinkInv, SessionInv, PollInv, QuietInv, link, news, env,
       history
<1>2. CASE TickDown
  <2>1. Idle \in RunType /\ Idle.kind = "none" /\ ~Idle.stale
    BY TimeAssumption DEF Idle, RunType
  <2> QED BY <1>2, <2>1
    DEF TickDown, IInv, TypeOK, LinkInv, SessionInv, PollInv, QuietInv, link, news, env
<1>3. CASE TickUp
  <2> DEFINE m == slot[Op(g.kind)]
             p == Absorbed(g, fresh[g.kind], m)
             q == IF PollDue(p) THEN <<Order("poll", p.kind, 0, p.run)>> ELSE <<>>
  <2>1. /\ pc = "tick" /\ pc' = "handle" /\ g.kind # "none" /\ status = "UP"
        /\ fresh' = [fresh EXCEPT ![g.kind] = FALSE]
        /\ g' = Watched(p)
        /\ misled' = (misled \/ (p.kind = "none" /\ m.run # g.run))
        /\ Transmit(q)
        /\ sincePoll' = IF PollDue(p) THEN 0 ELSE sincePoll
        /\ UNCHANGED <<slot, env, runs, quiet>>
    BY <1>3 DEF TickUp
  <2>2. g \in RunType /\ g.kind \in AllKinds /\ g.toPoll \in 0..Poll /\ g.unheard \in 0..(Stale + 1)
    BY <2>1 DEF IInv, TypeOK, RunType
  <2>3. m \in MessageType /\ fresh[g.kind] \in BOOLEAN
    BY <2>2, OpType DEF IInv, TypeOK
  <2>4. /\ p \in RunType /\ (p = Idle \/ p.kind = g.kind)
        /\ p.kind # "none" => p.toPoll = g.toPoll
    BY <2>2, <2>3, AbsorbedType
  <2>5. q \in Seq(OrderType)
    <3>1. p.kind \in AnyKind /\ p.run \in Nat /\ "poll" \in Orders
      BY <2>4 DEF RunType, AnyKind, Orders
    <3>2. <<Order("poll", p.kind, 0, p.run)>> \in Seq(OrderType)
      BY <3>1, OrderIn
    <3> QED BY <3>2
  <2>6. /\ fresh[g.kind] => p = Idle \/ (p.unheard = 0 /\ ~p.stale)
        /\ ~fresh[g.kind] => p = g
    <3>1. CASE fresh[g.kind]
      <4>1. CASE Ends(g.kind, m)
        BY <3>1, <4>1 DEF Absorbed
      <4>2. CASE ~Ends(g.kind, m)
        <5>1. p = [g EXCEPT !.unheard = 0, !.stale = FALSE,
                            !.remaining = IF m.left > 0 THEN m.left ELSE @]
          BY <3>1, <4>2 DEF Absorbed
        <5> QED BY <5>1, <2>2, <3>1 DEF RunType
      <4> QED BY <4>1, <4>2
    <3>2. CASE ~fresh[g.kind]
      BY <3>2 DEF Absorbed
    <3> QED BY <3>1, <3>2
  <2>7. Idle.kind = "none" /\ Idle.stale = FALSE
    BY DEF Idle
  <2> HIDE DEF m, p, q
  <2>8. /\ g' \in RunType /\ g'.kind = p.kind /\ g'.unheard = p.unheard
        /\ g'.toPoll = IF PollDue(p) THEN Poll ELSE p.toPoll
        /\ g'.stale = (p.stale \/ (p.kind # "none" /\ p.unheard > Stale))
    BY <2>1, <2>4, WatchedType
  <2>8a. g'.stale => p.stale \/ (p.kind # "none" /\ p.unheard > Stale)
    BY <2>8, Zenon
  <2>9. /\ status' \in {"DOWN", "CONNECTING", "UP"} /\ sock' \in {"none", "ok", "broken"}
        /\ tx' \in Seq(OrderType) /\ Len(tx') <= TxCap
        /\ rx' \in Seq(MessageType) /\ Len(rx') <= RxCap /\ lost' \in BOOLEAN
        /\ LinkInv' /\ (status' = "UP" \/ status' = "DOWN")
    BY <2>1, <2>5, TransmitKeeps DEF IInv
  <2>10. fresh' \in [AllKinds -> BOOLEAN] /\ misled' \in BOOLEAN /\ sincePoll' \in 0..Poll
    BY <2>1, <2>2, TimeAssumption DEF IInv, TypeOK
  <2>11. TypeOK'
    BY <2>1, <2>8, <2>9, <2>10 DEF IInv, TypeOK, env
  <2>12. PollInv'
    <3>1. CASE PollDue(p)
      BY <3>1, <2>1, <2>8, TimeAssumption DEF PollInv
    <3>2. CASE ~PollDue(p)
      BY <3>2, <2>1, <2>4, <2>8 DEF PollInv, IInv
    <3> QED BY <3>1, <3>2
  <2>13. QuietInv'
    <3>1. quiet' = quiet /\ quiet \in 0..(Stale + 1) /\ Stale \in Nat
      BY <2>1, TimeAssumption DEF IInv, TypeOK
    <3>2. CASE p.kind = "none"
      <4>1. ~p.stale
        BY <3>2, <2>1, <2>4, <2>7
      <4> QED BY <3>2, <4>1, <2>8 DEF QuietInv
    <3>3. CASE p.kind # "none" /\ fresh[g.kind]
      <4>1. p.unheard = 0 /\ ~p.stale
        BY <3>3, <2>6, <2>7
      <4>2. ~g'.stale /\ g'.unheard = 0
        BY <4>1, <2>8, <2>8a, <3>1
      <4> QED BY <4>2, <3>1, <3>3, <2>8 DEF QuietInv
    <3>4. CASE p.kind # "none" /\ ~fresh[g.kind]
      <4>1. p = g /\ g.unheard <= quiet /\ (g.stale => quiet > Stale)
        BY <3>4, <2>1, <2>6 DEF IInv, QuietInv
      <4>2. g'.unheard <= quiet /\ (g'.stale => quiet > Stale)
        BY <4>1, <2>2, <2>8, <2>8a, <3>1
      <4> QED BY <4>2, <3>1, <3>4, <2>8 DEF QuietInv
    <3> QED BY <3>2, <3>3, <3>4
  <2> QED BY <2>1, <2>9, <2>11, <2>12, <2>13 DEF IInv, SessionInv
<1> QED BY <1>1, <1>2, <1>3 DEF Tick

\* A run begins with the poll clock full and the watchdog's clock at zero.
LEMMA BeginInv ==
  ASSUME IInv, NEW k \in AllKinds, NEW n \in Int, NEW mode \in 0..2,
         NEW orders \in Seq(OrderType),
         pc = "handle", pc' = "select", runs < MaxRuns, status = "UP",
         g' = Begun(k, n, mode), Transmit(orders), runs' = runs + 1, quiet' = 0,
         UNCHANGED <<news, env, misled, sincePoll>>
  PROVE  IInv'
<1>1. Begun(k, n, mode) \in RunType
  BY BegunType DEF IInv
<1>2. /\ Begun(k, n, mode).toPoll = Poll /\ Begun(k, n, mode).unheard = 0
      /\ Begun(k, n, mode).stale = FALSE /\ Begun(k, n, mode).kind = k
  BY DEF Begun
<1>3. /\ status' \in {"DOWN", "CONNECTING", "UP"} /\ sock' \in {"none", "ok", "broken"}
      /\ tx' \in Seq(OrderType) /\ Len(tx') <= TxCap
      /\ rx' \in Seq(MessageType) /\ Len(rx') <= RxCap /\ lost' \in BOOLEAN
      /\ LinkInv' /\ (status' = "UP" \/ status' = "DOWN")
  BY TransmitKeeps DEF IInv
<1>4. runs' \in 0..MaxRuns /\ quiet' \in 0..(Stale + 1) /\ sincePoll \in 0..Poll
  BY CountAssumption, TimeAssumption DEF IInv, TypeOK
<1>5. TypeOK'
  BY <1>1, <1>3, <1>4 DEF IInv, TypeOK, news, env
<1>6. PollInv' /\ QuietInv'
  BY <1>2, <1>4, TimeAssumption DEF PollInv, QuietInv
<1> QED BY <1>3, <1>5, <1>6 DEF IInv, SessionInv

LEMMA StartInv == ASSUME IInv, StartAny PROVE IInv'
<1>1. ASSUME NEW k \in Kinds, NEW n \in Frames \cup {Unlimited}, NEW extra \in BOOLEAN,
             Start(k, n, extra)
      PROVE  IInv'
  <2>1. k \in AllKinds /\ n \in Int
    BY KindAssumption, CountAssumption DEF Unlimited
  <2>2. Total(k, n) \in Int
    BY <2>1 DEF Total
  <2>3. StartOrders(k, n, extra) \in Seq(OrderType)
    BY <2>1, StartOrdersType DEF IInv
  <2>4. /\ pc = "handle" /\ pc' = "select" /\ runs < MaxRuns /\ status = "UP"
        /\ g' = Begun(k, Total(k, n), 0) /\ Transmit(StartOrders(k, n, extra))
        /\ runs' = runs + 1 /\ quiet' = 0 /\ UNCHANGED <<news, env, misled, sincePoll>>
    BY <1>1 DEF Start
  <2> QED BY <2>1, <2>2, <2>3, <2>4, BeginInv
<1>2. ASSUME NEW n \in Frames, StartPreview(n) PROVE IInv'
  <2>1. n \in Int /\ "focus" \in AllKinds /\ 2 \in 0..2
    BY CountAssumption DEF AllKinds
  <2>2. StartOrders("preview", n, FALSE) \in Seq(OrderType)
    BY <2>1, StartOrdersType DEF IInv
  <2>3. /\ pc = "handle" /\ pc' = "select" /\ runs < MaxRuns /\ status = "UP"
        /\ g' = Begun("focus", n, 2) /\ Transmit(StartOrders("preview", n, FALSE))
        /\ runs' = runs + 1 /\ quiet' = 0 /\ UNCHANGED <<news, env, misled, sincePoll>>
    BY <1>2 DEF StartPreview, Fits
  <2> QED BY <2>1, <2>2, <2>3, BeginInv
<1> QED BY <1>1, <1>2 DEF StartAny

LEMMA CancelInv == ASSUME IInv, Cancel PROVE IInv'
<1>1. Idle \in RunType /\ Idle.kind = "none" /\ Idle.stale = FALSE
  BY TimeAssumption DEF Idle, RunType
<1>2. CancelOrders(g) \in Seq(OrderType)
  <2> DEFINE k == IF g.paused = 2 THEN "preview" ELSE g.kind
  <2>1. k \in AnyKind /\ g.run \in Nat /\ "cancel" \in Orders
    BY DEF IInv, TypeOK, RunType, AnyKind, Orders
  <2> HIDE DEF k
  <2>2. <<Order("cancel", k, 0, g.run)>> \in Seq(OrderType)
    BY <2>1, OrderIn
  <2>3. <<>> \in Seq(OrderType)
    OBVIOUS
  <2> QED BY <2>2, <2>3 DEF CancelOrders, k
<1>3. /\ status' \in {"DOWN", "CONNECTING", "UP"} /\ sock' \in {"none", "ok", "broken"}
      /\ tx' \in Seq(OrderType) /\ Len(tx') <= TxCap
      /\ rx' \in Seq(MessageType) /\ Len(rx') <= RxCap /\ lost' \in BOOLEAN
      /\ LinkInv'
  BY <1>2, TransmitKeeps DEF Cancel, IInv
<1>4. TypeOK'
  BY <1>1, <1>3 DEF Cancel, IInv, TypeOK, news, env
<1> QED BY <1>1, <1>3, <1>4 DEF Cancel, IInv, SessionInv, PollInv, QuietInv

LEMMA PanoPauseInv == ASSUME IInv, NEW on \in BOOLEAN, PanoPause(on) PROVE IInv'
<1> DEFINE n == IF on THEN 1 ELSE 0
           o == <<Order(IF on THEN "pause" ELSE "resume", "pano", 0, g.run)>>
<1>1. /\ pc = "handle" /\ pc' = "select" /\ g.kind = "pano" /\ status = "UP"
      /\ g' = [g EXCEPT !.paused = n] /\ Transmit(o)
      /\ UNCHANGED <<news, env, runs, misled, sincePoll, quiet>>
  BY DEF PanoPause, Fits
<1>2. g \in RunType /\ g.run \in Nat /\ n \in 0..2
  BY DEF IInv, TypeOK, RunType
<1>3. o \in Seq(OrderType)
  <2>1. (IF on THEN "pause" ELSE "resume") \in Orders /\ "pano" \in AnyKind
    BY DEF Orders, AnyKind, AllKinds
  <2> QED BY <1>2, <2>1, OrderIn
<1> HIDE DEF n, o
<1>4. /\ g' \in RunType /\ g'.kind = g.kind /\ g'.toPoll = g.toPoll
      /\ g'.unheard = g.unheard /\ g'.stale = g.stale
  BY <1>1, <1>2 DEF RunType
<1>5. /\ status' \in {"DOWN", "CONNECTING", "UP"} /\ sock' \in {"none", "ok", "broken"}
      /\ tx' \in Seq(OrderType) /\ Len(tx') <= TxCap
      /\ rx' \in Seq(MessageType) /\ Len(rx') <= RxCap /\ lost' \in BOOLEAN
      /\ LinkInv' /\ (status' = "UP" \/ status' = "DOWN")
  BY <1>1, <1>3, TransmitKeeps DEF IInv
<1>6. TypeOK'
  BY <1>1, <1>4, <1>5 DEF IInv, TypeOK, news, env
<1> QED BY <1>1, <1>4, <1>5, <1>6 DEF IInv, SessionInv, PollInv, QuietInv, news

LEMMA OtherOrdersType == \A orders \in OtherOrders : orders \in Seq(OrderType)
<1>1. <<Order("extra", "none", 0, 0)>> \in Seq(OrderType) /\ <<>> \in Seq(OrderType)
  BY OrderIn DEF Orders, AnyKind
<1> QED BY <1>1 DEF OtherOrders

LEMMA OtherRequestInv ==
  ASSUME IInv, NEW d \in 0..HandleMax, NEW orders \in OtherOrders, OtherRequest(d, orders)
  PROVE  IInv'
<1>1. /\ pc = "handle" /\ pc' = "select" /\ Transmit(orders) /\ Aged(d)
      /\ UNCHANGED <<news, env, runs, misled>>
  BY DEF OtherRequest
<1>2. /\ g' \in RunType /\ sincePoll' \in 0..Poll /\ quiet' \in 0..(Stale + 1)
      /\ PollInv' /\ QuietInv' /\ g'.kind = g.kind
  BY <1>1, AgedKeeps, TimeAssumption DEF IInv
<1>3. /\ status' \in {"DOWN", "CONNECTING", "UP"} /\ sock' \in {"none", "ok", "broken"}
      /\ tx' \in Seq(OrderType) /\ Len(tx') <= TxCap
      /\ rx' \in Seq(MessageType) /\ Len(rx') <= RxCap /\ lost' \in BOOLEAN
      /\ LinkInv' /\ (status' = status \/ status' = "DOWN")
  BY <1>1, OtherOrdersType, TransmitKeeps DEF IInv
<1>4. TypeOK'
  BY <1>1, <1>2, <1>3 DEF IInv, TypeOK, news, env
<1> QED BY <1>1, <1>2, <1>3, <1>4 DEF IInv, SessionInv

LEMMA HandleInv == ASSUME IInv, Handle PROVE IInv'
BY StartInv, CancelInv, PanoPauseInv, OtherRequestInv DEF Handle

LEMMA HeadInv == ASSUME IInv, HeadReads \/ HeadShoots \/ HeadFails \/ HeadSilenced \/ Cut PROVE IInv'
<1>1. CASE HeadReads
  <2> DEFINE o == Head(tx)
             said == IF silent THEN <<>> ELSE Answer(head, Obey(head, o), o)
  <2>1. /\ sock = "ok" /\ tx # <<>> /\ head' = Obey(head, o) /\ tx' = Tail(tx)
        /\ Len(rx) + Len(said) <= RxCap /\ rx' = rx \o said
        /\ UNCHANGED <<pc, status, sock, news, g, silent, history>>
    BY <1>1 DEF HeadReads
  <2>2. /\ o \in OrderType /\ Tail(tx) \in Seq(OrderType) /\ Len(Tail(tx)) = Len(tx) - 1
        /\ Len(tx) \in Nat
    BY <2>1 DEF IInv, TypeOK
  <2>3. Obey(head, o) \in HeadType
    BY <2>2, ObeyType DEF IInv, TypeOK
  <2>4. said \in Seq(MessageType)
    BY <2>2, <2>3, AnswerType, SaidIn DEF IInv, TypeOK
  <2> HIDE DEF o, said
  <2>5. rx' \in Seq(MessageType) /\ Len(rx') <= RxCap
    BY <2>1, <2>4 DEF IInv, TypeOK
  <2>6. Len(tx') <= TxCap
    BY <2>1, <2>2, CountAssumption DEF IInv, TypeOK
  <2>7. TypeOK'
    BY <2>1, <2>2, <2>3, <2>5, <2>6 DEF IInv, TypeOK, news, history
  <2> QED BY <2>1, <2>7 DEF IInv, LinkInv, SessionInv, PollInv, QuietInv, news, history
<1>2. CASE HeadShoots
  <2> DEFINE n == head.left - 1
             said == IF sock = "ok" THEN Push(head') ELSE <<>>
  <2>1. /\ head' = [head EXCEPT !.left = n]
        /\ Len(rx) + Len(said) <= RxCap /\ rx' = rx \o said
        /\ UNCHANGED <<pc, link, news, g, silent, history>>
    BY <1>2 DEF HeadShoots
  <2>2. head \in HeadType /\ n \in Int
    BY DEF IInv, TypeOK, HeadType
  <2>3. head' \in HeadType
    <3> HIDE DEF n
    <3> QED BY <2>1, <2>2 DEF HeadType
  <2>4. said \in Seq(MessageType)
    BY <2>3, PushType, SaidIn
  <2> HIDE DEF n, said
  <2>5. rx' \in Seq(MessageType) /\ Len(rx') <= RxCap
    BY <2>1, <2>4 DEF IInv, TypeOK
  <2>6. TypeOK'
    BY <2>1, <2>3, <2>5 DEF IInv, TypeOK, link, news, history
  <2> QED BY <2>1, <2>6 DEF IInv, LinkInv, SessionInv, PollInv, QuietInv, link, news, history
<1>3. CASE HeadFails
  <2>1. head' \in HeadType
    BY <1>3 DEF HeadFails, Failed, IInv, TypeOK, HeadType
  <2>2. TypeOK'
    BY <1>3, <2>1 DEF HeadFails, IInv, TypeOK, link, news, history
  <2> QED BY <1>3, <2>2
    DEF HeadFails, IInv, LinkInv, SessionInv, PollInv, QuietInv, link, news, history
<1>4. CASE HeadSilenced
  BY <1>4 DEF HeadSilenced, IInv, TypeOK, LinkInv, SessionInv, PollInv, QuietInv, link, news,
       history
<1>5. CASE Cut
  BY <1>5 DEF Cut, IInv, TypeOK, LinkInv, SessionInv, PollInv, QuietInv, news, env, history
<1> QED BY <1>1, <1>2, <1>3, <1>4, <1>5

\* Each step of the loop, the network and the head keeps the invariant.
LEMMA NextInv == IInv /\ [Next]_vars => IInv'
<1>1. ASSUME IInv, Next PROVE IInv'
  BY <1>1, SelectInv, PumpInv, TickInv, HandleInv, HeadInv DEF Next
<1>2. ASSUME IInv, UNCHANGED vars PROVE IInv'
  BY <1>2 DEF vars, link, news, env, history, IInv, TypeOK, LinkInv, SessionInv, PollInv, QuietInv
<1> QED BY <1>1, <1>2

THEOREM Invariant == Spec => []IInv
BY InitInv, NextInv, PTL DEF Spec

-----------------------------------------------------------------------------
(***************************************************************************)
(* The theorems.                                                           *)
(***************************************************************************)
\* Every variable keeps its type: the counts of the head never break the record of
\* a run, and the buffers never outgrow their sizes.
THEOREM TypeCorrect == Spec => []TypeOK
BY Invariant, PTL DEF IInv

\* A run is called stale only when the head has been silent on its opcode for
\* longer than STALE_MS (prog_tick, absorb_reply).
THEOREM StaleCorrect == Spec => []StaleMeansSilent
<1>1. IInv => StaleMeansSilent
  <2> SUFFICES ASSUME IInv, g.stale, pc # "tick" PROVE quiet > Stale
    BY DEF StaleMeansSilent
  <2> QED BY DEF IInv, QuietInv
<1> QED BY <1>1, Invariant, PTL

\* No run crosses from one session into the next (prog_tick, line 986).
THEOREM RunDiesCorrect == Spec => RunDiesWithSession
<1>1. IInv /\ [Next]_vars => [status # "UP" /\ status' = "UP" => g'.kind = "none"]_vars
  <2> SUFFICES ASSUME IInv, Next, status # "UP", status' = "UP" PROVE g'.kind = "none"
    OBVIOUS
  <2>1. ASSUME NEW orders \in Seq(OrderType), Transmit(orders) PROVE FALSE
    BY <2>1, TransmitKeeps DEF IInv
  <2>2. CASE PumpFinish
    BY <2>2 DEF PumpFinish, IInv, SessionInv
  <2>3. ~(\E d \in 0..IdleSleep : Select(d))
    BY DEF Select, link
  <2>4. ~PumpIdle /\ ~PumpConnect /\ ~PumpRead /\ ~PumpLost
    BY DEF PumpIdle, PumpConnect, PumpRead, PumpLost, link
  <2>5. ~TickIdle /\ ~TickDown /\ ~TickUp
    BY DEF TickIdle, TickDown, TickUp, link
  <2>6. ~StartAny /\ ~(\E on \in BOOLEAN : PanoPause(on))
    BY DEF StartAny, Start, StartPreview, PanoPause, Fits
  <2>7. ~Cancel
    BY <2>1 DEF Cancel, Transmit, Disconnect
  <2>8. ~(\E d \in 0..HandleMax, orders \in OtherOrders : OtherRequest(d, orders))
    BY <2>1, OtherOrdersType DEF OtherRequest
  <2>9. ~Cut /\ ~HeadReads /\ ~HeadShoots /\ ~HeadFails /\ ~HeadSilenced
    BY DEF Cut, HeadReads, HeadShoots, HeadFails, HeadSilenced, link
  <2> QED BY <2>2, <2>3, <2>4, <2>5, <2>6, <2>7, <2>8, <2>9 DEF Next, Pump, Tick, Handle
<1> QED BY <1>1, Invariant, PTL DEF Spec, RunDiesWithSession

\* Two polls are POLL_MS apart, whatever is cancelled and started between them.
THEOREM PollPacedCorrect == Spec => PollPaced
<1>1. IInv /\ [Next]_vars => [pc = "tick" /\ Len(tx') > Len(tx) => sincePoll = Poll]_vars
  <2> SUFFICES ASSUME IInv, Next, pc = "tick", Len(tx') > Len(tx) PROVE sincePoll = Poll
    OBVIOUS
  <2>1. tx \in Seq(OrderType) /\ Len(tx) \in Nat /\ sincePoll \in 0..Poll /\ tx' # tx
    BY DEF IInv, TypeOK
  <2>2. CASE TickUp
    <3> DEFINE m == slot[Op(g.kind)]
               p == Absorbed(g, fresh[g.kind], m)
               q == IF PollDue(p) THEN <<Order("poll", p.kind, 0, p.run)>> ELSE <<>>
    <3>1. g.kind # "none" /\ status = "UP" /\ Transmit(q)
      BY <2>2 DEF TickUp
    <3>2. g \in RunType /\ m \in MessageType /\ fresh[g.kind] \in BOOLEAN
      BY <3>1, OpType DEF IInv, TypeOK, RunType
    <3>3. p.kind # "none" => p.toPoll = g.toPoll
      BY <3>2, AbsorbedType
    <3>4. PollDue(p)
      <4> SUFFICES ASSUME ~PollDue(p) PROVE FALSE
        OBVIOUS
      <4>1. q = <<>> /\ <<>> \in Seq(OrderType)
        OBVIOUS
      <4> QED BY <2>1, <3>1, <4>1, TransmitKeeps DEF IInv
    <3> HIDE DEF p
    <3>5. g.toPoll = 0
      BY <3>3, <3>4 DEF PollDue
    <3> QED BY <2>1, <3>1, <3>5, TimeAssumption DEF IInv, PollInv
  <2>3. ~TickIdle /\ ~TickDown
    BY <2>1 DEF TickIdle, TickDown, link
  <2>4. ~(\E d \in 0..IdleSleep : Select(d)) /\ ~Pump
    BY DEF Select, Pump, PumpIdle, PumpConnect, PumpFinish, PumpRead, PumpLost
  <2>5. ~Handle
    BY DEF Handle, StartAny, Start, StartPreview, Cancel, PanoPause, OtherRequest
  <2>6. ~Cut /\ ~HeadShoots /\ ~HeadFails /\ ~HeadSilenced
    BY <2>1 DEF Cut, HeadShoots, HeadFails, HeadSilenced, link
  <2>7. ~HeadReads
    <3> SUFFICES ASSUME HeadReads PROVE FALSE
      OBVIOUS
    <3>1. tx # <<>> /\ tx' = Tail(tx)
      BY DEF HeadReads
    <3>2. Len(Tail(tx)) = Len(tx) - 1
      BY <2>1, <3>1
    <3>3. Len(tx') = Len(tx) - 1
      BY <3>1, <3>2
    <3> HIDE DEF HeadReads
    <3> QED BY <2>1, <3>3
  <2> QED BY <2>2, <2>3, <2>4, <2>5, <2>6, <2>7 DEF Next, Tick
<1> QED BY <1>1, Invariant, PTL DEF Spec, PollPaced

\* Each step of the loop is one of the session, or leaves it alone.
LEMMA SessionStep ==
  ASSUME IInv, Next
  PROVE  Session!Next \/ UNCHANGED <<status, tx>>
<1> USE DEF Session!Next, Session!Connect, Session!Establish, Session!Accept, Session!Write, Session!End
<1>1. (tx # <<>>) \in BOOLEAN /\ (tx' # <<>>) \in BOOLEAN
  OBVIOUS
<1>3. CASE \E d \in 0..IdleSleep : Select(d)
  BY <1>3 DEF Select, link
<1>4. CASE Pump
  BY <1>4, <1>1 DEF Pump, PumpIdle, PumpConnect, PumpFinish, PumpRead, PumpLost, Disconnect,
       link, IInv, LinkInv
<1>5. CASE Tick
  <2>1. CASE TickUp
    BY <2>1, <1>1 DEF TickUp, Transmit, Disconnect
  <2>2. CASE TickIdle \/ TickDown
    BY <2>2 DEF TickIdle, TickDown, link
  <2> QED BY <1>5, <2>1, <2>2 DEF Tick
<1>6. CASE Handle
  BY <1>6, <1>1 DEF Handle, StartAny, Start, StartPreview, Cancel, PanoPause, OtherRequest,
       Transmit, Disconnect
<1>7. CASE HeadReads
  BY <1>7, <1>1 DEF HeadReads, IInv, LinkInv
<1>8. CASE HeadShoots \/ HeadFails \/ HeadSilenced \/ Cut
  BY <1>8 DEF HeadShoots, HeadFails, HeadSilenced, Cut, link
<1> QED BY <1>3, <1>4, <1>5, <1>6, <1>7, <1>8 DEF Next

\* Seen by the programmes, the link is a LinkSession: what a session accepted and
\* did not write ends with it.
THEOREM ProgramImplementsSession == Spec => ImplementsSession
<1>1. Init => Session!Init
  BY DEF Init, Session!Init
<1>2. IInv /\ [Next]_vars => [Session!Next]_(Session!vars)
  <2> SUFFICES ASSUME IInv, [Next]_vars PROVE [Session!Next]_(Session!vars)
    OBVIOUS
  <2>1. UNCHANGED vars => UNCHANGED <<status, tx>>
    BY DEF vars, link
  <2>2. Session!Next \/ UNCHANGED <<status, tx>>
    BY <2>1, SessionStep
  <2>3. UNCHANGED <<status, tx>> => UNCHANGED Session!vars
    BY DEF Session!vars
  <2> QED BY <2>2, <2>3
<1> QED BY <1>1, <1>2, Invariant, PTL DEF Spec, ImplementsSession, Session!Spec

-----------------------------------------------------------------------------
(***************************************************************************)
(* What the head will be doing: the orders on their way, one at a time.    *)
(***************************************************************************)
\* The last order of a kind is the one that no later one of the kind follows.
LEMMA LatestIs ==
  ASSUME NEW q \in Seq(OrderType), NEW these
  PROVE  /\ Latest(q, these) \in 0..Len(q)
         /\ \A i \in 1..Len(q) : q[i].what \in these => i <= Latest(q, these)
         /\ Latest(q, these) # 0 => q[Latest(q, these)].what \in these
<1> DEFINE S == {0} \cup {i \in 1..Len(q) : q[i].what \in these}
<1>1. Len(q) \in Nat
  OBVIOUS
<1>2. S \subseteq 0..Len(q) /\ S # {} /\ 0..Len(q) \subseteq Int
  BY <1>1
<1>3. IsFiniteSet(S)
  <2>1. IsFiniteSet(0..Len(q))
    BY <1>1, FS_Interval
  <2> QED BY <1>2, <2>1, FS_Subset
<1>4. Latest(q, these) = CHOOSE i \in S : \A j \in S : i >= j
  BY DEF Latest, Max
<1>5. \E i \in S : \A j \in S : j <= i
  <2> HIDE DEF S
  <2> QED BY <1>2, <1>3, LargestExists
<1>6. \E i \in S : \A j \in S : i >= j
  <2>1. S \subseteq Int
    BY <1>2
  <2> HIDE DEF S
  <2> QED BY <1>5, <2>1
<1>7. Latest(q, these) \in S /\ \A j \in S : Latest(q, these) >= j
  <2> HIDE DEF S
  <2> QED BY <1>4, <1>6
<1> QED BY <1>1, <1>2, <1>7

LEMMA LatestUnique ==
  ASSUME NEW q \in Seq(OrderType), NEW these, NEW n \in 0..Len(q),
         \A i \in 1..Len(q) : q[i].what \in these => i <= n,
         n # 0 => q[n].what \in these
  PROVE  Latest(q, these) = n
<1>1. /\ Latest(q, these) \in 0..Len(q) /\ Len(q) \in Nat
      /\ \A i \in 1..Len(q) : q[i].what \in these => i <= Latest(q, these)
      /\ Latest(q, these) # 0 => q[Latest(q, these)].what \in these
  BY LatestIs
<1> QED BY <1>1

LEMMA LatestAppend ==
  ASSUME NEW q \in Seq(OrderType), NEW o \in OrderType, NEW these
  PROVE  Latest(Append(q, o), these) = IF o.what \in these THEN Len(q) + 1 ELSE Latest(q, these)
<1> DEFINE r == Append(q, o)
           n == IF o.what \in these THEN Len(q) + 1 ELSE Latest(q, these)
<1>1. /\ r \in Seq(OrderType) /\ Len(r) = Len(q) + 1 /\ Len(q) \in Nat /\ r[Len(q) + 1] = o
      /\ \A i \in 1..Len(q) : r[i] = q[i]
  OBVIOUS
<1>2. /\ Latest(q, these) \in 0..Len(q)
      /\ \A i \in 1..Len(q) : q[i].what \in these => i <= Latest(q, these)
      /\ Latest(q, these) # 0 => q[Latest(q, these)].what \in these
  BY LatestIs
<1> HIDE DEF r
<1>3. n \in 0..Len(r)
  BY <1>1, <1>2
<1>4. ASSUME NEW i \in 1..Len(r), r[i].what \in these PROVE i <= n
  <2>1. CASE i = Len(q) + 1
    BY <1>1, <1>4, <2>1
  <2>2. CASE i # Len(q) + 1
    BY <1>1, <1>2, <1>4, <2>2
  <2> QED BY <2>1, <2>2
<1>5. n # 0 => r[n].what \in these
  BY <1>1, <1>2
<1> HIDE DEF n
<1>6. Latest(r, these) = n
  BY <1>1, <1>3, <1>4, <1>5, LatestUnique
<1> QED BY <1>6 DEF r, n

LEMMA LatestTail ==
  ASSUME NEW q \in Seq(OrderType), q # <<>>, NEW these
  PROVE  Latest(q, these) = IF Latest(Tail(q), these) # 0 THEN Latest(Tail(q), these) + 1
                            ELSE IF Head(q).what \in these THEN 1 ELSE 0
<1> DEFINE t == Tail(q)
           n == IF Latest(t, these) # 0 THEN Latest(t, these) + 1
                ELSE IF Head(q).what \in these THEN 1 ELSE 0
<1>1. /\ t \in Seq(OrderType) /\ Len(q) = Len(t) + 1 /\ Len(t) \in Nat /\ q[1] = Head(q)
      /\ \A i \in 1..Len(t) : q[i + 1] = t[i]
  OBVIOUS
<1>2. /\ Latest(t, these) \in 0..Len(t)
      /\ \A i \in 1..Len(t) : t[i].what \in these => i <= Latest(t, these)
      /\ Latest(t, these) # 0 => t[Latest(t, these)].what \in these
  BY <1>1, LatestIs
<1> HIDE DEF t
<1>3. n \in 0..Len(q)
  BY <1>1, <1>2
<1>4. ASSUME NEW i \in 1..Len(q), q[i].what \in these PROVE i <= n
  <2>1. CASE i = 1
    BY <1>1, <1>2, <1>4, <2>1
  <2>2. CASE i # 1
    <3>1. i - 1 \in 1..Len(t) /\ q[(i - 1) + 1] = t[i - 1] /\ (i - 1) + 1 = i
      BY <1>1, <2>2
    <3>2. i - 1 <= Latest(t, these)
      BY <1>2, <1>4, <3>1
    <3> QED BY <1>2, <3>1, <3>2
  <2> QED BY <2>1, <2>2
<1>5. n # 0 => q[n].what \in these
  <2>1. CASE Latest(t, these) # 0
    <3>1. Latest(t, these) \in 1..Len(t)
      BY <1>1, <1>2, <2>1
    <3> QED BY <1>1, <1>2, <2>1, <3>1
  <2>2. CASE Latest(t, these) = 0
    BY <1>1, <2>2
  <2> QED BY <2>1, <2>2
<1> HIDE DEF n
<1>6. Latest(q, these) = n
  BY <1>3, <1>4, <1>5, LatestUnique
<1> QED BY <1>6 DEF t, n

\* What each order does to the head.
LEMMA ObeyCases ==
  ASSUME NEW h \in HeadType, NEW o \in OrderType
  PROVE  /\ o.what = "begin" =>
              Obey(h, o) = [kind |-> o.kind, left |-> o.left, run |-> o.run, paused |-> FALSE]
         /\ o.what # "begin" /\ Cancels(o, h) => Obey(h, o) = NoRun
         /\ o.what \in {"pause", "resume"} /\ h.kind = "pano" =>
              Obey(h, o) = [h EXCEPT !.paused = (o.what = "pause")]
         /\ o.what \in {"pause", "resume"} /\ h.kind # "pano" => Obey(h, o) = h
         /\ o.what \notin {"begin", "pause", "resume"} /\ ~Cancels(o, h) => Obey(h, o) = h
         /\ o.what \in {"pause", "resume"} =>
              Obey(h, o).kind = h.kind /\ Obey(h, o).left = h.left /\ Obey(h, o).run = h.run
         /\ o.what # "cancel" => ~Cancels(o, h)
<1>1. o.what # "cancel" => ~Cancels(o, h)
  BY DEF Cancels
<1> DEFINE held == [h EXCEPT !.paused = (o.what = "pause")]
<1>2. held.kind = h.kind /\ held.left = h.left /\ held.run = h.run
  BY DEF HeadType
<1>3. o.what \in {"pause", "resume"} => Obey(h, o) = IF h.kind = "pano" THEN held ELSE h
  BY <1>1 DEF Obey
<1> QED BY <1>1, <1>2, <1>3 DEF Obey

LEMMA NoRunStays ==
  /\ NoRun \in HeadType /\ NoRun.kind = "none" /\ NoRun.left = 0 /\ NoRun.run = 0
  /\ \A o \in OrderType : o.what # "begin" => Obey(NoRun, o) = NoRun
<1>1. NoRun \in HeadType /\ NoRun.kind = "none" /\ NoRun.left = 0 /\ NoRun.run = 0
  BY DEF NoRun, HeadType
<1>2. ASSUME NEW o \in OrderType, o.what # "begin" PROVE Obey(NoRun, o) = NoRun
  BY <1>1, <1>2 DEF Obey
<1> QED BY <1>1, <1>2

\* The paused flag is the one of the last pause or resume, whatever came before.
LEMMA TurnedTwice ==
  ASSUME NEW h \in HeadType, NEW o \in OrderType, NEW u \in OrderType,
         o.what \in {"pause", "resume"}, u.what \in {"pause", "resume"}
  PROVE  Obey(Obey(h, o), u) = Obey(h, u)
<1> DEFINE a == (o.what = "pause")
           b == (u.what = "pause")
<1>1. a \in BOOLEAN /\ b \in BOOLEAN
  OBVIOUS
<1>2. CASE h.kind = "pano"
  <2>1. Obey(h, o) = [h EXCEPT !.paused = a] /\ Obey(h, u) = [h EXCEPT !.paused = b]
    BY <1>2, ObeyCases
  <2>2. Obey(h, o) \in HeadType /\ Obey(h, o).kind = "pano"
    BY <1>2, ObeyCases, ObeyType
  <2>3. Obey(Obey(h, o), u) = [Obey(h, o) EXCEPT !.paused = b]
    BY <2>2, ObeyCases
  <2> HIDE DEF a, b
  <2> QED BY <1>1, <2>1, <2>3 DEF HeadType
<1>3. CASE h.kind # "pano"
  BY <1>3, ObeyCases
<1> QED BY <1>2, <1>3

LEMMA ObeyTurns ==
  ASSUME NEW h \in HeadType, NEW o \in OrderType, o.what \in {"pause", "resume"}
  PROVE  Obey(h, o) = IF h.kind = "pano" THEN [h EXCEPT !.paused = (o.what = "pause")] ELSE h
BY ObeyCases

LEMMA ObeyBegin ==
  ASSUME NEW h, NEW j, NEW o, o.what = "begin"
  PROVE  Obey(h, o) = Obey(j, o)
BY DEF Obey

\* The kind decides which cancel the head obeys.
LEMMA CancelsByKind ==
  ASSUME NEW h, NEW j, NEW o, h.kind = j.kind
  PROVE  Cancels(o, h) <=> Cancels(o, j)
BY DEF Cancels

\* Where no order begins a programme, only the cancels and pauses matter; where one
\* does, the head before it does not.
Base(h, q) == IF Latest(q, {"begin"}) = 0 THEN h ELSE Obey(h, q[Latest(q, {"begin"})])
Cancelled(h, q) ==
  \E i \in (Latest(q, {"begin"}) + 1)..Len(q) : Cancels(q[i], Base(h, q))
Turned(h, q) ==
  IF Latest(q, {"pause", "resume"}) > Latest(q, {"begin"})
  THEN Obey(Base(h, q), q[Latest(q, {"pause", "resume"})]) ELSE Base(h, q)

LEMMA HeadAfterIs ==
  ASSUME NEW h \in HeadType, NEW q \in Seq(OrderType)
  PROVE  /\ HeadAfter(h, q) = IF Cancelled(h, q) THEN NoRun ELSE Turned(h, q)
         /\ Base(h, q) \in HeadType /\ Turned(h, q) \in HeadType /\ HeadAfter(h, q) \in HeadType
         /\ Turned(h, q).kind = Base(h, q).kind /\ Turned(h, q).left = Base(h, q).left
         /\ Turned(h, q).run = Base(h, q).run
         /\ Latest(q, {"begin"}) # 0 =>
              LET o == q[Latest(q, {"begin"})]
              IN  Base(h, q) = [kind |-> o.kind, left |-> o.left, run |-> o.run, paused |-> FALSE]
<1> DEFINE b == Latest(q, {"begin"})
           t == Latest(q, {"pause", "resume"})
<1>1. /\ Len(q) \in Nat /\ b \in 0..Len(q) /\ t \in 0..Len(q)
      /\ b # 0 => q[b].what = "begin"
      /\ t # 0 => q[t].what \in {"pause", "resume"}
  BY LatestIs
<1>2. HeadAfter(h, q) = IF Cancelled(h, q) THEN NoRun ELSE Turned(h, q)
  BY DEF HeadAfter, Cancelled, Turned, Base
<1> HIDE DEF b, t
<1>3. Base(h, q) \in HeadType
  <2>1. b # 0 => q[b] \in OrderType
    BY <1>1
  <2> QED BY <2>1, ObeyType DEF Base, b
<1>4. /\ b # 0 => Base(h, q) = [kind |-> q[b].kind, left |-> q[b].left, run |-> q[b].run, paused |-> FALSE]
  <2>1. b # 0 => q[b] \in OrderType
    BY <1>1
  <2> QED BY <1>1, <2>1, ObeyCases DEF Base, b
<1>5. t > b => q[t] \in OrderType /\ q[t].what \in {"pause", "resume"}
  BY <1>1
<1>6. /\ Turned(h, q) \in HeadType /\ Turned(h, q).kind = Base(h, q).kind
      /\ Turned(h, q).left = Base(h, q).left /\ Turned(h, q).run = Base(h, q).run
  BY <1>3, <1>5, ObeyType, ObeyCases DEF Turned, b, t
<1> QED BY <1>2, <1>3, <1>4, <1>6, NoRunStays DEF b

\* One more order sent is one more the head will obey.
LEMMA AfterAppend ==
  ASSUME NEW h \in HeadType, NEW q \in Seq(OrderType), NEW o \in OrderType
  PROVE  HeadAfter(h, Append(q, o)) = Obey(HeadAfter(h, q), o)
<1> DEFINE r == Append(q, o)
           b == Latest(q, {"begin"})
           t == Latest(q, {"pause", "resume"})
<1>1. /\ r \in Seq(OrderType) /\ Len(r) = Len(q) + 1 /\ Len(q) \in Nat /\ r[Len(q) + 1] = o
      /\ \A i \in 1..Len(q) : r[i] = q[i]
  OBVIOUS
<1>2. /\ b \in 0..Len(q) /\ t \in 0..Len(q)
      /\ t # 0 => q[t] \in OrderType /\ q[t].what \in {"pause", "resume"}
  BY LatestIs
<1>3. /\ Latest(r, {"begin"}) = IF o.what = "begin" THEN Len(q) + 1 ELSE b
      /\ Latest(r, {"pause", "resume"}) = IF o.what \in {"pause", "resume"} THEN Len(q) + 1 ELSE t
  BY LatestAppend
<1> HIDE DEF r
<1>4. /\ HeadAfter(h, q) = IF Cancelled(h, q) THEN NoRun ELSE Turned(h, q)
      /\ HeadAfter(h, r) = IF Cancelled(h, r) THEN NoRun ELSE Turned(h, r)
      /\ HeadAfter(h, q) \in HeadType /\ Base(h, q) \in HeadType /\ Turned(h, q) \in HeadType
      /\ Turned(h, q).kind = Base(h, q).kind
  BY <1>1, HeadAfterIs
<1>5. CASE o.what = "begin"
  <2>1. Base(h, r) = Obey(h, o)
    BY <1>1, <1>3, <1>5 DEF Base
  <2>2. ~Cancelled(h, r)
    BY <1>1, <1>3, <1>5 DEF Cancelled
  <2>3. Turned(h, r) = Obey(h, o)
    BY <1>1, <1>2, <1>3, <1>5, <2>1 DEF Turned
  <2> QED BY <1>4, <1>5, <2>2, <2>3, ObeyBegin DEF r
<1>6. CASE o.what # "begin"
  <2>1. Base(h, r) = Base(h, q)
    BY <1>1, <1>2, <1>3, <1>6 DEF Base
  <2>2. Cancelled(h, r) <=> Cancelled(h, q) \/ Cancels(o, Base(h, q))
    <3>1. ASSUME Cancelled(h, q) PROVE Cancelled(h, r)
      <4>1. PICK i \in (b + 1)..Len(q) : Cancels(q[i], Base(h, q))
        BY <3>1 DEF Cancelled
      <4>2. i \in (b + 1)..Len(r) /\ r[i] = q[i]
        BY <1>1, <1>2
      <4> QED BY <1>3, <1>6, <2>1, <4>1, <4>2 DEF Cancelled
    <3>2. ASSUME Cancels(o, Base(h, q)) PROVE Cancelled(h, r)
      <4>1. Len(q) + 1 \in (b + 1)..Len(r)
        BY <1>1, <1>2
      <4> QED BY <1>1, <1>3, <1>6, <2>1, <3>2, <4>1 DEF Cancelled
    <3>3. ASSUME Cancelled(h, r) PROVE Cancelled(h, q) \/ Cancels(o, Base(h, q))
      <4>1. PICK i \in (b + 1)..Len(r) : Cancels(r[i], Base(h, q))
        BY <1>3, <1>6, <2>1, <3>3 DEF Cancelled
      <4>2. CASE i = Len(q) + 1
        BY <1>1, <4>1, <4>2
      <4>3. CASE i # Len(q) + 1
        <5>1. i \in (b + 1)..Len(q) /\ r[i] = q[i]
          BY <1>1, <1>2, <4>3
        <5> QED BY <4>1, <5>1 DEF Cancelled
      <4> QED BY <4>2, <4>3
    <3> QED BY <3>1, <3>2, <3>3
  <2>3. CASE Cancelled(h, q)
    BY <1>4, <1>6, <2>2, <2>3, NoRunStays DEF r
  <2>4. CASE ~Cancelled(h, q) /\ o.what \in {"pause", "resume"}
    <3>1. ~Cancelled(h, r)
      BY <2>2, <2>4, <1>4, ObeyCases
    <3>2. Turned(h, r) = Obey(Base(h, q), o)
      BY <1>1, <1>2, <1>3, <2>1, <2>4 DEF Turned
    <3>3. Obey(Turned(h, q), o) = Obey(Base(h, q), o)
      BY <1>2, <1>4, <2>4, TurnedTwice DEF Turned
    <3> QED BY <1>4, <2>4, <3>1, <3>2, <3>3 DEF r
  <2>5. CASE ~Cancelled(h, q) /\ o.what \notin {"pause", "resume"}
    <3>1. Turned(h, r) = Turned(h, q)
      BY <1>1, <1>2, <1>3, <1>6, <2>1, <2>5 DEF Turned
    <3>2. Cancels(o, Base(h, q)) <=> Cancels(o, Turned(h, q))
      BY <1>4, CancelsByKind
    <3> QED BY <1>4, <1>6, <2>2, <2>5, <3>1, <3>2, ObeyCases DEF r
  <2> QED BY <2>3, <2>4, <2>5
<1> QED BY <1>5, <1>6 DEF r

LEMMA AfterConcat ==
  ASSUME NEW h \in HeadType, NEW q \in Seq(OrderType), NEW o \in OrderType
  PROVE  HeadAfter(h, q \o <<o>>) = Obey(HeadAfter(h, q), o)
<1>1. q \o <<o>> = Append(q, o)
  OBVIOUS
<1> QED BY <1>1, AfterAppend

\* One order read is one less on its way.
LEMMA AfterTail ==
  ASSUME NEW h \in HeadType, NEW q \in Seq(OrderType), q # <<>>
  PROVE  HeadAfter(h, q) = HeadAfter(Obey(h, Head(q)), Tail(q))
<1> DEFINE o == Head(q)
           r == Tail(q)
           j == Obey(h, o)
           b == Latest(r, {"begin"})
           t == Latest(r, {"pause", "resume"})
<1>1. /\ r \in Seq(OrderType) /\ o \in OrderType /\ Len(q) = Len(r) + 1 /\ Len(r) \in Nat /\ q[1] = o
      /\ \A i \in 1..Len(r) : q[i + 1] = r[i]
  OBVIOUS
<1>2. /\ Latest(q, {"begin"}) = IF b # 0 THEN b + 1 ELSE IF o.what = "begin" THEN 1 ELSE 0
      /\ Latest(q, {"pause", "resume"}) =
           IF t # 0 THEN t + 1 ELSE IF o.what \in {"pause", "resume"} THEN 1 ELSE 0
  BY LatestTail
<1> HIDE DEF o, r
<1>3. /\ b \in 0..Len(r) /\ t \in 0..Len(r)
      /\ b # 0 => r[b] \in OrderType /\ r[b].what = "begin"
      /\ t # 0 => r[t] \in OrderType /\ r[t].what \in {"pause", "resume"}
  BY <1>1, LatestIs
<1>4. j \in HeadType
  BY <1>1, ObeyType
<1>5. /\ HeadAfter(h, q) = IF Cancelled(h, q) THEN NoRun ELSE Turned(h, q)
      /\ HeadAfter(j, r) = IF Cancelled(j, r) THEN NoRun ELSE Turned(j, r)
      /\ Base(h, q) \in HeadType /\ Base(j, r) \in HeadType
      /\ Latest(q, {"begin"}) # 0 =>
           LET e == q[Latest(q, {"begin"})]
           IN  Base(h, q) = [kind |-> e.kind, left |-> e.left, run |-> e.run, paused |-> FALSE]
      /\ b # 0 => Base(j, r) = [kind |-> r[b].kind, left |-> r[b].left, run |-> r[b].run, paused |-> FALSE]
  BY <1>1, <1>4, HeadAfterIs
<1> DEFINE later(k) == \E i \in (b + 1)..Len(r) : Cancels(r[i], k)
\* The cancels that count among the later orders, seen from either sequence.
<1>6. ASSUME NEW k
      PROVE  (\E i \in (b + 2)..Len(q) : Cancels(q[i], k)) <=> later(k)
  <2>1. ASSUME NEW i \in (b + 2)..Len(q), Cancels(q[i], k) PROVE later(k)
    <3>1. i - 1 \in (b + 1)..Len(r) /\ (i - 1) + 1 = i /\ i - 1 \in 1..Len(r)
      BY <1>1, <1>3
    <3>2. r[i - 1] = q[i]
      BY <1>1, <3>1
    <3> QED BY <2>1, <3>1, <3>2
  <2>2. ASSUME NEW i \in (b + 1)..Len(r), Cancels(r[i], k)
        PROVE  \E l \in (b + 2)..Len(q) : Cancels(q[l], k)
    <3>1. i + 1 \in (b + 2)..Len(q) /\ i \in 1..Len(r)
      BY <1>1, <1>3
    <3> QED BY <1>1, <2>2, <3>1
  <2> QED BY <2>1, <2>2
<1>7. CASE b # 0
  <2>1. Latest(q, {"begin"}) = b + 1 /\ q[b + 1] = r[b]
    BY <1>1, <1>2, <1>3, <1>7
  <2>2. Base(h, q) = Base(j, r)
    <3>1. b + 1 # 0
      BY <1>3
    <3> QED BY <1>5, <1>7, <2>1, <3>1
  <2>3. Cancelled(h, q) <=> Cancelled(j, r)
    <3>1. (b + 1) + 1 = b + 2
      BY <1>3
    <3>2. (\E i \in ((b + 1) + 1)..Len(q) : Cancels(q[i], Base(j, r))) <=> later(Base(j, r))
      BY <1>6, <3>1
    <3> QED BY <2>1, <2>2, <3>2 DEF Cancelled
  <2>4. Turned(h, q) = Turned(j, r)
    BY <1>1, <1>2, <1>3, <1>7, <2>1, <2>2 DEF Turned
  <2> QED BY <1>5, <2>3, <2>4 DEF o, r
<1>8. CASE b = 0 /\ o.what = "begin"
  <2>1. Latest(q, {"begin"}) = 1 /\ Base(h, q) = j /\ Base(j, r) = j
    BY <1>1, <1>2, <1>8 DEF Base
  <2>2. Cancelled(h, q) <=> Cancelled(j, r)
    <3>1. 1 + 1 = b + 2
      BY <1>8
    <3>2. (\E i \in (1 + 1)..Len(q) : Cancels(q[i], j)) <=> later(j)
      BY <1>6, <3>1
    <3> HIDE DEF j
    <3> QED BY <2>1, <3>2 DEF Cancelled
  <2>3. Turned(h, q) = Turned(j, r)
    BY <1>1, <1>2, <1>3, <1>8, <2>1 DEF Turned
  <2> QED BY <1>5, <2>2, <2>3 DEF o, r
<1>9. CASE b = 0 /\ o.what # "begin"
  <2>1. Latest(q, {"begin"}) = 0 /\ Base(h, q) = h /\ Base(j, r) = j
    BY <1>1, <1>2, <1>9 DEF Base
  <2>2. Cancelled(h, q) <=> Cancels(o, h) \/ later(h)
    <3>1. ASSUME Cancelled(h, q), ~Cancels(o, h) PROVE later(h)
      <4>1. PICK i \in 1..Len(q) : Cancels(q[i], h)
        BY <2>1, <3>1 DEF Cancelled
      <4>2. i # 1
        BY <1>1, <3>1, <4>1
      <4>3. i \in (b + 2)..Len(q)
        BY <1>1, <1>9, <4>2
      <4> QED BY <1>6, <4>1, <4>3
    <3>2. ASSUME Cancels(o, h) PROVE Cancelled(h, q)
      <4>1. 1 \in 1..Len(q)
        BY <1>1
      <4> QED BY <1>1, <2>1, <3>2, <4>1 DEF Cancelled
    <3>3. ASSUME later(h) PROVE Cancelled(h, q)
      <4>1. PICK i \in (b + 2)..Len(q) : Cancels(q[i], h)
        BY <1>6, <3>3
      <4>2. i \in 1..Len(q)
        BY <1>1, <1>9
      <4> QED BY <2>1, <4>1, <4>2 DEF Cancelled
    <3> QED BY <3>1, <3>2, <3>3
  <2>3. Cancelled(j, r) <=> later(j)
    BY <1>9, <2>1 DEF Cancelled
  <2>4. CASE Cancels(o, h)
    <3>1. j = NoRun /\ o.what = "cancel"
      BY <1>1, <1>9, <2>4, ObeyCases DEF Cancels
    <3>2. Turned(j, r) = NoRun
      BY <1>3, <2>1, <3>1, NoRunStays DEF Turned
    <3> QED BY <1>5, <2>2, <2>4, <3>2 DEF o, r
  <2>5. CASE ~Cancels(o, h)
    <3>1. j.kind = h.kind
      BY <1>1, <1>9, <2>5, ObeyCases
    <3>2. later(h) <=> later(j)
      BY <3>1, CancelsByKind
    <3>3. ~later(h) => Turned(h, q) = Turned(j, r)
      <4>1. CASE o.what \in {"pause", "resume"} /\ t # 0
        <5>1. Turned(h, q) = Obey(h, r[t]) /\ Turned(j, r) = Obey(j, r[t])
          BY <1>1, <1>2, <1>3, <1>9, <2>1, <4>1 DEF Turned
        <5> QED BY <1>1, <1>3, <4>1, <5>1, TurnedTwice
      <4>2. CASE o.what \in {"pause", "resume"} /\ t = 0
        BY <1>1, <1>2, <1>9, <2>1, <4>2 DEF Turned
      <4>3. CASE o.what \notin {"pause", "resume"}
        <5>1. j = h
          BY <1>1, <1>9, <2>5, <4>3, ObeyCases
        <5> QED BY <1>1, <1>2, <1>3, <1>9, <2>1, <4>3, <5>1 DEF Turned
      <4> QED BY <4>1, <4>2, <4>3
    <3> HIDE DEF j, later
    <3>4. HeadAfter(h, q) = HeadAfter(j, r)
      BY <1>5, <2>2, <2>3, <2>5, <3>2, <3>3
    <3> QED BY <3>4 DEF j, o, r
  <2> QED BY <2>4, <2>5
<1> QED BY <1>7, <1>8, <1>9

\* A frame taken, or a failure, changes the count of the run the head is on alone.
LEMMA AfterCount ==
  ASSUME NEW h \in HeadType, NEW q \in Seq(OrderType), NEW n \in Int
  PROVE  \/ HeadAfter([h EXCEPT !.left = n], q) = HeadAfter(h, q)
         \/ /\ HeadAfter([h EXCEPT !.left = n], q) = [HeadAfter(h, q) EXCEPT !.left = n]
            /\ HeadAfter(h, q).left = h.left /\ HeadAfter(h, q).kind = h.kind
<1> DEFINE j == [h EXCEPT !.left = n]
           b == Latest(q, {"begin"})
           t == Latest(q, {"pause", "resume"})
<1>1. j \in HeadType /\ j.kind = h.kind /\ j = [h EXCEPT !.left = n]
  BY DEF HeadType
<1>2. /\ b # 0 => q[b] \in OrderType /\ q[b].what = "begin"
      /\ t # 0 => q[t] \in OrderType /\ q[t].what \in {"pause", "resume"}
      /\ b \in Nat /\ t \in Nat
  BY LatestIs
<1> HIDE DEF j
<1>3. /\ HeadAfter(h, q) = IF Cancelled(h, q) THEN NoRun ELSE Turned(h, q)
      /\ HeadAfter(j, q) = IF Cancelled(j, q) THEN NoRun ELSE Turned(j, q)
      /\ Turned(h, q).left = Base(h, q).left /\ Turned(h, q).kind = Base(h, q).kind
      /\ b # 0 => Base(h, q) = [kind |-> q[b].kind, left |-> q[b].left, run |-> q[b].run, paused |-> FALSE]
      /\ b # 0 => Base(j, q) = [kind |-> q[b].kind, left |-> q[b].left, run |-> q[b].run, paused |-> FALSE]
  BY <1>1, HeadAfterIs
<1>4. CASE b # 0
  <2>1. Base(h, q) = Base(j, q)
    BY <1>3, <1>4
  <2> QED BY <1>3, <2>1 DEF Cancelled, Turned, j
<1>5. CASE b = 0
  <2>1. Base(h, q) = h /\ Base(j, q) = j
    BY <1>5 DEF Base
  <2>2. Cancelled(h, q) <=> Cancelled(j, q)
    BY <1>1, <2>1, CancelsByKind DEF Cancelled
  <2>3. Turned(j, q) = [Turned(h, q) EXCEPT !.left = n]
    <3>1. CASE t > b /\ h.kind = "pano"
      <4> DEFINE a == (q[t].what = "pause")
      <4>1. a \in BOOLEAN /\ q[t] \in OrderType /\ q[t].what \in {"pause", "resume"}
        BY <1>2, <1>5, <3>1
      <4>a. Obey(j, q[t]) = [j EXCEPT !.paused = a]
        BY <1>1, <3>1, <4>1, ObeyTurns
      <4>b. Obey(h, q[t]) = [h EXCEPT !.paused = a]
        BY <3>1, <4>1, ObeyTurns
      <4>2. Turned(j, q) = Obey(j, q[t]) /\ Turned(h, q) = Obey(h, q[t])
        BY <2>1, <3>1 DEF Turned
      <4> HIDE DEF a
      <4>3. [[h EXCEPT !.left = n] EXCEPT !.paused = a] = [[h EXCEPT !.paused = a] EXCEPT !.left = n]
        BY <4>1 DEF HeadType
      <4> QED BY <1>1, <4>2, <4>3, <4>a, <4>b
    <3>2. CASE t > b /\ h.kind # "pano"
      <4>1. q[t] \in OrderType /\ q[t].what \in {"pause", "resume"}
        BY <1>2, <1>5, <3>2
      <4> QED BY <1>1, <2>1, <3>2, <4>1, ObeyTurns DEF Turned
    <3>3. CASE ~(t > b)
      BY <1>1, <2>1, <3>3 DEF Turned
    <3> QED BY <3>1, <3>2, <3>3
  <2> QED BY <1>3, <2>1, <2>2, <2>3 DEF j
<1> QED BY <1>2, <1>4, <1>5

-----------------------------------------------------------------------------
(***************************************************************************)
(* Runs and messages: which run a message speaks of, and what it may end.  *)
(* The parts speak of a record p of the server, the head h, the orders q   *)
(* on their way, the messages r in the socket, the slots s, and n runs     *)
(* started.                                                                *)
(***************************************************************************)
\* What the head calls the programme of a record.
Wired(p) == IF p.paused = 2 THEN "preview" ELSE p.kind

\* A focus run alone is ever a preview; a run that is on was started.
RecordIn(p, n) ==
  /\ p.paused = 2 => p.kind = "focus"
  /\ p.kind # "none" => p.run \in 1..n

\* A head without a programme has nothing left; a slot holds messages of its opcode.
SlotsIn(h, s) ==
  /\ h.kind = "none" => h.left = 0 /\ h.run = 0
  /\ \A o \in Opcodes : s[o] = Nothing \/ s[o].op = o

\* The programmes on their way are later than the one the head is on, and are begun
\* in the order they were started.
Begins(q, i) == i \in 1..Len(q) /\ q[i].what = "begin"
RunsIn(h, q, n) ==
  /\ h.run <= n
  /\ \A i \in 1..Len(q) : Begins(q, i) => q[i].kind # "none" /\ q[i].run \in (h.run + 1)..n
  /\ \A i, j \in 1..Len(q) : Begins(q, i) /\ Begins(q, j) /\ i < j => q[i].run < q[j].run

\* No message speaks of a programme the head has not begun.
HeardIn(m, q, n) == m.run <= n /\ \A i \in 1..Len(q) : Begins(q, i) => m.run < q[i].run

\* The head does, and will do, under the number of a run what the server started.
KindIn(p, h, q) ==
  p.kind # "none" =>
    /\ h.run = p.run => h.kind = Wired(p)
    /\ \A i \in 1..Len(q) : Begins(q, i) /\ q[i].run = p.run => q[i].kind = Wired(p)

\* A message that says a programme is over, and speaks of the run the head is on, is
\* right, unless the programme is of another opcode: an acknowledged cancel.
RightIn(m, h) ==
  \A k \in AllKinds :
    m.op = Op(k) /\ Ends(k, m) /\ h.run = m.run /\ Op(h.kind) = m.op => Over(h)

MessagesIn(h, q, r, s, n) ==
  /\ \A i \in 1..Len(r) : HeardIn(r[i], q, n) /\ RightIn(r[i], h)
  /\ \A o \in Opcodes : HeardIn(s[o], q, n) /\ RightIn(s[o], h)

Agree(p, h, q, r, s, n) ==
  RecordIn(p, n) /\ SlotsIn(h, s) /\ RunsIn(h, q, n) /\ KindIn(p, h, q) /\ MessagesIn(h, q, r, s, n)

RunInv == Agree(g, head, tx, rx, slot, runs)

\* Fewer messages, and no more programmes on their way, spoil none of it.
LEMMA AgreeLess ==
  ASSUME NEW p, NEW h, NEW q, NEW r, NEW s, NEW n, Agree(p, h, q, r, s, n),
         NEW p2, p2.kind = "none" \/ (p2.kind = p.kind /\ p2.run = p.run /\ Wired(p2) = Wired(p)),
         p2.paused = 2 => p2.kind = "focus",
         NEW q2, \A i \in 1..Len(q2) : Begins(q2, i) => Begins(q, i) /\ q2[i] = q[i],
         NEW r2, r2 = r \/ r2 = <<>>
  PROVE  Agree(p2, h, q2, r2, s, n)
<1>1. RecordIn(p2, n) /\ SlotsIn(h, s)
  BY DEF Agree, RecordIn
<1>2. RunsIn(h, q2, n)
  BY DEF Agree, RunsIn, Begins
<1>3. KindIn(p2, h, q2)
  BY DEF Agree, KindIn, Begins
<1>4. MessagesIn(h, q2, r2, s, n)
  <2>1. ASSUME NEW m, HeardIn(m, q, n) PROVE HeardIn(m, q2, n)
    BY <2>1 DEF HeardIn, Begins
  <2>2. \A i \in 1..Len(<<>>) : FALSE
    OBVIOUS
  <2> QED BY <2>1, <2>2 DEF Agree, MessagesIn
<1> QED BY <1>1, <1>2, <1>3, <1>4 DEF Agree

\* plink_send accepts the orders, or the first of them, or the link goes down; only
\* when all are accepted is nothing lost.
LEMMA TransmitSends ==
  ASSUME TypeOK, LinkInv, NEW orders \in Seq(OrderType), Transmit(orders)
  PROVE  /\ rx' = rx \/ rx' = <<>>
         /\ \A i \in 1..Len(tx') : IF i <= Len(tx) THEN tx'[i] = tx[i]
                                   ELSE i - Len(tx) \in 1..Len(orders) /\ tx'[i] = orders[i - Len(tx)]
         /\ lost \in BOOLEAN /\ (~lost' => ~lost /\ tx' = tx \o orders)
<1>0. /\ tx \in Seq(OrderType) /\ Len(tx) \in Nat /\ Len(orders) \in Nat /\ TxCap \in Nat
      /\ Len(tx) <= TxCap /\ lost \in BOOLEAN
  BY CountAssumption DEF TypeOK
<1>1. CASE /\ status = "UP"
           /\ tx' = SubSeq(tx \o orders, 1, Least(Len(tx) + Len(orders), TxCap))
           /\ lost' = (lost \/ ~Fits(Len(orders)))
           /\ UNCHANGED <<status, sock, rx>>
  <2> DEFINE q == tx \o orders
             n == Least(Len(tx) + Len(orders), TxCap)
  <2>1. /\ q \in Seq(OrderType) /\ Len(q) = Len(tx) + Len(orders)
        /\ \A i \in 1..Len(q) : q[i] = IF i <= Len(tx) THEN tx[i] ELSE orders[i - Len(tx)]
    BY <1>0
  <2>2. n \in Nat /\ n <= Len(q)
    BY <1>0, <2>1 DEF Least
  <2>3. tx' = SubSeq(q, 1, n)
    BY <1>1
  <2>4. ~lost' => ~lost /\ n = Len(q)
    <3>1. ~lost' => ~lost /\ Fits(Len(orders))
      BY <1>1, Zenon
    <3>2. ASSUME Fits(Len(orders)) PROVE n = Len(q)
      <4>1. Len(tx) + Len(orders) <= TxCap /\ Len(tx) + Len(orders) \in Nat
        BY <1>0, <3>2 DEF Fits
      <4>2. n = Len(tx) + Len(orders)
        BY <1>0, <4>1 DEF Least
      <4> HIDE DEF n, q
      <4> QED BY <2>1, <4>2
    <3> QED BY <3>1, <3>2, Zenon
  <2> HIDE DEF q, n
  <2>5. Len(tx') = n /\ \A i \in 1..n : tx'[i] = q[i]
    BY <2>1, <2>2, <2>3, SubSeqProperties
  <2>6. ASSUME NEW i \in 1..Len(tx')
        PROVE  IF i <= Len(tx) THEN tx'[i] = tx[i]
               ELSE i - Len(tx) \in 1..Len(orders) /\ tx'[i] = orders[i - Len(tx)]
    BY <1>0, <2>1, <2>2, <2>5
  <2>7. n = Len(q) => SubSeq(q, 1, n) = q
    BY <2>1
  <2> QED BY <1>0, <1>1, <2>3, <2>4, <2>6, <2>7 DEF q
<1>2. CASE status = "UP" /\ sock = "broken" /\ orders # <<>> /\ Disconnect
  BY <1>0, <1>2 DEF Disconnect
<1>3. CASE status # "UP" /\ lost' = (lost \/ orders # <<>>) /\ UNCHANGED <<status, sock, tx, rx>>
  <2>1. ~lost' => ~lost /\ tx \o orders = tx
    <3>1. ~lost' => ~lost /\ orders = <<>>
      BY <1>3, Zenon
    <3> QED BY <1>0, <3>1
  <2> QED BY <1>0, <1>3, <2>1
<1> QED BY <1>1, <1>2, <1>3 DEF Transmit

\* Two programmes of one opcode are one, or the two timelapses, or a focus stack
\* and its preview.
LEMMA SameOp ==
  ASSUME NEW k \in AllKinds, NEW j \in AnyKind, Op(j) = Op(k)
  PROVE  j = k \/ (j \in {"lapse", "pathlapse"} /\ k \in {"lapse", "pathlapse"})
              \/ (j = "preview" /\ k = "focus")
BY DEF AllKinds, AnyKind, Op

\* The answer to an order speaks of the run before it or after it, and if it ends
\* a programme the head is on, the head is done.
LEMMA AnswerRight ==
  ASSUME NEW h \in HeadType, NEW o \in OrderType, NEW m,
         NEW i \in 1..Len(Answer(h, Obey(h, o), o)), m = Answer(h, Obey(h, o), o)[i]
  PROVE  m.run \in {h.run, Obey(h, o).run} /\ RightIn(m, Obey(h, o))
<1> DEFINE j == Obey(h, o)
           a == Answer(h, j, o)
           poll == Message(o.kind, IF o.kind = "focus" THEN 7 ELSE IF o.kind = "plc" THEN 5 ELSE NoStep,
                           Count(j, o.kind), j.run)
           first == Message(o.kind, 5, j.left, j.run)
           cancelled == Message(o.kind, IF o.kind \in {"hdr", "focus", "preview"} THEN 6 ELSE NoStep,
                                IF o.kind \in {"hdr", "focus", "preview"} THEN Absent ELSE 0, h.run)
           begun == Message(o.kind, 8, Absent, j.run)
<1>1. j \in HeadType /\ o.kind \in AnyKind
  BY ObeyType DEF OrderType, AnyKind
<1>2. \/ a = <<poll>> /\ o.what = "poll"
      \/ a = <<first>> /\ ~Polled(o.kind)
      \/ a = <<cancelled>> /\ o.what = "cancel"
      \/ a = <<begun>> /\ Op(o.kind) = "focus"
      \/ a = <<>>
  BY DEF Answer
<1>3. \A e : Len(<<e>>) = 1 /\ <<e>>[1] = e
  OBVIOUS
<1>4. Len(<<>>) = 0
  OBVIOUS
<1> HIDE DEF a, j, poll, first, cancelled, begun
<1>5. i \in 1..Len(a) /\ m = a[i]
  BY DEF a, j
<1>6. \/ m = poll /\ o.what = "poll"
      \/ m = first /\ ~Polled(o.kind)
      \/ m = cancelled /\ o.what = "cancel"
      \/ m = begun /\ Op(o.kind) = "focus"
  BY <1>2, <1>3, <1>4, <1>5
<1>7. ASSUME NEW k \in AllKinds, m.op = Op(k), Ends(k, m), j.run = m.run, Op(j.kind) = m.op
      PROVE  Over(j)
  <2>1. j.left \in Int /\ m.op = Op(o.kind)
    BY <1>1, <1>6 DEF HeadType, poll, first, cancelled, begun, Message
  <2>2. \/ o.kind = k \/ (o.kind \in {"lapse", "pathlapse"} /\ k \in {"lapse", "pathlapse"})
        \/ (o.kind = "preview" /\ k = "focus")
    BY <1>1, <1>7, <2>1, SameOp
  <2>3. CASE m = poll
    <3>1. /\ m.step = IF o.kind = "focus" THEN 7 ELSE IF o.kind = "plc" THEN 5 ELSE NoStep
          /\ m.left = Count(j, o.kind)
      BY <2>3 DEF poll, Message
    <3>2. m.left = 0
      BY <1>7, <2>2, <3>1 DEF Ends, DoneStep, AllKinds, NoStep
    <3> QED BY <3>1, <3>2 DEF Count, NoRunCount, Over
  <2>4. CASE m = first /\ ~Polled(o.kind)
    <3>1. m.step = 5 /\ m.left = j.left
      BY <2>4 DEF first, Message
    <3>2. m.left = 0
      BY <1>7, <2>2, <2>4, <3>1 DEF Ends, DoneStep, Polled, AllKinds, NoStep
    <3> QED BY <3>1, <3>2 DEF Over
  <2>5. CASE m = cancelled /\ o.what = "cancel"
    <3>1. /\ m.step = IF o.kind \in {"hdr", "focus", "preview"} THEN 6 ELSE NoStep
          /\ m.left = IF o.kind \in {"hdr", "focus", "preview"} THEN Absent ELSE 0
      BY <2>5 DEF cancelled, Message
    <3>2. o.kind \notin {"hdr", "focus", "preview"}
      BY <1>7, <2>2, <3>1 DEF Ends, DoneStep, AllKinds, NoStep, Absent
    <3>3. CASE Cancels(o, h)
      <4>1. j = NoRun
        BY <2>5, <3>3, ObeyCases DEF j
      <4> QED BY <4>1, NoRunStays DEF Over
    <3>4. CASE ~Cancels(o, h)
      <4>1. j = h
        BY <2>5, <3>4, ObeyCases DEF j
      <4>2. Op(h.kind) = Op(o.kind) /\ h.kind = "preview"
        BY <1>7, <2>1, <2>5, <3>2, <3>4, <4>1 DEF Cancels
      <4> QED BY <2>2, <3>2, <4>2 DEF Op, AllKinds
    <3> QED BY <3>3, <3>4
  <2>6. CASE m = begun /\ Op(o.kind) = "focus"
    <3>1. m.step = 8 /\ m.left = Absent
      BY <2>6 DEF begun, Message
    <3> QED BY <1>7, <2>1, <2>6, <3>1 DEF Ends, DoneStep, AllKinds, NoStep, Absent, Op
  <2> QED BY <1>6, <2>3, <2>4, <2>5, <2>6
<1>8. m.run \in {h.run, j.run}
  BY <1>6 DEF poll, first, cancelled, begun, Message
<1> QED BY <1>7, <1>8 DEF RightIn, j

\* What the head says by itself speaks of its run, and is right.
LEMMA PushRight ==
  ASSUME NEW h \in HeadType, h.left \in Nat, NEW m, NEW i \in 1..Len(Push(h)), m = Push(h)[i]
  PROVE  m.run = h.run /\ RightIn(m, h)
<1> DEFINE left == Message(h.kind, 5, h.left, h.run)
           bare == Message("sun", 3, Absent, h.run)
           done == Message(h.kind, DoneStep[h.kind], 0, h.run)
<1>1. \/ Push(h) = <<>>
      \/ ~Polled(h.kind) /\ h.left > 0 /\ Push(h) = <<left>>
      \/ Push(h) = <<bare>>
      \/ ~Polled(h.kind) /\ ~(h.left > 0) /\ Push(h) = <<done>>
  <2>1. CASE Polled(h.kind)
    BY <2>1, Zenon DEF Push
  <2>2. CASE ~Polled(h.kind) /\ h.left > 0
    BY <2>2, Zenon DEF Push
  <2>3. CASE ~Polled(h.kind) /\ ~(h.left > 0)
    BY <2>3, Zenon DEF Push
  <2> QED BY <2>1, <2>2, <2>3
<1>2. \A e : Len(<<e>>) = 1 /\ <<e>>[1] = e
  OBVIOUS
<1>3. Len(<<>>) = 0
  OBVIOUS
<1> HIDE DEF left, bare, done
<1>4. \/ ~Polled(h.kind) /\ h.left > 0 /\ m = left
      \/ m = bare
      \/ ~(h.left > 0) /\ m = done
  BY <1>1, <1>2, <1>3
<1>5. m.run = h.run
  BY <1>4 DEF left, bare, done, Message
<1>6. ASSUME NEW k \in AllKinds, m.op = Op(k), Ends(k, m), Op(h.kind) = m.op PROVE Over(h)
  <2>1. h.left \in Int /\ h.kind \in AnyKind
    BY DEF HeadType, AnyKind
  <2>2. \/ h.kind = k \/ (h.kind \in {"lapse", "pathlapse"} /\ k \in {"lapse", "pathlapse"})
        \/ (h.kind = "preview" /\ k = "focus")
    BY <1>6, <2>1, SameOp
  <2>3. CASE ~Polled(h.kind) /\ h.left > 0 /\ m = left
    <3>1. m.step = 5 /\ m.left = h.left
      BY <2>3 DEF left, Message
    <3> QED BY <1>6, <2>1, <2>2, <2>3, <3>1 DEF Ends, DoneStep, Polled, AllKinds, NoStep
  <2>4. CASE m = bare
    <3>1. m.step = 3 /\ m.left = Absent /\ m.op = "sun"
      BY <2>4 DEF bare, Message, Op
    <3> QED BY <1>6, <3>1 DEF Ends, DoneStep, AllKinds, NoStep, Absent, Op
  <2>5. CASE ~(h.left > 0)
    BY <2>5 DEF Over
  <2> QED BY <1>4, <2>3, <2>4, <2>5
<1> QED BY <1>5, <1>6 DEF RightIn

LEMMA Above ==
  ASSUME NEW a \in Nat, NEW n \in Nat, NEW x
  PROVE  x \in (a + 1)..n <=> x \in Nat /\ a < x /\ x <= n
OBVIOUS

\* The head reads an order: the programmes still on their way are later than the one
\* it is on now, and what it answers is right.
LEMMA AgreeReads ==
  ASSUME NEW p \in RunType, NEW h \in HeadType, NEW q \in Seq(OrderType), NEW r \in Seq(MessageType),
         NEW s \in [Opcodes -> MessageType], NEW n \in Nat, Agree(p, h, q, r, s, n), q # <<>>,
         NEW said \in Seq(MessageType),
         said = <<>> \/ said = Answer(h, Obey(h, Head(q)), Head(q))
  PROVE  Agree(p, Obey(h, Head(q)), Tail(q), r \o said, s, n)
<1> DEFINE o == Head(q)
           t == Tail(q)
           j == Obey(h, o)
<1>1. /\ o \in OrderType /\ t \in Seq(OrderType) /\ Len(t) \in Nat /\ Len(q) = Len(t) + 1
      /\ 1 \in 1..Len(q) /\ q[1] = o
      /\ \A i \in 1..Len(t) : t[i] = q[i + 1] /\ i + 1 \in 1..Len(q) /\ 1 < i + 1
  OBVIOUS
<1>2. RecordIn(p, n) /\ SlotsIn(h, s) /\ RunsIn(h, q, n) /\ KindIn(p, h, q) /\ MessagesIn(h, q, r, s, n)
  BY DEF Agree
<1> HIDE DEF o, t
<1>3. j \in HeadType
  BY <1>1, ObeyType
<1> HIDE DEF j
<1>4. \/ /\ o.what = "begin" /\ j = [kind |-> o.kind, left |-> o.left, run |-> o.run, paused |-> FALSE]
         /\ o.kind # "none" /\ o.run \in (h.run + 1)..n
      \/ o.what # "begin" /\ j = NoRun
      \/ o.what # "begin" /\ j.kind = h.kind /\ j.left = h.left /\ j.run = h.run
  <2>1. o.what = "begin" => o.kind # "none" /\ o.run \in (h.run + 1)..n
    BY <1>1, <1>2 DEF RunsIn, Begins
  <2> QED BY <1>1, <2>1, ObeyCases DEF j
<1>4a. /\ o.what = "begin" => j.run = o.run /\ o.run \in (h.run + 1)..n
       /\ o.what # "begin" => j.run = 0 \/ j.run = h.run
  BY <1>4 DEF NoRun
<1>5. h.run \in Nat /\ j.run \in Nat /\ j.run <= n /\ h.run <= n
  <2>1. h.run \in Nat /\ j.run \in Nat /\ h.run <= n
    BY <1>2, <1>3 DEF HeadType, RunsIn
  <2> QED BY <1>4a, <2>1
<1>6. \A i \in 1..Len(t) : Begins(t, i) => Begins(q, i + 1) /\ t[i] = q[i + 1]
  BY <1>1 DEF Begins
<1>7. \A i \in 1..Len(t) : Begins(t, i) =>
        /\ t[i].kind # "none" /\ t[i].run \in (j.run + 1)..n /\ t[i].run \in (h.run + 1)..n
        /\ o.what = "begin" => o.run < t[i].run
  <2> SUFFICES ASSUME NEW i \in 1..Len(t), Begins(t, i)
               PROVE  /\ t[i].kind # "none" /\ t[i].run \in (j.run + 1)..n /\ t[i].run \in (h.run + 1)..n
                      /\ o.what = "begin" => o.run < t[i].run
    OBVIOUS
  <2>1. t[i].kind # "none" /\ t[i].run \in (h.run + 1)..n
    BY <1>1, <1>2, <1>6 DEF RunsIn
  <2>2. o.what = "begin" => o.run < t[i].run
    BY <1>1, <1>2, <1>6 DEF RunsIn, Begins
  <2>3. t[i].run \in (j.run + 1)..n
    <3>1. t[i].run \in Nat /\ h.run < t[i].run /\ t[i].run <= n
      BY <1>5, <2>1, Above
    <3>2. j.run < t[i].run
      <4>1. CASE o.what = "begin"
        BY <1>4a, <2>2, <4>1
      <4>2. CASE o.what # "begin" /\ j.run = 0
        <5>1. 0 < t[i].run
          BY <1>5, <3>1
        <5> QED BY <4>2, <5>1
      <4>3. CASE j.run = h.run
        BY <3>1, <4>3
      <4> QED BY <1>4a, <4>1, <4>2, <4>3
    <3> QED BY <1>5, <3>1, <3>2, Above
  <2> QED BY <2>1, <2>2, <2>3
<1>8. SlotsIn(j, s)
  BY <1>2, <1>4 DEF SlotsIn, NoRun
<1>9. RunsIn(j, t, n)
  <2>1. ASSUME NEW i \in 1..Len(t), NEW l \in 1..Len(t), Begins(t, i), Begins(t, l), i < l
        PROVE  t[i].run < t[l].run
    <3>1. i + 1 < l + 1 /\ i + 1 \in 1..Len(q) /\ l + 1 \in 1..Len(q)
      BY <1>1, <2>1
    <3> QED BY <1>2, <1>6, <2>1, <3>1 DEF RunsIn
  <2> QED BY <1>5, <1>7, <2>1 DEF RunsIn
<1>10. KindIn(p, j, t)
  <2> SUFFICES ASSUME p.kind # "none" PROVE /\ j.run = p.run => j.kind = Wired(p)
                 /\ \A i \in 1..Len(t) : Begins(t, i) /\ t[i].run = p.run => t[i].kind = Wired(p)
    BY DEF KindIn
  <2>1. j.run = p.run => j.kind = Wired(p)
    <3>1. p.run \in 1..n
      BY <1>2 DEF RecordIn
    <3>2. CASE o.what = "begin"
      BY <1>1, <1>2, <1>4, <3>2 DEF KindIn, Begins
    <3>3. CASE j = NoRun
      BY <3>1, <3>3 DEF NoRun
    <3>4. CASE j.kind = h.kind /\ j.run = h.run
      BY <1>2, <3>4 DEF KindIn
    <3> QED BY <1>4, <3>2, <3>3, <3>4
  <2>2. ASSUME NEW i \in 1..Len(t), Begins(t, i), t[i].run = p.run PROVE t[i].kind = Wired(p)
    BY <1>1, <1>2, <1>6, <2>2 DEF KindIn
  <2> QED BY <2>1, <2>2
<1>11. ASSUME NEW m, m.run \in Nat, HeardIn(m, q, n), RightIn(m, h) PROVE HeardIn(m, t, n) /\ RightIn(m, j)
  <2>1. HeardIn(m, t, n)
    BY <1>1, <1>6, <1>11 DEF HeardIn
  <2>2. CASE o.what = "begin"
    <3>1. m.run < j.run
      <4>1. m.run < o.run
        BY <1>1, <1>11, <2>2 DEF HeardIn, Begins
      <4> QED BY <1>4a, <2>2, <4>1
    <3> QED BY <1>5, <1>11, <2>1, <3>1 DEF RightIn
  <2>3. CASE j = NoRun
    BY <2>1, <2>3 DEF RightIn, Over, NoRun
  <2>4. CASE j.kind = h.kind /\ j.left = h.left /\ j.run = h.run
    BY <1>11, <2>1, <2>4 DEF RightIn, Over
  <2> QED BY <1>4, <2>2, <2>3, <2>4
<1>12. MessagesIn(j, t, r \o said, s, n)
  <2>1. ASSUME NEW i \in 1..Len(said) PROVE HeardIn(said[i], t, n) /\ RightIn(said[i], j)
    <3>1. said = Answer(h, j, o)
      BY <2>1 DEF j, o
    <3>2. said[i].run \in {h.run, j.run} /\ RightIn(said[i], j)
      BY <1>1, <2>1, <3>1, AnswerRight DEF j
    <3>3. said[i].run \in Nat /\ said[i].run <= n
      BY <1>5, <3>2
    <3>4. ASSUME NEW l \in 1..Len(t), Begins(t, l) PROVE said[i].run < t[l].run
      <4>1. t[l].run \in (j.run + 1)..n /\ t[l].run \in (h.run + 1)..n
        BY <1>7, <3>4
      <4>2. j.run < t[l].run /\ h.run < t[l].run
        BY <1>5, <4>1, Above
      <4> QED BY <3>2, <4>2
    <3> QED BY <3>2, <3>3, <3>4 DEF HeardIn
  <2>2. \A i \in 1..Len(r) : r[i].run \in Nat
    <3>1. \A i \in 1..Len(r) : r[i] \in MessageType
      OBVIOUS
    <3> QED BY <3>1 DEF MessageType
  <2>3. \A x \in Opcodes : s[x].run \in Nat
    BY DEF MessageType
  <2>4. \A i \in 1..Len(r \o said) :
          \/ i \in 1..Len(r) /\ (r \o said)[i] = r[i]
          \/ i - Len(r) \in 1..Len(said) /\ (r \o said)[i] = said[i - Len(r)]
    OBVIOUS
  <2>5. ASSUME NEW i \in 1..Len(r \o said)
        PROVE  HeardIn((r \o said)[i], t, n) /\ RightIn((r \o said)[i], j)
    <3>1. CASE i \in 1..Len(r) /\ (r \o said)[i] = r[i]
      BY <1>2, <1>11, <2>2, <3>1 DEF MessagesIn
    <3>2. CASE i - Len(r) \in 1..Len(said) /\ (r \o said)[i] = said[i - Len(r)]
      BY <2>1, <3>2
    <3> QED BY <2>4, <3>1, <3>2
  <2>6. \A x \in Opcodes : HeardIn(s[x], t, n) /\ RightIn(s[x], j)
    BY <1>2, <1>11, <2>3 DEF MessagesIn
  <2> QED BY <2>5, <2>6 DEF MessagesIn
<1> QED BY <1>2, <1>8, <1>9, <1>10, <1>12 DEF Agree, j, o, t

\* The count of the head's run changes, from one that was not its last: no message
\* had said that the run was over.
LEMMA AgreeCounts ==
  ASSUME NEW p \in RunType, NEW h \in HeadType, NEW q \in Seq(OrderType), NEW r \in Seq(MessageType),
         NEW s \in [Opcodes -> MessageType], NEW n \in Nat, Agree(p, h, q, r, s, n),
         h.left > 0, NEW c \in Int, NEW j, j = [h EXCEPT !.left = c],
         NEW said \in Seq(MessageType),
         \A i \in 1..Len(said) : said[i].run = h.run /\ RightIn(said[i], j)
  PROVE  Agree(p, j, q, r \o said, s, n)
<1>1. RecordIn(p, n) /\ SlotsIn(h, s) /\ RunsIn(h, q, n) /\ KindIn(p, h, q) /\ MessagesIn(h, q, r, s, n)
  BY DEF Agree
<1>2. j.kind = h.kind /\ j.run = h.run /\ h.run \in Nat
  BY DEF HeadType
<1>3. ~Over(h) /\ h.kind # "none"
  BY <1>1 DEF SlotsIn, Over, Failed
<1>4. SlotsIn(j, s) /\ RunsIn(j, q, n) /\ KindIn(p, j, q)
  BY <1>1, <1>2, <1>3 DEF SlotsIn, RunsIn, KindIn
<1>5. ASSUME NEW m, RightIn(m, h) PROVE RightIn(m, j)
  BY <1>2, <1>3, <1>5 DEF RightIn
<1>6. ASSUME NEW i \in 1..Len(said) PROVE HeardIn(said[i], q, n)
  <2>1. h.run <= n
    BY <1>1 DEF RunsIn
  <2>2. ASSUME NEW l \in 1..Len(q), Begins(q, l) PROVE h.run < q[l].run
    <3>1. q[l].run \in (h.run + 1)..n
      BY <1>1, <2>2 DEF RunsIn
    <3> QED BY <1>2, <3>1, Above
  <2> QED BY <2>1, <2>2 DEF HeardIn
<1>7. MessagesIn(j, q, r \o said, s, n)
  <2>1. \A i \in 1..Len(r \o said) :
          \/ i \in 1..Len(r) /\ (r \o said)[i] = r[i]
          \/ i - Len(r) \in 1..Len(said) /\ (r \o said)[i] = said[i - Len(r)]
    OBVIOUS
  <2>2. ASSUME NEW i \in 1..Len(r \o said)
        PROVE  HeardIn((r \o said)[i], q, n) /\ RightIn((r \o said)[i], j)
    <3>1. CASE i \in 1..Len(r) /\ (r \o said)[i] = r[i]
      BY <1>1, <1>5, <3>1 DEF MessagesIn
    <3>2. CASE i - Len(r) \in 1..Len(said) /\ (r \o said)[i] = said[i - Len(r)]
      BY <1>6, <3>2
    <3> QED BY <2>1, <3>1, <3>2
  <2>3. \A x \in Opcodes : HeardIn(s[x], q, n) /\ RightIn(s[x], j)
    BY <1>1, <1>5 DEF MessagesIn
  <2> QED BY <2>2, <2>3 DEF MessagesIn
<1> QED BY <1>1, <1>4, <1>7 DEF Agree

\* The server reads: a slot takes a message of its opcode from the socket.
LEMMA AgreePumps ==
  ASSUME NEW p, NEW h, NEW q, NEW r, NEW s, NEW n, Agree(p, h, q, r, s, n),
         NEW s2, \A o \in Opcodes : s2[o] = s[o] \/ \E i \in 1..Len(r) : s2[o] = r[i] /\ r[i].op = o
  PROVE  Agree(p, h, q, <<>>, s2, n)
<1>1. \A i \in 1..Len(<<>>) : FALSE
  OBVIOUS
<1>2. SlotsIn(h, s2)
  <2>1. SlotsIn(h, s)
    BY DEF Agree
  <2> QED BY <2>1 DEF SlotsIn
<1>3. MessagesIn(h, q, <<>>, s2, n)
  <2>1. MessagesIn(h, q, r, s, n)
    BY DEF Agree
  <2>2. ASSUME NEW o \in Opcodes PROVE HeardIn(s2[o], q, n) /\ RightIn(s2[o], h)
    BY <2>1 DEF MessagesIn
  <2> QED BY <1>1, <2>2 DEF MessagesIn
<1> QED BY <1>2, <1>3 DEF Agree

\* A programme is started: one order begins it, under a number nobody has used.
LEMMA AgreeStarts ==
  ASSUME NEW p \in RunType, NEW h \in HeadType, NEW q \in Seq(OrderType), NEW r \in Seq(MessageType),
         NEW s \in [Opcodes -> MessageType], NEW n \in Nat, Agree(p, h, q, r, s, n),
         NEW p2, p2.kind # "none", p2.run = n + 1, p2.paused = 2 => p2.kind = "focus", Wired(p2) # "none",
         NEW q2, Len(q2) \in Nat,
         \A i \in 1..Len(q2) : (i \in 1..Len(q) /\ q2[i] = q[i]) \/
           (i > Len(q) /\ (q2[i].what = "begin" => q2[i].run = n + 1 /\ q2[i].kind = Wired(p2))),
         \A i, l \in 1..Len(q2) :
           i > Len(q) /\ l > Len(q) /\ q2[i].what = "begin" /\ q2[l].what = "begin" => i = l,
         NEW r2, r2 = r \/ r2 = <<>>
  PROVE  Agree(p2, h, q2, r2, s, n + 1)
<1>1. RecordIn(p, n) /\ SlotsIn(h, s) /\ RunsIn(h, q, n) /\ KindIn(p, h, q) /\ MessagesIn(h, q, r, s, n)
  BY DEF Agree
<1>2. h.run \in Nat /\ h.run <= n /\ Len(q) \in Nat
  BY <1>1 DEF HeadType, RunsIn
<1>3. \A i \in 1..Len(q2) : Begins(q2, i) =>
        \/ Begins(q, i) /\ q2[i] = q[i]
        \/ i > Len(q) /\ q2[i].run = n + 1 /\ q2[i].kind = Wired(p2)
  BY DEF Begins
<1>4. \A i \in 1..Len(q) : Begins(q, i) =>
        q[i].kind # "none" /\ q[i].run \in Nat /\ h.run < q[i].run /\ q[i].run <= n
  BY <1>1, <1>2, Above DEF RunsIn
<1>5. ASSUME NEW i \in 1..Len(q2), Begins(q2, i)
      PROVE  /\ q2[i].kind # "none" /\ q2[i].run \in Nat /\ h.run < q2[i].run /\ q2[i].run <= n + 1
             /\ q2[i].run = n + 1 => i > Len(q) /\ q2[i].kind = Wired(p2)
             /\ q2[i].run # n + 1 => Begins(q, i) /\ q2[i] = q[i]
  <2>1. CASE Begins(q, i) /\ q2[i] = q[i]
    <3>1. q[i].run <= n /\ q[i].run \in Nat /\ h.run < q[i].run /\ q[i].kind # "none"
      BY <1>4, <2>1 DEF Begins
    <3> QED BY <2>1, <3>1
  <2>2. CASE i > Len(q) /\ q2[i].run = n + 1 /\ q2[i].kind = Wired(p2)
    BY <1>2, <2>2
  <2> QED BY <1>3, <1>5, <2>1, <2>2
<1>6. RecordIn(p2, n + 1)
  BY DEF RecordIn
<1>7. RunsIn(h, q2, n + 1)
  <2>1. ASSUME NEW i \in 1..Len(q2), NEW l \in 1..Len(q2), Begins(q2, i), Begins(q2, l), i < l
        PROVE  q2[i].run < q2[l].run
    <3>1. CASE q2[i].run # n + 1 /\ q2[l].run # n + 1
      <4>1. Begins(q, i) /\ q2[i] = q[i] /\ Begins(q, l) /\ q2[l] = q[l]
        BY <1>5, <2>1, <3>1
      <4>2. i \in 1..Len(q) /\ l \in 1..Len(q)
        BY <4>1 DEF Begins
      <4> QED BY <1>1, <2>1, <4>1, <4>2 DEF RunsIn
    <3>2. CASE q2[i].run # n + 1 /\ q2[l].run = n + 1
      <4>1. q2[i].run \in Nat /\ q2[i].run <= n + 1
        BY <1>5, <2>1
      <4> QED BY <3>2, <4>1
    <3>3. CASE q2[i].run = n + 1
      <4>1. i > Len(q) /\ l > Len(q)
        BY <1>2, <1>5, <2>1, <3>3
      <4>2. i = l
        BY <2>1, <4>1 DEF Begins
      <4> QED BY <2>1, <4>2
    <3> QED BY <3>1, <3>2, <3>3
  <2>2. ASSUME NEW i \in 1..Len(q2), Begins(q2, i)
        PROVE  q2[i].kind # "none" /\ q2[i].run \in (h.run + 1)..(n + 1)
    BY <1>2, <1>5, <2>2, Above
  <2>3. h.run <= n + 1
    BY <1>2
  <2> QED BY <2>1, <2>2, <2>3 DEF RunsIn
<1>8. KindIn(p2, h, q2)
  <2>1. h.run # p2.run
    BY <1>2
  <2> QED BY <1>5, <2>1 DEF KindIn
<1>9. MessagesIn(h, q2, r2, s, n + 1)
  <2>1. ASSUME NEW m \in MessageType, HeardIn(m, q, n) PROVE HeardIn(m, q2, n + 1)
    <3>1. m.run \in Nat /\ m.run <= n
      BY <2>1 DEF HeardIn, MessageType
    <3>2. ASSUME NEW i \in 1..Len(q2), Begins(q2, i) PROVE m.run < q2[i].run
      <4>1. CASE q2[i].run = n + 1
        BY <3>1, <4>1
      <4>2. CASE q2[i].run # n + 1
        <5>1. Begins(q, i) /\ q2[i] = q[i] /\ i \in 1..Len(q)
          BY <1>5, <3>2, <4>2 DEF Begins
        <5> QED BY <2>1, <5>1 DEF HeardIn
      <4> QED BY <4>1, <4>2
    <3> QED BY <3>1, <3>2 DEF HeardIn
  <2>2. \A i \in 1..Len(r2) : r2[i] \in MessageType /\ HeardIn(r2[i], q, n) /\ RightIn(r2[i], h)
    <3>1. \A i \in 1..Len(<<>>) : FALSE
      OBVIOUS
    <3> QED BY <1>1, <3>1 DEF MessagesIn
  <2>3. \A o \in Opcodes : s[o] \in MessageType /\ HeardIn(s[o], q, n) /\ RightIn(s[o], h)
    BY <1>1 DEF MessagesIn
  <2> QED BY <2>1, <2>2, <2>3 DEF MessagesIn
<1> QED BY <1>1, <1>6, <1>7, <1>8, <1>9 DEF Agree

-----------------------------------------------------------------------------
(***************************************************************************)
(* Every step keeps the runs and the messages in agreement.                *)
(***************************************************************************)
LEMMA RunSame ==
  ASSUME RunInv, UNCHANGED <<head, slot, runs>>,
         g'.kind = "none" \/ (g'.kind = g.kind /\ g'.run = g.run /\ Wired(g') = Wired(g)),
         g'.paused = 2 => g'.kind = "focus",
         \A i \in 1..Len(tx') : Begins(tx', i) => Begins(tx, i) /\ tx'[i] = tx[i],
         rx' = rx \/ rx' = <<>>
  PROVE  RunInv'
<1>1. Agree(g', head, tx', rx', slot, runs)
  BY AgreeLess DEF RunInv
<1> QED BY <1>1 DEF RunInv

\* Orders that begin no programme leave those on their way as they are.
LEMMA NoBegins ==
  ASSUME TypeOK, LinkInv, NEW orders \in Seq(OrderType), Transmit(orders),
         \A i \in 1..Len(orders) : orders[i].what # "begin"
  PROVE  /\ \A i \in 1..Len(tx') : Begins(tx', i) => Begins(tx, i) /\ tx'[i] = tx[i]
         /\ rx' = rx \/ rx' = <<>>
<1>1. /\ rx' = rx \/ rx' = <<>>
      /\ \A i \in 1..Len(tx') : IF i <= Len(tx) THEN tx'[i] = tx[i]
                                ELSE i - Len(tx) \in 1..Len(orders) /\ tx'[i] = orders[i - Len(tx)]
  BY TransmitSends
<1>2. Len(tx) \in Nat
  BY DEF TypeOK
<1>3. ASSUME NEW i \in 1..Len(tx'), Begins(tx', i) PROVE Begins(tx, i) /\ tx'[i] = tx[i]
  <2>1. i <= Len(tx)
    BY <1>1, <1>3 DEF Begins
  <2> QED BY <1>1, <1>2, <1>3, <2>1 DEF Begins
<1> QED BY <1>1, <1>3

\* The orders other than those of a start begin nothing.
LEMMA FewOrders ==
  ASSUME NEW o \in OrderType, o.what # "begin", NEW q, q = <<>> \/ q = <<o>>
  PROVE  q \in Seq(OrderType) /\ \A i \in 1..Len(q) : q[i].what # "begin"
<1>1. CASE q = <<>>
  BY <1>1
<1>2. CASE q = <<o>>
  BY <1>2
<1> QED BY <1>1, <1>2

LEMMA AgedSame ==
  ASSUME TypeOK, NEW d \in Nat, Aged(d)
  PROVE  g'.kind = g.kind /\ g'.run = g.run /\ g'.paused = g.paused /\ Wired(g') = Wired(g)
<1>1. g' = g \/ g' = [g EXCEPT !.toPoll = Most(0, @ - d), !.unheard = Least(@ + d, Stale + 1)]
  BY DEF Aged
<1>2. g'.kind = g.kind /\ g'.run = g.run /\ g'.paused = g.paused
  BY <1>1 DEF TypeOK, RunType
<1> QED BY <1>2 DEF Wired

\* What a start sends: one order begins the programme.
\* The orders of one start are all about the new run, and one of them begins it.
StartOf(s, k, n) ==
  /\ s \in Seq(OrderType)
  /\ \A i \in 1..Len(s) : s[i].run = n /\ s[i].kind = k
  /\ \A i, l \in 1..Len(s) : s[i].what = "begin" /\ s[l].what = "begin" => i = l

LEMMA StartSends ==
  ASSUME TypeOK, NEW k \in AllKinds \cup {"preview"}, NEW n \in Int, NEW extra \in BOOLEAN,
         NEW h \in HeadType, NEW q \in Seq(OrderType)
  PROVE  /\ StartOf(StartOrders(k, n, extra), k, runs + 1)
         /\ HeadAfter(h, q \o StartOrders(k, n, extra))
              = [kind |-> k, left |-> n, run |-> runs + 1, paused |-> FALSE]
<1> DEFINE P == Order("points", k, n, runs + 1)
           B == Order("begin", k, n, runs + 1)
           E == Order("extra", k, n, runs + 1)
           s == StartOrders(k, n, extra)
           b == [kind |-> k, left |-> n, run |-> runs + 1, paused |-> FALSE]
<1>1. P \in OrderType /\ B \in OrderType /\ E \in OrderType
  <2>1. runs + 1 \in Nat /\ k \in AnyKind
    BY CountAssumption DEF TypeOK, AnyKind
  <2> QED BY <2>1, OrderIn DEF Orders
<1>2. /\ P.what = "points" /\ B.what = "begin" /\ E.what = "extra"
      /\ P.run = runs + 1 /\ B.run = runs + 1 /\ E.run = runs + 1
      /\ P.kind = k /\ B.kind = k /\ E.kind = k /\ B.left = n
  BY DEF Order
<1> DEFINE a == IF k \in {"lapse", "pathlapse", "plc"} THEN <<P>> ELSE <<>>
           c == IF extra /\ k \in {"pano", "plc"} THEN <<E>> ELSE <<>>
<1>3. s = (a \o <<B>>) \o c
  BY DEF StartOrders
<1>4. /\ HeadAfter(h, q) \in HeadType
      /\ \A j \in HeadType : Obey(j, P) \in HeadType /\ Obey(j, B) = b /\ Obey(b, E) = b
      /\ b \in HeadType
  <2>1. b \in HeadType
    BY CountAssumption DEF HeadType, TypeOK
  <2>2. Obey(b, E) = b /\ \A j \in HeadType : Obey(j, B) = b
    <3> HIDE DEF b, P, B, E
    <3>1. \A j \in HeadType : Obey(j, B) = [kind |-> B.kind, left |-> B.left, run |-> B.run, paused |-> FALSE]
      BY <1>1, <1>2, ObeyCases
    <3>2. Obey(b, E) = b
      BY <1>1, <1>2, <2>1, ObeyCases
    <3> QED BY <1>2, <3>1, <3>2 DEF b
  <2> QED BY <1>1, <2>1, <2>2, HeadAfterIs, ObeyType
<1> HIDE DEF P, B, E, s, b
<1>5. /\ a \in Seq(OrderType) /\ c \in Seq(OrderType) /\ <<B>> \in Seq(OrderType)
      /\ \A i \in 1..Len(a) : a[i] = P
      /\ \A i \in 1..Len(c) : c[i] = E
      /\ a = <<P>> \/ a = <<>>
      /\ c = <<E>> \/ c = <<>>
      /\ Len(<<B>>) = 1 /\ <<B>>[1] = B
  BY <1>1
<1> HIDE DEF a, c
<1>6. HeadAfter(h, q \o s) = b
  <2>1. q \o s = ((q \o a) \o <<B>>) \o c
    <3>1. a \o <<B>> \in Seq(OrderType)
      BY <1>5
    <3>2. (q \o a) \o <<B>> = q \o (a \o <<B>>)
      BY <1>5, ConcatAssociative, SMTT(30)
    <3>3. (q \o (a \o <<B>>)) \o c = q \o ((a \o <<B>>) \o c)
      BY <1>5, <3>1, ConcatAssociative, SMTT(30)
    <3> QED BY <1>3, <3>2, <3>3
  <2>2. q \o a \in Seq(OrderType) /\ (q \o a) \o <<B>> \in Seq(OrderType)
    BY <1>5
  <2>3. HeadAfter(h, q \o a) \in HeadType
    BY <2>2, HeadAfterIs
  <2>4. HeadAfter(h, (q \o a) \o <<B>>) = b
    BY <1>1, <1>4, <2>2, <2>3, AfterConcat
  <2>5. CASE c = <<E>>
    <3>1. ASSUME NEW w \in Seq(OrderType), HeadAfter(h, w) = b PROVE HeadAfter(h, w \o <<E>>) = b
      BY <1>1, <1>4, <3>1, AfterConcat
    <3>2. HeadAfter(h, ((q \o a) \o <<B>>) \o <<E>>) = b
      BY <2>2, <2>4, <3>1
    <3>3. q \o s = ((q \o a) \o <<B>>) \o <<E>>
      BY <2>1, <2>5
    <3> QED BY <3>2, <3>3
  <2>6. CASE c = <<>>
    BY <2>1, <2>2, <2>4, <2>6
  <2> QED BY <1>5, <2>5, <2>6
<1>7. s \in Seq(OrderType)
  BY <1>3, <1>5
<1>8. \A i \in 1..Len(s) : IF i <= Len(a) THEN s[i] = P ELSE IF i = Len(a) + 1 THEN s[i] = B ELSE s[i] = E
  <2>1. /\ a \o <<B>> \in Seq(OrderType) /\ Len(a \o <<B>>) = Len(a) + 1 /\ Len(a) \in Nat
        /\ \A i \in 1..(Len(a) + 1) : (a \o <<B>>)[i] = IF i <= Len(a) THEN P ELSE B
    BY <1>5
  <2>2. \A i \in 1..Len(s) : s[i] = IF i <= Len(a) + 1 THEN (a \o <<B>>)[i] ELSE c[i - (Len(a) + 1)]
    BY <1>3, <1>5, <2>1
  <2>3. Len(s) = Len(a) + 1 + Len(c) /\ Len(c) \in Nat
    BY <1>3, <1>5, <2>1
  <2> QED BY <1>5, <2>1, <2>2, <2>3
<1>9. \A i \in 1..Len(s) : s[i].run = runs + 1 /\ s[i].kind = k
  BY <1>2, <1>8
<1>10. \A i, l \in 1..Len(s) : s[i].what = "begin" /\ s[l].what = "begin" => i = l
  <2>1. \A i \in 1..Len(s) : s[i].what = "begin" => i = Len(a) + 1
    BY <1>2, <1>8
  <2> QED BY <2>1
<1> QED BY <1>6, <1>7, <1>9, <1>10 DEF s, b, StartOf

LEMMA StartRun ==
  ASSUME IInv, RunInv, NEW k \in AllKinds \cup {"preview"}, NEW n \in Int, NEW extra \in BOOLEAN,
         NEW t \in Int, NEW mode \in {0, 2},
         Transmit(StartOrders(k, n, extra)), runs' = runs + 1, UNCHANGED <<head, slot>>,
         g' = Begun(IF mode = 2 THEN "focus" ELSE k, t, mode),
         mode = 2 <=> k = "preview"
  PROVE  RunInv'
<1> DEFINE s == StartOrders(k, n, extra)
<1>1. /\ s \in Seq(OrderType)
      /\ \A i \in 1..Len(s) : s[i].run = runs + 1 /\ s[i].kind = k
      /\ \A i, l \in 1..Len(s) : s[i].what = "begin" /\ s[l].what = "begin" => i = l
  <2>1. TypeOK /\ head \in HeadType /\ tx \in Seq(OrderType)
    BY DEF IInv, TypeOK
  <2>2. StartOf(s, k, runs + 1)
    BY <2>1, StartSends
  <2> QED BY <2>2 DEF StartOf
<1> HIDE DEF s
<1>2. Transmit(s)
  BY DEF s
<1>3. /\ rx' = rx \/ rx' = <<>>
      /\ \A i \in 1..Len(tx') : IF i <= Len(tx) THEN tx'[i] = tx[i]
                                ELSE i - Len(tx) \in 1..Len(s) /\ tx'[i] = s[i - Len(tx)]
      /\ tx' \in Seq(OrderType)
  BY <1>1, <1>2, TransmitSends, TransmitKeeps DEF IInv
<1>4. /\ g \in RunType /\ head \in HeadType /\ tx \in Seq(OrderType) /\ rx \in Seq(MessageType)
      /\ slot \in [Opcodes -> MessageType] /\ runs \in Nat /\ Len(tx) \in Nat /\ Len(tx') \in Nat
  BY <1>3, CountAssumption DEF IInv, TypeOK
<1>5. /\ g'.kind = (IF mode = 2 THEN "focus" ELSE k) /\ g'.run = runs + 1 /\ g'.paused = mode
      /\ g'.kind # "none" /\ Wired(g') = k /\ k # "none"
  <2>1. g'.kind = (IF mode = 2 THEN "focus" ELSE k) /\ g'.run = runs + 1 /\ g'.paused = mode
    BY DEF Begun
  <2>2. k # "none"
    BY DEF AllKinds
  <2> QED BY <2>1, <2>2 DEF Wired
<1>6. \A i \in 1..Len(tx') : (i \in 1..Len(tx) /\ tx'[i] = tx[i]) \/
        (i > Len(tx) /\ (tx'[i].what = "begin" => tx'[i].run = runs + 1 /\ tx'[i].kind = Wired(g')))
  <2> SUFFICES ASSUME NEW i \in 1..Len(tx')
               PROVE  \/ i \in 1..Len(tx) /\ tx'[i] = tx[i]
                      \/ /\ i > Len(tx)
                         /\ tx'[i].what = "begin" => tx'[i].run = runs + 1 /\ tx'[i].kind = Wired(g')
    OBVIOUS
  <2>1. CASE i <= Len(tx)
    BY <1>3, <1>4, <2>1
  <2>2. CASE ~(i <= Len(tx))
    <3>1. i - Len(tx) \in 1..Len(s) /\ tx'[i] = s[i - Len(tx)]
      BY <1>3, <2>2
    <3>2. tx'[i].run = runs + 1 /\ tx'[i].kind = k
      BY <1>1, <3>1
    <3>3. i > Len(tx)
      BY <1>4, <2>2
    <3> QED BY <1>5, <3>2, <3>3
  <2> QED BY <2>1, <2>2
<1>7. \A i, l \in 1..Len(tx') :
        i > Len(tx) /\ l > Len(tx) /\ tx'[i].what = "begin" /\ tx'[l].what = "begin" => i = l
  <2> SUFFICES ASSUME NEW i \in 1..Len(tx'), NEW l \in 1..Len(tx'), i > Len(tx), l > Len(tx),
                      tx'[i].what = "begin", tx'[l].what = "begin"
               PROVE  i = l
    OBVIOUS
  <2>1. /\ i - Len(tx) \in 1..Len(s) /\ tx'[i] = s[i - Len(tx)]
        /\ l - Len(tx) \in 1..Len(s) /\ tx'[l] = s[l - Len(tx)]
    BY <1>3, <1>4
  <2>2. i - Len(tx) = l - Len(tx)
    BY <1>1, <2>1
  <2> QED BY <1>4, <2>2
<1>8. Agree(g', head, tx', rx', slot, runs + 1)
  BY <1>3, <1>4, <1>5, <1>6, <1>7, AgreeStarts DEF RunInv
<1> QED BY <1>8 DEF RunInv

LEMMA InitRun == Init => RunInv
<1> SUFFICES ASSUME Init PROVE RunInv
  OBVIOUS
<1>1. \A i \in 1..Len(<<>>) : FALSE
  OBVIOUS
<1>2. tx = <<>> /\ rx = <<>> /\ g = Idle /\ head = NoRun /\ runs = 0 /\ \A o \in Opcodes : slot[o] = Nothing
  BY DEF Init
<1>3. RecordIn(g, runs) /\ KindIn(g, head, tx)
  BY <1>2 DEF RecordIn, KindIn, Idle
<1>4. SlotsIn(head, slot) /\ RunsIn(head, tx, runs)
  BY <1>1, <1>2 DEF SlotsIn, RunsIn, NoRun
<1>5. MessagesIn(head, tx, rx, slot, runs)
  <2>1. Nothing.run = 0 /\ Over(NoRun)
    BY DEF Nothing, Over, NoRun
  <2>2. HeardIn(Nothing, tx, runs) /\ RightIn(Nothing, head)
    BY <1>1, <1>2, <2>1 DEF HeardIn, RightIn
  <2> QED BY <1>1, <1>2, <2>2 DEF MessagesIn
<1> QED BY <1>3, <1>4, <1>5 DEF RunInv, Agree

LEMMA WatchedSame ==
  ASSUME NEW p \in RunType
  PROVE  Watched(p).kind = p.kind /\ Watched(p).run = p.run /\ Watched(p).paused = p.paused
<1>1. CASE p.kind = "none"
  BY <1>1 DEF Watched
<1>2. CASE p.kind # "none"
  <2> DEFINE t == IF PollDue(p) THEN Poll ELSE p.toPoll
             s == p.stale \/ p.unheard > Stale
  <2>1. Watched(p) = [p EXCEPT !.toPoll = t, !.stale = s]
    BY <1>2 DEF Watched
  <2> HIDE DEF t, s
  <2> QED BY <2>1 DEF RunType
<1> QED BY <1>1, <1>2

\* A step of the loop keeps the record of the run, or drops it.
LEMMA SameRecord ==
  ASSUME RunInv, (g'.kind = "none" /\ g'.paused = 0)
                 \/ (g'.kind = g.kind /\ g'.run = g.run /\ g'.paused = g.paused)
  PROVE  /\ g'.kind = "none" \/ (g'.kind = g.kind /\ g'.run = g.run /\ Wired(g') = Wired(g))
         /\ g'.paused = 2 => g'.kind = "focus"
BY DEF RunInv, Agree, RecordIn, Wired

LEMMA SelectRun == ASSUME IInv, RunInv, NEW d \in 0..IdleSleep, Select(d) PROVE RunInv'
<1>1. d \in Nat /\ TypeOK
  BY TimeAssumption DEF IInv
<1>2. Aged(d) /\ UNCHANGED <<link, rx, news, env, runs>>
  BY DEF Select
<1>3. g'.kind = g.kind /\ g'.run = g.run /\ g'.paused = g.paused
  BY <1>1, <1>2, AgedSame
<1> QED BY <1>2, <1>3, SameRecord, RunSame DEF link, news, env

LEMMA PumpRun == ASSUME IInv, RunInv, Pump PROVE RunInv'
<1>0. /\ rx \in Seq(MessageType) /\ slot \in [Opcodes -> MessageType]
      /\ \A i \in 1..Len(<<>>) : FALSE
  BY DEF IInv, TypeOK
<1>1. CASE PumpIdle
  BY <1>1, SameRecord, RunSame DEF PumpIdle, link, news, env, history
<1>2. CASE PumpConnect
  BY <1>2, SameRecord, RunSame DEF PumpConnect, link, news, env, history
<1>3. CASE PumpFinish
  BY <1>3, SameRecord, RunSame DEF PumpFinish, link, news, env, history
<1>4. CASE PumpRead
  <2>1. /\ slot' = [o \in Opcodes |->
                      IF Came(o) = {} THEN slot[o]
                      ELSE rx[CHOOSE i \in Came(o) : \A j \in Came(o) : j <= i]]
        /\ rx' = <<>> /\ UNCHANGED <<tx, g, head, runs>>
    BY <1>4 DEF PumpRead, link, env
  <2>2. ASSUME NEW o \in Opcodes
        PROVE  slot'[o] = slot[o] \/ \E i \in 1..Len(rx) : slot'[o] = rx[i] /\ rx[i].op = o
    <3>1. CASE Came(o) = {}
      BY <2>1, <3>1
    <3>2. CASE Came(o) # {}
      <4> DEFINE i == CHOOSE i \in Came(o) : \A j \in Came(o) : j <= i
      <4>1. i \in Came(o)
        BY <1>0, <3>2, LastCame
      <4>2. slot'[o] = rx[i]
        BY <2>1, <3>2
      <4> HIDE DEF i
      <4> QED BY <4>1, <4>2 DEF Came
    <3> QED BY <3>1, <3>2
  <2>3. Agree(g, head, tx, <<>>, slot', runs)
    BY <2>2, AgreePumps DEF RunInv
  <2> QED BY <2>1, <2>3 DEF RunInv
<1>5. CASE PumpLost
  <2>1. tx' = <<>> /\ rx' = <<>> /\ UNCHANGED <<g, head, slot, runs>>
    BY <1>5 DEF PumpLost, Disconnect, news, env
  <2>2. \A i \in 1..Len(tx') : Begins(tx', i) => Begins(tx, i) /\ tx'[i] = tx[i]
    BY <1>0, <2>1
  <2> QED BY <2>1, <2>2, SameRecord, RunSame
<1> QED BY <1>1, <1>2, <1>3, <1>4, <1>5 DEF Pump

\* prog_tick keeps the run or drops it, and sends a poll at most.
LEMMA TickUpIs ==
  ASSUME IInv, TickUp
  PROVE  LET m == slot[Op(g.kind)] IN
         \E p \in RunType, q \in Seq(OrderType) :
           /\ Transmit(q) /\ misled' = (misled \/ (p.kind = "none" /\ m.run # g.run))
           /\ q = <<>> \/ q = <<Order("poll", p.kind, 0, p.run)>>
           /\ IF p.kind = "none" THEN Ends(g.kind, m)
              ELSE p.kind = g.kind /\ p.run = g.run /\ p.paused = g.paused
           /\ p.kind = "none" => p.paused = 0
           /\ g'.kind = p.kind /\ g'.run = p.run /\ g'.paused = p.paused
           /\ UNCHANGED <<slot, head, runs>>
<1> DEFINE m == slot[Op(g.kind)]
           p == Absorbed(g, fresh[g.kind], m)
           q == IF PollDue(p) THEN <<Order("poll", p.kind, 0, p.run)>> ELSE <<>>
<1>1. /\ g.kind # "none" /\ g' = Watched(p) /\ Transmit(q)
      /\ misled' = (misled \/ (p.kind = "none" /\ m.run # g.run))
      /\ UNCHANGED <<slot, head, runs>>
  BY DEF TickUp, env
<1>2. g \in RunType /\ g.kind \in AllKinds
  BY <1>1 DEF IInv, TypeOK, RunType
<1>3. m \in MessageType /\ fresh[g.kind] \in BOOLEAN
  BY <1>2, OpType DEF IInv, TypeOK
<1>4. p \in RunType
  BY <1>2, <1>3, AbsorbedType
<1>5. /\ IF p.kind = "none" THEN Ends(g.kind, m)
         ELSE p.kind = g.kind /\ p.run = g.run /\ p.paused = g.paused
      /\ p.kind = "none" => p.paused = 0
  <2>1. Idle.kind = "none" /\ Idle.paused = 0
    BY DEF Idle
  <2>2. CASE ~fresh[g.kind]
    BY <1>1, <2>2 DEF Absorbed
  <2>3. CASE fresh[g.kind] /\ Ends(g.kind, m)
    BY <2>1, <2>3 DEF Absorbed
  <2>4. CASE fresh[g.kind] /\ ~Ends(g.kind, m)
    <3>1. p = [g EXCEPT !.unheard = 0, !.stale = FALSE,
                        !.remaining = IF m.left > 0 THEN m.left ELSE @]
      BY <2>4 DEF Absorbed
    <3> HIDE DEF p, m
    <3> QED BY <1>1, <1>2, <3>1 DEF RunType
  <2> QED BY <2>2, <2>3, <2>4
<1>6. q \in Seq(OrderType)
  <2>1. p.kind \in AnyKind /\ p.run \in Nat /\ "poll" \in Orders
    BY <1>4 DEF RunType, AnyKind, Orders
  <2>2. <<Order("poll", p.kind, 0, p.run)>> \in Seq(OrderType)
    BY <2>1, OrderIn
  <2> QED BY <2>2
<1> HIDE DEF m, p
<1>7. g'.kind = p.kind /\ g'.run = p.run /\ g'.paused = p.paused
  BY <1>1, <1>4, WatchedSame
<1>8. q = <<>> \/ q = <<Order("poll", p.kind, 0, p.run)>>
  OBVIOUS
<1> HIDE DEF q
<1> QED BY <1>1, <1>4, <1>5, <1>6, <1>7, <1>8 DEF m

LEMMA TickRun == ASSUME IInv, RunInv, Tick PROVE RunInv'
<1>1. CASE TickIdle
  BY <1>1, SameRecord, RunSame DEF TickIdle, link, news, env, history
<1>2. CASE TickDown
  <2>1. g'.kind = "none" /\ g'.paused = 0 /\ UNCHANGED <<head, slot, runs, tx, rx>>
    BY <1>2 DEF TickDown, Idle, link, news, env
  <2> QED BY <2>1, SameRecord, RunSame
<1>3. CASE TickUp
  <2> DEFINE m == slot[Op(g.kind)]
  <2>1. PICK p \in RunType, q \in Seq(OrderType) :
           /\ Transmit(q) /\ misled' = (misled \/ (p.kind = "none" /\ m.run # g.run))
           /\ q = <<>> \/ q = <<Order("poll", p.kind, 0, p.run)>>
           /\ IF p.kind = "none" THEN Ends(g.kind, m)
              ELSE p.kind = g.kind /\ p.run = g.run /\ p.paused = g.paused
           /\ p.kind = "none" => p.paused = 0
           /\ g'.kind = p.kind /\ g'.run = p.run /\ g'.paused = p.paused
           /\ UNCHANGED <<slot, head, runs>>
    BY <1>3, TickUpIs, Zenon
  <2>2. \A i \in 1..Len(q) : q[i].what # "begin"
    <3>1. Order("poll", p.kind, 0, p.run) \in OrderType /\ Order("poll", p.kind, 0, p.run).what # "begin"
      BY OrderIn DEF RunType, AnyKind, Orders, Order
    <3> QED BY <2>1, <3>1, FewOrders
  <2>3. /\ \A i \in 1..Len(tx') : Begins(tx', i) => Begins(tx, i) /\ tx'[i] = tx[i]
        /\ rx' = rx \/ rx' = <<>>
    BY <2>1, <2>2, NoBegins DEF IInv
  <2>4. \/ g'.kind = "none" /\ g'.paused = 0
        \/ (g'.kind = g.kind /\ g'.run = g.run /\ g'.paused = g.paused)
    BY <2>1
  <2> QED BY <2>1, <2>3, <2>4, SameRecord, RunSame
<1> QED BY <1>1, <1>2, <1>3 DEF Tick

\* What cancels, pauses and the other users send begins nothing.
LEMMA CancelOrdersAre ==
  ASSUME TypeOK
  PROVE  /\ CancelOrders(g) \in Seq(OrderType)
         /\ \A i \in 1..Len(CancelOrders(g)) : CancelOrders(g)[i].what # "begin"
<1> DEFINE o == Order("cancel", IF g.paused = 2 THEN "preview" ELSE g.kind, 0, g.run)
<1>1. o \in OrderType /\ o.what # "begin"
  <2>1. (IF g.paused = 2 THEN "preview" ELSE g.kind) \in AnyKind /\ g.run \in Nat /\ "cancel" \in Orders
    BY DEF TypeOK, RunType, AnyKind, Orders
  <2> QED BY <2>1, OrderIn DEF Order
<1>2. CancelOrders(g) = <<>> \/ CancelOrders(g) = <<o>>
  BY DEF CancelOrders
<1> HIDE DEF o
<1> QED BY <1>1, <1>2, FewOrders

LEMMA PauseOrderIs ==
  ASSUME TypeOK, NEW on \in BOOLEAN
  PROVE  LET o == Order(IF on THEN "pause" ELSE "resume", "pano", 0, g.run)
         IN o \in OrderType /\ o.what # "begin"
BY OrderIn DEF Orders, AnyKind, AllKinds, TypeOK, RunType, Order

LEMMA OthersBegin ==
  ASSUME NEW orders \in OtherOrders
  PROVE  orders \in Seq(OrderType) /\ \A i \in 1..Len(orders) : orders[i].what # "begin"
<1>1. Order("extra", "none", 0, 0) \in OrderType /\ Order("extra", "none", 0, 0).what # "begin"
  BY OrderIn DEF Orders, AnyKind, Order
<1>2. orders = <<>> \/ orders = <<Order("extra", "none", 0, 0)>>
  BY DEF OtherOrders
<1> QED BY <1>1, <1>2, FewOrders

LEMMA HandleRun == ASSUME IInv, RunInv, Handle PROVE RunInv'
<1>0. TypeOK /\ LinkInv /\ g \in RunType
  BY DEF IInv, TypeOK
<1>1. CASE StartAny
  <2>1. ASSUME NEW k \in Kinds, NEW n \in Frames \cup {Unlimited}, NEW extra \in BOOLEAN,
               Start(k, n, extra)
        PROVE  RunInv'
    <3>1. /\ g' = Begun(k, Total(k, n), 0) /\ Transmit(StartOrders(k, n, extra))
          /\ runs' = runs + 1 /\ UNCHANGED <<head, slot>>
      BY <2>1 DEF Start, news, env
    <3>2. k \in AllKinds \cup {"preview"} /\ k # "preview" /\ n \in Int
      BY KindAssumption, CountAssumption DEF AllKinds, Unlimited
    <3>3. Total(k, n) \in Int
      BY <3>2 DEF Total
    <3> QED BY <3>1, <3>2, <3>3, StartRun
  <2>2. ASSUME NEW n \in Frames, StartPreview(n) PROVE RunInv'
    <3>1. /\ g' = Begun("focus", n, 2) /\ Transmit(StartOrders("preview", n, FALSE))
          /\ runs' = runs + 1 /\ UNCHANGED <<head, slot>>
      BY <2>2, Zenon DEF StartPreview, news, env
    <3>2. n \in Int /\ "preview" \in AllKinds \cup {"preview"} /\ FALSE \in BOOLEAN
      BY CountAssumption
    <3> QED BY <3>1, <3>2, StartRun
  <2> QED BY <1>1, <2>1, <2>2 DEF StartAny
<1>2. CASE Cancel
  <2>1. /\ g'.kind = "none" /\ g'.paused = 0 /\ Transmit(CancelOrders(g))
        /\ UNCHANGED <<head, slot, runs>>
    BY <1>2 DEF Cancel, Idle, news, env
  <2>2. /\ \A i \in 1..Len(tx') : Begins(tx', i) => Begins(tx, i) /\ tx'[i] = tx[i]
        /\ rx' = rx \/ rx' = <<>>
    BY <1>0, <2>1, CancelOrdersAre, NoBegins
  <2> QED BY <2>1, <2>2, SameRecord, RunSame
<1>3. ASSUME NEW on \in BOOLEAN, PanoPause(on) PROVE RunInv'
  <2> DEFINE o == Order(IF on THEN "pause" ELSE "resume", "pano", 0, g.run)
             n == IF on THEN 1 ELSE 0
  <2>1. /\ g.kind = "pano" /\ g' = [g EXCEPT !.paused = n] /\ Transmit(<<o>>)
        /\ UNCHANGED <<head, slot, runs>>
    BY <1>3 DEF PanoPause, news, env
  <2>2. o \in OrderType /\ o.what # "begin" /\ n \in {0, 1}
    BY <1>0, PauseOrderIs
  <2> HIDE DEF o, n
  <2>3. /\ \A i \in 1..Len(tx') : Begins(tx', i) => Begins(tx, i) /\ tx'[i] = tx[i]
        /\ rx' = rx \/ rx' = <<>>
    <3> DEFINE q == <<o>>
    <3>1. Transmit(q) /\ (q = <<>> \/ q = <<o>>)
      BY <2>1
    <3> HIDE DEF q
    <3>2. q \in Seq(OrderType) /\ \A i \in 1..Len(q) : q[i].what # "begin"
      BY <2>2, <3>1, FewOrders
    <3> QED BY <1>0, <3>1, <3>2, NoBegins
  <2>4. g'.kind = g.kind /\ g'.run = g.run /\ g'.paused = n
    BY <1>0, <2>1, <2>2 DEF RunType
  <2>5. Wired(g') = Wired(g) /\ g'.paused # 2
    BY <2>1, <2>2, <2>4 DEF Wired, RunInv, Agree, RecordIn
  <2> QED BY <2>1, <2>3, <2>4, <2>5, RunSame
<1>4. ASSUME NEW d \in 0..HandleMax, NEW orders \in OtherOrders, OtherRequest(d, orders) PROVE RunInv'
  <2>1. Transmit(orders) /\ Aged(d) /\ UNCHANGED <<head, slot, runs>> /\ d \in Nat
    BY <1>4, TimeAssumption DEF OtherRequest, news, env
  <2>2. g'.kind = g.kind /\ g'.run = g.run /\ g'.paused = g.paused
    BY <1>0, <2>1, AgedSame
  <2>3. /\ \A i \in 1..Len(tx') : Begins(tx', i) => Begins(tx, i) /\ tx'[i] = tx[i]
        /\ rx' = rx \/ rx' = <<>>
    BY <1>0, <2>1, OthersBegin, NoBegins
  <2> QED BY <2>1, <2>2, <2>3, SameRecord, RunSame
<1> QED BY <1>1, <1>2, <1>3, <1>4 DEF Handle

LEMMA HeadRun == ASSUME IInv, RunInv, HeadReads \/ HeadShoots \/ HeadFails \/ HeadSilenced \/ Cut PROVE RunInv'
<1>0. /\ g \in RunType /\ head \in HeadType /\ tx \in Seq(OrderType) /\ rx \in Seq(MessageType)
      /\ slot \in [Opcodes -> MessageType] /\ runs \in Nat
  BY CountAssumption DEF IInv, TypeOK
<1>1. CASE HeadReads
  <2> DEFINE said == IF silent THEN <<>> ELSE Answer(head, Obey(head, Head(tx)), Head(tx))
  <2>1. /\ tx # <<>> /\ head' = Obey(head, Head(tx)) /\ tx' = Tail(tx) /\ rx' = rx \o said
        /\ UNCHANGED <<g, slot, runs>>
    BY <1>1 DEF HeadReads, news, history
  <2>2. Head(tx) \in OrderType /\ Obey(head, Head(tx)) \in HeadType
    BY <1>0, <2>1, ObeyType
  <2>3. said \in Seq(MessageType) /\ (said = <<>> \/ said = Answer(head, Obey(head, Head(tx)), Head(tx)))
    BY <1>0, <2>2, AnswerType, SaidIn
  <2> HIDE DEF said
  <2>4. Agree(g, Obey(head, Head(tx)), Tail(tx), rx \o said, slot, runs)
    BY <1>0, <2>1, <2>3, AgreeReads DEF RunInv
  <2> QED BY <2>1, <2>4 DEF RunInv
<1>2. CASE HeadShoots
  <2> DEFINE c == head.left - 1
             j == [head EXCEPT !.left = c]
             said == IF sock = "ok" THEN Push(j) ELSE <<>>
  <2>1. /\ head.left > 0 /\ head' = j /\ rx' = rx \o said /\ UNCHANGED <<g, slot, runs, tx>>
    BY <1>2 DEF HeadShoots, link, news, history
  <2>2. head.left \in Int /\ c \in Nat
    BY <1>0, <2>1 DEF HeadType
  <2>3. j \in HeadType /\ j.left = c /\ j.run = head.run
    <3> HIDE DEF c
    <3> QED BY <1>0, <2>2 DEF HeadType
  <2>4. said \in Seq(MessageType)
    BY <2>3, PushType, SaidIn
  <2>5. \A i \in 1..Len(said) : said[i].run = head.run /\ RightIn(said[i], j)
    <3>1. CASE sock = "ok"
      <4> HIDE DEF j, c
      <4> QED BY <2>2, <2>3, <3>1, PushRight
    <3>2. CASE sock # "ok"
      <4>1. said = <<>> /\ \A i \in 1..Len(<<>>) : FALSE
        BY <3>2
      <4> HIDE DEF said
      <4> QED BY <4>1
    <3> QED BY <3>1, <3>2
  <2>6. c \in Int /\ j = [head EXCEPT !.left = c]
    BY <2>2
  <2> HIDE DEF said, j, c
  <2>7. Agree(g, j, tx, rx \o said, slot, runs)
    BY <1>0, <2>1, <2>4, <2>5, <2>6, AgreeCounts DEF RunInv
  <2> QED BY <2>1, <2>7 DEF RunInv
<1>3. CASE HeadFails
  <2> DEFINE j == [head EXCEPT !.left = Failed]
  <2>1. head.left > 0 /\ head' = j /\ UNCHANGED <<g, slot, runs, tx, rx>>
    BY <1>3 DEF HeadFails, link, news, history
  <2>2. <<>> \in Seq(MessageType) /\ \A i \in 1..Len(<<>>) : FALSE
    OBVIOUS
  <2>3. Agree(g, j, tx, rx \o <<>>, slot, runs)
    <3>1. Failed \in Int
      BY DEF Failed
    <3>2. \A i \in 1..Len(<<>>) : <<>>[i].run = head.run /\ RightIn(<<>>[i], j)
      BY <2>2
    <3>3. j = [head EXCEPT !.left = Failed]
      OBVIOUS
    <3> HIDE DEF j
    <3> QED BY <1>0, <2>1, <2>2, <3>1, <3>2, <3>3, AgreeCounts DEF RunInv
  <2>4. rx \o <<>> = rx
    BY <1>0
  <2> QED BY <2>1, <2>3, <2>4 DEF RunInv
<1>4. CASE HeadSilenced
  BY <1>4, SameRecord, RunSame DEF HeadSilenced, link, news, history
<1>5. CASE Cut
  BY <1>5, SameRecord, RunSame DEF Cut, news, env, history
<1> QED BY <1>1, <1>2, <1>3, <1>4, <1>5

LEMMA NextRun == IInv /\ RunInv /\ [Next]_vars => RunInv'
<1>1. ASSUME IInv, RunInv, Next PROVE RunInv'
  BY <1>1, SelectRun, PumpRun, TickRun, HandleRun, HeadRun DEF Next
<1>2. ASSUME RunInv, UNCHANGED vars PROVE RunInv'
  BY <1>2 DEF vars, link, news, env, history, RunInv
<1> QED BY <1>1, <1>2

\* What the server, the head and the messages between them say of runs agrees in
\* every state: a run's number means one programme to both, and no message on its way
\* says of the run the head is on that it is over, unless it is.
THEOREM RunsAgree == Spec => []RunInv
BY Invariant, InitRun, NextRun, PTL DEF Spec

-----------------------------------------------------------------------------
(***************************************************************************)
(* What the head will be doing, once it has read what was sent, is what    *)
(* the server tracks.                                                      *)
(***************************************************************************)
Knows(p, h) ==
  IF p.kind = "none" THEN Over(h)
  ELSE h.run = p.run /\ h.kind = Wired(p) /\ (p.kind = "pano" => (h.paused <=> p.paused = 1))
KnowsInv == ~lost /\ ~misled => Knows(g, HeadAfter(head, tx))

\* No order on its way begins the run that n numbers: if the head is on it after
\* them, it is on it already.
LEMMA AfterOld ==
  ASSUME NEW h \in HeadType, NEW q \in Seq(OrderType), NEW n \in Nat \ {0},
         \A i \in 1..Len(q) : Begins(q, i) => n < q[i].run,
         HeadAfter(h, q).run = n
  PROVE  /\ HeadAfter(h, q).run = h.run /\ HeadAfter(h, q).kind = h.kind
         /\ HeadAfter(h, q).left = h.left
<1> DEFINE b == Latest(q, {"begin"})
<1>1. b \in 0..Len(q) /\ (b # 0 => q[b].what = "begin" /\ q[b] \in OrderType) /\ Len(q) \in Nat
  BY LatestIs
<1>2. /\ HeadAfter(h, q) = IF Cancelled(h, q) THEN NoRun ELSE Turned(h, q)
      /\ Turned(h, q).kind = Base(h, q).kind /\ Turned(h, q).left = Base(h, q).left
      /\ Turned(h, q).run = Base(h, q).run
      /\ b # 0 => Base(h, q) = [kind |-> q[b].kind, left |-> q[b].left, run |-> q[b].run, paused |-> FALSE]
  BY HeadAfterIs
<1>3. b = 0 => Base(h, q) = h
  BY DEF Base
<1> HIDE DEF b
<1>4. ~Cancelled(h, q)
  BY <1>2, NoRunStays
<1>5. CASE b # 0
  <2>1. Begins(q, b) /\ q[b].run \in Nat
    BY <1>1, <1>5 DEF Begins, OrderType
  <2>2. n < q[b].run
    BY <1>1, <1>5, <2>1
  <2>3. Base(h, q).run = q[b].run
    BY <1>2, <1>5
  <2> QED BY <1>2, <1>4, <2>1, <2>2, <2>3
<1> QED BY <1>2, <1>3, <1>4, <1>5

\* The message that ends the tracked run, and speaks of it, finds the head done.
LEMMA EndRight ==
  ASSUME IInv, RunInv, g.kind # "none", Ends(g.kind, slot[Op(g.kind)]),
         slot[Op(g.kind)].run = g.run, head.run = g.run
  PROVE  Over(head)
<1> DEFINE m == slot[Op(g.kind)]
<1>1. g \in RunType /\ g.kind \in AllKinds /\ Op(g.kind) \in Opcodes
  BY OpType DEF IInv, TypeOK, RunType, AnyKind
<1>2. head.kind = Wired(g) /\ RightIn(m, head) /\ (m = Nothing \/ m.op = Op(g.kind))
      /\ (g.paused = 2 => g.kind = "focus")
  BY <1>1 DEF RunInv, Agree, KindIn, MessagesIn, SlotsIn, RecordIn
<1>3. Op(head.kind) = Op(g.kind)
  BY <1>2 DEF Wired, Op
<1>4. m # Nothing
  <2>1. ~Ends(g.kind, Nothing)
    BY DEF Ends, Nothing, NoStep, Absent
  <2> QED BY <2>1
<1> QED BY <1>1, <1>2, <1>3, <1>4 DEF RightIn

\* An order about no programme leaves the head as it will be.
LEMMA OtherAfter ==
  ASSUME NEW h \in HeadType, NEW q \in Seq(OrderType), NEW o \in OrderType,
         o.what \notin {"begin", "cancel", "pause", "resume"}, NEW s, s = <<>> \/ s = <<o>>
  PROVE  HeadAfter(h, q \o s) = HeadAfter(h, q)
<1>1. CASE s = <<>>
  <2>1. q \o s = q
    BY <1>1
  <2> QED BY <2>1
<1>2. CASE s = <<o>>
  <2>1. HeadAfter(h, q) \in HeadType
    BY HeadAfterIs
  <2>2. Obey(HeadAfter(h, q), o) = HeadAfter(h, q)
    BY <2>1, ObeyCases
  <2> QED BY <1>2, <2>2, AfterConcat
<1> QED BY <1>1, <1>2

\* A step that sends nothing, and tracks the same run.
LEMMA KnowsSame ==
  ASSUME KnowsInv, UNCHANGED <<head, tx>>, ~lost' => ~lost, ~misled' => ~misled,
         \/ g.kind = "none" /\ g'.kind = "none"
         \/ (g'.kind = g.kind /\ g'.run = g.run /\ g'.paused = g.paused)
  PROVE  KnowsInv'
BY DEF KnowsInv, Knows, Wired

LEMMA KnowsSends ==
  ASSUME IInv, KnowsInv, NEW orders \in Seq(OrderType), Transmit(orders), UNCHANGED head,
         ~misled' => ~misled,
         ~misled' /\ Knows(g, HeadAfter(head, tx)) => Knows(g', HeadAfter(head, tx \o orders))
  PROVE  KnowsInv'
<1>1. ~lost' => ~lost /\ tx' = tx \o orders
  BY TransmitSends DEF IInv
<1> QED BY <1>1 DEF KnowsInv

LEMMA InitKnows == Init => KnowsInv
<1> SUFFICES ASSUME Init PROVE KnowsInv
  OBVIOUS
<1>1. tx = <<>> /\ head = NoRun /\ g.kind = "none"
  BY DEF Init, Idle
<1>2. HeadAfter(head, tx) = head
  <2>1. head \in HeadType /\ tx \in Seq(OrderType) /\ Len(tx) = 0
    BY <1>1, NoRunStays
  <2>2. ASSUME NEW these PROVE Latest(tx, these) = 0
    <3>1. Latest(tx, these) \in 0..Len(tx)
      BY <2>1, LatestIs
    <3> QED BY <2>1, <3>1
  <2>3. Base(head, tx) = head
    BY <2>2 DEF Base
  <2>4. Turned(head, tx) = head
    BY <2>2, <2>3 DEF Turned
  <2> QED BY <1>1, <2>1, <2>4, HeadAfterIs
<1> QED BY <1>1, <1>2 DEF KnowsInv, Knows, Over, NoRun

LEMMA TickKnows == ASSUME IInv, RunInv, KnowsInv, Tick PROVE KnowsInv'
<1>1. CASE TickIdle
  BY <1>1, KnowsSame DEF TickIdle, link, env, history
<1>2. CASE TickDown
  BY <1>2 DEF TickDown, KnowsInv
<1>3. CASE TickUp
  <2> DEFINE m == slot[Op(g.kind)]
             H == HeadAfter(head, tx)
  <2>0. /\ g.kind # "none" /\ g \in RunType /\ Op(g.kind) \in Opcodes
        /\ head \in HeadType /\ tx \in Seq(OrderType)
    BY <1>3, OpType DEF TickUp, IInv, TypeOK, RunType, AnyKind
  <2>1. PICK p \in RunType, q \in Seq(OrderType) :
           /\ Transmit(q) /\ misled' = (misled \/ (p.kind = "none" /\ m.run # g.run))
           /\ q = <<>> \/ q = <<Order("poll", p.kind, 0, p.run)>>
           /\ IF p.kind = "none" THEN Ends(g.kind, m)
              ELSE p.kind = g.kind /\ p.run = g.run /\ p.paused = g.paused
           /\ p.kind = "none" => p.paused = 0
           /\ g'.kind = p.kind /\ g'.run = p.run /\ g'.paused = p.paused
           /\ UNCHANGED <<slot, head, runs>>
    BY <1>3, TickUpIs, Zenon
  <2>2. HeadAfter(head, tx \o q) = H
    <3>1. Order("poll", p.kind, 0, p.run) \in OrderType
          /\ Order("poll", p.kind, 0, p.run).what \notin {"begin", "cancel", "pause", "resume"}
      BY OrderIn DEF RunType, AnyKind, Orders, Order
    <3> QED BY <2>0, <2>1, <3>1, OtherAfter
  <2>3. ~misled' => ~misled /\ (p.kind = "none" => m.run = g.run)
    BY <2>1, Zenon
  <2>4. ASSUME p.kind = "none", m.run = g.run, Knows(g, H) PROVE Over(H)
    <3>1. Ends(g.kind, m) /\ H.run = g.run /\ H.kind = Wired(g)
      BY <2>0, <2>1, <2>4 DEF Knows
    <3>2. g.run \in Nat \ {0} /\ \A i \in 1..Len(tx) : Begins(tx, i) => g.run < tx[i].run
      BY <2>0, <2>4 DEF RunInv, Agree, MessagesIn, HeardIn, RecordIn, RunType
    <3>3. H.run = head.run /\ H.kind = head.kind /\ H.left = head.left
      BY <2>0, <3>1, <3>2, AfterOld
    <3>4. Over(head)
      BY <2>0, <2>4, <3>1, <3>3, EndRight
    <3> QED BY <3>3, <3>4 DEF Over
  <2> HIDE DEF m, H
  <2>5. ~misled' /\ Knows(g, H) => Knows(g', H)
    <3>1. CASE p.kind = "none"
      BY <2>1, <2>3, <2>4, <3>1 DEF Knows
    <3>2. CASE p.kind # "none"
      BY <2>1, <3>2 DEF Knows, Wired
    <3> QED BY <3>1, <3>2
  <2>6. ~misled' /\ Knows(g, HeadAfter(head, tx)) => Knows(g', HeadAfter(head, tx \o q))
    BY <2>2, <2>5 DEF H
  <2> QED BY <2>1, <2>3, <2>6, KnowsSends
<1> QED BY <1>1, <1>2, <1>3 DEF Tick

LEMMA HandleKnows == ASSUME IInv, RunInv, KnowsInv, Handle PROVE KnowsInv'
<1> DEFINE H == HeadAfter(head, tx)
<1>0. /\ TypeOK /\ LinkInv /\ g \in RunType /\ head \in HeadType /\ tx \in Seq(OrderType)
      /\ H \in HeadType /\ (g.paused = 2 => g.kind = "focus")
  <2>1. TypeOK /\ LinkInv /\ g \in RunType /\ head \in HeadType /\ tx \in Seq(OrderType)
    BY DEF IInv, TypeOK
  <2> QED BY <2>1, HeadAfterIs DEF RunInv, Agree, RecordIn
<1>1. ASSUME NEW k \in AllKinds \cup {"preview"}, NEW n \in Int, NEW extra \in BOOLEAN,
             NEW t \in Int, NEW mode \in {0, 2},
             Transmit(StartOrders(k, n, extra)), UNCHANGED <<head, misled>>,
             g' = Begun(IF mode = 2 THEN "focus" ELSE k, t, mode), mode = 2 <=> k = "preview"
      PROVE  KnowsInv'
  <2> DEFINE s == StartOrders(k, n, extra)
  <2>1. /\ StartOf(s, k, runs + 1)
        /\ HeadAfter(head, tx \o s) = [kind |-> k, left |-> n, run |-> runs + 1, paused |-> FALSE]
    BY <1>0, StartSends
  <2>2. s \in Seq(OrderType)
    BY <2>1 DEF StartOf
  <2> HIDE DEF s
  <2>3. /\ g'.kind = (IF mode = 2 THEN "focus" ELSE k) /\ g'.run = runs + 1 /\ g'.paused = mode
        /\ Wired(g') = k
    <3>1. g'.kind = (IF mode = 2 THEN "focus" ELSE k) /\ g'.run = runs + 1 /\ g'.paused = mode
      BY <1>1 DEF Begun
    <3> QED BY <1>1, <3>1 DEF Wired
  <2>4. g'.kind # "none"
    BY <1>1, <2>3 DEF AllKinds
  <2>5. Knows(g', HeadAfter(head, tx \o s))
    <3> DEFINE b == HeadAfter(head, tx \o s)
    <3>1. b.kind = k /\ b.run = runs + 1 /\ b.paused = FALSE
      BY <2>1
    <3>2. g'.kind = "pano" => g'.paused = 0
      BY <1>1, <2>3
    <3> HIDE DEF b
    <3> QED BY <2>3, <2>4, <3>1, <3>2 DEF Knows, b
  <2>6. Transmit(s)
    BY <1>1 DEF s
  <2> QED BY <1>1, <2>2, <2>5, <2>6, KnowsSends
<1>2. CASE StartAny
  <2>1. ASSUME NEW k \in Kinds, NEW n \in Frames \cup {Unlimited}, NEW extra \in BOOLEAN,
               Start(k, n, extra)
        PROVE  KnowsInv'
    <3>1. /\ g' = Begun(k, Total(k, n), 0) /\ Transmit(StartOrders(k, n, extra))
          /\ UNCHANGED <<head, misled>>
      BY <2>1 DEF Start, news, env
    <3>2. k \in AllKinds \cup {"preview"} /\ k # "preview" /\ n \in Int
      BY KindAssumption, CountAssumption DEF AllKinds, Unlimited
    <3>3. Total(k, n) \in Int
      BY <3>2 DEF Total
    <3> QED BY <1>1, <3>1, <3>2, <3>3
  <2>2. ASSUME NEW n \in Frames, StartPreview(n) PROVE KnowsInv'
    <3>1. /\ g' = Begun("focus", n, 2) /\ Transmit(StartOrders("preview", n, FALSE))
          /\ UNCHANGED <<head, misled>>
      BY <2>2, Zenon DEF StartPreview, news, env
    <3>2. n \in Int /\ "preview" \in AllKinds \cup {"preview"} /\ FALSE \in BOOLEAN
      BY CountAssumption
    <3> QED BY <1>1, <3>1, <3>2
  <2> QED BY <1>2, <2>1, <2>2 DEF StartAny
<1>3. CASE Cancel
  <2> DEFINE w == IF g.paused = 2 THEN "preview" ELSE g.kind
             o == Order("cancel", w, 0, g.run)
  <2>1. g'.kind = "none" /\ Transmit(CancelOrders(g)) /\ UNCHANGED <<head, misled>>
    BY <1>3 DEF Cancel, Idle, news, env
  <2>2. CancelOrders(g) \in Seq(OrderType)
    BY <1>0, CancelOrdersAre
  <2>3. CASE g.kind = "none"
    <3>1. CancelOrders(g) = <<>>
      BY <2>3 DEF CancelOrders
    <3>2. tx \o CancelOrders(g) = tx
      BY <1>0, <3>1
    <3>3. Knows(g, H) => Knows(g', HeadAfter(head, tx \o CancelOrders(g)))
      BY <2>1, <2>3, <3>2 DEF Knows
    <3> QED BY <2>1, <2>2, <3>3, KnowsSends
  <2>4. CASE g.kind # "none"
    <3>1. CancelOrders(g) = <<o>>
      BY <2>4 DEF CancelOrders
    <3>2. o \in OrderType /\ o.what = "cancel" /\ o.kind = w
      <4>1. w \in AnyKind /\ g.run \in Nat /\ "cancel" \in Orders
        BY <1>0 DEF RunType, AnyKind, Orders
      <4> HIDE DEF w
      <4> QED BY <4>1, OrderIn DEF Order
    <3> HIDE DEF o
    <3>3. HeadAfter(head, tx \o <<o>>) = Obey(H, o)
      BY <1>0, <3>2, AfterConcat
    <3>4. ASSUME H.kind = Wired(g) PROVE Obey(H, o) = NoRun
      <4>1. H.kind = o.kind
        BY <3>2, <3>4 DEF Wired
      <4>2. Cancels(o, H)
        BY <3>2, <4>1 DEF Cancels
      <4> HIDE DEF H
      <4> QED BY <1>0, <3>2, <4>2, ObeyCases
    <3>5. Knows(g, H) => Knows(g', HeadAfter(head, tx \o <<o>>))
      <4> HIDE DEF H
      <4> QED BY <2>1, <2>4, <3>3, <3>4, NoRunStays DEF Knows, Over
    <3> QED BY <2>1, <2>2, <3>1, <3>5, KnowsSends
  <2> QED BY <2>3, <2>4
<1>4. ASSUME NEW on \in BOOLEAN, PanoPause(on) PROVE KnowsInv'
  <2> DEFINE o == Order(IF on THEN "pause" ELSE "resume", "pano", 0, g.run)
             n == IF on THEN 1 ELSE 0
             a == (o.what = "pause")
             q == <<o>>
  <2>1. /\ g.kind = "pano" /\ g' = [g EXCEPT !.paused = n] /\ Transmit(q)
        /\ UNCHANGED <<head, misled>>
    BY <1>4 DEF PanoPause, news, env
  <2>2. o \in OrderType /\ n \in {0, 1} /\ o.what \in {"pause", "resume"} /\ (a <=> n = 1)
    <3>1. o \in OrderType
      BY <1>0, PauseOrderIs
    <3>2. o.what = IF on THEN "pause" ELSE "resume"
      BY DEF Order
    <3> QED BY <3>1, <3>2
  <2> HIDE DEF o, n
  <2>3. g'.kind = "pano" /\ g'.run = g.run /\ g'.paused = n /\ Wired(g) = "pano" /\ Wired(g') = "pano"
    BY <1>0, <2>1, <2>2 DEF RunType, Wired
  <2>4. HeadAfter(head, tx \o q) = Obey(H, o) /\ q \in Seq(OrderType)
    BY <1>0, <2>2, AfterConcat
  <2> HIDE DEF H, q
  <2>5. ASSUME H.kind = "pano" PROVE Obey(H, o) = [H EXCEPT !.paused = a]
    BY <1>0, <2>2, <2>5, ObeyTurns
  <2>6. a \in BOOLEAN
    OBVIOUS
  <2> HIDE DEF a
  <2>7. ASSUME Knows(g, H) PROVE Knows(g', HeadAfter(head, tx \o q))
    <3>1. H.run = g.run /\ H.kind = "pano"
      BY <2>1, <2>3, <2>7 DEF Knows
    <3> DEFINE j == [H EXCEPT !.paused = a]
    <3>2. j.run = H.run /\ j.kind = H.kind /\ j.paused = a
      BY <1>0, <2>6 DEF HeadType
    <3>3. HeadAfter(head, tx \o q) = j
      BY <2>4, <2>5, <3>1
    <3> HIDE DEF j
    <3>4. j.paused <=> g'.paused = 1
      BY <2>2, <2>3, <3>2
    <3> QED BY <2>3, <3>1, <3>2, <3>3, <3>4 DEF Knows
  <2>8. Knows(g, HeadAfter(head, tx)) => Knows(g', HeadAfter(head, tx \o q))
    BY <2>7 DEF H
  <2> QED BY <2>1, <2>4, <2>8, KnowsSends
<1>5. ASSUME NEW d \in 0..HandleMax, NEW orders \in OtherOrders, OtherRequest(d, orders) PROVE KnowsInv'
  <2>1. Transmit(orders) /\ Aged(d) /\ UNCHANGED <<head, misled>> /\ d \in Nat
    BY <1>5, TimeAssumption DEF OtherRequest, news, env
  <2>2. g'.kind = g.kind /\ g'.run = g.run /\ g'.paused = g.paused
    BY <1>0, <2>1, AgedSame
  <2>3. HeadAfter(head, tx \o orders) = HeadAfter(head, tx)
    <3>1. /\ Order("extra", "none", 0, 0) \in OrderType
          /\ Order("extra", "none", 0, 0).what \notin {"begin", "cancel", "pause", "resume"}
      BY OrderIn DEF Orders, AnyKind, Order
    <3>2. orders = <<>> \/ orders = <<Order("extra", "none", 0, 0)>>
      BY DEF OtherOrders
    <3> QED BY <1>0, <3>1, <3>2, OtherAfter
  <2>4. Knows(g, HeadAfter(head, tx)) => Knows(g', HeadAfter(head, tx \o orders))
    BY <2>2, <2>3 DEF Knows, Wired
  <2> QED BY <2>1, <2>4, OthersBegin, KnowsSends
<1> QED BY <1>2, <1>3, <1>4, <1>5 DEF Handle

LEMMA HeadKnows ==
  ASSUME IInv, RunInv, KnowsInv, HeadReads \/ HeadShoots \/ HeadFails \/ HeadSilenced \/ Cut
  PROVE  KnowsInv'
<1>0. head \in HeadType /\ tx \in Seq(OrderType) /\ (head.kind = "none" => head.left = 0)
  BY DEF IInv, TypeOK, RunInv, Agree, SlotsIn
<1>1. CASE HeadReads
  <2>1. tx # <<>> /\ head' = Obey(head, Head(tx)) /\ tx' = Tail(tx) /\ UNCHANGED <<g, lost, misled>>
    BY <1>1 DEF HeadReads, history
  <2>2. HeadAfter(head', tx') = HeadAfter(head, tx)
    BY <1>0, <2>1, AfterTail
  <2> QED BY <2>1, <2>2 DEF KnowsInv
<1>2. CASE HeadShoots \/ HeadFails
  <2> DEFINE H == HeadAfter(head, tx)
  <2>1. PICK n \in Int : head' = [head EXCEPT !.left = n] /\ head.left > 0 /\ UNCHANGED <<tx, g, lost, misled>>
    <3>1. head.left - 1 \in Int /\ Failed \in Int
      BY <1>0 DEF HeadType, Failed
    <3> QED BY <1>2, <3>1 DEF HeadShoots, HeadFails, link, history
  <2>2. \/ HeadAfter(head', tx) = H
        \/ HeadAfter(head', tx) = [H EXCEPT !.left = n] /\ H.left = head.left /\ H.kind = head.kind
    BY <1>0, <2>1, AfterCount
  <2>3. H \in HeadType
    BY <1>0, HeadAfterIs
  <2> HIDE DEF H
  <2>4. ASSUME Knows(g, H) PROVE Knows(g, HeadAfter(head', tx))
    <3>1. CASE HeadAfter(head', tx) = H
      BY <2>4, <3>1
    <3>2. CASE HeadAfter(head', tx) = [H EXCEPT !.left = n] /\ H.left = head.left /\ H.kind = head.kind
      <4>1. g.kind # "none"
        BY <1>0, <2>1, <2>4, <3>2 DEF Knows, Over, Failed
      <4> DEFINE j == [H EXCEPT !.left = n]
      <4>2. j.run = H.run /\ j.kind = H.kind /\ j.paused = H.paused
        BY <2>3 DEF HeadType
      <4>3. HeadAfter(head', tx) = j
        BY <3>2
      <4> HIDE DEF j
      <4> QED BY <2>4, <4>1, <4>2, <4>3 DEF Knows
    <3> QED BY <2>2, <3>1, <3>2
  <2> QED BY <2>1, <2>4 DEF KnowsInv, H
<1>3. CASE HeadSilenced
  BY <1>3, KnowsSame DEF HeadSilenced, link, history
<1>4. CASE Cut
  BY <1>4, KnowsSame DEF Cut, env, history
<1> QED BY <1>1, <1>2, <1>3, <1>4

LEMMA NextKnows == IInv /\ RunInv /\ KnowsInv /\ [Next]_vars => KnowsInv'
<1>1. ASSUME IInv, KnowsInv, NEW d \in 0..IdleSleep, Select(d) PROVE KnowsInv'
  <2>1. d \in Nat /\ TypeOK /\ Aged(d) /\ UNCHANGED <<head, tx, lost, misled>>
    BY <1>1, TimeAssumption DEF IInv, Select, link, env
  <2>2. g'.kind = g.kind /\ g'.run = g.run /\ g'.paused = g.paused
    BY <2>1, AgedSame
  <2> QED BY <1>1, <2>1, <2>2, KnowsSame
<1>2. ASSUME KnowsInv, Pump PROVE KnowsInv'
  <2>1. CASE PumpIdle \/ PumpConnect \/ PumpFinish \/ PumpRead
    BY <1>2, <2>1, KnowsSame DEF PumpIdle, PumpConnect, PumpFinish, PumpRead, link, env, history
  <2>2. CASE PumpLost
    BY <2>2 DEF PumpLost, Disconnect, KnowsInv
  <2> QED BY <1>2, <2>1, <2>2 DEF Pump
<1>3. ASSUME IInv, RunInv, KnowsInv, Next PROVE KnowsInv'
  BY <1>1, <1>2, <1>3, TickKnows, HandleKnows, HeadKnows DEF Next
<1>4. ASSUME KnowsInv, UNCHANGED vars PROVE KnowsInv'
  BY <1>4, KnowsSame DEF vars, link, env, history
<1> QED BY <1>3, <1>4

\* Unless something is lost on the way or a message of another run is believed, the
\* head does the run the server tracks, and none that it does not: starts, polls,
\* pauses and cancels reach the same end whatever the head has read so far.
THEOREM ServerKnowsCorrect == Spec => []ServerKnows
<1>1. KnowsInv => ServerKnows
  BY DEF KnowsInv, Knows, ServerKnows
<1> QED BY <1>1, Invariant, RunsAgree, InitKnows, NextKnows, PTL DEF Spec

\* A run is dropped, on a message about that run, only when the head is done with it
\* (prog_tick, absorb_reply). A late message about an earlier run may still end it:
\* that is CompleteMeansDone, which TLC refutes.
THEOREM EndedByItsOwnCorrect == Spec => EndedByItsOwn
<1>1. IInv /\ RunInv /\ [Next]_vars =>
        [pc = "tick" /\ status = "UP" /\ g.kind # "none" /\ g'.kind = "none"
           /\ slot[Op(g.kind)].run = g.run
         => head.run # g.run \/ Over(head)]_vars
  <2> SUFFICES ASSUME IInv, RunInv, Next, pc = "tick", status = "UP", g.kind # "none", g'.kind = "none",
                      slot[Op(g.kind)].run = g.run, head.run = g.run
               PROVE  Over(head)
    OBVIOUS
  <2>1. TickUp
    BY DEF Next, Select, Pump, PumpIdle, PumpConnect, PumpFinish, PumpRead, PumpLost, Tick,
         TickIdle,
           TickDown, Handle, StartAny, Start, StartPreview, Cancel, PanoPause, OtherRequest,
           Cut, HeadReads, HeadShoots, HeadFails, HeadSilenced
  <2>2. Ends(g.kind, slot[Op(g.kind)])
    BY <2>1, TickUpIs
  <2> QED BY <2>2, EndRight
<1> QED BY <1>1, Invariant, RunsAgree, PTL DEF Spec, EndedByItsOwn
=============================================================================
