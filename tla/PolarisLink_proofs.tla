------------------------- MODULE PolarisLink_proofs -------------------------
(***************************************************************************)
(* Proofs about PolarisLink, for every choice of the delays, periods and   *)
(* buffer size, and that it implements LinkSession.                        *)
(***************************************************************************)
EXTENDS PolarisLink, SequenceTheorems, TLAPS

Kinds == {"reg", "beat", "cmd"}
Polite == {"nothing", "registered", "early beat", "late"}

\* A registration leads the queue: it stands before every command.
RegLeads(q) ==
  \E i \in 1..Len(q) : q[i] = "reg" /\ \A j \in 1..Len(q) : q[j] = "cmd" => i < j
NoCommand(q) == \A i \in 1..Len(q) : q[i] # "cmd"

\* What g_tx may hold.
TxInv ==
  /\ tx \in Seq(Kinds) /\ Len(tx) <= TxCap
  /\ status # "UP" => Len(tx) <= 2 /\ NoCommand(tx)
  /\ status = "UP" /\ Unregistered(greeting) => RegLeads(tx)
  /\ greeting \in Polite

\* A connection is open only while it is wanted.
WireInv ==
  /\ IF status = "DOWN" THEN wire = "none" ELSE want_open
  /\ status = "UP" => wire \in {"up", "reset"}

\* The receive clock runs ahead of the head's silence only by a frame that is
\* in the socket and has not been read.
ClockInv == status = "UP" => rx = "frame" \/ sinceRx <= mute

(***************************************************************************)
(* The transmit buffer.                                                    *)
(***************************************************************************)
LEMMA DueType == Due \in Seq(Kinds) /\ Len(Due) <= 2 /\ NoCommand(Due)
<1>1. CASE RegDue /\ BeatDue
  <2>1. Due = <<"reg">> \o <<"beat">>
    BY <1>1 DEF Due, If
  <2> QED BY <2>1 DEF NoCommand, Kinds
<1>2. CASE RegDue /\ ~BeatDue
  <2>1. Due = <<"reg">>
    BY <1>2 DEF Due, If
  <2> QED BY <2>1 DEF NoCommand, Kinds
<1>3. CASE ~RegDue /\ BeatDue
  <2>1. Due = <<"beat">>
    BY <1>3 DEF Due, If
  <2> QED BY <2>1 DEF NoCommand, Kinds
<1>4. CASE ~RegDue /\ ~BeatDue
  <2>1. Due = <<>>
    BY <1>4 DEF Due, If
  <2> QED BY <2>1 DEF NoCommand, Kinds
<1> QED BY <1>1, <1>2, <1>3, <1>4

\* tx_queue keeps what was queued and appends.
LEMMA QueueKeeps ==
  ASSUME NEW q \in Seq(Kinds), NEW f \in Seq(Kinds), Len(q) <= TxCap
  PROVE  /\ Queue(q, f) \in Seq(Kinds)
         /\ Len(Queue(q, f)) <= TxCap /\ Len(Queue(q, f)) >= Len(q)
         /\ \A i \in 1..Len(q) : Queue(q, f)[i] = q[i]
         /\ \A i \in 1..Len(Queue(q, f)) : i > Len(q) =>
              i - Len(q) \in 1..Len(f) /\ Queue(q, f)[i] = f[i - Len(q)]
         /\ Len(q) + Len(f) <= TxCap => Len(Queue(q, f)) = Len(q) + Len(f)
<1> DEFINE c == q \o f
           n == Capped(Len(q) + Len(f), TxCap)
<1>1. /\ c \in Seq(Kinds) /\ Len(c) = Len(q) + Len(f) /\ Len(q) \in Nat /\ Len(f) \in Nat
      /\ \A i \in 1..Len(q) : c[i] = q[i]
      /\ \A i \in 1..Len(f) : c[i + Len(q)] = f[i]
  OBVIOUS
<1>2. /\ n \in Nat /\ n <= TxCap /\ n <= Len(c) /\ n >= Len(q)
      /\ Len(q) + Len(f) <= TxCap => n = Len(q) + Len(f)
  BY <1>1, TxAssumption DEF Capped
<1>3. Queue(q, f) = SubSeq(c, 1, n)
  BY DEF Queue
<1> HIDE DEF c, n
<1>4. /\ SubSeq(c, 1, n) \in Seq(Kinds) /\ Len(SubSeq(c, 1, n)) = n
      /\ \A i \in 1..n : SubSeq(c, 1, n)[i] = c[i]
  BY <1>1, <1>2, SubSeqProperties
<1>5. \A i \in 1..n : i > Len(q) => i - Len(q) \in 1..Len(f) /\ c[i] = f[i - Len(q)]
  <2> SUFFICES ASSUME NEW i \in 1..n, i > Len(q)
               PROVE  i - Len(q) \in 1..Len(f) /\ c[i] = f[i - Len(q)]
    OBVIOUS
  <2>1. i - Len(q) \in 1..Len(f) /\ (i - Len(q)) + Len(q) = i
    BY <1>1, <1>2
  <2> QED BY <1>1, <2>1
<1> QED BY <1>1, <1>2, <1>3, <1>4, <1>5

\* A registration that leads the queue still does after more is queued.
LEMMA QueueLeads ==
  ASSUME NEW q \in Seq(Kinds), NEW f \in Seq(Kinds), Len(q) <= TxCap, RegLeads(q)
  PROVE  RegLeads(Queue(q, f))
<1>1. PICK i \in 1..Len(q) : q[i] = "reg" /\ \A j \in 1..Len(q) : q[j] = "cmd" => i < j
  BY DEF RegLeads
<1>2. /\ i \in 1..Len(Queue(q, f)) /\ Queue(q, f)[i] = "reg"
      /\ Len(q) \in Nat /\ Len(Queue(q, f)) \in Nat
  BY <1>1, QueueKeeps
<1>3. ASSUME NEW j \in 1..Len(Queue(q, f)), Queue(q, f)[j] = "cmd" PROVE i < j
  <2>1. CASE j <= Len(q)
    <3>1. j \in 1..Len(q) /\ q[j] = "cmd"
      BY <1>2, <1>3, <2>1, QueueKeeps
    <3> QED BY <3>1, <1>1
  <2>2. CASE j > Len(q)
    BY <2>2, <1>1, <1>2
  <2> QED BY <2>1, <2>2, <1>2
<1> QED BY <1>2, <1>3 DEF RegLeads

\* The first registration makes it lead.
LEMMA RegisterLeads ==
  ASSUME NEW q \in Seq(Kinds), Len(q) <= 2, NoCommand(q)
  PROVE  RegLeads(Queue(q, <<"reg">>))
<1> DEFINE r == Queue(q, <<"reg">>)
<1>1. <<"reg">> \in Seq(Kinds) /\ Len(<<"reg">>) = 1 /\ Len(q) \in Nat
  BY DEF Kinds
<1>2. /\ Len(r) = Len(q) + 1 /\ r \in Seq(Kinds)
      /\ \A i \in 1..Len(q) : r[i] = q[i]
      /\ r[Len(q) + 1] = "reg"
  <2>1. Len(q) <= TxCap /\ Len(q) + 1 <= TxCap
    BY <1>1, TxAssumption
  <2>2. Len(r) = Len(q) + 1 /\ r \in Seq(Kinds) /\ \A i \in 1..Len(q) : r[i] = q[i]
    BY <1>1, <2>1, QueueKeeps
  <2>3. Len(q) + 1 \in 1..Len(r) /\ (Len(q) + 1) - Len(q) = 1 /\ Len(q) + 1 > Len(q)
    BY <1>1, <2>2
  <2>4. <<"reg">>[1] = "reg" /\ r[Len(q) + 1] = <<"reg">>[(Len(q) + 1) - Len(q)]
    BY <1>1, <2>1, <2>3, QueueKeeps
  <2> QED BY <2>2, <2>3, <2>4
<1> HIDE DEF r
<1>3. \A j \in 1..Len(r) : r[j] # "cmd"
  BY <1>1, <1>2 DEF NoCommand
<1>4. Len(q) + 1 \in 1..Len(r)
  BY <1>1, <1>2
<1>5. RegLeads(r)
  BY <1>2, <1>3, <1>4 DEF RegLeads
<1> QED BY <1>5 DEF r

\* tx_drain: whatever prefix F of the queue the head has taken, a command was
\* not first, and if it is still unregistered a registration leads the rest.
LEMMA SplitKeeps ==
  ASSUME NEW q \in Seq(Kinds), NEW F \in Seq(Kinds), NEW r \in Seq(Kinds), NEW n \in Nat,
         n <= Len(q), Len(F) = n, Len(r) = Len(q) - n,
         \A i \in 1..n : F[i] = q[i], \A i \in 1..Len(r) : r[i] = q[i + n],
         NEW g \in Polite, Unregistered(g) => RegLeads(q)
  PROVE  /\ Heard(g, F) \in Polite
         /\ Unregistered(Heard(g, F)) => RegLeads(r)
<1>1. Len(q) \in Nat
  OBVIOUS
<1>2. CASE ~Unregistered(g)
  BY <1>2 DEF Heard
<1>3. CASE Unregistered(g)
  <2>1. PICK k \in 1..Len(q) : q[k] = "reg" /\ \A j \in 1..Len(q) : q[j] = "cmd" => k < j
    BY <1>3 DEF RegLeads
  <2>2. ~CommandFirst(F)
    <3> SUFFICES ASSUME NEW i \in 1..n, F[i] = "cmd", \A j \in 1..(i-1) : F[j] # "reg"
                 PROVE  FALSE
      BY DEF CommandFirst
    <3>1. q[i] = "cmd" /\ i \in 1..Len(q) /\ k < i
      BY <1>1, <2>1
    <3>2. k \in 1..(i-1) /\ F[k] = "reg"
      BY <1>1, <2>1, <3>1
    <3> QED BY <3>2
  <2>3. Heard(g, F) \in Polite
    BY <1>3, <2>2, Zenon DEF Heard, Polite
  <2>4. CASE k <= n
    <3>1. k \in 1..Len(F) /\ F[k] = "reg" /\ F # <<>>
      BY <1>1, <2>1, <2>4
    <3>2. ~Unregistered(Heard(g, F))
      BY <1>3, <2>2, <3>1 DEF Heard, Unregistered
    <3> QED BY <2>3, <3>2
  <2>5. CASE k > n
    <3>1. k - n \in 1..Len(r) /\ r[k - n] = "reg"
      BY <1>1, <2>1, <2>5
    <3>2. ASSUME NEW j \in 1..Len(r), r[j] = "cmd" PROVE k - n < j
      <4>1. j + n \in 1..Len(q) /\ q[j + n] = "cmd"
        BY <1>1, <3>2
      <4> QED BY <4>1, <1>1, <2>1
    <3> QED BY <2>3, <3>1, <3>2 DEF RegLeads
  <2> QED BY <1>1, <2>1, <2>4, <2>5
<1> QED BY <1>2, <1>3

LEMMA DrainKeeps ==
  ASSUME NEW q \in Seq(Kinds), NEW g \in Polite,
         Unregistered(g) => RegLeads(q), NEW n \in 0..Len(q),
         NEW F, F = SubSeq(q, 1, n), NEW r, r = SubSeq(q, n + 1, Len(q))
  PROVE  /\ Heard(g, F) \in Polite
         /\ Unregistered(Heard(g, F)) => RegLeads(r)
         /\ r \in Seq(Kinds) /\ Len(r) <= Len(q)
<1>1. Len(q) \in Nat /\ n \in Nat /\ n <= Len(q)
  OBVIOUS
<1>2. F \in Seq(Kinds) /\ Len(F) = n /\ \A i \in 1..n : F[i] = q[i]
  BY <1>1
<1>3. r \in Seq(Kinds) /\ Len(r) = Len(q) - n /\ \A i \in 1..Len(r) : r[i] = q[i + n]
  BY <1>1
<1>4. Len(r) <= Len(q)
  BY <1>1, <1>3
<1> QED BY <1>1, <1>2, <1>3, <1>4, SplitKeeps

\* The same of the action, to a head that has heard g.
LEMMA DrainToStep ==
  ASSUME NEW q \in Seq(Kinds), Len(q) <= TxCap, NEW g \in Polite,
         Unregistered(g) => RegLeads(q), status' = "UP", DrainTo(q, g)
  PROVE  TxInv'
<1>1. PICK n \in 0..Len(q) : /\ tx' = SubSeq(q, n + 1, Len(q))
                             /\ greeting' = Heard(g, SubSeq(q, 1, n))
  BY DEF DrainTo
<1>2. /\ greeting' \in Polite
      /\ Unregistered(greeting') => RegLeads(tx')
      /\ tx' \in Seq(Kinds) /\ Len(tx') <= Len(q)
  BY <1>1, DrainKeeps
<1>3. Len(q) \in Nat /\ Len(tx') \in Nat
  BY <1>2
<1>4. Len(tx') <= TxCap
  BY <1>2, <1>3, TxAssumption
<1> QED BY <1>2, <1>4 DEF TxInv

LEMMA DrainStep ==
  ASSUME NEW q \in Seq(Kinds), Len(q) <= TxCap, TxInv,
         Unregistered(greeting) => RegLeads(q), status' = "UP", Drain(q)
  PROVE  TxInv'
BY DrainToStep DEF Drain, TxInv

\* Some of q is written and f queued behind the rest.
LEMMA DrainQueue ==
  ASSUME NEW q \in Seq(Kinds), Len(q) <= TxCap, NEW g \in Polite,
         Unregistered(g) => RegLeads(q), NEW n \in 0..Len(q),
         NEW f \in Seq(Kinds), NEW h, h = Heard(g, SubSeq(q, 1, n)),
         NEW r, r = Queue(SubSeq(q, n + 1, Len(q)), f)
  PROVE  /\ h \in Polite /\ (Unregistered(h) => RegLeads(r))
         /\ r \in Seq(Kinds) /\ Len(r) <= TxCap
<1> DEFINE s == SubSeq(q, n + 1, Len(q))
<1>1. h \in Polite /\ (Unregistered(h) => RegLeads(s)) /\ s \in Seq(Kinds) /\ Len(s) <= Len(q)
  BY DrainKeeps
<1> HIDE DEF s
<1>2. Len(s) <= TxCap
  BY <1>1, TxAssumption
<1>3. r = Queue(s, f)
  BY DEF s
<1> QED BY <1>1, <1>2, <1>3, QueueKeeps, QueueLeads

\* A frame that may be due.
LEMMA IfType == ASSUME NEW c, NEW k \in Kinds PROVE If(c, <<k>>) \in Seq(Kinds)
BY DEF If

\* A buffer that is empty, or holds what was due when a write failed.
LEMMA LeftStep ==
  ASSUME TxInv, status' = "DOWN", greeting' = greeting,
         tx' \in Seq(Kinds), Len(tx') <= 2, NoCommand(tx')
  PROVE  TxInv'
<1>1. Len(tx') \in Nat /\ Len(tx') <= TxCap
  BY TxAssumption
<1> QED BY <1>1 DEF TxInv

LEMMA EmptyLeft == <<>> \in Seq(Kinds) /\ Len(<<>>) <= 2 /\ NoCommand(<<>>)
BY DEF NoCommand

LEMMA BeatLeft ==
  LET q == If(BeatDue, <<"beat">>)
  IN  q \in Seq(Kinds) /\ Len(q) <= 2 /\ NoCommand(q)
<1>1. CASE BeatDue
  BY <1>1 DEF NoCommand, Kinds, If
<1>2. CASE ~BeatDue
  BY <1>2, EmptyLeft DEF If
<1> QED BY <1>1, <1>2

(***************************************************************************)
(* The timers and the flags.                                               *)
(***************************************************************************)
Timers ==
  /\ toTry \in 0..BackoffMax /\ backoff \in BackoffMin..BackoffMax
  /\ sinceReg \in 0..(RegEvery + 1) /\ sinceBeat \in 0..(BeatEvery + 1)
  /\ sinceRx \in 0..(Silence + 1)
  /\ quiet \in 0..(Silence + 1) /\ mute \in 0..(Silence + 1)
  /\ failures \in 0..2 /\ sinceEnd \in 0..Limit
Flags ==
  /\ wanted \in BOOLEAN /\ asked \in {"unset", "yes", "no"} /\ want_open \in BOOLEAN
  /\ status \in {"DOWN", "CONNECTING", "UP"}
  /\ net \in BOOLEAN /\ wire \in {"none", "pending", "refused", "up", "reset"}
  /\ rx \in {"nothing", "echo", "frame"}
StateInv == Timers /\ Flags /\ WireInv /\ ClockInv /\ OpenAsAsked

LEMMA CappedType ==
  /\ \A cap \in Nat : \A t \in 0..(cap + 1) : Ages(t, cap) \in 0..(cap + 1)
  /\ \A b \in BackoffMin..BackoffMax : Capped(2 * b, BackoffMax) \in BackoffMin..BackoffMax
  /\ \A b \in BackoffMin..BackoffMax : b \in 0..BackoffMax
  /\ \A n \in 0..2 : Capped(n + 1, 2) \in 0..2
  /\ Limit \in Nat /\ \A t \in 0..Limit : Capped(t + 1, Limit) \in 0..Limit
BY TimesAssumption DEF Ages, Capped, Limit

LEMMA FailTimers ==
  ASSUME Timers, Failed
  PROVE  /\ failures' \in 0..2 /\ sinceEnd' \in 0..Limit
         /\ Delay => toTry' \in 0..BackoffMax /\ backoff' \in BackoffMin..BackoffMax
<1>1. failures' \in 0..2
  BY CappedType DEF Timers, Failed
<1>2. sinceEnd' \in 0..Limit
  BY CappedType DEF Timers, Failed
<1>3. Delay => toTry' \in 0..BackoffMax /\ backoff' \in BackoffMin..BackoffMax
  BY CappedType DEF Timers, Delay
<1> QED BY <1>1, <1>2, <1>3

LEMMA StateStep == StateInv /\ Next => StateInv'
<1> SUFFICES ASSUME StateInv, Next PROVE StateInv'
  OBVIOUS
<1> USE DEF StateInv
<1>1. HeardAge \in 0..(Silence + 1) /\ (rx # "frame" => HeardAge = sinceRx)
      /\ (rx = "frame" => HeardAge = 0)
  BY TimesAssumption DEF HeardAge, Timers
<1>2. CASE Reconcile
  <2>1. Limit \in 0..Limit /\ BackoffMin \in BackoffMin..BackoffMax /\ 0 \in 0..BackoffMax
    BY CappedType, TimesAssumption
  <2>2. Timers'
    BY <1>2, <2>1 DEF Reconcile, timers, retry, Timers
  <2> QED BY <1>2, <2>2 DEF Reconcile, timers, Flags, WireInv, ClockInv, OpenAsAsked
<1>3. CASE ReconcileClose
  BY <1>3 DEF ReconcileClose, Closed, timers, retry, history,
              Timers, Flags, WireInv, ClockInv, OpenAsAsked
<1>4. CASE PumpTry
  BY <1>4, FailTimers DEF PumpTry, Drop, Closed, policy, timers, retry, Timers, Flags, WireInv,
              ClockInv, OpenAsAsked
<1>5. CASE PumpRefused \/ PumpReadFails
  BY <1>5, FailTimers DEF PumpRefused, PumpReadFails, Drop, Closed, policy, timers,
              Timers, Flags, WireInv, ClockInv, OpenAsAsked
<1>6. CASE PumpUp
  BY <1>6, TimesAssumption DEF PumpUp, policy, history, Timers, Flags, WireInv, ClockInv,
              OpenAsAsked
<1>7. CASE PumpUpFails
  <2>1. Timers'
    BY <1>7, FailTimers, TimesAssumption DEF PumpUpFails, WriteFault, Timers
  <2> QED BY <1>7, <2>1 DEF PumpUpFails, WriteFault, Closed, Flags, WireInv, ClockInv, OpenAsAsked
<1>8. CASE PumpServe
  <2>1. Timers'
    BY <1>8, <1>1, TimesAssumption DEF PumpServe, Served, retry, Timers
  <2>2. ClockInv'
    BY <1>8, <1>1, TimesAssumption DEF PumpServe, Served, ClockInv, Timers
  <2> QED BY <1>8, <2>1, <2>2 DEF PumpServe, Served, policy, Flags, WireInv, OpenAsAsked
<1>9. CASE PumpSilent
  <2>1. Timers'
    BY <1>9, <1>1, FailTimers, TimesAssumption DEF PumpSilent, Drop, Served, Timers
  <2> QED BY <1>9, <2>1 DEF PumpSilent, Drop, Closed, Served, policy, Flags, WireInv, ClockInv,
              OpenAsAsked
<1>10. CASE PumpWriteFails
  <2>1. Timers'
    BY <1>10, <1>1, FailTimers, TimesAssumption DEF PumpWriteFails, WriteFault, retry, Timers
  <2> QED BY <1>10, <2>1 DEF PumpWriteFails, WriteFault, Closed, Flags, WireInv, ClockInv,
              OpenAsAsked
<1>11. CASE Send
  BY <1>11 DEF Send, policy, retry, timers, history, Timers, Flags, WireInv, ClockInv, OpenAsAsked
<1>12. CASE SendFull
  BY <1>12 DEF SendFull, vars, policy, retry, timers, history, Timers, Flags, WireInv, ClockInv,
              OpenAsAsked
<1>13. CASE SendFails
  <2>1. Timers'
    BY <1>13, FailTimers DEF SendFails, WriteFault, retry, timers, Timers
  <2> QED BY <1>13, <2>1 DEF SendFails, WriteFault, Closed, Flags, WireInv, ClockInv, OpenAsAsked
<1>14. CASE PolicyChanges
  BY <1>14 DEF PolicyChanges, retry, timers, history, Timers, Flags, WireInv, ClockInv, OpenAsAsked
<1>15. CASE Elapse
  <2>1. Timers'
    BY <1>15, CappedType, TimesAssumption DEF Elapse, Timers
  <2>2. ClockInv'
    BY <1>15, TimesAssumption DEF Elapse, ClockInv, Timers, Ages, Capped
  <2> QED BY <1>15, <2>1, <2>2 DEF Elapse, policy, Flags, WireInv, OpenAsAsked
<1>16. CASE NetChanges
  BY <1>16 DEF NetChanges, policy, retry, timers, history, Timers, Flags, WireInv, ClockInv,
              OpenAsAsked
<1>17. CASE Connected
  BY <1>17, TimesAssumption DEF Connected, policy, retry, timers, Timers, Flags, WireInv,
              ClockInv, OpenAsAsked
<1>18. CASE Refused \/ Reset
  BY <1>18 DEF Refused, Reset, policy, retry, timers, history, Timers, Flags, WireInv, ClockInv,
              OpenAsAsked
<1>19. CASE HeadSpeaks \/ HeadEchoes
  BY <1>19, TimesAssumption DEF HeadSpeaks, HeadEchoes, HeadSends, policy, retry, timers,
              Timers, Flags, WireInv, ClockInv, OpenAsAsked
<1> QED
  BY <1>2, <1>3, <1>4, <1>5, <1>6, <1>7, <1>8, <1>9, <1>10, <1>11, <1>12, <1>13, <1>14, <1>15,
     <1>16, <1>17, <1>18, <1>19 DEF Next, Pump

LEMMA TxStep == StateInv /\ TxInv /\ Next => TxInv'
<1> SUFFICES ASSUME StateInv, TxInv, Next PROVE TxInv'
  OBVIOUS
<1>1. tx \in Seq(Kinds) /\ Len(tx) <= TxCap
  BY DEF TxInv
<1>2. CASE tx' = tx /\ greeting' = greeting /\ status' = status
  BY <1>2 DEF TxInv
<1>3. ASSUME status' = "DOWN", greeting' = greeting, tx' = <<>> PROVE TxInv'
  BY <1>3, LeftStep, EmptyLeft
<1>4. CASE PumpTry
  <2>1. CASE Drop /\ UNCHANGED greeting
    BY <2>1, <1>3 DEF Drop, Closed
  <2>2. CASE status' = "CONNECTING" /\ greeting' = "nothing" /\ tx' = tx
    BY <1>4, <2>2 DEF PumpTry, TxInv, Polite
  <2> QED BY <1>4, <2>1, <2>2 DEF PumpTry
<1>5. CASE ReconcileClose \/ PumpRefused \/ PumpReadFails \/ PumpSilent
  BY <1>3, <1>5 DEF ReconcileClose, PumpRefused, PumpReadFails, PumpSilent, Drop, Closed
<1>6. CASE PumpUp
  <2>1. status = "CONNECTING" /\ Drain(Queue(tx, <<"reg">>)) /\ status' = "UP"
    BY <1>6 DEF PumpUp
  <2>2. <<"reg">> \in Seq(Kinds)
    BY DEF Kinds
  <2>3. Len(tx) <= 2 /\ NoCommand(tx)
    BY <2>1 DEF TxInv
  <2>4. Queue(tx, <<"reg">>) \in Seq(Kinds) /\ Len(Queue(tx, <<"reg">>)) <= TxCap
    BY <1>1, <2>2, QueueKeeps
  <2>5. RegLeads(Queue(tx, <<"reg">>))
    BY <1>1, <2>3, RegisterLeads
  <2> QED BY <2>1, <2>4, <2>5, DrainStep
<1>7. CASE PumpUpFails \/ SendFails
  BY <1>3, <1>7 DEF PumpUpFails, SendFails, WriteFault, Closed
<1>8. CASE PumpServe
  <2> DEFINE reg == If(RegDue, <<"reg">>)
             beat == If(BeatDue, <<"beat">>)
  <2>1. status = "UP" /\ status' = "UP" /\ DrainDue
    BY <1>8 DEF PumpServe
  <2>2. PICK n \in 0..Len(tx) :
          \E q \in {Queue(SubSeq(tx, n + 1, Len(tx)), reg)} :
          \E g \in {Heard(greeting, SubSeq(tx, 1, n))} :
          \E k \in 0..Len(q) :
            DrainTo(Queue(SubSeq(q, k + 1, Len(q)), beat), Heard(g, SubSeq(q, 1, k)))
    BY <2>1, Zenon DEF DrainDue
  <2>3. PICK q \in {Queue(SubSeq(tx, n + 1, Len(tx)), reg)} :
          \E g \in {Heard(greeting, SubSeq(tx, 1, n))} :
          \E k \in 0..Len(q) :
            DrainTo(Queue(SubSeq(q, k + 1, Len(q)), beat), Heard(g, SubSeq(q, 1, k)))
    BY <2>2, Zenon
  <2>4. PICK g \in {Heard(greeting, SubSeq(tx, 1, n))} :
          \E k \in 0..Len(q) :
            DrainTo(Queue(SubSeq(q, k + 1, Len(q)), beat), Heard(g, SubSeq(q, 1, k)))
    BY <2>3, Zenon
  <2>5. reg \in Seq(Kinds) /\ beat \in Seq(Kinds)
    BY IfType DEF Kinds
  <2> HIDE DEF reg, beat
  <2>6. greeting \in Polite /\ (Unregistered(greeting) => RegLeads(tx))
    BY <2>1 DEF TxInv
  <2>7. /\ g \in Polite /\ (Unregistered(g) => RegLeads(q))
        /\ q \in Seq(Kinds) /\ Len(q) <= TxCap
    BY <1>1, <2>3, <2>4, <2>5, <2>6, DrainQueue
  <2>8. PICK k \in 0..Len(q) :
          DrainTo(Queue(SubSeq(q, k + 1, Len(q)), beat), Heard(g, SubSeq(q, 1, k)))
    BY <2>4, Zenon
  <2>9. PICK r \in {Queue(SubSeq(q, k + 1, Len(q)), beat)} : DrainTo(r, Heard(g, SubSeq(q, 1, k)))
    BY <2>8, Zenon
  <2>10. PICK h \in {Heard(g, SubSeq(q, 1, k))} : DrainTo(r, h)
    BY <2>9, Zenon
  <2>11. /\ h \in Polite /\ (Unregistered(h) => RegLeads(r))
         /\ r \in Seq(Kinds) /\ Len(r) <= TxCap
    BY <2>5, <2>7, DrainQueue
  <2> QED BY <2>1, <2>10, <2>11, DrainToStep
<1>9. CASE PumpWriteFails
  <2>1. /\ status' = "DOWN" /\ greeting' = greeting
        /\ tx' = Due \/ tx' = If(BeatDue, <<"beat">>) \/ tx' = <<>>
    BY <1>9 DEF PumpWriteFails, WriteFault, Closed
  <2> QED BY <2>1, LeftStep, DueType, BeatLeft, EmptyLeft
<1>10. CASE Send
  <2>1. status = "UP" /\ status' = "UP" /\ Drain(Append(tx, "cmd")) /\ Len(tx) < TxCap
    BY <1>10 DEF Send
  <2>2. /\ Append(tx, "cmd") \in Seq(Kinds) /\ Len(Append(tx, "cmd")) = Len(tx) + 1
        /\ Len(tx) \in Nat
        /\ \A i \in 1..Len(tx) : Append(tx, "cmd")[i] = tx[i]
    BY <1>1 DEF Kinds
  <2>3. Len(Append(tx, "cmd")) <= TxCap
    BY <2>1, <2>2, TxAssumption
  <2>4. ASSUME Unregistered(greeting) PROVE RegLeads(Append(tx, "cmd"))
    <3>1. PICK i \in 1..Len(tx) : tx[i] = "reg" /\ \A j \in 1..Len(tx) : tx[j] = "cmd" => i < j
      BY <2>1, <2>4 DEF TxInv, RegLeads
    <3>2. i \in 1..(Len(tx) + 1) /\ Append(tx, "cmd")[i] = "reg"
      BY <2>2, <3>1
    <3>3. \A j \in 1..(Len(tx) + 1) : Append(tx, "cmd")[j] = "cmd" => i < j
      BY <2>2, <3>1
    <3> QED BY <2>2, <3>2, <3>3 DEF RegLeads
  <2> QED BY <2>1, <2>2, <2>3, <2>4, DrainStep
<1>11. CASE Reconcile \/ SendFull \/ PolicyChanges \/ Elapse \/ NetChanges \/ Connected \/ Refused
              \/ Reset \/ HeadSpeaks \/ HeadEchoes
  BY <1>2, <1>11 DEF Reconcile, SendFull, PolicyChanges, Elapse, NetChanges, Connected, Refused,
              Reset, HeadSpeaks, HeadEchoes, HeadSends, vars
<1> QED
  BY <1>4, <1>5, <1>6, <1>7, <1>8, <1>9, <1>10, <1>11 DEF Next, Pump

Invariant == StateInv /\ TxInv

LEMMA InvariantInit == Init => Invariant
<1> SUFFICES ASSUME Init PROVE Invariant
  OBVIOUS
<1>1. Timers
  <2>1. Limit \in 0..Limit
    BY CappedType
  <2> QED BY <2>1, TimesAssumption DEF Init, Timers
<1>2. Flags /\ WireInv /\ ClockInv /\ OpenAsAsked
  BY DEF Init, Flags, WireInv, ClockInv, OpenAsAsked
<1>3. TxInv
  BY EmptyLeft, TxAssumption DEF Init, TxInv, Polite
<1> QED BY <1>1, <1>2, <1>3 DEF Invariant, StateInv

LEMMA InvariantStep == Invariant /\ [Next]_vars => Invariant'
<1>1. Invariant /\ UNCHANGED vars => Invariant'
  BY DEF Invariant, StateInv, TxInv, vars, policy, retry, timers, history, Timers, Flags, WireInv,
         ClockInv, OpenAsAsked
<1>2. Invariant /\ Next => Invariant'
  BY StateStep, TxStep DEF Invariant
<1> QED BY <1>1, <1>2

LEMMA InvariantAlways == Spec => []Invariant
BY InvariantInit, InvariantStep, PTL DEF Spec

\* What the registration of a new connection leaves holds no command.
LEMMA RegisterQuiet ==
  ASSUME NEW q \in Seq(Kinds), Len(q) <= TxCap, NoCommand(q), Drain(Queue(q, <<"reg">>))
  PROVE  NoCommand(tx')
<1> DEFINE r == Queue(q, <<"reg">>)
<1>1. <<"reg">> \in Seq(Kinds) /\ Len(<<"reg">>) = 1 /\ <<"reg">>[1] = "reg" /\ Len(q) \in Nat
  BY DEF Kinds
<1>2. /\ r \in Seq(Kinds)
      /\ \A i \in 1..Len(q) : r[i] = q[i]
      /\ \A i \in 1..Len(r) : i > Len(q) => i - Len(q) \in 1..1 /\ r[i] = <<"reg">>[i - Len(q)]
  BY <1>1, QueueKeeps
<1>3. PICK n \in 0..Len(r) : tx' = SubSeq(r, n + 1, Len(r))
  BY DEF Drain, DrainTo
<1> HIDE DEF r
<1>4. NoCommand(r)
  <2> SUFFICES ASSUME NEW i \in 1..Len(r) PROVE r[i] # "cmd"
    BY DEF NoCommand
  <2>1. CASE i <= Len(q)
    BY <1>1, <1>2, <2>1 DEF NoCommand
  <2>2. CASE i > Len(q)
    <3>1. i - Len(q) = 1
      BY <1>1, <1>2, <2>2
    <3> QED BY <1>1, <1>2, <2>2, <3>1
  <2> QED BY <1>1, <2>1, <2>2
<1>5. /\ Len(r) \in Nat /\ Len(tx') = Len(r) - n
      /\ \A i \in 1..Len(tx') : tx'[i] = r[i + n] /\ i + n \in 1..Len(r)
  BY <1>2, <1>3
<1> QED BY <1>4, <1>5 DEF NoCommand

(***************************************************************************)
(* The theorems.                                                           *)
(***************************************************************************)
\* Every variable keeps its type; the buffer never holds more than TxCap.
THEOREM TypeCorrect == Spec => []TypeOK
<1>1. Polite \subseteq Greetings /\ Kinds = {"reg", "beat", "cmd"}
  BY DEF Polite, Greetings, Kinds
<1>2. Invariant => TypeOK
  BY <1>1 DEF Invariant, StateInv, Timers, Flags, TxInv, TypeOK
<1> QED BY <1>2, InvariantAlways, PTL

\* No fault and no order of faults, opens and closes turns the link off for
\* good, or leaves it on when it was closed.
THEOREM OpenAsAskedCorrect == Spec => []OpenAsAsked
<1>1. Invariant => OpenAsAsked
  BY DEF Invariant, StateInv
<1> QED BY <1>1, InvariantAlways, PTL

\* A command of one session is never in the buffer of another.
THEOREM NoStaleCommandCorrect == Spec => []NoStaleCommand
<1>1. Invariant => NoStaleCommand
  BY DEF Invariant, TxInv, NoCommand, NoStaleCommand
<1> QED BY <1>1, InvariantAlways, PTL

\* The head never hears a command on a connection before a registration.
THEOREM RegisteredFirstCorrect == Spec => []RegisteredBeforeCommand
<1>1. Invariant => RegisteredBeforeCommand
  BY DEF Invariant, TxInv, Polite, RegisteredBeforeCommand
<1> QED BY <1>1, InvariantAlways, PTL

\* The watchdog never cuts a connection on which the head has spoken lately.
THEOREM WatchdogCorrect == Spec => WatchdogWaits
<1>1. Invariant /\ [Next]_vars
        => [status = "UP" /\ status' = "DOWN" /\ wire = "up" /\ want_open'
              => mute > Silence]_vars
  <2> SUFFICES ASSUME Invariant, Next, status = "UP", status' = "DOWN", wire = "up", want_open'
               PROVE  mute > Silence
    BY DEF vars
  <2>1. PumpSilent
    BY DEF Next, Pump, Reconcile, ReconcileClose, PumpTry, PumpRefused, PumpUp, PumpUpFails,
           PumpReadFails, PumpServe, PumpWriteFails, Send, SendFull, SendFails, PolicyChanges,
           Elapse, NetChanges, Connected, Refused, Reset, HeadSpeaks, HeadEchoes, HeadSends, vars
  <2>2. rx # "frame" /\ sinceRx > Silence
    BY <2>1, TimesAssumption DEF PumpSilent, HeardAge
  <2> QED BY <2>2, TimesAssumption DEF Invariant, StateInv, ClockInv, Timers
<1> QED BY <1>1, InvariantAlways, PTL DEF Spec, WatchdogWaits

\* The link its users see: LinkSession.
THEOREM LinkImplementsSession == Spec => ImplementsSession
<1> DEFINE held == \E i \in 1..Len(tx) : tx[i] = "cmd"
<1>1. Init => Session!Init
  BY DEF Init, Session!Init
<1>2. Invariant /\ [Next]_vars => [Session!Next]_(Session!vars)
  <2> SUFFICES ASSUME Invariant, [Next]_vars PROVE [Session!Next]_(Session!vars)
    OBVIOUS
  <2> USE DEF Session!Next, Session!vars
  <2>1. /\ status # "UP" => ~held
        /\ tx' \in Seq(Kinds)
    BY InvariantStep DEF Invariant, TxInv, NoCommand
  <2>2. status' = "DOWN" => ~held'
    BY InvariantStep DEF Invariant, TxInv, NoCommand
  <2>3. CASE status' = "DOWN"
    BY <2>2, <2>3 DEF Session!End
  <2>4. CASE status = "UP" /\ status' = "UP"
    BY <2>4 DEF Session!Accept
  <2>5. CASE tx' = tx /\ status' = status
    BY <2>5
  <2>6. CASE PumpTry /\ status' # "DOWN"
    BY <2>1, <2>6 DEF PumpTry, Drop, Closed, Session!Connect
  <2>7. CASE PumpUp
    <3>1. status = "CONNECTING" /\ status' = "UP" /\ Drain(Queue(tx, <<"reg">>))
      BY <2>7 DEF PumpUp
    <3>2. tx \in Seq(Kinds) /\ Len(tx) <= TxCap
      BY DEF Invariant, TxInv
    <3>3. NoCommand(tx) /\ NoCommand(tx')
      BY <2>1, <3>1, <3>2, RegisterQuiet DEF NoCommand
    <3>4. ~held'
      BY <3>3 DEF NoCommand
    <3>5. Session!Establish
      BY <2>1, <3>1, <3>4 DEF Session!Establish
    <3> QED BY <3>5
  <2>8. CASE UNCHANGED vars
    BY <2>5, <2>8 DEF vars
  <2>9. CASE Next
    <3>1. PumpTry \/ PumpUp \/ status' = "DOWN" \/ (status = "UP" /\ status' = "UP")
            \/ (tx' = tx /\ status' = status)
      BY <2>9 DEF Next, Pump, Reconcile, ReconcileClose, PumpRefused, PumpUpFails,
             PumpReadFails, PumpServe, PumpSilent, PumpWriteFails, Send, SendFull, SendFails,
             PolicyChanges, Elapse, NetChanges, Connected, Refused, Reset, HeadSpeaks, HeadEchoes,
             HeadSends, Drop, WriteFault, Closed, vars
    <3> QED BY <3>1, <2>3, <2>4, <2>5, <2>6, <2>7
  <2> QED BY <2>8, <2>9
<1> QED BY <1>1, <1>2, InvariantAlways, PTL DEF Spec, ImplementsSession, Session!Spec
=============================================================================
