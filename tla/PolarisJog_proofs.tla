-------------------------- MODULE PolarisJog_proofs --------------------------
(***************************************************************************)
(* Proofs about PolarisJog, for every number of axes, every range of       *)
(* speeds and gears, every timing and every buffer size.                   *)
(*                                                                         *)
(* The argument: the server's belief about an axis evolves exactly as the  *)
(* head would evolve if it obeyed the frames at the moment they are        *)
(* accepted.  The first lemmas say this of an abstract queue between the   *)
(* two; the later ones say that each path of jog_set, jog_stop and         *)
(* jog_tick emits frames that take the old belief to the new one through   *)
(* states with at most one motion.  BeliefInv puts the two together and is *)
(* inductive; SessionInv and TimeInv are inductive relative to it.         *)
(***************************************************************************)
EXTENDS PolarisJog, SequenceTheorems, TLAPS

(***************************************************************************)
(* The queue between the server and the head.                              *)
(***************************************************************************)

\* What one frame does to the head.
LEMMA ObeyOne ==
  ASSUME NEW h \in HeadState, NEW f \in Frame
  PROVE  /\ Obey(h, f) \in HeadState
         /\ Obey(h, f).fast = IF IsFast(f) THEN f.val ELSE h.fast
         /\ \A g \in WireGears :
              /\ IsSlow(f, g) => (g \in Obey(h, f).held) = f.on
              /\ ~IsSlow(f, g) => (g \in Obey(h, f).held) = (g \in h.held)
<1> DEFINE k == Obey(h, f)
<1>1. CASE f.fam = "fast"
  <2>1. /\ k.fast = f.val /\ k.held = h.held /\ f.val \in WireSpeeds \cup {0}
        /\ k \in HeadState
    BY <1>1 DEF Obey, HeadState, Frame
  <2> QED BY <2>1, <1>1 DEF IsFast, IsSlow
<1>2. CASE f.fam = "slow" /\ f.on = TRUE
  <2>1. /\ k.fast = h.fast /\ k.held = h.held \cup {f.val} /\ f.val \in WireGears
        /\ k \in HeadState
    BY <1>2 DEF Obey, HeadState, Frame
  <2>2. \A g \in WireGears : IsSlow(f, g) => (g \in k.held)
    BY <2>1 DEF IsSlow
  <2>3. \A g \in WireGears : ~IsSlow(f, g) => (g \in k.held <=> g \in h.held)
    BY <2>1, <1>2 DEF IsSlow
  <2>4. k.fast = IF IsFast(f) THEN f.val ELSE h.fast
    BY <2>1, <1>2 DEF IsFast
  <2>5. ASSUME NEW g \in WireGears, IsSlow(f, g) PROVE (g \in k.held) = f.on
    <3>1. (g \in k.held) = TRUE
      BY <2>2, <2>5
    <3> QED BY <3>1, <1>2
  <2>6. ASSUME NEW g \in WireGears, ~IsSlow(f, g) PROVE (g \in k.held) = (g \in h.held)
    BY <2>3, <2>6
  <2> QED BY <2>1, <2>4, <2>5, <2>6
<1>3. CASE f.fam = "slow" /\ f.on = FALSE
  <2>1. /\ k.fast = h.fast /\ k.held = h.held \ {f.val} /\ f.val \in WireGears
        /\ k \in HeadState
    BY <1>3 DEF Obey, HeadState, Frame
  <2>2. \A g \in WireGears : IsSlow(f, g) => ~(g \in k.held)
    BY <2>1 DEF IsSlow
  <2>3. \A g \in WireGears : ~IsSlow(f, g) => (g \in k.held <=> g \in h.held)
    BY <2>1, <1>3 DEF IsSlow
  <2>4. k.fast = IF IsFast(f) THEN f.val ELSE h.fast
    BY <2>1, <1>3 DEF IsFast
  <2>5. ASSUME NEW g \in WireGears, IsSlow(f, g) PROVE (g \in k.held) = f.on
    <3>1. (g \in k.held) = FALSE
      BY <2>2, <2>5
    <3> QED BY <3>1, <1>3
  <2>6. ASSUME NEW g \in WireGears, ~IsSlow(f, g) PROVE (g \in k.held) = (g \in h.held)
    BY <2>3, <2>6
  <2> QED BY <2>1, <2>4, <2>5, <2>6
<1> QED BY <1>1, <1>2, <1>3 DEF Frame

\* Reading the first frame and then n more is reading n + 1: the stream.
LEMMA ReadFast ==
  ASSUME NEW h \in HeadState, NEW q \in Seq(Frame), q # <<>>,
         NEW n \in 0..Len(Tail(q)), NEW v \in Int
  PROVE  FastAfter(h, q, n + 1, v) => FastAfter(Obey(h, Head(q)), Tail(q), n, v)
<1> DEFINE t == Tail(q)
           k == Obey(h, Head(q))
<1>1. /\ Len(t) = Len(q) - 1 /\ Len(q) \in Nat /\ n + 1 <= Len(q) /\ n \in Nat
      /\ \A i \in 1..n : t[i] = q[i + 1]
      /\ Head(q) = q[1] /\ q[1] \in Frame
  OBVIOUS
<1>2. k.fast = IF IsFast(q[1]) THEN q[1].val ELSE h.fast
  BY <1>1, ObeyOne
<1> SUFFICES ASSUME FastAfter(h, q, n + 1, v) PROVE FastAfter(k, t, n, v)
  OBVIOUS
<1>3. CASE h.fast = v /\ \A i \in 1..(n + 1) : ~IsFast(q[i])
  BY <1>1, <1>2, <1>3 DEF FastAfter
<1>4. CASE \E i \in 1..(n + 1) : /\ IsFast(q[i]) /\ q[i].val = v
                                 /\ \A j \in (i+1)..(n + 1) : ~IsFast(q[j])
  <2>1. PICK i \in 1..(n + 1) : /\ IsFast(q[i]) /\ q[i].val = v
                                /\ \A j \in (i+1)..(n + 1) : ~IsFast(q[j])
    BY <1>4
  <2>2. \A j \in 1..n : j >= i => ~IsFast(t[j])
    BY <2>1, <1>1
  <2>3. CASE i = 1
    BY <2>1, <2>2, <2>3, <1>1, <1>2 DEF FastAfter
  <2>4. CASE i # 1
    <3>1. i - 1 \in 1..n /\ t[i - 1] = q[i]
      BY <2>4, <1>1
    <3>2. \A j \in ((i - 1) + 1)..n : ~IsFast(t[j])
      BY <2>2
    <3> QED BY <3>1, <3>2, <2>1 DEF FastAfter
  <2> QED BY <2>3, <2>4
<1> QED BY <1>3, <1>4 DEF FastAfter

\* The same of a latched gear.
LEMMA ReadHeld ==
  ASSUME NEW h \in HeadState, NEW q \in Seq(Frame), q # <<>>,
         NEW n \in 0..Len(Tail(q)), NEW g \in WireGears, NEW b \in BOOLEAN
  PROVE  HeldAfter(h, q, n + 1, g, b) => HeldAfter(Obey(h, Head(q)), Tail(q), n, g, b)
<1> DEFINE t == Tail(q)
           k == Obey(h, Head(q))
<1>1. /\ Len(t) = Len(q) - 1 /\ Len(q) \in Nat /\ n + 1 <= Len(q) /\ n \in Nat
      /\ \A i \in 1..n : t[i] = q[i + 1]
      /\ Head(q) = q[1] /\ q[1] \in Frame
  OBVIOUS
<1>2. /\ IsSlow(q[1], g) => (g \in k.held) = q[1].on
      /\ ~IsSlow(q[1], g) => (g \in k.held) = (g \in h.held)
  BY <1>1, ObeyOne
<1> SUFFICES ASSUME HeldAfter(h, q, n + 1, g, b) PROVE HeldAfter(k, t, n, g, b)
  OBVIOUS
<1>3. CASE (g \in h.held) = b /\ \A i \in 1..(n + 1) : ~IsSlow(q[i], g)
  BY <1>1, <1>2, <1>3 DEF HeldAfter
<1>4. CASE \E i \in 1..(n + 1) : /\ IsSlow(q[i], g) /\ q[i].on = b
                                 /\ \A j \in (i+1)..(n + 1) : ~IsSlow(q[j], g)
  <2>1. PICK i \in 1..(n + 1) : /\ IsSlow(q[i], g) /\ q[i].on = b
                                /\ \A j \in (i+1)..(n + 1) : ~IsSlow(q[j], g)
    BY <1>4
  <2>2. \A j \in 1..n : j >= i => ~IsSlow(t[j], g)
    BY <2>1, <1>1
  <2>3. CASE i = 1
    BY <2>1, <2>2, <2>3, <1>1, <1>2 DEF HeldAfter
  <2>4. CASE i # 1
    <3>1. i - 1 \in 1..n /\ t[i - 1] = q[i]
      BY <2>4, <1>1
    <3>2. \A j \in ((i - 1) + 1)..n : ~IsSlow(t[j], g)
      BY <2>2
    <3> QED BY <3>1, <3>2, <2>1 DEF HeldAfter
  <2> QED BY <2>3, <2>4
<1> QED BY <1>3, <1>4 DEF HeldAfter

LEMMA ReadDoing ==
  ASSUME NEW h \in HeadState, NEW q \in Seq(Frame), q # <<>>,
         NEW n \in 0..Len(Tail(q)), NEW c \in HeadState
  PROVE  Doing(h, q, n + 1, c) => Doing(Obey(h, Head(q)), Tail(q), n, c)
<1>1. c.fast \in Int
  BY SpeedAssumption DEF HeadState, WireSpeeds
<1> SUFFICES ASSUME Doing(h, q, n + 1, c) PROVE Doing(Obey(h, Head(q)), Tail(q), n, c)
  OBVIOUS
<1>2. FastAfter(Obey(h, Head(q)), Tail(q), n, c.fast)
  BY <1>1, ReadFast DEF Doing
<1>3. ASSUME NEW g \in WireGears
      PROVE  HeldAfter(Obey(h, Head(q)), Tail(q), n, g, g \in c.held)
  <2>1. HeldAfter(h, q, n + 1, g, g \in c.held)
    BY DEF Doing
  <2>2. (g \in c.held) \in BOOLEAN
    OBVIOUS
  <2> QED BY <2>1, <2>2, ReadHeld
<1> QED BY <1>2, <1>3 DEF Doing

\* And conversely.
LEMMA ReadBack ==
  ASSUME NEW h \in HeadState, NEW q \in Seq(Frame), q # <<>>,
         NEW n \in 0..Len(Tail(q)), NEW c \in HeadState,
         Doing(Obey(h, Head(q)), Tail(q), n, c)
  PROVE  Doing(h, q, n + 1, c)
<1> DEFINE t == Tail(q)
           k == Obey(h, Head(q))
<1>1. /\ Len(t) = Len(q) - 1 /\ Len(q) \in Nat /\ n + 1 <= Len(q) /\ n \in Nat
      /\ \A i \in 1..n : t[i] = q[i + 1]
      /\ Head(q) = q[1] /\ q[1] \in Frame
  OBVIOUS
<1>2. \A i \in 2..(n + 1) : i - 1 \in 1..n /\ q[i] = t[i - 1]
  BY <1>1
<1>3. FastAfter(h, q, n + 1, c.fast)
  <2>1. k.fast = IF IsFast(q[1]) THEN q[1].val ELSE h.fast
    BY <1>1, ObeyOne
  <2>2. CASE k.fast = c.fast /\ \A i \in 1..n : ~IsFast(t[i])
    <3>1. \A i \in 2..(n + 1) : ~IsFast(q[i])
      BY <1>2, <2>2
    <3>2. CASE IsFast(q[1])
      <4>1. q[1].val = c.fast /\ 1 \in 1..(n + 1) /\ 1 + 1 = 2
        BY <1>1, <2>1, <2>2, <3>2
      <4> QED BY <4>1, <3>1, <3>2 DEF FastAfter
    <3>3. CASE ~IsFast(q[1])
      <4>1. \A i \in 1..(n + 1) : i = 1 \/ i \in 2..(n + 1)
        BY <1>1
      <4> QED BY <2>1, <2>2, <3>1, <3>3, <4>1 DEF FastAfter
    <3> QED BY <3>2, <3>3
  <2>3. CASE \E i \in 1..n : /\ IsFast(t[i]) /\ t[i].val = c.fast
                             /\ \A j \in (i+1)..n : ~IsFast(t[j])
    <3>1. PICK i \in 1..n : /\ IsFast(t[i]) /\ t[i].val = c.fast
                            /\ \A j \in (i+1)..n : ~IsFast(t[j])
      BY <2>3
    <3>2. i + 1 \in 1..(n + 1) /\ q[i + 1] = t[i]
      BY <1>1
    <3>3. \A j \in ((i + 1) + 1)..(n + 1) : j \in 2..(n + 1) /\ j - 1 \in (i + 1)..n
      BY <1>1
    <3>4. \A j \in ((i + 1) + 1)..(n + 1) : ~IsFast(q[j])
      BY <1>2, <3>1, <3>3
    <3> QED BY <3>1, <3>2, <3>4 DEF FastAfter
  <2> QED BY <2>2, <2>3 DEF Doing, FastAfter
<1>4. ASSUME NEW g \in WireGears PROVE HeldAfter(h, q, n + 1, g, g \in c.held)
  <2>1. /\ IsSlow(q[1], g) => (g \in k.held) = q[1].on
        /\ ~IsSlow(q[1], g) => (g \in k.held) = (g \in h.held)
    BY <1>1, ObeyOne
  <2>2. CASE (g \in k.held) = (g \in c.held) /\ \A i \in 1..n : ~IsSlow(t[i], g)
    <3>1. \A i \in 2..(n + 1) : ~IsSlow(q[i], g)
      BY <1>1, <1>2, <2>2
    <3> QED BY <1>1, <2>1, <2>2, <3>1 DEF HeldAfter
  <2>3. CASE \E i \in 1..n : /\ IsSlow(t[i], g) /\ t[i].on = (g \in c.held)
                             /\ \A j \in (i+1)..n : ~IsSlow(t[j], g)
    <3>1. PICK i \in 1..n : /\ IsSlow(t[i], g) /\ t[i].on = (g \in c.held)
                            /\ \A j \in (i+1)..n : ~IsSlow(t[j], g)
      BY <2>3
    <3>2. i + 1 \in 1..(n + 1) /\ q[i + 1] = t[i]
      BY <1>1
    <3>3. \A j \in ((i + 1) + 1)..(n + 1) : j \in 2..(n + 1) /\ j - 1 \in (i + 1)..n
      BY <1>1
    <3>4. \A j \in ((i + 1) + 1)..(n + 1) : ~IsSlow(q[j], g)
      BY <1>2, <3>1, <3>3
    <3> QED BY <3>1, <3>2, <3>4 DEF HeldAfter
  <2>4. HeldAfter(k, t, n, g, g \in c.held)
    BY DEF Doing
  <2> QED BY <2>2, <2>3, <2>4 DEF HeldAfter
<1> QED BY <1>3, <1>4 DEF Doing

\* A frame further back changes nothing of what the head does before it.
LEMMA PrefixDoing ==
  ASSUME NEW h \in HeadState, NEW q \in Seq(Frame), NEW f \in Frame,
         NEW n \in 0..Len(q), NEW c \in HeadState
  PROVE  Doing(h, Append(q, f), n, c) <=> Doing(h, q, n, c)
<1>1. /\ Len(q) \in Nat /\ n \in Nat /\ n <= Len(q)
      /\ \A i \in 1..n : Append(q, f)[i] = q[i]
  OBVIOUS
<1>2. FastAfter(h, Append(q, f), n, c.fast) <=> FastAfter(h, q, n, c.fast)
  BY <1>1 DEF FastAfter
<1>3. \A g \in WireGears :
        HeldAfter(h, Append(q, f), n, g, g \in c.held) <=> HeldAfter(h, q, n, g, g \in c.held)
  BY <1>1 DEF HeldAfter
<1> QED BY <1>2, <1>3 DEF Doing

\* A frame at the back is obeyed after everything before it.
LEMMA AppendDoing ==
  ASSUME NEW h \in HeadState, NEW q \in Seq(Frame), NEW f \in Frame,
         NEW c \in HeadState, Doing(h, q, Len(q), c)
  PROVE  /\ Len(Append(q, f)) = Len(q) + 1
         /\ Doing(h, Append(q, f), Len(q) + 1, Obey(c, f))
<1> DEFINE r == Append(q, f)
           d == Obey(c, f)
<1>1. /\ Len(q) \in Nat /\ Len(r) = Len(q) + 1 /\ r[Len(q) + 1] = f
      /\ \A i \in 1..Len(q) : r[i] = q[i]
  OBVIOUS
<1>2. FastAfter(h, r, Len(q) + 1, d.fast)
  <2>1. CASE IsFast(f)
    BY <2>1, <1>1 DEF FastAfter, Obey, IsFast, HeadState
  <2>2. CASE ~IsFast(f)
    <3>1. d.fast = c.fast
      BY <2>2 DEF Obey, IsFast, HeadState
    <3>2. \A i \in 1..(Len(q) + 1) : IsFast(r[i]) <=> i <= Len(q) /\ IsFast(q[i])
      BY <1>1, <2>2
    <3> QED BY <3>1, <3>2, <1>1 DEF FastAfter, Doing
  <2> QED BY <2>1, <2>2
<1>3. ASSUME NEW g \in WireGears PROVE HeldAfter(h, r, Len(q) + 1, g, g \in d.held)
  <2>1. CASE IsSlow(f, g)
    <3>1. (g \in d.held) = f.on
      BY <2>1, ObeyOne
    <3> QED BY <2>1, <3>1, <1>1 DEF HeldAfter
  <2>2. CASE ~IsSlow(f, g)
    <3>1. (g \in d.held) = (g \in c.held)
      BY <2>2, ObeyOne
    <3>2. \A i \in 1..(Len(q) + 1) : IsSlow(r[i], g) <=> i <= Len(q) /\ IsSlow(q[i], g)
      BY <1>1, <2>2
    <3>3. HeldAfter(h, q, Len(q), g, g \in c.held)
      BY DEF Doing
    <3> QED BY <3>1, <3>2, <3>3, <1>1 DEF HeldAfter
  <2> QED BY <2>1, <2>2
<1> QED BY <1>1, <1>2, <1>3 DEF Doing

\* What the head is doing after n frames is unique.
LEMMA DoingUnique ==
  ASSUME NEW h \in HeadState, NEW q \in Seq(Frame), NEW n \in 0..Len(q),
         NEW c \in HeadState, NEW d \in HeadState,
         Doing(h, q, n, c), Doing(h, q, n, d)
  PROVE  c = d
<1>0. n \in Nat
  OBVIOUS
<1>1. c.fast = d.fast
  BY <1>0 DEF Doing, FastAfter
<1>2. \A g \in WireGears : (g \in c.held) = (g \in d.held)
  BY <1>0 DEF Doing, HeldAfter
<1>3. c.held = d.held
  BY <1>2 DEF HeadState
<1> QED BY <1>1, <1>3 DEF HeadState

(***************************************************************************)
(* A queue is trusted for the belief b when the head will be doing b after *)
(* it and does at most one motion all the way.                             *)
(***************************************************************************)
Trusted(h, q, b) ==
  /\ Doing(h, q, Len(q), b)
  /\ \A n \in 0..Len(q), c \in HeadState : Doing(h, q, n, c) => OneMotionState(c)

LEMMA TrustedNow ==
  ASSUME NEW h \in HeadState, NEW q \in Seq(Frame), NEW b, Trusted(h, q, b)
  PROVE  OneMotionState(h)
<1>1. Doing(h, q, 0, h)
  BY DEF Doing, FastAfter, HeldAfter
<1>2. 0 \in 0..Len(q)
  OBVIOUS
<1> QED BY <1>1, <1>2 DEF Trusted

LEMMA TrustedEmpty ==
  ASSUME NEW h \in HeadState, OneMotionState(h)
  PROVE  Trusted(h, <<>>, h)
<1>1. Doing(h, <<>>, 0, h)
  BY DEF Doing, FastAfter, HeldAfter
<1>2. <<>> \in Seq(Frame) /\ Len(<<>>) = 0 /\ 0 \in 0..Len(<<>>)
  OBVIOUS
<1>3. ASSUME NEW c \in HeadState, Doing(h, <<>>, 0, c) PROVE OneMotionState(c)
  <2>1. c = h
    BY <1>1, <1>2, <1>3, DoingUnique
  <2> QED BY <2>1
<1> QED BY <1>1, <1>2, <1>3 DEF Trusted

LEMMA TrustedRead ==
  ASSUME NEW h \in HeadState, NEW q \in Seq(Frame), q # <<>>,
         NEW b \in HeadState, Trusted(h, q, b)
  PROVE  Trusted(Obey(h, Head(q)), Tail(q), b)
<1> DEFINE t == Tail(q)
           k == Obey(h, Head(q))
<1>1. /\ t \in Seq(Frame) /\ Len(t) \in Nat /\ Len(t) + 1 = Len(q) /\ Head(q) \in Frame
      /\ k \in HeadState /\ Len(t) \in 0..Len(t)
  BY ObeyOne
<1>2. Doing(k, t, Len(t), b)
  BY <1>1, ReadDoing DEF Trusted
<1>3. ASSUME NEW n \in 0..Len(t), NEW c \in HeadState, Doing(k, t, n, c)
      PROVE  OneMotionState(c)
  BY <1>3, <1>1, ReadBack DEF Trusted
<1> QED BY <1>2, <1>3 DEF Trusted

LEMMA TrustedAppend ==
  ASSUME NEW h \in HeadState, NEW q \in Seq(Frame), NEW b \in HeadState,
         NEW f \in Frame, Trusted(h, q, b), OneMotionState(Obey(b, f))
  PROVE  Trusted(h, Append(q, f), Obey(b, f))
<1> DEFINE r == Append(q, f)
           d == Obey(b, f)
<1>1. /\ r \in Seq(Frame) /\ Len(q) \in Nat /\ Len(r) = Len(q) + 1 /\ d \in HeadState
      /\ Doing(h, r, Len(r), d)
  BY AppendDoing, ObeyOne DEF Trusted
<1>2. ASSUME NEW n \in 0..Len(r), NEW c \in HeadState, Doing(h, r, n, c)
      PROVE  OneMotionState(c)
  <2>1. CASE n = Len(r)
    <3>1. c = d
      BY <1>1, <1>2, <2>1, DoingUnique
    <3> QED BY <3>1
  <2>2. CASE n # Len(r)
    <3>1. n \in 0..Len(q)
      BY <1>1, <2>2
    <3> QED BY <3>1, <1>2, PrefixDoing DEF Trusted
  <2> QED BY <2>1, <2>2
<1> QED BY <1>1, <1>2 DEF Trusted

(***************************************************************************)
(* What one call emits takes the old belief to the new one.                *)
(***************************************************************************)
TakesTo(b, F, c) ==
  \/ F = <<>> /\ c = b
  \/ \E f \in Frame : F = <<f>> /\ c = Obey(b, f) /\ OneMotionState(c)
  \/ \E f1, f2 \in Frame :
       /\ F = <<f1, f2>>
       /\ OneMotionState(Obey(b, f1))
       /\ c = Obey(Obey(b, f1), f2) /\ OneMotionState(c)

LEMMA TrustedSend ==
  ASSUME NEW h \in HeadState, NEW q \in Seq(Frame), NEW b \in HeadState,
         NEW F, NEW c, Trusted(h, q, b), TakesTo(b, F, c)
  PROVE  Trusted(h, q \o F, c)
<1>1. CASE F = <<>> /\ c = b
  <2>1. q \o <<>> = q
    OBVIOUS
  <2> QED BY <1>1, <2>1
<1>2. CASE \E f \in Frame : F = <<f>> /\ c = Obey(b, f) /\ OneMotionState(c)
  <2>1. PICK f \in Frame : F = <<f>> /\ c = Obey(b, f) /\ OneMotionState(c)
    BY <1>2
  <2>2. q \o <<f>> = Append(q, f)
    OBVIOUS
  <2> QED BY <2>1, <2>2, TrustedAppend
<1>3. CASE \E f1, f2 \in Frame :
             /\ F = <<f1, f2>>
             /\ OneMotionState(Obey(b, f1))
             /\ c = Obey(Obey(b, f1), f2) /\ OneMotionState(c)
  <2>1. PICK f1, f2 \in Frame :
             /\ F = <<f1, f2>>
             /\ OneMotionState(Obey(b, f1))
             /\ c = Obey(Obey(b, f1), f2) /\ OneMotionState(c)
    BY <1>3
  <2>2. q \o <<f1, f2>> = Append(Append(q, f1), f2)
    OBVIOUS
  <2>3. Obey(b, f1) \in HeadState /\ Append(q, f1) \in Seq(Frame)
    BY ObeyOne
  <2>4. Trusted(h, Append(q, f1), Obey(b, f1))
    BY <2>1, TrustedAppend
  <2> QED BY <2>1, <2>2, <2>3, <2>4, TrustedAppend
<1> QED BY <1>1, <1>2, <1>3 DEF TakesTo

\* The invariant of one axis_state_t: one family at a time, and a gear exactly
\* while a press is outstanding.
Coherent(s) == (s.pressed => s.speed = 0) /\ (s.pressed <=> s.gear # 0)

LEMMA WireValues ==
  /\ \A v \in Speeds : WireSpeed(v) \in WireSpeeds
  /\ \A g \in Gears : WireGear(g) \in WireGears
  /\ 0 \notin WireSpeeds /\ 0 \notin WireGears
  /\ WireSpeeds \subseteq Int /\ WireGears \subseteq Int
BY SpeedAssumption, GearAssumption
   DEF WireSpeed, WireGear, WireSpeeds, WireGears, Clamp

LEMMA BeliefType ==
  ASSUME NEW s \in AxisState, Coherent(s)
  PROVE  Belief(s) \in HeadState /\ OneMotionState(Belief(s))
BY WireValues DEF AxisState, Coherent, Belief, HeadState, OneMotionState

LEMMA FrameType ==
  /\ \A v \in WireSpeeds \cup {0} : Fast(v) \in Frame
  /\ \A g \in Gears, on \in BOOLEAN : Slow(g, on) \in Frame
BY WireValues DEF Fast, Slow, Frame

LEMMA ObeyFast ==
  ASSUME NEW h \in HeadState, NEW v \in WireSpeeds \cup {0}
  PROVE  Obey(h, Fast(v)) = [fast |-> v, held |-> h.held]
BY DEF Obey, Fast, HeadState

LEMMA ObeySlow ==
  ASSUME NEW h \in HeadState, NEW g
  PROVE  /\ Obey(h, Slow(g, TRUE)) = [fast |-> h.fast, held |-> h.held \cup {WireGear(g)}]
         /\ Obey(h, Slow(g, FALSE)) = [fast |-> h.fast, held |-> h.held \ {WireGear(g)}]
BY DEF Obey, Slow, HeadState

LEMMA Joined ==
  /\ <<>> \o <<>> = <<>>
  /\ \A f \in Frame : <<f>> \o <<>> = <<f>> /\ <<>> \o <<f>> = <<f>>
  /\ \A e, f \in Frame : <<e>> \o <<f>> = <<e, f>> /\ <<>> \o <<e, f>> = <<e, f>>
<1>1. ASSUME NEW e \in Frame, NEW f \in Frame
      PROVE  <<e>> \o <<f>> = <<e, f>> /\ <<>> \o <<e, f>> = <<e, f>>
  <2>1. <<e>> \o <<f>> = Append(<<e>>, f)
    OBVIOUS
  <2>2. Append(<<e>>, f) = <<e, f>>
    <3> DEFINE r == Append(<<e>>, f)
    <3>1. /\ r \in Seq(Frame) /\ Len(r) = 2 /\ r[1] = e /\ r[2] = f
          /\ <<e, f>> \in Seq(Frame)
      OBVIOUS
    <3>2. Len(r) = Len(<<e, f>>) /\ \A i \in 1..Len(r) : r[i] = <<e, f>>[i]
      BY <3>1
    <3> HIDE DEF r
    <3>3. r = <<e, f>>
      BY <3>1, <3>2, SeqEqual
    <3> QED BY <3>3 DEF r
  <2>3. <<>> \o <<e, f>> = <<e, f>>
    OBVIOUS
  <2> QED BY <2>1, <2>2, <2>3
<1>2. ASSUME NEW f \in Frame PROVE <<f>> \o <<>> = <<f>> /\ <<>> \o <<f>> = <<f>>
  OBVIOUS
<1> QED BY <1>1, <1>2

\* jog_stop.
LEMMA StopTakes ==
  ASSUME NEW s \in AxisState, Coherent(s)
  PROVE  TakesTo(Belief(s), StopFrames(s), Still)
<1> USE DEF Still
<1>1. Belief(s) \in HeadState
  BY BeliefType
<1>2. OneMotionState(Still)
  BY DEF OneMotionState
<1>3. CASE s.pressed
  <2>1. s.gear \in Gears /\ s.speed = 0 /\ Slow(s.gear, FALSE) \in Frame
    BY <1>3, FrameType DEF AxisState, Coherent
  <2>2. StopFrames(s) = <<Slow(s.gear, FALSE)>>
    BY <1>3, <2>1, Joined DEF StopFrames, If
  <2>3. Obey(Belief(s), Slow(s.gear, FALSE)) = Still
    BY <1>1, <1>3, <2>1, ObeySlow DEF Belief
  <2> QED BY <1>2, <2>1, <2>2, <2>3 DEF TakesTo
<1>4. CASE ~s.pressed /\ s.speed # 0
  <2>1. StopFrames(s) = <<Fast(0)>>
    BY <1>4, FrameType, Joined DEF StopFrames, If
  <2>2. Obey(Belief(s), Fast(0)) = Still
    BY <1>1, <1>4, ObeyFast DEF Belief
  <2> QED BY <1>2, <2>1, <2>2, FrameType DEF TakesTo
<1>5. CASE ~s.pressed /\ s.speed = 0
  BY <1>5 DEF StopFrames, If, TakesTo, Belief
<1> QED BY <1>3, <1>4, <1>5

\* jog_set, fast family.
LEMMA FastTakes ==
  ASSUME NEW s \in AxisState, Coherent(s), NEW w \in WireSpeeds
  PROVE  /\ FastState(s, w) \in AxisState /\ Coherent(FastState(s, w))
         /\ TakesTo(Belief(s), FastFrames(s, w), Belief(FastState(s, w)))
<1> DEFINE c == [fast |-> w, held |-> {}]
<1>1. w # 0 /\ Belief(s) \in HeadState /\ Fast(w) \in Frame
  BY BeliefType, WireValues, FrameType
<1>2. FastState(s, w) \in AxisState /\ Coherent(FastState(s, w))
  BY <1>1, TimeAssumption DEF FastState, AxisState, Coherent
<1>3. Belief(FastState(s, w)) = c /\ OneMotionState(c)
  BY DEF FastState, Belief, OneMotionState
<1>4. CASE s.pressed
  <2>1. s.gear \in Gears /\ s.speed = 0 /\ Slow(s.gear, FALSE) \in Frame
    BY <1>4, FrameType DEF AxisState, Coherent
  <2>2. FastFrames(s, w) = <<Slow(s.gear, FALSE), Fast(w)>>
    BY <1>1, <1>4, <2>1, Joined DEF FastFrames, If
  <2>3. Obey(Belief(s), Slow(s.gear, FALSE)) = Still
    BY <1>1, <1>4, <2>1, ObeySlow DEF Belief, Still
  <2>4. Obey(Still, Fast(w)) = c
    BY ObeyFast DEF Still, HeadState
  <2>5. OneMotionState(Still)
    BY DEF OneMotionState, Still
  <2> QED BY <1>1, <1>2, <1>3, <2>1, <2>2, <2>3, <2>4, <2>5 DEF TakesTo
<1>5. CASE ~s.pressed /\ s.speed # w
  <2>1. FastFrames(s, w) = <<Fast(w)>>
    BY <1>1, <1>5, Joined DEF FastFrames, If
  <2>2. Obey(Belief(s), Fast(w)) = c
    BY <1>1, <1>5, ObeyFast DEF Belief
  <2> QED BY <1>1, <1>2, <1>3, <2>1, <2>2 DEF TakesTo
<1>6. CASE ~s.pressed /\ s.speed = w
  <2>1. FastFrames(s, w) = <<>> /\ Belief(s) = c
    BY <1>6 DEF FastFrames, If, Belief
  <2> QED BY <1>2, <1>3, <2>1 DEF TakesTo
<1> QED BY <1>4, <1>5, <1>6

\* jog_set, slow family.
LEMMA SlowTakes ==
  ASSUME NEW s \in AxisState, Coherent(s), NEW g \in Gears
  PROVE  /\ SlowState(s, g) \in AxisState /\ Coherent(SlowState(s, g))
         /\ TakesTo(Belief(s), SlowFrames(s, g), Belief(SlowState(s, g)))
<1> DEFINE c == [fast |-> 0, held |-> {WireGear(g)}]
<1>1. /\ g # 0 /\ Belief(s) \in HeadState /\ WireGear(g) \in WireGears
      /\ Fast(0) \in Frame /\ Slow(g, TRUE) \in Frame
  BY BeliefType, WireValues, FrameType, GearAssumption
<1>2. SlowState(s, g) \in AxisState /\ Coherent(SlowState(s, g))
  BY <1>1, TimeAssumption DEF SlowState, AxisState, Coherent
<1>3. Belief(SlowState(s, g)) = c /\ OneMotionState(c)
  BY DEF SlowState, Belief, OneMotionState
<1>4. Still \in HeadState /\ OneMotionState(Still)
  BY DEF OneMotionState, Still, HeadState
<1>5. Obey(Still, Slow(g, TRUE)) = c
  BY <1>4, ObeySlow DEF Still
<1>6. CASE s.pressed /\ s.gear # g
  <2>1. s.gear \in Gears /\ s.speed = 0 /\ Slow(s.gear, FALSE) \in Frame
    BY <1>6, FrameType DEF AxisState, Coherent
  <2>2. SlowFrames(s, g) = <<Slow(s.gear, FALSE), Slow(g, TRUE)>>
    BY <1>1, <1>6, <2>1, Joined DEF SlowFrames, If
  <2>3. Obey(Belief(s), Slow(s.gear, FALSE)) = Still
    BY <1>1, <1>6, <2>1, ObeySlow DEF Belief, Still
  <2> QED BY <1>1, <1>2, <1>3, <1>4, <1>5, <2>1, <2>2, <2>3 DEF TakesTo
<1>7. CASE s.pressed /\ s.gear = g
  <2>1. SlowFrames(s, g) = <<>> /\ Belief(s) = c
    BY <1>7 DEF SlowFrames, If, Belief, Coherent
  <2> QED BY <1>2, <1>3, <2>1 DEF TakesTo
<1>8. CASE ~s.pressed /\ s.speed # 0
  <2>1. SlowFrames(s, g) = <<Fast(0), Slow(g, TRUE)>>
    BY <1>1, <1>8, Joined DEF SlowFrames, If
  <2>2. Obey(Belief(s), Fast(0)) = Still
    BY <1>1, <1>8, ObeyFast DEF Belief, Still
  <2> QED BY <1>1, <1>2, <1>3, <1>4, <1>5, <2>1, <2>2 DEF TakesTo
<1>9. CASE ~s.pressed /\ s.speed = 0
  <2>1. SlowFrames(s, g) = <<Slow(g, TRUE)>>
    BY <1>1, <1>9, Joined DEF SlowFrames, If
  <2>2. Belief(s) = Still
    BY <1>9 DEF Belief, Still
  <2> QED BY <1>1, <1>2, <1>3, <1>5, <2>1, <2>2 DEF TakesTo
<1> QED BY <1>6, <1>7, <1>8, <1>9

\* What a call may do with an axis: frames and a next state that agree.
Steps(s, F, t) ==
  /\ t \in AxisState /\ Coherent(t)
  /\ F \in Seq(Frame) /\ TakesTo(Belief(s), F, Belief(t))

LEMMA FramesType ==
  ASSUME NEW b, NEW F, NEW c, TakesTo(b, F, c)
  PROVE  F \in Seq(Frame)
<1>1. /\ <<>> \in Seq(Frame)
      /\ \A f \in Frame : <<f>> \in Seq(Frame)
      /\ \A e, f \in Frame : <<e, f>> \in Seq(Frame)
  OBVIOUS
<1> QED BY <1>1 DEF TakesTo

LEMMA StoppedType ==
  Stopped \in AxisState /\ Coherent(Stopped) /\ Belief(Stopped) = Still /\ ~Moving(Stopped)
BY TimeAssumption DEF Stopped, AxisState, Coherent, Belief, Still, Moving

LEMMA StopSteps ==
  ASSUME NEW s \in AxisState, Coherent(s)
  PROVE  Steps(s, StopFrames(s), Stopped)
BY StopTakes, StoppedType, FramesType DEF Steps

LEMMA SetSteps ==
  ASSUME NEW s \in AxisState, Coherent(s),
         NEW v \in Speeds \cup {0}, NEW g \in Gears \cup {0}
  PROVE  Steps(s, SetFrames(s, v, g), SetState(s, v, g))
<1>1. CASE v = 0 /\ g = 0
  BY <1>1, StopSteps DEF SetFrames, SetState
<1>2. CASE v # 0
  <2>1. WireSpeed(v) \in WireSpeeds
    BY <1>2, WireValues
  <2> QED BY <1>2, <2>1, FastTakes, FramesType DEF Steps, SetFrames, SetState
<1>3. CASE v = 0 /\ g # 0
  BY <1>3, SlowTakes, FramesType DEF Steps, SetFrames, SetState
<1> QED BY <1>1, <1>2, <1>3

\* jog_tick.
LEMMA TickSteps ==
  ASSUME NEW s \in AxisState, Coherent(s)
  PROVE  Steps(s, TickFrames(s), TickState(s))
<1>1. CASE Expired(s)
  BY <1>1, StopSteps DEF TickFrames, TickState
<1>2. CASE RepeatDue(s)
  <2>1. ~Expired(s) /\ s.speed # 0 /\ ~s.pressed /\ s.speed \in WireSpeeds
    BY <1>2 DEF RepeatDue, Coherent, AxisState
  <2>2. TickFrames(s) = <<Fast(s.speed)>> /\ TickState(s) = [s EXCEPT !.next = Repeat]
    BY <1>2, <2>1 DEF TickFrames, TickState, If
  <2>3. TickState(s) \in AxisState /\ Coherent(TickState(s))
    BY <2>2, TimeAssumption DEF AxisState, Coherent
  <2>4. Belief(TickState(s)) = Belief(s)
    BY <2>2 DEF Belief, AxisState
  <2>5. Obey(Belief(s), Fast(s.speed)) = Belief(s)
    BY <2>1, BeliefType, ObeyFast DEF Belief
  <2>6. Fast(s.speed) \in Frame /\ OneMotionState(Belief(s))
    BY <2>1, BeliefType, FrameType
  <2>7. TakesTo(Belief(s), TickFrames(s), Belief(TickState(s)))
    BY <2>2, <2>4, <2>5, <2>6 DEF TakesTo
  <2> QED BY <2>3, <2>7, FramesType DEF Steps
<1>3. CASE ~Expired(s) /\ ~RepeatDue(s)
  <2>1. TickFrames(s) = <<>> /\ TickState(s) = s
    BY <1>3 DEF TickFrames, TickState, If
  <2> QED BY <2>1, FramesType DEF Steps, TakesTo
<1> QED BY <1>1, <1>2, <1>3

\* The passing of time changes deadlines only.
LEMMA AgedSteps ==
  ASSUME NEW s \in AxisState, NEW d \in Nat
  PROVE  /\ Aged(s, d) \in AxisState
         /\ Coherent(s) => Coherent(Aged(s, d))
         /\ Belief(Aged(s, d)) = Belief(s)
         /\ Moving(Aged(s, d)) <=> Moving(s)
         /\ Aged(s, d).speed = s.speed
<1>1. \A t \in Int : t <= Lease /\ t >= -LateCap => Later(t, d) \in (-LateCap)..Lease
  BY TimeAssumption DEF Later
<1>2. \A t \in Int : t <= Repeat /\ t >= -LateCap => Later(t, d) \in (-LateCap)..Repeat
  BY TimeAssumption DEF Later
<1>3. Aged(s, d) \in AxisState
  <2>1. /\ s.lease \in Int /\ s.lease <= Lease /\ s.lease >= -LateCap
        /\ s.next \in Int /\ s.next <= Repeat /\ s.next >= -LateCap
    BY TimeAssumption DEF AxisState
  <2> QED BY <1>1, <1>2, <2>1 DEF Aged, AxisState
<1>4. /\ Aged(s, d).speed = s.speed /\ Aged(s, d).pressed = s.pressed
      /\ Aged(s, d).gear = s.gear
  BY DEF Aged, AxisState
<1> QED BY <1>3, <1>4 DEF Coherent, Belief, Moving

LEMMA QuietSteps ==
  ASSUME NEW s \in AxisState, Coherent(s)
  PROVE  /\ Steps(s, <<>>, s)
         /\ \A d \in Nat : Steps(s, <<>>, Aged(s, d))
<1>1. <<>> \in Seq(Frame)
  OBVIOUS
<1>2. TakesTo(Belief(s), <<>>, Belief(s))
  BY DEF TakesTo
<1> QED BY <1>1, <1>2, AgedSteps DEF Steps

(***************************************************************************)
(* Belief and head: the inductive invariant.                               *)
(***************************************************************************)
Coherence == \A a \in Axes : Coherent(ax[a])
Trust == \A a \in Axes : ~lost[a] => Trusted(head[a], tx[a], Belief(ax[a]))
TxOfSession == status # "UP" => \A a \in Axes : tx[a] = <<>>
BeliefInv == TypeOK /\ Coherence /\ Trust /\ TxOfSession

\* Frames handed to plink_send keep the invariant, whatever becomes of them.
LEMMA LinkKeeps ==
  ASSUME NEW sent \in [Axes -> Seq(Frame)], BeliefInv,
         ax' \in [Axes -> AxisState], head' = head,
         \A a \in Axes : Steps(ax[a], sent[a], ax'[a]),
         \/ Transmit(sent)
         \/ Disconnect(sent)
         \/ UNCHANGED link /\ \A a \in Axes : sent[a] = <<>>
  PROVE  /\ status' \in {"DOWN", "CONNECTING", "UP"} /\ sock' \in {"none", "ok", "broken"}
         /\ tx' \in [Axes -> Seq(Frame)] /\ lost' \in [Axes -> BOOLEAN]
         /\ Coherence' /\ Trust' /\ TxOfSession'
<1> USE DEF TypeOK, BeliefInv
<1>1. Coherence'
  BY DEF Coherence, Steps
<1>2. ASSUME NEW a \in Axes
      PROVE  /\ head[a] \in HeadState /\ tx[a] \in Seq(Frame) /\ sent[a] \in Seq(Frame)
             /\ Belief(ax[a]) \in HeadState /\ head'[a] = head[a]
             /\ ~lost[a] => Trusted(head[a], tx[a] \o sent[a], Belief(ax'[a]))
             /\ ~lost[a] /\ sent[a] = <<>> => Trusted(head[a], tx[a], Belief(ax'[a]))
  <2>1. /\ ax[a] \in AxisState /\ Coherent(ax[a]) /\ head[a] \in HeadState
        /\ tx[a] \in Seq(Frame) /\ sent[a] \in Seq(Frame)
    BY DEF Coherence
  <2>2. Belief(ax[a]) \in HeadState
    BY <2>1, BeliefType
  <2>3. TakesTo(Belief(ax[a]), sent[a], Belief(ax'[a]))
    BY DEF Steps
  <2>4. ~lost[a] => Trusted(head[a], tx[a] \o sent[a], Belief(ax'[a]))
    BY <2>1, <2>2, <2>3, TrustedSend DEF Trust
  <2>5. sent[a] = <<>> => tx[a] \o sent[a] = tx[a]
    BY <2>1
  <2> QED BY <2>1, <2>2, <2>4, <2>5
<1>3. CASE Disconnect(sent)
  <2>1. /\ status' = "DOWN" /\ sock' = "none"
        /\ tx' = [a \in Axes |-> <<>>]
        /\ lost' = [a \in Axes |-> lost[a] \/ tx[a] # <<>> \/ sent[a] # <<>>]
    BY <1>3 DEF Disconnect
  <2>2. ASSUME NEW a \in Axes, ~lost'[a] PROVE Trusted(head'[a], tx'[a], Belief(ax'[a]))
    <3>1. ~lost[a] /\ tx[a] = <<>> /\ sent[a] = <<>> /\ tx'[a] = <<>>
      BY <2>1, <2>2
    <3> QED BY <3>1, <1>2
  <2>3. tx' \in [Axes -> Seq(Frame)] /\ lost' \in [Axes -> BOOLEAN]
    BY <2>1
  <2> QED BY <1>1, <2>1, <2>2, <2>3 DEF Trust, TxOfSession
<1>4. CASE UNCHANGED link /\ \A a \in Axes : sent[a] = <<>>
  <2>1. status' = status /\ sock' = sock /\ tx' = tx /\ lost' = lost
    BY <1>4 DEF link
  <2>2. Trust'
    BY <1>2, <1>4, <2>1 DEF Trust
  <2> QED BY <1>1, <2>1, <2>2 DEF TxOfSession
<1>5. CASE Transmit(sent)
  <2>1. CASE /\ status = "UP"
             /\ tx' = [a \in Axes |->
                  SubSeq(tx[a] \o sent[a], 1, Clamp(Len(tx[a] \o sent[a]), 0, TxCap))]
             /\ lost' = [a \in Axes |-> lost[a] \/ Len(tx[a] \o sent[a]) > TxCap]
             /\ UNCHANGED <<status, sock>>
    <3>1. ASSUME NEW a \in Axes
          PROVE  /\ tx'[a] \in Seq(Frame)
                 /\ ~lost'[a] => ~lost[a] /\ tx'[a] = tx[a] \o sent[a]
      <4> DEFINE q == tx[a] \o sent[a]
                 n == Clamp(Len(q), 0, TxCap)
      <4>1. q \in Seq(Frame) /\ Len(q) \in Nat
        BY <1>2
      <4>2. n \in 0..Len(q) /\ (~(Len(q) > TxCap) => n = Len(q))
        BY <4>1, BufferAssumption DEF Clamp
      <4>3. tx'[a] = SubSeq(q, 1, n) /\ (lost'[a] <=> lost[a] \/ Len(q) > TxCap)
        BY <2>1
      <4> HIDE DEF q, n
      <4>4. SubSeq(q, 1, Len(q)) = q
        BY <4>1, SubSeqFull
      <4>5. SubSeq(q, 1, n) \in Seq(Frame)
        BY <4>1, <4>2
      <4> QED BY <4>2, <4>3, <4>4, <4>5 DEF q
    <3>2. Trust'
      BY <1>2, <3>1 DEF Trust
    <3>3. tx' \in [Axes -> Seq(Frame)] /\ lost' \in [Axes -> BOOLEAN]
      BY <2>1, <3>1
    <3> QED BY <1>1, <2>1, <3>2, <3>3 DEF TxOfSession
  <2>2. CASE Disconnect(sent)
    BY <2>2, <1>3
  <2>3. CASE /\ status # "UP"
             /\ lost' = [a \in Axes |-> lost[a] \/ sent[a] # <<>>]
             /\ UNCHANGED <<status, sock, tx>>
    <3>1. ASSUME NEW a \in Axes, ~lost'[a] PROVE Trusted(head'[a], tx'[a], Belief(ax'[a]))
      <4>1. ~lost[a] /\ sent[a] = <<>> /\ tx'[a] = tx[a]
        BY <2>3, <3>1
      <4> QED BY <4>1, <1>2
    <3>2. lost' \in [Axes -> BOOLEAN]
      BY <2>3
    <3> QED BY <1>1, <2>3, <3>1, <3>2 DEF Trust, TxOfSession
  <2> QED BY <1>5, <2>1, <2>2, <2>3 DEF Transmit
<1> QED BY <1>3, <1>4, <1>5

LEMMA BeliefInit == Init => BeliefInv
<1> SUFFICES ASSUME Init PROVE BeliefInv
  OBVIOUS
<1> USE DEF Init
<1>1. Still \in HeadState /\ OneMotionState(Still) /\ <<>> \in Seq(Frame)
  BY DEF Still, HeadState, OneMotionState
<1>2. TypeOK
  BY <1>1, StoppedType DEF TypeOK
<1>3. Trusted(Still, <<>>, Belief(Stopped))
  BY <1>1, TrustedEmpty, StoppedType
<1> QED BY <1>2, <1>3, StoppedType DEF BeliefInv, Coherence, Trust, TxOfSession

LEMMA BeliefStep == BeliefInv /\ [Next]_vars => BeliefInv'
<1> SUFFICES ASSUME BeliefInv, [Next]_vars PROVE BeliefInv'
  OBVIOUS
<1> USE DEF BeliefInv, TypeOK
<1>1. \A a \in Axes : ax[a] \in AxisState /\ Coherent(ax[a])
  BY DEF Coherence
<1>2. Nothing \in [Axes -> Seq(Frame)] /\ \A a \in Axes : Nothing[a] = <<>>
  BY DEF Nothing
<1>3. ASSUME NEW d \in Nat, ax' = [a \in Axes |-> Aged(ax[a], d)]
      PROVE  ax' \in [Axes -> AxisState] /\ \A a \in Axes : Steps(ax[a], Nothing[a], ax'[a])
  BY <1>1, <1>2, <1>3, QuietSteps, AgedSteps
<1>4. ASSUME ax' = ax
      PROVE  ax' \in [Axes -> AxisState] /\ \A a \in Axes : Steps(ax[a], Nothing[a], ax'[a])
  BY <1>1, <1>2, <1>4, QuietSteps
<1>5. ASSUME NEW d \in 0..IdleSleep, Select(d) PROVE BeliefInv'
  <2>1. d \in Nat
    BY TimeAssumption
  <2> QED BY <1>2, <1>3, <1>5, <2>1, LinkKeeps DEF Select
<1>6. CASE PumpIdle
  BY <1>2, <1>4, <1>6, LinkKeeps DEF PumpIdle
<1>7. CASE PumpConnect
  BY <1>7 DEF PumpConnect, Coherence, Trust, TxOfSession
<1>8. CASE PumpFinish
  BY <1>8 DEF PumpFinish, Coherence, Trust, TxOfSession
<1>9. CASE PumpLost
  BY <1>2, <1>4, <1>9, LinkKeeps DEF PumpLost
<1>10. CASE PumpClose
  BY <1>2, <1>4, <1>10, LinkKeeps DEF PumpClose
<1>11. CASE TickDown
  <2>1. /\ ax' = [a \in Axes |-> Stopped] /\ tx' = tx /\ head' = head /\ status' = status
        /\ lost' = [a \in Axes |-> lost[a] \/ Moving(ax[a])]
        /\ sock' = sock /\ client' = client /\ pc' = "handle"
    BY <1>11 DEF TickDown
  <2>2. ASSUME NEW a \in Axes, ~lost'[a] PROVE Trusted(head[a], tx[a], Belief(ax'[a]))
    <3>1. ~lost[a] /\ ~Moving(ax[a]) /\ ax'[a] = Stopped
      BY <2>1, <2>2
    <3>2. Belief(ax[a]) = Belief(Stopped)
      BY <3>1, StoppedType DEF Moving, Belief, Still
    <3> QED BY <3>1, <3>2 DEF Trust
  <2>3. ax' \in [Axes -> AxisState] /\ Coherence' /\ lost' \in [Axes -> BOOLEAN]
    BY <2>1, StoppedType DEF Coherence
  <2> QED BY <2>1, <2>2, <2>3 DEF Trust, TxOfSession
<1>12. CASE TickUp
  <2> DEFINE sent == [a \in Axes |-> TickFrames(ax[a])]
  <2>1. /\ \A a \in Axes : Steps(ax[a], sent[a], ax'[a])
        /\ ax' \in [Axes -> AxisState] /\ sent \in [Axes -> Seq(Frame)]
    <3>1. \A a \in Axes : Steps(ax[a], TickFrames(ax[a]), TickState(ax[a]))
      BY <1>1, TickSteps
    <3> QED BY <3>1, <1>12 DEF TickUp, Steps
  <2>2. Transmit(sent) /\ head' = head /\ client' = client /\ pc' = "handle"
    BY <1>12 DEF TickUp
  <2> HIDE DEF sent
  <2> QED BY <2>1, <2>2, LinkKeeps
<1>13. ASSUME NEW a \in Axes, NEW v \in Speeds \cup {0}, NEW g \in Gears \cup {0}, Move(a, v, g)
       PROVE  BeliefInv'
  <2> DEFINE sent == Only(a, SetFrames(ax[a], v, g))
  <2>1. /\ \A b \in Axes : Steps(ax[b], sent[b], ax'[b])
        /\ ax' \in [Axes -> AxisState] /\ sent \in [Axes -> Seq(Frame)]
    <3>1. Steps(ax[a], SetFrames(ax[a], v, g), SetState(ax[a], v, g))
      BY <1>1, SetSteps
    <3>2. \A b \in Axes : Steps(ax[b], <<>>, ax[b])
      BY <1>1, QuietSteps
    <3> QED BY <3>1, <3>2, <1>13 DEF Move, Only, Steps
  <2>2. Transmit(sent) /\ head' = head /\ client' = client /\ pc' = "select"
    BY <1>13 DEF Move
  <2> HIDE DEF sent
  <2> QED BY <2>1, <2>2, LinkKeeps
<1>14. CASE StopAll
  <2> DEFINE sent == [a \in Axes |-> StopFrames(ax[a])]
  <2>1. /\ \A a \in Axes : Steps(ax[a], sent[a], ax'[a])
        /\ ax' \in [Axes -> AxisState] /\ sent \in [Axes -> Seq(Frame)]
    <3>1. \A a \in Axes : Steps(ax[a], StopFrames(ax[a]), Stopped)
      BY <1>1, StopSteps
    <3> QED BY <3>1, <1>14 DEF StopAll, Steps
  <2>2. Transmit(sent) /\ head' = head /\ client' = client /\ pc' = "select"
    BY <1>14 DEF StopAll
  <2> HIDE DEF sent
  <2> QED BY <2>1, <2>2, LinkKeeps
<1>15. ASSUME NEW d \in 0..HandleMax, OtherRequest(d) PROVE BeliefInv'
  <2>1. d \in Nat
    BY TimeAssumption
  <2> QED BY <1>2, <1>3, <1>15, <2>1, LinkKeeps DEF OtherRequest
<1>16. CASE AcceptSilent
  BY <1>2, <1>4, <1>16, LinkKeeps DEF AcceptSilent
<1>17. CASE ReadWaits
  BY <1>2, <1>3, <1>17, LinkKeeps DEF ReadWaits
<1>18. CASE ReadEnds
  BY <1>2, <1>4, <1>18, LinkKeeps DEF ReadEnds
<1>19. CASE ClientVanishes
  BY <1>2, <1>4, <1>19, LinkKeeps DEF ClientVanishes
<1>20. CASE Cut
  BY <1>20 DEF Cut, Coherence, Trust, TxOfSession
<1>21. ASSUME NEW a \in Axes, HeadReads(a) PROVE BeliefInv'
  <2>1. /\ tx[a] # <<>> /\ head' = [head EXCEPT ![a] = Obey(@, Head(tx[a]))]
        /\ tx' = [tx EXCEPT ![a] = Tail(@)]
        /\ UNCHANGED <<pc, status, sock, lost, ax, client>>
    BY <1>21 DEF HeadReads
  <2>2. /\ head[a] \in HeadState /\ tx[a] \in Seq(Frame) /\ Belief(ax[a]) \in HeadState
        /\ Head(tx[a]) \in Frame /\ Tail(tx[a]) \in Seq(Frame)
    BY <1>1, <2>1, BeliefType
  <2>3. Obey(head[a], Head(tx[a])) \in HeadState
    BY <2>2, ObeyOne
  <2>4. ~lost[a] => Trusted(Obey(head[a], Head(tx[a])), Tail(tx[a]), Belief(ax[a]))
    BY <2>1, <2>2, TrustedRead DEF Trust
  <2>5. head' \in [Axes -> HeadState] /\ tx' \in [Axes -> Seq(Frame)]
    BY <2>1, <2>2, <2>3
  <2>6. Trust'
    BY <2>1, <2>4 DEF Trust
  <2>7. TxOfSession'
    BY <2>1 DEF TxOfSession
  <2> QED BY <2>1, <2>5, <2>6, <2>7 DEF Coherence
<1>22. CASE UNCHANGED vars
  BY <1>22 DEF vars, Coherence, Trust, TxOfSession
<1> QED
  BY <1>5, <1>6, <1>7, <1>8, <1>9, <1>10, <1>11, <1>12, <1>13, <1>14, <1>15, <1>16, <1>17,
     <1>18, <1>19, <1>20, <1>21, <1>22
     DEF Next, Pump, Tick, Handle, Move_

LEMMA BeliefAlways == Spec => []BeliefInv
BY BeliefInit, BeliefStep, PTL DEF Spec

\* Every variable keeps its type: in particular the values on the wire stay in
\* the ranges the head accepts, for every speed and gear a browser may send.
THEOREM TypeCorrect == Spec => []TypeOK
<1>1. BeliefInv => TypeOK
  BY DEF BeliefInv
<1> QED BY <1>1, BeliefAlways, PTL

\* What jog_set, jog_stop and jog_tick leave in g_ax is what the head will be
\* doing once it has read the frames they emitted.
THEOREM BeliefCorrect == Spec => []BeliefMatchesHead
<1>1. BeliefInv => BeliefMatchesHead
  BY DEF BeliefInv, Trust, Trusted, BeliefMatchesHead
<1> QED BY <1>1, BeliefAlways, PTL

\* The order in which they emit them never gives the head two motions at once.
THEOREM OneMotionCorrect == Spec => []OneMotion
<1>1. BeliefInv => OneMotion
  BY TrustedNow DEF BeliefInv, TypeOK, Trust, OneMotion
<1> QED BY <1>1, BeliefAlways, PTL

(***************************************************************************)
(* Sessions.                                                               *)
(***************************************************************************)
\* Nothing moves by the time a connection is being made.
SessionInv == status = "CONNECTING" /\ pc # "tick" => \A a \in Axes : ~Moving(ax[a])

LEMMA SessionStep == BeliefInv /\ SessionInv /\ [Next]_vars => SessionInv'
<1> SUFFICES ASSUME BeliefInv, SessionInv, [Next]_vars PROVE SessionInv'
  OBVIOUS
<1> USE DEF SessionInv
<1>1. ax \in [Axes -> AxisState]
  BY DEF BeliefInv, TypeOK
<1>2. ASSUME NEW d \in Nat, ax' = [a \in Axes |-> Aged(ax[a], d)]
      PROVE  \A a \in Axes : Moving(ax'[a]) <=> Moving(ax[a])
  BY <1>1, <1>2, AgedSteps
<1>3. ASSUME NEW d \in 0..IdleSleep, Select(d) PROVE SessionInv'
  BY <1>2, <1>3, TimeAssumption DEF Select, link
<1>4. CASE Pump
  BY <1>4 DEF Pump, PumpIdle, PumpConnect, PumpFinish, PumpLost, PumpClose, Disconnect
<1>5. CASE TickDown
  BY <1>5, StoppedType DEF TickDown
<1>6. CASE TickUp
  BY <1>6 DEF TickUp, Transmit, Disconnect
<1>7. ASSUME NEW a \in Axes, NEW v \in Speeds \cup {0}, NEW g \in Gears \cup {0}, Move(a, v, g)
      PROVE  SessionInv'
  BY <1>7 DEF Move, Transmit, Disconnect
<1>8. CASE StopAll
  BY <1>8, StoppedType DEF StopAll
<1>9. ASSUME NEW d \in 0..HandleMax, OtherRequest(d) PROVE SessionInv'
  BY <1>2, <1>9, TimeAssumption DEF OtherRequest, Disconnect, link
<1>10. CASE AcceptSilent \/ ReadEnds \/ ClientVanishes \/ Cut
  BY <1>10 DEF AcceptSilent, ReadEnds, ClientVanishes, Cut, link
<1>11. CASE ReadWaits
  BY <1>2, <1>11 DEF ReadWaits, link
<1>12. ASSUME NEW a \in Axes, HeadReads(a) PROVE SessionInv'
  BY <1>12 DEF HeadReads
<1>13. CASE UNCHANGED vars
  BY <1>13 DEF vars
<1> QED
  BY <1>3, <1>4, <1>5, <1>6, <1>7, <1>8, <1>9, <1>10, <1>11, <1>12, <1>13
     DEF Next, Tick, Handle, Move_

LEMMA SessionAlways == Spec => [](BeliefInv /\ SessionInv)
<1>1. Init => SessionInv
  BY DEF Init, SessionInv
<1> QED BY <1>1, BeliefInit, BeliefStep, SessionStep, PTL DEF Spec

\* A link comes up only after jog_tick has run with it down, so no intent and
\* no frame of an earlier session reaches the head in a later one.
THEOREM SessionsCorrect == Spec => IntentDiesWithSession
<1>1. BeliefInv /\ SessionInv /\ [Next]_vars
        => [status # "UP" /\ status' = "UP" =>
              \A a \in Axes : ~Moving(ax[a]) /\ tx[a] = <<>>]_vars
  <2> SUFFICES ASSUME BeliefInv, SessionInv, Next, status # "UP", status' = "UP"
               PROVE  \A a \in Axes : ~Moving(ax[a]) /\ tx[a] = <<>>
    BY DEF vars
  <2>1. PumpFinish
    BY DEF Next, Select, Pump, PumpIdle, PumpConnect, PumpLost, PumpClose, Tick, TickDown, TickUp,
           Handle, Move_, Move, StopAll, OtherRequest, AcceptSilent, ReadWaits, ReadEnds,
           ClientVanishes, Cut, HeadReads, Transmit, Disconnect, link
  <2>2. status = "CONNECTING" /\ pc = "pump"
    BY <2>1 DEF PumpFinish
  <2> QED BY <2>2 DEF SessionInv, BeliefInv, TxOfSession
<1> QED BY <1>1, SessionAlways, PTL DEF Spec, IntentDiesWithSession

(***************************************************************************)
(* Deadlines.                                                              *)
(***************************************************************************)
InTime(s, late) ==
  Moving(s) => s.lease >= late /\ (s.speed # 0 => s.next >= late)
\* At a request no deadline is past; elsewhere none by more than a request.
TimeInv ==
  "stall" \notin Faults =>
    /\ pc # "reading"
    /\ \A a \in Axes : InTime(ax[a], IF pc = "handle" THEN 0 ELSE -HandleMax)

LEMMA InTimeWeaker ==
  ASSUME NEW s \in AxisState, InTime(s, 0)
  PROVE  InTime(s, -HandleMax)
BY TimeAssumption DEF InTime, AxisState

LEMMA TimeStep == BeliefInv /\ TimeInv /\ [Next]_vars => TimeInv'
<1> SUFFICES ASSUME BeliefInv, TimeInv, [Next]_vars, "stall" \notin Faults PROVE TimeInv'
  BY DEF TimeInv
<1>1. ax \in [Axes -> AxisState] /\ HandleMax \in Nat /\ pc # "reading"
  BY TimeAssumption DEF BeliefInv, TypeOK, TimeInv
<1>2. \A a \in Axes : InTime(ax[a], -HandleMax) /\ (pc = "handle" => InTime(ax[a], 0))
  BY <1>1, InTimeWeaker DEF TimeInv
<1>3. InTime(Stopped, 0) /\ InTime(Stopped, -HandleMax)
  BY StoppedType DEF InTime
<1>4. ASSUME NEW d \in 0..IdleSleep, Select(d) PROVE TimeInv'
  <2>1. \A a \in Axes : InTime(Aged(ax[a], d), -HandleMax)
    <3> SUFFICES ASSUME NEW a \in Axes PROVE InTime(Aged(ax[a], d), -HandleMax)
      OBVIOUS
    <3>1. /\ d \in Nat /\ ax[a] \in AxisState /\ InTime(ax[a], -HandleMax)
          /\ Moving(ax[a]) => /\ d = 0 \/ d <= ax[a].lease
                              /\ ax[a].speed # 0 => (d = 0 \/ d <= ax[a].next)
      BY <1>1, <1>2, <1>4, TimeAssumption DEF Select, MaySleep
    <3> QED BY <3>1, <1>1, TimeAssumption DEF InTime, Aged, Later, Moving, AxisState
  <2> QED BY <1>4, <2>1 DEF Select, TimeInv
<1>5. CASE Pump
  BY <1>2, <1>5 DEF Pump, PumpIdle, PumpConnect, PumpFinish, PumpLost, PumpClose, TimeInv
<1>6. CASE TickDown
  BY <1>3, <1>6 DEF TickDown, TimeInv
<1>7. CASE TickUp
  <2>1. \A a \in Axes : InTime(TickState(ax[a]), 0)
    BY <1>1, <1>3, TimeAssumption
       DEF InTime, TickState, Expired, RepeatDue, Moving, AxisState
  <2> QED BY <1>7, <2>1 DEF TickUp, TimeInv
<1>8. ASSUME NEW a \in Axes, NEW v \in Speeds \cup {0}, NEW g \in Gears \cup {0}, Move(a, v, g)
      PROVE  TimeInv'
  <2>1. InTime(SetState(ax[a], v, g), 0)
    <3>1. InTime(ax[a], 0) /\ ax[a] \in AxisState
      BY <1>1, <1>2, <1>8 DEF Move
    <3>2. InTime(SlowState(ax[a], g), 0)
      BY TimeAssumption DEF InTime, SlowState
    <3>3. ASSUME NEW w \in WireSpeeds PROVE InTime(FastState(ax[a], w), 0)
      BY <3>1, TimeAssumption, WireValues DEF InTime, FastState, Moving, AxisState
    <3>4. v # 0 => WireSpeed(v) \in WireSpeeds
      BY WireValues
    <3> QED BY <1>3, <3>2, <3>3, <3>4 DEF SetState
  <2>2. \A b \in Axes : InTime(ax'[b], -HandleMax)
    <3>0. SetState(ax[a], v, g) \in AxisState
      BY <1>1, SetSteps DEF Steps, BeliefInv, Coherence
    <3>1. InTime(SetState(ax[a], v, g), -HandleMax)
      BY <2>1, <3>0, InTimeWeaker
    <3> QED BY <1>1, <1>2, <1>8, <3>1 DEF Move
  <2> QED BY <1>8, <2>2 DEF Move, TimeInv
<1>9. CASE StopAll
  BY <1>3, <1>9 DEF StopAll, TimeInv
<1>10. ASSUME NEW d \in 0..HandleMax, OtherRequest(d) PROVE TimeInv'
  <2>1. \A a \in Axes : InTime(Aged(ax[a], d), -HandleMax)
    <3> SUFFICES ASSUME NEW a \in Axes PROVE InTime(Aged(ax[a], d), -HandleMax)
      OBVIOUS
    <3>1. d \in Nat /\ d <= HandleMax /\ ax[a] \in AxisState /\ InTime(ax[a], 0)
      BY <1>1, <1>2, <1>10 DEF OtherRequest
    <3> QED BY <3>1, <1>1, TimeAssumption DEF InTime, Aged, Later, Moving, AxisState
  <2> QED BY <1>10, <2>1 DEF OtherRequest, TimeInv
<1>11. CASE AcceptSilent \/ ReadEnds \/ ReadWaits
  BY <1>1, <1>11 DEF AcceptSilent, ReadEnds, ReadWaits
<1>12. CASE ClientVanishes \/ Cut
  BY <1>12 DEF ClientVanishes, Cut, TimeInv
<1>13. ASSUME NEW a \in Axes, HeadReads(a) PROVE TimeInv'
  BY <1>13 DEF HeadReads, TimeInv
<1>14. CASE UNCHANGED vars
  BY <1>14 DEF vars, TimeInv
<1> QED
  BY <1>4, <1>5, <1>6, <1>7, <1>8, <1>9, <1>10, <1>11, <1>12, <1>13, <1>14
     DEF Next, Tick, Handle, Move_

LEMMA TimeAlways == Spec => [](BeliefInv /\ TimeInv)
<1>1. Init => TimeInv
  BY StoppedType, TimeAssumption DEF Init, TimeInv, InTime
<1> QED BY <1>1, BeliefInit, BeliefStep, TimeStep, PTL DEF Spec

\* The sleep chosen by jog_next_deadline_ms keeps every stop and every repeat
\* within the length of one request.
THEOREM StopOnTimeCorrect == Spec => []StopOnTime
<1>1. BeliefInv /\ TimeInv => StopOnTime
  BY TimeAssumption DEF BeliefInv, TypeOK, TimeInv, InTime, StopOnTime, AxisState
<1> QED BY <1>1, TimeAlways, PTL

\* The link under the jog is the abstract one.
THEOREM JogUsesSession == Spec => ImplementsSession
<1> DEFINE held == \E a \in Axes : tx[a] # <<>>
<1>1. Init => Session!Init
  BY DEF Init, Session!Init
<1>2. BeliefInv /\ [Next]_vars => [Session!Next]_(Session!vars)
  <2> SUFFICES ASSUME BeliefInv, [Next]_vars PROVE [Session!Next]_(Session!vars)
    OBVIOUS
  <2> USE DEF Session!Next, Session!vars
  <2>1. (status # "UP" => ~held) /\ (status' # "UP" => ~held')
    BY BeliefStep DEF BeliefInv, TxOfSession
  <2>2. CASE status' = "DOWN"
    BY <2>1, <2>2 DEF Session!End
  <2>3. CASE status = "UP" /\ status' = "UP"
    BY <2>3 DEF Session!Accept
  <2>4. CASE tx' = tx /\ status' = status
    BY <2>4
  <2>5. CASE PumpConnect
    BY <2>1, <2>5 DEF PumpConnect, Session!Connect
  <2>6. CASE PumpFinish
    BY <2>1, <2>2, <2>6 DEF PumpFinish, Session!Establish
  <2>7. CASE UNCHANGED vars
    BY <2>4, <2>7 DEF vars
  <2>8. CASE Next
    <3>1. \/ PumpConnect \/ PumpFinish \/ status' = "DOWN"
          \/ (status = "UP" /\ status' = "UP") \/ (tx' = tx /\ status' = status)
      <4>1. CASE \E a \in Axes : HeadReads(a)
        <5>1. PICK a \in Axes : HeadReads(a)
          BY <4>1
        <5>2. status' = status /\ tx[a] # <<>>
          BY <5>1 DEF HeadReads
        <5> QED BY <2>1, <5>2
      <4>2. CASE ~(\E a \in Axes : HeadReads(a))
        BY <2>8, <4>2 DEF Next, Select, Pump, PumpIdle, PumpLost, PumpClose, Tick, TickDown, TickUp,
           Handle, Move_, Move, StopAll, OtherRequest, AcceptSilent, ReadWaits, ReadEnds,
           ClientVanishes, Cut, Transmit, Disconnect, link
      <4> QED BY <4>1, <4>2
    <3> QED BY <3>1, <2>2, <2>3, <2>4, <2>5, <2>6
  <2> QED BY <2>7, <2>8
<1> QED BY <1>1, <1>2, BeliefAlways, PTL DEF Spec, ImplementsSession, Session!Spec
=============================================================================
