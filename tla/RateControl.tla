---------------------------- MODULE RateControl ----------------------------
(***************************************************************************)
(* Sidereal rate control: the planner (polaris-rate-plan.c), the clock     *)
(* driven scheduler (polaris-rate-scheduler.c), the wire adapter           *)
(* (polaris-rate-wire.c) and the fake head with its watchdog               *)
(* (polaris-rate-fake-head.c), composed as test_rate_fake_head.c composes  *)
(* them: every command of a scheduler tick is encoded and delivered at     *)
(* once.                                                                   *)
(*                                                                         *)
(* Rates are in units of 0.0001 degree per second, time in units of 25 ms, *)
(* so that the four intervals of the code are whole numbers.               *)
(***************************************************************************)
EXTENDS Integers, FiniteSetsExt

CONSTANTS Axes,      \* the motor axes (POLARIS_RATE_AXES of them)
          Targets,   \* the average rates a caller asks the scheduler for
          Requests   \* requests (of any axes) the planner is checked on

VARIABLES plan,      \* the scheduler's plan, or NoPlan
          active,    \* per axis: the point last commanded, or NoPoint
          since,     \* per axis: time since last_switch_s, up to MinDwell
          phase,     \* time since cycle_start_s, modulo ReverseCycle
          stopSent,  \* per axis: the STOP of this plan has been emitted
          moving,    \* per axis, at the head: the point it runs, or NoPoint
          silent     \* per axis, at the head: time since last_update_s

vars == <<plan, active, since, phase, stopSent, moving, silent>>

MinDwell == 3        \* POLARIS_RATE_MIN_DWELL_S            0.075 s
Cycle == 10          \* POLARIS_RATE_CYCLE_S                0.25 s
ReverseCycle == 20   \* POLARIS_RATE_REVERSE_CYCLE_S        0.50 s
Watchdog == 16       \* POLARIS_RATE_FAKE_HEAD_WATCHDOG_S   0.400 s
Levels == 1..5

SlowDps == << <<59, 119>>, <<179, 295>>, <<474, 593>>, <<896, 1193>>, <<2088, 2402>> >>

Point(l, key, state) ==
    [dps |-> (IF key = 1 THEN -1 ELSE 1) * SlowDps[l][state],
     key |-> key, state |-> state, level |-> l]
Points == {Point(l, key, state) : l \in Levels, key \in {0, 1}, state \in {1, 2}}
NoPoint == [dps |-> 0, key |-> 0, state |-> 0, level |-> 0]
NoPlan == [level |-> -1]

\* The four points of a level, slowest (most negative) first.
MakeLadder(l) == <<Point(l, 1, 2), Point(l, 1, 1), Point(l, 0, 1), Point(l, 0, 2)>>

----------------------------------------------------------------------------
(* The planner. The share of the cycle spent at the high point is          *)
(* num / den; the average rate is then low + num / den * (high - low).     *)

Pair(lo, hi, n, d) == [mode |-> "slow", low |-> lo, high |-> hi, num |-> n, den |-> d]
Stop == [mode |-> "stop", low |-> NoPoint, high |-> NoPoint, num |-> 0, den |-> 1]

Bracket(t, l) ==
    LET rung == MakeLadder(l)
        above == {i \in 2..4 : t <= rung[i].dps}
        top == IF t <= rung[1].dps THEN 1 ELSE 4
    IN  IF t <= rung[1].dps \/ above = {}
        THEN Pair(rung[top], rung[top], 1, 1)
        ELSE LET i == Min(above)
             IN  Pair(rung[i - 1], rung[i],
                      t - rung[i - 1].dps, rung[i].dps - rung[i - 1].dps)

Magnitude(t) == IF t < 0 THEN -t ELSE t
Fits(t, l) == Magnitude(t) <= SlowDps[l][2]
Engaged(r) == {a \in DOMAIN r : r[a].target # 0 \/ r[a].hold}
InEnvelope(r) == \A a \in Engaged(r) : \E l \in Levels : Fits(r[a].target, l)

\* (defect) the level that suits the slowest axis
CommonLevelOfSlowest(r) ==
    IF Engaged(r) = {} THEN 0
    ELSE Min({Min({l \in Levels : Fits(r[a].target, l)}) : a \in Engaged(r)})
\* One level for all the axes: the highest that an engaged axis needs.
CommonLevel(r) == Max({0} \cup {Min({l \in Levels : Fits(r[a].target, l)}) : a \in Engaged(r)})

RatePlan(r) ==
    [level |-> CommonLevel(r),
     axis |-> [a \in DOMAIN r |-> IF a \in Engaged(r) THEN Bracket(r[a].target, CommonLevel(r))
                              ELSE Stop]]

----------------------------------------------------------------------------
(* The scheduler and the wire.                                             *)

CycleFor(x) == IF x.low.dps < 0 /\ x.high.dps > 0 THEN ReverseCycle ELSE Cycle
PointForPhase(x) ==
    IF (phase % CycleFor(x)) * x.den < x.num * CycleFor(x) THEN x.high ELSE x.low

SamePoint(p, q) == p.key = q.key /\ p.state = q.state /\ p.level = q.level

\* (defect) a change of point does not wait for the dwell time
EmitsSlowAtOnce(a) ==
    LET x == plan.axis[a] IN
    x.mode = "slow" /\ (active[a] # NoPoint => ~SamePoint(PointForPhase(x), active[a]))
\* Whether this tick emits a SLOW command, or a STOP, for the axis.
EmitsSlow(a) ==
    LET x == plan.axis[a] IN
    /\ x.mode = "slow"
    /\ active[a] # NoPoint => /\ ~SamePoint(PointForPhase(x), active[a])
                              /\ since[a] >= MinDwell
EmitsStop(a) == plan.axis[a].mode = "stop" /\ ~stopSent[a]

\* A frame is refused when its point is not a rung; a STOP names the last
\* active point and carries state 0.
Frame(a) ==
    IF EmitsSlow(a) THEN [args |-> PointForPhase(plan.axis[a]), stop |-> FALSE]
    ELSE [args |-> active[a], stop |-> TRUE]
Encodes(f) == f.args \in Points

HeadApply(a, f) ==
    IF f.stop THEN NoPoint ELSE f.args
\* (defect) the head takes no STOP
HeadRefusesStops(a, f) == ~f.stop
\* A STOP for an axis that does not move is refused.
HeadAccepts(a, f) == f.stop => moving[a] # NoPoint

----------------------------------------------------------------------------
Init ==
    /\ plan = NoPlan
    /\ active = [a \in Axes |-> NoPoint]
    /\ since = [a \in Axes |-> 0]
    /\ phase = 0
    /\ stopSent = [a \in Axes |-> FALSE]
    /\ moving = [a \in Axes |-> NoPoint]
    /\ silent = [a \in Axes |-> 0]

\* A new request: it is planned, and the scheduler takes the plan.
SetPlan ==
    /\ \E r \in [Axes -> [target : Targets, hold : BOOLEAN]] :
         /\ InEnvelope(r)
         /\ plan' = RatePlan(r)
    /\ phase' = 0
    /\ stopSent' = [a \in Axes |-> FALSE]
    /\ UNCHANGED <<active, since, moving, silent>>

\* polaris_rate_scheduler_tick, and the delivery of what it emits.
Tick ==
    /\ plan # NoPlan
    /\ LET delivered == {a \in Axes : /\ EmitsSlow(a) \/ EmitsStop(a)
                                      /\ Encodes(Frame(a)) /\ HeadAccepts(a, Frame(a))}
       IN  /\ moving' = [a \in Axes |-> IF a \in delivered THEN HeadApply(a, Frame(a))
                                        ELSE moving[a]]
           /\ silent' = [a \in Axes |-> IF a \in delivered THEN 0 ELSE silent[a]]
    /\ active' = [a \in Axes |-> IF EmitsSlow(a) THEN PointForPhase(plan.axis[a])
                                 ELSE IF EmitsStop(a) THEN NoPoint ELSE active[a]]
    /\ since' = [a \in Axes |-> IF EmitsSlow(a) THEN 0 ELSE since[a]]
    /\ stopSent' = [a \in Axes |-> plan.axis[a].mode = "stop"]
    /\ UNCHANGED <<plan, phase>>

\* polaris_rate_fake_head_tick: the head's lease on each axis.
HeadTick ==
    /\ \E a \in Axes : moving[a] # NoPoint /\ silent[a] >= Watchdog
    /\ LET stale(a) == moving[a] # NoPoint /\ silent[a] >= Watchdog
       IN  /\ moving' = [a \in Axes |-> IF stale(a) THEN NoPoint ELSE moving[a]]
           /\ silent' = [a \in Axes |-> IF stale(a) THEN 0 ELSE silent[a]]
    /\ UNCHANGED <<plan, active, since, phase, stopSent>>

\* The monotonic clock, 25 ms on.
Pass ==
    /\ phase' = (phase + 1) % ReverseCycle
    /\ since' = [a \in Axes |-> Min({MinDwell, since[a] + 1})]
    /\ silent' = [a \in Axes |-> Min({Watchdog, silent[a] + 1})]
    /\ UNCHANGED <<plan, active, stopSent, moving>>

Next == SetPlan \/ Tick \/ HeadTick \/ Pass

Spec == Init /\ [][Next]_vars

----------------------------------------------------------------------------
AxisPlans == [mode : {"stop", "slow"}, low : Points \cup {NoPoint},
              high : Points \cup {NoPoint}, num : Int, den : Int]

(* The types of the seven variables. *)
TypeOK ==
    /\ plan \in {NoPlan} \cup [level : 0..5, axis : [Axes -> AxisPlans]]
    /\ active \in [Axes -> Points \cup {NoPoint}]
    /\ since \in [Axes -> 0..MinDwell]
    /\ phase \in 0..(ReverseCycle - 1)
    /\ stopSent \in [Axes -> BOOLEAN]
    /\ moving \in [Axes -> Points \cup {NoPoint}]
    /\ silent \in [Axes -> 0..Watchdog]

(* The plan against its definition: every engaged axis runs two points of  *)
(* the one level, neighbours on the ladder, that average to exactly the    *)
(* rate asked for (a hold, to zero, by the two slow points of opposite     *)
(* direction), and no lower level could carry every axis.                  *)
SoundFor(r, p) ==
    /\ \A a \in DOMAIN r :
         LET x == p.axis[a]
             ladder == {MakeLadder(p.level)[i] : i \in 1..4}
         IN  IF a \notin Engaged(r) THEN x.mode = "stop"
             ELSE /\ x.mode = "slow"
                  /\ {x.low, x.high} \subseteq ladder
                  /\ \A q \in ladder : q.dps <= x.low.dps \/ x.high.dps <= q.dps
                  /\ x.low.dps * x.den + x.num * (x.high.dps - x.low.dps)
                       = r[a].target * x.den
                  /\ r[a].target = 0 =>
                        <<x.low, x.high, 2 * x.num>> =
                            <<Point(p.level, 1, 1), Point(p.level, 0, 1), x.den>>
    /\ \A l \in Levels : l < p.level => \E a \in Engaged(r) : ~Fits(r[a].target, l)

PlanSound == \A r \in Requests : InEnvelope(r) => SoundFor(r, RatePlan(r))

(* The head never runs an axis the scheduler has given up: what moves at   *)
(* the head is the point the scheduler last commanded, and once the STOP   *)
(* of a plan is out the axis stands. (The converse fails: the head's       *)
(* watchdog may stop an axis whose point does not change for 0.4 s.)       *)
HeadFollows ==
    \A a \in Axes :
        /\ moving[a] # NoPoint => moving[a] = active[a]
        /\ plan # NoPlan /\ stopSent[a] => moving[a] = NoPoint

(* An axis that moves is never given another point within the dwell time   *)
(* of the MCU, whatever is replanned in between.                           *)
DwellKept ==
    [][\A a \in Axes :
         moving[a] # NoPoint /\ moving'[a] # NoPoint /\ moving'[a] # moving[a]
            => silent[a] >= MinDwell]_vars
============================================================================
