--------------------------- MODULE LaunchBackoff ---------------------------
(***************************************************************************)
(* The crash-loop backoff of the wrapper (pgphoto.wrapper.in): how long a  *)
(* launch waits, from the record the launch before it left.  Here one      *)
(* wrapper runs at a time and nobody restarts pgphoto by hand, which would *)
(* remove the record; CameraLaunch has the interleavings.                  *)
(***************************************************************************)
EXTENDS FiniteSets, Integers

CONSTANTS
  Delays,   \* the delay of each COUNT: [0..4 -> Nat], growing from 0
  Stable,   \* 120 seconds
  MaxDown   \* the watchdog launches again within this time

Counts == DOMAIN Delays
Last == Cardinality(Counts) - 1

VARIABLES
  phase,  \* the wrapper waits, pgphoto is up, or neither runs
  known,  \* BACKOFF_FILE exists and is well formed
  count,  \* the COUNT in it
  age,    \* NOW - LAST, to Stable; -1 when the clock says LAST is yet to come
  left,   \* what is left of DELAY
  down,   \* how long nothing has run, to MaxDown
  life,   \* history: how long the last pgphoto lived, to Stable
  starts, \* history, until the clock is set: the ages of the starts younger than Stable
  clockSet \* the clock of the device was set

vars == <<phase, known, count, age, left, down, life, starts, clockSet>>

Capped(t, cap) == IF t > cap THEN cap ELSE t

Init ==
  /\ phase = "down" /\ known = FALSE /\ count = 0 /\ age = Stable
  /\ left = 0 /\ down = 0 /\ life = Stable /\ starts = {}
  /\ clockSet = FALSE

\* (defect) a launch counts from the one before it only when that is very recent
NextCountSoon ==
  IF ~known \/ age >= Delays[Last] THEN 0 ELSE Capped(count + 1, Last)
\* The COUNT of this launch: a record that is malformed, old or of a time to come
\* does not count.
NextCount == IF ~known \/ age >= Stable \/ age < 0 THEN 0 ELSE Capped(count + 1, Last)

\* A wrapper that is not refused: it writes the record, then it waits.
Launch ==
  /\ phase = "down"
  /\ count' = NextCount /\ known' = TRUE /\ age' = 0
  /\ left' = Delays[Capped(count', Last)]
  /\ phase' = "waiting" /\ down' = 0
  /\ UNCHANGED <<life, starts, clockSet>>

Start ==
  /\ phase = "waiting" /\ left = 0 /\ phase' = "up"
  /\ life' = 0 /\ starts' = IF clockSet THEN {} ELSE starts \union {0}
  /\ UNCHANGED <<known, count, age, left, down, clockSet>>

Dies ==
  /\ phase = "up" /\ phase' = "down"
  /\ UNCHANGED <<known, count, age, left, down, life, starts, clockSet>>

Tick ==
  /\ phase = "waiting" => left > 0
  /\ phase = "down" => down < MaxDown
  /\ age' \in IF age < 0 THEN {-1, 0} ELSE {Capped(age + 1, Stable)}
  /\ left' = IF phase = "waiting" THEN left - 1 ELSE left
  /\ down' = IF phase = "down" THEN down + 1 ELSE down
  /\ life' = IF phase = "up" THEN Capped(life + 1, Stable) ELSE life
  /\ starts' = {t + 1 : t \in {s \in starts : s + 1 < Stable}}
  /\ UNCHANGED <<phase, known, count, clockSet>>

\* The clock is set, once: the device has none of its own while it is off.
ClockSet ==
  /\ ~clockSet /\ clockSet' = TRUE
  /\ age' \in -1..Stable /\ starts' = {}
  /\ UNCHANGED <<phase, known, count, left, down, life>>

Next == Launch \/ Start \/ Dies \/ Tick \/ ClockSet
Spec == Init /\ [][Next]_vars

-----------------------------------------------------------------------------
TypeOK ==
  /\ phase \in {"down", "waiting", "up"} /\ known \in BOOLEAN /\ count \in Counts
  /\ age \in -1..Stable /\ life \in 0..Stable /\ down \in 0..MaxDown
  /\ left \in {Delays[c] - d : c \in Counts, d \in 0..Stable} \intersect Nat
  /\ starts \subseteq 0..(Stable - 1) /\ clockSet \in BOOLEAN

\* As long as the clock of the device is not set, a pgphoto that keeps dying,
\* whenever it does so, is not started more than five times in any two minutes.
StartsBounded == ~clockSet => Cardinality(starts) <= Cardinality(Counts)

\* Only a pgphoto that survived two minutes ends the sequence of delays.
SurvivorResets ==
  [][phase = "down" /\ phase' = "waiting" /\ known /\ count' = 0 => life >= Stable]_vars
=============================================================================
