--------------------------- MODULE Services_proofs ---------------------------
(***************************************************************************)
(* Proofs about the services, for every value of the constants: the USB    *)
(* supervisor, for every threshold and any number of attachments, and the  *)
(* background jobs, for any number of jobs and of crashes.                 *)
(*                                                                         *)
(* The supervisor. An identity that has left the bus never returns         *)
(* (BusInv). So an identity on the bus that the supervisor holds has been  *)
(* there since it was read, and what pgphoto opened in between is that     *)
(* one: BoundInv says so of the baseline, and of the target of a restart   *)
(* under way. PollsInv and SpaceInv tie the counters to the polls they     *)
(* stand for. These theorems are about Spec, the supervisor by itself.     *)
(***************************************************************************)
EXTENDS Services, FiniteSetTheorems, TLAPS

LEMMA Thresholds ==
  /\ Cooldown \in Nat /\ Cooldown >= 1 /\ RebindPolls \in Nat /\ RebindPolls >= 1
  /\ RetryPolls \in Nat /\ GracePolls \in Nat /\ MaxRestarts \in Nat
  /\ MaxAttached \in Nat /\ MaxAttached >= 1 /\ Longest \in Nat /\ Longest = Cooldown + RebindPolls
BY PollsAssumption, EnvAssumption DEF Cooldown, Longest

BudgetInv ==
  pc # "poll" /\ ~quarantined /\ MaxRestarts > 0 => restarts < MaxRestarts

\* An identity on the bus is the newest; none that is held is newer.
BusInv ==
  /\ camera \in {0, attached}
  /\ {baseline, candidate, qcandidate} \subseteq 0..attached

\* A held identity that is on the bus was there when pgphoto opened it, or it
\* was absorbed with pgphoto behind.
OnBus(id) == id = camera /\ camera # 0
BoundInv ==
  /\ OnBus(baseline) => pc = "poll" /\ ~quarantined /\ (bound \in {camera, Opening} \/ absorbed)
  /\ pc = "opened" /\ OnBus(Target) => bound = camera
  /\ grace > 0 => pc = "poll" /\ ~quarantined

\* The counters count polls that read the identity they are about.
PollsInv ==
  /\ grace > 0 => stable = 0 /\ ~quarantined
  /\ ~quarantined /\ stable > 0 => candidate = seen /\ stable <= seenFor
  /\ quarantined /\ qstable > 0 => qcandidate = seen /\ qstable <= seenFor
  /\ pc # "poll" => grace = 0 /\ seenFor >= IF quarantined THEN RebindPolls ELSE Cooldown
  /\ pc # "poll" => IF quarantined THEN qcandidate = seen ELSE candidate = seen

\* Between two restarts either the change is counted anew or the retry waits.
SpaceInv ==
  pc = "poll" =>
    \/ retry + sinceRestart >= Cooldown
    \/ ~quarantined /\ stable <= sinceRestart

-----------------------------------------------------------------------------
(* Types *)

LEMMA Zeros ==
  /\ 0 \in 0..RebindPolls /\ 0 \in 0..RetryPolls /\ 0 \in 0..Cooldown /\ 0 \in Ids
  /\ 0 \in 0..Longest /\ Cooldown \in 0..Cooldown /\ GracePolls \in 0..GracePolls
BY Thresholds DEF Ids

LEMMA InitTypeOK == Init => TypeOK /\ BudgetInv
<1> SUFFICES ASSUME Init PROVE TypeOK /\ BudgetInv OBVIOUS
<1>1. camera \in Ids
  <2>1. 1 \in Ids
    BY Thresholds DEF Ids
  <2> QED BY <2>1, Zeros DEF Init
<1>2. restarts \in Nat /\ (MaxRestarts > 0 => restarts <= MaxRestarts)
  BY Thresholds DEF Init
<1> QED BY <1>1, <1>2, Zeros DEF Init, TypeOK, BudgetInv

LEMMA ReadsTypes ==
  ASSUME TypeOK, Reads
  PROVE  /\ retry' \in 0..RetryPolls /\ seen' \in Ids /\ seenFor' \in 0..Longest
         /\ camera' = camera /\ attached' = attached /\ bound' = bound
BY Thresholds DEF TypeOK, Reads, Left, Capped, bus

LEMMA CountsTypes ==
  ASSUME TypeOK, Counts
  PROVE  sinceRestart' \in 0..Cooldown
BY Thresholds DEF TypeOK, Counts, Capped

LEMMA DebouncedTypes ==
  ASSUME TypeOK, Debounced
  PROVE  candidate' \in Ids /\ stable' \in 0..Cooldown
BY Thresholds DEF TypeOK, Debounced, Capped

LEMMA NextTypeOK == TypeOK /\ BudgetInv /\ [Next]_vars => TypeOK' /\ BudgetInv'
<1> SUFFICES ASSUME TypeOK, BudgetInv, [Next]_vars PROVE TypeOK' /\ BudgetInv' OBVIOUS
<1>1. CASE PollGrace
  <2>1. Reads /\ Counts /\ grace \in 0..GracePolls /\ grace > 0 /\ grace' = grace - 1
    BY <1>1 DEF PollGrace, TypeOK
  <2>2. grace' \in 0..GracePolls
    BY <2>1, Thresholds
  <2>3. baseline' \in Ids /\ candidate' \in Ids /\ stable' \in 0..Cooldown
    BY <1>1, Thresholds DEF PollGrace, TypeOK, change
  <2>4. absorbed' \in BOOLEAN
    BY <1>1, Zenon DEF PollGrace, TypeOK
  <2> QED BY <1>1, <2>1, <2>2, <2>3, <2>4, ReadsTypes, CountsTypes
      DEF PollGrace, TypeOK, BudgetInv, quarantine
<1>2. CASE PollWatch
  <2>1. Reads /\ Debounced /\ UNCHANGED <<restarts, grace, absorbed>>
    BY <1>2 DEF PollWatch
  <2>2. /\ pc' \in {"poll", "restart"} /\ sinceRestart' \in 0..Cooldown
        /\ quarantined' \in BOOLEAN /\ qcandidate' \in Ids /\ qstable' \in 0..RebindPolls
        /\ baseline' = baseline
    <3>1. candidate' \in Ids /\ pc = "poll"
      BY <2>1, DebouncedTypes DEF Reads
    <3>2. CASE BudgetSpent
      BY <3>1, <3>2, CountsTypes, Zeros DEF BudgetSpent
    <3>3. CASE Calls /\ UNCHANGED <<baseline, quarantine>>
      BY <3>3, Zeros DEF Calls, quarantine, TypeOK
    <3>4. CASE Counts /\ UNCHANGED <<pc, baseline, quarantine>>
      BY <3>1, <3>4, CountsTypes DEF quarantine, TypeOK
    <3> QED BY <1>2, <3>2, <3>3, <3>4 DEF PollWatch
  <2>3. BudgetInv'
    BY <1>2, Thresholds DEF PollWatch, Reads, BudgetSpent, Calls, Exhausted, TypeOK, BudgetInv
  <2> QED BY <2>1, <2>2, <2>3, ReadsTypes, DebouncedTypes DEF TypeOK
<1>3. CASE PollQuarantine
  <2>1. /\ Reads /\ Revalidated
        /\ UNCHANGED <<baseline, change, restarts, quarantined, grace, absorbed>>
    BY <1>3 DEF PollQuarantine
  <2>2. qcandidate' \in Ids /\ qstable' \in 0..RebindPolls
    BY <2>1, Thresholds DEF Revalidated, TypeOK, Capped
  <2>3. pc' \in {"poll", "restart"} /\ sinceRestart' \in 0..Cooldown
    BY <1>3, CountsTypes, Thresholds DEF PollQuarantine, Reads, Calls
  <2> QED BY <1>3, <2>1, <2>2, <2>3, ReadsTypes DEF PollQuarantine, TypeOK, BudgetInv, change
<1>4. CASE RestartOpens
  BY <1>4 DEF RestartOpens, TypeOK, BudgetInv, bus, change, quarantine, history
<1>5. CASE RestartWorks
  <2>1. baseline' \in Ids /\ candidate' \in Ids /\ stable' \in 0..Cooldown /\ retry' \in 0..RetryPolls
    BY <1>5, Thresholds DEF RestartWorks, Target, TypeOK
  <2>2. /\ restarts' \in Nat /\ (MaxRestarts > 0 => restarts' <= MaxRestarts)
        /\ quarantined' \in BOOLEAN /\ qcandidate' \in Ids /\ qstable' \in 0..RebindPolls
    <3>1. CASE quarantined
      <4>1. quarantined' = FALSE /\ qcandidate' = 0 /\ qstable' = 0 /\ restarts' = 0
        BY <1>5, <3>1 DEF RestartWorks
      <4>2. qcandidate' \in Ids /\ qstable' \in 0..RebindPolls
        BY <4>1, Zeros
      <4>3. restarts' \in Nat /\ (MaxRestarts > 0 => restarts' <= MaxRestarts)
        BY <4>1, Thresholds
      <4> QED BY <4>1, <4>2, <4>3
    <3>2. CASE ~quarantined
      BY <1>5, <3>2, Thresholds DEF RestartWorks, TypeOK, BudgetInv, quarantine
    <3> QED BY <3>1, <3>2
  <2> QED BY <1>5, <2>1, <2>2 DEF RestartWorks, TypeOK, BudgetInv, bus, pgphoto, history
<1>6. CASE RestartFails
  <2>1. /\ candidate' \in Ids /\ stable' \in 0..Cooldown /\ retry' \in 0..RetryPolls
        /\ qstable' \in 0..RebindPolls /\ bound' \in Ids \union {Opening}
    BY <1>6, Zeros, Thresholds DEF RestartFails, RetryLater, TypeOK, change
  <2>2. restarts' \in Nat /\ (MaxRestarts > 0 => restarts' <= MaxRestarts)
    BY <1>6, Thresholds DEF RestartFails, TypeOK, BudgetInv
  <2> QED BY <1>6, <2>1, <2>2 DEF RestartFails, TypeOK, BudgetInv, bus, history
<1>7. CASE Attach
  BY <1>7, Thresholds DEF Attach, TypeOK, BudgetInv, Ids, pgphoto, change, quarantine, history
<1>8. CASE Detach
  BY <1>8, Zeros DEF Detach, TypeOK, BudgetInv, pgphoto, change, quarantine, history
<1>9. CASE FirstOpen
  BY <1>9 DEF FirstOpen, TypeOK, BudgetInv, bus, change, quarantine, history
<1>10. CASE UNCHANGED vars
  BY <1>10 DEF vars, TypeOK, BudgetInv, bus, pgphoto, change, quarantine, history
<1> QED BY <1>1, <1>2, <1>3, <1>4, <1>5, <1>6, <1>7, <1>8, <1>9, <1>10 DEF Next

-----------------------------------------------------------------------------
(* The identities *)

LEMMA InitBound == Init => BusInv /\ BoundInv
BY Thresholds DEF Init, BusInv, BoundInv, OnBus, Opening

LEMMA NextBusInv == TypeOK /\ BusInv /\ [Next]_vars => BusInv'
<1> SUFFICES ASSUME TypeOK, BusInv, [Next]_vars PROVE BusInv' OBVIOUS
<1>0. attached \in Nat /\ 0 \in 0..attached
  BY Thresholds DEF TypeOK, Ids
<1> USE DEF BusInv
<1>1. CASE PollGrace
  BY <1>0, <1>1 DEF PollGrace, Reads, bus, change, quarantine
<1>2. CASE PollWatch
  <2>1. /\ UNCHANGED bus /\ baseline' = baseline
        /\ candidate' \in {baseline, camera, candidate}
        /\ qcandidate' \in {qcandidate, candidate'}
    BY <1>2 DEF PollWatch, Reads, Debounced, BudgetSpent, Calls, quarantine
  <2> QED BY <1>0, <2>1 DEF bus
<1>3. CASE PollQuarantine
  BY <1>0, <1>3 DEF PollQuarantine, Reads, Revalidated, bus, change
<1>4. CASE RestartOpens
  BY <1>4 DEF RestartOpens, bus, change, quarantine
<1>5. CASE RestartWorks
  BY <1>0, <1>5 DEF RestartWorks, Target, bus, quarantine
<1>6. CASE RestartFails
  BY <1>6 DEF RestartFails, bus, change
<1>7. CASE Attach
  <2>1. attached' = attached + 1 /\ camera' = attached' /\ UNCHANGED <<baseline, candidate, qcandidate>>
    BY <1>7 DEF Attach, change, quarantine
  <2> QED BY <1>0, <2>1
<1>8. CASE Detach
  BY <1>8 DEF Detach, change, quarantine
<1>9. CASE FirstOpen
  BY <1>9 DEF FirstOpen, bus, change, quarantine
<1>10. CASE UNCHANGED vars
  BY <1>10 DEF vars, bus, change, quarantine
<1> QED BY <1>1, <1>2, <1>3, <1>4, <1>5, <1>6, <1>7, <1>8, <1>9, <1>10 DEF Next

\* A call of restart_gphoto is made only when the baseline is not on the bus.
LEMMA ChangeStands ==
  ASSUME TypeOK, PollWatch, pc' = "restart" \/ quarantined'
  PROVE  camera # baseline /\ bound' = bound
<1>1. CASE stable' >= Cooldown
  BY <1>1, Thresholds DEF PollWatch, Debounced, Reads
<1>2. CASE ~(stable' >= Cooldown)
  BY <1>2 DEF PollWatch, Reads, quarantine
<1> QED BY <1>1, <1>2

LEMMA NextBoundInv ==
  TypeOK /\ BusInv /\ BoundInv /\ [Next]_vars => BoundInv'
<1> SUFFICES ASSUME TypeOK, BusInv, BoundInv, [Next]_vars PROVE BoundInv' OBVIOUS
<1> USE DEF BoundInv, OnBus
<1>0. attached \in Nat /\ camera \in {0, attached} /\ grace \in Nat
      /\ baseline <= attached /\ candidate <= attached /\ qcandidate <= attached
      /\ baseline \in Nat /\ candidate \in Nat /\ qcandidate \in Nat
  BY Thresholds DEF TypeOK, BusInv, Ids
<1>1. CASE PollGrace
  <2>1. /\ grace > 0 /\ grace' = grace - 1 /\ UNCHANGED <<pc, bound, camera, quarantined>>
        /\ pc = "poll" /\ ~quarantined
    BY <1>1 DEF PollGrace, Reads, quarantine, bus
  <2>2. CASE camera # baseline
    <3>1. absorbed' = (absorbed \/ bound \notin {Opening, camera})
      BY <1>1, <2>2 DEF PollGrace
    <3>2. bound' \in {camera', Opening} \/ absorbed'
      BY <2>1, <3>1
    <3> QED BY <1>0, <2>1, <3>2
  <2>3. CASE camera = baseline
    <3>1. UNCHANGED <<baseline, absorbed>>
      BY <1>1, <2>3 DEF PollGrace
    <3> QED BY <1>0, <2>1, <3>1
  <2> QED BY <2>2, <2>3
<1>2. CASE PollWatch
  <2>1. /\ UNCHANGED <<camera, bound, absorbed, baseline, grace>> /\ grace = 0 /\ ~quarantined
        /\ pc = "poll" /\ pc' \in {"poll", "restart"}
    BY <1>2 DEF PollWatch, Reads, BudgetSpent, Calls, bus
  <2>2. camera = baseline => pc' # "restart" /\ ~quarantined'
    BY <1>2, ChangeStands
  <2> QED BY <2>1, <2>2
<1>3. CASE PollQuarantine
  <2>1. /\ UNCHANGED <<camera, bound, absorbed, baseline, quarantined, grace>> /\ grace = 0 /\ quarantined
        /\ pc' \in {"poll", "restart"}
    BY <1>3 DEF PollQuarantine, Reads, Calls, bus
  <2> QED BY <2>1
<1>4. CASE RestartOpens
  <2>1. /\ UNCHANGED <<camera, baseline, candidate, quarantined, qcandidate, grace>>
        /\ bound' = camera /\ pc = "restart" /\ pc' = "opened"
    BY <1>4 DEF RestartOpens, bus, change, quarantine
  <2> QED BY <2>1
<1>5. CASE RestartWorks
  <2>1. /\ pc = "opened" /\ pc' = "poll" /\ baseline' = Target
        /\ UNCHANGED <<camera, bound, absorbed, grace>> /\ ~quarantined'
    BY <1>5 DEF RestartWorks, bus, pgphoto, quarantine
  <2> QED BY <2>1
<1>6. CASE RestartFails
  <2>1. pc # "poll" /\ pc' = "poll" /\ UNCHANGED <<camera, baseline, grace>>
    BY <1>6 DEF RestartFails, bus
  <2> QED BY <2>1, <1>0
<1>7. CASE Attach
  <2>1. camera' = attached + 1 /\ UNCHANGED <<pc, pgphoto, baseline, candidate, quarantined, qcandidate, grace>>
    BY <1>7 DEF Attach, change, quarantine
  <2>2. camera' # baseline' /\ camera' # Target'
    BY <1>0, <2>1 DEF Target
  <2> QED BY <2>1, <2>2 DEF pgphoto
<1>8. CASE Detach
  <2>1. camera' = 0 /\ UNCHANGED <<pc, bound, quarantined, grace>>
    BY <1>8 DEF Detach, pgphoto, quarantine
  <2> QED BY <2>1
<1>9. CASE FirstOpen
  <2>1. /\ UNCHANGED <<pc, camera, baseline, candidate, quarantined, qcandidate, grace>>
        /\ bound' = camera
    BY <1>9 DEF FirstOpen, bus, change, quarantine
  <2> QED BY <2>1 DEF Target
<1>10. CASE UNCHANGED vars
  BY <1>10 DEF vars, bus, pgphoto, change, quarantine, Target
<1> QED BY <1>1, <1>2, <1>3, <1>4, <1>5, <1>6, <1>7, <1>8, <1>9, <1>10 DEF Next

-----------------------------------------------------------------------------
(* The counters *)

LEMMA InitPolls == Init => PollsInv /\ SpaceInv
BY Thresholds DEF Init, PollsInv, SpaceInv

LEMMA NextPollsInv == TypeOK /\ PollsInv /\ [Next]_vars => PollsInv'
<1> SUFFICES ASSUME TypeOK, PollsInv, [Next]_vars PROVE PollsInv' OBVIOUS
<1> USE DEF PollsInv
<1>0. /\ stable \in Nat /\ stable <= Cooldown /\ qstable \in Nat /\ qstable <= RebindPolls
      /\ seenFor \in Nat /\ seenFor <= Longest /\ grace \in Nat
  BY Thresholds DEF TypeOK
<1>1. CASE PollGrace
  <2>1. /\ grace > 0 /\ grace' = grace - 1 /\ pc = "poll" /\ pc' = pc /\ UNCHANGED quarantined
        /\ stable' \in {0, stable}
    BY <1>1 DEF PollGrace, Reads, change, quarantine
  <2> QED BY <1>0, <2>1
<1>2. CASE PollWatch
  <2>1. /\ Reads /\ Debounced /\ grace' = grace /\ grace = 0 /\ ~quarantined /\ pc = "poll"
    BY <1>2 DEF PollWatch, Reads
  <2>2. seenFor' = IF camera = seen THEN Capped(seenFor + 1, Longest) ELSE 1
    BY <2>1 DEF Reads
  <2>3. stable' \in Nat /\ (stable' > 0 => candidate' = camera /\ stable' <= seenFor')
    BY <1>0, <2>1, <2>2, Thresholds DEF Debounced, Capped
  <2>4. seen' = camera /\ seenFor' \in Nat
    BY <1>0, <2>1, <2>2, Thresholds DEF Reads, Capped
  <2>5. CASE stable' >= Cooldown /\ retry' = 0 /\ Exhausted
    BY <1>2, <2>1, <2>5 DEF PollWatch, BudgetSpent
  <2>6. CASE stable' >= Cooldown /\ retry' = 0 /\ ~Exhausted
    <3>1. pc' = "restart" /\ ~quarantined'
      BY <1>2, <2>1, <2>6 DEF PollWatch, Calls, quarantine
    <3>2. seenFor' >= Cooldown /\ candidate' = seen'
      BY <2>3, <2>4, <2>6, Thresholds
    <3> QED BY <2>1, <2>3, <2>4, <3>1, <3>2
  <2>7. CASE ~(stable' >= Cooldown /\ retry' = 0)
    <3>1. pc' = "poll" /\ ~quarantined'
      BY <1>2, <2>1, <2>7 DEF PollWatch, quarantine
    <3> QED BY <2>1, <2>3, <2>4, <3>1
  <2> QED BY <2>5, <2>6, <2>7
<1>3. CASE PollQuarantine
  <2>1. Reads /\ Revalidated /\ grace' = grace /\ grace = 0 /\ quarantined /\ quarantined' /\ pc = "poll"
    BY <1>3 DEF PollQuarantine, Reads
  <2>2. seenFor' = (IF camera = seen THEN Capped(seenFor + 1, Longest) ELSE 1) /\ seen' = camera
    BY <2>1 DEF Reads
  <2>3. qstable' \in Nat /\ seenFor' \in Nat /\ qcandidate' = camera /\ qstable' <= seenFor'
    BY <1>0, <2>1, <2>2, Thresholds DEF Revalidated, Capped
  <2>4. pc' # "poll" => qstable' >= RebindPolls
    BY <1>3, <2>1 DEF PollQuarantine
  <2> QED BY <2>1, <2>2, <2>3, <2>4, Thresholds
<1>4. CASE RestartOpens
  BY <1>4 DEF RestartOpens, bus, change, quarantine, history
<1>5. CASE RestartWorks
  <2>1. /\ pc # "poll" /\ pc' = "poll" /\ stable' = 0 /\ ~quarantined' /\ grace' = grace
    BY <1>5 DEF RestartWorks, quarantine
  <2> QED BY <2>1, <1>0
<1>6. CASE RestartFails
  <2>1. /\ pc # "poll" /\ pc' = "poll" /\ grace' = grace
        /\ UNCHANGED <<candidate, quarantined, qcandidate, seen, seenFor>>
    BY <1>6 DEF RestartFails, change, history
  <2>2. IF quarantined THEN qstable' = RebindPolls ELSE stable' = Cooldown
    BY <1>6 DEF RestartFails
  <2> QED BY <1>0, <2>1, <2>2, Thresholds
<1>7. CASE Attach
  BY <1>7 DEF Attach, change, quarantine, history
<1>8. CASE Detach
  BY <1>8 DEF Detach, change, quarantine, history
<1>9. CASE FirstOpen
  BY <1>9 DEF FirstOpen, bus, change, quarantine, history
<1>10. CASE UNCHANGED vars
  BY <1>10 DEF vars, change, quarantine, history
<1> QED BY <1>1, <1>2, <1>3, <1>4, <1>5, <1>6, <1>7, <1>8, <1>9, <1>10 DEF Next

LEMMA NextSpaceInv ==
  RetryPolls >= Cooldown /\ TypeOK /\ SpaceInv /\ [Next]_vars => SpaceInv'
<1> SUFFICES ASSUME RetryPolls >= Cooldown, TypeOK, SpaceInv, [Next]_vars, pc' = "poll"
             PROVE  \/ retry' + sinceRestart' >= Cooldown
                    \/ ~quarantined' /\ stable' <= sinceRestart'
  BY DEF SpaceInv
<1> USE DEF SpaceInv
<1>0. /\ stable \in Nat /\ stable <= Cooldown /\ retry \in Nat
      /\ sinceRestart \in Nat /\ sinceRestart <= Cooldown
  BY Thresholds DEF TypeOK
\* A poll that calls nothing counts on.
<1>1. ASSUME Reads, Counts
      PROVE  /\ retry + sinceRestart >= Cooldown => retry' + sinceRestart' >= Cooldown
             /\ sinceRestart' \in Nat /\ sinceRestart' >= 1 /\ sinceRestart' >= sinceRestart
             /\ stable <= sinceRestart => Capped(stable + 1, Cooldown) <= sinceRestart'
             /\ pc = "poll" /\ retry' \in Nat
  BY <1>0, <1>1, Thresholds DEF Reads, Counts, Left, Capped
<1>2. CASE PollGrace
  <2>1. Reads /\ Counts /\ UNCHANGED quarantined /\ stable' \in {0, stable}
    BY <1>2 DEF PollGrace, change, quarantine
  <2> QED BY <2>1, <1>1, <1>0
<1>3. CASE PollWatch
  <2>1. Reads /\ Counts /\ ~quarantined
    BY <1>3 DEF PollWatch, Calls, BudgetSpent
  <2>2. stable' \in {0, 1, Capped(stable + 1, Cooldown)}
    BY <1>3 DEF PollWatch, Debounced
  <2>3. stable' \in Nat /\ (stable <= sinceRestart => stable' <= sinceRestart')
    BY <2>1, <2>2, <1>0, <1>1, Thresholds DEF Capped
  <2>4. CASE quarantined'
    <3>1. stable' >= Cooldown /\ retry' = 0
      BY <1>3, <2>1, <2>4 DEF PollWatch, quarantine
    <3> QED BY <3>1, <2>1, <2>3, <1>0, <1>1, Thresholds
  <2>5. CASE ~quarantined'
    BY <2>1, <2>3, <2>5, <1>1
  <2> QED BY <2>4, <2>5
<1>4. CASE PollQuarantine
  <2>1. Reads /\ Counts /\ quarantined
    BY <1>4 DEF PollQuarantine, Calls
  <2> QED BY <2>1, <1>1
<1>5. CASE RestartOpens
  BY <1>5 DEF RestartOpens
<1>6. CASE RestartWorks
  <2>1. stable' = 0 /\ ~quarantined' /\ sinceRestart' = sinceRestart
    BY <1>6 DEF RestartWorks, quarantine, history
  <2> QED BY <2>1, <1>0
<1>7. CASE RestartFails
  BY <1>0, <1>7, Thresholds DEF RestartFails, RetryLater, history
<1>8. CASE Attach \/ Detach \/ FirstOpen \/ UNCHANGED vars
  <2>1. UNCHANGED <<pc, retry, stable, quarantined, sinceRestart>>
    BY <1>8 DEF Attach, Detach, FirstOpen, vars, change, quarantine, history
  <2> QED BY <2>1
<1> QED BY <1>2, <1>3, <1>4, <1>5, <1>6, <1>7, <1>8 DEF Next

LEMMA PollsAlways == Spec => [](TypeOK /\ BudgetInv /\ PollsInv)
<1>1. Init => TypeOK /\ BudgetInv /\ PollsInv
  BY InitTypeOK, InitPolls
<1>2. TypeOK /\ BudgetInv /\ PollsInv /\ [Next]_vars => (TypeOK /\ BudgetInv /\ PollsInv)'
  BY NextTypeOK, NextPollsInv
<1> QED BY <1>1, <1>2, PTL DEF Spec

-----------------------------------------------------------------------------
(* The theorems *)

\* Every variable keeps its type; in particular the restarts stay on budget.
THEOREM TypeCorrect == Spec => []TypeOK
<1>1. Spec => [](TypeOK /\ BudgetInv)
  BY InitTypeOK, NextTypeOK, PTL DEF Spec
<1> QED BY <1>1, PTL

\* What the supervisor is content with is what pgphoto has open, whenever it opens
\* the camera, whatever the thresholds and however restarts fail; unless the startup
\* grace absorbed a change after pgphoto had opened the camera.
THEOREM ContentCorrect == Spec => []ContentMeansBound
<1>1. Init => TypeOK /\ BudgetInv /\ BusInv /\ BoundInv
  BY InitTypeOK, InitBound
<1>2. /\ TypeOK /\ BudgetInv /\ BusInv /\ BoundInv /\ [Next]_vars
      => (TypeOK /\ BudgetInv /\ BusInv /\ BoundInv)'
  BY NextTypeOK, NextBusInv, NextBoundInv
<1>3. BoundInv => ContentMeansBound
  BY DEF BoundInv, OnBus, Content, ContentMeansBound
<1> QED BY <1>1, <1>2, <1>3, PTL DEF Spec

\* No restart for an identity that was not the same for long enough.
THEOREM DebouncedCorrect == Spec => RestartsDebounced
<1>1. TypeOK /\ BudgetInv /\ PollsInv /\ [Next]_vars
      => [pc = "poll" /\ pc' = "restart"
            => seenFor' >= IF quarantined THEN RebindPolls ELSE Cooldown]_vars
  <2> SUFFICES ASSUME TypeOK, PollsInv, [Next]_vars, pc = "poll", pc' = "restart"
               PROVE  seenFor' >= IF quarantined THEN RebindPolls ELSE Cooldown
    OBVIOUS
  <2>1. PollsInv'
    BY NextPollsInv
  <2>2. quarantined' = quarantined
    BY DEF Next, PollGrace, PollWatch, PollQuarantine, BudgetSpent, Calls, RestartOpens,
           RestartWorks, RestartFails, Attach, Detach, FirstOpen, vars, quarantine
  <2> QED BY <2>1, <2>2 DEF PollsInv
<1> QED BY <1>1, PollsAlways, PTL DEF Spec, RestartsDebounced

\* Two restarts are Cooldown polls apart, the quarantine and retries included,
\* when a retry waits at least as long (as shipped: both are 5).
THEOREM SpacedCorrect == RetryPolls >= Cooldown => (Spec => RestartsSpaced)
<1> SUFFICES ASSUME RetryPolls >= Cooldown PROVE Spec => RestartsSpaced OBVIOUS
<1>1. Init => TypeOK /\ BudgetInv /\ SpaceInv
  BY InitTypeOK, InitPolls
<1>2. TypeOK /\ BudgetInv /\ SpaceInv /\ [Next]_vars => (TypeOK /\ BudgetInv /\ SpaceInv)'
  BY NextTypeOK, NextSpaceInv
<1>3. TypeOK /\ SpaceInv /\ [Next]_vars
      => [pc = "poll" /\ pc' = "restart" => sinceRestart >= Cooldown - 1]_vars
  <2> SUFFICES ASSUME TypeOK, SpaceInv, [Next]_vars, pc = "poll", pc' = "restart"
               PROVE  sinceRestart >= Cooldown - 1
    OBVIOUS
  <2>0. /\ stable \in Nat /\ retry \in Nat /\ sinceRestart \in Nat
        /\ \/ retry + sinceRestart >= Cooldown
           \/ ~quarantined /\ stable <= sinceRestart
    BY Thresholds DEF TypeOK, SpaceInv
  <2>1. CASE PollWatch
    <3>1. Left(retry) = 0 /\ stable' >= Cooldown /\ Debounced
      BY <2>1 DEF PollWatch, Reads, quarantine
    <3>2. stable + 1 >= Cooldown /\ retry <= 1
      BY <2>0, <3>1, Thresholds DEF Debounced, Capped, Left
    <3> QED BY <2>0, <3>2, Thresholds
  <2>2. CASE PollQuarantine
    <3>1. Left(retry) = 0 /\ quarantined
      BY <2>2 DEF PollQuarantine, Reads
    <3>2. retry <= 1
      BY <2>0, <3>1 DEF Left
    <3> QED BY <2>0, <3>1, <3>2, Thresholds
  <2>3. PollWatch \/ PollQuarantine
    BY DEF Next, PollGrace, RestartOpens, RestartWorks, RestartFails, Attach, Detach, FirstOpen,
           vars
  <2> QED BY <2>1, <2>2, <2>3
<1> QED BY <1>1, <1>2, <1>3, PTL DEF Spec, RestartsSpaced

-----------------------------------------------------------------------------
(***************************************************************************)
(* WebJobs. Until a job has escaped its files, one wrapper is alive, the   *)
(* request in progress has seen it run if it does, and the pid on file is  *)
(* its own from the moment it is written (Tied). A solution that can be    *)
(* read is that of the epoch on file, and no job is left to replace either *)
(* of them before the request is answered (FrameTied).                     *)
(***************************************************************************)
JobTypes ==
  /\ kind \in Web!Kinds /\ loose \in BOOLEAN
  /\ pidfile \in 0..MaxJobs /\ result \in 0..MaxJobs /\ epoch \in 0..MaxJobs
  /\ wrapper \in [Web!Jobs -> {"none", "young", "working", "closing", "dead"}]
  /\ script \in [Web!Jobs -> {"none", "running", "timed", "solved", "failed", "dead"}]
  /\ asked \in [op : {"none", "start", "cancel", "poll", "apply"}, running : BOOLEAN,
                solution : 0..MaxJobs]
  /\ applied \in (0..MaxJobs) \X (0..MaxJobs)

Live(j) == wrapper[j] \in {"young", "working", "closing"}
Fresh(j) == wrapper[j] \in {"young", "working"}
Tied ==
  /\ \A i, j \in Web!Jobs : Live(i) /\ Live(j) => i = j
  /\ \A j \in Web!Jobs : Fresh(j) => status = "running"
  /\ \A j \in Web!Jobs : wrapper[j] = "working" => pidfile = j
  /\ \A j \in Web!Jobs : Web!Executing(j) => wrapper[j] = "working"
  /\ asked.op \in {"start", "cancel", "poll"} => \A j \in Web!Jobs : Fresh(j) => asked.running

\* A job that may yet write the result or the epoch.
Pending(j) == Fresh(j) /\ script[j] \in {"none", "running", "timed"}
FrameTied ==
  /\ result # 0 => result = epoch /\ \A j \in Web!Jobs : ~Pending(j)
  /\ \A j \in Web!Jobs : script[j] = "timed" => epoch = j
  /\ asked.op = "apply" => asked.solution = epoch /\ \A j \in Web!Jobs : ~Pending(j)
  /\ applied[1] = applied[2]

JobInv == JobTypes /\ (loose \/ (Tied /\ FrameTied))

LEMMA JobSteps == [ServicesNext]_servicesVars => [Web!Next]_(Web!vars)
BY DEF ServicesNext, OnlyPart, servicesVars, jobVars, Web!vars

\* What a kill of the group leaves: nothing of that job runs, the others are as they were.
LEMMA Killed ==
  ASSUME JobTypes, NEW p \in 0..MaxJobs, Web!KillGroup(p)
  PROVE  /\ wrapper' \in [Web!Jobs -> {"none", "young", "working", "closing", "dead"}]
         /\ script' \in [Web!Jobs -> {"none", "running", "timed", "solved", "failed", "dead"}]
         /\ \A i \in Web!Jobs : wrapper'[i] \in {wrapper[i], "dead"} /\ script'[i] \in {script[i], "dead"}
         /\ \A i \in Web!Jobs : i = p /\ Live(i) => wrapper'[i] = "dead" /\ script'[i] \notin {"running", "timed"}
<1> USE JobsAssumption DEF JobTypes, Web!Jobs, Web!Alive
<1>1. CASE Web!Alive(p)
  <2>1. p \in Web!Jobs /\ wrapper' = [wrapper EXCEPT ![p] = "dead"]
    BY <1>1 DEF Web!KillGroup
  <2>2. CASE script[p] \in {"running", "timed"}
    <3>1. script' = [script EXCEPT ![p] = "dead"]
      BY <1>1, <2>2 DEF Web!KillGroup
    <3> QED BY <2>1, <3>1
  <2>3. CASE script[p] \notin {"running", "timed"}
    <3>1. script' = script
      BY <1>1, <2>3 DEF Web!KillGroup
    <3> QED BY <2>1, <2>3, <3>1
  <2> QED BY <2>2, <2>3
<1>2. CASE ~Web!Alive(p)
  <2>1. wrapper' = wrapper /\ script' = script
    BY <1>2 DEF Web!KillGroup
  <2> QED BY <1>2, <2>1 DEF Live
<1> QED BY <1>1, <1>2

LEMMA JobTypesKept ==
  ASSUME JobTypes, [Web!Next]_(Web!vars)
  PROVE  JobTypes'
<1> USE JobsAssumption DEF JobTypes, Web!Jobs, Web!Idle
<1>1. CASE UNCHANGED Web!vars
  BY <1>1 DEF Web!vars
<1>2. CASE Web!Request
  <2>1. PICK o \in {"start", "cancel", "poll"} : Web!Ask(o)
    BY <1>2 DEF Web!Request, Web!Ops
  <2>2. asked' = [Web!Idle EXCEPT !.op = o, !.running = (status = "running")]
    BY <2>1 DEF Web!Ask
  <2> DEFINE looks == status = "running"
  <2>3. asked' = [op |-> o, running |-> looks, solution |-> 0]
    BY <2>2
  <2>4. looks \in BOOLEAN
    OBVIOUS
  <2> HIDE DEF looks
  <2> QED BY <2>1, <2>3, <2>4 DEF Web!Ask, Web!JobFiles
<1>3. CASE Web!Refuse
  BY <1>3 DEF Web!Refuse, Web!Answered, Web!JobFiles
<1>4. CASE Web!RefuseTest
  BY <1>4 DEF Web!RefuseTest, Web!TestCleared, Web!Answered, Web!Loose, Web!Young
<1>5. ASSUME NEW f \in 0..MaxJobs, Web!Launch(f) PROVE JobTypes'
  BY <1>5 DEF Web!Launch, Web!Answered, Web!Loose, Web!Young, Web!Ending
<1>6. CASE Web!CancelSolve
  BY <1>6, Killed DEF Web!CancelSolve, Web!Loose, Web!Young
<1>7. CASE Web!CancelTest
  <2>1. CASE Web!TestCleared
    BY <1>7, <2>1 DEF Web!CancelTest, Web!TestCleared, Web!Answered, Web!Loose, Web!Young
  <2>2. CASE Web!KillGroup(pidfile) /\ pidfile' = 0 /\ UNCHANGED loose
    BY <1>7, <2>2, Killed DEF Web!CancelTest, Web!Answered
  <2> QED BY <1>7, <2>1, <2>2 DEF Web!CancelTest
<1>8. CASE Web!StopSweep
  BY <1>8 DEF Web!StopSweep, Web!Young
<1>9. CASE Web!PollSweep
  BY <1>9 DEF Web!PollSweep, Web!Answered, Web!Young
<1>10. CASE Web!AskApply
  BY <1>10 DEF Web!AskApply, Web!JobFiles
<1>11. CASE Web!Apply
  <2>1. applied' \in (0..MaxJobs) \X (0..MaxJobs)
    <3>1. applied' = applied \/ applied' = <<asked.solution, epoch>>
      BY <1>11 DEF Web!Apply
    <3> QED BY <3>1
  <2> QED BY <1>11, <2>1 DEF Web!Apply, Web!Answered, Web!JobFiles
<1>12. ASSUME NEW j \in Web!Jobs, Web!JobStep(j) \/ Web!Crash(j) PROVE JobTypes'
  <2>1. CASE Web!WritePid(j)
    BY <2>1 DEF Web!WritePid, Web!Requests
  <2>2. CASE Web!RunScript(j)
    BY <2>2 DEF Web!RunScript, Web!Requests
  <2>3. CASE Web!TimeFrame(j)
    BY <2>3 DEF Web!TimeFrame, Web!Requests
  <2>4. CASE Web!ScriptEnds(j)
    BY <2>4 DEF Web!ScriptEnds, Web!Requests
  <2>5. CASE Web!SetVerdict(j)
    BY <2>5 DEF Web!SetVerdict, Web!Requests
  <2>6. CASE Web!Leave(j)
    BY <2>6 DEF Web!Leave, Web!Requests
  <2>7. CASE Web!Crash(j)
    BY <2>7 DEF Web!Crash
  <2> QED BY <1>12, <2>1, <2>2, <2>3, <2>4, <2>5, <2>6, <2>7 DEF Web!JobStep
<1>13. Web!Unlocked \in 0..MaxJobs /\ 0 \in 0..MaxJobs
  BY DEF Web!Unlocked
<1>14. CASE Web!LaunchSolve \/ Web!LaunchSweep \/ Web!LaunchTest
  BY <1>5, <1>13, <1>14 DEF Web!LaunchSolve, Web!LaunchSweep, Web!LaunchTest
<1> QED BY <1>1, <1>2, <1>3, <1>4, <1>6, <1>7, <1>8, <1>9, <1>10, <1>11, <1>12, <1>14
  DEF Web!Next

\* A step that starts nothing and only ends jobs keeps what ties them to their files,
\* if those it leaves are still on file.
LEMMA Subsides ==
  ASSUME JobTypes, JobTypes', Tied, FrameTied,
         \A i \in Web!Jobs : /\ wrapper'[i] \in {wrapper[i], "dead"}
                             /\ script'[i] \in {script[i], "dead"}
                             /\ script'[i] \in {"running", "timed"} => wrapper'[i] = wrapper[i]
                             /\ Fresh(i)' => status' = "running" /\ pidfile' = pidfile,
         result' \in {0, result}, UNCHANGED <<epoch, applied>>, asked' \in {Web!Idle, asked}
  PROVE  Tied' /\ FrameTied'
<1>1. \A i \in Web!Jobs : /\ Live(i)' => Live(i) /\ wrapper'[i] = wrapper[i]
                          /\ Pending(i)' => Pending(i)
  BY DEF Live, Pending, Fresh
<1>2. Tied'
  <2>1. \A i \in Web!Jobs : Fresh(i)' => Fresh(i) /\ Live(i)'
    BY <1>1 DEF Fresh, Live
  <2>2. asked'.op \in {"start", "cancel", "poll"} => asked' = asked
    BY DEF Web!Idle
  <2>3. \A i, j \in Web!Jobs : Live(i)' /\ Live(j)' => i = j
    BY <1>1 DEF Tied
  <2>4. \A j \in Web!Jobs : wrapper'[j] = "working" => pidfile' = j
    BY <1>1 DEF Tied, Fresh, Live
  <2>5. \A j \in Web!Jobs : script'[j] \in {"running", "timed"} => wrapper'[j] = "working"
    BY DEF Tied, Web!Executing
  <2>6. asked'.op \in {"start", "cancel", "poll"} => \A j \in Web!Jobs : Fresh(j)' => asked'.running
    BY <2>1, <2>2 DEF Tied
  <2> QED BY <2>3, <2>4, <2>5, <2>6 DEF Tied, Web!Executing
<1>3. FrameTied'
  <2>1. asked'.op = "apply" => asked' = asked
    BY DEF Web!Idle
  <2>2. asked'.op = "apply" => asked'.solution = epoch' /\ \A j \in Web!Jobs : ~Pending(j)'
    BY <1>1, <2>1 DEF FrameTied
  <2>3. result' # 0 => result' = epoch' /\ \A j \in Web!Jobs : ~Pending(j)'
    BY <1>1 DEF FrameTied
  <2>4. \A j \in Web!Jobs : script'[j] = "timed" => epoch' = j
    BY DEF FrameTied
  <2> QED BY <2>2, <2>3, <2>4 DEF FrameTied
<1> QED BY <1>2, <1>3

LEMMA LooseStays ==
  ASSUME [Web!Next]_(Web!vars), loose
  PROVE  loose'
<1>1. CASE UNCHANGED loose
  BY <1>1
<1>2. CASE Web!RefuseTest \/ Web!CancelTest
  BY <1>2, Zenon DEF Web!RefuseTest, Web!CancelTest, Web!TestCleared, Web!Loose
<1>3. CASE Web!LaunchSolve \/ Web!LaunchSweep \/ Web!LaunchTest
  BY <1>3, Zenon DEF Web!LaunchSolve, Web!LaunchSweep, Web!LaunchTest, Web!Launch, Web!Loose
<1>4. CASE Web!CancelSolve \/ Web!StopSweep \/ Web!PollSweep
  BY <1>4, Zenon DEF Web!CancelSolve, Web!StopSweep, Web!PollSweep, Web!Loose
<1>5. ASSUME NEW j \in Web!Jobs, Web!Crash(j) PROVE loose'
  BY <1>5, Zenon DEF Web!Crash
<1>6. CASE Web!Request \/ Web!Refuse \/ Web!AskApply \/ Web!Apply
  <2>1. CASE Web!Request
    BY <1>1, <2>1 DEF Web!Request, Web!Ask
  <2>2. CASE Web!Refuse
    BY <1>1, <2>2 DEF Web!Refuse
  <2>3. CASE Web!AskApply
    BY <1>1, <2>3 DEF Web!AskApply
  <2>4. CASE Web!Apply
    BY <1>1, <2>4 DEF Web!Apply
  <2> QED BY <1>6, <2>1, <2>2, <2>3, <2>4
<1>7. ASSUME NEW j \in Web!Jobs, Web!JobStep(j) PROVE loose'
  BY <1>1, <1>7 DEF Web!JobStep, Web!WritePid, Web!RunScript, Web!TimeFrame, Web!ScriptEnds,
       Web!SetVerdict,
      Web!Leave, Web!Requests
<1> QED BY <1>1, <1>2, <1>3, <1>4, <1>5, <1>6, <1>7 DEF Web!Next, Web!vars

\* Requests that end a job, or find that there is none.
LEMMA EndsTied ==
  ASSUME JobTypes, JobTypes', Tied, FrameTied, ~loose',
         Web!Refuse \/ Web!RefuseTest \/ Web!CancelSolve \/ Web!CancelTest \/ Web!StopSweep \/ Web!PollSweep
  PROVE  Tied' /\ FrameTied'
<1>1. \A i \in Web!Jobs : Fresh(i) /\ wrapper[i] # "young" => wrapper[i] = "working" /\ pidfile = i /\ Web!Alive(i)
  BY JobsAssumption DEF Tied, Fresh, Web!Alive, Web!Jobs
<1>2. \A i \in Web!Jobs : wrapper[i] = "young" => Web!Young
  BY DEF Web!Young
<1>3. \A i \in Web!Jobs : Web!Executing(i) => wrapper[i] = "working"
  BY DEF Tied
<1>4. CASE Web!Refuse
  <2>1. \A i \in Web!Jobs : Fresh(i) => status = "running"
    BY DEF Tied
  <2>2. UNCHANGED <<status, pidfile, result, epoch, wrapper, script, applied>> /\ asked' = Web!Idle
    BY <1>4 DEF Web!Refuse, Web!Answered, Web!JobFiles
  <2> QED BY <2>1, <2>2, Subsides DEF Fresh
<1>5. ASSUME Web!TestCleared, asked.op \in {"start", "cancel"} PROVE \A i \in Web!Jobs : ~Fresh(i)
  <2>1. \A i \in Web!Jobs : wrapper[i] # "young"
    BY <1>2, <1>5 DEF Web!TestCleared, Web!Loose
  <2>2. \A i \in Web!Jobs : Fresh(i) => asked.running
    BY <1>5 DEF Tied
  <2>3. \A i \in Web!Jobs : Fresh(i) => Web!BelievedRunning
    BY <1>1, <2>1, <2>2 DEF Web!BelievedRunning
  <2> QED BY <1>5, <2>3 DEF Web!TestCleared
<1>6. CASE Web!RefuseTest
  <2>1. \A i \in Web!Jobs : ~Fresh(i)
    BY <1>5, <1>6 DEF Web!RefuseTest
  <2> QED BY <1>6, <2>1, Subsides DEF Web!RefuseTest, Web!TestCleared, Web!Answered, Fresh
<1>7. CASE Web!CancelSolve
  <2>1. \A i \in Web!Jobs : wrapper[i] # "young"
    BY <1>2, <1>7 DEF Web!CancelSolve, Web!Loose
  <2>2. \A i \in Web!Jobs : /\ wrapper'[i] \in {wrapper[i], "dead"} /\ script'[i] \in {script[i], "dead"}
                            /\ i = pidfile /\ Live(i) => wrapper'[i] = "dead" /\ script'[i] \notin {"running", "timed"}
    BY <1>7, Killed DEF Web!CancelSolve, JobTypes
  <2>3. \A i \in Web!Jobs : ~Fresh(i)' /\ script'[i] \notin {"running", "timed"}
    BY <1>1, <1>3, <2>1, <2>2 DEF Fresh, Live, Web!Executing
  <2> QED BY <1>7, <2>2, <2>3, Subsides DEF Web!CancelSolve
<1>8. CASE Web!CancelTest
  <2>1. CASE Web!TestCleared
    <3>1. \A i \in Web!Jobs : ~Fresh(i)
      BY <1>5, <1>8, <2>1 DEF Web!CancelTest
    <3> QED BY <1>8, <2>1, <3>1, Subsides DEF Web!CancelTest, Web!TestCleared, Web!Answered, Fresh
  <2>2. CASE Web!BelievedRunning /\ Web!KillGroup(pidfile) /\ pidfile' = 0 /\ status' = "cancelled"
    <3>1. pidfile \in Web!Jobs /\ Live(pidfile)
      BY <2>2, JobsAssumption DEF Web!BelievedRunning, Web!Alive, JobTypes, Web!Jobs, Live
    <3>2. \A i \in Web!Jobs : /\ wrapper'[i] \in {wrapper[i], "dead"} /\ script'[i] \in {script[i], "dead"}
                              /\ i = pidfile /\ Live(i) => wrapper'[i] = "dead" /\ script'[i] \notin {"running", "timed"}
      BY <2>2, Killed DEF JobTypes
    <3>3. \A i \in Web!Jobs : Live(i) => i = pidfile
      BY <3>1 DEF Tied
    <3>4. \A i \in Web!Jobs : ~Fresh(i)' /\ script'[i] \notin {"running", "timed"}
      BY <1>3, <3>2, <3>3 DEF Fresh, Live, Web!Executing
    <3> QED BY <1>8, <2>2, <3>2, <3>4, Subsides DEF Web!CancelTest, Web!Answered
  <2> QED BY <1>8, <2>1, <2>2 DEF Web!CancelTest
<1>9. CASE Web!StopSweep
  <2>1. \A i \in Web!Jobs : wrapper[i] # "young" /\ ~(i = pidfile /\ pidfile # 0 /\ Web!Executing(i))
    BY <1>2, <1>9 DEF Web!StopSweep
  <2>2. \A i \in Web!Jobs : wrapper'[i] \in {wrapper[i], "dead"} /\ script'[i] = script[i]
    BY <1>9 DEF Web!StopSweep, JobTypes
  <2>3. \A i \in Web!Jobs : i = pidfile /\ Web!Alive(i) => wrapper'[i] = "dead"
    BY <1>9 DEF Web!StopSweep, JobTypes
  <2>4. \A i \in Web!Jobs : ~Fresh(i)'
    BY <1>1, <2>1, <2>2, <2>3 DEF Fresh
  <2>5. \A i \in Web!Jobs : script'[i] \notin {"running", "timed"}
    <3>1. \A i \in Web!Jobs : i # 0
      BY JobsAssumption DEF Web!Jobs
    <3> QED BY <1>1, <1>3, <2>1, <2>2, <3>1 DEF Fresh, Web!Executing
  <2> QED BY <1>9, <2>2, <2>4, <2>5, Subsides DEF Web!StopSweep
<1>10. CASE Web!PollSweep
  <2>1. UNCHANGED <<result, epoch, wrapper, script, applied>> /\ asked' = Web!Idle
    BY <1>10 DEF Web!PollSweep, Web!Answered
  <2>2. CASE asked.running /\ ~Web!Alive(pidfile)
    <3>1. \A i \in Web!Jobs : ~Fresh(i)
      BY <1>1, <1>2, <1>10, <2>2 DEF Web!PollSweep, Fresh
    <3> QED BY <2>1, <3>1, Subsides DEF Fresh
  <2>3. CASE ~(asked.running /\ ~Web!Alive(pidfile))
    <3>1. UNCHANGED <<status, pidfile>>
      BY <1>10, <2>3 DEF Web!PollSweep
    <3> QED BY <2>1, <3>1, Subsides DEF Fresh, Tied
  <2> QED BY <2>2, <2>3
<1> QED BY <1>4, <1>6, <1>7, <1>8, <1>9, <1>10

\* A job is started only when the one before it has gone.
LEMMA LaunchTied ==
  ASSUME JobTypes, JobTypes', Tied, FrameTied, ~loose', NEW f, Web!Launch(f)
  PROVE  Tied' /\ FrameTied'
<1>1. \A i \in Web!Jobs : ~Live(i)
  <2>1. \A i \in Web!Jobs : wrapper[i] \notin {"young", "closing"}
    BY DEF Web!Launch, Web!Loose, Web!Young, Web!Ending
  <2>2. \A i \in Web!Jobs : wrapper[i] = "working" => Web!BelievedRunning
    BY JobsAssumption DEF Web!Launch, Tied, Fresh, Web!BelievedRunning, Web!Alive, Web!Jobs
  <2> QED BY <2>1, <2>2 DEF Web!Launch, Live
<1>2. \A i \in Web!Jobs : script[i] \notin {"running", "timed"}
  BY <1>1 DEF Tied, Live, Web!Executing
<1>3. UNCHANGED <<epoch, script, applied>> /\ asked' = Web!Idle /\ result' = 0
  BY DEF Web!Launch, Web!Answered
<1>4. CASE wrapper' = wrapper
  <2>1. \A i \in Web!Jobs : ~Fresh(i)' /\ ~Live(i)'
    BY <1>1, <1>4 DEF Fresh, Live
  <2> QED BY <1>2, <1>3, <1>4, <2>1 DEF Tied, FrameTied, Fresh, Web!Executing, Web!Idle
<1>5. CASE \E j \in Web!Jobs : wrapper' = [wrapper EXCEPT ![j] = "young"] /\ status' = "running"
  <2>1. PICK j \in Web!Jobs : wrapper' = [wrapper EXCEPT ![j] = "young"] /\ status' = "running"
    BY <1>5
  <2>2. \A i \in Web!Jobs : wrapper'[i] = IF i = j THEN "young" ELSE wrapper[i]
    BY <2>1 DEF JobTypes
  <2>3. \A i \in Web!Jobs : Live(i)' => i = j
    BY <1>1, <2>2 DEF Live
  <2>4. \A i \in Web!Jobs : wrapper'[i] # "working"
    BY <1>1, <2>2 DEF Live
  <2>5. Tied'
    BY <1>2, <1>3, <2>1, <2>3, <2>4 DEF Tied, Fresh, Web!Executing, Web!Idle
  <2>6. FrameTied'
    BY <1>2, <1>3 DEF FrameTied, Web!Idle
  <2> QED BY <2>5, <2>6
<1> QED BY <1>4, <1>5 DEF Web!Launch

\* What is asked, and what is applied.
LEMMA AskedTied ==
  ASSUME JobTypes, JobTypes', Tied, FrameTied, Web!Request \/ Web!AskApply \/ Web!Apply
  PROVE  Tied' /\ FrameTied'
<1>1. UNCHANGED <<status, pidfile, result, epoch, wrapper, script>>
  <2>1. CASE Web!Request
    <3>1. PICK o : Web!Ask(o)
      BY <2>1 DEF Web!Request
    <3> QED BY <3>1 DEF Web!Ask, Web!JobFiles
  <2>2. CASE Web!AskApply
    BY <2>2 DEF Web!AskApply, Web!JobFiles
  <2>3. CASE Web!Apply
    BY <2>3 DEF Web!Apply, Web!JobFiles
  <2> QED BY <2>1, <2>2, <2>3
<1>2. CASE Web!Request
  <2>1. PICK o \in {"start", "cancel", "poll"} : Web!Ask(o)
    BY <1>2 DEF Web!Request, Web!Ops
  <2>2. asked' = [Web!Idle EXCEPT !.op = o, !.running = (status = "running")] /\ applied' = applied
    BY <2>1 DEF Web!Ask
  <2>3. asked'.op = o /\ (status = "running" => asked'.running)
    BY <2>2 DEF Web!Idle
  <2>4. Tied'
    BY <1>1, <2>3 DEF Tied, Fresh, Live, Web!Executing
  <2>5. FrameTied'
    BY <1>1, <2>2, <2>3 DEF FrameTied, Pending, Fresh
  <2> QED BY <2>4, <2>5
<1>3. CASE Web!AskApply
  <2>1. asked'.op = "apply" /\ asked'.solution = result /\ result # 0 /\ applied' = applied
    BY <1>3 DEF Web!AskApply, Web!Idle
  <2>2. Tied'
    BY <1>1, <2>1 DEF Tied, Fresh, Live, Web!Executing
  <2>3. FrameTied'
    BY <1>1, <2>1 DEF FrameTied, Pending, Fresh
  <2> QED BY <2>2, <2>3
<1>4. CASE Web!Apply
  <2>1. asked.op = "apply" /\ asked' = Web!Idle
    BY <1>4 DEF Web!Apply, Web!Answered
  <2>2. applied' = applied \/ applied' = <<asked.solution, epoch>>
    BY <1>4 DEF Web!Apply
  <2>3. applied'[1] = applied'[2]
    BY <2>1, <2>2 DEF FrameTied
  <2>4. Tied'
    BY <1>1, <2>1 DEF Tied, Fresh, Live, Web!Executing, Web!Idle
  <2>5. FrameTied'
    BY <1>1, <2>1, <2>3 DEF FrameTied, Pending, Fresh, Web!Idle
  <2> QED BY <2>4, <2>5
<1> QED BY <1>2, <1>3, <1>4

\* The job itself, and its end by a signal.
LEMMA WorkTied ==
  ASSUME JobTypes, JobTypes', Tied, FrameTied, ~loose', NEW j \in Web!Jobs,
         Web!JobStep(j) \/ Web!Crash(j)
  PROVE  Tied' /\ FrameTied'
<1>1. j # 0 /\ \A i \in Web!Jobs : Fresh(i) \/ Web!Executing(i) => Live(i)
  BY JobsAssumption DEF Web!Jobs, Tied, Fresh, Live
<1>2. CASE Web!WritePid(j)
  <2>1. /\ wrapper[j] = "young" /\ pidfile' = j
        /\ UNCHANGED <<status, result, epoch, script, asked, applied>>
        /\ \A i \in Web!Jobs : wrapper'[i] = IF i = j THEN "working" ELSE wrapper[i]
    BY <1>2 DEF Web!WritePid, Web!Requests, JobTypes
  <2>2. \A i \in Web!Jobs : (Live(i)' <=> Live(i)) /\ (Fresh(i)' <=> Fresh(i))
    BY <2>1 DEF Live, Fresh
  <2>3. Live(j) /\ Fresh(j)
    BY <2>1 DEF Live, Fresh
  <2>4. \A i \in Web!Jobs : wrapper'[i] = "working" => i = j
    BY <1>1, <2>1, <2>3 DEF Tied, Fresh
  <2>5. \A i \in Web!Jobs : Web!Executing(i)' => wrapper'[i] = "working"
    BY <2>1 DEF Tied, Web!Executing
  <2>6. Tied'
    BY <2>1, <2>2, <2>4, <2>5 DEF Tied
  <2>7. FrameTied'
    BY <2>1, <2>2 DEF FrameTied, Pending
  <2> QED BY <2>6, <2>7
<1>3. CASE Web!RunScript(j)
  <2>1. /\ wrapper[j] = "working" /\ script[j] = "none" /\ result' = 0
        /\ UNCHANGED <<status, pidfile, epoch, wrapper, asked, applied>>
        /\ \A i \in Web!Jobs : script'[i] = IF i = j THEN "running" ELSE script[i]
    BY <1>3 DEF Web!RunScript, Web!Requests, JobTypes
  <2>2. \A i \in Web!Jobs : (Live(i)' <=> Live(i)) /\ (Fresh(i)' <=> Fresh(i)) /\ (Pending(i)' => Pending(i))
    BY <2>1 DEF Live, Fresh, Pending
  <2>3. Tied'
    BY <2>1, <2>2 DEF Tied, Web!Executing
  <2>4. FrameTied'
    BY <2>1, <2>2 DEF FrameTied
  <2> QED BY <2>3, <2>4
<1>4. CASE Web!TimeFrame(j)
  <2>1. /\ script[j] = "running" /\ epoch' = j
        /\ UNCHANGED <<status, pidfile, result, wrapper, asked, applied>>
        /\ \A i \in Web!Jobs : script'[i] = IF i = j THEN "timed" ELSE script[i]
    BY <1>4 DEF Web!TimeFrame, Web!Requests, JobTypes
  <2>2. Web!Executing(j) /\ Pending(j)
    BY <2>1 DEF Web!Executing, Pending, Fresh, Tied
  <2>3. \A i \in Web!Jobs : (Live(i)' <=> Live(i)) /\ (Fresh(i)' <=> Fresh(i)) /\ (Pending(i)' => Pending(i))
    BY <2>1 DEF Live, Fresh, Pending
  <2>4. Tied'
    BY <2>1, <2>3 DEF Tied, Web!Executing
  <2>5. \A i \in Web!Jobs : script'[i] = "timed" => i = j
    BY <1>1, <2>1, <2>2 DEF Tied, Web!Executing
  <2>6. FrameTied'
    BY <2>1, <2>2, <2>5 DEF FrameTied
  <2> QED BY <2>4, <2>6
<1>5. CASE Web!ScriptEnds(j)
  <2>1. /\ Web!Executing(j) /\ UNCHANGED <<status, pidfile, epoch, wrapper, asked, applied>>
        /\ script'[j] \in {"solved", "failed"}
        /\ \A i \in Web!Jobs \ {j} : script'[i] = script[i]
        /\ result' = result \/ (result' = j /\ script[j] = "timed")
    BY <1>5 DEF Web!ScriptEnds, Web!Requests, JobTypes, Web!Executing
  <2>2. \A i \in Web!Jobs : (Live(i)' <=> Live(i)) /\ (Fresh(i)' <=> Fresh(i)) /\ (Pending(i)' => Pending(i))
    BY <2>1 DEF Live, Fresh, Pending, Web!Executing
  <2>3. Tied'
    BY <2>1, <2>2 DEF Tied, Web!Executing
  <2>4. ASSUME result' = j, script[j] = "timed" PROVE \A i \in Web!Jobs : ~Pending(i)'
    <3>1. \A i \in Web!Jobs : Fresh(i)' => i = j
      BY <1>1, <2>1, <2>2 DEF Tied
    <3> QED BY <2>1, <3>1 DEF Pending
  <2>5. FrameTied'
    <3>1. result' # 0 => result' = epoch' /\ \A i \in Web!Jobs : ~Pending(i)'
      BY <2>1, <2>2, <2>4 DEF FrameTied
    <3>2. \A i \in Web!Jobs : script'[i] = "timed" => epoch' = i
      BY <2>1 DEF FrameTied
    <3> QED BY <2>1, <2>2, <3>1, <3>2 DEF FrameTied
  <2> QED BY <2>3, <2>5
<1>6. CASE Web!SetVerdict(j)
  <2>1. /\ wrapper[j] = "working" /\ script[j] \in {"solved", "failed"}
        /\ UNCHANGED <<pidfile, result, epoch, script, asked, applied>>
        /\ \A i \in Web!Jobs : wrapper'[i] = IF i = j THEN "closing" ELSE wrapper[i]
    BY <1>6 DEF Web!SetVerdict, Web!Requests, JobTypes
  <2>2. Live(j)
    BY <2>1 DEF Live
  <2>3. \A i \in Web!Jobs : (Live(i)' <=> Live(i)) /\ ~Fresh(i)'
    BY <1>1, <2>1, <2>2 DEF Tied, Live, Fresh
  <2>4. \A i \in Web!Jobs : ~Web!Executing(i)'
    BY <1>1, <2>1, <2>2 DEF Tied, Web!Executing
  <2>5. Tied'
    BY <2>3, <2>4 DEF Tied, Fresh
  <2>6. FrameTied'
    BY <2>1, <2>3 DEF FrameTied, Pending
  <2> QED BY <2>5, <2>6
<1>7. CASE Web!Leave(j)
  <2>1. /\ wrapper[j] = "closing" /\ UNCHANGED <<status, result, epoch, script, asked, applied>>
        /\ \A i \in Web!Jobs : wrapper'[i] = IF i = j THEN "dead" ELSE wrapper[i]
    BY <1>7 DEF Web!Leave, Web!Requests, JobTypes
  <2>2. Live(j)
    BY <2>1 DEF Live
  <2>3. \A i \in Web!Jobs : ~Live(i)' /\ ~Fresh(i)'
    BY <2>1, <2>2 DEF Tied, Live, Fresh
  <2>4. \A i \in Web!Jobs : ~Web!Executing(i)'
    BY <1>1, <2>1, <2>2 DEF Tied, Web!Executing
  <2>5. Tied'
    BY <2>3, <2>4 DEF Tied, Fresh
  <2>6. FrameTied'
    BY <2>1, <2>3 DEF FrameTied, Pending
  <2> QED BY <2>5, <2>6
<1>8. CASE Web!Crash(j)
  <2>1. /\ UNCHANGED <<status, pidfile, result, epoch, asked, applied>>
        /\ \A i \in Web!Jobs : wrapper'[i] = IF i = j THEN "dead" ELSE wrapper[i]
        /\ script' = IF Web!Executing(j) THEN [script EXCEPT ![j] = "dead"] ELSE script
    BY <1>8 DEF Web!Crash, JobTypes
  <2>2. \A i \in Web!Jobs : /\ script'[i] \in {script[i], "dead"}
                            /\ i = j => script'[i] \notin {"running", "timed"}
    BY <2>1 DEF JobTypes, Web!Executing
  <2>3. \A i \in Web!Jobs : Fresh(i)' => status' = "running"
    BY <2>1 DEF Tied, Fresh
  <2> QED BY <2>1, <2>2, <2>3, Subsides
<1> QED BY <1>2, <1>3, <1>4, <1>5, <1>6, <1>7, <1>8 DEF Web!JobStep

LEMMA JobsStep ==
  ASSUME JobInv, [Web!Next]_(Web!vars)
  PROVE  JobInv'
<1>1. JobTypes /\ JobTypes'
  BY JobTypesKept DEF JobInv
<1>2. CASE loose'
  BY <1>1, <1>2 DEF JobInv
<1>3. CASE ~loose'
  <2>1. Tied /\ FrameTied
    BY <1>3, LooseStays DEF JobInv
  <2> SUFFICES Tied' /\ FrameTied'
    BY <1>1 DEF JobInv
  <2>2. CASE UNCHANGED Web!vars
    BY <2>1, <2>2 DEF Web!vars, Tied, FrameTied, Live, Fresh, Pending, Web!Executing
  <2>3. CASE Web!Request \/ Web!AskApply \/ Web!Apply
    BY <1>1, <2>1, <2>3, AskedTied
  <2>4. CASE Web!Refuse \/ Web!RefuseTest \/ Web!CancelSolve \/ Web!CancelTest \/ Web!StopSweep \/ Web!PollSweep
    BY <1>1, <1>3, <2>1, <2>4, EndsTied
  <2>5. CASE Web!LaunchSolve \/ Web!LaunchSweep \/ Web!LaunchTest
    <3>1. PICK f : Web!Launch(f)
      BY <2>5 DEF Web!LaunchSolve, Web!LaunchSweep, Web!LaunchTest
    <3> QED BY <1>1, <1>3, <2>1, <3>1, LaunchTied
  <2>6. CASE \E j \in Web!Jobs : Web!JobStep(j) \/ Web!Crash(j)
    BY <1>1, <1>3, <2>1, <2>6, WorkTied
  <2> QED BY <2>2, <2>3, <2>4, <2>5, <2>6 DEF Web!Next
<1> QED BY <1>2, <1>3

LEMMA JobsStart == ServicesInit => JobInv
<1> SUFFICES ASSUME Web!Init PROVE JobInv
  BY DEF ServicesInit
<1>1. JobTypes
  <2>1. 0 \in 0..MaxJobs
    BY JobsAssumption
  <2>2. asked = [op |-> "none", running |-> FALSE, solution |-> 0]
    BY DEF Web!Init, Web!Idle
  <2>3. asked \in [op : {"none", "start", "cancel", "poll", "apply"}, running : BOOLEAN,
                   solution : 0..MaxJobs]
    BY <2>1, <2>2
  <2> QED BY <2>1, <2>3 DEF Web!Init, JobTypes
<1>2. Tied
  BY DEF Web!Init, Tied, Live, Fresh, Web!Executing, Web!Idle
<1>3. FrameTied
  BY DEF Web!Init, FrameTied, Web!Idle
<1> QED BY <1>1, <1>2, <1>3 DEF JobInv

LEMMA JobsCorrect == ServicesSpec => []JobInv
<1>1. JobInv /\ [ServicesNext]_servicesVars => JobInv'
  BY JobSteps, JobsStep
<1> QED BY <1>1, JobsStart, PTL DEF ServicesSpec

\* As long as no job has escaped its files one script of a kind runs, whatever
\* crashed, was cancelled or asked for in between (polaris-httpd.c, job_running).
THEOREM OneScriptCorrect == ServicesSpec => []OneScript
<1>1. JobInv => OneScript
  <2> SUFFICES ASSUME JobInv, ~loose PROVE Cardinality({j \in Web!Jobs : Web!Executing(j)}) <= 1
    BY DEF OneScript, Web!OneScript, Web!Cardinality, Cardinality
  <2> DEFINE busyJobs == {j \in Web!Jobs : Web!Executing(j)}
  <2>1. busyJobs \subseteq {pidfile}
    BY DEF JobInv, Tied
  <2>2. IsFiniteSet({pidfile}) /\ Cardinality({pidfile}) = 1
    BY FS_Singleton
  <2>3. IsFiniteSet(busyJobs) /\ Cardinality(busyJobs) <= Cardinality({pidfile})
    <3> HIDE DEF busyJobs
    <3> QED BY <2>1, <2>2, FS_Subset
  <2> QED BY <2>2, <2>3
<1> QED BY <1>1, JobsCorrect, PTL

\* A job that works can be seen in the status and cancelled by its pid.
THEOREM RunningCorrect == ServicesSpec => []RunningIsReachable
<1>1. JobInv => RunningIsReachable
  BY DEF JobInv, Tied, Fresh, RunningIsReachable, Web!RunningIsReachable
<1> QED BY <1>1, JobsCorrect, PTL

\* A solution is applied with the time of its own frame, though the two are read from
\* two files while jobs go on.
THEOREM AppliedCorrect == ServicesSpec => []AppliedAtItsFrame
<1>1. JobInv => AppliedAtItsFrame
  BY DEF JobInv, FrameTied, AppliedAtItsFrame, Web!AppliedAtItsFrame
<1> QED BY <1>1, JobsCorrect, PTL
=============================================================================
