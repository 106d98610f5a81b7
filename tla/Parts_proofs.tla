---------------------------- MODULE Parts_proofs ----------------------------
(***************************************************************************)
(* Proofs about the components of Parts, for every value of the constants. *)
(* Each theorem is about PartsSpec, whose steps are, for each component,   *)
(* steps of its own specification or none of its concern.                  *)
(***************************************************************************)
EXTENDS Parts, PolarisJog_proofs, SequenceTheorems, FiniteSetTheorems, TLAPS

LEMMA AlignmentSteps == [PartsNext]_partsVars => [Alignment!Next]_(Alignment!vars)
BY DEF PartsNext, OnlyPart, partsVars, alignmentVars, Alignment!vars

LEMMA LoaderSteps == [PartsNext]_partsVars => [Loader!Next]_(Loader!vars)
BY DEF PartsNext, OnlyPart, partsVars, loaderVars, Loader!vars

LEMMA RateSteps == [PartsNext]_partsVars => [Rate!Next]_(Rate!vars)
BY DEF PartsNext, OnlyPart, partsVars, rateVars, Rate!vars

LEMMA FrameSteps == [PartsNext]_partsVars => [Ipolar!Next]_(Ipolar!vars)
BY DEF PartsNext, OnlyPart, partsVars, frameVars, Ipolar!vars

-----------------------------------------------------------------------------
(***************************************************************************)
(* MountAlignment. While the head is unaligned, nothing the server could   *)
(* go by says otherwise: every trace of an alignment goes with it.         *)
(***************************************************************************)
Traces == {log, file} \cup {memory[p] : p \in Alignment!Processes}
AlignmentInv ==
  /\ Alignment!TypeOK
  /\ track = "3" => Traces \subseteq {"3", "none"}
  /\ readAt # "3"

\* What a process goes by is the log, or what it remembers.
LEMMA KnownIsTrace ==
  ASSUME AlignmentInv, NEW p \in Alignment!Processes
  PROVE  /\ Alignment!Known(p) \in Traces /\ Alignment!Known(p) \in Alignment!Seen
         /\ Alignment!MayRead(p) => track # "3"
<1>1. Alignment!Known(p) \in Traces
  BY DEF Alignment!Known, Traces
<1>2. Alignment!Known(p) \in Alignment!Seen
  BY DEF Alignment!Known, AlignmentInv, Alignment!TypeOK
<1>3. Alignment!MayRead(p) => track # "3"
  BY <1>1 DEF Alignment!MayRead, AlignmentInv
<1> QED BY <1>1, <1>2, <1>3

LEMMA NoteInv ==
  ASSUME AlignmentInv, NEW p \in Alignment!Processes, Alignment!Note(p), UNCHANGED <<track, log, ungated>>,
         readAt' = readAt \/ (Alignment!MayRead(p) /\ readAt' = track)
  PROVE  AlignmentInv'
<1>1. /\ Alignment!Known(p) \in Traces /\ Alignment!Known(p) \in Alignment!Seen
      /\ Alignment!MayRead(p) => track # "3"
  BY KnownIsTrace
<1>2. /\ memory' = [memory EXCEPT ![p] = Alignment!Known(p)]
      /\ file' \in {log, file}
  BY DEF Alignment!Note
<1>3. Alignment!TypeOK'
  BY <1>1, <1>2 DEF AlignmentInv, Alignment!TypeOK, Alignment!Seen
<1>4. Traces' \subseteq Traces
  <2>1. ASSUME NEW o \in Alignment!Processes PROVE memory'[o] \in Traces
    BY <1>1, <1>2 DEF AlignmentInv, Alignment!TypeOK, Traces
  <2> QED BY <1>2, <2>1 DEF Traces, Alignment!Processes
<1> QED BY <1>1, <1>3, <1>4 DEF AlignmentInv

LEMMA AlignmentStep == AlignmentInv /\ [Alignment!Next]_(Alignment!vars) => AlignmentInv'
<1> SUFFICES ASSUME AlignmentInv, [Alignment!Next]_(Alignment!vars) PROVE AlignmentInv'
  OBVIOUS
<1> USE DEF Alignment!Processes
<1>1. CASE \E p \in Alignment!Processes : Alignment!Position(p)
  BY <1>1, NoteInv DEF Alignment!Position
<1>2. CASE Alignment!Gate
  BY <1>2, NoteInv DEF Alignment!Gate
<1>3. CASE Alignment!StateOfMount
  <2>1. track # "3" /\ track \in Alignment!Tracks
    BY <1>3, KnownIsTrace DEF Alignment!StateOfMount, AlignmentInv, Alignment!TypeOK
  <2> QED BY <1>3, <2>1 DEF Alignment!StateOfMount, AlignmentInv, Alignment!TypeOK, Alignment!Seen
<1>4. CASE Alignment!TrackWatch
  BY <1>4 DEF Alignment!TrackWatch, AlignmentInv, Alignment!TypeOK, Traces
<1>5. CASE Alignment!Restart \/ \E p \in Alignment!Processes : Alignment!Fork(p)
  <2>1. PICK p \in Alignment!Processes, m \in Traces :
          m \in Alignment!Seen /\ memory' = [memory EXCEPT ![p] = m] /\ UNCHANGED <<track, log, file, readAt, ungated>>
    BY <1>5 DEF Alignment!Restart, Alignment!Fork, AlignmentInv, Alignment!TypeOK, Traces
  <2>2. Alignment!TypeOK'
    BY <2>1 DEF AlignmentInv, Alignment!TypeOK
  <2>3. Traces' \subseteq Traces
    <3>1. ASSUME NEW o \in Alignment!Processes PROVE memory'[o] \in Traces
      BY <2>1 DEF AlignmentInv, Alignment!TypeOK, Traces
    <3> QED BY <2>1, <3>1 DEF Traces
  <2> QED BY <2>1, <2>2, <2>3 DEF AlignmentInv
<1>6. CASE Alignment!Sync \/ Alignment!Align \/ Alignment!Track
  BY <1>6 DEF Alignment!Sync, Alignment!Align, Alignment!Track, AlignmentInv, Alignment!TypeOK,
       Alignment!Tracks
<1>7. CASE Alignment!Log284 \/ Alignment!Truncate
  BY <1>7 DEF Alignment!Log284, Alignment!Truncate, AlignmentInv, Alignment!TypeOK,
       Alignment!Seen, Traces
<1>8. CASE Alignment!Reboot
  BY <1>8 DEF Alignment!Reboot, AlignmentInv, Alignment!TypeOK, Alignment!Tracks, Alignment!Seen,
       Traces
<1>9. CASE Alignment!ReadUngated
  BY <1>9 DEF Alignment!ReadUngated, AlignmentInv, Alignment!TypeOK, Alignment!Seen, Traces
<1>10. CASE UNCHANGED Alignment!vars
  BY <1>10 DEF Alignment!vars, AlignmentInv, Alignment!TypeOK, Traces
<1> QED BY <1>1, <1>2, <1>3, <1>4, <1>5, <1>6, <1>7, <1>8, <1>9, <1>10
  DEF Alignment!Next, Alignment!AlpacaHorizontal, Alignment!AlpacaEquatorial,
       Alignment!Lx200Position,
      Alignment!IndiDefine, Alignment!IndiPush, Alignment!IndiSettled, Alignment!GotoGate,
      Alignment!ApplyGate, Alignment!GuideGate, Alignment!KeepWifiGate, Alignment!State,
      Alignment!AlpacaSlew, Alignment!Lx200Slew, Alignment!Lx200Sync, Alignment!IndiSlew,
      Alignment!IndiSync, Alignment!SolveHint

\* A position read that passes the gate is never of a head that is not aligned, however
\* old what its process knows (may_read_mount; slews and syncs do not ask it).
THEOREM NoReadUnalignedCorrect == PartsSpec => []NoReadUnaligned
<1>1. PartsInit => AlignmentInv
  BY DEF PartsInit, Alignment!Init, AlignmentInv, Alignment!TypeOK, Alignment!Tracks,
       Alignment!Seen, Traces
<1>2. AlignmentInv /\ [PartsNext]_partsVars => AlignmentInv'
  BY AlignmentSteps, AlignmentStep
<1>3. AlignmentInv => NoReadUnaligned
  BY DEF AlignmentInv, NoReadUnaligned, Alignment!NoReadUnaligned
<1> QED BY <1>1, <1>2, <1>3, PTL DEF PartsSpec

-----------------------------------------------------------------------------
(***************************************************************************)
(* StageTwoLoader. How far the constructor is says what the slots hold.    *)
(***************************************************************************)
Early == {"map", "stub"}
LoaderTypes ==
  /\ site \in Loader!Sites
  /\ at \in {"map", "stub", "core", "port", "resolve", "done"}
  /\ page \in BOOLEAN /\ core \in BOOLEAN /\ capture \in BOOLEAN
  /\ slot \in [Loader!Symbols -> {"zero", "stub", "shim", "target"}]
SlotsInv ==
  /\ at = "map" => \A s \in Loader!Symbols : slot[s] = "zero"
  /\ at \notin Early => \A s \in Loader!Symbols : slot[s] # "zero"
  /\ \A s \in Loader!Symbols : slot[s] \in {"shim", "target"} =>
       /\ s \in site.found /\ core /\ at \in {"resolve", "done"}
       /\ s = "capture" /\ slot[s] = "shim" => capture
LoaderInv ==
  /\ LoaderTypes /\ SlotsInv
  /\ at = "map" <=> ~page
  /\ at \in {"port", "resolve"} => core
  /\ ended = "null_jump" => at \in Early
  /\ ended = "exit_96" => ~page

LEMMA StepsAre ==
  /\ Loader!Steps[1] = "map" /\ Loader!Steps[2] = "stub" /\ Loader!Steps[3] = "core"
  /\ Loader!Steps[4] = "port" /\ Loader!Steps[5] = "resolve" /\ Loader!Steps[6] = "done"
BY DEF Loader!Steps

LEMMA AfterStub == ASSUME Loader!After(at, "stub") PROVE at \notin Early
<1>1. PICK i \in 1..6, j \in 1..6 : Loader!Steps[i] = at /\ Loader!Steps[j] = "stub" /\ i > j
  BY DEF Loader!After
<1>2. j = 2
  BY <1>1, StepsAre
<1>3. i \in {3, 4, 5, 6}
  BY <1>1, <1>2
<1> QED BY <1>1, <1>3, StepsAre DEF Early

LEMMA LoaderStep == LoaderInv /\ [Loader!Next]_(Loader!vars) => LoaderInv'
<1> SUFFICES ASSUME LoaderInv, [Loader!Next]_(Loader!vars) PROVE LoaderInv'
  OBVIOUS
<1> USE DEF Early, LoaderInv, LoaderTypes
<1>0. "init" \in Loader!Symbols /\ "capture" \in Loader!Symbols
  BY DEF Loader!Symbols, Loader!Shimmed
<1>1. CASE UNCHANGED <<site, at, page, slot, core, capture, ended>>
  BY <1>1 DEF SlotsInv
<1>2. ASSUME ended = "no", Loader!MapSlotPage PROVE LoaderInv'
  BY <1>2 DEF Loader!MapSlotPage, SlotsInv
<1>3. CASE Loader!OpenCore
  <2>1. site.core \in BOOLEAN
    BY DEF Loader!Sites
  <2> QED BY <1>3, <2>1 DEF Loader!OpenCore, SlotsInv
<1>4. CASE Loader!OpenPort
  BY <1>4 DEF Loader!OpenPort, SlotsInv
<1>5. CASE Loader!Filled
  BY <1>5 DEF Loader!Filled, SlotsInv
<1>6. ASSUME ended = "no", NEW s \in Loader!Symbols, Loader!StubSlot(s) PROVE LoaderInv'
  <2>1. CASE \E o \in Loader!Symbols \ {s} : slot[o] = "zero"
    <3>1. at' = "stub" /\ at = "stub" /\ UNCHANGED <<site, page, core, capture, ended>>
      BY <1>6, <2>1 DEF Loader!StubSlot
    <3> QED BY <1>6, <3>1 DEF Loader!StubSlot, SlotsInv
  <2>2. CASE ~\E o \in Loader!Symbols \ {s} : slot[o] = "zero"
    <3>1. at' = "core" /\ at = "stub" /\ UNCHANGED <<site, page, core, capture, ended>>
      BY <1>6, <2>2 DEF Loader!StubSlot
    <3>2. \A o \in Loader!Symbols : slot'[o] # "zero"
      BY <1>6, <2>2 DEF Loader!StubSlot
    <3>3. \A o \in Loader!Symbols : slot'[o] \notin {"shim", "target"}
      BY <1>6 DEF Loader!StubSlot, SlotsInv
    <3>4. slot' \in [Loader!Symbols -> {"zero", "stub", "shim", "target"}]
      BY <1>6 DEF Loader!StubSlot
    <3>5. SlotsInv'
      BY <3>1, <3>2, <3>3 DEF SlotsInv
    <3> QED BY <1>6, <3>1, <3>4, <3>5
  <2> QED BY <2>1, <2>2
<1>7. ASSUME NEW s \in Loader!Symbols, Loader!Resolve(s) PROVE LoaderInv'
  BY <1>7 DEF Loader!Resolve, Loader!ToResolve, Loader!Target, Loader!CaptureTarget,
       Loader!Shimmed, SlotsInv
<1>8. ASSUME NEW s \in Loader!Symbols, Loader!Fatal(s) PROVE LoaderInv'
  <2>1. UNCHANGED <<site, at, page, slot, core, capture>>
    BY <1>8 DEF Loader!Fatal
  <2>2. ended' \in {"exit_97", "null_jump"}
    BY <1>8 DEF Loader!Fatal
  <2>3. ended' = "null_jump" => at \in Early
    BY <1>8 DEF Loader!Fatal, SlotsInv
  <2> QED BY <2>1, <2>2, <2>3 DEF SlotsInv
<1>9. CASE Loader!Fault
  BY <1>9 DEF Loader!Fault, SlotsInv
<1> QED BY <1>1, <1>2, <1>3, <1>4, <1>5, <1>6, <1>7, <1>8, <1>9
  DEF Loader!Next, Loader!vars, Loader!CallInit, Loader!AppHandlers, Loader!GetSingleConfig,
       Loader!SetConfig

\* Whenever a thread calls through a slot, after the stubs are in, it reaches a stub,
\* the library, or a shim that can reach it (stage2_loader.c's constructor).
THEOREM FailsClosedCorrect == PartsSpec => []FailsClosed
<1>1. PartsInit => LoaderInv
  BY DEF PartsInit, Loader!Init, LoaderInv, LoaderTypes, SlotsInv, Early
<1>2. LoaderInv /\ [PartsNext]_partsVars => LoaderInv'
  BY LoaderSteps, LoaderStep
<1>3. LoaderInv => FailsClosed
  <2> SUFFICES ASSUME LoaderInv PROVE FailsClosed
    OBVIOUS
  <2>1. Loader!After(at, "stub") => ended # "null_jump" /\ \A s \in Loader!Symbols : slot[s] # "zero"
    BY AfterStub DEF LoaderInv, SlotsInv
  <2>2. \A s \in Loader!Symbols : slot[s] = "shim" => Loader!Behind(s)
    BY DEF LoaderInv, SlotsInv, Loader!Behind
  <2>3. \A s \in Loader!Symbols \ site.found : slot[s] \notin {"shim", "target"}
    BY DEF LoaderInv, SlotsInv
  <2>4. ended = "exit_96" => ~page
    BY DEF LoaderInv
  <2> QED BY <2>1, <2>2, <2>3, <2>4 DEF FailsClosed, Loader!FailsClosed
<1> QED BY <1>1, <1>2, <1>3, PTL DEF PartsSpec

\* What the config shims answer, whatever the library returned.
LEMMA GetReply ==
  ASSUME NEW c, NEW b \in BOOLEAN, NEW e, NEW n, NEW k, NEW t, NEW f \in BOOLEAN, NEW v,
         reply' = [kind |-> "get", core |-> c, ret |-> IF b THEN "ok" ELSE e, name |-> n,
                   given |-> b, choices |-> k, type |-> t, frees |-> f, live |-> v],
         e # "ok", b /\ t \in Loader!ChoiceTypes => k > 0,
         b /\ c = "error" => site.fallback /\ n = "shutterspeed",
         b => f, f => v = IF b THEN 1 ELSE 0, UNCHANGED site
  PROVE  ConfigSafe'
<1>1. CASE b
  BY <1>1 DEF ConfigSafe, Loader!ConfigSafe
<1>2. CASE ~b
  BY <1>2 DEF ConfigSafe, Loader!ConfigSafe
<1> QED BY <1>1, <1>2

LEMMA GetSafe == ASSUME Loader!GetSingleConfig PROVE ConfigSafe'
<1>1. PICK name \in {"shutterspeed", "iso"}, reads \in BOOLEAN, frees \in BOOLEAN,
           makes \in BOOLEAN,
           type \in {"none", "text", "unreadable"} \cup Loader!ChoiceTypes, choices \in 0..1,
           ret \in {"ok", "error"} :
        LET w == [type |-> type, choices |-> choices]
            usable == type # "none" /\ reads /\ frees /\ ~Loader!Refused(w)
            leaked == type # "none" /\ ~frees
            tried == site.fallback /\ name = "shutterspeed" /\ frees
            made == tried /\ makes
        IN  reply' = IF ret = "ok"
                     THEN [kind |-> "get", core |-> ret, ret |-> IF usable THEN "ok" ELSE "busy",
                           name |-> name, given |-> usable, choices |-> choices, type |-> type,
                           frees |-> frees, live |-> IF usable \/ leaked THEN 1 ELSE 0]
                     ELSE [kind |-> "get", core |-> ret, ret |-> IF made THEN "ok" ELSE "error",
                           name |-> name, given |-> made, choices |-> 0, type |-> "text",
                           frees |-> frees,
                           live |-> (IF tried THEN 1 ELSE 0) - (IF tried /\ ~makes THEN 1 ELSE 0)]
  BY Zenon DEF Loader!GetSingleConfig
<1> DEFINE w == [type |-> type, choices |-> choices]
           usable == type # "none" /\ reads /\ frees /\ ~Loader!Refused(w)
           leaked == type # "none" /\ ~frees
           tried == site.fallback /\ name = "shutterspeed" /\ frees
           made == tried /\ makes
<1>2. UNCHANGED site
  BY DEF Loader!GetSingleConfig
<1>3. CASE ret = "ok"
  <2> DEFINE live == IF usable \/ leaked THEN 1 ELSE 0
  <2>1. usable \in BOOLEAN /\ (usable /\ type \in Loader!ChoiceTypes => choices > 0)
    BY DEF Loader!Refused
  <2>2. reply' = [kind |-> "get", core |-> "ok", ret |-> IF usable THEN "ok" ELSE "busy",
                  name |-> name, given |-> usable, choices |-> choices, type |-> type,
                  frees |-> frees, live |-> live]
    BY <1>1, <1>3, Zenon
  <2>3. (usable => frees) /\ (frees => live = IF usable THEN 1 ELSE 0)
    OBVIOUS
  <2> HIDE DEF usable, live
  <2> QED BY <1>2, <2>1, <2>2, <2>3, GetReply
<1>4. CASE ret = "error"
  <2> DEFINE live == (IF tried THEN 1 ELSE 0) - (IF tried /\ ~makes THEN 1 ELSE 0)
  <2>1. made \in BOOLEAN /\ (made => site.fallback /\ name = "shutterspeed")
    BY DEF Loader!Sites
  <2>2. (made => frees) /\ live = IF made THEN 1 ELSE 0
    OBVIOUS
  <2>3. reply' = [kind |-> "get", core |-> "error", ret |-> IF made THEN "ok" ELSE "error",
                  name |-> name, given |-> made, choices |-> 0, type |-> "text",
                  frees |-> frees, live |-> live]
    <3>1. ret # "ok"
      BY <1>4
    <3> QED BY <1>1, <1>4, <3>1, Zenon
  <2>4. "text" \notin Loader!ChoiceTypes
    BY DEF Loader!ChoiceTypes
  <2> HIDE DEF made, live
  <2> QED BY <1>2, <2>1, <2>2, <2>3, <2>4, GetReply
<1> QED BY <1>3, <1>4

LEMMA SetSafe == ASSUME Loader!SetConfig PROVE ConfigSafe'
<1>1. PICK s \in {"set_config", "set_single_config"}, r5 \in BOOLEAN, sets \in BOOLEAN,
           value \in {"ram", "card", "unreadable"}, place \in {"self", "child", "absent"} :
        LET found == place = "self" \/ (place = "child" /\ s = "set_config")
        IN  reply' = [kind |-> "set", r5 |-> r5, sets |-> sets, asked |-> value,
                      target |-> found, sent |-> Loader!Force(r5, found, value, sets)]
  BY Zenon DEF Loader!SetConfig
<1>2. UNCHANGED site
  BY DEF Loader!SetConfig
<1> QED BY <1>1, <1>2 DEF Loader!Force, ConfigSafe, Loader!ConfigSafe

\* A config the application is given is one its parser can read, an error is hidden
\* behind a widget only for the shutter speed and the fallback, and no helper sends a
\* tethered camera to its card (the config shims).
THEOREM ConfigSafeCorrect == PartsSpec => []ConfigSafe
<1>1. PartsInit => ConfigSafe
  BY DEF PartsInit, Loader!Init, Loader!NoReply, ConfigSafe, Loader!ConfigSafe
<1>2. ConfigSafe /\ [PartsNext]_partsVars => ConfigSafe'
  <2> SUFFICES ASSUME ConfigSafe, [Loader!Next]_(Loader!vars) PROVE ConfigSafe'
    BY LoaderSteps
  <2>1. UNCHANGED <<reply, site>> \/ Loader!GetSingleConfig \/ Loader!SetConfig
    BY DEF Loader!Next, Loader!vars, Loader!MapSlotPage, Loader!OpenCore, Loader!OpenPort,
         Loader!Filled,
        Loader!StubSlot, Loader!Resolve, Loader!Fatal, Loader!CallInit, Loader!AppHandlers, Loader!Fault
  <2>2. CASE UNCHANGED <<reply, site>>
    BY <2>2 DEF ConfigSafe, Loader!ConfigSafe
  <2> QED BY <2>1, <2>2, GetSafe, SetSafe
<1> QED BY <1>1, <1>2, PTL DEF PartsSpec

-----------------------------------------------------------------------------
(***************************************************************************)
(* RateControl. The planner first: the levels, and the points it takes.    *)
(***************************************************************************)
\* Least and greatest of a set of levels.
LEMMA LeastLevel ==
  ASSUME NEW S, S \subseteq Rate!Levels, S # {}
  PROVE  Rate!Min(S) \in S /\ \A l \in S : Rate!Min(S) <= l
<1>1. PICK m \in S : \A l \in S : m <= l
  <2>1. \A l \in S : l \in {1, 2, 3, 4, 5}
    BY DEF Rate!Levels
  <2>2. CASE 1 \in S
    BY <2>1, <2>2
  <2>3. CASE 1 \notin S /\ 2 \in S
    BY <2>1, <2>3
  <2>4. CASE 1 \notin S /\ 2 \notin S /\ 3 \in S
    BY <2>1, <2>4
  <2>5. CASE 1 \notin S /\ 2 \notin S /\ 3 \notin S
    BY <2>1, <2>5
  <2> QED BY <2>2, <2>3, <2>4, <2>5
<1> QED BY <1>1 DEF Rate!Min

LEMMA GreatestLevel ==
  ASSUME NEW S, S \subseteq {0} \cup Rate!Levels, S # {}
  PROVE  Rate!Max(S) \in S /\ \A l \in S : l <= Rate!Max(S)
<1>1. PICK m \in S : \A l \in S : l <= m
  <2>1. \A l \in S : l \in {0, 1, 2, 3, 4, 5}
    BY DEF Rate!Levels
  <2>2. CASE 5 \in S
    BY <2>1, <2>2
  <2>3. CASE 5 \notin S /\ 4 \in S
    BY <2>1, <2>3
  <2>4. CASE 5 \notin S /\ 4 \notin S /\ 3 \in S
    BY <2>1, <2>4
  <2>5. CASE 5 \notin S /\ 4 \notin S /\ 3 \notin S /\ 2 \in S
    BY <2>1, <2>5
  <2>6. CASE 5 \notin S /\ 4 \notin S /\ 3 \notin S /\ 2 \notin S /\ 1 \in S
    BY <2>1, <2>6
  <2>7. CASE 5 \notin S /\ 4 \notin S /\ 3 \notin S /\ 2 \notin S /\ 1 \notin S
    <3>1. \A l \in S : l = 0
      BY <2>1, <2>7
    <3>2. 0 \in S
      BY <3>1
    <3> QED BY <3>1, <3>2
  <2> QED BY <2>2, <2>3, <2>4, <2>5, <2>6, <2>7
<1> QED BY <1>1 DEF Rate!Max


LEMMA LadderIs ==
  /\ Rate!SlowDps[1] = <<59, 119>> /\ Rate!SlowDps[2] = <<179, 295>>
  /\ Rate!SlowDps[3] = <<474, 593>> /\ Rate!SlowDps[4] = <<896, 1193>>
  /\ Rate!SlowDps[5] = <<2088, 2402>>
BY DEF Rate!SlowDps

\* The speeds of a ladder: two each way, and faster with the level.
LEMMA Ladder ==
  ASSUME NEW l \in Rate!Levels
  PROVE  /\ Rate!SlowDps[l][1] \in Int /\ Rate!SlowDps[l][2] \in Int
         /\ 0 < Rate!SlowDps[l][1] /\ Rate!SlowDps[l][1] < Rate!SlowDps[l][2]
         /\ \A k \in Rate!Levels : l <= k => Rate!SlowDps[l][2] <= Rate!SlowDps[k][2]
<1>1. l \in {1, 2, 3, 4, 5}
  BY DEF Rate!Levels
<1>2. /\ Rate!SlowDps[l][1] \in Int /\ Rate!SlowDps[l][2] \in Int
      /\ 0 < Rate!SlowDps[l][1] /\ Rate!SlowDps[l][1] < Rate!SlowDps[l][2]
  BY <1>1, LadderIs
<1>3. ASSUME NEW k \in {1, 2, 3, 4, 5}, l <= k PROVE Rate!SlowDps[l][2] <= Rate!SlowDps[k][2]
  BY <1>1, <1>3, LadderIs
<1> QED BY <1>2, <1>3 DEF Rate!Levels

\* The level of a plan carries every axis of it, and no lower level does.
LEMMA LevelCarries ==
  ASSUME NEW r, Rate!InEnvelope(r),
         \A a \in Rate!Engaged(r) : r[a].target \in Int
  PROVE  LET l == Rate!CommonLevel(r) IN
         /\ l \in {0} \cup Rate!Levels
         /\ \A a \in Rate!Engaged(r) : l \in Rate!Levels /\ Rate!Fits(r[a].target, l)
         /\ \A k \in Rate!Levels : k < l => \E a \in Rate!Engaged(r) : ~Rate!Fits(r[a].target, k)
<1> DEFINE Fit(a) == {k \in Rate!Levels : Rate!Fits(r[a].target, k)}
           l == Rate!CommonLevel(r)
           Needed == {Rate!Min(Fit(a)) : a \in Rate!Engaged(r)}
<1>1. ASSUME NEW a \in Rate!Engaged(r)
      PROVE  Rate!Min(Fit(a)) \in Fit(a) /\ \A k \in Fit(a) : Rate!Min(Fit(a)) <= k
  <2>1. Fit(a) \subseteq Rate!Levels /\ Fit(a) # {}
    BY DEF Rate!InEnvelope
  <2> HIDE DEF Fit
  <2> QED BY <2>1, LeastLevel
<1>2. l \in {0} \cup Needed /\ \A k \in {0} \cup Needed : k <= l
  <2>1. Needed \subseteq Rate!Levels
    BY <1>1
  <2>2. l = Rate!Max({0} \cup Needed)
    BY DEF Rate!CommonLevel
  <2> HIDE DEF Needed
  <2> QED BY <2>1, <2>2, GreatestLevel
<1>3. l \in {0} \cup Rate!Levels
  BY <1>1, <1>2
<1>4. ASSUME NEW a \in Rate!Engaged(r) PROVE l \in Rate!Levels /\ Rate!Fits(r[a].target, l)
  <2>1. PICK m \in Rate!Levels : m = Rate!Min(Fit(a)) /\ Rate!Fits(r[a].target, m)
    BY <1>1
  <2>2. m <= l
    BY <1>2, <2>1
  <2>3. l \in Rate!Levels
    BY <1>3, <2>1, <2>2 DEF Rate!Levels
  <2> HIDE DEF l, Fit
  <2>4. Rate!SlowDps[m][2] <= Rate!SlowDps[l][2] /\ Rate!SlowDps[m][2] \in Int
    BY <2>2, <2>3, Ladder, Zenon
  <2>5. Rate!SlowDps[l][2] \in Int
    BY <2>3, Ladder, Zenon
  <2> QED BY <2>1, <2>3, <2>4, <2>5 DEF Rate!Fits, Rate!Magnitude
<1>5. ASSUME NEW k \in Rate!Levels, k < l
      PROVE  \E a \in Rate!Engaged(r) : ~Rate!Fits(r[a].target, k)
  <2>1. PICK a \in Rate!Engaged(r) : l = Rate!Min(Fit(a))
    BY <1>2, <1>5 DEF Rate!Levels
  <2>2. k \in Fit(a) => l <= k
    BY <1>1, <2>1, Zenon
  <2>3. k \notin Fit(a)
    <3> HIDE DEF l, Fit
    <3> QED BY <1>3, <1>5, <2>2 DEF Rate!Levels
  <2> QED BY <2>3
<1> QED BY <1>3, <1>4, <1>5

\* What the plan of an axis has to be: two neighbours of the ladder of the level, that
\* average to what was asked, and rest on the two slow points for a rate of zero.
Averages(x, t, l) ==
  LET ladder == {Rate!MakeLadder(l)[i] : i \in 1..4} IN
  /\ x.mode = "slow"
  /\ {x.low, x.high} \subseteq ladder
  /\ \A q \in ladder : q.dps <= x.low.dps \/ x.high.dps <= q.dps
  /\ x.low.dps * x.den + x.num * (x.high.dps - x.low.dps) = t * x.den
  /\ t = 0 => <<x.low, x.high, 2 * x.num>> = <<Rate!Point(l, 1, 1), Rate!Point(l, 0, 1), x.den>>

LEMMA RungsAre ==
  ASSUME NEW l \in Rate!Levels
  PROVE  LET rung == Rate!MakeLadder(l)
             slow == Rate!SlowDps[l][1]
             fast == Rate!SlowDps[l][2]
         IN  /\ rung[1] = Rate!Point(l, 1, 2) /\ rung[1].dps = -fast
             /\ rung[2] = Rate!Point(l, 1, 1) /\ rung[2].dps = -slow
             /\ rung[3] = Rate!Point(l, 0, 1) /\ rung[3].dps = slow
             /\ rung[4] = Rate!Point(l, 0, 2) /\ rung[4].dps = fast
             /\ \A i \in 1..4 : rung[i] \in Rate!Points
<1> DEFINE slow == Rate!SlowDps[l][1]
           fast == Rate!SlowDps[l][2]
<1>1. slow \in Int /\ fast \in Int
  BY Ladder, Zenon
<1>2. /\ Rate!Point(l, 1, 2).dps = -fast /\ Rate!Point(l, 1, 1).dps = -slow
      /\ Rate!Point(l, 0, 1).dps = slow /\ Rate!Point(l, 0, 2).dps = fast
  <2>1. ASSUME NEW state \in {1, 2}, Rate!SlowDps[l][state] \in Int
        PROVE  /\ Rate!Point(l, 1, state).dps = -Rate!SlowDps[l][state]
               /\ Rate!Point(l, 0, state).dps = Rate!SlowDps[l][state]
    <3> DEFINE speed == Rate!SlowDps[l][state]
    <3>1. speed \in Int
      BY <2>1
    <3>2. /\ Rate!Point(l, 1, state) = [dps |-> (IF 1 = 1 THEN -1 ELSE 1) * speed,
                                       key |-> 1, state |-> state, level |-> l]
          /\ Rate!Point(l, 0, state) = [dps |-> (IF 0 = 1 THEN -1 ELSE 1) * speed,
                                       key |-> 0, state |-> state, level |-> l]
      BY Zenon DEF Rate!Point
    <3> HIDE DEF speed
    <3>3. Rate!Point(l, 1, state).dps = -speed /\ Rate!Point(l, 0, state).dps = speed
      BY <3>1, <3>2
    <3> QED BY <3>3 DEF speed
  <2> QED BY <1>1, <2>1
<1>3. /\ Rate!MakeLadder(l)[1] = Rate!Point(l, 1, 2) /\ Rate!MakeLadder(l)[2] = Rate!Point(l, 1, 1)
      /\ Rate!MakeLadder(l)[3] = Rate!Point(l, 0, 1) /\ Rate!MakeLadder(l)[4] = Rate!Point(l, 0, 2)
  BY DEF Rate!MakeLadder
<1>4. \A key \in {0, 1}, state \in {1, 2} : Rate!Point(l, key, state) \in Rate!Points
  BY DEF Rate!Points
<1>5. \A i \in 1..4 : Rate!MakeLadder(l)[i] \in Rate!Points
  <2>1. 1..4 = {1, 2, 3, 4}
    OBVIOUS
  <2>2. \A i \in {1, 2, 3, 4} : Rate!MakeLadder(l)[i] \in Rate!Points
    BY <1>3, <1>4
  <2> QED BY <2>1, <2>2
<1> HIDE DEF slow, fast
<1> QED BY <1>2, <1>3, <1>5 DEF slow, fast

LEMMA BracketAverages ==
  ASSUME NEW l \in Rate!Levels, NEW t \in Int, Rate!Fits(t, l)
  PROVE  /\ Averages(Rate!Bracket(t, l), t, l)
         /\ {Rate!Bracket(t, l).low, Rate!Bracket(t, l).high} \subseteq Rate!Points
<1> DEFINE slow == Rate!SlowDps[l][1]
           fast == Rate!SlowDps[l][2]
           rung == Rate!MakeLadder(l)
           x == Rate!Bracket(t, l)
           ladder == {rung[i] : i \in 1..4}
           above == {i \in 2..4 : t <= rung[i].dps}
<1>1. slow \in Int /\ fast \in Int /\ 0 < slow /\ slow < fast
  BY Ladder, Zenon
<1>2. /\ rung[1] = Rate!Point(l, 1, 2) /\ rung[1].dps = -fast
      /\ rung[2] = Rate!Point(l, 1, 1) /\ rung[2].dps = -slow
      /\ rung[3] = Rate!Point(l, 0, 1) /\ rung[3].dps = slow
      /\ rung[4] = Rate!Point(l, 0, 2) /\ rung[4].dps = fast
      /\ \A i \in 1..4 : rung[i] \in Rate!Points
  BY RungsAre, Zenon
<1>3. -fast <= t /\ t <= fast
  <2>1. (IF t < 0 THEN -t ELSE t) <= fast
    BY DEF Rate!Fits, Rate!Magnitude
  <2> HIDE DEF fast
  <2> QED BY <1>1, <2>1
<1>4. ladder = {rung[1], rung[2], rung[3], rung[4]}
  OBVIOUS
<1>5. x = IF t <= rung[1].dps \/ above = {}
          THEN Rate!Pair(rung[IF t <= rung[1].dps THEN 1 ELSE 4], rung[IF t <= rung[1].dps THEN 1 ELSE 4], 1, 1)
          ELSE Rate!Pair(rung[Rate!Min(above) - 1], rung[Rate!Min(above)],
                 t - rung[Rate!Min(above) - 1].dps, rung[Rate!Min(above)].dps - rung[Rate!Min(above) - 1].dps)
  BY Zenon DEF Rate!Bracket
<1>6. SUFFICES /\ x.mode = "slow"
               /\ x.low \in ladder /\ x.high \in ladder
               /\ \A q \in ladder : q.dps <= x.low.dps \/ x.high.dps <= q.dps
               /\ x.low.dps * x.den + x.num * (x.high.dps - x.low.dps) = t * x.den
               /\ t = 0 => x.low = rung[2] /\ x.high = rung[3] /\ 2 * x.num = x.den
  <2>1. \A p \in ladder : p \in Rate!Points
    BY <1>2
  <2> HIDE DEF x
  <2>2. Averages(x, t, l)
    BY <1>2, <1>6 DEF Averages
  <2> QED BY <1>6, <2>1, <2>2 DEF x
<1>7. CASE t <= rung[1].dps
  <2>1. x = Rate!Pair(rung[1], rung[1], 1, 1)
    BY <1>5, <1>7
  <2>2. t = -fast
    BY <1>1, <1>2, <1>3, <1>7
  <2> HIDE DEF x, rung, fast, slow
  <2> QED BY <1>1, <1>2, <1>4, <2>1, <2>2 DEF Rate!Pair
<1>8. CASE ~(t <= rung[1].dps)
  <2>1. 4 \in above /\ above \subseteq Rate!Levels
    BY <1>2, <1>3 DEF Rate!Levels
  <2>2. Rate!Min(above) \in above /\ \A j \in above : Rate!Min(above) <= j
    <3> HIDE DEF above
    <3> QED BY <2>1, LeastLevel
  <2>3. PICK i \in {2, 3, 4} : i = Rate!Min(above)
    BY <2>2
  <2>4. x = Rate!Pair(rung[i - 1], rung[i], t - rung[i - 1].dps, rung[i].dps - rung[i - 1].dps)
    BY <1>5, <1>8, <2>1, <2>3, Zenon
  <2>5. t <= rung[i].dps
    BY <2>2, <2>3
  <2>6. rung[i - 1].dps < t
    <3>1. rung[1].dps \in Int /\ rung[2].dps \in Int /\ rung[3].dps \in Int
      BY <1>1, <1>2
    <3>2. CASE i = 2
      BY <1>8, <3>1, <3>2
    <3>3. CASE i \in {3, 4}
      <4>1. i - 1 \in 2..4 /\ i - 1 \notin above /\ i - 1 \in {2, 3}
        <5>1. i - 1 \notin above
          <6> HIDE DEF above
          <6> QED BY <2>2, <2>3, <3>3
        <5> QED BY <3>3, <5>1
      <4> QED BY <3>1, <4>1
    <3> QED BY <2>3, <3>2, <3>3
  <2> HIDE DEF x, rung, fast, slow
  <2>7. CASE i = 2
    BY <1>1, <1>2, <1>4, <2>4, <2>5, <2>6, <2>7 DEF Rate!Pair
  <2>8. CASE i = 3
    <3>1. /\ x.mode = "slow" /\ x.low = rung[2] /\ x.high = rung[3]
          /\ x.num = t + slow /\ x.den = slow + slow
      BY <1>1, <1>2, <2>4, <2>8 DEF Rate!Pair
    <3>2. (-slow) * (slow + slow) + (t + slow) * (slow - (-slow)) = t * (slow + slow)
      BY <1>1
    <3>3. x.low.dps = -slow /\ x.high.dps = slow
      BY <1>2, <3>1
    <3>4. x.low.dps * x.den + x.num * (x.high.dps - x.low.dps) = t * x.den
      BY <3>1, <3>2, <3>3, Zenon
    <3>5. t = 0 => 2 * x.num = x.den
      BY <1>1, <3>1
    <3>6. \A q \in ladder : q.dps <= x.low.dps \/ x.high.dps <= q.dps
      BY <1>1, <1>2, <1>4, <3>3
    <3> QED BY <1>4, <3>1, <3>4, <3>5, <3>6
  <2>9. CASE i = 4
    BY <1>1, <1>2, <1>4, <2>4, <2>5, <2>6, <2>9 DEF Rate!Pair
  <2> QED BY <2>3, <2>7, <2>8, <2>9
<1> QED BY <1>7, <1>8

\* So a plan is what its definition asks for.
LEMMA PlanOf ==
  ASSUME NEW r, \A a \in DOMAIN r : r[a].target \in Int, Rate!InEnvelope(r)
  PROVE  /\ Rate!SoundFor(r, Rate!RatePlan(r))
         /\ \A a \in DOMAIN r :
              LET x == Rate!RatePlan(r).axis[a] IN
              /\ x.mode \in {"stop", "slow"}
              /\ x.mode = "slow" => x.low \in Rate!Points /\ x.high \in Rate!Points
<1> DEFINE l == Rate!CommonLevel(r)
           p == Rate!RatePlan(r)
<1>1. Rate!Engaged(r) \subseteq DOMAIN r
  BY DEF Rate!Engaged
<1>2. /\ \A a \in Rate!Engaged(r) : l \in Rate!Levels /\ Rate!Fits(r[a].target, l)
      /\ \A k \in Rate!Levels : k < l => \E a \in Rate!Engaged(r) : ~Rate!Fits(r[a].target, k)
  <2>1. \A a \in Rate!Engaged(r) : r[a].target \in Int
    BY <1>1
  <2> QED BY <2>1, LevelCarries, Zenon
<1>3. /\ p.level = l
      /\ \A a \in DOMAIN r : p.axis[a] = IF a \in Rate!Engaged(r) THEN Rate!Bracket(r[a].target, l)
                                         ELSE Rate!Stop
  BY DEF Rate!RatePlan
<1> HIDE DEF l, p
<1>4. ASSUME NEW a \in DOMAIN r, a \in Rate!Engaged(r)
      PROVE  /\ Averages(p.axis[a], r[a].target, p.level)
             /\ {p.axis[a].low, p.axis[a].high} \subseteq Rate!Points
  <2>1. /\ Averages(Rate!Bracket(r[a].target, l), r[a].target, l)
        /\ {Rate!Bracket(r[a].target, l).low, Rate!Bracket(r[a].target, l).high} \subseteq Rate!Points
    BY <1>2, <1>4, BracketAverages
  <2>2. p.axis[a] = Rate!Bracket(r[a].target, l)
    BY <1>3, <1>4
  <2> QED BY <1>3, <2>1, <2>2, Zenon
<1>5. ASSUME NEW a \in DOMAIN r, a \notin Rate!Engaged(r) PROVE p.axis[a].mode = "stop"
  BY <1>3, <1>5 DEF Rate!Stop
<1>6. Rate!SoundFor(r, p)
  BY <1>2, <1>3, <1>4, <1>5, Zenon DEF Rate!SoundFor, Averages
<1>7. ASSUME NEW a \in DOMAIN r
      PROVE  /\ p.axis[a].mode \in {"stop", "slow"}
             /\ p.axis[a].mode = "slow" => p.axis[a].low \in Rate!Points /\ p.axis[a].high \in Rate!Points
  BY <1>4, <1>5 DEF Averages
<1> QED BY <1>6, <1>7 DEF p

\* Every plan the planner makes runs neighbouring points of the lowest common level,
\* which average exactly to the rate asked for (polaris-rate-plan.c).
THEOREM PlanSoundCorrect == PartsSpec => []PlanSound
<1>1. Rate!PlanSound
  BY RateAssumption, PlanOf DEF Rate!PlanSound
<1>2. PlanSound
  BY <1>1 DEF PlanSound
<1> QED BY <1>2, PTL

-----------------------------------------------------------------------------
(***************************************************************************)
(* RateControl, the scheduler. What it has commanded is a point of the     *)
(* ladder, so the wire never refuses it; and the head's lease of an axis   *)
(* is no younger than the scheduler's dwell.                               *)
(***************************************************************************)
RateTypes ==
  /\ plan # Rate!NoPlan => \A a \in RateAxes :
       LET x == plan.axis[a] IN
       /\ x.mode \in {"stop", "slow"}
       /\ x.mode = "slow" => x.low \in Rate!Points /\ x.high \in Rate!Points
  /\ active \in [RateAxes -> Rate!Points \cup {Rate!NoPoint}]
  /\ moving \in [RateAxes -> Rate!Points \cup {Rate!NoPoint}]
  /\ since \in [RateAxes -> 0..Rate!MinDwell] /\ silent \in [RateAxes -> 0..Rate!Watchdog]
  /\ stopSent \in [RateAxes -> BOOLEAN]
Following(a) ==
  /\ moving[a] # Rate!NoPoint => moving[a] = active[a] /\ since[a] <= silent[a]
  /\ plan # Rate!NoPlan /\ stopSent[a] => moving[a] = Rate!NoPoint
RateInv == RateTypes /\ \A a \in RateAxes : Following(a)

LEMMA Clock ==
  ASSUME NEW n \in Nat, NEW most \in Nat
  PROVE  /\ Rate!Min({most, n + 1}) \in 0..most
         /\ Rate!Min({most, n + 1}) = IF n + 1 <= most THEN n + 1 ELSE most
<1> DEFINE least == IF n + 1 <= most THEN n + 1 ELSE most
           both == {most, n + 1}
<1>1. least \in both /\ \A k \in both : least <= k
  OBVIOUS
<1>2. \A k \in both : (\A j \in both : k <= j) => k = least
  OBVIOUS
<1>3. Rate!Min(both) = least
  <2> HIDE DEF least, both
  <2> QED BY <1>1, <1>2 DEF Rate!Min
<1> QED BY <1>3

LEMMA NoPointIsNone == Rate!NoPoint \notin Rate!Points
<1>1. ASSUME NEW l, NEW key, NEW state \in {1, 2} PROVE Rate!Point(l, key, state).state # 0
  BY DEF Rate!Point
<1>2. \A q \in Rate!Points : q.state # 0
  BY <1>1 DEF Rate!Points
<1> QED BY <1>2 DEF Rate!NoPoint

\* What one tick does to one axis.
LEMMA TickAxis ==
  ASSUME RateInv, Rate!Tick, NEW a \in RateAxes
  PROVE  /\ moving'[a] \in Rate!Points \cup {Rate!NoPoint}
         /\ active'[a] \in Rate!Points \cup {Rate!NoPoint}
         /\ since'[a] \in 0..Rate!MinDwell /\ silent'[a] \in 0..Rate!Watchdog
         /\ stopSent'[a] \in BOOLEAN
         /\ Following(a)'
         /\ moving[a] # Rate!NoPoint /\ moving'[a] # Rate!NoPoint /\ moving'[a] # moving[a]
              => silent[a] >= Rate!MinDwell
<1> DEFINE x == plan.axis[a]
           p == Rate!PointForPhase(x)
           sent == Rate!EmitsSlow(a) \/ Rate!EmitsStop(a)
           taken == sent /\ Rate!Encodes(Rate!Frame(a)) /\ Rate!HeadAccepts(a, Rate!Frame(a))
<1>1. /\ plan # Rate!NoPlan /\ plan' = plan /\ stopSent'[a] = (x.mode = "stop")
      /\ moving'[a] = IF taken THEN Rate!HeadApply(a, Rate!Frame(a)) ELSE moving[a]
      /\ silent'[a] = IF taken THEN 0 ELSE silent[a]
      /\ active'[a] = IF Rate!EmitsSlow(a) THEN p
                      ELSE IF Rate!EmitsStop(a) THEN Rate!NoPoint ELSE active[a]
      /\ since'[a] = IF Rate!EmitsSlow(a) THEN 0 ELSE since[a]
  BY Zenon DEF Rate!Tick
<1>2. x.mode \in {"stop", "slow"} /\ (x.mode = "slow" => p \in Rate!Points)
  BY <1>1 DEF RateInv, RateTypes, Rate!PointForPhase
<1>3. /\ active[a] \in Rate!Points \cup {Rate!NoPoint} /\ moving[a] \in Rate!Points \cup {Rate!NoPoint}
      /\ since[a] \in 0..3 /\ silent[a] \in 0..16 /\ Following(a)
  BY DEF RateInv, RateTypes, Rate!MinDwell, Rate!Watchdog
<1>4. Rate!NoPoint \notin Rate!Points
  BY NoPointIsNone
<1> HIDE DEF x, p
<1>5. CASE Rate!EmitsSlow(a)
  <2>1. x.mode = "slow" /\ (active[a] # Rate!NoPoint => since[a] >= 3)
    BY <1>5, Zenon DEF Rate!EmitsSlow, x, Rate!MinDwell
  <2>2. Rate!Frame(a) = [args |-> p, stop |-> FALSE]
    BY <1>5, Zenon DEF Rate!Frame, p, x
  <2>3. taken /\ Rate!HeadApply(a, Rate!Frame(a)) = p
    BY <1>2, <1>5, <2>1, <2>2 DEF Rate!Encodes, Rate!HeadAccepts, Rate!HeadApply
  <2> HIDE DEF taken
  <2>4. /\ moving'[a] = p /\ active'[a] = p /\ silent'[a] = 0 /\ since'[a] = 0
        /\ stopSent'[a] = FALSE
    BY <1>1, <1>5, <2>1, <2>3
  <2> QED BY <1>1, <1>2, <1>3, <1>4, <2>1, <2>4 DEF Following, Rate!MinDwell, Rate!Watchdog
<1>6. CASE ~Rate!EmitsSlow(a) /\ Rate!EmitsStop(a)
  <2>1. x.mode = "stop" /\ stopSent'[a] = TRUE
    BY <1>1, <1>6 DEF Rate!EmitsStop, x
  <2>2. Rate!Frame(a) = [args |-> active[a], stop |-> TRUE]
    BY <1>6, Zenon DEF Rate!Frame
  <2>3. Rate!HeadApply(a, Rate!Frame(a)) = Rate!NoPoint
    BY <2>2 DEF Rate!HeadApply
  <2>4. moving[a] # Rate!NoPoint => taken
    BY <1>3, <1>4, <1>6, <2>2 DEF Rate!Encodes, Rate!HeadAccepts, Following
  <2> HIDE DEF taken
  <2>5. /\ moving'[a] = Rate!NoPoint /\ active'[a] = Rate!NoPoint /\ since'[a] = since[a]
        /\ silent'[a] \in {0, silent[a]}
    BY <1>1, <1>6, <2>3, <2>4
  <2> QED BY <1>1, <1>3, <2>1, <2>5 DEF Following, Rate!MinDwell, Rate!Watchdog
<1>7. CASE ~Rate!EmitsSlow(a) /\ ~Rate!EmitsStop(a)
  <2>1. /\ moving'[a] = moving[a] /\ active'[a] = active[a] /\ since'[a] = since[a]
        /\ silent'[a] = silent[a]
    BY <1>1, <1>7
  <2>2. stopSent'[a] => stopSent[a]
    BY <1>1, <1>7 DEF Rate!EmitsStop, x
  <2>3. stopSent'[a] \in BOOLEAN
    BY <1>1
  <2> QED BY <1>1, <1>3, <2>1, <2>2, <2>3 DEF Following, Rate!MinDwell, Rate!Watchdog
<1> QED BY <1>5, <1>6, <1>7

LEMMA RateStep ==
  ASSUME RateInv, [Rate!Next]_(Rate!vars)
  PROVE  /\ RateInv'
         /\ \A a \in RateAxes :
              moving[a] # Rate!NoPoint /\ moving'[a] # Rate!NoPoint /\ moving'[a] # moving[a]
                => silent[a] >= Rate!MinDwell
<1>1. CASE UNCHANGED Rate!vars
  BY <1>1 DEF Rate!vars, RateInv, RateTypes, Following
<1>2. CASE Rate!SetPlan
  <2>1. PICK r \in [RateAxes -> [target : Targets, hold : BOOLEAN]] :
          Rate!InEnvelope(r) /\ plan' = Rate!RatePlan(r)
    BY <1>2 DEF Rate!SetPlan
  <2>2. DOMAIN r = RateAxes /\ \A a \in DOMAIN r : r[a].target \in Int
    BY RateAssumption
  <2>3. \A a \in RateAxes :
          LET x == plan'.axis[a] IN
          /\ x.mode \in {"stop", "slow"}
          /\ x.mode = "slow" => x.low \in Rate!Points /\ x.high \in Rate!Points
    BY <2>1, <2>2, PlanOf
  <2>4. /\ stopSent' \in [RateAxes -> BOOLEAN] /\ \A a \in RateAxes : stopSent'[a] = FALSE
        /\ UNCHANGED <<active, since, moving, silent>>
    BY <1>2 DEF Rate!SetPlan
  <2> QED BY <2>3, <2>4 DEF RateInv, RateTypes, Following
<1>3. CASE Rate!Tick
  <2>1. /\ plan' = plan
        /\ moving' = [a \in RateAxes |-> moving'[a]] /\ active' = [a \in RateAxes |-> active'[a]]
        /\ since' = [a \in RateAxes |-> since'[a]] /\ silent' = [a \in RateAxes |-> silent'[a]]
        /\ stopSent' = [a \in RateAxes |-> stopSent'[a]]
    BY <1>3 DEF Rate!Tick
  <2>2. RateTypes'
    BY <1>3, <2>1, TickAxis DEF RateInv, RateTypes
  <2>3. \A a \in RateAxes : Following(a)'
    BY <1>3, TickAxis
  <2> QED BY <1>3, <2>2, <2>3, TickAxis DEF RateInv
<1>4. CASE Rate!HeadTick
  <2>1. /\ UNCHANGED <<plan, active, since, phase, stopSent>>
        /\ moving' = [a \in RateAxes |-> IF moving[a] # Rate!NoPoint /\ silent[a] >= Rate!Watchdog
                                         THEN Rate!NoPoint ELSE moving[a]]
        /\ silent' = [a \in RateAxes |-> IF moving[a] # Rate!NoPoint /\ silent[a] >= Rate!Watchdog
                                         THEN 0 ELSE silent[a]]
    BY <1>4 DEF Rate!HeadTick
  <2>2. RateTypes'
    BY <2>1 DEF RateInv, RateTypes, Rate!Watchdog
  <2>3. \A a \in RateAxes : Following(a)'
    BY <2>1 DEF RateInv, RateTypes, Following
  <2> QED BY <2>1, <2>2, <2>3 DEF RateInv
<1>5. CASE Rate!Pass
  <2>1. /\ UNCHANGED <<plan, active, stopSent, moving>>
        /\ since' = [a \in RateAxes |-> Rate!Min({Rate!MinDwell, since[a] + 1})]
        /\ silent' = [a \in RateAxes |-> Rate!Min({Rate!Watchdog, silent[a] + 1})]
    BY <1>5 DEF Rate!Pass
  <2>2. ASSUME NEW a \in RateAxes
        PROVE  /\ since'[a] \in 0..Rate!MinDwell /\ silent'[a] \in 0..Rate!Watchdog
               /\ since[a] <= silent[a] => since'[a] <= silent'[a]
    <3>1. since[a] \in 0..3 /\ silent[a] \in 0..16
      BY DEF RateInv, RateTypes, Rate!MinDwell, Rate!Watchdog
    <3>2. /\ since'[a] = IF since[a] + 1 <= 3 THEN since[a] + 1 ELSE 3
          /\ silent'[a] = IF silent[a] + 1 <= 16 THEN silent[a] + 1 ELSE 16
      <4>1. since[a] \in Nat /\ silent[a] \in Nat
        BY <3>1
      <4>2. /\ Rate!Min({3, since[a] + 1}) = IF since[a] + 1 <= 3 THEN since[a] + 1 ELSE 3
            /\ Rate!Min({16, silent[a] + 1}) = IF silent[a] + 1 <= 16 THEN silent[a] + 1 ELSE 16
        BY <4>1, Clock
      <4>3. /\ since'[a] = Rate!Min({3, since[a] + 1}) /\ silent'[a] = Rate!Min({16, silent[a] + 1})
        BY <2>1, Zenon DEF Rate!MinDwell, Rate!Watchdog
      <4> QED BY <4>2, <4>3, Zenon
    <3> QED BY <3>1, <3>2 DEF Rate!MinDwell, Rate!Watchdog
  <2>3. RateTypes'
    BY <2>1, <2>2 DEF RateInv, RateTypes
  <2>4. \A a \in RateAxes : Following(a)'
    BY <2>1, <2>2 DEF RateInv, Following
  <2> QED BY <2>1, <2>3, <2>4 DEF RateInv
<1> QED BY <1>1, <1>2, <1>3, <1>4, <1>5 DEF Rate!Next

LEMMA RateInit == PartsInit => RateInv
BY DEF PartsInit, Rate!Init, RateInv, RateTypes, Following, Rate!MinDwell, Rate!Watchdog

\* What moves at the head is the point last commanded, and once the stop of a plan is
\* out the axis stands (polaris-rate-scheduler.c with polaris-rate-wire.c).
THEOREM HeadFollowsCorrect == PartsSpec => []HeadFollows
<1>1. RateInv /\ [PartsNext]_partsVars => RateInv'
  BY RateSteps, RateStep
<1>2. RateInv => HeadFollows
  BY DEF RateInv, Following, HeadFollows, Rate!HeadFollows
<1> QED BY <1>1, <1>2, RateInit, PTL DEF PartsSpec

\* An axis that moves is given no other point within the dwell of the last.
THEOREM DwellKeptCorrect == PartsSpec => DwellKept
<1>1. RateInv /\ [PartsNext]_partsVars => RateInv'
  BY RateSteps, RateStep
<1>2. RateInv /\ [PartsNext]_partsVars =>
        [\A a \in RateAxes :
           moving[a] # Rate!NoPoint /\ moving'[a] # Rate!NoPoint /\ moving'[a] # moving[a]
             => silent[a] >= Rate!MinDwell]_(Rate!vars)
  BY RateSteps, RateStep
<1> QED BY <1>1, <1>2, RateInit, PTL DEF PartsSpec, DwellKept, Rate!DwellKept

-----------------------------------------------------------------------------
(***************************************************************************)
(* IpolarFrames, for any number of buffers, readers, frames and sessions:  *)
(* the store is the register of FrameRegister, until init clears the       *)
(* counts of a store that is leased (wiped). The count of a buffer is that *)
(* of the views on it (CountInv), so what is not counted nobody looks at;  *)
(* and no view survives the store it is of (LeaseInv).                     *)
(***************************************************************************)
Views == [frame : Nat, slot : Slots, session : Nat, build : Nat]

StoreTypes ==
  /\ ready \in BOOLEAN /\ wiped \in BOOLEAN /\ build \in Nat /\ frames \in Nat /\ session \in Nat
  /\ content \in [Slots -> Nat] /\ refs \in [Slots -> Nat]
  /\ published \in Slots \cup {-1}
  /\ view \in [Readers -> Views]

\* The readers that look at a buffer.
On(s) == {r \in Readers : Ipolar!Leased(r) /\ view[r].slot = s}
CountInv == \A s \in Slots : refs[s] = Cardinality(On(s))

LeaseInv ==
  \A r \in Readers : Ipolar!Leased(r) =>
    /\ ready /\ view[r].build = build /\ view[r].session <= session
    /\ content[view[r].slot] = view[r].frame

\* What is published is a frame that came, and only a store publishes.
PublishedInv ==
  /\ published # -1 => ready /\ content[published] # Ipolar!NoFrame
  /\ \A s \in Slots : content[s] <= frames

LeasesSound == CountInv /\ LeaseInv
StoreInv == StoreTypes /\ PublishedInv /\ (~wiped => LeasesSound)

-----------------------------------------------------------------------------
\* A buffer that counts no reference has no reader.
LEMMA Uncounted ==
  ASSUME CountInv, NEW s \in Slots, refs[s] = 0
  PROVE  \A r \in Readers : Ipolar!Leased(r) => view[r].slot # s
<1>1. IsFiniteSet(On(s))
  BY StoreAssumption, FS_Subset DEF On
<1>2. On(s) = {}
  BY <1>1, FS_EmptySet DEF CountInv
<1> QED BY <1>2 DEF On

\* A store without references has no reader.
LEMMA NoLease ==
  ASSUME StoreTypes, CountInv, ~Ipolar!StoreBusy
  PROVE  \A r \in Readers : ~Ipolar!Leased(r)
BY Uncounted DEF Ipolar!StoreBusy, StoreTypes, Views

LEMMA StoreStarts == Ipolar!Init => StoreInv
<1> SUFFICES ASSUME Ipolar!Init PROVE StoreInv
  OBVIOUS
<1>1. \A r \in Readers : ~Ipolar!Leased(r)
  BY DEF Ipolar!Init, Ipolar!Leased, Ipolar!NoView, Ipolar!NoFrame
<1>2. \A s \in Slots : On(s) = {}
  BY <1>1 DEF On
<1>3. CountInv
  BY <1>2, FS_EmptySet DEF CountInv, Ipolar!Init
<1>4. StoreTypes
  BY StoreAssumption DEF StoreTypes, Views, Ipolar!Init, Ipolar!NoView, Ipolar!NoFrame
<1> QED BY <1>1, <1>3, <1>4 DEF StoreInv, LeasesSound, LeaseInv, PublishedInv, Ipolar!Init,
     Ipolar!NoFrame

\* A step that leaves counts and views alone leaves CountInv alone.
LEMMA CountKept ==
  ASSUME CountInv, UNCHANGED <<refs, view>>
  PROVE  CountInv'
BY DEF CountInv, On, Ipolar!Leased

LEMMA AcquireInv ==
  ASSUME StoreInv, NEW r \in Readers, Ipolar!Acquire(r)
  PROVE  StoreInv'
<1>1. PICK buf \in Slots : buf = published
  BY DEF Ipolar!Acquire, StoreInv, StoreTypes
<1>2. ready /\ ~Ipolar!Leased(r) /\ content[buf] # Ipolar!NoFrame
  BY <1>1 DEF Ipolar!Acquire, StoreInv, PublishedInv
<1>3. view' = [view EXCEPT ![r] = [frame |-> content[buf], slot |-> buf,
                                   session |-> session, build |-> build]]
  BY <1>1 DEF Ipolar!Acquire
<1>4. /\ Ipolar!Leased(r)' /\ view'[r].slot = buf
      /\ \A q \in Readers \ {r} : view'[q] = view[q] /\ Ipolar!Leased(q)' = Ipolar!Leased(q)
  BY <1>2, <1>3 DEF Ipolar!Leased, StoreInv, StoreTypes
<1>5. StoreTypes'
  BY <1>1, <1>3 DEF StoreInv, StoreTypes, Views, Ipolar!Acquire, Ipolar!adapter
<1>6. On(buf)' = On(buf) \cup {r} /\ r \notin On(buf)
  BY <1>2, <1>4 DEF On
<1>7. \A s \in Slots \ {buf} : On(s)' = On(s)
  <2> SUFFICES ASSUME NEW s \in Slots \ {buf} PROVE On(s)' = On(s)
    OBVIOUS
  <2> QED BY <1>2, <1>4 DEF On
<1>8. IsFiniteSet(On(buf))
  BY StoreAssumption, FS_Subset DEF On
<1>9. Cardinality(On(buf)') = Cardinality(On(buf)) + 1
  BY <1>6, <1>8, FS_AddElement
<1>10. CountInv => CountInv'
  <2> SUFFICES ASSUME CountInv, NEW s \in Slots PROVE refs'[s] = Cardinality(On(s)')
    BY DEF CountInv
  <2> QED BY <1>1, <1>7, <1>9 DEF CountInv, Ipolar!Acquire, StoreInv, StoreTypes
<1>11. LeaseInv => LeaseInv'
  BY <1>1, <1>2, <1>3, <1>4 DEF LeaseInv, StoreInv, StoreTypes, Ipolar!Acquire, Ipolar!adapter
<1>12. PublishedInv' /\ wiped' = wiped
  BY DEF PublishedInv, StoreInv, Ipolar!Acquire
<1> QED BY <1>5, <1>10, <1>11, <1>12 DEF StoreInv, LeasesSound

LEMMA ReleaseInv ==
  ASSUME StoreInv, NEW r \in Readers, Ipolar!Release(r)
  PROVE  StoreInv'
<1>1. PICK buf \in Slots : buf = view[r].slot
  BY DEF StoreInv, StoreTypes, Views
<1>2. Ipolar!Leased(r) /\ refs[buf] # 0 /\ refs[buf] - 1 \in Nat
  BY <1>1 DEF Ipolar!Release, StoreInv, StoreTypes
<1>3. ~Ipolar!Leased(r)' /\ \A q \in Readers \ {r} : view'[q] = view[q] /\ Ipolar!Leased(q)' = Ipolar!Leased(q)
  BY DEF Ipolar!Leased, Ipolar!Release, StoreInv, StoreTypes, Ipolar!NoView, Ipolar!NoFrame
<1>4. StoreTypes'
  BY StoreAssumption, <1>1, <1>2 DEF StoreInv, StoreTypes, Views, Ipolar!Release, Ipolar!adapter,
       Ipolar!NoView, Ipolar!NoFrame
<1>5. On(buf)' = On(buf) \ {r} /\ r \in On(buf)
  BY <1>1, <1>2, <1>3 DEF On
<1>6. \A s \in Slots \ {buf} : On(s)' = On(s)
  <2> SUFFICES ASSUME NEW s \in Slots \ {buf} PROVE On(s)' = On(s)
    OBVIOUS
  <2> QED BY <1>1, <1>3 DEF On
<1>7. IsFiniteSet(On(buf))
  BY StoreAssumption, FS_Subset DEF On
<1>8. Cardinality(On(buf)') = Cardinality(On(buf)) - 1
  BY <1>5, <1>7, FS_RemoveElement
<1>9. CountInv => CountInv'
  <2> SUFFICES ASSUME CountInv, NEW s \in Slots PROVE refs'[s] = Cardinality(On(s)')
    BY DEF CountInv
  <2> QED BY <1>1, <1>6, <1>8 DEF CountInv, Ipolar!Release, StoreInv, StoreTypes
<1>10. LeaseInv => LeaseInv'
  BY <1>3 DEF LeaseInv, StoreInv, Ipolar!Release, Ipolar!adapter
<1>11. PublishedInv' /\ wiped' = wiped
  BY DEF PublishedInv, StoreInv, Ipolar!Release
<1> QED BY <1>4, <1>9, <1>10, <1>11 DEF StoreInv, LeasesSound

\* A frame goes to a buffer without a reader.
LEMMA FrameInv ==
  ASSUME StoreInv, Ipolar!FrameCb
  PROVE  StoreInv'
<1>1. (CountInv => CountInv') /\ wiped' = wiped
  BY CountKept DEF Ipolar!FrameCb
<1>2. CASE Ipolar!Free = {} /\ Ipolar!Drop
  BY <1>1, <1>2 DEF Ipolar!FrameCb, Ipolar!Drop, StoreInv, StoreTypes, LeasesSound, LeaseInv,
       PublishedInv, Ipolar!Leased, Ipolar!adapter
<1>3. CASE \E s \in Ipolar!Free : Ipolar!Fill(s)
  <2>1. PICK s \in Slots : refs[s] = 0 /\ Ipolar!Fill(s)
    BY <1>3 DEF Ipolar!Free
  <2>2. CountInv => \A r \in Readers : Ipolar!Leased(r) => view[r].slot # s
    BY <2>1, Uncounted
  <2>3. StoreTypes'
    BY <2>1 DEF Ipolar!FrameCb, Ipolar!Fill, StoreInv, StoreTypes, Ipolar!adapter
  <2>4. LeasesSound => LeaseInv'
    BY <2>1, <2>2 DEF Ipolar!FrameCb, Ipolar!Fill, StoreInv, StoreTypes, Views, LeasesSound,
         LeaseInv, Ipolar!Leased, Ipolar!adapter
  <2>5. PublishedInv'
    BY <2>1 DEF Ipolar!FrameCb, Ipolar!Fill, StoreInv, StoreTypes, PublishedInv, Ipolar!NoFrame
  <2> QED BY <1>1, <2>3, <2>4, <2>5 DEF StoreInv, LeasesSound
<1> QED BY <1>2, <1>3 DEF Ipolar!FrameCb, Ipolar!StorePublish

\* What ends a session or a store leaves the buffers alone that have a reader.
LEMMA AdapterInv ==
  ASSUME StoreInv, Ipolar!AdapterInit \/ Ipolar!Open \/ Ipolar!Close \/ Ipolar!Exit \/ Ipolar!Stream
  PROVE  StoreInv'
<1>1. CASE Ipolar!Open
  BY <1>1, CountKept DEF Ipolar!Open, StoreInv, StoreTypes, Views, LeasesSound, LeaseInv,
       PublishedInv, Ipolar!Leased
<1>2. CASE Ipolar!Close
  BY <1>2, CountKept DEF Ipolar!Close, Ipolar!StoreInvalidate, StoreInv, StoreTypes, Views,
       LeasesSound, LeaseInv, PublishedInv, Ipolar!Leased
<1>3. CASE Ipolar!Stream
  BY <1>3, CountKept DEF Ipolar!Stream, Ipolar!StoreInvalidate, StoreInv, StoreTypes, Views,
       LeasesSound, LeaseInv, PublishedInv, Ipolar!Leased
<1>4. CASE Ipolar!Exit
  <2>1. (CountInv => CountInv') /\ wiped' = wiped
    BY <1>4, CountKept DEF Ipolar!Exit
  <2>2. CASE Ipolar!StoreBusy \/ ~ready
    BY <1>4, <2>1, <2>2 DEF Ipolar!Exit, StoreInv, StoreTypes, Views, LeasesSound, LeaseInv,
         PublishedInv, Ipolar!Leased
  <2>3. CASE ready /\ ~Ipolar!StoreBusy
    <3>1. CountInv => \A r \in Readers : ~Ipolar!Leased(r)
      BY <2>3, NoLease DEF StoreInv
    <3>2. LeasesSound => LeaseInv'
      BY <1>4, <2>3, <3>1 DEF Ipolar!Exit, LeasesSound, LeaseInv, Ipolar!Leased
    <3>3. StoreTypes'
      <4>1. /\ ready' \in BOOLEAN /\ published' = -1 /\ content' = [s \in Slots |-> Ipolar!NoFrame]
            /\ session' \in {session, session + 1} /\ UNCHANGED <<build, refs, frames, view, wiped>>
        BY <1>4, <2>3 DEF Ipolar!Exit, Ipolar!StoreDestroy
      <4>2. content' \in [Slots -> Nat]
        BY <4>1 DEF Ipolar!NoFrame
      <4> QED BY <4>1, <4>2 DEF StoreInv, StoreTypes
    <3>4. PublishedInv'
      BY <1>4, <2>3 DEF Ipolar!Exit, Ipolar!StoreDestroy, StoreInv, StoreTypes, PublishedInv,
           Ipolar!NoFrame
    <3> QED BY <2>1, <3>2, <3>3, <3>4 DEF StoreInv, LeasesSound
  <2> QED BY <2>2, <2>3
<1>5. CASE Ipolar!AdapterInit
  <2>1. ~wiped' => ~wiped /\ \A r \in Readers : ~Ipolar!Leased(r)
    BY <1>5, NoLease DEF Ipolar!AdapterInit, StoreInv, LeasesSound
  <2>2. ~wiped' => \A s \in Slots : On(s)' = {}
    BY <1>5, <2>1 DEF Ipolar!AdapterInit, On, Ipolar!Leased
  <2>3. ~wiped' => CountInv'
    BY <1>5, <2>2, FS_EmptySet DEF Ipolar!AdapterInit, Ipolar!StoreInit, CountInv
  <2>4. ~wiped' => LeaseInv'
    BY <1>5, <2>1 DEF Ipolar!AdapterInit, LeaseInv, Ipolar!Leased
  <2>5. StoreTypes'
    <3>1. /\ ready' \in BOOLEAN /\ published' = -1 /\ session' = 1 /\ build' = build + 1
          /\ content' = [s \in Slots |-> Ipolar!NoFrame] /\ refs' = [s \in Slots |-> 0]
          /\ UNCHANGED <<frames, view>>
      BY <1>5 DEF Ipolar!AdapterInit, Ipolar!StoreInit
    <3>2. content' \in [Slots -> Nat] /\ refs' \in [Slots -> Nat]
      BY <3>1 DEF Ipolar!NoFrame
    <3>3. wiped' \in BOOLEAN
      BY <1>5, Zenon DEF Ipolar!AdapterInit
    <3> QED BY <3>1, <3>2, <3>3 DEF StoreInv, StoreTypes
  <2>6. PublishedInv'
    BY <1>5 DEF Ipolar!AdapterInit, Ipolar!StoreInit, StoreInv, StoreTypes, PublishedInv,
         Ipolar!NoFrame
  <2> QED BY <2>3, <2>4, <2>5, <2>6 DEF StoreInv, LeasesSound
<1> QED BY <1>1, <1>2, <1>3, <1>4, <1>5

LEMMA StoreStutter ==
  ASSUME StoreInv, UNCHANGED Ipolar!vars
  PROVE  StoreInv'
BY CountKept DEF Ipolar!vars, Ipolar!adapter, StoreInv, StoreTypes, Views, LeasesSound,
     LeaseInv, PublishedInv, Ipolar!Leased

\* StoreInv is inductive.
LEMMA StoreStep ==
  ASSUME StoreInv, [Ipolar!Next]_(Ipolar!vars)
  PROVE  StoreInv'
<1>1. CASE UNCHANGED Ipolar!vars
  BY <1>1, StoreStutter
<1>2. CASE Ipolar!Next
  BY <1>2, AcquireInv, ReleaseInv, FrameInv, AdapterInv DEF Ipolar!Next
<1> QED BY <1>1, <1>2

-----------------------------------------------------------------------------
\* Whatever happens to the store, the pixels under a reader stay those it leased
\* until it gives them back, as long as init has not built over a leased store
\* (stage2_ipolar_frames.c, ipolar_adapter_init).
THEOREM LeasedBytesCorrect == PartsSpec => []Ipolar!LeasedBytesKept
<1>1. PartsInit => StoreInv
  BY StoreStarts DEF PartsInit
<1>2. StoreInv /\ [PartsNext]_partsVars => StoreInv'
  BY FrameSteps, StoreStep
<1>3. StoreInv => Ipolar!LeasedBytesKept
  BY DEF StoreInv, LeasesSound, LeaseInv, Ipolar!LeasedBytesKept, Ipolar!Seen
<1> QED BY <1>1, <1>2, <1>3, PTL DEF PartsSpec

-----------------------------------------------------------------------------
(* The refinement: what each kind of step does to the register.            *)

HeldInRegister == [r \in Readers |-> IF Ipolar!Leased(r) THEN Ipolar!Seen(r) ELSE Ipolar!NoFrame]
CurrentInRegister == [r \in Readers |-> Ipolar!IsCurrent(r)]

\* What a reader holds in the register is the frame of its view.
LEMMA HeldIsLeased ==
  ASSUME StoreInv, ~wiped, NEW r \in Readers
  PROVE  HeldInRegister[r] = IF Ipolar!Leased(r) THEN view[r].frame ELSE Ipolar!NoFrame
BY DEF StoreInv, LeasesSound, LeaseInv, HeldInRegister, Ipolar!Seen

\* So it changes only with the views.
LEMMA HeldKept ==
  ASSUME StoreInv, StoreInv', ~wiped, ~wiped', UNCHANGED view
  PROVE  HeldInRegister' = HeldInRegister
<1>1. \A r \in Readers : HeldInRegister'[r] = HeldInRegister[r]
  <2> SUFFICES ASSUME NEW r \in Readers PROVE HeldInRegister'[r] = HeldInRegister[r]
    OBVIOUS
  <2>1. Ipolar!Leased(r)' = Ipolar!Leased(r) /\ view'[r] = view[r]
    BY DEF Ipolar!Leased
  <2>2. HeldInRegister[r] = IF Ipolar!Leased(r) THEN view[r].frame ELSE Ipolar!NoFrame
    BY HeldIsLeased
  <2>3. HeldInRegister'[r] = IF Ipolar!Leased(r)' THEN view'[r].frame ELSE Ipolar!NoFrame
    BY DEF StoreInv, LeasesSound, LeaseInv, HeldInRegister, Ipolar!Seen
  <2> QED BY <2>1, <2>2, <2>3 DEF Ipolar!Leased
<1> QED BY <1>1 DEF HeldInRegister

\* The end of a session, or of a store nobody reads.
LEMMA EndsSession ==
  ASSUME StoreInv, StoreInv', ~wiped, ~wiped', UNCHANGED view, published' = -1,
         \A r \in Readers : ~Ipolar!IsCurrent(r)'
  PROVE  Ipolar!Register!EndSession
<1>1. \A r \in Readers : Ipolar!IsCurrent(r)' = FALSE
  BY DEF Ipolar!IsCurrent
<1>2. CurrentInRegister' = [r \in Readers |-> FALSE]
  BY <1>1 DEF CurrentInRegister
<1>3. HeldInRegister' = HeldInRegister
  BY HeldKept
<1> QED BY <1>2, <1>3 DEF Ipolar!Register!EndSession, HeldInRegister, CurrentInRegister

LEMMA AcquireRefines ==
  ASSUME StoreInv, StoreInv', ~wiped, ~wiped', NEW r \in Readers, Ipolar!Acquire(r)
  PROVE  Ipolar!Register!Acquire(r)
<1>1. PICK buf \in Slots : buf = published
  BY DEF Ipolar!Acquire, StoreInv, StoreTypes
<1>2. ready /\ ~Ipolar!Leased(r) /\ content[buf] # Ipolar!NoFrame /\ published # -1
  BY <1>1 DEF Ipolar!Acquire, StoreInv, PublishedInv
<1>3. view' = [view EXCEPT ![r] = [frame |-> content[buf], slot |-> buf,
                                   session |-> session, build |-> build]]
  BY <1>1 DEF Ipolar!Acquire
<1>4. /\ view'[r] = [frame |-> content[buf], slot |-> buf, session |-> session,
                     build |-> build]
      /\ \A q \in Readers \ {r} : view'[q] = view[q]
  BY <1>3 DEF StoreInv, StoreTypes
<1>5. /\ Ipolar!Leased(r)' /\ view'[r].frame = content[buf] /\ Ipolar!IsCurrent(r)'
      /\ \A q \in Readers \ {r} : Ipolar!Leased(q)' = Ipolar!Leased(q) /\ Ipolar!IsCurrent(q)' = Ipolar!IsCurrent(q)
  BY <1>2, <1>4 DEF Ipolar!Leased, Ipolar!IsCurrent, Ipolar!Acquire
<1>6. HeldInRegister' = [HeldInRegister EXCEPT ![r] = content[buf]]
  <2> SUFFICES ASSUME NEW q \in Readers
               PROVE  HeldInRegister'[q] = IF q = r THEN content[buf] ELSE HeldInRegister[q]
    BY DEF HeldInRegister
  <2>1. HeldInRegister'[q] = IF Ipolar!Leased(q)' THEN view'[q].frame ELSE Ipolar!NoFrame
    BY DEF StoreInv, LeasesSound, LeaseInv, HeldInRegister, Ipolar!Seen
  <2>2. HeldInRegister[q] = IF Ipolar!Leased(q) THEN view[q].frame ELSE Ipolar!NoFrame
    BY HeldIsLeased
  <2> QED BY <1>4, <1>5, <2>1, <2>2 DEF Ipolar!Leased
<1>7. CurrentInRegister' = [CurrentInRegister EXCEPT ![r] = TRUE]
  BY <1>5 DEF CurrentInRegister, Ipolar!IsCurrent
<1>8. HeldInRegister[r] = Ipolar!NoFrame
  BY <1>2 DEF HeldInRegister
<1>9. UNCHANGED <<content, published>>
  BY DEF Ipolar!Acquire
<1> QED BY <1>1, <1>2, <1>6, <1>7, <1>8, <1>9 DEF Ipolar!Register!Acquire, HeldInRegister,
     CurrentInRegister

LEMMA ReleaseRefines ==
  ASSUME StoreInv, StoreInv', ~wiped, ~wiped', NEW r \in Readers, Ipolar!Release(r)
  PROVE  Ipolar!Register!Release(r)
<1>1. view' = [view EXCEPT ![r] = Ipolar!NoView] /\ view'[r] = Ipolar!NoView
      /\ \A q \in Readers \ {r} : view'[q] = view[q]
  BY DEF Ipolar!Release, StoreInv, StoreTypes
<1>2. /\ ~Ipolar!Leased(r)' /\ Ipolar!IsCurrent(r)' = FALSE
      /\ \A q \in Readers \ {r} : Ipolar!Leased(q)' = Ipolar!Leased(q) /\ Ipolar!IsCurrent(q)' = Ipolar!IsCurrent(q)
  BY <1>1 DEF Ipolar!Leased, Ipolar!IsCurrent, Ipolar!NoView, Ipolar!NoFrame, Ipolar!Release
<1>3. HeldInRegister' = [HeldInRegister EXCEPT ![r] = Ipolar!NoFrame]
  <2> SUFFICES ASSUME NEW q \in Readers
               PROVE  HeldInRegister'[q] = IF q = r THEN Ipolar!NoFrame ELSE HeldInRegister[q]
    BY DEF HeldInRegister
  <2>1. HeldInRegister'[q] = IF Ipolar!Leased(q)' THEN view'[q].frame ELSE Ipolar!NoFrame
    BY DEF StoreInv, LeasesSound, LeaseInv, HeldInRegister, Ipolar!Seen
  <2>2. HeldInRegister[q] = IF Ipolar!Leased(q) THEN view[q].frame ELSE Ipolar!NoFrame
    BY HeldIsLeased
  <2> QED BY <1>1, <1>2, <2>1, <2>2 DEF Ipolar!Leased
<1>4. CurrentInRegister' = [CurrentInRegister EXCEPT ![r] = FALSE]
  BY <1>2 DEF CurrentInRegister, Ipolar!IsCurrent
<1>5. Ipolar!Leased(r) /\ HeldInRegister[r] = view[r].frame
  BY HeldIsLeased DEF Ipolar!Release
<1>6. HeldInRegister[r] # Ipolar!NoFrame
  BY <1>5 DEF Ipolar!Leased
<1>7. UNCHANGED <<content, published>>
  BY DEF Ipolar!Release
<1> QED BY <1>3, <1>4, <1>6, <1>7 DEF Ipolar!Register!Release, HeldInRegister, CurrentInRegister

LEMMA FrameRefines ==
  ASSUME StoreInv, StoreInv', ~wiped, ~wiped', Ipolar!FrameCb
  PROVE  [Ipolar!Register!Next]_(Ipolar!Register!vars)
<1>1. HeldInRegister' = HeldInRegister
  BY HeldKept DEF Ipolar!FrameCb
<1>2. CurrentInRegister' = CurrentInRegister
  BY DEF Ipolar!FrameCb, CurrentInRegister, Ipolar!IsCurrent, Ipolar!Leased
<1>3. CASE Ipolar!Drop
  BY <1>1, <1>2, <1>3 DEF Ipolar!Drop, Ipolar!Register!vars, HeldInRegister, CurrentInRegister
<1>4. CASE \E s \in Ipolar!Free : Ipolar!Fill(s)
  <2>1. PICK s \in Slots : Ipolar!Fill(s)
    BY <1>4 DEF Ipolar!Free
  <2>2. published' = s /\ content'[s] = frames' /\ s # -1
    BY StoreAssumption, <2>1 DEF Ipolar!Fill, StoreInv, StoreTypes
  <2>3. frames' \in 1..MaxFrames /\ frames' = frames + 1
    BY StoreAssumption DEF Ipolar!FrameCb, StoreInv, StoreTypes
  <2>4. published # -1 => published \in Slots /\ content[published] <= frames
    BY DEF StoreInv, StoreTypes, PublishedInv
  <2>5. frames' # IF published = -1 THEN Ipolar!NoFrame ELSE content[published]
    BY <2>3, <2>4 DEF StoreInv, StoreTypes, Ipolar!NoFrame
  <2>6. Ipolar!Register!Publish
    BY <1>1, <1>2, <2>2, <2>3, <2>5 DEF Ipolar!Register!Publish, HeldInRegister, CurrentInRegister
  <2> QED BY <2>6 DEF Ipolar!Register!Next
<1> QED BY <1>3, <1>4 DEF Ipolar!FrameCb, Ipolar!StorePublish

LEMMA AdapterRefines ==
  ASSUME StoreInv, StoreInv', ~wiped, ~wiped',
         Ipolar!AdapterInit \/ Ipolar!Open \/ Ipolar!Close \/ Ipolar!Exit \/ Ipolar!Stream
  PROVE  [Ipolar!Register!Next]_(Ipolar!Register!vars)
<1>1. view' = view /\ \A r \in Readers : Ipolar!Leased(r)' = Ipolar!Leased(r)
  BY DEF Ipolar!AdapterInit, Ipolar!Open, Ipolar!Close, Ipolar!Exit, Ipolar!Stream, Ipolar!Leased
<1>2. HeldInRegister' = HeldInRegister
  BY <1>1, HeldKept
<1>3. CASE UNCHANGED <<ready, session, published, content>>
  <2>1. CurrentInRegister' = CurrentInRegister
    BY <1>1, <1>3 DEF CurrentInRegister, Ipolar!IsCurrent
  <2> QED BY <1>2, <1>3, <2>1 DEF Ipolar!Register!vars, HeldInRegister, CurrentInRegister
<1>4. CASE published' = -1 /\ \A r \in Readers : ~Ipolar!IsCurrent(r)'
  BY <1>1, <1>4, EndsSession DEF Ipolar!Register!Next
<1>5. CASE ready /\ session' = session + 1 /\ published' = -1
  <2>1. \A r \in Readers : ~Ipolar!IsCurrent(r)'
    BY <1>1, <1>5 DEF Ipolar!IsCurrent, StoreInv, StoreTypes, Views, LeasesSound, LeaseInv
  <2> QED BY <1>4, <1>5, <2>1
<1>6. CASE ~ready' /\ published' = -1
  BY <1>4, <1>6 DEF Ipolar!IsCurrent
<1>7. CASE Ipolar!AdapterInit
  <2>1. published' = -1 /\ \A r \in Readers : ~Ipolar!Leased(r)
    BY <1>7, NoLease DEF Ipolar!AdapterInit, Ipolar!StoreInit, StoreInv, LeasesSound
  <2> QED BY <1>1, <1>4, <2>1 DEF Ipolar!IsCurrent
<1>8. CASE Ipolar!Open
  BY <1>3, <1>8 DEF Ipolar!Open
<1>9. CASE Ipolar!Close
  BY <1>3, <1>5, <1>9 DEF Ipolar!Close, Ipolar!StoreInvalidate
<1>10. CASE Ipolar!Stream
  BY <1>3, <1>5, <1>10 DEF Ipolar!Stream, Ipolar!StoreInvalidate
<1>11. CASE Ipolar!Exit
  <2>1. CASE ready /\ ~Ipolar!StoreBusy
    BY <1>6, <1>11, <2>1 DEF Ipolar!Exit, Ipolar!StoreDestroy
  <2>2. CASE ready /\ Ipolar!StoreBusy /\ devh
    BY <1>5, <1>11, <2>2 DEF Ipolar!Exit
  <2>3. CASE ~ready \/ (Ipolar!StoreBusy /\ ~devh)
    BY <1>3, <1>11, <2>3 DEF Ipolar!Exit
  <2> QED BY <2>1, <2>2, <2>3
<1> QED BY <1>7, <1>8, <1>9, <1>10, <1>11

\* The store and its adapter implement the register with leases: no frame, no
\* end of a session and no teardown changes what a reader has leased, and a
\* frame of an earlier session is never the current one.
THEOREM StoreImplementsRegister ==
  PartsSpec => ImplementsRegister
<1>1. PartsInit => StoreInv
  BY StoreStarts DEF PartsInit
<1>2. StoreInv /\ [PartsNext]_partsVars => StoreInv'
  BY FrameSteps, StoreStep
<1>3. PartsInit => Ipolar!Register!Init
  <2> SUFFICES ASSUME Ipolar!Init PROVE Ipolar!Register!Init
    BY DEF PartsInit
  <2>1. \A r \in Readers : ~Ipolar!Leased(r) /\ Ipolar!IsCurrent(r) = FALSE
    BY DEF Ipolar!Init, Ipolar!Leased, Ipolar!IsCurrent, Ipolar!NoView, Ipolar!NoFrame
  <2> QED BY <2>1 DEF Ipolar!Init, Ipolar!Register!Init
<1>4. StoreInv /\ StoreInv' /\ [PartsNext]_partsVars
        => [Ipolar!Register!Next \/ wiped']_(Ipolar!Register!vars)
  <2> SUFFICES ASSUME StoreInv, StoreInv', [Ipolar!Next]_(Ipolar!vars), ~wiped'
               PROVE  [Ipolar!Register!Next]_(Ipolar!Register!vars)
    BY FrameSteps
  <2>0. ~wiped
    BY DEF Ipolar!Next, Ipolar!vars, Ipolar!AdapterInit, Ipolar!Open, Ipolar!Close, Ipolar!Exit,
           Ipolar!Stream, Ipolar!FrameCb, Ipolar!Acquire, Ipolar!Release
  <2>1. CASE UNCHANGED Ipolar!vars
    <3>1. HeldInRegister' = HeldInRegister /\ CurrentInRegister' = CurrentInRegister
      BY <2>0, <2>1, HeldKept DEF Ipolar!vars, CurrentInRegister, Ipolar!IsCurrent, Ipolar!Leased
    <3> QED BY <2>1, <3>1 DEF Ipolar!vars, Ipolar!Register!vars, HeldInRegister, CurrentInRegister
  <2>2. CASE \E r \in Readers : Ipolar!Acquire(r) \/ Ipolar!Release(r)
    BY <2>0, <2>2, AcquireRefines, ReleaseRefines DEF Ipolar!Register!Next
  <2>3. CASE Ipolar!FrameCb
    BY <2>0, <2>3, FrameRefines
  <2>4. CASE Ipolar!AdapterInit \/ Ipolar!Open \/ Ipolar!Close \/ Ipolar!Exit \/ Ipolar!Stream
    BY <2>0, <2>4, AdapterRefines
  <2> QED BY <2>1, <2>2, <2>3, <2>4 DEF Ipolar!Next
<1> QED BY <1>1, <1>2, <1>3, <1>4, PTL
  DEF PartsSpec, ImplementsRegister, Ipolar!ImplementsRegister

-----------------------------------------------------------------------------
(***************************************************************************)
(* LaunchBackoff. The starts themselves are in the state, but only while   *)
(* they are younger than Stable, and the age of the record only up to it.  *)
(* The invariant therefore speaks of the last five starts by their true    *)
(* ages s[1] <= ... <= s[5], and of the true age g of the last launch: a   *)
(* launch with COUNT c waited Delays[c] after the start before it, the     *)
(* one before that Delays[c - 1], and before COUNT 0 nothing was launched  *)
(* for Stable. So a sixth start in Stable would have to follow five waits. *)
(* All of it until the clock is set.                                       *)
(***************************************************************************)
Ages == [1..5 -> Nat]
Known(s) == {s[i] : i \in 1..5}

\* The last start had COUNT c.
Spread(c, s) ==
  /\ \A i \in 1..4 : s[i] <= s[i + 1]
  /\ \A i \in 1..4 : i <= c => s[i + 1] >= s[i] + Delays[c + 1 - i]
  /\ c < 4 => s[c + 2] >= s[c + 1] + Stable - Delays[4]
  /\ c < 3 => s[c + 3] >= Stable

\* A launch g ago has COUNT c, and has not started yet.
Follows(c, s, g) ==
  /\ \A i \in 1..4 : s[i] <= s[i + 1]
  /\ s[1] >= g
  /\ c = 0 => s[1] >= g + Stable - Delays[4] /\ s[2] >= Stable
  /\ c > 0 => Spread(c - 1, s) \/ (c = 4 /\ Spread(c, s))

BackoffTypes ==
  /\ launchPhase \in {"down", "waiting", "up"} /\ known \in BOOLEAN
  /\ count \in 0..4 /\ age \in -1..Stable /\ life \in 0..Stable /\ down \in 0..MaxDown
  /\ left \in Nat /\ left <= Delays[count] /\ starts \subseteq 0..(Stable - 1)
  /\ clockSet \in BOOLEAN

Waited(s, g) ==
  /\ starts \subseteq Known(s)
  /\ age = IF g > Stable THEN Stable ELSE g
  /\ g + left = Delays[count]
  /\ Follows(count, s, g)
Started(s, g) ==
  /\ starts \subseteq Known(s)
  /\ age = IF g > Stable THEN Stable ELSE g
  /\ left = 0 /\ g = s[1] + Delays[count] /\ s[2] >= g
  /\ Spread(count, s)

BackoffTimed ==
  /\ BackoffTypes /\ age >= 0
  /\ ~known => launchPhase = "down" /\ starts = {} /\ count = 0 /\ age = Stable /\ left = 0
  /\ known => \E s \in Ages, g \in Nat :
                IF launchPhase = "waiting" THEN Waited(s, g) ELSE Started(s, g)

BackoffInv == BackoffTypes /\ (~clockSet => BackoffTimed)

LEMMA BackoffSteps == [PartsNext]_partsVars => [Backoff!Next]_(Backoff!vars)
BY DEF PartsNext, OnlyPart, partsVars, backoffVars, Backoff!vars

LEMMA BackoffNumbers ==
  /\ Delays \in [0..4 -> Nat] /\ DOMAIN Delays = 0..4
  /\ Stable \in Nat /\ MaxDown \in Nat /\ Stable > 0
  /\ Delays[0] \in Nat /\ Delays[1] \in Nat /\ Delays[2] \in Nat /\ Delays[3] \in Nat
  /\ Delays[4] \in Nat
  /\ Delays[0] <= Delays[1] /\ Delays[1] <= Delays[2] /\ Delays[2] <= Delays[3]
  /\ Delays[3] <= Delays[4] /\ Delays[4] <= Stable
  /\ Stable <= Delays[1] + Delays[2] + Delays[3] + Delays[4] + Delays[4]
<1>1. Delays \in [0..4 -> Nat] /\ Stable \in Nat /\ MaxDown \in Nat /\ Stable > 0
  BY BackoffAssumption
<1>2. Delays[1 - 1] <= Delays[1] /\ Delays[2 - 1] <= Delays[2] /\ Delays[3 - 1] <= Delays[3]
      /\ Delays[4 - 1] <= Delays[4]
  BY BackoffAssumption
<1> QED BY <1>1, <1>2, BackoffAssumption

LEMMA FiveCounts == Backoff!Counts = 0..4 /\ Cardinality(0..4) = 5 /\ Backoff!Last = 4
<1>1. Cardinality(0..4) = IF 0 > 4 THEN 0 ELSE 4 - 0 + 1
  BY FS_Interval, 0 \in Int, 4 \in Int, Zenon
<1>2. Backoff!Counts = 0..4
  BY BackoffNumbers DEF Backoff!Counts
<1>3. Backoff!Cardinality(0..4) = 5
  BY <1>1 DEF Backoff!Cardinality, Cardinality
<1> QED BY <1>1, <1>2, <1>3 DEF Backoff!Last

\* Five ages are no more than five.
LEMMA FiveAges ==
  ASSUME NEW s \in Ages, NEW S, S \subseteq Known(s)
  PROVE  IsFiniteSet(S) /\ Cardinality(S) <= 5
<1>1. IsFiniteSet(1..5) /\ Cardinality(1..5) = IF 1 > 5 THEN 0 ELSE 5 - 1 + 1
  BY FS_Interval, 1 \in Int, 5 \in Int, Zenon
<1>2. s \in Surjection(1..5, Known(s))
  <2>1. s \in [1..5 -> Known(s)]
    BY DEF Ages, Known
  <2>2. \A t \in Known(s) : \E i \in 1..5 : s[i] = t
    BY DEF Known
  <2> QED BY <2>1, <2>2 DEF Surjection
<1>3. IsFiniteSet(Known(s)) /\ Cardinality(Known(s)) <= 5
  BY <1>1, <1>2, FS_Surjection
<1>4. IsFiniteSet(S) /\ Cardinality(S) <= Cardinality(Known(s))
  BY <1>3, FS_Subset
<1>5. Cardinality(S) \in Nat /\ Cardinality(Known(s)) \in Nat
  BY <1>3, <1>4, FS_CardinalityType
<1> QED BY <1>3, <1>4, <1>5

LEMMA BackoffTypesStep ==
  ASSUME BackoffTypes, [Backoff!Next]_(Backoff!vars)
  PROVE  BackoffTypes'
<1> USE BackoffNumbers DEF BackoffTypes
<1>1. CASE Backoff!Launch
  <2>1. count' \in 0..4
    BY <1>1, FiveCounts DEF Backoff!Launch, Backoff!NextCount, Backoff!Capped
  <2>2. left' = Delays[count'] /\ Delays[count'] \in Nat
    BY <1>1, <2>1, FiveCounts DEF Backoff!Launch, Backoff!Capped
  <2> QED BY <1>1, <2>1, <2>2 DEF Backoff!Launch
<1>2. CASE Backoff!Start
  <2>1. starts' \subseteq 0..(Stable - 1)
    <3>1. starts' \subseteq starts \cup {0}
      BY <1>2, Zenon DEF Backoff!Start
    <3>2. 0 \in 0..(Stable - 1)
      OBVIOUS
    <3> QED BY <3>1, <3>2
  <2> QED BY <1>2, <2>1 DEF Backoff!Start
<1>3. CASE Backoff!Dies
  BY <1>3 DEF Backoff!Dies
<1>4. CASE Backoff!Tick
  <2>1. starts' \subseteq 0..(Stable - 1)
    BY <1>4 DEF Backoff!Tick
  <2>2. /\ age' \in -1..Stable /\ life' \in 0..Stable /\ down' \in 0..MaxDown
        /\ UNCHANGED <<launchPhase, known, count, clockSet>>
    BY <1>4 DEF Backoff!Tick, Backoff!Capped
  <2>3. left' \in Nat /\ left' <= left /\ Delays[count] \in Nat
    BY <1>4 DEF Backoff!Tick
  <2>4. left' <= Delays[count']
    BY <2>2, <2>3
  <2> QED BY <2>1, <2>2, <2>3, <2>4
<1>5. CASE Backoff!ClockSet
  BY <1>5 DEF Backoff!ClockSet
<1>6. CASE UNCHANGED Backoff!vars
  BY <1>6 DEF Backoff!vars
<1> QED BY <1>1, <1>2, <1>3, <1>4, <1>5, <1>6 DEF Backoff!Next

LEMMA BackoffLaunch ==
  ASSUME BackoffTimed, Backoff!Launch
  PROVE  BackoffTimed'
<1>1. /\ launchPhase = "down" /\ launchPhase' = "waiting" /\ known' = TRUE /\ age' = 0
      /\ count' = IF ~known \/ age >= Stable THEN 0 ELSE IF count + 1 > 4 THEN 4 ELSE count + 1
      /\ UNCHANGED <<life, starts>> /\ down' = 0
  BY FiveCounts DEF Backoff!Launch, Backoff!NextCount, Backoff!Capped, BackoffTimed, BackoffTypes
<1>2. count \in 0..4 /\ count' \in 0..4
  BY <1>1 DEF BackoffTimed, BackoffTypes
<1>3. left' = Delays[count']
  BY <1>2, FiveCounts DEF Backoff!Launch, Backoff!Capped
<1>4. BackoffTypes'
  BY BackoffTypesStep DEF BackoffTimed, Backoff!Next
<1>5. \E s \in Ages : starts \subseteq Known(s) /\ Follows(count', s, 0)
  <2>1. CASE ~known
    <3>1. [i \in 1..5 |-> Stable] \in Ages
      BY BackoffNumbers DEF Ages
    <3>2. starts = {} /\ count' = 0
      BY <2>1, <1>1 DEF BackoffTimed
    <3>3. Follows(0, [i \in 1..5 |-> Stable], 0)
      BY BackoffNumbers DEF Follows
    <3> QED BY <3>1, <3>2, <3>3
  <2>2. CASE known
    <3>1. PICK s \in Ages, g \in Nat : Started(s, g)
      BY <2>2, <1>1 DEF BackoffTimed
    <3>2. CASE age >= Stable
      <4>1. count' = 0 /\ g >= Stable
        BY <3>1, <3>2, <1>1, BackoffNumbers DEF Started
      <4>2. s[1] \in Nat /\ s[2] \in Nat /\ Delays[count] \in Nat /\ Delays[count] <= Delays[4]
        BY <1>2, BackoffNumbers DEF Ages
      <4>3. Follows(0, s, 0)
        BY <3>1, <4>1, <4>2, BackoffNumbers DEF Started, Spread, Follows
      <4> QED BY <3>1, <4>1, <4>3 DEF Started
    <3>3. CASE ~(age >= Stable)
      <4>1. count' = IF count + 1 > 4 THEN 4 ELSE count + 1
        BY <2>2, <3>3, <1>1
      <4>2. count' > 0 /\ (count' - 1 = count \/ (count' = 4 /\ count' = count))
        BY <4>1, <1>2
      <4>3. s[1] >= 0 /\ Spread(count, s)
        BY <3>1 DEF Started, Ages
      <4>4. \A i \in 1..4 : s[i] <= s[i + 1]
        BY <4>3 DEF Spread
      <4>5. Spread(count' - 1, s) \/ (count' = 4 /\ Spread(count', s))
        BY <4>2, <4>3
      <4>6. Follows(count', s, 0)
        BY <4>2, <4>3, <4>4, <4>5 DEF Follows
      <4> QED BY <3>1, <4>6 DEF Started
    <3> QED BY <3>2, <3>3
  <2> QED BY <2>1, <2>2
<1>6. PICK s \in Ages : starts \subseteq Known(s) /\ Follows(count', s, 0)
  BY <1>5
<1>7. Waited(s, 0)'
  BY <1>1, <1>2, <1>3, <1>6, BackoffNumbers DEF Waited, Known, Follows, Spread
<1> QED BY <1>1, <1>4, <1>7 DEF BackoffTimed

LEMMA BackoffStart ==
  ASSUME BackoffTimed, Backoff!Start, ~clockSet
  PROVE  BackoffTimed'
<1>1. /\ launchPhase = "waiting" /\ left = 0 /\ launchPhase' = "up" /\ life' = 0
      /\ starts' = starts \cup {0} /\ UNCHANGED <<known, count, age, left, down>>
  BY DEF Backoff!Start
<1>2. known /\ count \in 0..4 /\ starts \subseteq 0..(Stable - 1)
  BY <1>1 DEF BackoffTimed, BackoffTypes
<1>3. PICK s \in Ages, g \in Nat : Waited(s, g)
  BY <1>1, <1>2 DEF BackoffTimed
<1>4. /\ s[1] \in Nat /\ s[2] \in Nat /\ s[3] \in Nat /\ s[4] \in Nat /\ s[5] \in Nat
  BY DEF Ages
<1>5. /\ g = Delays[count] /\ s[1] >= g
      /\ s[1] <= s[2] /\ s[2] <= s[3] /\ s[3] <= s[4] /\ s[4] <= s[5]
  <2>1. /\ g = Delays[count] /\ s[1] >= g /\ \A i \in 1..4 : s[i] <= s[i + 1]
    BY <1>1, <1>2, <1>3, BackoffNumbers DEF Waited, Follows
  <2>2. s[1] <= s[1 + 1] /\ s[2] <= s[2 + 1] /\ s[3] <= s[3 + 1] /\ s[4] <= s[4 + 1]
    BY <2>1
  <2> QED BY <2>1, <2>2
<1> DEFINE n == [i \in 1..5 |-> IF i = 1 THEN 0 ELSE s[i - 1]]
<1>6. n \in Ages /\ n[1] = 0 /\ n[2] = s[1] /\ n[3] = s[2] /\ n[4] = s[3] /\ n[5] = s[4]
  BY <1>4 DEF Ages
<1> HIDE DEF n
\* The waits before the last, as far as they count.
<1>7. s[5] >= Stable /\ Spread(count, n)
  <2> USE BackoffNumbers, <1>4, <1>5, <1>6
  <2>1. CASE count = 0
    <3>1. s[1] >= Delays[0] + Stable - Delays[4] /\ s[2] >= Stable
      BY <2>1, <1>3 DEF Waited, Follows
    <3> QED BY <2>1, <3>1 DEF Spread
  <2>2. CASE count = 1
    <3>1. s[2] >= s[1] + Stable - Delays[4] /\ s[3] >= Stable
      BY <2>2, <1>3 DEF Waited, Follows, Spread
    <3> QED BY <2>2, <3>1 DEF Spread
  <2>3. CASE count = 2
    <3>1. s[2] >= s[1] + Delays[1] /\ s[3] >= s[2] + Stable - Delays[4] /\ s[4] >= Stable
      BY <2>3, <1>3 DEF Waited, Follows, Spread
    <3> QED BY <2>3, <3>1 DEF Spread
  <2>4. CASE count = 3
    <3>1. /\ s[2] >= s[1] + Delays[2] /\ s[3] >= s[2] + Delays[1]
          /\ s[4] >= s[3] + Stable - Delays[4] /\ s[5] >= Stable
      BY <2>4, <1>3 DEF Waited, Follows, Spread
    <3> QED BY <2>4, <3>1 DEF Spread
  <2>5. CASE count = 4
    <3>1. CASE Spread(3, s)
      <4>1. /\ s[2] >= s[1] + Delays[3] /\ s[3] >= s[2] + Delays[2] /\ s[4] >= s[3] + Delays[1]
            /\ s[5] >= s[4] + Stable - Delays[4]
        BY <3>1 DEF Spread
      <4> QED BY <2>5, <4>1 DEF Spread
    <3>2. CASE Spread(4, s)
      <4>1. /\ s[2] >= s[1] + Delays[4] /\ s[3] >= s[2] + Delays[3] /\ s[4] >= s[3] + Delays[2]
            /\ s[5] >= s[4] + Delays[1]
        BY <3>2 DEF Spread
      <4> QED BY <2>5, <4>1 DEF Spread
    <3> QED BY <2>5, <3>1, <3>2, <1>3 DEF Waited, Follows
  <2> QED BY <1>2, <2>1, <2>2, <2>3, <2>4, <2>5
<1>8. starts' \subseteq Known(n)
  <2>1. starts \subseteq Known(s) /\ ~(s[5] \in starts)
    BY <1>2, <1>3, <1>4, <1>7, BackoffNumbers DEF Waited
  <2>2. Known(s) = {s[1], s[2], s[3], s[4], s[5]} /\ Known(n) = {n[1], n[2], n[3], n[4], n[5]}
    BY DEF Known
  <2> QED BY <1>1, <1>6, <2>1, <2>2
<1>9. Started(n, g)'
  BY <1>1, <1>3, <1>5, <1>6, <1>7, <1>8, BackoffNumbers DEF Started, Waited, Known, Spread
<1>10. BackoffTypes'
  BY BackoffTypesStep DEF BackoffTimed, Backoff!Next
<1> QED BY <1>1, <1>2, <1>6, <1>9, <1>10 DEF BackoffTimed

LEMMA BackoffTick ==
  ASSUME BackoffTimed, Backoff!Tick
  PROVE  BackoffTimed'
<1>1. /\ launchPhase = "waiting" => left > 0
      /\ launchPhase = "down" => down < MaxDown
      /\ age' = IF age + 1 > Stable THEN Stable ELSE age + 1
      /\ left' = IF launchPhase = "waiting" THEN left - 1 ELSE left
      /\ down' = IF launchPhase = "down" THEN down + 1 ELSE down
      /\ life' = IF launchPhase = "up" THEN (IF life + 1 > Stable THEN Stable ELSE life + 1) ELSE life
      /\ starts' = {t + 1 : t \in {b \in starts : b + 1 < Stable}}
      /\ UNCHANGED <<launchPhase, known, count>>
  BY DEF Backoff!Tick, Backoff!Capped, BackoffTimed, BackoffTypes
<1>2. BackoffTypes'
  BY BackoffTypesStep DEF BackoffTimed, Backoff!Next
<1>a. age' >= 0
  BY <1>1, BackoffNumbers DEF BackoffTimed, BackoffTypes
<1>3. CASE ~known
  BY <1>1, <1>2, <1>3, <1>a, BackoffNumbers DEF BackoffTimed
<1>4. CASE known
  <2>1. PICK s \in Ages, g \in Nat :
          IF launchPhase = "waiting" THEN Waited(s, g) ELSE Started(s, g)
    BY <1>4 DEF BackoffTimed
  <2> DEFINE n == [i \in 1..5 |-> s[i] + 1]
  <2>2. n \in Ages /\ \A i \in 1..5 : n[i] = s[i] + 1 /\ s[i] \in Nat
    BY DEF Ages
  <2> HIDE DEF n
  <2>3. ASSUME NEW c \in 0..4, Spread(c, s) PROVE Spread(c, n)
    BY <2>2, <2>3, BackoffNumbers DEF Spread
  <2>4. starts \subseteq Known(s) => starts' \subseteq Known(n)
    BY <1>1, <2>2 DEF Known
  <2>5. count \in 0..4 /\ Delays[count] \in Nat /\ left \in Nat
    BY BackoffNumbers DEF BackoffTimed, BackoffTypes
  <2>6. CASE launchPhase = "waiting"
    <3>1. Waited(s, g)
      BY <2>1, <2>6
    <3>2. count > 0 => Spread(count - 1, n) \/ (count = 4 /\ Spread(count, n))
      <4>1. SUFFICES ASSUME count > 0 PROVE Spread(count - 1, n) \/ (count = 4 /\ Spread(count, n))
        OBVIOUS
      <4>2. count - 1 \in 0..4
        BY <4>1, <2>5
      <4>3. CASE Spread(count - 1, s)
        BY <4>2, <4>3, <2>3
      <4>4. CASE count = 4 /\ Spread(count, s)
        BY <4>4, <2>3, <2>5
      <4> QED BY <3>1, <4>1, <4>3, <4>4 DEF Waited, Follows
    <3>3. Follows(count, n, g + 1)
      BY <3>1, <3>2, <2>2, <2>5, BackoffNumbers DEF Waited, Follows
    <3>4. Waited(n, g + 1)'
      BY <1>1, <2>4, <2>5, <2>6, <3>1, <3>3, BackoffNumbers DEF Waited, Known, Follows, Spread
    <3> QED BY <1>1, <1>2, <1>4, <1>a, <2>2, <2>6, <3>4 DEF BackoffTimed
  <2>7. CASE launchPhase # "waiting"
    <3>1. Started(s, g)
      BY <2>1, <2>7
    <3>2. Spread(count, n)
      BY <2>3, <2>5, <3>1 DEF Started
    <3>3. Started(n, g + 1)'
      BY <1>1, <2>2, <2>4, <2>5, <2>7, <3>1, <3>2, BackoffNumbers DEF Started, Known, Spread
    <3> QED BY <1>1, <1>2, <1>4, <1>a, <2>2, <2>7, <3>3 DEF BackoffTimed
  <2> QED BY <2>6, <2>7
<1> QED BY <1>3, <1>4 DEF BackoffTimed, BackoffTypes

LEMMA BackoffStep == BackoffInv /\ [Backoff!Next]_(Backoff!vars) => BackoffInv'
<1> SUFFICES ASSUME BackoffInv, [Backoff!Next]_(Backoff!vars) PROVE BackoffInv'
  OBVIOUS
<1>0. BackoffTypes'
  BY BackoffTypesStep DEF BackoffInv
<1>1. SUFFICES ASSUME ~clockSet' PROVE BackoffTimed'
  BY <1>0 DEF BackoffInv
<1>2. ~clockSet /\ BackoffTimed /\ ~Backoff!ClockSet
  BY <1>1 DEF BackoffInv, Backoff!Next, Backoff!Launch, Backoff!Start, Backoff!Dies, Backoff!Tick,
              Backoff!ClockSet, Backoff!vars
<1>3. CASE Backoff!Launch
  BY <1>2, <1>3, BackoffLaunch
<1>4. CASE Backoff!Start
  BY <1>2, <1>4, BackoffStart
<1>5. CASE Backoff!Dies
  BY <1>2, <1>5 DEF Backoff!Dies, BackoffTimed, BackoffTypes, Waited, Started, Known, Follows, Spread
<1>6. CASE Backoff!Tick
  BY <1>2, <1>6, BackoffTick
<1>7. CASE UNCHANGED Backoff!vars
  BY <1>2, <1>7 DEF Backoff!vars, BackoffTimed, BackoffTypes, Waited, Started, Known, Follows, Spread
<1> QED BY <1>2, <1>3, <1>4, <1>5, <1>6, <1>7 DEF Backoff!Next

LEMMA BackoffInit == PartsInit => BackoffInv
<1> SUFFICES ASSUME Backoff!Init PROVE BackoffInv
  BY DEF PartsInit
<1>1. BackoffTypes
  <2>1. /\ launchPhase \in {"down", "waiting", "up"} /\ known \in BOOLEAN
        /\ starts \subseteq 0..(Stable - 1) /\ clockSet \in BOOLEAN
    BY Zenon DEF Backoff!Init
  <2>2. /\ count \in 0..4 /\ age \in -1..Stable /\ life \in 0..Stable /\ down \in 0..MaxDown
        /\ left \in Nat /\ left <= Delays[count]
    BY BackoffNumbers DEF Backoff!Init
  <2> QED BY <2>1, <2>2 DEF BackoffTypes
<1>2. ~known /\ launchPhase = "down" /\ starts = {} /\ count = 0 /\ age = Stable /\ left = 0
  BY DEF Backoff!Init
<1> QED BY <1>1, <1>2, BackoffNumbers DEF BackoffTimed, BackoffInv

\* As long as the clock is not set: however long each pgphoto lives and the watchdog
\* takes, no more than five are started in any two minutes (the crash-loop back-off
\* of pgphoto.wrapper.in).
THEOREM StartsBoundedCorrect == PartsSpec => []StartsBounded
<1>1. BackoffInv /\ [PartsNext]_partsVars => BackoffInv'
  BY BackoffSteps, BackoffStep
<1>2. BackoffInv => StartsBounded
  <2> SUFFICES ASSUME BackoffTimed PROVE Cardinality(starts) <= 5
    BY FiveCounts DEF BackoffInv, StartsBounded, Backoff!StartsBounded, Backoff!Cardinality, Cardinality
  <2>1. CASE ~known
    BY <2>1, FS_EmptySet DEF BackoffTimed
  <2>2. CASE known
    <3>1. PICK s \in Ages : starts \subseteq Known(s)
      BY <2>2 DEF BackoffTimed, Waited, Started
    <3> QED BY <3>1, FiveAges
  <2> QED BY <2>1, <2>2 DEF BackoffTimed, BackoffTypes
<1> QED BY <1>1, <1>2, BackoffInit, PTL DEF PartsSpec

-----------------------------------------------------------------------------
(***************************************************************************)
(* ProgramDrafts. What the head comes to do is decided by the last frame   *)
(* that opens, plays, ramps or cancels, and each point of a draft by the   *)
(* last frame about its number. So reading one frame changes nothing of    *)
(* what will have been read, and a batch behind others does what it would  *)
(* do alone, because its last frame or the one before decides.             *)
(***************************************************************************)
\* A finite set of integers that is not empty has a largest element: the smallest,
\* under inclusion, of its upper parts is a singleton.
LEMMA LargestExists ==
  ASSUME NEW S \in SUBSET Int, IsFiniteSet(S), S # {}
  PROVE  \E i \in S : \A j \in S : j <= i
<1> DEFINE Upper(i) == {j \in S : j >= i}
           T == {Upper(i) : i \in S}
<1>0. S \subseteq Int /\ \A i \in S : Upper(i) \subseteq S
  OBVIOUS
<1>1. T \subseteq FiniteSubsetsOf(S) /\ T # {}
  <2>1. FiniteSubsetsOf(S) = SUBSET S
    BY FS_FiniteSubsetsOfFinite
  <2>2. \A V \in T : V \in SUBSET S
    BY <1>0
  <2>3. T # {}
    OBVIOUS
  <2> QED BY <2>1, <2>2, <2>3
<1>2. IsWellFoundedOn(StrictSubsetOrdering(S), FiniteSubsetsOf(S))
  BY FS_StrictSubsetOrderingWellFounded
<1>3. PICK U \in T : \A V \in T : <<V, U>> \notin StrictSubsetOrdering(S)
  <2> HIDE DEF T
  <2> QED BY <1>1, <1>2, WFMin
<1>4. PICK i \in S : U = Upper(i)
  BY <1>3
<1>5. ASSUME NEW j \in S, j > i PROVE FALSE
  <2>1. Upper(j) \in T
    OBVIOUS
  <2>2. i \in Int /\ j \in Int /\ j > i
    BY <1>0, <1>5
  <2>3. Upper(j) \subseteq U /\ i \in U /\ i \notin Upper(j)
    <3>1. \A k \in Int : k >= j => k >= i
      BY <2>2
    <3>2. i >= i /\ ~(i >= j)
      BY <2>2
    <3> QED BY <1>0, <1>4, <3>1, <3>2
  <2>4. U \in SUBSET S /\ Upper(j) \in SUBSET S
    BY <1>4
  <2>5. <<Upper(j), U>> \in StrictSubsetOrdering(S)
    BY <2>3, <2>4 DEF StrictSubsetOrdering
  <2> QED BY <2>1, <2>5, <1>3
<1>6. i \in Int /\ S \subseteq Int
  BY <1>4
<1> HIDE DEF Upper, T
<1>7. \A j \in S : j <= i
  BY <1>5, <1>6
<1> QED BY <1>4, <1>7

LEMMA LastPlace ==
  ASSUME NEW n \in Nat, NEW S, S \subseteq 1..n
  PROVE  /\ Drafts!LastOf(S) \in {0} \cup S
         /\ \A j \in S : j <= Drafts!LastOf(S)
<1> DEFINE Z == {0} \cup S
<1>1. Z \subseteq 0..n /\ Z # {}
  OBVIOUS
<1>2. IsFiniteSet(Z)
  <2>1. IsFiniteSet(0..n)
    BY FS_Interval
  <2> QED BY <1>1, <2>1, FS_Subset
<1>3. Z \subseteq Int
  BY <1>1
<1>4. Drafts!LastOf(S) = CHOOSE i \in Z : \A j \in Z : i >= j
  BY DEF Drafts!LastOf, Drafts!Max
<1>5. \E i \in Z : \A j \in Z : i >= j
  <2> HIDE DEF Z
  <2>1. \E i \in Z : \A j \in Z : j <= i
    BY <1>1, <1>2, <1>3, LargestExists
  <2> QED BY <2>1, <1>3
<1>6. Drafts!LastOf(S) \in Z /\ \A j \in Z : Drafts!LastOf(S) >= j
  <2> HIDE DEF Z
  <2> QED BY <1>4, <1>5
<1> QED BY <1>1, <1>3, <1>6

LEMMA LastPlaceIs ==
  ASSUME NEW n \in Nat, NEW S, S \subseteq 1..n, NEW m \in {0} \cup S, \A j \in S : j <= m
  PROVE  Drafts!LastOf(S) = m
<1>1. /\ Drafts!LastOf(S) \in {0} \cup S
      /\ \A j \in S : j <= Drafts!LastOf(S)
  BY LastPlace
<1>2. {0} \cup S \subseteq 0..n
  OBVIOUS
<1>3. Drafts!LastOf(S) \in 0..n /\ m \in 0..n
  BY <1>1, <1>2
<1>4. m = 0 => S = {}
  BY <1>2
<1>5. m # 0 => m <= Drafts!LastOf(S)
  BY <1>1
<1>6. Drafts!LastOf(S) # 0 => Drafts!LastOf(S) <= m
  BY <1>1
<1> QED BY <1>1, <1>3, <1>4, <1>5, <1>6

\* Without the first place all others are one less.
LEMMA LastPlaceTail ==
  ASSUME NEW n \in Nat, n > 0, NEW S, S \subseteq 1..n
  PROVE  LET T == {j \in 1..(n - 1) : j + 1 \in S}
         IN  Drafts!LastOf(S) = IF Drafts!LastOf(T) # 0 THEN Drafts!LastOf(T) + 1
                                ELSE Drafts!LastOf(S \cap {1})
<1> DEFINE T == {j \in 1..(n - 1) : j + 1 \in S}
<1>1. n - 1 \in Nat /\ T \subseteq 1..(n - 1)
  OBVIOUS
<1>2. /\ Drafts!LastOf(T) \in {0} \cup T
      /\ \A j \in T : j <= Drafts!LastOf(T)
  BY <1>1, LastPlace
<1>3. ASSUME NEW j \in S, j # 1 PROVE j - 1 \in T /\ j \in 2..n
  BY <1>3
<1>4. CASE Drafts!LastOf(T) # 0
  <2>1. PICK t \in T : t = Drafts!LastOf(T)
    BY <1>2, <1>4
  <2>2. t + 1 \in S /\ t \in 1..(n - 1)
    BY <2>1
  <2>3. ASSUME NEW j \in S PROVE j <= t + 1
    <3>1. CASE j = 1
      BY <2>2, <3>1
    <3>2. CASE j # 1
      <4>1. j - 1 <= t /\ j \in 2..n
        BY <1>2, <1>3, <2>1, <3>2
      <4> QED BY <4>1, <2>2
    <3> QED BY <3>1, <3>2
  <2>4. Drafts!LastOf(S) = t + 1
    BY <2>2, <2>3, LastPlaceIs
  <2> QED BY <2>1, <2>4, <1>4
<1>5. CASE Drafts!LastOf(T) = 0
  <2>1. T = {}
    <3> SUFFICES ASSUME NEW j \in T PROVE FALSE
      OBVIOUS
    <3>1. j <= 0 /\ j \in 1..(n - 1)
      BY <1>2, <1>5
    <3> QED BY <3>1
  <2>2. S = S \cap {1}
    BY <1>3, <2>1
  <2> QED BY <1>5, <2>2
<1> QED BY <1>4, <1>5

Frames == [step : {"open", "point", "close", "on", "off", "curve", "cancel"}, nr : 0..MaxPoints,
           at : Poses \cup {Drafts!None}]
DraftType == [1..MaxPoints -> Poses \cup {Drafts!None}]
Plans == Seq(Poses \cup {Drafts!None}) \cup {Drafts!Ramping, Drafts!Unsure}

DraftTypes ==
  /\ upload \in Drafts!Kinds /\ linkStatus \in {"UP", "DOWN"} /\ running \in BOOLEAN
  /\ points \in Seq(Poses) /\ Len(points) <= MaxPoints
  /\ lastPose \in Poses \cup {Drafts!None} /\ pose \in Poses
  /\ queue \in Seq(Frames) /\ Len(queue) <= DraftCap
  /\ draft \in DraftType
  /\ does \in Plans /\ meant \in Plans

\* The last of the first n frames that writes point i, and that decides what is played.
Wrote(q, n, i) == Drafts!LastOf({j \in 1..n : Drafts!Writes(q[j], i)})
Decided(q, n) == Drafts!LastOf({j \in 1..n : Drafts!Decides(q[j])})

LEMMA WroteIs ==
  ASSUME NEW q, NEW n \in Nat, NEW i
  PROVE  /\ Wrote(q, n, i) \in 0..n
         /\ Wrote(q, n, i) # 0 => Drafts!Writes(q[Wrote(q, n, i)], i)
         /\ \A j \in 1..n : Drafts!Writes(q[j], i) => j <= Wrote(q, n, i)
<1> DEFINE S == {j \in 1..n : Drafts!Writes(q[j], i)}
<1>1. S \subseteq 1..n
  OBVIOUS
<1>2. /\ Drafts!LastOf(S) \in {0} \cup S
      /\ \A j \in S : j <= Drafts!LastOf(S)
  <2> HIDE DEF S
  <2> QED BY <1>1, LastPlace
<1> QED BY <1>2 DEF Wrote

LEMMA DecidedIs ==
  ASSUME NEW q, NEW n \in Nat
  PROVE  /\ Decided(q, n) \in 0..n
         /\ Decided(q, n) # 0 => Drafts!Decides(q[Decided(q, n)])
         /\ \A j \in 1..n : Drafts!Decides(q[j]) => j <= Decided(q, n)
<1> DEFINE S == {j \in 1..n : Drafts!Decides(q[j])}
<1>1. S \subseteq 1..n
  OBVIOUS
<1>2. /\ Drafts!LastOf(S) \in {0} \cup S
      /\ \A j \in S : j <= Drafts!LastOf(S)
  <2> HIDE DEF S
  <2> QED BY <1>1, LastPlace
<1> QED BY <1>2 DEF Decided

LEMMA DraftAfterIs ==
  ASSUME NEW d, NEW q, NEW n
  PROVE  Drafts!DraftAfter(d, q, n) =
           [i \in 1..MaxPoints |->
              IF Wrote(q, n, i) = 0 THEN d[i]
              ELSE IF q[Wrote(q, n, i)].step = "point" THEN q[Wrote(q, n, i)].at ELSE Drafts!None]
BY DEF Drafts!DraftAfter, Wrote

LEMMA DoesAfterIs ==
  ASSUME NEW d, NEW p, NEW q, NEW n
  PROVE  LET k == Decided(q, n)
         IN  /\ k = 0 => Drafts!DoesAfter(d, p, q, n) = p
             /\ k # 0 /\ q[k].step = "close" =>
                  Drafts!DoesAfter(d, p, q, n) = SubSeq(Drafts!DraftAfter(d, q, k - 1), 1, q[k].nr)
             /\ k # 0 /\ q[k].step = "on" => Drafts!DoesAfter(d, p, q, n) = Drafts!Ramping
             /\ k # 0 /\ q[k].step \in {"off", "cancel"} => Drafts!DoesAfter(d, p, q, n) = <<>>
BY DEF Drafts!DoesAfter, Decided

LEMMA ReadsTypes ==
  ASSUME NEW d \in DraftType, NEW p \in Plans, NEW q \in Seq(Frames), NEW n \in 0..Len(q)
  PROVE  Drafts!DraftAfter(d, q, n) \in DraftType /\ Drafts!DoesAfter(d, p, q, n) \in Plans
<1>1. ASSUME NEW m \in 0..Len(q) PROVE Drafts!DraftAfter(d, q, m) \in DraftType
  <2>1. ASSUME NEW i \in 1..MaxPoints, Wrote(q, m, i) # 0 PROVE q[Wrote(q, m, i)] \in Frames
    BY <2>1, WroteIs
  <2> QED BY <2>1, DraftAfterIs DEF DraftType, Frames
<1>2. Decided(q, n) \in 0..n
  BY DecidedIs
<1>3. CASE Decided(q, n) = 0
  BY <1>1, <1>3, DoesAfterIs
<1>4. CASE Decided(q, n) # 0
  <2> DEFINE k == Decided(q, n)
  <2>1. k \in 1..Len(q) /\ k - 1 \in 0..Len(q) /\ Drafts!Decides(q[k]) /\ q[k] \in Frames
    BY <1>2, <1>4, DecidedIs
  <2>2. CASE q[k].step = "close"
    <3>1. Drafts!DraftAfter(d, q, k - 1) \in DraftType /\ q[k].nr \in 0..MaxPoints
      BY <1>1, <2>1 DEF Frames
    <3>2. \A i \in 1..q[k].nr : Drafts!DraftAfter(d, q, k - 1)[i] \in Poses \cup {Drafts!None}
      BY <3>1, DraftsAssumption DEF DraftType
    <3>3. SubSeq(Drafts!DraftAfter(d, q, k - 1), 1, q[k].nr) \in Seq(Poses \cup {Drafts!None})
      <4>1. q[k].nr \in Int /\ 1 \in Int
        BY <3>1
      <4> HIDE DEF k
      <4> QED BY <3>2, <4>1, SubSeqProperties
    <3>4. Drafts!DoesAfter(d, p, q, n) = SubSeq(Drafts!DraftAfter(d, q, k - 1), 1, q[k].nr)
      BY <1>4, <2>2, DoesAfterIs
    <3> QED BY <1>1, <3>3, <3>4 DEF Plans
  <2>3. CASE q[k].step # "close"
    <3>1. q[k].step \in {"on", "off", "cancel"}
      BY <2>1, <2>3 DEF Drafts!Decides
    <3>2. Drafts!DoesAfter(d, p, q, n) \in {Drafts!Ramping, <<>>}
      BY <1>4, <3>1, DoesAfterIs
    <3>3. <<>> \in Seq(Poses \cup {Drafts!None})
      OBVIOUS
    <3>4. Drafts!DoesAfter(d, p, q, n) \in Plans
      BY <3>2, <3>3, Zenon DEF Plans
    <3> QED BY <1>1, <3>4
  <2> QED BY <2>2, <2>3
<1> QED BY <1>3, <1>4

LEMMA WroteTail ==
  ASSUME NEW q \in Seq(Frames), q # <<>>, NEW n \in 1..Len(q), NEW i
  PROVE  Wrote(q, n, i) = IF Wrote(Tail(q), n - 1, i) # 0 THEN Wrote(Tail(q), n - 1, i) + 1
                          ELSE Wrote(q, 1, i)
<1> DEFINE S == {j \in 1..n : Drafts!Writes(q[j], i)}
<1>1. \A j \in 1..(n - 1) : Tail(q)[j] = q[j + 1]
  OBVIOUS
<1>2. {j \in 1..(n - 1) : Drafts!Writes(Tail(q)[j], i)} = {j \in 1..(n - 1) : j + 1 \in S}
  BY <1>1
<1>3. S \cap {1} = {j \in 1..1 : Drafts!Writes(q[j], i)}
  OBVIOUS
<1>4. n \in Nat /\ n > 0 /\ S \subseteq 1..n
  OBVIOUS
<1>5. LET T == {j \in 1..(n - 1) : j + 1 \in S}
      IN  Drafts!LastOf(S) = IF Drafts!LastOf(T) # 0 THEN Drafts!LastOf(T) + 1
                             ELSE Drafts!LastOf(S \cap {1})
  <2> HIDE DEF S
  <2> QED BY <1>4, LastPlaceTail
<1> QED BY <1>2, <1>3, <1>5, Zenon DEF Wrote

LEMMA DecidedTail ==
  ASSUME NEW q \in Seq(Frames), q # <<>>, NEW n \in 1..Len(q)
  PROVE  Decided(q, n) = IF Decided(Tail(q), n - 1) # 0 THEN Decided(Tail(q), n - 1) + 1
                         ELSE Decided(q, 1)
<1> DEFINE S == {j \in 1..n : Drafts!Decides(q[j])}
<1>1. \A j \in 1..(n - 1) : Tail(q)[j] = q[j + 1]
  OBVIOUS
<1>2. {j \in 1..(n - 1) : Drafts!Decides(Tail(q)[j])} = {j \in 1..(n - 1) : j + 1 \in S}
  BY <1>1
<1>3. S \cap {1} = {j \in 1..1 : Drafts!Decides(q[j])}
  OBVIOUS
<1>4. n \in Nat /\ n > 0 /\ S \subseteq 1..n
  OBVIOUS
<1>5. LET T == {j \in 1..(n - 1) : j + 1 \in S}
      IN  Drafts!LastOf(S) = IF Drafts!LastOf(T) # 0 THEN Drafts!LastOf(T) + 1
                             ELSE Drafts!LastOf(S \cap {1})
  <2> HIDE DEF S
  <2> QED BY <1>4, LastPlaceTail
<1> QED BY <1>2, <1>3, <1>5, Zenon DEF Decided

\* To read one frame and then the others is to read them all.
LEMMA ReadOne ==
  ASSUME NEW d, NEW p, NEW q \in Seq(Frames), q # <<>>, NEW n \in 1..Len(q)
  PROVE  LET e == Drafts!DraftAfter(d, q, 1)
         IN  /\ Drafts!DraftAfter(e, Tail(q), n - 1) = Drafts!DraftAfter(d, q, n)
             /\ Drafts!DoesAfter(e, Drafts!DoesAfter(d, p, q, 1), Tail(q), n - 1) =
                  Drafts!DoesAfter(d, p, q, n)
<1> DEFINE e == Drafts!DraftAfter(d, q, 1)
           o == Drafts!DoesAfter(d, p, q, 1)
           r == Tail(q)
<1>1. Len(q) \in Nat /\ \A j \in 1..(Len(q) - 1) : r[j] = q[j + 1]
  OBVIOUS
<1>2. ASSUME NEW m \in 1..Len(q)
      PROVE  Drafts!DraftAfter(e, r, m - 1) = Drafts!DraftAfter(d, q, m)
  <2>1. ASSUME NEW i \in 1..MaxPoints
        PROVE  (IF Wrote(r, m - 1, i) = 0 THEN e[i]
                ELSE IF r[Wrote(r, m - 1, i)].step = "point" THEN r[Wrote(r, m - 1, i)].at
                     ELSE Drafts!None)
               = IF Wrote(q, m, i) = 0 THEN d[i]
                 ELSE IF q[Wrote(q, m, i)].step = "point" THEN q[Wrote(q, m, i)].at
                      ELSE Drafts!None
    <3>1. Wrote(q, m, i) = IF Wrote(r, m - 1, i) # 0 THEN Wrote(r, m - 1, i) + 1
                           ELSE Wrote(q, 1, i)
      BY WroteTail
    <3>2. CASE Wrote(r, m - 1, i) # 0
      <4>1. m - 1 \in Nat
        BY <1>1
      <4>2. Wrote(r, m - 1, i) \in 0..(m - 1)
        BY <4>1, WroteIs
      <4>3. r[Wrote(r, m - 1, i)] = q[Wrote(q, m, i)] /\ Wrote(q, m, i) # 0
        <5> HIDE DEF r
        <5> QED BY <1>1, <3>1, <3>2, <4>2
      <4> QED BY <3>2, <4>3, Zenon
    <3>3. CASE Wrote(r, m - 1, i) = 0
      <4>1. e[i] = IF Wrote(q, 1, i) = 0 THEN d[i]
                   ELSE IF q[Wrote(q, 1, i)].step = "point" THEN q[Wrote(q, 1, i)].at
                        ELSE Drafts!None
        BY DraftAfterIs
      <4> QED BY <3>1, <3>3, <4>1, Zenon
    <3> QED BY <3>2, <3>3
  <2> HIDE DEF e, r
  <2> QED BY <2>1, DraftAfterIs
<1>3. Drafts!DoesAfter(e, o, r, n - 1) = Drafts!DoesAfter(d, p, q, n)
  <2> DEFINE k == Decided(r, n - 1)
             l == Decided(q, n)
  <2>1. l = IF k # 0 THEN k + 1 ELSE Decided(q, 1)
    BY DecidedTail
  <2>2. n - 1 \in Nat /\ n \in Nat
    BY <1>1
  <2>3. k \in 0..(n - 1) /\ l \in 0..n /\ (l # 0 => Drafts!Decides(q[l]))
    BY <2>2, DecidedIs
  <2>4. CASE k # 0
    <3>1. r[k] = q[l] /\ l # 0 /\ l - 1 = k /\ k \in 1..Len(q)
      <4> HIDE DEF r, k, l
      <4> QED BY <1>1, <2>1, <2>3, <2>4
    <3>2. q[l].step \in {"close", "on", "off", "cancel"}
      BY <2>3, <3>1 DEF Drafts!Decides
    <3>3. Drafts!DraftAfter(e, r, k - 1) = Drafts!DraftAfter(d, q, l - 1)
      <4> HIDE DEF e, r, k, l
      <4> QED BY <1>2, <3>1
    <3>4. Drafts!DoesAfter(e, o, r, n - 1) =
            CASE k = 0 -> o
              [] k # 0 /\ r[k].step = "close" -> SubSeq(Drafts!DraftAfter(e, r, k - 1), 1, r[k].nr)
              [] k # 0 /\ r[k].step = "on" -> Drafts!Ramping
              [] k # 0 /\ r[k].step \in {"off", "cancel"} -> <<>>
      BY DEF Drafts!DoesAfter, Decided
    <3>5. Drafts!DoesAfter(d, p, q, n) =
            CASE l = 0 -> p
              [] l # 0 /\ q[l].step = "close" -> SubSeq(Drafts!DraftAfter(d, q, l - 1), 1, q[l].nr)
              [] l # 0 /\ q[l].step = "on" -> Drafts!Ramping
              [] l # 0 /\ q[l].step \in {"off", "cancel"} -> <<>>
      BY DEF Drafts!DoesAfter, Decided
    <3> HIDE DEF e, o, r, k, l
    <3> QED BY <2>4, <3>1, <3>2, <3>3, <3>4, <3>5
  <2>5. CASE k = 0
    <3>1. Drafts!DoesAfter(e, o, r, n - 1) = o
      BY <2>5 DEF Drafts!DoesAfter, Decided
    <3>2. l = Decided(q, 1)
      BY <2>1, <2>5
    <3>3. Drafts!DoesAfter(d, p, q, n) = Drafts!DoesAfter(d, p, q, 1)
      BY <3>2, Zenon DEF Drafts!DoesAfter, Decided
    <3> QED BY <3>1, <3>3
  <2> QED BY <2>4, <2>5
<1> QED BY <1>2, <1>3

\* What a batch does is decided by its last deciding frame, whatever is before it.
LEMMA DecidedLast ==
  ASSUME NEW q, NEW n \in Nat, NEW k \in 1..n, Drafts!Decides(q[k]),
         \A j \in (k + 1)..n : ~Drafts!Decides(q[j])
  PROVE  Decided(q, n) = k
<1> DEFINE S == {j \in 1..n : Drafts!Decides(q[j])}
<1>1. S \subseteq 1..n /\ k \in {0} \cup S
  OBVIOUS
<1>2. ASSUME NEW j \in S PROVE j <= k
  BY <1>2
<1>3. Drafts!LastOf(S) = k
  <2> HIDE DEF S
  <2> QED BY <1>1, <1>2, LastPlaceIs
<1> QED BY <1>3 DEF Decided

LEMMA WroteLast ==
  ASSUME NEW q, NEW n \in Nat, NEW i, NEW k \in 1..n, Drafts!Writes(q[k], i),
         \A j \in (k + 1)..n : ~Drafts!Writes(q[j], i)
  PROVE  Wrote(q, n, i) = k
<1> DEFINE S == {j \in 1..n : Drafts!Writes(q[j], i)}
<1>1. S \subseteq 1..n /\ k \in {0} \cup S
  OBVIOUS
<1>2. ASSUME NEW j \in S PROVE j <= k
  BY <1>2
<1>3. Drafts!LastOf(S) = k
  <2> HIDE DEF S
  <2> QED BY <1>1, <1>2, LastPlaceIs
<1> QED BY <1>3 DEF Wrote

LEMMA SingleType ==
  ASSUME NEW s \in {"open", "on", "off", "curve", "cancel"}
  PROVE  Drafts!Single(s) \in Frames /\ Drafts!Single(s).step = s
BY DraftsAssumption DEF Drafts!Single, Drafts!Frame, Frames

LEMMA UploadIs ==
  ASSUME DraftTypes
  PROVE  LET K == Len(points)
         IN  /\ Drafts!Upload \in Seq(Frames) /\ Len(Drafts!Upload) = K + 2
             /\ Drafts!Upload[1].step = "open"
             /\ \A i \in 1..K : /\ Drafts!Upload[i + 1].step = "point" /\ Drafts!Upload[i + 1].nr = i
                                /\ Drafts!Upload[i + 1].at = points[i]
             /\ Drafts!Upload[K + 2].step = "close" /\ Drafts!Upload[K + 2].nr = K
<1> DEFINE K == Len(points)
           a == <<Drafts!Single("open")>>
           b == [i \in 1..K |-> Drafts!Frame("point", i, points[i])]
           c == <<Drafts!Frame("close", K, Drafts!None)>>
<1>1. K \in Nat /\ K <= MaxPoints /\ MaxPoints \in Nat /\ \A i \in 1..K : points[i] \in Poses
  BY DraftsAssumption DEF DraftTypes
<1>2. a \in Seq(Frames) /\ Len(a) = 1 /\ a[1].step = "open"
  BY SingleType
<1>3. /\ b \in Seq(Frames) /\ Len(b) = K
      /\ \A i \in 1..K : b[i].step = "point" /\ b[i].nr = i /\ b[i].at = points[i]
  <2>1. \A i \in 1..K : Drafts!Frame("point", i, points[i]) \in Frames
    BY <1>1 DEF Drafts!Frame, Frames
  <2>2. b \in Seq(Frames) /\ Len(b) = K
    <3> HIDE DEF K
    <3> QED BY <1>1, <2>1
  <2> QED BY <2>2 DEF Drafts!Frame
<1>4. c \in Seq(Frames) /\ Len(c) = 1 /\ c[1].step = "close" /\ c[1].nr = K
  BY <1>1 DEF Drafts!Frame, Frames
<1>5. Drafts!Upload = (a \o b) \o c
  BY DEF Drafts!Upload
<1> HIDE DEF K, a, b, c
<1>6. /\ a \o b \in Seq(Frames) /\ Len(a \o b) = 1 + K
      /\ \A i \in 1..(1 + K) : (a \o b)[i] = IF i <= 1 THEN a[i] ELSE b[i - 1]
  <2>1. /\ a \o b \in Seq(Frames) /\ Len(a \o b) = Len(a) + Len(b)
        /\ \A i \in 1..(Len(a) + Len(b)) : (a \o b)[i] = IF i <= Len(a) THEN a[i] ELSE b[i - Len(a)]
    <3>1. a \in Seq(Frames) /\ b \in Seq(Frames)
      BY <1>2, <1>3
    <3> QED BY <3>1, ConcatProperties, Zenon
  <2> QED BY <1>2, <1>3, <2>1
<1>7. /\ (a \o b) \o c \in Seq(Frames) /\ Len((a \o b) \o c) = K + 2
      /\ \A i \in 1..(K + 2) : ((a \o b) \o c)[i] = IF i <= 1 + K THEN (a \o b)[i] ELSE c[i - (1 + K)]
  <2> DEFINE ab == a \o b
  <2>0. ab \in Seq(Frames) /\ Len(ab) = 1 + K
    BY <1>6
  <2> HIDE DEF ab
  <2>1. /\ ab \o c \in Seq(Frames) /\ Len(ab \o c) = Len(ab) + Len(c)
        /\ \A i \in 1..(Len(ab) + Len(c)) : (ab \o c)[i] = IF i <= Len(ab) THEN ab[i] ELSE c[i - Len(ab)]
    BY <1>4, <2>0, ConcatProperties
  <2>2. /\ ab \o c \in Seq(Frames) /\ Len(ab \o c) = K + 2
        /\ \A i \in 1..(K + 2) : (ab \o c)[i] = IF i <= 1 + K THEN ab[i] ELSE c[i - (1 + K)]
    BY <1>1, <1>4, <2>0, <2>1
  <2> QED BY <2>2 DEF ab
<1>8. /\ Drafts!Upload[1] = a[1] /\ Drafts!Upload[K + 2] = c[1]
      /\ \A i \in 1..K : Drafts!Upload[i + 1] = b[i]
  <2>1. ASSUME NEW i \in 1..(1 + K) PROVE Drafts!Upload[i] = IF i <= 1 THEN a[i] ELSE b[i - 1]
    <3>1. i \in 1..(K + 2) /\ i <= 1 + K
      BY <1>1
    <3>2. Drafts!Upload[i] = (a \o b)[i]
      BY <1>5, <1>7, <3>1
    <3> QED BY <1>6, <3>2
  <2>2. Drafts!Upload[K + 2] = c[1]
    <3>1. K + 2 \in 1..(K + 2) /\ ~(K + 2 <= 1 + K) /\ (K + 2) - (1 + K) = 1
      BY <1>1
    <3>2. Drafts!Upload[K + 2] = c[(K + 2) - (1 + K)]
      BY <1>5, <1>7, <3>1
    <3> QED BY <3>1, <3>2
  <2>3. Drafts!Upload[1] = a[1]
    <3>1. 1 \in 1..(1 + K)
      BY <1>1
    <3> QED BY <2>1, <3>1
  <2>4. ASSUME NEW i \in 1..K PROVE Drafts!Upload[i + 1] = b[i]
    <3>1. i + 1 \in 1..(1 + K) /\ ~(i + 1 <= 1) /\ (i + 1) - 1 = i
      BY <1>1
    <3> QED BY <2>1, <3>1
  <2> QED BY <2>2, <2>3, <2>4
<1> QED BY <1>2, <1>3, <1>4, <1>5, <1>7, <1>8 DEF K

\* An upload behind anything else makes the head play its points.
LEMMA UploadPlays ==
  ASSUME DraftTypes
  PROVE  LET q == queue \o Drafts!Upload
         IN  Drafts!DoesAfter(draft, does, q, Len(q)) = points
<1> DEFINE q == queue \o Drafts!Upload
           K == Len(points)
           m == Len(queue)
<1>1. /\ K \in Nat /\ K <= MaxPoints /\ MaxPoints \in Nat /\ m \in Nat
  BY DraftsAssumption DEF DraftTypes
<1>2. /\ Drafts!Upload \in Seq(Frames) /\ Len(Drafts!Upload) = K + 2
      /\ Drafts!Upload[1].step = "open"
      /\ \A i \in 1..K : /\ Drafts!Upload[i + 1].step = "point" /\ Drafts!Upload[i + 1].nr = i
                         /\ Drafts!Upload[i + 1].at = points[i]
      /\ Drafts!Upload[K + 2].step = "close" /\ Drafts!Upload[K + 2].nr = K
  BY UploadIs
<1>3. /\ q \in Seq(Frames) /\ Len(q) = m + K + 2
      /\ \A i \in 1..(K + 2) : q[m + i] = Drafts!Upload[i]
  <2> DEFINE u == Drafts!Upload
  <2>1. u \in Seq(Frames) /\ Len(u) = K + 2 /\ queue \in Seq(Frames)
    BY <1>2 DEF DraftTypes
  <2> HIDE DEF u
  <2>2. /\ queue \o u \in Seq(Frames) /\ Len(queue \o u) = Len(queue) + Len(u)
        /\ \A i \in 1..(Len(queue) + Len(u)) :
              (queue \o u)[i] = IF i <= Len(queue) THEN queue[i] ELSE u[i - Len(queue)]
    BY <2>1, ConcatProperties
  <2>3. /\ queue \o u \in Seq(Frames) /\ Len(queue \o u) = m + K + 2
        /\ \A i \in 1..(K + 2) : (queue \o u)[m + i] = u[i]
    BY <1>1, <2>1, <2>2
  <2> QED BY <2>3 DEF u
<1> HIDE DEF q, K, m
<1>4. q[m + K + 2].step = "close" /\ q[m + K + 2].nr = K
  BY <1>1, <1>2, <1>3
<1>5. Decided(q, m + K + 2) = m + K + 2
  <2>1. Drafts!Decides(q[m + K + 2])
    BY <1>4 DEF Drafts!Decides
  <2>2. m + K + 2 \in Nat /\ m + K + 2 \in 1..(m + K + 2)
    BY <1>1
  <2>3. \A j \in ((m + K + 2) + 1)..(m + K + 2) : FALSE
    BY <1>1
  <2> QED BY <2>1, <2>2, <2>3, DecidedLast
<1>6. ASSUME NEW i \in 1..K PROVE Drafts!DraftAfter(draft, q, m + K + 1)[i] = points[i]
  <2>1. m + 1 + i \in 1..(m + K + 1) /\ m + K + 1 \in Nat /\ i \in 1..MaxPoints /\ i + 1 \in 1..(K + 2)
    BY <1>1
  <2>2. q[m + 1 + i].step = "point" /\ q[m + 1 + i].nr = i /\ q[m + 1 + i].at = points[i]
    <3>1. q[m + (i + 1)] = Drafts!Upload[i + 1] /\ m + (i + 1) = m + 1 + i
      <4>1. q[m + (i + 1)] = Drafts!Upload[i + 1]
        BY <1>3, <2>1, Zenon
      <4>2. m + (i + 1) = m + 1 + i
        BY <1>1
      <4> QED BY <4>1, <4>2
    <3> QED BY <1>2, <3>1
  <2>3. ASSUME NEW j \in ((m + 1 + i) + 1)..(m + K + 1) PROVE ~Drafts!Writes(q[j], i)
    <3>1. j - m - 1 \in 1..K /\ (j - m - 1) + 1 \in 1..(K + 2) /\ m + ((j - m - 1) + 1) = j
          /\ j - m - 1 # i
      BY <1>1, <2>1
    <3>2. q[j] = Drafts!Upload[(j - m - 1) + 1]
      BY <1>3, <3>1
    <3>3. q[j].step = "point" /\ q[j].nr = j - m - 1
      BY <1>2, <3>1, <3>2
    <3> QED BY <3>1, <3>3 DEF Drafts!Writes
  <2>4. Wrote(q, m + K + 1, i) = m + 1 + i
    <3>1. Drafts!Writes(q[m + 1 + i], i)
      BY <2>2 DEF Drafts!Writes
    <3> QED BY <2>1, <2>3, <3>1, WroteLast
  <2>5. m + 1 + i # 0
    BY <2>1
  <2> QED BY <2>1, <2>2, <2>4, <2>5, DraftAfterIs
<1>7. Drafts!DoesAfter(draft, does, q, m + K + 2)
        = SubSeq(Drafts!DraftAfter(draft, q, m + K + 1), 1, K)
  <2>1. (m + K + 2) - 1 = m + K + 1 /\ m + K + 2 # 0
    BY <1>1
  <2>2. Drafts!DoesAfter(draft, does, q, m + K + 2)
          = SubSeq(Drafts!DraftAfter(draft, q, (m + K + 2) - 1), 1, q[m + K + 2].nr)
    BY <1>4, <1>5, <2>1, DoesAfterIs
  <2> QED BY <1>4, <2>1, <2>2
<1>8. SubSeq(Drafts!DraftAfter(draft, q, m + K + 1), 1, K) = points
  <2> DEFINE h == Drafts!DraftAfter(draft, q, m + K + 1)
             w == SubSeq(h, 1, K)
  <2>1. points \in Seq(Poses) /\ \A i \in 1..K : h[i] = points[i] /\ h[i] \in Poses
    BY <1>6 DEF DraftTypes, K
  <2> HIDE DEF h
  <2>2. /\ w \in Seq(Poses) /\ Len(w) = IF 1 <= K THEN K - 1 + 1 ELSE 0
        /\ \A i \in 1..(K - 1 + 1) : w[i] = h[1 + i - 1]
    BY <1>1, <2>1, SubSeqProperties
  <2>3. Len(w) = Len(points) /\ \A i \in 1..Len(w) : w[i] = points[i]
    BY <1>1, <2>1, <2>2 DEF K
  <2> HIDE DEF w
  <2>4. w = points
    BY <2>1, <2>2, <2>3, SeqEqual
  <2> QED BY <2>4 DEF w, h
<1> QED BY <1>3, <1>7, <1>8 DEF q

\* What is sent, and how much of it the head reads.
SendTypes ==
  /\ linkStatus \in {"UP", "DOWN"}
  /\ queue \in Seq(Frames) /\ Len(queue) <= DraftCap
  /\ draft \in DraftType /\ does \in Plans /\ meant \in Plans

LEMMA PlansHas == <<>> \in Plans /\ Drafts!Ramping \in Plans /\ Drafts!Unsure \in Plans
<1>1. <<>> \in Seq(Poses \cup {Drafts!None})
  OBVIOUS
<1> QED BY <1>1, Zenon DEF Plans

LEMMA ConcatFrames ==
  ASSUME NEW q \in Seq(Frames), NEW b \in Seq(Frames)
  PROVE  q \o b \in Seq(Frames) /\ Len(q \o b) = Len(q) + Len(b) /\ Len(q) \in Nat /\ Len(b) \in Nat
BY ConcatProperties

LEMMA SomeFrames ==
  ASSUME NEW b \in Seq(Frames), NEW i \in 1..(Len(b) + 1), NEW j \in 0..Len(b)
  PROVE  SubSeq(b, i, j) \in Seq(Frames) /\ Len(SubSeq(b, i, j)) = IF i <= j THEN j - i + 1 ELSE 0
<1>1. \A l \in i..j : b[l] \in Frames
  OBVIOUS
<1>2. i \in Int /\ j \in Int
  OBVIOUS
<1> QED BY <1>1, <1>2, SubSeqProperties

LEMMA AcceptedTypes ==
  ASSUME DraftTypes, NEW b \in Seq(Frames), NEW goal \in Plans, Drafts!Accepted(b, goal)
  PROVE  /\ SendTypes' /\ queue' = queue \o b /\ meant' = goal
         /\ UNCHANGED <<linkStatus, draft, does>>
<1>1. /\ Len(queue) + Len(b) <= DraftCap /\ queue' = queue \o b /\ meant' = goal
      /\ UNCHANGED <<linkStatus, draft, does>>
  BY DEF Drafts!Accepted, Drafts!headVars
<1>2. queue \in Seq(Frames)
  BY DEF DraftTypes
<1>3. queue \o b \in Seq(Frames) /\ Len(queue \o b) = Len(queue) + Len(b)
  BY <1>2, ConcatFrames
<1>4. queue' \in Seq(Frames) /\ Len(queue') <= DraftCap
  BY <1>1, <1>3
<1> QED BY <1>1, <1>4 DEF SendTypes, DraftTypes

LEMMA LostTypes ==
  ASSUME DraftTypes, NEW b \in Seq(Frames),
         Drafts!Broken(b) \/ Drafts!Holed(b) \/ Drafts!CutShort(b)
  PROVE  SendTypes' /\ meant' = Drafts!Unsure
<1>1. queue \in Seq(Frames) /\ Len(queue) \in Nat /\ Len(b) \in Nat /\ DraftCap \in Nat
      /\ Len(queue) <= DraftCap
  BY DraftsAssumption DEF DraftTypes
<1>2. meant' = Drafts!Unsure /\ meant' \in Plans
  BY PlansHas DEF Drafts!Broken, Drafts!Holed, Drafts!CutShort
<1>3. CASE Drafts!Broken(b)
  <2>1. PICK n \in 0..(Len(queue) + Len(b) - 1) : Drafts!Reads(queue \o b, n)
    BY <1>3 DEF Drafts!Broken
  <2>2. queue \o b \in Seq(Frames) /\ Len(queue \o b) = Len(queue) + Len(b)
    BY <1>1, ConcatFrames
  <2>3. n \in 0..Len(queue \o b)
    BY <1>1, <2>2
  <2>4. draft \in DraftType /\ does \in Plans
    BY DEF DraftTypes
  <2> DEFINE q == queue \o b
  <2>5. Drafts!DraftAfter(draft, q, n) \in DraftType /\ Drafts!DoesAfter(draft, does, q, n) \in Plans
    <3> HIDE DEF q
    <3>1. q \in Seq(Frames) /\ n \in 0..Len(q)
      BY <2>2, <2>3 DEF q
    <3> QED BY <2>4, <3>1, ReadsTypes
  <2>6. draft' \in DraftType /\ does' \in Plans
    BY <2>1, <2>5 DEF Drafts!Reads
  <2>7. linkStatus' = "DOWN" /\ queue' = <<>>
    BY <1>3 DEF Drafts!Broken
  <2>8. <<>> \in Seq(Frames) /\ Len(<<>>) = 0
    OBVIOUS
  <2>9. queue' \in Seq(Frames) /\ Len(queue') <= DraftCap
    BY <1>1, <2>7, <2>8
  <2> QED BY <1>2, <2>6, <2>7, <2>9 DEF SendTypes
<1>4. CASE Drafts!Holed(b)
  <2>1. PICK first \in 1..Len(b), last \in 1..Len(b) :
          /\ first <= last
          /\ queue' = queue \o SubSeq(b, 1, first - 1) \o SubSeq(b, last + 1, Len(b))
          /\ Len(queue') <= DraftCap
    BY <1>4 DEF Drafts!Holed
  <2>2. SubSeq(b, 1, first - 1) \in Seq(Frames)
    <3>1. 1 \in 1..(Len(b) + 1) /\ first - 1 \in 0..Len(b)
      BY <1>1
    <3> QED BY <3>1, SomeFrames
  <2>3. SubSeq(b, last + 1, Len(b)) \in Seq(Frames)
    <3>1. last + 1 \in 1..(Len(b) + 1) /\ Len(b) \in 0..Len(b)
      BY <1>1
    <3> QED BY <3>1, SomeFrames
  <2> DEFINE s == SubSeq(b, 1, first - 1)
             t == SubSeq(b, last + 1, Len(b))
  <2>4. (queue \o s) \o t \in Seq(Frames)
    <3> HIDE DEF s, t
    <3>1. s \in Seq(Frames) /\ t \in Seq(Frames)
      BY <2>2, <2>3 DEF s, t
    <3>2. queue \o s \in Seq(Frames)
      BY <1>1, <3>1, ConcatFrames
    <3> QED BY <3>1, <3>2, ConcatFrames
  <2>5. UNCHANGED <<linkStatus, draft, does>>
    BY <1>4 DEF Drafts!Holed, Drafts!headVars
  <2> QED BY <1>2, <2>1, <2>4, <2>5 DEF SendTypes, DraftTypes
<1>5. CASE Drafts!CutShort(b)
  <2>1. /\ Len(queue) + Len(b) > DraftCap
        /\ queue' = queue \o SubSeq(b, 1, DraftCap - Len(queue))
        /\ UNCHANGED <<linkStatus, draft, does>>
    BY <1>5 DEF Drafts!CutShort, Drafts!headVars
  <2> DEFINE s == SubSeq(b, 1, DraftCap - Len(queue))
  <2>2. s \in Seq(Frames) /\ Len(s) = DraftCap - Len(queue)
    <3>1. 1 \in 1..(Len(b) + 1) /\ DraftCap - Len(queue) \in 0..Len(b)
      BY <1>1, <2>1
    <3>2. /\ s \in Seq(Frames)
          /\ Len(s) = IF 1 <= DraftCap - Len(queue) THEN (DraftCap - Len(queue)) - 1 + 1 ELSE 0
      BY <3>1, SomeFrames
    <3> HIDE DEF s
    <3> QED BY <1>1, <3>1, <3>2
  <2>3. queue \o s \in Seq(Frames) /\ Len(queue \o s) = DraftCap
    <3> HIDE DEF s
    <3>1. queue \o s \in Seq(Frames) /\ Len(queue \o s) = Len(queue) + Len(s)
      BY <1>1, <2>2, ConcatFrames
    <3> QED BY <1>1, <2>2, <3>1
  <2>4. queue' \in Seq(Frames) /\ Len(queue') <= DraftCap
    BY <1>1, <2>1, <2>3
  <2> QED BY <1>2, <2>1, <2>4 DEF SendTypes, DraftTypes
<1> QED BY <1>3, <1>4, <1>5

\* A single order, or a ramp, behind anything else.
LEMMA OrderDoes ==
  ASSUME DraftTypes, NEW b \in Seq(Frames), NEW s \in {"on", "off", "cancel"},
         Len(b) \in {1, 2}, b[1].step = s, Len(b) = 2 => ~Drafts!Decides(b[2])
  PROVE  LET q == queue \o b
         IN  Drafts!DoesAfter(draft, does, q, Len(q)) = IF s = "on" THEN Drafts!Ramping ELSE <<>>
<1> DEFINE q == queue \o b
           m == Len(queue)
<1>1. /\ q \in Seq(Frames) /\ Len(q) = m + Len(b) /\ m \in Nat
      /\ \A i \in 1..(m + Len(b)) : q[i] = IF i <= m THEN queue[i] ELSE b[i - m]
  <2>1. queue \in Seq(Frames)
    BY DEF DraftTypes
  <2>2. /\ q \in Seq(Frames) /\ Len(q) = Len(queue) + Len(b)
        /\ \A i \in 1..(Len(queue) + Len(b)) : q[i] = IF i <= Len(queue) THEN queue[i] ELSE b[i - Len(queue)]
    BY <2>1, ConcatProperties, Zenon
  <2> QED BY <2>1, <2>2
<1> HIDE DEF q, m
<1>2. q[m + 1] = b[1] /\ (Len(b) = 2 => q[m + 2] = b[2])
  <2>1. m + 1 \in 1..(m + Len(b)) /\ ~(m + 1 <= m) /\ (m + 1) - m = 1
    BY <1>1
  <2>2. Len(b) = 2 => m + 2 \in 1..(m + Len(b)) /\ ~(m + 2 <= m) /\ (m + 2) - m = 2
    BY <1>1
  <2>3. q[m + 1] = b[(m + 1) - m]
    BY <1>1, <2>1
  <2>4. Len(b) = 2 => q[m + 2] = b[(m + 2) - m]
    BY <1>1, <2>2
  <2> QED BY <2>1, <2>2, <2>3, <2>4
<1>3. Decided(q, Len(q)) = m + 1
  <2>1. Len(q) \in Nat /\ m + 1 \in 1..Len(q)
    BY <1>1
  <2>2. Drafts!Decides(q[m + 1])
    BY <1>2 DEF Drafts!Decides
  <2>3. ASSUME NEW j \in ((m + 1) + 1)..Len(q) PROVE ~Drafts!Decides(q[j])
    <3>1. j = m + 2 /\ Len(b) = 2
      BY <1>1
    <3> QED BY <1>2, <3>1
  <2> QED BY <2>1, <2>2, <2>3, DecidedLast
<1>4. m + 1 # 0 /\ q[m + 1].step = s
  BY <1>1, <1>2
<1>5. Drafts!DoesAfter(draft, does, q, Len(q)) = IF s = "on" THEN Drafts!Ramping ELSE <<>>
  BY <1>3, <1>4, DoesAfterIs
<1> QED BY <1>5 DEF q

\* The head will have read what was sent, and the page shows whether it ramps.
Told == meant # Drafts!Unsure =>
          /\ Drafts!DoesAfter(draft, does, queue, Len(queue)) = meant
          /\ upload = "grail" => (running <=> meant = Drafts!Ramping)

LEMMA ToldIs == Told <=> HeadHasUploads
BY DEF Told, HeadHasUploads, Drafts!HeadHasUploads

LEMMA SentInv ==
  ASSUME DraftTypes, SendTypes',
         UNCHANGED <<upload, points, lastPose, pose>>, running' \in BOOLEAN
  PROVE  DraftTypes'
BY DEF DraftTypes, SendTypes

LEMMA StartInv == ASSUME DraftTypes, Drafts!Start, upload # "grail" PROVE DraftTypes' /\ Told'
<1>1. /\ running' = TRUE /\ UNCHANGED <<upload, points, lastPose, pose>>
      /\ \/ Drafts!Accepted(Drafts!Upload, points)
         \/ Drafts!Broken(Drafts!Upload) \/ Drafts!Holed(Drafts!Upload)
  BY DEF Drafts!Start
<1>2. Drafts!Upload \in Seq(Frames)
  BY UploadIs
<1>3. CASE Drafts!Accepted(Drafts!Upload, points)
  <2>1. points \in Plans
    BY DEF DraftTypes, Plans
  <2>2. /\ SendTypes' /\ queue' = queue \o Drafts!Upload /\ meant' = points
        /\ UNCHANGED <<linkStatus, draft, does>>
    BY <1>2, <1>3, <2>1, AcceptedTypes
  <2>3. Drafts!DoesAfter(draft, does, queue', Len(queue')) = points
    BY <2>2, UploadPlays
  <2>4. Told'
    BY <1>1, <2>2, <2>3 DEF Told
  <2> QED BY <1>1, <2>2, <2>4, SentInv
<1>4. CASE Drafts!Broken(Drafts!Upload) \/ Drafts!Holed(Drafts!Upload)
  <2>1. SendTypes' /\ meant' = Drafts!Unsure
    BY <1>2, <1>4, LostTypes
  <2> QED BY <1>1, <2>1, SentInv DEF Told
<1> QED BY <1>1, <1>3, <1>4

LEMMA CancelInv == ASSUME DraftTypes, Drafts!Cancel PROVE DraftTypes' /\ Told'
<1> DEFINE b == <<Drafts!Single("cancel")>>
<1>1. b \in Seq(Frames) /\ Len(b) = 1 /\ b[1].step = "cancel"
  BY SingleType
<1>2. /\ running' = FALSE /\ UNCHANGED <<upload, points, lastPose, pose>> /\ upload # "grail"
      /\ \/ Drafts!Accepted(b, <<>>)
         \/ Drafts!Broken(b) \/ Drafts!CutShort(b)
         \/ meant' = Drafts!Unsure /\ UNCHANGED <<linkStatus, queue, draft, does>>
  BY DEF Drafts!Cancel, Drafts!headVars
<1> HIDE DEF b
<1>3. CASE Drafts!Accepted(b, <<>>)
  <2>1. /\ SendTypes' /\ queue' = queue \o b /\ meant' = <<>>
        /\ UNCHANGED <<linkStatus, draft, does>>
    BY <1>1, <1>3, PlansHas, AcceptedTypes
  <2>2. Drafts!DoesAfter(draft, does, queue \o b, Len(queue \o b)) = <<>>
    <3>1. LET q == queue \o b
          IN  Drafts!DoesAfter(draft, does, q, Len(q)) = IF "cancel" = "on" THEN Drafts!Ramping ELSE <<>>
      BY <1>1, OrderDoes
    <3> QED BY <3>1
  <2>3. Told'
    BY <1>2, <2>1, <2>2 DEF Told
  <2> QED BY <1>2, <2>1, <2>3, SentInv
<1>4. CASE Drafts!Broken(b) \/ Drafts!CutShort(b)
  <2>1. SendTypes' /\ meant' = Drafts!Unsure
    BY <1>1, <1>4, LostTypes
  <2> QED BY <1>2, <2>1, SentInv DEF Told
<1>5. CASE meant' = Drafts!Unsure /\ UNCHANGED <<linkStatus, queue, draft, does>>
  <2>1. SendTypes'
    BY <1>5, PlansHas DEF SendTypes, DraftTypes
  <2> QED BY <1>2, <1>5, <2>1, SentInv DEF Told
<1> QED BY <1>2, <1>3, <1>4, <1>5

LEMMA GrailInv ==
  ASSUME DraftTypes, Told, NEW on \in BOOLEAN, NEW b \in Seq(Frames), Drafts!GrailSend(b, on),
         Len(b) \in {1, 2}, b[1].step = IF on THEN "on" ELSE "off",
         Len(b) = 2 => ~Drafts!Decides(b[2])
  PROVE  DraftTypes' /\ Told'
<1> DEFINE goal == IF on THEN Drafts!Ramping ELSE <<>>
<1>1. /\ UNCHANGED <<upload, points, lastPose, pose>> /\ running' \in BOOLEAN
      /\ \/ Drafts!Accepted(b, goal) /\ running' = on
         \/ Drafts!Broken(b) \/ Drafts!CutShort(b)
  BY DEF Drafts!GrailSend, DraftTypes
<1>2. goal \in Plans /\ (goal = Drafts!Ramping <=> on)
  BY PlansHas DEF Drafts!Ramping
<1> HIDE DEF goal
<1>3. CASE Drafts!Accepted(b, goal) /\ running' = on
  <2>1. /\ SendTypes' /\ queue' = queue \o b /\ meant' = goal
        /\ UNCHANGED <<linkStatus, draft, does>>
    BY <1>2, <1>3, AcceptedTypes
  <2>2. Drafts!DoesAfter(draft, does, queue \o b, Len(queue \o b)) = goal
    <3>1. CASE on
      <4>1. b[1].step = "on"
        BY <3>1
      <4>2. LET q == queue \o b
            IN  Drafts!DoesAfter(draft, does, q, Len(q)) = IF "on" = "on" THEN Drafts!Ramping ELSE <<>>
        BY <4>1, OrderDoes
      <4> QED BY <3>1, <4>2 DEF goal
    <3>2. CASE ~on
      <4>1. b[1].step = "off"
        BY <3>2
      <4>2. LET q == queue \o b
            IN  Drafts!DoesAfter(draft, does, q, Len(q)) = IF "off" = "on" THEN Drafts!Ramping ELSE <<>>
        BY <4>1, OrderDoes
      <4> QED BY <3>2, <4>2 DEF goal
    <3> QED BY <3>1, <3>2
  <2>3. running' <=> meant' = Drafts!Ramping
    BY <1>2, <1>3, <2>1
  <2>4. Drafts!DoesAfter(draft, does, queue, Len(queue))' = meant'
    BY <2>1, <2>2
  <2>5. Told'
    BY <2>3, <2>4 DEF Told
  <2> QED BY <1>1, <2>1, <2>5, SentInv
<1>4. CASE Drafts!Broken(b) \/ Drafts!CutShort(b)
  <2>1. SendTypes' /\ meant' = Drafts!Unsure
    BY <1>4, LostTypes
  <2> QED BY <1>1, <2>1, SentInv DEF Told
<1> QED BY <1>1, <1>3, <1>4

LEMMA RampInv ==
  ASSUME DraftTypes, Told,
         Drafts!GrailDisable \/ \E on \in BOOLEAN : Drafts!GrailApply(on)
  PROVE  DraftTypes' /\ Told'
<1>1. CASE Drafts!GrailDisable
  <2> DEFINE b == <<Drafts!Single("off")>>
  <2>1. b \in Seq(Frames) /\ Len(b) = 1 /\ b[1].step = "off"
    BY SingleType
  <2>2. Drafts!GrailSend(b, FALSE)
    BY <1>1 DEF Drafts!GrailDisable
  <2> HIDE DEF b
  <2>3. PICK on \in BOOLEAN : on = FALSE
    OBVIOUS
  <2>4. Drafts!GrailSend(b, on)
    BY <2>2, <2>3, Zenon
  <2>5. b[1].step = IF on THEN "on" ELSE "off"
    BY <2>1, <2>3
  <2> QED BY <2>1, <2>4, <2>5, GrailInv
<1>2. ASSUME NEW on \in BOOLEAN, Drafts!GrailApply(on) PROVE DraftTypes' /\ Told'
  <2> DEFINE s == IF on THEN "on" ELSE "off"
             b == <<Drafts!Single(s), Drafts!Single("curve")>>
  <2>1. s \in {"open", "on", "off", "curve", "cancel"}
    OBVIOUS
  <2>2. /\ Drafts!Single(s) \in Frames /\ Drafts!Single(s).step = s
        /\ Drafts!Single("curve") \in Frames /\ Drafts!Single("curve").step = "curve"
    <3> HIDE DEF s
    <3> QED BY <2>1, SingleType
  <2>3. Drafts!GrailSend(b, on)
    BY <1>2 DEF Drafts!GrailApply, Drafts!Ramp
  <2>4. b \in Seq(Frames) /\ Len(b) = 2 /\ b[1].step = s /\ b[2].step = "curve"
    <3> HIDE DEF s
    <3> QED BY <2>2
  <2>5. ~Drafts!Decides(b[2])
    BY <2>4 DEF Drafts!Decides
  <2> HIDE DEF b
  <2> QED BY <2>3, <2>4, <2>5, GrailInv
<1> QED BY <1>1, <1>2

LEMMA NothingRead ==
  ASSUME DraftTypes
  PROVE  Drafts!DraftAfter(draft, queue, 0) = draft /\ Drafts!DoesAfter(draft, does, queue, 0) = does
<1>1. Decided(queue, 0) = 0 /\ \A i \in 1..MaxPoints : Wrote(queue, 0, i) = 0
  <2>1. 0 \in Nat /\ \A k \in 0..0 : k = 0
    OBVIOUS
  <2> QED BY <2>1, DecidedIs, WroteIs
<1>2. Drafts!DoesAfter(draft, does, queue, 0) = does
  BY <1>1, DoesAfterIs
<1>3. Drafts!DraftAfter(draft, queue, 0) = [i \in 1..MaxPoints |-> draft[i]]
  BY <1>1, DraftAfterIs
<1> QED BY <1>2, <1>3 DEF DraftTypes, DraftType

LEMMA LinkDownInv == ASSUME DraftTypes, Told, Drafts!LinkDown PROVE DraftTypes' /\ Told'
<1>1. PICK n \in 0..Len(queue) : Drafts!Reads(queue, n)
  BY DEF Drafts!LinkDown
<1>2. /\ linkStatus' = "DOWN" /\ queue' = <<>>
      /\ meant' = IF queue = <<>> THEN meant ELSE Drafts!Unsure
      /\ UNCHANGED <<upload, points, lastPose, running, pose>>
  BY DEF Drafts!LinkDown
<1>3. queue \in Seq(Frames) /\ draft \in DraftType /\ does \in Plans /\ meant \in Plans
      /\ DraftCap \in Nat
  BY DraftsAssumption DEF DraftTypes
<1>4. draft' \in DraftType /\ does' \in Plans
  BY <1>1, <1>3, ReadsTypes DEF Drafts!Reads
<1>5. queue' \in Seq(Frames) /\ Len(queue') = 0
  BY <1>2
<1>6. SendTypes'
  BY <1>2, <1>3, <1>4, <1>5, PlansHas DEF SendTypes
<1>7. Told'
  <2>1. CASE queue = <<>>
    <3>1. n = 0 /\ Len(queue) = 0
      BY <2>1
    <3>2. draft' = draft /\ does' = does
      BY <1>1, <3>1, NothingRead DEF Drafts!Reads
    <3> QED BY <1>2, <2>1, <3>2 DEF Told
  <2>2. CASE queue # <<>>
    BY <1>2, <2>2 DEF Told
  <2> QED BY <2>1, <2>2
<1>8. running' \in BOOLEAN
  BY <1>2 DEF DraftTypes
<1> QED BY <1>2, <1>6, <1>7, <1>8, SentInv

LEMMA HeadReadsInv == ASSUME DraftTypes, Told, Drafts!HeadReads PROVE DraftTypes' /\ Told'
<1>1. /\ queue # <<>> /\ Drafts!Reads(queue, 1) /\ queue' = Tail(queue)
      /\ UNCHANGED <<upload, linkStatus, points, lastPose, running, pose, meant>>
  BY DEF Drafts!HeadReads
<1>2. queue \in Seq(Frames) /\ draft \in DraftType /\ does \in Plans /\ meant \in Plans
      /\ Len(queue) <= DraftCap /\ DraftCap \in Nat
  BY DraftsAssumption DEF DraftTypes
<1>3. /\ Len(queue) \in Nat /\ Len(queue) \in 1..Len(queue) /\ 1 \in 0..Len(queue)
      /\ Tail(queue) \in Seq(Frames) /\ Len(Tail(queue)) = Len(queue) - 1
  BY <1>1, <1>2
<1>4. /\ draft' = Drafts!DraftAfter(draft, queue, 1)
      /\ does' = Drafts!DoesAfter(draft, does, queue, 1)
  BY <1>1 DEF Drafts!Reads
<1>5. draft' \in DraftType /\ does' \in Plans
  BY <1>2, <1>3, <1>4, ReadsTypes
<1>6. SendTypes'
  BY <1>1, <1>2, <1>3, <1>5 DEF SendTypes, DraftTypes
<1>7. Drafts!DoesAfter(draft', does', queue', Len(queue')) =
        Drafts!DoesAfter(draft, does, queue, Len(queue))
  BY <1>1, <1>2, <1>3, <1>4, ReadOne
<1>8. Told'
  BY <1>1, <1>7 DEF Told
<1>9. running' \in BOOLEAN
  BY <1>1 DEF DraftTypes
<1> QED BY <1>1, <1>6, <1>8, <1>9, SentInv

LEMMA QuietInv ==
  ASSUME DraftTypes, Told,
         \/ Drafts!AddKey \/ Drafts!AddWaypoint \/ Drafts!Clear
         \/ Drafts!LinkUp \/ Drafts!Telemetry \/ Drafts!Fly
         \/ UNCHANGED Drafts!vars
  PROVE  DraftTypes' /\ Told'
<1>1. /\ UNCHANGED <<upload, running, queue, draft, does, meant>>
      /\ linkStatus' \in {linkStatus, "UP"} /\ lastPose' \in {lastPose, pose}
      /\ pose' \in Poses \cup {pose}
      /\ \/ points' = points \/ points' = <<>>
         \/ points' = Append(points, lastPose) /\ Len(points) < MaxPoints /\ lastPose # Drafts!None
  BY DEF Drafts!AddKey, Drafts!AddWaypoint, Drafts!Record, Drafts!Clear, Drafts!LinkUp,
         Drafts!Telemetry, Drafts!Fly, Drafts!vars, Drafts!headVars
<1>2. Told'
  BY <1>1 DEF Told
<1>3. points' \in Seq(Poses) /\ Len(points') <= MaxPoints
  <2>1. points \in Seq(Poses) /\ Len(points) <= MaxPoints /\ MaxPoints \in Nat
        /\ lastPose \in Poses \cup {Drafts!None}
    BY DraftsAssumption DEF DraftTypes
  <2>2. CASE points' = <<>>
    BY <2>1, <2>2
  <2>3. CASE points' = Append(points, lastPose) /\ Len(points) < MaxPoints /\ lastPose # Drafts!None
    BY <2>1, <2>3
  <2> QED BY <1>1, <2>1, <2>2, <2>3
<1> QED BY <1>1, <1>2, <1>3 DEF DraftTypes

LEMMA EndInv == ASSUME DraftTypes, Drafts!Tick \/ Drafts!Played PROVE DraftTypes' /\ Told'
<1>1. /\ UNCHANGED <<upload, linkStatus, points, lastPose, queue, pose, draft>> /\ upload # "grail"
      /\ running' \in BOOLEAN
      /\ \/ meant' = Drafts!Unsure /\ does' = does
         \/ queue = <<>> /\ does' = <<>> /\ meant' = <<>>
  BY DEF Drafts!Tick, Drafts!Played, Drafts!headVars, DraftTypes
<1>2. SendTypes'
  BY <1>1, PlansHas DEF SendTypes, DraftTypes
<1>3. CASE meant' = Drafts!Unsure
  BY <1>1, <1>2, <1>3, SentInv DEF Told
<1>4. CASE queue = <<>> /\ does' = <<>> /\ meant' = <<>>
  <2>1. DraftTypes'
    BY <1>1, <1>2, SentInv
  <2>2. Drafts!DoesAfter(draft', does', queue', 0) = does'
    <3>1. Decided(queue', 0) = 0
      <4>1. 0 \in Nat /\ \A k \in 0..0 : k = 0
        OBVIOUS
      <4> QED BY <4>1, DecidedIs
    <3> QED BY <3>1, DoesAfterIs
  <2>3. Len(queue') = 0
    BY <1>1, <1>4
  <2>4. Told'
    BY <1>1, <1>4, <2>2, <2>3 DEF Told
  <2> QED BY <2>1, <2>4
<1> QED BY <1>1, <1>3, <1>4

LEMMA DraftsSteps == [PartsNext]_partsVars => [Drafts!Next]_(Drafts!vars)
BY DEF PartsNext, OnlyPart, partsVars, draftVars, Drafts!vars

LEMMA DraftsStep == DraftTypes /\ Told /\ [Drafts!Next]_(Drafts!vars) => DraftTypes' /\ Told'
<1> SUFFICES ASSUME DraftTypes, Told, [Drafts!Next]_(Drafts!vars) PROVE DraftTypes' /\ Told'
  OBVIOUS
<1>1. CASE Drafts!StartPlc \/ Drafts!StartPathlapse
  BY <1>1, StartInv DEF Drafts!StartPlc, Drafts!StartPathlapse
<1>2. CASE Drafts!Cancel
  BY <1>2, CancelInv
<1>3. CASE Drafts!GrailDisable \/ \E on \in BOOLEAN : Drafts!GrailApply(on)
  BY <1>3, RampInv
<1>4. CASE Drafts!LinkDown
  BY <1>4, LinkDownInv
<1>5. CASE Drafts!HeadReads
  BY <1>5, HeadReadsInv
<1>6. CASE Drafts!Tick \/ Drafts!Played
  BY <1>6, EndInv
<1>7. CASE \/ Drafts!AddKey \/ Drafts!AddWaypoint \/ Drafts!Clear
           \/ Drafts!LinkUp \/ Drafts!Telemetry \/ Drafts!Fly
           \/ UNCHANGED Drafts!vars
  BY <1>7, QuietInv
<1> QED BY <1>1, <1>2, <1>3, <1>4, <1>5, <1>6, <1>7 DEF Drafts!Next

LEMMA DraftsInit == PartsInit => DraftTypes /\ Told
<1> SUFFICES ASSUME Drafts!Init PROVE DraftTypes /\ Told
  BY DEF PartsInit
<1>1. DraftTypes
  <2>1. Drafts!Blank \in DraftType
    BY DEF Drafts!Blank, DraftType
  <2>2. <<>> \in Seq(Poses) /\ <<>> \in Seq(Frames) /\ Len(<<>>) = 0 /\ MaxPoints \in Nat /\ DraftCap \in Nat
    BY DraftsAssumption
  <2>3. running \in BOOLEAN
    BY Zenon DEF Drafts!Init
  <2> QED BY <2>1, <2>2, <2>3, PlansHas DEF Drafts!Init, DraftTypes
<1>2. Drafts!DoesAfter(draft, does, queue, Len(queue)) = does
  <2>1. Len(queue) = 0
    BY DEF Drafts!Init
  <2> QED BY <1>1, <2>1, NothingRead
<1>3. meant # Drafts!Ramping /\ running = FALSE /\ meant = does
  BY DEF Drafts!Init, Drafts!Ramping
<1> QED BY <1>1, <1>2, <1>3 DEF Told

\* Once the head has read what is on its way it plays the points that were started, all of
\* them and in their order, or ramps as the page shows, unless some of it was lost and not
\* sent again since (the uploads of polaris-prog.c).
THEOREM HeadHasUploadsCorrect == PartsSpec => []HeadHasUploads
<1>1. DraftTypes /\ Told /\ [PartsNext]_partsVars => DraftTypes' /\ Told'
  BY DraftsSteps, DraftsStep
<1>2. Told => HeadHasUploads
  BY ToldIs
<1> QED BY <1>1, <1>2, DraftsInit, PTL DEF PartsSpec

-----------------------------------------------------------------------------
(***************************************************************************)
(* The types. Those of the jog come from its own theorem, those of the     *)
(* alignment, the drafts, the loader and the launches mostly from the      *)
(* invariants above; a plan and the bounds of the store want more.         *)
(***************************************************************************)
LEMMA JogSteps == [PartsNext]_partsVars => [Next]_vars
BY DEF PartsNext, OnlyPart, partsVars, vars

LEMMA JogIsJog == PartsSpec => Spec
<1>1. PartsInit => Init
  BY DEF PartsInit
<1> QED BY <1>1, JogSteps, PTL DEF PartsSpec, Spec

\* A launch still has to wait a part of the delay of its COUNT.
LEMMA BackoffTyped == ASSUME BackoffInv PROVE Backoff!TypeOK
<1>1. Backoff!Counts = 0..4
  BY FiveCounts
<1>2. count \in 0..4 /\ left \in Nat /\ left <= Delays[count]
  BY DEF BackoffInv, BackoffTypes
<1>3. Delays[count] \in Nat /\ Delays[count] <= Stable
  <2>1. count \in {0, 1, 2, 3, 4}
    BY <1>2
  <2>2. Delays[0] <= Stable /\ Delays[1] <= Stable /\ Delays[2] <= Stable /\ Delays[3] <= Stable
    BY BackoffNumbers
  <2> QED BY <2>1, <2>2, BackoffNumbers
<1>4. Delays[count] - left \in 0..Stable /\ left = Delays[count] - (Delays[count] - left)
  BY <1>2, <1>3, BackoffNumbers
<1>5. \E c \in 0..4, d \in 0..Stable : left = Delays[c] - d
  BY <1>2, <1>4, Zenon
<1>6. left \in {Delays[c] - d : c \in 0..4, d \in 0..Stable}
  BY <1>5
<1> QED BY <1>1, <1>2, <1>6 DEF BackoffInv, BackoffTypes, Backoff!TypeOK

\* Who takes a fault, and how the process may end.
EndTypes ==
  /\ owner \in {"loader", "app"} /\ asserted \in BOOLEAN
  /\ ended \in {"no", "exit_96", "exit_97", "null_jump", "recorded_fault", "silent_fault"}

LEMMA LoaderTyped ==
  ASSUME LoaderTypes, EndTypes
  PROVE  Loader!TypeOK
<1>1. at \in {Loader!Steps[i] : i \in 1..6}
  <2>1. 1 \in 1..6 /\ 2 \in 1..6 /\ 3 \in 1..6 /\ 4 \in 1..6 /\ 5 \in 1..6 /\ 6 \in 1..6
    OBVIOUS
  <2> QED BY <2>1, StepsAre, Zenon DEF LoaderTypes
<1> QED BY <1>1 DEF LoaderTypes, EndTypes, Loader!TypeOK

LEMMA EndStep == ASSUME EndTypes, [Loader!Next]_(Loader!vars) PROVE EndTypes'
<1>1. CASE UNCHANGED <<owner, asserted, ended>>
  BY <1>1 DEF EndTypes
<1>2. CASE Loader!MapSlotPage
  BY <1>2 DEF EndTypes, Loader!MapSlotPage
<1>3. CASE \E s \in Loader!Symbols : Loader!Fatal(s)
  BY <1>3 DEF EndTypes, Loader!Fatal
<1>4. CASE Loader!CallInit
  BY <1>4 DEF EndTypes, Loader!CallInit
<1>5. CASE Loader!AppHandlers \/ Loader!Fault
  BY <1>5 DEF EndTypes, Loader!AppHandlers, Loader!Fault
<1> QED BY <1>1, <1>2, <1>3, <1>4, <1>5
  DEF Loader!Next, Loader!vars, Loader!OpenCore, Loader!OpenPort, Loader!Filled, Loader!StubSlot,
      Loader!Resolve, Loader!GetSingleConfig, Loader!SetConfig

\* A share of the cycle is one of whole numbers, and a level one of the table.
LEMMA BracketTyped ==
  ASSUME NEW l \in Rate!Levels, NEW t \in Int, Rate!Fits(t, l)
  PROVE  Rate!Bracket(t, l) \in Rate!AxisPlans
<1> DEFINE rung == Rate!MakeLadder(l)
           x == Rate!Bracket(t, l)
           above == {i \in 2..4 : t <= rung[i].dps}
           top == IF t <= rung[1].dps THEN 1 ELSE 4
           first == Rate!Min(above)
<1>1. \A i \in 1..4 : rung[i] \in Rate!Points /\ rung[i].dps \in Int
  <2>1. /\ rung[1].dps = -Rate!SlowDps[l][2] /\ rung[2].dps = -Rate!SlowDps[l][1]
        /\ rung[3].dps = Rate!SlowDps[l][1] /\ rung[4].dps = Rate!SlowDps[l][2]
        /\ \A i \in 1..4 : rung[i] \in Rate!Points
    BY RungsAre, Zenon
  <2>2. Rate!SlowDps[l][1] \in Int /\ Rate!SlowDps[l][2] \in Int
    BY Ladder, Zenon
  <2> HIDE DEF rung
  <2> QED BY <2>1, <2>2
<1>2. x = IF t <= rung[1].dps \/ above = {}
          THEN Rate!Pair(rung[top], rung[top], 1, 1)
          ELSE Rate!Pair(rung[first - 1], rung[first],
                 t - rung[first - 1].dps, rung[first].dps - rung[first - 1].dps)
  BY Zenon DEF Rate!Bracket
<1>3. ASSUME NEW p \in Rate!Points, NEW q \in Rate!Points, NEW n \in Int, NEW d \in Int
      PROVE  Rate!Pair(p, q, n, d) \in Rate!AxisPlans
  BY DEF Rate!Pair, Rate!AxisPlans
<1>4. CASE t <= rung[1].dps \/ above = {}
  <2>1. top \in 1..4 /\ 1 \in Int
    OBVIOUS
  <2>2. rung[top] \in Rate!Points
    BY <1>1, <2>1
  <2> QED BY <1>2, <1>3, <1>4, <2>1, <2>2, Zenon
<1>5. CASE ~(t <= rung[1].dps \/ above = {})
  <2>1. first \in above
    <3>1. above \subseteq Rate!Levels /\ above # {}
      BY <1>5 DEF Rate!Levels
    <3> HIDE DEF above
    <3> QED BY <3>1, LeastLevel
  <2>2. PICK i \in {2, 3, 4} : i = first
    BY <2>1
  <2>3. i \in 1..4 /\ i - 1 \in 1..4
    BY <2>2
  <2>4. rung[i] \in Rate!Points /\ rung[i].dps \in Int
    BY <1>1, <2>3
  <2>5. rung[i - 1] \in Rate!Points /\ rung[i - 1].dps \in Int
    BY <1>1, <2>3
  <2> HIDE DEF rung
  <2>6. t - rung[i - 1].dps \in Int /\ rung[i].dps - rung[i - 1].dps \in Int
    BY <2>4, <2>5
  <2>7. x = Rate!Pair(rung[i - 1], rung[i], t - rung[i - 1].dps, rung[i].dps - rung[i - 1].dps)
    BY <1>2, <1>5, <2>2
  <2>8. Rate!Pair(rung[i - 1], rung[i], t - rung[i - 1].dps, rung[i].dps - rung[i - 1].dps)
          \in Rate!AxisPlans
    BY <1>3, <2>4, <2>5, <2>6, Zenon
  <2> QED BY <2>7, <2>8, Zenon
<1> QED BY <1>4, <1>5

PlanTypes ==
  /\ plan \in {Rate!NoPlan} \cup [level : 0..5, axis : [RateAxes -> Rate!AxisPlans]]
  /\ phase \in 0..(Rate!ReverseCycle - 1)

LEMMA PlanTyped ==
  ASSUME NEW r \in [RateAxes -> [target : Targets, hold : BOOLEAN]], Rate!InEnvelope(r)
  PROVE  Rate!RatePlan(r) \in [level : 0..5, axis : [RateAxes -> Rate!AxisPlans]]
<1> DEFINE l == Rate!CommonLevel(r)
<1>1. DOMAIN r = RateAxes /\ \A a \in RateAxes : r[a].target \in Int
  BY RateAssumption
<1>2. \A a \in Rate!Engaged(r) : a \in RateAxes /\ r[a].target \in Int
  BY <1>1 DEF Rate!Engaged
<1>3. l \in {0} \cup Rate!Levels
  BY <1>2, LevelCarries, Zenon
<1>4. \A a \in Rate!Engaged(r) : l \in Rate!Levels /\ Rate!Fits(r[a].target, l)
  BY <1>2, LevelCarries, Zenon
<1> HIDE DEF l
<1>5. Rate!Stop \in Rate!AxisPlans
  BY DEF Rate!Stop, Rate!AxisPlans
<1>6. \A a \in Rate!Engaged(r) : Rate!Bracket(r[a].target, l) \in Rate!AxisPlans
  BY <1>2, <1>4, BracketTyped, Zenon
<1>7. [a \in DOMAIN r |-> IF a \in Rate!Engaged(r) THEN Rate!Bracket(r[a].target, l) ELSE Rate!Stop]
        \in [RateAxes -> Rate!AxisPlans]
  BY <1>1, <1>5, <1>6
<1>8. l \in 0..5
  BY <1>3 DEF Rate!Levels
<1> QED BY <1>7, <1>8 DEF Rate!RatePlan, l

LEMMA PlanStep == ASSUME PlanTypes, [Rate!Next]_(Rate!vars) PROVE PlanTypes'
<1>1. CASE Rate!SetPlan
  <2>1. PICK r \in [RateAxes -> [target : Targets, hold : BOOLEAN]] :
          Rate!InEnvelope(r) /\ plan' = Rate!RatePlan(r)
    BY <1>1 DEF Rate!SetPlan
  <2>2. plan' \in [level : 0..5, axis : [RateAxes -> Rate!AxisPlans]]
    BY <2>1, PlanTyped
  <2>3. phase' = 0
    BY <1>1 DEF Rate!SetPlan
  <2> QED BY <2>2, <2>3 DEF PlanTypes, Rate!ReverseCycle
<1>2. CASE Rate!Tick \/ Rate!HeadTick
  BY <1>2 DEF PlanTypes, Rate!Tick, Rate!HeadTick
<1>3. CASE Rate!Pass
  BY <1>3 DEF PlanTypes, Rate!Pass, Rate!ReverseCycle
<1>4. CASE UNCHANGED Rate!vars
  BY <1>4 DEF PlanTypes, Rate!vars
<1> QED BY <1>1, <1>2, <1>3, <1>4 DEF Rate!Next

\* The bounds on what the model counts.
StoreBounds ==
  /\ ctx \in BOOLEAN /\ devh \in BOOLEAN /\ streaming \in BOOLEAN
  /\ build <= MaxInits /\ frames <= MaxFrames /\ 1 <= session /\ session <= MaxSessions
  /\ \A r \in Readers :
       view[r].frame <= MaxFrames /\ view[r].session <= MaxSessions /\ view[r].build <= MaxInits

LEMMA BoundsStep ==
  ASSUME StoreInv, StoreBounds, [Ipolar!Next]_(Ipolar!vars) PROVE StoreBounds'
<1>0. /\ build \in Nat /\ frames \in Nat /\ session \in Nat /\ view \in [Readers -> Views]
      /\ MaxFrames \in Nat /\ MaxInits \in Nat /\ MaxSessions \in Nat /\ 1 <= MaxSessions
      /\ ready \in BOOLEAN
  BY StoreAssumption DEF StoreInv, StoreTypes
<1>1. CASE \E r \in Readers : Ipolar!Acquire(r)
  <2>1. PICK r \in Readers : Ipolar!Acquire(r)
    BY <1>1
  <2>2. published \in Slots /\ content[published] \in Nat /\ content[published] <= frames
    BY <2>1 DEF Ipolar!Acquire, StoreInv, StoreTypes, PublishedInv
  <2>3. content[published] <= MaxFrames
    BY <1>0, <2>2 DEF StoreBounds
  <2>4. view' = [view EXCEPT ![r] = [frame |-> content[published], slot |-> published,
                                     session |-> session, build |-> build]]
    BY <2>1 DEF Ipolar!Acquire
  <2>5. UNCHANGED <<ctx, devh, streaming, build, session, frames>>
    BY <2>1 DEF Ipolar!Acquire, Ipolar!adapter
  <2> QED BY <1>0, <2>3, <2>4, <2>5 DEF StoreBounds
<1>2. CASE \E r \in Readers : Ipolar!Release(r)
  <2>1. PICK r \in Readers : Ipolar!Release(r)
    BY <1>2
  <2>2. view' = [view EXCEPT ![r] = [frame |-> 0, slot |-> 0, session |-> 0, build |-> 0]]
    BY <2>1 DEF Ipolar!Release, Ipolar!NoView, Ipolar!NoFrame
  <2>3. UNCHANGED <<ctx, devh, streaming, build, session, frames>>
    BY <2>1 DEF Ipolar!Release, Ipolar!adapter
  <2> QED BY <1>0, <2>2, <2>3 DEF StoreBounds
<1>3. CASE Ipolar!FrameCb
  BY <1>0, <1>3 DEF StoreBounds, Ipolar!FrameCb, Ipolar!adapter
<1>4. CASE Ipolar!AdapterInit
  <2>1. /\ build < MaxInits /\ build' = build + 1 /\ session' = 1
        /\ UNCHANGED <<devh, streaming, frames, view>>
    BY <1>4 DEF Ipolar!AdapterInit, Ipolar!StoreInit
  <2>2. ctx' \in BOOLEAN
    BY <1>4, Zenon DEF Ipolar!AdapterInit, StoreBounds
  <2> QED BY <1>0, <2>1, <2>2 DEF StoreBounds
<1>5. CASE Ipolar!Open
  BY <1>5 DEF StoreBounds, Ipolar!Open
<1>6. CASE Ipolar!Close
  <2>1. /\ session' = session \/ (session < MaxSessions /\ session' = session + 1)
        /\ UNCHANGED <<ctx, build, frames, view>>
    BY <1>6 DEF Ipolar!Close, Ipolar!StoreInvalidate
  <2>2. devh' \in BOOLEAN /\ streaming' \in BOOLEAN
    BY <1>6, Zenon DEF Ipolar!Close
  <2> QED BY <1>0, <2>1, <2>2 DEF StoreBounds
<1>7. CASE Ipolar!Exit
  <2>1. /\ session' = session \/ (session < MaxSessions /\ session' = session + 1)
        /\ UNCHANGED <<build, frames, view>>
    BY <1>7 DEF Ipolar!Exit, Ipolar!StoreBusy
  <2>2. ctx' \in BOOLEAN /\ devh' \in BOOLEAN /\ streaming' \in BOOLEAN
    BY <1>7, Zenon DEF Ipolar!Exit
  <2> QED BY <1>0, <2>1, <2>2 DEF StoreBounds
<1>8. CASE Ipolar!Stream
  <2>1. /\ session' = session \/ (session < MaxSessions /\ session' = session + 1)
        /\ UNCHANGED <<ctx, devh, build, frames, view>>
    BY <1>8 DEF Ipolar!Stream, Ipolar!StoreInvalidate
  <2>2. streaming' \in BOOLEAN
    BY <1>8, Zenon DEF Ipolar!Stream, StoreBounds
  <2> QED BY <1>0, <2>1, <2>2 DEF StoreBounds
<1>9. CASE UNCHANGED Ipolar!vars
  BY <1>9 DEF StoreBounds, Ipolar!vars, Ipolar!adapter
<1> QED BY <1>1, <1>2, <1>3, <1>4, <1>5, <1>6, <1>7, <1>8, <1>9 DEF Ipolar!Next

LEMMA StoreTyped == ASSUME StoreInv, StoreBounds PROVE Ipolar!TypeOK
<1>3. refs \in [Slots -> Nat] /\ wiped \in BOOLEAN
  BY DEF StoreInv, StoreTypes
<1>4. ASSUME NEW s \in Slots PROVE content[s] \in 0..MaxFrames
  BY StoreAssumption DEF StoreInv, StoreTypes, PublishedInv, StoreBounds
<1>5. content \in [Slots -> 0..MaxFrames]
  BY <1>4 DEF StoreInv, StoreTypes
<1>6. view \in [Readers -> [frame : 0..MaxFrames, slot : Slots, session : 0..MaxSessions,
                            build : 0..MaxInits]]
  BY StoreAssumption DEF StoreInv, StoreTypes, StoreBounds, Views
<1>7. /\ build \in 0..MaxInits /\ frames \in 0..MaxFrames /\ session \in 1..MaxSessions
      /\ published \in Slots \cup {-1} /\ {ctx, devh, streaming, ready} \subseteq BOOLEAN
  BY StoreAssumption DEF StoreInv, StoreTypes, StoreBounds
<1> QED BY <1>3, <1>5, <1>6, <1>7 DEF Ipolar!TypeOK

\* Every variable of every component keeps its type, whatever they do.
THEOREM TypesCorrect == PartsSpec => []TypesOK
<1> DEFINE Typed == /\ AlignmentInv /\ LoaderInv /\ EndTypes /\ RateInv /\ PlanTypes
                    /\ StoreInv /\ StoreBounds /\ BackoffInv /\ DraftTypes /\ Told
<1>1. PartsInit => Typed
  <2> SUFFICES ASSUME PartsInit PROVE Typed
    OBVIOUS
  <2>1. AlignmentInv
    BY DEF PartsInit, Alignment!Init, AlignmentInv, Alignment!TypeOK, Alignment!Tracks,
           Alignment!Seen, Traces
  <2>2. LoaderInv /\ EndTypes
    BY DEF PartsInit, Loader!Init, LoaderInv, LoaderTypes, SlotsInv, Early, EndTypes
  <2>3. RateInv /\ PlanTypes
    BY RateInit DEF PartsInit, Rate!Init, PlanTypes, Rate!ReverseCycle
  <2>4. StoreInv
    BY StoreStarts DEF PartsInit
  <2>5. StoreBounds
    <3>1. MaxFrames \in Nat /\ MaxInits \in Nat /\ MaxSessions \in Nat /\ 1 <= MaxSessions
      BY StoreAssumption
    <3>2. /\ build = 0 /\ session = 1 /\ frames = 0
          /\ view = [r \in Readers |-> [frame |-> 0, slot |-> 0, session |-> 0, build |-> 0]]
      BY DEF PartsInit, Ipolar!Init, Ipolar!NoView, Ipolar!NoFrame
    <3>3. ctx \in BOOLEAN /\ devh \in BOOLEAN /\ streaming \in BOOLEAN
      BY Zenon DEF PartsInit, Ipolar!Init
    <3> QED BY <3>1, <3>2, <3>3 DEF StoreBounds
  <2>6. BackoffInv /\ DraftTypes /\ Told
    BY BackoffInit, DraftsInit
  <2> QED BY <2>1, <2>2, <2>3, <2>4, <2>5, <2>6
<1>2. Typed /\ [PartsNext]_partsVars => Typed'
  <2> SUFFICES ASSUME Typed, [PartsNext]_partsVars PROVE Typed'
    OBVIOUS
  <2>1. AlignmentInv' /\ LoaderInv' /\ EndTypes'
    BY AlignmentSteps, AlignmentStep, LoaderSteps, LoaderStep, EndStep
  <2>2. RateInv' /\ PlanTypes'
    BY RateSteps, RateStep, PlanStep
  <2>3. StoreInv' /\ StoreBounds'
    BY FrameSteps, StoreStep, BoundsStep
  <2>4. BackoffInv' /\ DraftTypes' /\ Told'
    BY BackoffSteps, BackoffStep, DraftsSteps, DraftsStep
  <2> QED BY <2>1, <2>2, <2>3, <2>4
<1>3. Typed /\ TypeOK => TypesOK
  <2> SUFFICES ASSUME Typed, TypeOK PROVE TypesOK
    OBVIOUS
  <2>1. Backoff!TypeOK /\ Ipolar!TypeOK
    BY BackoffTyped, StoreTyped
  <2>2. Loader!TypeOK
    BY LoaderTyped DEF LoaderInv
  <2>3. Alignment!TypeOK
    BY DEF AlignmentInv
  <2>4. Rate!TypeOK
    BY DEF RateInv, RateTypes, PlanTypes, Rate!TypeOK
  <2>5. Drafts!TypeOK
    BY DEF DraftTypes, DraftType, Plans, Drafts!TypeOK
  <2> QED BY <2>1, <2>2, <2>3, <2>4, <2>5 DEF TypesOK
<1> HIDE DEF Typed
<1>4. PartsSpec => []Typed
  BY <1>1, <1>2, PTL DEF PartsSpec
<1>5. PartsSpec => []TypeOK
  BY JogIsJog, TypeCorrect, PTL
<1> QED BY <1>3, <1>4, <1>5, PTL
=============================================================================
