------------------------------- MODULE Parts -------------------------------
(***************************************************************************)
(* Components that share no state with one another, side by side: a        *)
(* behaviour is about one of them and the others keep their first state.   *)
(* The jog is the one this module extends; Services has those whose        *)
(* properties need fairness.                                               *)
(***************************************************************************)
EXTENDS PolarisJog, FiniteSets

CONSTANTS
  Delays, Stable, MaxDown,                 \* of LaunchBackoff
  RateAxes, Targets, Requests,             \* of RateControl
  Slots, Readers, MaxFrames, MaxSessions, MaxInits,  \* of IpolarFrames
  Poses, MaxPoints, DraftCap               \* of ProgramDrafts

\* Five delays that grow, none beyond Stable. What a launch that was not reset
\* waits, with the four waits before it, is no shorter than Stable.
ASSUME BackoffAssumption ==
  /\ Delays \in [0..4 -> Nat] /\ {Stable, MaxDown} \subseteq Nat \ {0}
  /\ \A c \in 1..4 : Delays[c - 1] <= Delays[c]
  /\ Delays[4] <= Stable
  /\ Stable <= Delays[1] + Delays[2] + Delays[3] + Delays[4] + Delays[4]

\* A caller asks for whole units of rate, of any axes.
ASSUME RateAssumption ==
  /\ Targets \subseteq Int
  /\ \A r \in Requests : \A a \in DOMAIN r : r[a].target \in Int /\ r[a].hold \in BOOLEAN

ASSUME DraftsAssumption == {MaxPoints, DraftCap} \subseteq Nat

ASSUME StoreAssumption ==
  /\ Slots \subseteq Nat /\ 0 \in Slots /\ IsFiniteSet(Readers)
  /\ {MaxFrames, MaxInits} \subseteq Nat /\ MaxSessions \in Nat \ {0}

Components == {"jog", "backoff", "rate", "frames", "loader", "alignment", "drafts"}

VARIABLES part,
  launchPhase, known, count, age, left, down, life, starts, clockSet,
  plan, active, since, phase, stopSent, moving, silent,
  ctx, devh, streaming, ready, build, content, refs, published, session, frames, view, wiped,
  site, at, page, slot, core, capture, owner, asserted, ended, reply,
  track, log, memory, file, readAt, ungated,
  upload, linkStatus, points, lastPose, running, queue, pose, draft, does, meant

Backoff == INSTANCE LaunchBackoff WITH phase <- launchPhase

Rate == INSTANCE RateControl WITH Axes <- RateAxes

Ipolar == INSTANCE IpolarFrames

Loader == INSTANCE StageTwoLoader
Alignment == INSTANCE MountAlignment

Drafts == INSTANCE ProgramDrafts WITH
  TxCap <- DraftCap,
  kind <- upload, status <- linkStatus, slot <- lastPose, active <- running, tx <- queue

backoffVars == <<launchPhase, known, count, age, left, down, life, starts, clockSet>>
rateVars == <<plan, active, since, phase, stopSent, moving, silent>>
frameVars == <<ctx, devh, streaming, ready, build, content, refs, published, session, frames,
               view, wiped>>
loaderVars == <<site, at, page, slot, core, capture, owner, asserted, ended, reply>>
alignmentVars == <<track, log, memory, file, readAt, ungated>>
draftVars == <<upload, linkStatus, points, lastPose, running, queue, pose, draft, does, meant>>

SomeSite == CHOOSE s \in Loader!Sites : TRUE

PartsInit ==
  /\ part \in Components
  /\ Init /\ Backoff!Init /\ Rate!Init /\ Ipolar!Init
  /\ Loader!Init /\ (part # "loader" => site = SomeSite)
  /\ Alignment!Init
  /\ Drafts!Init /\ (part # "drafts" => upload = "plc")

OnlyPart(p) ==
  /\ part = p /\ UNCHANGED part
  /\ p # "jog" => UNCHANGED vars
  /\ p # "backoff" => UNCHANGED backoffVars
  /\ p # "rate" => UNCHANGED rateVars
  /\ p # "frames" => UNCHANGED frameVars
  /\ p # "loader" => UNCHANGED loaderVars
  /\ p # "alignment" => UNCHANGED alignmentVars
  /\ p # "drafts" => UNCHANGED draftVars

PartsNext ==
  \/ OnlyPart("jog") /\ Next
  \/ OnlyPart("backoff") /\ Backoff!Next
  \/ OnlyPart("rate") /\ Rate!Next
  \/ OnlyPart("frames") /\ Ipolar!Next
  \/ OnlyPart("loader") /\ Loader!Next
  \/ OnlyPart("alignment") /\ Alignment!Next
  \/ OnlyPart("drafts") /\ Drafts!Next

partsVars == <<part, vars, backoffVars, rateVars, frameVars, loaderVars, alignmentVars,
  draftVars>>

PartsSpec == PartsInit /\ [][PartsNext]_partsVars

-----------------------------------------------------------------------------
(* Every variable of every component keeps its type. *)
TypesOK ==
  /\ TypeOK /\ Backoff!TypeOK /\ Rate!TypeOK /\ Ipolar!TypeOK /\ Loader!TypeOK
  /\ Alignment!TypeOK /\ Drafts!TypeOK

\* The properties of the components, each stated in its module. The planner
\* keeps nothing, so it is looked at before the first plan only.
StartsBounded == Backoff!StartsBounded
PlanSound == part = "rate" /\ plan = Rate!NoPlan /\ phase = 0 => Rate!PlanSound
HeadFollows == Rate!HeadFollows
DwellKept == Rate!DwellKept
ImplementsRegister == Ipolar!ImplementsRegister
FailsClosed == Loader!FailsClosed
ConfigSafe == Loader!ConfigSafe
NoReadUnaligned == Alignment!NoReadUnaligned
HeadHasUploads == Drafts!HeadHasUploads
=============================================================================
