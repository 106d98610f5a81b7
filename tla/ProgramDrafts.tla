--------------------------- MODULE ProgramDrafts ---------------------------
(***************************************************************************)
(* What polaris-prog uploads piece by piece: the timeline of a free        *)
(* programme (283), the waypoints of a path-lapse (272) and the exposure   *)
(* ramp of holy grail (305). The points are flown to by hand and kept in   *)
(* the server between requests; a pose is the last 517 the head answered.  *)
(*                                                                         *)
(* An upload is a batch of frames handed to plink_send one by one, within  *)
(* one request. Any of them may be the one at which the link breaks, or    *)
(* may find no room in its buffer. The three stores share nothing but the  *)
(* link, so a behaviour is about one of them. Left out: the photo track    *)
(* and the appointment, frames like the others; and a list whose times or  *)
(* counts the checks refuse, which is as good as one not started.          *)
(***************************************************************************)
EXTENDS Naturals, Sequences, SequencesExt

CONSTANTS Poses,       \* where the head may be flown to
          MaxPoints,   \* PLC_MAX_KEYS, PATHLAPSE_MAX_WP
          TxCap        \* frames the buffer of the link holds

VARIABLES kind,        \* "plc", "pathlapse" or "grail"
          status,      \* plink_status()
          points,      \* g_keys or g_wp
          slot,        \* plink_get(517): a pose, or "none"; outlives the link
          active,      \* g.kind is the kind; g_grail_on
          tx,          \* frames accepted by plink_send and not read by the head
          pose,        \* the head: where it points
          draft,       \* the head: the points sent since the first step, by number
          does,        \* the head: the points it plays, or <<"ramp">>, or <<>>
          meant        \* history: what it should be doing, "unsure" once some was lost

vars == <<kind, status, points, slot, active, tx, pose, draft, does, meant>>
headVars == <<draft, does>>

Kinds == {"plc", "pathlapse", "grail"}
None == "none"
Unsure == <<"unsure">>
Ramping == <<"ramp">>
Blank == [i \in 1..MaxPoints |-> None]

Init ==
    /\ kind \in Kinds /\ status = "DOWN"
    /\ points = <<>> /\ slot = None /\ active = FALSE /\ tx = <<>>
    /\ pose \in Poses /\ draft = Blank /\ does = <<>> /\ meant = <<>>

TypeOK ==
    /\ kind \in Kinds /\ status \in {"UP", "DOWN"} /\ active \in BOOLEAN
    /\ points \in Seq(Poses) /\ Len(points) <= MaxPoints
    /\ slot \in Poses \cup {None} /\ pose \in Poses
    /\ Len(tx) <= TxCap
    /\ draft \in [1..MaxPoints -> Poses \cup {None}]
    /\ \A plan \in {does, meant} : plan \in Seq(Poses \cup {None}) \cup {Ramping, Unsure}

----------------------------------------------------------------------------
(* The head (external). A point carries its number, the last step how many  *)
(* there are: it then plays those it has.                                   *)

Frame(step, nr, at) == [step |-> step, nr |-> nr, at |-> at]
Single(step) == Frame(step, 0, None)

\* What decides the point under number i of the draft, and what the head plays.
Writes(f, i) == f.step \in {"open", "close"} \/ (f.step = "point" /\ f.nr = i)
Decides(f) == f.step \in {"close", "on", "off", "cancel"}
LastOf(places) == Max({0} \cup places)

\* A head with draft d that plays p, once it has read the first n of these frames,
\* one after the other.
DraftAfter(d, frames, n) ==
    [i \in 1..MaxPoints |->
        LET k == LastOf({j \in 1..n : Writes(frames[j], i)})
        IN  IF k = 0 THEN d[i] ELSE IF frames[k].step = "point" THEN frames[k].at ELSE None]
DoesAfter(d, p, frames, n) ==
    LET k == LastOf({j \in 1..n : Decides(frames[j])})
    IN  CASE k = 0 -> p
          [] k # 0 /\ frames[k].step = "close" -> SubSeq(DraftAfter(d, frames, k - 1), 1, frames[k].nr)
          [] k # 0 /\ frames[k].step = "on" -> Ramping
          [] k # 0 /\ frames[k].step \in {"off", "cancel"} -> <<>>

Reads(frames, n) ==
    draft' = DraftAfter(draft, frames, n) /\ does' = DoesAfter(draft, does, frames, n)

----------------------------------------------------------------------------
(* One request hands a batch of frames to the link, so that the head comes *)
(* to do what the plan says.                                               *)

Accepted(batch, plan) ==
    /\ Len(tx) + Len(batch) <= TxCap
    /\ tx' = tx \o batch /\ meant' = plan
    /\ UNCHANGED <<status, headVars>>

\* A write fails: the connection is closed, and the rest is refused. The head
\* has read some of what was written before.
Broken(batch) ==
    /\ status' = "DOWN" /\ tx' = <<>> /\ meant' = Unsure
    /\ \E n \in 0..(Len(tx) + Len(batch) - 1) : Reads(tx \o batch, n)

\* Some of it does not fit; shorter frames after that may.
Holed(batch) ==
    /\ Len(tx) + Len(batch) > TxCap
    /\ \E first, last \in 1..Len(batch) :
          /\ first <= last
          /\ tx' = tx \o SubSeq(batch, 1, first - 1) \o SubSeq(batch, last + 1, Len(batch))
          /\ Len(tx') <= TxCap
    /\ meant' = Unsure
    /\ UNCHANGED <<status, headVars>>

\* ... but not for holy grail, which stops at the first frame refused.
CutShort(batch) ==
    /\ Len(tx) + Len(batch) > TxCap
    /\ tx' = tx \o SubSeq(batch, 1, TxCap - Len(tx)) /\ meant' = Unsure
    /\ UNCHANGED <<status, headVars>>

----------------------------------------------------------------------------
(* Free programme and path-lapse.                                          *)

\* (defect) one point more than the array holds
RecordOneMore ==
    /\ Len(points) <= MaxPoints /\ slot # None
    /\ points' = Append(points, slot)
    /\ UNCHANGED <<kind, status, slot, active, tx, pose, headVars, meant>>
\* Whatever 517 said last is the pose, however long ago, link or no link.
Record ==
    /\ Len(points) < MaxPoints /\ slot # None
    /\ points' = Append(points, slot)
    /\ UNCHANGED <<kind, status, slot, active, tx, pose, headVars, meant>>
AddKey == kind = "plc" /\ Record
AddWaypoint == kind = "pathlapse" /\ Record

Clear ==
    /\ kind # "grail" /\ points' = <<>>
    /\ UNCHANGED <<kind, status, slot, active, tx, pose, headVars, meant>>

\* prog_check_plc, prog_check_pathlapse
Checked == Len(points) >= 2

\* (defect) the last step counts from 0
UploadCountedShort ==
    <<Single("open")>>
      \o [i \in 1..Len(points) |-> Frame("point", i, points[i])]
      \o <<Frame("close", Len(points) - 1, None)>>
Upload ==
    <<Single("open")>>
      \o [i \in 1..Len(points) |-> Frame("point", i, points[i])]
      \o <<Frame("close", Len(points), None)>>

\* What plink_send answers is not looked at: the run is recorded all the same.
Start ==
    /\ Checked /\ status = "UP" /\ ~active
    /\ Accepted(Upload, points) \/ Broken(Upload) \/ Holed(Upload)
    /\ active' = TRUE
    /\ UNCHANGED <<kind, points, slot, pose>>
StartPlc == kind = "plc" /\ Start
StartPathlapse == kind = "pathlapse" /\ Start

\* The run is forgotten also when the order cannot be sent.
Cancel ==
    /\ kind # "grail" /\ active
    /\ LET order == <<Single("cancel")>>
       IN  IF status = "UP" THEN Accepted(order, <<>>) \/ Broken(order) \/ CutShort(order)
           ELSE meant' = Unsure /\ UNCHANGED <<status, tx, headVars>>
    /\ active' = FALSE
    /\ UNCHANGED <<kind, points, slot, pose>>

\* prog_tick: the link went down, or the head is done (PolarisProgram has how).
Tick ==
    /\ kind # "grail" /\ active /\ active' = FALSE
    /\ \/ status = "DOWN" /\ meant' = Unsure
       \/ status = "UP" /\ tx = <<>> /\ does = <<>> /\ meant' = <<>>
    /\ UNCHANGED <<kind, status, points, slot, tx, pose, headVars>>

----------------------------------------------------------------------------
(* Holy grail: no run, and the answers of the link are looked at.          *)

GrailSend(batch, on) ==
    /\ kind = "grail" /\ status = "UP"
    /\ \/ Accepted(batch, IF on THEN Ramping ELSE <<>>) /\ active' = on
       \/ (Broken(batch) \/ CutShort(batch)) /\ UNCHANGED active
    /\ UNCHANGED <<kind, points, slot, pose>>

Ramp(on) == <<Single(IF on THEN "on" ELSE "off"), Single("curve")>>

GrailApply(on) == GrailSend(Ramp(on), on)
GrailDisable == GrailSend(<<Single("off")>>, FALSE)

----------------------------------------------------------------------------
(* The link, the telemetry and the head.                                   *)

LinkUp ==
    /\ status = "DOWN" /\ status' = "UP"
    /\ UNCHANGED <<kind, points, slot, active, tx, pose, headVars, meant>>

LinkDown ==
    /\ status = "UP" /\ status' = "DOWN"
    /\ \E n \in 0..Len(tx) : Reads(tx, n)
    /\ tx' = <<>> /\ meant' = IF tx = <<>> THEN meant ELSE Unsure
    /\ UNCHANGED <<kind, points, slot, active, pose>>

\* telemetry_poll: 517 is asked for every five seconds, and answered.
Telemetry ==
    /\ kind # "grail" /\ status = "UP" /\ slot' = pose
    /\ UNCHANGED <<kind, status, points, active, tx, pose, headVars, meant>>

HeadReads ==
    /\ tx # <<>> /\ Reads(tx, 1) /\ tx' = Tail(tx)
    /\ UNCHANGED <<kind, status, points, slot, active, pose, meant>>

Fly ==
    /\ kind # "grail" /\ pose' \in Poses \ {pose}
    /\ UNCHANGED <<kind, status, points, slot, active, tx, headVars, meant>>

\* The head has played it to the end. The server is told later.
Played ==
    /\ kind # "grail" /\ tx = <<>> /\ does # <<>> /\ meant # Unsure
    /\ does' = <<>> /\ meant' = <<>>
    /\ UNCHANGED <<kind, status, points, slot, active, tx, pose, draft>>

Next ==
    \/ AddKey \/ AddWaypoint \/ Clear \/ StartPlc \/ StartPathlapse \/ Cancel \/ Tick
    \/ \E on \in BOOLEAN : GrailApply(on)
    \/ GrailDisable
    \/ LinkUp \/ LinkDown \/ Telemetry \/ HeadReads \/ Fly \/ Played

Spec == Init /\ [][Next]_vars

----------------------------------------------------------------------------

(* Once the head has read what is on its way it plays the points that were *)
(* started, in their order and all of them, or ramps as the page shows,    *)
(* unless some of it was lost and has not been sent again since.           *)
HeadHasUploads ==
    meant # Unsure =>
      /\ DoesAfter(draft, does, tx, Len(tx)) = meant
      /\ kind = "grail" => (active <=> meant = Ramping)

(* "Capture the head's CURRENT pose as the next motion keyframe"           *)
(* (polaris-prog.h): the point recorded is where the head is.              *)
PoseIsCurrent == [][Len(points') > Len(points) => Last(points') = pose]_vars

=============================================================================
