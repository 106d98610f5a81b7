--------------------------- MODULE MountAlignment ---------------------------
(***************************************************************************)
(* What polaris-httpd knows of the head's alignment, and the gate that     *)
(* keeps position reads away from a head that is not aligned, beside the   *)
(* slews and syncs that read the position without it. The alignment is     *)
(* learned without asking: from the last 284 line of a log the device      *)
(* truncates, from what each process remembers (an LX200 or INDI session   *)
(* is forked with the server's memory), and from a file.                   *)
(***************************************************************************)
VARIABLES track,       \* the head: "3" unaligned, "0" aligned, "1" tracking
          log,         \* the last 284 line the log still holds, or "none"
          memory,      \* per process: g_last_track, or "none"
          file,        \* TRACK_FILE, or "none"
          readAt,      \* the head's track when the gate last let a read pass
          ungated      \* and when a position was last read without the gate

vars == <<track, log, memory, file, readAt, ungated>>

Tracks == {"0", "1", "3"}
Seen == Tracks \cup {"none"}
Processes == {"web", "lx200", "indi"}    \* the server and its two sessions

Init ==
    /\ track = "3" /\ log = "none" /\ file = "none" /\ readAt = "none"
    /\ ungated = "none"
    /\ memory = [p \in Processes |-> "none"]

TypeOK ==
    /\ track \in Tracks /\ log \in Seen /\ file \in Seen /\ readAt \in Seen
    /\ ungated \in Seen
    /\ memory \in [Processes -> Seen]

----------------------------------------------------------------------------

\* alignment_state: the log when it shows a 284, else what was last seen.
Known(p) == IF log # "none" THEN log ELSE memory[p]
\* (defect) an unknown alignment is taken for a good one
MayReadUnlessUnaligned(p) == Known(p) # "3"
MayRead(p) == Known(p) \in {"0", "1"}

\* note_track: remembered, and written down when it is news to the process.
Note(p) ==
    /\ memory' = [memory EXCEPT ![p] = Known(p)]
    /\ file' = IF log # "none" /\ log # memory[p] THEN log ELSE file

\* A handler that asks the gate, and leaves the head alone whatever it says.
Gate == Note("web") /\ UNCHANGED <<track, log, readAt, ungated>>

State == Gate            \* /api/state notes the log, whatever was asked for
GuideGate == Gate        \* /api/guide on=1, once something is solved
KeepWifiGate == Gate     \* /api/keepwifi reports whether the head is aligned

\* The head's position (518) is asked for if the gate is open; otherwise the
\* answer is the last solve, or a refusal. A cached pose counts as asked.
Position(p) ==
    /\ Note(p)
    /\ readAt' = IF MayRead(p) THEN track ELSE readAt
    /\ UNCHANGED <<track, log, ungated>>

GotoGate == Position("web")            \* /api/astro/goto: the pose comes first
ApplyGate == Position("web")           \* /api/apply: "align" asks for the pose
AlpacaHorizontal == Position("web")    \* altitude, azimuth
AlpacaEquatorial == Position("web")    \* rightascension, declination
Lx200Position == Position("lx200")     \* :GR#, :GD#
IndiDefine == Position("indi")         \* getProperties
IndiPush == Position("indi")           \* after a sync or an abort, and at 1 Hz
IndiSettled == Position("indi")        \* is the slew near its target yet

\* /api/state?mount=1: polaris-mount state writes the file, the server notes it.
StateOfMount ==
    /\ MayRead("web")
    /\ readAt' = track /\ file' = track
    /\ memory' = [memory EXCEPT !["web"] = track]
    /\ UNCHANGED <<track, log, ungated>>

\* What goes through polaris-mount without asking the gate: its goto-radec reads
\* the pose first, for the safety check, its align to find the error, and a
\* solve for its hint. None of them notes anything.
ReadUngated == ungated' = track /\ UNCHANGED <<track, log, memory, file, readAt>>

AlpacaSlew == ReadUngated      \* slewtocoordinates, slewtotarget, both async too
Lx200Slew == ReadUngated       \* :MS#
Lx200Sync == ReadUngated       \* :CM#
IndiSlew == ReadUngated        \* a target under SLEW or TRACK
IndiSync == ReadUngated        \* a target under SYNC
SolveHint == ReadUngated       \* a solve, for its hint, and when it applies

\* polaris-trackwatch.sh follows the log, and writes the file when it differs.
TrackWatch ==
    /\ log \notin {"none", file}
    /\ file' = log
    /\ UNCHANGED <<track, log, memory, readAt, ungated>>

\* A planetarium connects: its session is forked with the server's memory.
Fork(p) ==
    /\ p # "web"
    /\ memory' = [memory EXCEPT ![p] = memory["web"]]
    /\ UNCHANGED <<track, log, file, readAt, ungated>>

\* The server is restarted: load_track.
Restart ==
    /\ memory' = [memory EXCEPT !["web"] = file]
    /\ UNCHANGED <<track, log, file, readAt, ungated>>

\* An Alpaca sync sends the 530 pair, which aligns both axes.
Sync ==
    /\ track = "3" /\ track' = "0"
    /\ UNCHANGED <<log, memory, file, readAt, ungated>>

----------------------------------------------------------------------------
(* The head, the app and the log (external). A power cycle empties the log *)
(* and /tmp, and the alignment does not survive it.                        *)

Align == track = "3" /\ track' = "0" /\ UNCHANGED <<log, memory, file, readAt, ungated>>
Track == track # "3" /\ track' \in {"0", "1"} /\ UNCHANGED <<log, memory, file, readAt, ungated>>
Log284 == log' = track /\ UNCHANGED <<track, memory, file, readAt, ungated>>
Truncate == log' = "none" /\ UNCHANGED <<track, memory, file, readAt, ungated>>
Reboot ==
    /\ track' = "3" /\ log' = "none" /\ file' = "none" /\ readAt' = "none"
    /\ ungated' = "none"
    /\ memory' = [p \in Processes |-> "none"]

Next ==
    \/ AlpacaHorizontal \/ AlpacaEquatorial \/ Lx200Position
    \/ IndiDefine \/ IndiPush \/ IndiSettled
    \/ GotoGate \/ ApplyGate \/ GuideGate \/ KeepWifiGate
    \/ AlpacaSlew \/ Lx200Slew \/ Lx200Sync \/ IndiSlew \/ IndiSync \/ SolveHint
    \/ State \/ StateOfMount \/ TrackWatch \/ Restart \/ Sync
    \/ \E p \in Processes : Fork(p)
    \/ Align \/ Track \/ Log284 \/ Truncate \/ Reboot

Spec == Init /\ [][Next]_vars

----------------------------------------------------------------------------

(* A position read that asks the gate reaches the head only when it really *)
(* is aligned, through log truncations, restarts of the server and         *)
(* sessions forked long ago: reading an unaligned head makes the Benro app *)
(* ask for a compass calibration. Unknown means no. The slews and syncs of *)
(* Alpaca, LX200 and INDI do not ask: see NeverReadUnaligned.              *)
NoReadUnaligned == readAt # "3"

(* "Mount untouched while unaligned: 0 connections measured" (ASTRO.md).   *)
(* No run has it: the first slew of a planetarium refutes it.              *)
NeverReadUnaligned == readAt # "3" /\ ungated # "3"

=============================================================================
