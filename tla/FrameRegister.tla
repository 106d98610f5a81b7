--------------------------- MODULE FrameRegister ---------------------------
(***************************************************************************)
(* What the iPolar frame store promises its readers: a register that holds *)
(* the latest frame of the camera session, and leases of it. Whatever      *)
(* happens to the register, the frame a reader has leased stays the frame  *)
(* it leased, and it is told apart from the frames of a later session.     *)
(***************************************************************************)
CONSTANTS Frames,   \* the frames a camera may deliver
          Readers,
          NoFrame

VARIABLES latest,   \* the frame a reader would get, or NoFrame
          held,     \* per reader: the frame it has leased, or NoFrame
          current   \* per reader: whether that frame is of this session

vars == <<latest, held, current>>

Init ==
    /\ latest = NoFrame
    /\ held = [r \in Readers |-> NoFrame]
    /\ current = [r \in Readers |-> FALSE]

Publish ==
    /\ latest' \in Frames \ {latest}
    /\ UNCHANGED <<held, current>>

Acquire(r) ==
    /\ held[r] = NoFrame /\ latest # NoFrame
    /\ held' = [held EXCEPT ![r] = latest]
    /\ current' = [current EXCEPT ![r] = TRUE]
    /\ UNCHANGED latest

Release(r) ==
    /\ held[r] # NoFrame
    /\ held' = [held EXCEPT ![r] = NoFrame]
    /\ current' = [current EXCEPT ![r] = FALSE]
    /\ UNCHANGED latest

\* The session ends: its frame is not handed out again, and those still
\* leased are of the past.
EndSession ==
    /\ latest' = NoFrame
    /\ current' = [r \in Readers |-> FALSE]
    /\ UNCHANGED held

Next == Publish \/ EndSession \/ \E r \in Readers : Acquire(r) \/ Release(r)

Spec == Init /\ [][Next]_vars
============================================================================
