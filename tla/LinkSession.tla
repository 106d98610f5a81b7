---------------------------- MODULE LinkSession ----------------------------
(***************************************************************************)
(* What the users of polaris-link may rely on (the jog, the programs, the  *)
(* astro session, the telemetry poll): a link goes DOWN -> CONNECTING ->   *)
(* UP, a command is accepted only by a link that is UP, and what one       *)
(* session accepted and did not write is forgotten when the session ends,  *)
(* never written in another.                                               *)
(***************************************************************************)
VARIABLES status,   \* plink_status()
          waiting   \* some command is accepted and not yet written
vars == <<status, waiting>>

Init == status = "DOWN" /\ waiting = FALSE

Connect == status = "DOWN" /\ status' = "CONNECTING" /\ ~waiting /\ UNCHANGED waiting
Establish == status = "CONNECTING" /\ status' = "UP" /\ ~waiting /\ UNCHANGED waiting
Accept == status = "UP" /\ waiting' \in BOOLEAN /\ UNCHANGED status
Write == status = "UP" /\ waiting /\ waiting' \in BOOLEAN /\ UNCHANGED status
End == status' = "DOWN" /\ waiting' = FALSE

Next == Connect \/ Establish \/ Accept \/ Write \/ End

Spec == Init /\ [][Next]_vars
=============================================================================
