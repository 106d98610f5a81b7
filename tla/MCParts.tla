------------------------------ MODULE MCParts ------------------------------
(***************************************************************************)
(* A small instance of Parts for TLC.                                      *)
(***************************************************************************)
EXTENDS Parts, MCPolarisJog

\* 0, 5, 10, 30 and 60 seconds, in units of five seconds.
BackoffDelays == [c \in 0..4 |-> CASE c = 0 -> 0 [] c = 1 -> 1 [] c = 2 -> 2
                                   [] c = 3 -> 6 [] c = 4 -> 12]

\* Both sides of every end of a ladder, zero, the holds, and the envelope.
PlannedRates == {-2403, -2402, -1000, -119, -59, -42, 0, 1, 60, 119, 120, 179, 300, 1200, 2401}
PlannedRequests == [{1, 2} -> [target : PlannedRates, hold : BOOLEAN]]
SlewRates == {-200, 0, 42, 119}
\* With one pose: that a point is the one flown to is not looked at here.
OnePose == {"here"}
ThreeSlots == 0..2
ThreeReaders == 1..3
=============================================================================
