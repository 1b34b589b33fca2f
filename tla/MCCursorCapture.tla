--------------------------- MODULE MCCursorCapture ---------------------------
(***************************************************************************)
(* Model checking of CursorCapture: two pictures of different sizes.       *)
(***************************************************************************)
EXTENDS CursorCapture

CONSTANTS p1, p2, small, large

\* Which picture comes first makes no difference.
MCInit == Init /\ picture = p1
MCFairSpec == MCInit /\ [][Next]_vars /\ Fairness

MCSizeOf == (p1 :> small) @@ (p2 :> large)
=============================================================================
