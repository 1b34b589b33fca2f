------------------------------- MODULE MCLoop -------------------------------
(***************************************************************************)
(* Model checking of Loop: three descriptor numbers, four registrations,   *)
(* so that numbers are used again while others are watched.                *)
(***************************************************************************)
EXTENDS Loop
=============================================================================
