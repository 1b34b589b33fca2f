---------------------------- MODULE MCStreamPump ----------------------------
(***************************************************************************)
(* Model checking of StreamPump: two buffer addresses, two sizes.          *)
(***************************************************************************)
EXTENDS StreamPump
=============================================================================
