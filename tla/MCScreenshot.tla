---------------------------- MODULE MCScreenshot ----------------------------
(***************************************************************************)
(* Model checking of Screenshot: two calls, so that captures overlap.      *)
(***************************************************************************)
EXTENDS Screenshot
=============================================================================
