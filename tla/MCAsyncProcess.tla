--------------------------- MODULE MCAsyncProcess ---------------------------
(***************************************************************************)
(* Model checking of AsyncProcess: input and output larger than the pipes. *)
(***************************************************************************)
EXTENDS AsyncProcess
=============================================================================
