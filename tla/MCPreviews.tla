----------------------------- MODULE MCPreviews -----------------------------
(***************************************************************************)
(* Model checking of Previews: three cards.                                *)
(***************************************************************************)
EXTENDS Previews
=============================================================================
