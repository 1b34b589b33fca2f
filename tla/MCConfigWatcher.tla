-------------------------- MODULE MCConfigWatcher --------------------------
(***************************************************************************)
(* Model checking of ConfigWatcher: two directories, three contents.       *)
(***************************************************************************)
EXTENDS ConfigWatcher
=============================================================================
