------------------------------ MODULE MCSources ------------------------------
(***************************************************************************)
(* Model checking of Sources: two connectors, two windows, two infos.      *)
(***************************************************************************)
EXTENDS Sources

CONSTANTS i1, i2, a1, a2

MCAppOf == (i1 :> a1) @@ (i2 :> a2)
\* Renaming both infos and their applications at once is a symmetry too.
MCSymmetry ==
    Permutations(Connectors) \cup Permutations(Windows) \cup Permutations(Modes)
        \cup {(i1 :> i2) @@ (i2 :> i1) @@ (a1 :> a2) @@ (a2 :> a1)}
=============================================================================
