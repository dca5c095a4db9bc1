------------------------------ MODULE MCSync -------------------------------
(* Finite instances of JWKSSync. *)
EXTENDS JWKSSync, TLC

CONSTANTS old, new      \* key ids

\* A provider whose usable documents hold old only.
OldOnly == {{}, {old}}

NoOverrides == {}
OverrideNew == {{new}}

Interchangeable == Permutations(Callers)
=============================================================================
