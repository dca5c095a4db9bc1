------------------------------ MODULE MCAsync ------------------------------
(* Finite instances of JWKSAsync. *)
EXTENDS JWKSAsync

CONSTANTS old, new      \* key ids

\* A provider whose documents always hold old, and that at times serves a
\* document without a usable key.
StableOld == {{}, {old}, {old, new}}

OverrideNew == {{new}}
=============================================================================
