------------------------------- MODULE MCLRU -------------------------------
(* A finite instance of JWKSLRU. *)
EXTENDS JWKSLRU, TLC

CONSTANT k1

AnyDocument == {{k1}}
NoOverrides == {}
=============================================================================
