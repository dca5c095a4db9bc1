-------------------------- MODULE MCUserinfoAsync --------------------------
(* Finite instances of UserinfoAsync. *)
EXTENDS UserinfoAsync, TLC

CONSTANTS ann, a1, a2

\* One user, with two access tokens or one.
OwnerOfTwo == (a1 :> ann) @@ (a2 :> ann)
OwnerOfOne == a1 :> ann

NoClosers == {}

Interchangeable == Permutations(Callers) \cup Permutations(Clients)
=============================================================================
