----------------------------- MODULE MCCutover ------------------------------
(* A finite instance of Cutover. *)
EXTENDS Cutover

CONSTANTS u1, u2

\* A user without a scan, and one whose counter has lost its date.
Undated == {[u \in Users |-> IF u = u1 THEN [dated |-> TRUE, count |-> None]
                             ELSE [dated |-> FALSE, count |-> 1]]}

=============================================================================
