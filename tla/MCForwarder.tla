---------------------------- MODULE MCForwarder -----------------------------
(* A finite instance of Forwarder. *)
EXTENDS Forwarder

CONSTANTS
    sold, ended, broken,        \* events
    t1                          \* the first token

\* The second update says nothing of the customer.
Updates ==
    [e \in Events |->
        [f \in Fields |-> IF f = "customer" /\ e # sold THEN None ELSE e]]

=============================================================================
