---------------------------- MODULE MCFlaskAuth -----------------------------
(* A finite instance of FlaskAuth. *)
EXTENDS FlaskAuth, TLC

CONSTANTS old, new      \* key ids

\* A provider that at times serves a document without a usable key.
OldOnly == {{}, {old}}

NoOverrides == {}
OverrideNew == {{new}}

\* The start page does not ask for a login.
Start == {[path |-> <<"start">>, json |-> FALSE]}
Pages == Start \cup {[path |-> <<"scans">>, json |-> FALSE],
                     [path |-> <<"api", "me">>, json |-> FALSE]}

\* The locals of a call that is over matter only while the answer it led to is
\* the last one of its browser.
Matters(c) ==
    \/ ~Idle(c)
    \/ c \in Browsers /\ nav[c].status \in {"user", "unauthorized", "redirect"}

WithoutResidue ==
    <<storeVars, worldVars, inflight_sync, flaskVars,
      [c \in Callers |-> IF Matters(c) THEN call[c] ELSE NoCall]>>

=============================================================================
