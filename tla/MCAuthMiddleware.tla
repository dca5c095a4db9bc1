-------------------------- MODULE MCAuthMiddleware --------------------------
(* A finite instance of AuthMiddleware. *)
EXTENDS AuthMiddleware, TLC

CONSTANTS old, new      \* key ids

\* A provider that keeps old, and adds and withdraws new.
NewComesAndGoes == {{old}, {old, new}}

NoOverrides == {}

\* "/view/" is public, so that "/view/7" is and "/viewers" is not.
Views == {<<"view", "">>}
Pages == {[path |-> <<"view", "7">>, json |-> FALSE],
          [path |-> <<"viewers">>, json |-> FALSE],
          [path |-> <<"api", "me">>, json |-> FALSE]}

\* No action reads the locals of a call that is over.  The properties read some
\* of them while the answer that the call led to is the last one of its browser:
\* when the call began, or whether it had something to fall back on.
Residue(c) ==
    CASE c \notin Browsers           -> <<>>
      [] nav[c].status = "user"      -> <<call[c].out, call[c].now>>
      [] nav[c].status = "unauthorized" ->
            <<call[c].out, Servable(call[c].entry, call[c].now)>>
      [] OTHER                       -> <<>>

\* No action reads the last answer, and the properties tell apart these.
Shown(c) == IF nav[c].status \in {"user", "unauthorized"} THEN nav[c].status ELSE "none"

\* States that differ in other locals and answers only are the same.
WithoutResidue ==
    <<storeVars, worldVars, inflight_async, jar, last_offered, bare_returns,
      [c \in Browsers |-> [nav[c] EXCEPT !.status = Shown(c)]],
      {c \in Callers : Idle(c)},
      [c \in Callers |-> IF Idle(c) THEN Residue(c) ELSE <<call[c]>>]>>

=============================================================================
