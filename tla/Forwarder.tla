----------------------------- MODULE Forwarder ------------------------------
(***************************************************************************)
(* forward_subscription_update: the webhook of cavefinder hands each event *)
(* of Stripe to the identity provider.  Stripe delivers an event again     *)
(* until a delivery has been answered with success, in any order, and also *)
(* while an earlier delivery is still being handled.                       *)
(*                                                                         *)
(*   idle  no delivery    posting  the POST is under way                   *)
(*                        answered  the POST has ended                     *)
(***************************************************************************)
EXTENDS Integers, FiniteSets

CONSTANTS
    Events,         \* stripe_event_id
    Handlers,       \* the threads that run the webhook
    Fields,         \* what the provider keeps of a subscription
    Update,         \* the arguments of each event, None for an optional one
    Malformed,      \* the events that the provider rejects
    Tokens,         \* raw service tokens
    FirstToken,     \* the one that the provider has at first
    MaxRotations,   \* bound on the rotations of the token
    None

ASSUME ForwarderAssumption ==
    /\ Malformed \subseteq Events
    /\ FirstToken \in Tokens
    /\ MaxRotations \in Nat
    /\ None \notin Events \cup Tokens \cup Handlers

VARIABLES
    due,            \* the events that Stripe has no success for
    handler,        \* the local variables of each handler
    token,          \* CAVEID_SERVICE_TOKEN, None when unset
    accepted,       \* the token whose hash the provider has
    rotations,
    processed,      \* the provider's processed_stripe_events
    subscription,   \* the provider's row of the user
    applied         \* history: how often each event was applied to the row

vars == <<due, handler, token, accepted, rotations, processed, subscription, applied>>

provider == <<accepted, rotations, processed, subscription, applied>>

\* How a POST ends: with 2xx and JSON; below 400 without JSON; 401; another
\* 4xx, be it 400, 404 or 429; 5xx; httpx.HTTPError.
Answers == {"ok", "no_json", "unauthorized", "bad_request", "server_error", "unreachable"}

Values == {Update[e][f] : e \in Events, f \in Fields} \cup {None}

ASSUME UpdateAssumption == \A e \in Events : Update[e] \in [Fields -> Values]

\* The payload of the POST: the event id, and the fields it has.
Payload == [id : Events \cup {None}, fields : [Fields -> Values], present : SUBSET Fields]

Local(pc, e, t, p, a) == [pc |-> pc, event |-> e, token |-> t, payload |-> p, answer |-> a]

Free == Local("idle", None, None, None, None)

TypeOK ==
    /\ due \subseteq Events
    /\ handler \in [Handlers ->
            {Free} \cup
            [pc : {"posting"}, event : Events, token : Tokens, payload : Payload,
             answer : {None}] \cup
            [pc : {"answered"}, event : Events, token : {None}, payload : {None},
             answer : Answers]]
    /\ token \in Tokens \cup {None}
    /\ accepted \in Tokens
    /\ rotations \in Nat
    /\ processed \subseteq Events
    /\ subscription \in [Fields -> Values]
    /\ applied \in [Events -> Nat]

Init ==
    /\ due = Events
    /\ handler = [h \in Handlers |-> Free]
    /\ token = None
    /\ accepted = FirstToken
    /\ rotations = 0
    /\ processed = {}
    /\ subscription = [f \in Fields |-> None]
    /\ applied = [e \in Events |-> 0]

-----------------------------------------------------------------------------
(* forward_subscription_update *)

\* Mutants: the payload without the idempotency key; with its None values.
PayloadWithoutId(e) ==
    [id |-> None, fields |-> Update[e],
     present |-> {f \in Fields : Update[e][f] # None}]
PayloadUnstripped(e) == [id |-> e, fields |-> Update[e], present |-> Fields]

PayloadOf(e) ==
    [id |-> e, fields |-> Update[e],
     present |-> {f \in Fields : Update[e][f] # None}]

\* Mutant: the token is not checked before it is sent.
DeliverUnchecked(h, e) ==
    /\ handler[h].pc = "idle"
    /\ e \in due
    /\ handler' = [handler EXCEPT ![h] = Local("posting", e, token, PayloadOf(e), None)]
    /\ UNCHANGED <<due, token, provider>>

Deliver(h, e) ==
    /\ handler[h].pc = "idle"
    /\ e \in due
    /\ token # None
    /\ handler' = [handler EXCEPT ![h] = Local("posting", e, token, PayloadOf(e), None)]
    /\ UNCHANGED <<due, token, provider>>

\* Stripe sees no success: the event stays due.
RaiseUnconfigured(h, e) ==
    /\ handler[h].pc = "idle"
    /\ e \in due
    /\ token = None
    /\ UNCHANGED vars

Raise(h) == handler' = [handler EXCEPT ![h] = Free] /\ UNCHANGED due

\* Mutants: every failure is raised; a 5xx is swallowed.
SwallowsNothing(a)      == a = "ok"
SwallowsServerErrors(a) == a \in {"ok", "bad_request", "server_error"}

\* The answers after which the function returns: a success, and any 4xx but 401,
\* which it takes for the sign of a malformed payload.  It raises IdPForwardError
\* after the others, and resp.json() raises where there is no JSON.
Returns(a) == a \in {"ok", "bad_request"}

Fails(h) ==
    /\ handler[h].pc = "answered"
    /\ ~Returns(handler[h].answer)
    /\ Raise(h)
    /\ UNCHANGED <<token, provider>>

\* Stripe may have given up on the delivery before.
Succeeds(h) ==
    /\ handler[h].pc = "answered"
    /\ Returns(handler[h].answer)
    /\ handler' = [handler EXCEPT ![h] = Free]
    /\ due' \in {due, due \ {handler[h].event}}
    /\ UNCHANGED <<token, provider>>

\* The process ends, and Stripe has no answer.
Crash(h) ==
    /\ handler[h].pc # "idle"
    /\ Raise(h)
    /\ UNCHANGED <<token, provider>>

-----------------------------------------------------------------------------
(* The identity provider, as the forwarder describes it. *)

Answer(h, a) ==
    handler' = [handler EXCEPT ![h] = Local("answered", @.event, None, None, a)]

\* Absence means "don't update".
Updated(p) == [f \in Fields |-> IF f \in p.present THEN p.fields[f] ELSE subscription[f]]

\* A duplicate is accepted silently.
Process(h) ==
    LET e == handler[h].event
        p == handler[h].payload
    IN  IF p.id \in processed
        THEN UNCHANGED <<processed, subscription, applied>>
        ELSE /\ processed' = processed \cup {e}
             /\ subscription' = Updated(p)
             /\ applied' = [applied EXCEPT ![e] = @ + 1]

\* Whatever the provider has done, its response may be lost, or replaced by one
\* of what stands before it: a gateway that fails, times out (408), limits the
\* rate (429) or knows no such route (404).
Disturbed == {"server_error", "unreachable", "no_json", "bad_request"}

Accept(h) ==
    /\ handler[h].pc = "posting"
    /\ handler[h].token = accepted
    /\ handler[h].event \notin Malformed
    /\ Process(h)
    /\ \E a \in {"ok"} \cup Disturbed : Answer(h, a)
    /\ UNCHANGED <<due, token, accepted, rotations>>

RejectToken(h) ==
    /\ handler[h].pc = "posting"
    /\ handler[h].token # accepted
    /\ Answer(h, "unauthorized")
    /\ UNCHANGED <<due, token, provider>>

RejectPayload(h) ==
    /\ handler[h].pc = "posting"
    /\ handler[h].token = accepted
    /\ handler[h].event \in Malformed
    /\ Answer(h, "bad_request")
    /\ UNCHANGED <<due, token, provider>>

NeverArrives(h) ==
    /\ handler[h].pc = "posting"
    /\ \E a \in Disturbed : Answer(h, a)
    /\ UNCHANGED <<due, token, provider>>

Rotate ==
    /\ rotations < MaxRotations
    /\ accepted' \in Tokens \ {accepted}
    /\ rotations' = rotations + 1
    /\ UNCHANGED <<due, handler, token, processed, subscription, applied>>

\* The provider's token is put into the environment.
Configure ==
    /\ token # accepted
    /\ token' = accepted
    /\ UNCHANGED <<due, handler, provider>>

-----------------------------------------------------------------------------
Conclude(h) == Fails(h) \/ Succeeds(h)

Provide(h) == Accept(h) \/ RejectToken(h) \/ RejectPayload(h) \/ NeverArrives(h)

Next ==
    \/ \E h \in Handlers, e \in Events : Deliver(h, e) \/ RaiseUnconfigured(h, e)
    \/ \E h \in Handlers : Conclude(h) \/ Provide(h) \/ Crash(h)
    \/ Rotate \/ Configure

Spec == Init /\ [][Next]_vars

\* The steps of a delivery of e that succeeds.
Delivered(e) == \E h \in Handlers : Deliver(h, e)
Reached(e) ==
    \E h \in Handlers :
        /\ handler[h].event = e
        /\ \/ Accept(h) /\ handler'[h].answer = "ok"
           \/ RejectPayload(h)
Settled(e) ==
    \E h \in Handlers : handler[h].event = e /\ Succeeds(h) /\ due' = due \ {e}

\* The operator configures the token, and no delivery hangs.  Stripe delivers an
\* event as long as it is due, and not all its deliveries break on the way.
FairSpec ==
    /\ Spec
    /\ WF_vars(Configure)
    /\ \A h \in Handlers : WF_vars(Conclude(h) \/ Provide(h))
    /\ \A e \in Events :
          SF_vars(Delivered(e)) /\ SF_vars(Reached(e)) /\ SF_vars(Settled(e))

-----------------------------------------------------------------------------
(* Properties. *)

\* Stripe is told of a success only when the provider has processed the event,
\* or by a delivery that was itself answered with a 4xx other than 401: that
\* update is dropped, whether or not its payload was malformed.  No outage, lost
\* response, rotation, crash or overlapping delivery drops another one.
NothingDropped ==
    [][\A e \in due \ due' :
          \/ e \in processed
          \/ \E h \in Handlers : /\ handler[h].event = e
                               /\ handler[h].answer = "bad_request"
                               /\ handler'[h] = Free]_vars

\* "without it, a Stripe webhook retry would double-bill or double-grant": no
\* event is applied twice, however often it is delivered.
AppliedOnce == \A e \in Events : applied[e] <= 1

\* An update leaves alone what it does not mention: what the provider knows of
\* a subscription is replaced, but never erased, by a later or a late event.
NothingErased ==
    [][\A f \in Fields : subscription[f] # None => subscription'[f] # None]_vars

\* In the end Stripe stops delivering, through outages and, although line 89 says
\* "Never retry auth failures", through rotations of the token.  With
\* NothingDropped, the provider has then processed every event of which no
\* delivery was ever answered with a 4xx other than 401.
AllSettled == <>[](due = {})

=============================================================================
