-------------------------- MODULE ForwarderProofs --------------------------
(***************************************************************************)
(* What the forwarder guarantees whatever Stripe, the network and the      *)
(* provider do: for any number of events, handlers and rotations.  The     *)
(* argument follows one delivery: what is posted is the whole update with  *)
(* its id, and an answer after which the function returns is either a      *)
(* success, which only the provider gives, when it has done its part, or a *)
(* 4xx other than 401, which anybody on the way may give.                  *)
(***************************************************************************)
EXTENDS Forwarder, TLAPS

-----------------------------------------------------------------------------
(* Types. *)

Posting == [pc : {"posting"}, event : Events, token : Tokens, payload : Payload, answer : {None}]

Answered == [pc : {"answered"}, event : Events, token : {None}, payload : {None},
             answer : Answers]

Locals == {Free} \cup Posting \cup Answered

LEMMA PcOf ==
    ASSUME TypeOK, NEW h \in Handlers
    PROVE  /\ handler[h] \in Locals
           /\ handler[h].pc = "posting" => handler[h] \in Posting
           /\ handler[h].pc = "answered" => handler[h] \in Answered
BY DEF TypeOK, Locals, Posting, Answered, Free, Local

LEMMA PayloadType ==
    ASSUME NEW e \in Events
    PROVE  PayloadOf(e) \in Payload
BY UpdateAssumption DEF PayloadOf, Payload

\* Only the handler moves, to locals of its type.
LEMMA HandlerType ==
    ASSUME TypeOK, NEW h \in Handlers, NEW l \in Locals,
           handler' = [handler EXCEPT ![h] = l],
           due' \subseteq Events, UNCHANGED <<token, provider>>
    PROVE  TypeOK'
BY DEF TypeOK, Locals, Posting, Answered, provider

\* How each action moves its handler.
LEMMA DeliverEffect ==
    ASSUME TypeOK, NEW h \in Handlers, NEW e \in Events, Deliver(h, e)
    PROVE  LET l == Local("posting", e, token, PayloadOf(e), None)
           IN  l \in Posting /\ handler' = [handler EXCEPT ![h] = l]
<1>1. token \in Tokens
  BY DEF Deliver, TypeOK
<1> QED BY <1>1, PayloadType DEF Deliver, Local, Posting

LEMMA AnswerEffect ==
    ASSUME TypeOK, NEW h \in Handlers, handler[h].pc = "posting", NEW a \in Answers, Answer(h, a)
    PROVE  LET l == Local("answered", handler[h].event, None, None, a)
           IN  l \in Answered /\ handler' = [handler EXCEPT ![h] = l]
<1>1. handler[h].event \in Events
  BY PcOf DEF Posting
<1>2. handler \in [Handlers -> Locals]
  BY DEF TypeOK, Locals, Posting, Answered
<1> QED BY <1>1, <1>2 DEF Answer, Local, Answered

LEMMA TypeStep ==
    ASSUME TypeOK, [Next]_vars
    PROVE  TypeOK'
<1>1. due \subseteq Events /\ Free \in Locals
  BY DEF TypeOK, Locals
<1>2. ASSUME NEW h \in Handlers, NEW e \in Events, Deliver(h, e)
      PROVE  TypeOK'
  BY <1>1, <1>2, DeliverEffect, HandlerType DEF Deliver, Locals
<1>3. ASSUME NEW h \in Handlers, Fails(h) \/ Succeeds(h) \/ Crash(h)
      PROVE  TypeOK'
  BY <1>1, <1>3, HandlerType DEF Fails, Succeeds, Crash, Raise
<1>4. ASSUME NEW h \in Handlers, RejectToken(h) \/ RejectPayload(h) \/ NeverArrives(h)
      PROVE  TypeOK'
  <2>1. PICK a \in Answers : Answer(h, a)
    BY <1>4 DEF RejectToken, RejectPayload, NeverArrives, Disturbed, Answers
  <2> QED
    BY <1>1, <1>4, <2>1, AnswerEffect, HandlerType
    DEF RejectToken, RejectPayload, NeverArrives, Locals
<1>5. ASSUME NEW h \in Handlers, Accept(h)
      PROVE  TypeOK'
  <2>1. PICK a \in Answers : Answer(h, a)
    BY <1>5 DEF Accept, Disturbed, Answers
  <2>2. handler[h] \in Posting
    BY <1>5, PcOf DEF Accept
  <2>3. handler' \in [Handlers -> Locals]
    BY <1>5, <2>1, AnswerEffect DEF Accept, Locals, TypeOK, Posting, Answered
  <2>4. processed' \subseteq Events /\ applied' \in [Events -> Nat]
    BY <1>5, <2>2 DEF Accept, Process, TypeOK, Posting
  <2>5. subscription' \in [Fields -> Values]
    BY <1>5, <2>2 DEF Accept, Process, TypeOK, Posting, Updated, Payload
  <2> QED BY <1>5, <2>3, <2>4, <2>5 DEF Accept, TypeOK, Locals, Posting, Answered
<1>6. CASE Rotate
  BY <1>6 DEF Rotate, TypeOK
<1>7. CASE Configure
  BY <1>7 DEF Configure, TypeOK, provider
<1>8. CASE UNCHANGED vars
  BY <1>8 DEF vars, TypeOK
<1> QED
  BY <1>2, <1>3, <1>4, <1>5, <1>6, <1>7, <1>8
  DEF Next, Conclude, Provide, RaiseUnconfigured

LEMMA TypeInit == Init => TypeOK
<1> SUFFICES ASSUME Init PROVE TypeOK
  OBVIOUS
<1>1. handler \in [Handlers -> Locals]
  BY DEF Init, Locals
<1>2. None \in Values
  BY DEF Values
<1>3. subscription \in [Fields -> Values]
  BY <1>2 DEF Init
<1> QED BY <1>1, <1>3, ForwarderAssumption DEF Init, TypeOK, Locals, Posting, Answered

\* The forwarder and the provider keep their types; no POST is without a token.
THEOREM TypeCorrect == Spec => []TypeOK
BY TypeInit, TypeStep, PTL DEF Spec

-----------------------------------------------------------------------------
(* One delivery. *)

\* A POST carries the whole update, and a success tells of what the provider has
\* done.
Truthful ==
    \A h \in Handlers :
        /\ handler[h].pc = "posting" => handler[h].payload = PayloadOf(handler[h].event)
        /\ handler[h].pc = "answered" /\ handler[h].answer = "ok" =>
              handler[h].event \in processed

OnceApplied == \A e \in Events : applied[e] <= 1 /\ (applied[e] # 0 => e \in processed)

Faithful == Truthful /\ OnceApplied

\* A handler that moves leaves the others alone.
LEMMA FaithfulOneHandler ==
    ASSUME TypeOK, Faithful, NEW h \in Handlers, NEW l,
           handler' = [handler EXCEPT ![h] = l],
           processed \subseteq processed',
           l.pc = "posting" => l.payload = PayloadOf(l.event),
           l.pc = "answered" /\ l.answer = "ok" => l.event \in processed'
    PROVE  Truthful'
BY DEF Faithful, Truthful, TypeOK

LEMMA FaithfulAnswer ==
    ASSUME TypeOK, Faithful, NEW h \in Handlers, handler[h].pc = "posting",
           NEW a \in Answers, Answer(h, a), processed \subseteq processed',
           a = "ok" => handler[h].event \in processed'
    PROVE  Truthful'
<1> DEFINE l == Local("answered", handler[h].event, None, None, a)
<1>1. handler' = [handler EXCEPT ![h] = l]
  BY AnswerEffect
<1>2. l.pc = "answered" /\ l.answer = a /\ l.event = handler[h].event
  BY DEF Local
<1> HIDE DEF l
<1> QED BY <1>1, <1>2, FaithfulOneHandler

\* What the provider has applied stays as it is.
LEMMA FaithfulQuiet ==
    ASSUME Faithful, UNCHANGED provider
    PROVE  OnceApplied'
BY DEF Faithful, OnceApplied, provider

LEMMA FaithfulAccept ==
    ASSUME TypeOK, Faithful, NEW h \in Handlers, Accept(h)
    PROVE  Faithful'
<1> DEFINE e == handler[h].event
<1>1. /\ handler[h] \in Posting /\ e \in Events
      /\ handler[h].payload = PayloadOf(e)
  BY PcOf DEF Accept, Faithful, Truthful, Posting
<1>2. e \in processed' /\ processed \subseteq processed'
  BY <1>1 DEF Accept, Process, PayloadOf
<1>3. PICK a \in Answers : Answer(h, a)
  BY DEF Accept, Disturbed, Answers
<1>4. Truthful'
  BY <1>2, <1>3, FaithfulAnswer DEF Accept
<1>5. OnceApplied'
  BY <1>1 DEF Accept, Process, PayloadOf, Faithful, OnceApplied, TypeOK
<1> QED BY <1>4, <1>5 DEF Faithful

LEMMA FaithfulStep ==
    ASSUME TypeOK, Faithful, [Next]_vars
    PROVE  Faithful'
<1>1. ASSUME NEW h \in Handlers, NEW e \in Events, Deliver(h, e)
      PROVE  Faithful'
  <2>1. Truthful'
    BY <1>1, DeliverEffect, FaithfulOneHandler DEF Deliver, Local, provider
  <2> QED BY <1>1, <2>1, FaithfulQuiet DEF Deliver, Faithful
<1>2. ASSUME NEW h \in Handlers, Fails(h) \/ Succeeds(h) \/ Crash(h)
      PROVE  Faithful'
  <2>1. Truthful'
    BY <1>2, FaithfulOneHandler DEF Fails, Succeeds, Crash, Raise, Free, Local, provider
  <2> QED BY <1>2, <2>1, FaithfulQuiet DEF Fails, Succeeds, Crash, Faithful
<1>4. ASSUME NEW h \in Handlers, RejectToken(h) \/ RejectPayload(h) \/ NeverArrives(h)
      PROVE  Faithful'
  <2>1. PICK a \in Answers : Answer(h, a) /\ a # "ok"
    BY <1>4 DEF RejectToken, RejectPayload, NeverArrives, Disturbed, Answers
  <2>2. Truthful'
    BY <1>4, <2>1, FaithfulAnswer DEF RejectToken, RejectPayload, NeverArrives, provider
  <2> QED BY <1>4, <2>2, FaithfulQuiet DEF RejectToken, RejectPayload, NeverArrives, Faithful
<1>5. ASSUME NEW h \in Handlers, Accept(h)
      PROVE  Faithful'
  BY <1>5, FaithfulAccept
<1>6. CASE Rotate \/ Configure
  BY <1>6 DEF Rotate, Configure, provider, Faithful, Truthful, OnceApplied
<1>7. CASE UNCHANGED vars
  BY <1>7 DEF vars, Faithful, Truthful, OnceApplied
<1> QED
  BY <1>1, <1>2, <1>4, <1>5, <1>6, <1>7
  DEF Next, Conclude, Provide, RaiseUnconfigured

LEMMA FaithfulInit == Init => Faithful
BY DEF Init, Faithful, Truthful, OnceApplied, Free, Local

LEMMA FaithfulHolds == Spec => []Faithful
BY FaithfulInit, FaithfulStep, TypeCorrect, PTL DEF Spec

\* Stripe hears of a success only when the provider has processed the event, or
\* from a delivery that was answered with a 4xx other than 401 (the error
\* handling of forward_subscription_update).
THEOREM NoUpdateIsDropped == Spec => NothingDropped
<1> DEFINE Told(e) ==
              \/ e \in processed
              \/ \E h \in Handlers : /\ handler[h].event = e
                                   /\ handler[h].answer = "bad_request"
                                   /\ handler'[h] = Free
<1>1. ASSUME TypeOK, Faithful, [Next]_vars
      PROVE  [\A e \in due \ due' : Told(e)]_vars
  <2>1. ASSUME NEW h \in Handlers, Succeeds(h)
        PROVE  \A e \in due \ due' : Told(e)
    <3>1. SUFFICES Told(handler[h].event)
      BY <2>1 DEF Succeeds
    <3>2. CASE handler[h].answer = "ok"
      BY <1>1, <2>1, <3>2 DEF Succeeds, Faithful, Truthful
    <3>3. CASE handler[h].answer = "bad_request"
      <4>1. handler'[h] = Free
        BY <1>1, <2>1 DEF Succeeds, TypeOK
      <4> QED BY <3>3, <4>1
    <3> QED BY <2>1, <3>2, <3>3 DEF Succeeds, Returns
  <2>2. ASSUME ~ \E h \in Handlers : Succeeds(h)
        PROVE  UNCHANGED due
    BY <1>1, <2>2
    DEF Next, Deliver, RaiseUnconfigured, Conclude, Fails, Raise, Provide, Accept,
        RejectToken, RejectPayload, NeverArrives, Crash, Rotate, Configure, vars
  <2> QED BY <2>1, <2>2
<1> QED BY <1>1, TypeCorrect, FaithfulHolds, PTL DEF Spec, NothingDropped

\* However often, and however many times at once, Stripe delivers an event, it
\* is applied at most once (the stripe_event_id in the payload).
THEOREM NoUpdateIsRepeated == Spec => []AppliedOnce
<1>1. Faithful => AppliedOnce
  BY DEF Faithful, OnceApplied, AppliedOnce
<1> QED BY <1>1, FaithfulHolds, PTL

\* No update erases what it does not mention, in whatever order the events
\* arrive (the stripping of None values).
THEOREM NoFieldIsErased == Spec => NothingErased
<1>1. ASSUME TypeOK, Faithful, [Next]_vars
      PROVE  [\A f \in Fields : subscription[f] # None => subscription'[f] # None]_vars
  <2>1. ASSUME NEW h \in Handlers, Accept(h), NEW f \in Fields, subscription[f] # None
        PROVE  subscription'[f] # None
    <3>1. handler[h] \in Posting /\ handler[h].payload = PayloadOf(handler[h].event)
      BY <1>1, <2>1, PcOf DEF Accept, Faithful, Truthful
    <3> QED BY <2>1, <3>1 DEF Accept, Process, Updated, PayloadOf
  <2>2. ASSUME ~ \E h \in Handlers : Accept(h)
        PROVE  UNCHANGED subscription
    BY <1>1, <2>2
    DEF Next, Deliver, RaiseUnconfigured, Conclude, Fails, Succeeds, Raise, Provide,
        RejectToken, RejectPayload, NeverArrives, Crash, Rotate, Configure, vars, provider
  <2> QED BY <2>1, <2>2
<1> QED BY <1>1, TypeCorrect, FaithfulHolds, PTL DEF Spec, NothingErased
=============================================================================
