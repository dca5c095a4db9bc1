------------------------------- MODULE SignOn -------------------------------
(***************************************************************************)
(* What an application behind the identity provider promises of its door,  *)
(* with no word of how keys are fetched, cached or shared: whom a request  *)
(* lets in, whom it turns away, and whom it sends to the login page.       *)
(***************************************************************************)
EXTENDS Integers

CONSTANTS
    Browsers,
    Kids,
    Requests,
    Public,         \* the requests that need no login
    Api,            \* the requests that want JSON
    Window,         \* for how long a withdrawn key may still be trusted
    Leeway,
    Life,
    None

VARIABLES
    clock,
    offered,        \* when each key could last be obtained from the provider
    installed,      \* the keys that a test has installed
    jar,            \* the cookie of each browser
    visit           \* its request: where it stands, when it began, its answer

vars == <<clock, offered, installed, jar, visit>>

State(pc, r, began, status) == [pc |-> pc, req |-> r, began |-> began, status |-> status]

Init ==
    /\ clock = 0
    /\ offered \in [Kids -> {0, None}]
    /\ installed = {}
    /\ jar = [c \in Browsers |-> None]
    /\ visit = [c \in Browsers |-> State("idle", None, None, "none")]

-----------------------------------------------------------------------------
\* The provider signed it, in its own name, and its time has come and not passed.
Good(t) == t.genuine /\ t.iat <= clock + Leeway /\ clock - Leeway < t.iat + Life

\* A request that began at that time may rely on the key.
Trusted(k, began) ==
    \/ k \in installed
    \/ offered[k] # None /\ began - offered[k] <= Window

Move(c, s) == visit' = [visit EXCEPT ![c] = s]

Answer(c, status) == Move(c, State("idle", None, None, status))

\* A request that began at that time is let in only with a good token, and may
\* be turned away in any case: what is promised to a good token is not said here.
Judge(c, r, began) ==
    \/ r \in Public /\ Answer(c, "public")
    \/ /\ r \notin Public
       /\ jar[c] # None
       /\ Good(jar[c])
       /\ Trusted(jar[c].kid, began)
       /\ Answer(c, "user")
    \/ /\ r \notin Public
       /\ jar[c] # None \/ r \in Api
       /\ Answer(c, "unauthorized")

\* A new navigation, or the end of a detour over the login page.  Only a browser
\* without a cookie is sent on that detour.
Begin(c, r) ==
    \/ Judge(c, r, clock)
    \/ /\ r \notin Public \cup Api
       /\ jar[c] = None
       /\ Move(c, State("away", r, None, "redirect"))
    \/ /\ r \notin Public
       /\ jar[c] # None
       /\ Move(c, State("asking", r, clock, "none"))

Arrive(c, r) ==
    /\ visit[c].pc = "idle"
    /\ Begin(c, r)
    /\ UNCHANGED <<clock, offered, installed, jar>>

Return(c) ==
    /\ visit[c].pc = "back"
    /\ Begin(c, visit[c].req)
    /\ UNCHANGED <<clock, offered, installed, jar>>

Decide(c) ==
    /\ visit[c].pc = "asking"
    /\ Judge(c, visit[c].req, visit[c].began) \/ Answer(c, "aborted")
    /\ UNCHANGED <<clock, offered, installed, jar>>

LogIn(c) ==
    /\ visit[c].pc = "away"
    /\ \E k \in Kids, ahead \in 0 .. Leeway :
          /\ offered[k] = clock
          /\ jar' = [jar EXCEPT ![c] = [kid |-> k, iat |-> clock + ahead, genuine |-> TRUE]]
    /\ Move(c, [visit[c] EXCEPT !.pc = "back"])
    /\ UNCHANGED <<clock, offered, installed>>

\* The cookie goes, or is no longer one that the provider has signed.
Lose(c) ==
    /\ visit[c].pc # "asking"
    /\ \/ jar' = [jar EXCEPT ![c] = None]
       \/ /\ jar'[c] # None
          /\ ~jar'[c].genuine
          /\ jar' = [jar EXCEPT ![c] = jar'[c]]
    /\ Move(c, [visit[c] EXCEPT !.status = "none"])
    /\ UNCHANGED <<clock, offered, installed>>

World ==
    /\ UNCHANGED <<jar, visit>>
    /\ clock' >= clock
    /\ \A k \in Kids : offered'[k] \in {offered[k], clock'}
    /\ installed' \subseteq Kids

-----------------------------------------------------------------------------
Next ==
    \/ World
    \/ \E c \in Browsers :
          \/ Return(c) \/ Decide(c) \/ LogIn(c) \/ Lose(c)
          \/ \E r \in Requests : Arrive(c, r)

Spec == Init /\ [][Next]_vars

=============================================================================
