-------------------------- MODULE ListenerService --------------------------
(***************************************************************************)
(* What the rest of the cinema relies on in a customer's session: it is    *)
(* opened once, takes one call at a time to the admin, answers each, and   *)
(* ends once.  A session that nobody uses ends.  BoxOffice assumes this of *)
(* its variable session; Session shows that listener and timer provide it. *)
(***************************************************************************)
CONSTANT Client

VARIABLE session

vars == <<session>>

Init == session = [u \in Client |-> "none"]

Become(u, before, after) == /\ session[u] = before
                            /\ session' = [session EXCEPT ![u] = after]

Open(u) == Become(u, "none", "open")
Ask(u) == Become(u, "open", "waiting")
Answer(u) == Become(u, "waiting", "open")
End(u) == Become(u, "open", "closed")

Next == \E u \in Client : Open(u) \/ Ask(u) \/ Answer(u) \/ End(u)

Spec == Init /\ [][Next]_vars

FairSpec == /\ Spec
            /\ \A u \in Client : /\ WF_vars(Answer(u))
                                 /\ WF_vars(End(u))
=============================================================================
