----------------------------- MODULE MCNetwork -----------------------------
(* Clients and hosts of the TLC instances of Network *)
EXTENDS Network, TLC

\* Two clients on one host and one on another
TwoHosts == 3 :> "north" @@ 4 :> "north" @@ 5 :> "south"
OneHost == 3 :> "north" @@ 4 :> "north" @@ 5 :> "north"

\* What each asks for
Habits == 3 :> {"select"} @@ 4 :> {"seats"} @@ 5 :> {"pay", "exit"}
Selects == [c \in {3, 4, 5} |-> {"select"}]

Pids == 3 :> 13 @@ 4 :> 14 @@ 5 :> 15
=============================================================================
