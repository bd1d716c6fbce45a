---------------------------- MODULE SeatBooking ----------------------------
(***************************************************************************)
(* What the cinema promises about its seats, without handlers, messages or *)
(* tables: a seat is free, held by one customer or sold to one customer.   *)
(* Only a customer who is in service takes or buys a seat, a hold is lost  *)
(* only after its customer left, and a sold seat stays sold.               *)
(***************************************************************************)
CONSTANTS User, Place

VARIABLES held,      \* pairs <<user, place>>: reserved and not paid
          sold,      \* pairs <<user, place>>: reserved and paid
          customer   \* user -> "new", "in" or "left"

vars == <<held, sold, customer>>

Init == /\ held = {}
        /\ sold = {}
        /\ customer = [u \in User |-> "new"]

Arrive(u) == /\ customer[u] = "new"
             /\ customer' = [customer EXCEPT ![u] = "in"]
             /\ UNCHANGED <<held, sold>>

Hold(u, p) == /\ customer[u] = "in"
              /\ \A v \in User : <<v, p>> \notin held \cup sold
              /\ held' = held \cup {<<u, p>>}
              /\ UNCHANGED <<sold, customer>>

Sell(u, p) == /\ customer[u] = "in"
              /\ <<u, p>> \in held
              /\ held' = held \ {<<u, p>>}
              /\ sold' = sold \cup {<<u, p>>}
              /\ UNCHANGED customer

Leave(u) == /\ customer[u] = "in"
            /\ customer' = [customer EXCEPT ![u] = "left"]
            /\ UNCHANGED <<held, sold>>

Release(u) == /\ customer[u] = "left"
              /\ held' = {h \in held : h[1] # u}
              /\ UNCHANGED <<sold, customer>>

\* The cinema closes: nobody is in service any more and no hold survives.
Close == /\ held' = {}
         /\ customer' = [u \in User |-> IF customer[u] = "in" THEN "left"
                                        ELSE customer[u]]
         /\ UNCHANGED sold

Next == \/ \E u \in User : Arrive(u) \/ Leave(u) \/ Release(u)
        \/ \E u \in User, p \in Place : Hold(u, p) \/ Sell(u, p)
        \/ Close

Spec == Init /\ [][Next]_vars

\* With every hold of a customer who left given back in the end.
FairSpec == Spec /\ \A u \in User : WF_vars(Release(u))
=============================================================================
