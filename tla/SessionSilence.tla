--------------------------- MODULE SessionSilence ---------------------------
(***************************************************************************)
(* Session with a history variable: how long each customer has been        *)
(* silent, by the same clock that ages the timestamps.  The code keeps no  *)
(* such thing; it takes the customer's slot of the table for it.           *)
(***************************************************************************)
EXTENDS Session

VARIABLE quiet         \* time since u's own listener last stamped its slot

\* u's listener stamps its slot in this step.
Stamps(u) == /\ listener[u].at \in {"start", "touch"}
             /\ listener'[u].at # listener[u].at

SilenceInit == Init /\ quiet = [u \in Client |-> 0]

SilenceNext ==
    \/ /\ ProcessStep
       /\ quiet' = [u \in Client |-> IF Stamps(u) THEN 0 ELSE quiet[u]]
    \/ /\ Tick
       /\ quiet' = [u \in Client |-> Older(quiet[u])]

SilenceSpec == SilenceInit /\ [][SilenceNext]_<<vars, quiet>>

\* A timer that finds its session expired and closes it for "%d seconds of client
\* inactivity" (cinema.cpp:109-110) is right: its own customer was silent for longer than
\* MaxWait when the timer read the slot.  Until then the customer may reserve (README.md:19).
OnlyTheSilentExpire ==
    [][\A u \in Client :
          /\ timer[u].at = "poll"
          /\ timer'[u].at = "compare"
          /\ timer'[u].seen > MaxWait
          => quiet[u] > MaxWait]_<<vars, quiet>>
=============================================================================
