------------------------------ MODULE Session ------------------------------
(***************************************************************************)
(* A customer's session inside the cinema: the listener process, the       *)
(* inactivity timer it forks, and the table of timestamps in shared memory *)
(* that the timers of all customers share, guarded by one semaphore.       *)
(*                                                                         *)
(* A timestamp is modelled by its age, which Tick advances and MaxWait + 1 *)
(* stands for everything too old; the two special values stay themselves.  *)
(* What a request asks of the admin is BoxOffice's concern: a call here is *)
(* either answered or an EXIT.                                             *)
(***************************************************************************)
EXTENDS Integers, Sequences, FiniteSets

CONSTANTS Client,      \* ids of the customers, given by the database
          Slots,       \* MAX_CLIENTS
          MaxWait,     \* MAX_TIME_TO_WAIT_SECONDS, in ticks
          MaxCrashes   \* bound: clients that are killed

ASSUME ClientAssumption == Client \subseteq Nat
ASSUME SlotsAssumption == Slots \in Nat \ {0}
ASSUME BoundsAssumption == MaxWait \in Nat /\ MaxCrashes \in Nat

VARIABLES listener,    \* listener[u].at: next statement; .request: in hand
          timer,       \* timer[u].at: next statement; .seen: the age it read
          stamps,      \* the table in shared memory
          mutex,       \* the process inside semaphore_wait .. semaphore_signal
          requests,    \* the messages to u's listener
          responses,   \* the messages to customer u
          customer     \* customer u

vars == <<listener, timer, stamps, mutex, requests, responses, customer>>

CONNECTION_TIMEDOUT == -1
TIMER_CLOSE == -134

Age == 0 .. MaxWait + 1
Stamp == Age \cup {CONNECTION_TIMEDOUT, TIMER_CLOSE}

SlotOf(u) == u % Slots

Older(age) == IF age \in 0 .. MaxWait THEN age + 1 ELSE age

\* time(nullptr) - last_time_stamp: the special values are decades ago.
Difference(stamp) == IF stamp < 0 THEN MaxWait + 1 ELSE stamp

Listener(u) == <<"listener", u>>
Timer(u) == <<"timer", u>>
Process == {"listener", "timer"} \X Client
Nobody == <<"nobody", 0>>

ListenerPc == {"none", "start", "receive", "check", "touch", "handle", "await",
               "kill", "verify", "drain", "close", "done"}
TimerPc == {"none", "poll", "compare", "mark", "done", "killed"}

Init ==
    /\ listener = [u \in Client |-> [at |-> "none", request |-> "call"]]
    /\ timer = [u \in Client |-> [at |-> "none", seen |-> 0]]
    /\ stamps = [s \in 0 .. Slots - 1 |-> MaxWait + 1]
    /\ mutex = Nobody
    /\ requests = [u \in Client |-> <<>>]
    /\ responses = [u \in Client |-> <<>>]
    /\ customer = [u \in Client |-> "new"]

----------------------------------------------------------------------------
(* The semaphore and the table *)

\* The statements that begin with semaphore_wait
InCritical(p) ==
    \/ p[1] = "listener" /\ listener[p[2]].at \in {"start", "check", "touch", "verify", "close"}
    \/ p[1] = "timer" /\ timer[p[2]].at \in {"poll", "mark"}

semaphore_wait(p) ==
    /\ mutex = Nobody
    /\ InCritical(p)
    /\ mutex' = p
    /\ UNCHANGED <<listener, timer, stamps, requests, responses, customer>>

update_timestamp(p, value) ==
    /\ mutex = p
    /\ stamps' = [stamps EXCEPT ![SlotOf(p[2])] = value]
    /\ mutex' = Nobody

get_timestamp(p) ==
    /\ mutex = p
    /\ mutex' = Nobody
    /\ UNCHANGED stamps

StampOf(u) == stamps[SlotOf(u)]

----------------------------------------------------------------------------
(* The listener *)

ListenerGoes(u, before, after) ==
    /\ listener[u].at = before
    /\ listener' = [listener EXCEPT ![u].at = after]

Send(queue, u, message) == [queue EXCEPT ![u] = Append(@, message)]

\* The customer is registered and told so, and the cinema forks the listener.
cinema_take_client(u) ==
    /\ customer[u] = "new"
    /\ customer' = [customer EXCEPT ![u] = "idle"]
    /\ ListenerGoes(u, "none", "start")
    /\ UNCHANGED <<timer, stamps, mutex, requests, responses>>

\* Mutant of start_timer: the slot keeps what it held.
StartTimerUnstamped(u) ==
    /\ ListenerGoes(u, "start", "receive")
    /\ get_timestamp(Listener(u))
    /\ timer' = [timer EXCEPT ![u].at = "poll"]
    /\ UNCHANGED <<requests, responses, customer>>

\* The slot is stamped before the timer is forked.
start_timer(u) ==
    /\ ListenerGoes(u, "start", "receive")
    /\ update_timestamp(Listener(u), 0)
    /\ timer' = [timer EXCEPT ![u].at = "poll"]
    /\ UNCHANGED <<requests, responses, customer>>

ReceiveRequest(u) ==
    /\ requests[u] # <<>>
    /\ listener[u].at = "receive"
    /\ listener' = [listener EXCEPT ![u] = [at |-> "check", request |-> Head(requests[u])]]
    /\ requests' = [requests EXCEPT ![u] = Tail(@)]
    /\ UNCHANGED <<timer, stamps, mutex, responses, customer>>

Check(u) ==
    /\ ListenerGoes(u, "check", IF StampOf(u) # CONNECTION_TIMEDOUT THEN "touch" ELSE "handle")
    /\ get_timestamp(Listener(u))
    /\ UNCHANGED <<timer, requests, responses, customer>>

Touch(u) ==
    /\ ListenerGoes(u, "touch", "handle")
    /\ update_timestamp(Listener(u), 0)
    /\ UNCHANGED <<timer, requests, responses, customer>>

\* cinema_handle sends the call to the admin ...
Forward(u) ==
    /\ listener[u].request = "call"
    /\ ListenerGoes(u, "handle", "await")
    /\ UNCHANGED <<timer, stamps, mutex, requests, responses, customer>>

\* Mutant of Answer: the request goes back instead of the response.
AnswerWithTheRequest(u) ==
    /\ ListenerGoes(u, "await", "receive")
    /\ responses' = Send(responses, u, listener[u].request)
    /\ UNCHANGED <<timer, stamps, mutex, requests, customer>>

\* ... and the listener passes the admin's answer on.
Answer(u) ==
    /\ ListenerGoes(u, "await", "receive")
    /\ responses' = Send(responses, u, "answer")
    /\ UNCHANGED <<timer, stamps, mutex, requests, customer>>

\* Mutant of EndSession: exit is not set.
EndSessionAndListen(u) ==
    /\ listener[u].request = "exit"
    /\ ListenerGoes(u, "handle", "receive")
    /\ responses' = Send(responses, u, "exit")
    /\ UNCHANGED <<timer, stamps, mutex, requests, customer>>

\* The admin is told and does not answer; the listener leaves its loop.
EndSession(u) ==
    /\ listener[u].request = "exit"
    /\ ListenerGoes(u, "handle", "kill")
    /\ responses' = Send(responses, u, "exit")
    /\ UNCHANGED <<timer, stamps, mutex, requests, customer>>

\* Mutant of KillTimer: semop without SEM_UNDO.
KillTimerWithoutUndo(u) ==
    /\ ListenerGoes(u, "kill", "verify")
    /\ timer' = [timer EXCEPT ![u] = [at |-> "killed", seen |-> 0]]
    /\ UNCHANGED <<mutex, stamps, requests, responses, customer>>

\* SIGKILL; SEM_UNDO gives back the semaphore of a timer that holds it.
KillTimer(u) ==
    /\ ListenerGoes(u, "kill", "verify")
    /\ timer' = [timer EXCEPT ![u] = [at |-> "killed", seen |-> 0]]
    /\ mutex' = IF mutex = Timer(u) THEN Nobody ELSE mutex
    /\ UNCHANGED <<stamps, requests, responses, customer>>

\* Mutant of Verify: the listener waits for a message in every case.
VerifyNothing(u) ==
    /\ ListenerGoes(u, "verify", "drain")
    /\ get_timestamp(Listener(u))
    /\ UNCHANGED <<timer, requests, responses, customer>>

Verify(u) ==
    /\ ListenerGoes(u, "verify", IF StampOf(u) = CONNECTION_TIMEDOUT THEN "drain" ELSE "close")
    /\ get_timestamp(Listener(u))
    /\ UNCHANGED <<timer, requests, responses, customer>>

\* Mutant of Drain: the late message is answered as well.
DrainAndAnswer(u) ==
    /\ requests[u] # <<>>
    /\ ListenerGoes(u, "drain", "done")
    /\ requests' = [requests EXCEPT ![u] = Tail(@)]
    /\ responses' = Send(responses, u, "exit")
    /\ UNCHANGED <<timer, stamps, mutex, customer>>

\* One more message is taken off the queue and not answered.
Drain(u) ==
    /\ requests[u] # <<>>
    /\ ListenerGoes(u, "drain", "done")
    /\ requests' = [requests EXCEPT ![u] = Tail(@)]
    /\ UNCHANGED <<timer, stamps, mutex, responses, customer>>

CloseSlot(u) ==
    /\ ListenerGoes(u, "close", "done")
    /\ update_timestamp(Listener(u), TIMER_CLOSE)
    /\ UNCHANGED <<timer, requests, responses, customer>>

----------------------------------------------------------------------------
(* The timer.  Its test timestamp == TIMER_CLOSE is about the current time *)
(* and never holds: only its EXIT or SIGKILL ends it.                      *)

TimerGoes(u, before, after) ==
    /\ timer[u].at = before
    /\ timer' = [timer EXCEPT ![u] = [at |-> after, seen |-> 0]]

Poll(u) ==
    /\ timer[u].at = "poll"
    /\ timer' = [timer EXCEPT ![u] = [at |-> "compare", seen |-> Difference(StampOf(u))]]
    /\ get_timestamp(Timer(u))
    /\ UNCHANGED <<listener, requests, responses, customer>>

StillActive(u) ==
    /\ timer[u].seen <= MaxWait
    /\ TimerGoes(u, "compare", "poll")
    /\ UNCHANGED <<listener, stamps, mutex, requests, responses, customer>>

\* Mutant of SendExit: the slot is marked and nobody is told.
SendNothing(u) ==
    /\ timer[u].seen > MaxWait
    /\ TimerGoes(u, "compare", "mark")
    /\ UNCHANGED <<listener, stamps, mutex, requests, responses, customer>>

\* Mutant of SendExit: the timer goes on polling.
SendExitAgain(u) ==
    /\ timer[u].seen > MaxWait
    /\ Len(requests[u]) < 4
    /\ TimerGoes(u, "compare", "poll")
    /\ requests' = Send(requests, u, "exit")
    /\ UNCHANGED <<listener, stamps, mutex, responses, customer>>

\* An EXIT as if from the customer, first; the slot is marked afterwards.
SendExit(u) ==
    /\ timer[u].seen > MaxWait
    /\ TimerGoes(u, "compare", "mark")
    /\ requests' = Send(requests, u, "exit")
    /\ UNCHANGED <<listener, stamps, mutex, responses, customer>>

\* Mutant of MarkTimedOut: no semaphore_signal.
MarkAndKeepTheLock(u) ==
    /\ mutex = Timer(u)
    /\ TimerGoes(u, "mark", "done")
    /\ stamps' = [stamps EXCEPT ![SlotOf(u)] = CONNECTION_TIMEDOUT]
    /\ UNCHANGED <<listener, mutex, requests, responses, customer>>

\* Mutant of MarkTimedOut: the timer goes on polling.
MarkAndPollOn(u) ==
    /\ TimerGoes(u, "mark", "poll")
    /\ update_timestamp(Timer(u), CONNECTION_TIMEDOUT)
    /\ UNCHANGED <<listener, requests, responses, customer>>

MarkTimedOut(u) ==
    /\ TimerGoes(u, "mark", "done")
    /\ update_timestamp(Timer(u), CONNECTION_TIMEDOUT)
    /\ UNCHANGED <<listener, requests, responses, customer>>

----------------------------------------------------------------------------
(* The customer, seen through mom: one call at a time; any EXIT received   *)
(* is the end of it.                                                       *)

Ask(u, message, state) ==
    /\ customer[u] = "idle"
    /\ customer' = [customer EXCEPT ![u] = state]
    /\ requests' = Send(requests, u, message)
    /\ UNCHANGED <<listener, timer, stamps, mutex, responses>>

Call(u) == Ask(u, "call", "waiting")
Leave(u) == Ask(u, "exit", "leaving")

TakeAnswer(u) ==
    /\ customer[u] \in {"waiting", "leaving"}
    /\ responses[u] # <<>>
    /\ customer' = [customer EXCEPT ![u] = IF Head(responses[u]) = "exit" THEN "gone" ELSE "idle"]
    /\ responses' = [responses EXCEPT ![u] = Tail(@)]
    /\ UNCHANGED <<listener, timer, stamps, mutex, requests>>

\* The client's process is killed.
Crash(u) ==
    /\ Cardinality({v \in Client : customer[v] = "crashed"}) < MaxCrashes
    /\ customer[u] \in {"idle", "waiting", "leaving"}
    /\ customer' = [customer EXCEPT ![u] = "crashed"]
    /\ UNCHANGED <<listener, timer, stamps, mutex, requests, responses>>

----------------------------------------------------------------------------
Tick ==
    /\ stamps' = [s \in DOMAIN stamps |-> Older(stamps[s])]
    /\ timer' = [u \in Client |->
                    [at   |-> timer[u].at,
                     seen |-> IF timer[u].at = "compare" THEN Older(timer[u].seen) ELSE 0]]
    /\ UNCHANGED <<listener, mutex, requests, responses, customer>>

cinema_listen_client(u) ==
    \/ start_timer(u) \/ ReceiveRequest(u) \/ Check(u) \/ Touch(u)
    \/ Forward(u) \/ Answer(u) \/ EndSession(u)
    \/ KillTimer(u) \/ Verify(u) \/ Drain(u) \/ CloseSlot(u)

TimerStep(u) == Poll(u) \/ StillActive(u) \/ SendExit(u) \/ MarkTimedOut(u)

CustomerStep(u) == Call(u) \/ Leave(u) \/ TakeAnswer(u) \/ Crash(u)

ProcessStep == \/ \E u \in Client : \/ cinema_take_client(u)
                                    \/ cinema_listen_client(u)
                                    \/ TimerStep(u)
                                    \/ CustomerStep(u)
               \/ \E p \in Process : semaphore_wait(p)

Next == ProcessStep \/ Tick

Spec == Init /\ [][Next]_vars

\* Processes that can run do, semop serves its waiters in the order they came,
\* time passes, and a client that is alive reads the answer it waits for.
\* Nobody has to call.
FairSpec == /\ Spec
            /\ WF_vars(Tick)
            /\ \A u \in Client : /\ WF_vars(cinema_listen_client(u))
                                 /\ WF_vars(TimerStep(u))
                                 /\ WF_vars(TakeAnswer(u))
            /\ \A p \in Process : SF_vars(semaphore_wait(p))

----------------------------------------------------------------------------
(* Safety *)

TypeOK ==
    /\ listener \in [Client -> [at : ListenerPc, request : {"call", "exit"}]]
    /\ timer \in [Client -> [at : TimerPc, seen : Age]]
    /\ stamps \in [0 .. Slots - 1 -> Stamp]
    /\ mutex \in Process \cup {Nobody}
    /\ requests \in [Client -> Seq({"call", "exit"})]
    /\ responses \in [Client -> Seq({"answer", "exit"})]
    /\ customer \in [Client -> {"new", "idle", "waiting", "leaving", "gone", "crashed"}]

\* The semaphore is never left taken by a process that is not about to release
\* it: a timer may be killed between semaphore_wait and semaphore_signal
\* (cinema.cpp:159), and every other session would stop with it.
LockIsHeldByTheLiving == mutex # Nobody => InCritical(mutex)

Ended(u) == listener[u].at \in {"kill", "verify", "drain", "close", "done"}

Count(queue, message) == Cardinality({i \in DOMAIN queue : queue[i] = message})

CallsUnderWay(u) ==
    Count(requests[u], "call") + Count(responses[u], "answer")
    + (IF listener[u].at \in {"check", "touch", "handle", "await"}
          /\ listener[u].request = "call" THEN 1 ELSE 0)

\* Requests and answers carry nothing but the customer's id (communicationqueue.cpp:21),
\* so the customer reads the right answer only because exactly one call is under
\* way while it waits and none while it does not, also when the timer's EXIT comes
\* in between; and an EXIT is the last thing a customer is ever sent.
AnswersMatchCalls ==
    \A u \in Client :
        /\ ~Ended(u) /\ customer[u] # "crashed" =>
               CallsUnderWay(u) = (IF customer[u] = "waiting" THEN 1 ELSE 0)
        /\ \A i \in DOMAIN responses[u] :
               responses[u][i] = "exit" => i = Len(responses[u]) /\ Ended(u)

\* A customer never has more than two messages in the queue all customers share:
\* its own, and one EXIT of its timer, which must stop polling once it sent that.
BacklogIsBounded == \A u \in Client : Len(requests[u]) <= 2

\* "Cinema close the connection. If client send a message, receive it and finish"
\* (cinema.cpp:162): a listener that receives one leaves nothing in the queue all
\* share, and nothing comes later, neither from its customer nor from its timer.
LateCallIsTheLast ==
    [][\A u \in Client :
          listener[u].at = "drain" /\ listener'[u].at = "done"
          => requests'[u] = <<>> /\ customer'[u] # "idle"]_vars

----------------------------------------------------------------------------
(* Liveness *)

\* A customer who called is answered or told that the session is over, whatever
\* the timer and the other customers do with the slots and the semaphore.
CallsAreAnswered ==
    \A u \in Client : customer[u] = "waiting" ~> customer[u] # "waiting"

\* The session of a killed client ends by itself: the time of a session is limited.
AbandonedSessionsEnd == \A u \in Client : customer[u] = "crashed" ~> Ended(u)

\* The processes of a customer who took the EXIT end: neither the wait for a late
\* message nor the semaphore keeps the listener.
GoneCustomersAreForgotten ==
    \A u \in Client : customer[u] = "gone" ~> listener[u].at = "done"

SessionOf(u) ==
    IF listener[u].at = "none" THEN "none"
    ELSE IF listener[u].at = "await" THEN "waiting"
    ELSE IF Ended(u) THEN "closed"
    ELSE "open"

Service == INSTANCE ListenerService WITH session <- [u \in Client |-> SessionOf(u)]

\* Listener and timer provide what BoxOffice assumes of a session, with its fairness:
\* opened once, one call at a time, ended once, and ended when nobody uses it.
ImplementsService == Service!FairSpec
=============================================================================
