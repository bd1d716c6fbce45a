---------------------------- MODULE SessionProofs ----------------------------
(***************************************************************************)
(* Theorems about Session for any set of customers, any number of slots    *)
(* (shared or not), any time limit and any number of killed clients.       *)
(***************************************************************************)
EXTENDS SessionSilence, FiniteSetTheorems, SequenceTheorems, TLAPS

USE ClientAssumption, SlotsAssumption, BoundsAssumption

----------------------------------------------------------------------------
(* What the helpers return *)

LEMMA SlotInRange == \A u \in Client : SlotOf(u) \in 0 .. Slots - 1
  BY DEF SlotOf

LEMMA SpecialStamps == /\ {CONNECTION_TIMEDOUT, TIMER_CLOSE} \subseteq Stamp
                       /\ {0, MaxWait + 1} \subseteq Age
                       /\ Age \subseteq Stamp
  BY DEF Stamp, Age, CONNECTION_TIMEDOUT, TIMER_CLOSE

LEMMA OlderType == /\ \A a \in Age : Older(a) \in Age
                   /\ \A s \in Stamp : Older(s) \in Stamp
  BY DEF Older, Age, Stamp, CONNECTION_TIMEDOUT, TIMER_CLOSE

LEMMA DifferenceType == \A s \in Stamp : Difference(s) \in Age
  BY DEF Difference, Age, Stamp, CONNECTION_TIMEDOUT, TIMER_CLOSE

LEMMA SendType ==
  ASSUME NEW M, NEW queue \in [Client -> Seq(M)], NEW u \in Client, NEW message \in M
  PROVE  Send(queue, u, message) \in [Client -> Seq(M)]
  BY DEF Send

LEMMA TailType ==
  ASSUME NEW M, NEW queue \in [Client -> Seq(M)], NEW u \in Client, queue[u] # <<>>
  PROVE  /\ Head(queue[u]) \in M
         /\ [queue EXCEPT ![u] = Tail(@)] \in [Client -> Seq(M)]
<1>1. queue[u] \in Seq(M) /\ queue[u] # <<>>
  OBVIOUS
<1>2. Head(queue[u]) \in M /\ Tail(queue[u]) \in Seq(M)
  BY <1>1
<1> QED BY <1>2

LEMMA ListenerType ==
  ASSUME TypeOK, NEW u \in Client, NEW before, NEW after \in ListenerPc,
         ListenerGoes(u, before, after)
  PROVE  listener' \in [Client -> [at : ListenerPc, request : {"call", "exit"}]]
  BY DEF TypeOK, ListenerGoes

LEMMA TimerType ==
  ASSUME TypeOK, NEW u \in Client, NEW before, NEW after \in TimerPc,
         TimerGoes(u, before, after)
  PROVE  timer' \in [Client -> [at : TimerPc, seen : Age]]
  BY SpecialStamps DEF TypeOK, TimerGoes

\* The two critical sections; kind tells a listener from a timer.
LEMMA CriticalType ==
  ASSUME TypeOK, NEW u \in Client, NEW kind \in {"listener", "timer"}
  PROVE  /\ \A value \in Stamp : update_timestamp(<<kind, u>>, value) =>
               stamps' \in [0 .. Slots - 1 -> Stamp] /\ mutex' \in Process \cup {Nobody}
         /\ get_timestamp(<<kind, u>>) =>
               stamps' \in [0 .. Slots - 1 -> Stamp] /\ mutex' \in Process \cup {Nobody}
         /\ StampOf(u) \in Stamp
  BY SlotInRange DEF TypeOK, update_timestamp, get_timestamp, StampOf

----------------------------------------------------------------------------
LEMMA TypeInit == Init => TypeOK
<1> SUFFICES ASSUME Init PROVE TypeOK
  OBVIOUS
<1>1. requests \in [Client -> Seq({"call", "exit"})] /\ responses \in [Client -> Seq({"answer", "exit"})]
  BY DEF Init
<1>2. stamps \in [0 .. Slots - 1 -> Stamp]
  BY SpecialStamps DEF Init
<1> QED BY <1>1, <1>2, SpecialStamps DEF Init, TypeOK, ListenerPc, TimerPc

\* The listener's steps
LEMMA TypeListener ==
  ASSUME TypeOK, NEW u \in Client, cinema_listen_client(u)
  PROVE  TypeOK'
<1> USE DEF Listener
<1>1. CASE start_timer(u)
  <2>1. listener' \in [Client -> [at : ListenerPc, request : {"call", "exit"}]]
    BY <1>1, ListenerType DEF start_timer, ListenerPc
  <2>2. stamps' \in [0 .. Slots - 1 -> Stamp] /\ mutex' \in Process \cup {Nobody}
    BY <1>1, CriticalType, SpecialStamps DEF start_timer
  <2>3. timer' \in [Client -> [at : TimerPc, seen : Age]]
    BY <1>1 DEF start_timer, TypeOK, TimerPc
  <2> QED BY <1>1, <2>1, <2>2, <2>3 DEF start_timer, TypeOK
<1>2. CASE ReceiveRequest(u)
  <2>1. /\ Head(requests[u]) \in {"call", "exit"}
        /\ requests' \in [Client -> Seq({"call", "exit"})]
    BY <1>2, TailType DEF ReceiveRequest, TypeOK
  <2> QED BY <1>2, <2>1 DEF ReceiveRequest, TypeOK, ListenerPc
<1>3. CASE Check(u)
  <2>1. listener' \in [Client -> [at : ListenerPc, request : {"call", "exit"}]]
    BY <1>3, ListenerType DEF Check, ListenerPc
  <2>2. stamps' \in [0 .. Slots - 1 -> Stamp] /\ mutex' \in Process \cup {Nobody}
    BY <1>3, CriticalType DEF Check
  <2> QED BY <1>3, <2>1, <2>2 DEF Check, TypeOK
<1>4. CASE Touch(u)
  <2>1. listener' \in [Client -> [at : ListenerPc, request : {"call", "exit"}]]
    BY <1>4, ListenerType DEF Touch, ListenerPc
  <2>2. stamps' \in [0 .. Slots - 1 -> Stamp] /\ mutex' \in Process \cup {Nobody}
    BY <1>4, CriticalType, SpecialStamps DEF Touch
  <2> QED BY <1>4, <2>1, <2>2 DEF Touch, TypeOK
<1>5. CASE Forward(u)
  <2>1. listener' \in [Client -> [at : ListenerPc, request : {"call", "exit"}]]
    BY <1>5, ListenerType DEF Forward, ListenerPc
  <2> QED BY <1>5, <2>1 DEF Forward, TypeOK
<1>6. CASE Answer(u)
  <2>1. listener' \in [Client -> [at : ListenerPc, request : {"call", "exit"}]]
    BY <1>6, ListenerType DEF Answer, ListenerPc
  <2>2. responses' \in [Client -> Seq({"answer", "exit"})]
    BY <1>6, SendType DEF Answer, TypeOK
  <2> QED BY <1>6, <2>1, <2>2 DEF Answer, TypeOK
<1>7. CASE EndSession(u)
  <2>1. listener' \in [Client -> [at : ListenerPc, request : {"call", "exit"}]]
    BY <1>7, ListenerType DEF EndSession, ListenerPc
  <2>2. responses' \in [Client -> Seq({"answer", "exit"})]
    BY <1>7, SendType DEF EndSession, TypeOK
  <2> QED BY <1>7, <2>1, <2>2 DEF EndSession, TypeOK
<1>8. CASE KillTimer(u)
  <2>1. listener' \in [Client -> [at : ListenerPc, request : {"call", "exit"}]]
    BY <1>8, ListenerType DEF KillTimer, ListenerPc
  <2>2. timer' \in [Client -> [at : TimerPc, seen : Age]]
    BY <1>8, SpecialStamps DEF KillTimer, TypeOK, TimerPc
  <2> QED BY <1>8, <2>1, <2>2 DEF KillTimer, TypeOK
<1>9. CASE Verify(u)
  <2>1. listener' \in [Client -> [at : ListenerPc, request : {"call", "exit"}]]
    BY <1>9, ListenerType DEF Verify, ListenerPc
  <2>2. stamps' \in [0 .. Slots - 1 -> Stamp] /\ mutex' \in Process \cup {Nobody}
    BY <1>9, CriticalType DEF Verify
  <2> QED BY <1>9, <2>1, <2>2 DEF Verify, TypeOK
<1>10. CASE Drain(u)
  <2>1. listener' \in [Client -> [at : ListenerPc, request : {"call", "exit"}]]
    BY <1>10, ListenerType DEF Drain, ListenerPc
  <2>2. requests' \in [Client -> Seq({"call", "exit"})]
    BY <1>10, TailType DEF Drain, TypeOK
  <2> QED BY <1>10, <2>1, <2>2 DEF Drain, TypeOK
<1>11. CASE CloseSlot(u)
  <2>1. listener' \in [Client -> [at : ListenerPc, request : {"call", "exit"}]]
    BY <1>11, ListenerType DEF CloseSlot, ListenerPc
  <2>2. stamps' \in [0 .. Slots - 1 -> Stamp] /\ mutex' \in Process \cup {Nobody}
    BY <1>11, CriticalType, SpecialStamps DEF CloseSlot
  <2> QED BY <1>11, <2>1, <2>2 DEF CloseSlot, TypeOK
<1> QED
  BY <1>1, <1>2, <1>3, <1>4, <1>5, <1>6, <1>7, <1>8, <1>9, <1>10, <1>11
  DEF cinema_listen_client

\* The timer's steps
LEMMA TypeTimer ==
  ASSUME TypeOK, NEW u \in Client, TimerStep(u)
  PROVE  TypeOK'
<1> USE DEF Timer
<1>1. CASE Poll(u)
  <2>1. Difference(StampOf(u)) \in Age
    BY CriticalType, DifferenceType
  <2>2. timer' \in [Client -> [at : TimerPc, seen : Age]]
    BY <1>1, <2>1 DEF Poll, TypeOK, TimerPc
  <2>3. stamps' \in [0 .. Slots - 1 -> Stamp] /\ mutex' \in Process \cup {Nobody}
    BY <1>1, CriticalType DEF Poll
  <2> QED BY <1>1, <2>2, <2>3 DEF Poll, TypeOK
<1>2. CASE StillActive(u)
  <2>1. timer' \in [Client -> [at : TimerPc, seen : Age]]
    BY <1>2, TimerType DEF StillActive, TimerPc
  <2> QED BY <1>2, <2>1 DEF StillActive, TypeOK
<1>3. CASE SendExit(u)
  <2>1. timer' \in [Client -> [at : TimerPc, seen : Age]]
    BY <1>3, TimerType DEF SendExit, TimerPc
  <2>2. requests' \in [Client -> Seq({"call", "exit"})]
    BY <1>3, SendType DEF SendExit, TypeOK
  <2> QED BY <1>3, <2>1, <2>2 DEF SendExit, TypeOK
<1>4. CASE MarkTimedOut(u)
  <2>1. timer' \in [Client -> [at : TimerPc, seen : Age]]
    BY <1>4, TimerType DEF MarkTimedOut, TimerPc
  <2>2. stamps' \in [0 .. Slots - 1 -> Stamp] /\ mutex' \in Process \cup {Nobody}
    BY <1>4, CriticalType, SpecialStamps DEF MarkTimedOut
  <2> QED BY <1>4, <2>1, <2>2 DEF MarkTimedOut, TypeOK
<1> QED BY <1>1, <1>2, <1>3, <1>4 DEF TimerStep

\* The customer's steps
LEMMA TypeCustomer ==
  ASSUME TypeOK, NEW u \in Client, CustomerStep(u)
  PROVE  TypeOK'
<1>1. CASE Call(u)
  <2>1. requests' \in [Client -> Seq({"call", "exit"})]
    BY <1>1, SendType DEF Call, Ask, TypeOK
  <2> QED BY <1>1, <2>1 DEF Call, Ask, TypeOK
<1>2. CASE Leave(u)
  <2>1. requests' \in [Client -> Seq({"call", "exit"})]
    BY <1>2, SendType DEF Leave, Ask, TypeOK
  <2> QED BY <1>2, <2>1 DEF Leave, Ask, TypeOK
<1>3. CASE TakeAnswer(u)
  <2>1. responses' \in [Client -> Seq({"answer", "exit"})]
    BY <1>3, TailType DEF TakeAnswer, TypeOK
  <2> QED BY <1>3, <2>1 DEF TakeAnswer, TypeOK
<1>4. CASE Crash(u)
  BY <1>4 DEF Crash, TypeOK
<1> QED BY <1>1, <1>2, <1>3, <1>4 DEF CustomerStep

LEMMA TypeTick == TypeOK /\ Tick => TypeOK'
<1> SUFFICES ASSUME TypeOK, Tick PROVE TypeOK'
  OBVIOUS
<1>1. stamps' \in [0 .. Slots - 1 -> Stamp]
  BY OlderType DEF Tick, TypeOK
<1>2. timer' \in [Client -> [at : TimerPc, seen : Age]]
  <2>1. ASSUME NEW u \in Client
        PROVE  timer'[u] \in [at : TimerPc, seen : Age]
    <3>1. timer[u].at \in TimerPc /\ timer[u].seen \in Age
      BY DEF TypeOK
    <3>2. /\ timer'[u].at = timer[u].at
          /\ timer'[u].seen \in {Older(timer[u].seen), 0}
          /\ timer'[u] = [at |-> timer'[u].at, seen |-> timer'[u].seen]
      BY DEF Tick
    <3> QED BY <3>1, <3>2, OlderType, SpecialStamps
  <2> QED BY <2>1 DEF Tick
<1> QED BY <1>1, <1>2 DEF Tick, TypeOK

LEMMA TypeNext == TypeOK /\ [Next]_vars => TypeOK'
<1> SUFFICES ASSUME TypeOK, [Next]_vars PROVE TypeOK'
  OBVIOUS
<1>1. ASSUME NEW u \in Client, cinema_take_client(u) PROVE TypeOK'
  <2>1. listener' \in [Client -> [at : ListenerPc, request : {"call", "exit"}]]
    BY <1>1, ListenerType DEF cinema_take_client, ListenerPc
  <2> QED BY <1>1, <2>1 DEF cinema_take_client, TypeOK
<1>2. ASSUME NEW p \in Process, semaphore_wait(p) PROVE TypeOK'
  BY <1>2 DEF semaphore_wait, TypeOK
<1>3. CASE UNCHANGED vars
  BY <1>3 DEF vars, TypeOK
<1> QED BY <1>1, <1>2, <1>3, TypeListener, TypeTimer, TypeCustomer, TypeTick DEF Next, ProcessStep

\* Whatever customers, timers and the clock do: every statement counter, message and
\* timestamp is one the code knows, and the semaphore has at most one holder.
THEOREM TypeCorrect == Spec => []TypeOK
  BY TypeInit, TypeNext, PTL DEF Spec

----------------------------------------------------------------------------
(* The semaphore.  It is enough that no process moves past a critical      *)
(* statement while it holds the semaphore, other than by releasing it.     *)

LEMMA LockInit == Init => LockIsHeldByTheLiving
  BY DEF Init, LockIsHeldByTheLiving

LEMMA ProcessPair ==
  \A p \in Process : p[1] \in {"listener", "timer"} /\ p[2] \in Client /\ p = <<p[1], p[2]>>
  BY DEF Process

\* What a process does outside of its critical statements leaves a holder alone.
LEMMA OutsideKeepsTheLock ==
  ASSUME TypeOK, LockIsHeldByTheLiving, NEW u \in Client,
         UNCHANGED mutex,
         \/ /\ UNCHANGED timer
            /\ \A v \in Client \ {u} : listener'[v].at = listener[v].at
            /\ ~InCritical(Listener(u))
         \/ /\ UNCHANGED listener
            /\ \A v \in Client \ {u} : timer'[v].at = timer[v].at
            /\ ~InCritical(Timer(u))
  PROVE  LockIsHeldByTheLiving'
<1> SUFFICES ASSUME mutex' # Nobody PROVE InCritical(mutex)'
  BY DEF LockIsHeldByTheLiving
<1>1. InCritical(mutex) /\ mutex \in Process
  BY DEF LockIsHeldByTheLiving, TypeOK
<1>2. PICK kind \in {"listener", "timer"}, w \in Client : mutex = <<kind, w>>
  BY <1>1, ProcessPair
<1>3. InCritical(<<kind, w>>)' /\ mutex' = <<kind, w>>
  BY <1>1, <1>2 DEF InCritical, Listener, Timer
<1> QED BY <1>3

\* A critical statement ends with semaphore_signal.
LEMMA Released ==
  ASSUME mutex' = Nobody
  PROVE  LockIsHeldByTheLiving'
  BY DEF LockIsHeldByTheLiving

LEMMA LockNext ==
  TypeOK /\ LockIsHeldByTheLiving /\ [Next]_vars => LockIsHeldByTheLiving'
<1> SUFFICES ASSUME TypeOK, LockIsHeldByTheLiving, [Next]_vars
             PROVE  LockIsHeldByTheLiving'
  OBVIOUS
<1>1. ASSUME NEW u \in Client, cinema_take_client(u) PROVE LockIsHeldByTheLiving'
  <2>1. /\ \A v \in Client \ {u} : listener'[v].at = listener[v].at
        /\ ~InCritical(Listener(u))
    BY <1>1 DEF cinema_take_client, ListenerGoes, InCritical, Listener, TypeOK
  <2> QED BY <1>1, <2>1, OutsideKeepsTheLock DEF cinema_take_client
<1>2. ASSUME NEW u \in Client, cinema_listen_client(u) PROVE LockIsHeldByTheLiving'
  <2>1. CASE start_timer(u) \/ Check(u) \/ Touch(u) \/ Verify(u) \/ CloseSlot(u)
    BY <2>1, Released
    DEF start_timer, Check, Touch, Verify, CloseSlot, update_timestamp, get_timestamp
  <2>2. CASE ReceiveRequest(u) \/ Forward(u) \/ Answer(u) \/ EndSession(u) \/ Drain(u)
    <3>1. /\ \A v \in Client \ {u} : listener'[v].at = listener[v].at
          /\ ~InCritical(Listener(u))
          /\ UNCHANGED <<timer, mutex>>
      BY <2>2 DEF ReceiveRequest, Forward, Answer, EndSession, Drain, ListenerGoes,
                  InCritical, Listener, TypeOK
    <3> QED BY <3>1, OutsideKeepsTheLock
  <2>3. CASE KillTimer(u)
    <3>1. CASE mutex = Timer(u)
      BY <2>3, <3>1, Released DEF KillTimer
    <3>2. CASE mutex # Timer(u)
      <4> SUFFICES ASSUME mutex # Nobody PROVE InCritical(mutex)'
        BY <2>3, <3>2 DEF KillTimer, LockIsHeldByTheLiving
      <4>1. InCritical(mutex) /\ mutex \in Process /\ mutex' = mutex
        BY <2>3, <3>2 DEF KillTimer, LockIsHeldByTheLiving, TypeOK
      <4>2. PICK kind \in {"listener", "timer"}, w \in Client : mutex = <<kind, w>>
        BY <4>1, ProcessPair
      <4>3. \/ kind = "listener" /\ w # u /\ listener'[w].at = listener[w].at
            \/ kind = "timer" /\ w # u /\ timer'[w].at = timer[w].at
        BY <2>3, <3>2, <4>1, <4>2 DEF KillTimer, ListenerGoes, InCritical, Timer, TypeOK
      <4> QED BY <4>1, <4>2, <4>3 DEF InCritical
    <3> QED BY <3>1, <3>2
  <2> QED BY <1>2, <2>1, <2>2, <2>3 DEF cinema_listen_client
<1>3. ASSUME NEW u \in Client, TimerStep(u) PROVE LockIsHeldByTheLiving'
  <2>1. CASE Poll(u) \/ MarkTimedOut(u)
    BY <2>1, Released DEF Poll, MarkTimedOut, update_timestamp, get_timestamp
  <2>2. CASE StillActive(u) \/ SendExit(u)
    <3>1. /\ \A v \in Client \ {u} : timer'[v].at = timer[v].at
          /\ ~InCritical(Timer(u))
          /\ UNCHANGED <<listener, mutex>>
      BY <2>2 DEF StillActive, SendExit, TimerGoes, InCritical, Timer, TypeOK
    <3> QED BY <3>1, OutsideKeepsTheLock
  <2> QED BY <1>3, <2>1, <2>2 DEF TimerStep
<1>4. CASE \/ \E u \in Client : CustomerStep(u)
           \/ UNCHANGED vars
  <2>1. UNCHANGED <<listener, timer, mutex>>
    BY <1>4 DEF CustomerStep, Call, Leave, Ask, TakeAnswer, Crash, vars
  <2> QED BY <2>1 DEF LockIsHeldByTheLiving, InCritical
<1>5. ASSUME NEW p \in Process, semaphore_wait(p) PROVE LockIsHeldByTheLiving'
  BY <1>5 DEF semaphore_wait, LockIsHeldByTheLiving, InCritical
<1>6. CASE Tick
  <2>1. UNCHANGED <<listener, mutex>> /\ \A v \in Client : timer'[v].at = timer[v].at
    BY <1>6 DEF Tick
  <2>2. mutex # Nobody => mutex[2] \in Client
    BY DEF TypeOK, Process
  <2> QED BY <2>1, <2>2 DEF LockIsHeldByTheLiving, InCritical
<1> QED BY <1>1, <1>2, <1>3, <1>4, <1>5, <1>6 DEF Next, ProcessStep

\* A timer may be killed between semaphore_wait and semaphore_signal (cinema.cpp:159,
\* semaphore.cpp:45): even so the semaphore is never held by a process that will not
\* release it with its next step, however many sessions contend for it.
THEOREM LockIsHeldByTheLivingHolds == Spec => []LockIsHeldByTheLiving
  BY LockInit, LockNext, TypeCorrect, PTL DEF Spec

----------------------------------------------------------------------------
(* The session as the rest of the cinema sees it (ListenerService).        *)
(* Fairness is left to the model checker.                                  *)

LEMMA ServiceInit == Init => Service!Init
  BY DEF Init, Service!Init, SessionOf

\* A listener that goes from one statement to the next moves its own session only.
LEMMA ServiceMove ==
  ASSUME TypeOK, NEW u \in Client, NEW before, NEW after,
         listener[u].at # listener'[u].at,
         \A v \in Client \ {u} : listener'[v] = listener[v],
         SessionOf(u) = before, SessionOf(u)' = after
  PROVE  Service!Become(u, before, after)
<1> DEFINE now == [v \in Client |-> SessionOf(v)]
<1>1. \A v \in Client \ {u} : SessionOf(v)' = SessionOf(v)
  BY DEF SessionOf, Ended
<1>2. [v \in Client |-> SessionOf(v)'] = [now EXCEPT ![u] = after]
  BY <1>1
<1> QED BY <1>2 DEF Service!Become

LEMMA ServiceStutter ==
  ASSUME \A v \in Client : SessionOf(v)' = SessionOf(v)
  PROVE  UNCHANGED Service!vars
<1>1. [v \in Client |-> SessionOf(v)'] = [v \in Client |-> SessionOf(v)]
  OBVIOUS
<1> QED BY <1>1 DEF Service!vars

LEMMA ServiceListener ==
  ASSUME TypeOK, NEW u \in Client,
         cinema_take_client(u) \/ cinema_listen_client(u)
  PROVE  Service!Next \/ UNCHANGED Service!vars
<1>1. /\ \A v \in Client \ {u} : listener'[v] = listener[v]
      /\ listener' \in [Client -> [at : ListenerPc, request : {"call", "exit"}]]
  <2>1. TypeOK'
    BY TypeNext DEF Next, ProcessStep
  <2>2. \A v \in Client \ {u} : listener'[v] = listener[v]
    BY DEF cinema_take_client, cinema_listen_client, start_timer, ReceiveRequest, Check, Touch,
           Forward, Answer, EndSession, KillTimer, Verify, Drain, CloseSlot, ListenerGoes, TypeOK
  <2> QED BY <2>1, <2>2 DEF TypeOK
<1>2. CASE cinema_take_client(u)
  <2>1. listener[u].at = "none" /\ listener'[u].at = "start"
    BY <1>2 DEF cinema_take_client, ListenerGoes, TypeOK
  <2>2. SessionOf(u) = "none" /\ SessionOf(u)' = "open"
    BY <2>1 DEF SessionOf, Ended
  <2> QED BY <1>1, <2>1, <2>2, ServiceMove DEF Service!Next, Service!Open
<1>3. CASE Forward(u)
  <2>1. listener[u].at = "handle" /\ listener'[u].at = "await"
    BY <1>3 DEF Forward, ListenerGoes, TypeOK
  <2>2. SessionOf(u) = "open" /\ SessionOf(u)' = "waiting"
    BY <2>1 DEF SessionOf, Ended
  <2> QED BY <1>1, <2>1, <2>2, ServiceMove DEF Service!Next, Service!Ask
<1>4. CASE Answer(u)
  <2>1. listener[u].at = "await" /\ listener'[u].at = "receive"
    BY <1>4 DEF Answer, ListenerGoes, TypeOK
  <2>2. SessionOf(u) = "waiting" /\ SessionOf(u)' = "open"
    BY <2>1 DEF SessionOf, Ended
  <2> QED BY <1>1, <2>1, <2>2, ServiceMove DEF Service!Next, Service!Answer
<1>5. CASE EndSession(u)
  <2>1. listener[u].at = "handle" /\ listener'[u].at = "kill"
    BY <1>5 DEF EndSession, ListenerGoes, TypeOK
  <2>2. SessionOf(u) = "open" /\ SessionOf(u)' = "closed"
    BY <2>1 DEF SessionOf, Ended
  <2> QED BY <1>1, <2>1, <2>2, ServiceMove DEF Service!Next, Service!End
<1>6. CASE start_timer(u) \/ ReceiveRequest(u) \/ Check(u) \/ Touch(u)
  <2>1. /\ listener[u].at \in {"start", "receive", "check", "touch"}
        /\ listener'[u].at \in {"receive", "check", "touch", "handle"}
    BY <1>6 DEF start_timer, ReceiveRequest, Check, Touch, ListenerGoes, TypeOK
  <2>2. SessionOf(u)' = SessionOf(u)
    BY <2>1 DEF SessionOf, Ended
  <2> QED BY <1>1, <2>2, ServiceStutter DEF SessionOf, Ended
<1>7. CASE KillTimer(u) \/ Verify(u) \/ Drain(u) \/ CloseSlot(u)
  <2>1. Ended(u) /\ Ended(u)'
    BY <1>7 DEF KillTimer, Verify, Drain, CloseSlot, ListenerGoes, TypeOK, Ended
  <2>2. SessionOf(u)' = SessionOf(u)
    BY <2>1 DEF SessionOf, Ended
  <2> QED BY <1>1, <2>2, ServiceStutter DEF SessionOf, Ended
<1> QED BY <1>2, <1>3, <1>4, <1>5, <1>6, <1>7 DEF cinema_listen_client

LEMMA ServiceNext ==
  TypeOK /\ [Next]_vars => [Service!Next]_(Service!vars)
<1> SUFFICES ASSUME TypeOK, [Next]_vars
             PROVE  Service!Next \/ UNCHANGED Service!vars
  OBVIOUS
<1>1. CASE UNCHANGED listener
  BY <1>1, ServiceStutter DEF SessionOf, Ended
<1>2. CASE \/ \E u \in Client : TimerStep(u) \/ CustomerStep(u)
           \/ \E p \in Process : semaphore_wait(p)
           \/ Tick
           \/ UNCHANGED vars
  <2>1. UNCHANGED listener
    BY <1>2 DEF TimerStep, Poll, StillActive, SendExit, MarkTimedOut, CustomerStep, Call, Leave,
                Ask, TakeAnswer, Crash, semaphore_wait, Tick, vars
  <2> QED BY <2>1, <1>1
<1> QED BY <1>1, <1>2, ServiceListener DEF Next, ProcessStep

\* Listener, timer and table together are a session as BoxOffice assumes it: opened once,
\* one call at a time, each answered before the next or the end, and ended once, even for
\* customers who share a slot and whatever moment the timer chooses.
THEOREM ServiceImplemented == Spec => Service!Spec
  BY ServiceInit, ServiceNext, TypeCorrect, PTL DEF Spec, Service!Spec
----------------------------------------------------------------------------
(* Counting messages: what sending one and taking one do to the counts     *)

LEMMA PositionsFinite ==
  ASSUME NEW M, NEW queue \in Seq(M), NEW message
  PROVE  IsFiniteSet({i \in DOMAIN queue : queue[i] = message})
<1>1. IsFiniteSet(DOMAIN queue)
  BY FS_Interval, LenProperties, 1 \in Int, Len(queue) \in Int
<1>2. {i \in DOMAIN queue : queue[i] = message} \subseteq DOMAIN queue
  OBVIOUS
<1> QED BY <1>1, <1>2, FS_Subset

LEMMA CountType ==
  ASSUME NEW M, NEW queue \in Seq(M), NEW message
  PROVE  Count(queue, message) \in Nat
<1> DEFINE S == {i \in DOMAIN queue : queue[i] = message}
<1>1. IsFiniteSet(S)
  BY PositionsFinite
<1> HIDE DEF S
<1>2. Cardinality(S) \in Nat
  BY <1>1, FS_CardinalityType
<1> QED BY <1>2 DEF S, Count

LEMMA CountEmpty == \A message : Count(<<>>, message) = 0
<1>1. \A message : {i \in DOMAIN <<>> : <<>>[i] = message} = {}
  OBVIOUS
<1> QED BY <1>1, FS_EmptySet DEF Count

LEMMA CountAppend ==
  ASSUME NEW M, NEW queue \in Seq(M), NEW last \in M, NEW message
  PROVE  Count(Append(queue, last), message)
           = Count(queue, message) + (IF last = message THEN 1 ELSE 0)
<1> DEFINE longer == Append(queue, last)
           before == {i \in DOMAIN queue : queue[i] = message}
           after == {i \in DOMAIN longer : longer[i] = message}
<1>1. /\ Len(queue) \in Nat
      /\ DOMAIN queue = 1 .. Len(queue)
      /\ DOMAIN longer = 1 .. Len(queue) + 1
      /\ longer[Len(queue) + 1] = last
      /\ \A i \in 1 .. Len(queue) : longer[i] = queue[i]
  BY AppendProperties, LenProperties
<1>2. IsFiniteSet(before) /\ Cardinality(before) \in Nat
  <2>1. IsFiniteSet(before)
    BY PositionsFinite
  <2> QED BY <2>1, FS_CardinalityType
<1>3. CASE last = message
  <2>1. after = before \cup {Len(queue) + 1} /\ Len(queue) + 1 \notin before
    <3> HIDE DEF longer
    <3> QED BY <1>1, <1>3
  <2> HIDE DEF longer, before, after
  <2>2. Cardinality(after) = Cardinality(before) + 1
    BY <2>1, <1>2, FS_AddElement
  <2> QED BY <2>2, <1>3 DEF Count, longer, before, after
<1>4. CASE last # message
  <2>1. after = before
    <3> HIDE DEF longer
    <3> QED BY <1>1, <1>4
  <2>2. Count(longer, message) = Count(queue, message)
    BY <2>1 DEF Count
  <2>3. Count(queue, message) \in Nat
    BY <1>2 DEF Count
  <2> QED BY <2>2, <2>3, <1>4
<1> QED BY <1>3, <1>4

LEMMA CountTail ==
  ASSUME NEW M, NEW queue \in Seq(M), queue # <<>>, NEW message
  PROVE  Count(Tail(queue), message)
           = Count(queue, message) - (IF Head(queue) = message THEN 1 ELSE 0)
<1> DEFINE rest == Tail(queue)
           before == {i \in DOMAIN queue : queue[i] = message}
           after == {i \in DOMAIN rest : rest[i] = message}
           later == before \ {1}
           Down == [i \in later |-> i - 1]
<1>1. /\ Len(queue) \in Nat \ {0}
      /\ DOMAIN queue = 1 .. Len(queue)
      /\ DOMAIN rest = 1 .. Len(queue) - 1
      /\ \A i \in 1 .. Len(queue) - 1 : rest[i] = queue[i + 1]
      /\ Head(queue) = queue[1]
  BY EmptySeq, LenProperties, HeadTailProperties
<1>2. IsFiniteSet(before) /\ Cardinality(before) \in Nat
  <2>1. IsFiniteSet(before)
    BY PositionsFinite
  <2> QED BY <2>1, FS_CardinalityType
<1>3. after \subseteq Int /\ before \subseteq 1 .. Len(queue)
  BY <1>1
<1>4. Down \in Bijection(later, after)
  <2> HIDE DEF rest
  <2>1. \A i \in later : Down[i] \in after
    BY <1>1
  <2>2. \A i, j \in later : Down[i] = Down[j] => i = j
    BY <1>3
  <2>3. \A j \in after : j + 1 \in later /\ Down[j + 1] = j
    BY <1>1
  <2> HIDE DEF after, later
  <2>4. Down \in [later -> after]
    BY <2>1
  <2> QED BY <2>2, <2>3, <2>4 DEF Bijection, Injection, Surjection, IsInjective
<1> HIDE DEF Down
<1>5. IsFiniteSet(later) /\ Cardinality(after) = Cardinality(later)
  <2>1. IsFiniteSet(later)
    BY <1>2, FS_RemoveElement
  <2>2. ExistsBijection(later, after)
    BY <1>4 DEF ExistsBijection
  <2> HIDE DEF later, after
  <2> QED BY <2>1, <2>2, FS_Bijection
<1>6. Cardinality(later) = IF 1 \in before THEN Cardinality(before) - 1 ELSE Cardinality(before)
  <2> HIDE DEF before
  <2> QED BY <1>2, FS_RemoveElement
<1>7. 1 \in before <=> Head(queue) = message
  BY <1>1
<1> HIDE DEF before, after, later
<1>8. Cardinality(after) = Cardinality(before) - (IF Head(queue) = message THEN 1 ELSE 0)
  BY <1>2, <1>5, <1>6, <1>7
<1> QED BY <1>8 DEF Count, before, after, rest

\* A queue holds nothing but messages of its kinds.
LEMMA CountAll ==
  ASSUME NEW m, NEW n, m # n, NEW queue \in Seq({m, n})
  PROVE  Len(queue) = Count(queue, m) + Count(queue, n)
<1> DEFINE A == {i \in DOMAIN queue : queue[i] = m}
           B == {i \in DOMAIN queue : queue[i] = n}
<1>1. /\ Len(queue) \in Nat
      /\ DOMAIN queue = 1 .. Len(queue)
      /\ \A i \in DOMAIN queue : queue[i] \in {m, n}
  BY LenProperties
<1>2. IsFiniteSet(A) /\ IsFiniteSet(B)
  BY PositionsFinite
<1>3. A \cap B = {} /\ A \cup B = 1 .. Len(queue)
  BY <1>1
<1>4. Cardinality(1 .. Len(queue)) = Len(queue)
  BY <1>1, FS_Interval, 1 \in Int, Len(queue) \in Int
<1> HIDE DEF A, B
<1>5. Cardinality(A \cup B) = Cardinality(A) + Cardinality(B)
  <2>1. /\ Cardinality(A \cup B) = Cardinality(A) + Cardinality(B) - Cardinality(A \cap B)
        /\ Cardinality(A) \in Nat /\ Cardinality(B) \in Nat
    BY <1>2, FS_Union, FS_CardinalityType
  <2>2. Cardinality(A \cap B) = 0
    BY <1>3, FS_EmptySet
  <2> QED BY <2>1, <2>2
<1> QED BY <1>3, <1>4, <1>5 DEF Count, A, B


----------------------------------------------------------------------------
(* Calls and answers.  While the session lasts, what is under way is what  *)
(* the customer waits for and, once the timer has sent it, one EXIT; when  *)
(* it has ended, there is room for one message more: the EXIT of a timer   *)
(* that still runs, or a call by a customer who has yet to read the EXIT.  *)

One(b) == IF b THEN 1 ELSE 0

InHand(u, request) ==
    One(/\ listener[u].at \in {"check", "touch", "handle", "await"}
        /\ listener[u].request = request)

ExitsUnderWay(u) == Count(requests[u], "exit") + InHand(u, "exit")

\* The timer has sent nothing so far.
MaySend(u) == timer[u].at \in {"none", "poll", "compare"}

Places(u) ==
    /\ timer[u].at # "killed"
    /\ (timer[u].at = "none") <=> (listener[u].at \in {"none", "start"})
    /\ (customer[u] = "new") <=> (listener[u].at = "none")
    /\ customer[u] # "gone"
    /\ listener[u].at = "await" => listener[u].request = "call"

Sums(u) ==
    /\ Count(responses[u], "exit") = 0
    /\ customer[u] # "crashed" =>
          /\ CallsUnderWay(u) = One(customer[u] = "waiting")
          /\ ExitsUnderWay(u) = One(customer[u] = "leaving") + One(~MaySend(u))
    /\ CallsUnderWay(u) + ExitsUnderWay(u) <= 1 + One(~MaySend(u))

Room(u) ==
    /\ customer[u] # "new"
    /\ timer[u].at # "none"
    /\ Len(requests[u]) + Count(responses[u], "answer")
       + One(MaySend(u)) + One(customer[u] = "idle") <= 1

ExitIsLast(u) ==
    \A i \in DOMAIN responses[u] :
        responses[u][i] = "exit" => i = Len(responses[u]) /\ Ended(u)

SessionInv(u) ==
    /\ ~Ended(u) => Places(u) /\ Sums(u)
    /\ Ended(u) => Room(u)
    /\ ExitIsLast(u)

CallInv == \A u \in Client : SessionInv(u)

LEMMA OneType == \A b \in BOOLEAN : One(b) \in {0, 1} /\ (One(b) = 1 <=> b)
  BY DEF One

LEMMA TailCounts ==
  ASSUME NEW M, NEW queue \in Seq(M), queue # <<>>
  PROVE  /\ Len(Tail(queue)) = Len(queue) - 1
         /\ Head(queue) = queue[1] /\ 1 \in DOMAIN queue
         /\ \A i \in DOMAIN Tail(queue) : Tail(queue)[i] = queue[i + 1] /\ i + 1 \in DOMAIN queue
  BY EmptySeq, LenProperties, HeadTailProperties

LEMMA CallsCounted ==
  ASSUME NEW u \in Client
  PROVE  /\ CallsUnderWay(u) = Count(requests[u], "call") + Count(responses[u], "answer")
                               + InHand(u, "call")
         /\ CallsUnderWay(u)' = Count(requests'[u], "call") + Count(responses'[u], "answer")
                                + InHand(u, "call")'
         /\ ExitsUnderWay(u) = Count(requests[u], "exit") + InHand(u, "exit")
         /\ ExitsUnderWay(u)' = Count(requests'[u], "exit") + InHand(u, "exit")'
  BY DEF CallsUnderWay, ExitsUnderWay, InHand, One

\* The counts of a customer's queues
LEMMA QueueCounts ==
  ASSUME TypeOK, NEW u \in Client
  PROVE  /\ \A m : Count(requests[u], m) \in Nat /\ Count(responses[u], m) \in Nat
         /\ Len(requests[u]) = Count(requests[u], "call") + Count(requests[u], "exit")
         /\ Len(responses[u]) = Count(responses[u], "answer") + Count(responses[u], "exit")
         /\ requests[u] = <<>> <=> Len(requests[u]) = 0
<1>1. requests[u] \in Seq({"call", "exit"}) /\ responses[u] \in Seq({"answer", "exit"})
  BY DEF TypeOK
<1>2. \A m : Count(requests[u], m) \in Nat /\ Count(responses[u], m) \in Nat
  BY <1>1, CountType
<1>3. /\ Len(requests[u]) = Count(requests[u], "call") + Count(requests[u], "exit")
      /\ Len(responses[u]) = Count(responses[u], "answer") + Count(responses[u], "exit")
  BY <1>1, CountAll
<1>4. requests[u] = <<>> <=> Len(requests[u]) = 0
  BY <1>1, EmptySeq
<1> QED BY <1>2, <1>3, <1>4

LEMMA SessionNumbers ==
  ASSUME TypeOK, NEW u \in Client
  PROVE  /\ Count(requests[u], "call") \in Nat /\ Count(requests[u], "exit") \in Nat
         /\ Count(responses[u], "answer") \in Nat /\ Len(requests[u]) \in Nat
         /\ InHand(u, "call") \in Nat /\ InHand(u, "exit") \in Nat
         /\ CallsUnderWay(u) \in Nat /\ ExitsUnderWay(u) \in Nat
         /\ \A state : One(customer[u] = state) \in Nat
<1>1. InHand(u, "call") \in Nat /\ InHand(u, "exit") \in Nat
  BY DEF InHand, One
<1>2. requests[u] \in Seq({"call", "exit"})
  BY DEF TypeOK
<1>3. Len(requests[u]) \in Nat
  BY <1>2, LenProperties
<1>4. /\ Count(requests[u], "call") \in Nat /\ Count(requests[u], "exit") \in Nat
      /\ Count(responses[u], "answer") \in Nat
  BY QueueCounts
<1>5. CallsUnderWay(u) \in Nat /\ ExitsUnderWay(u) \in Nat
  BY <1>1, <1>4, CallsCounted
<1>6. \A state : One(customer[u] = state) \in Nat
  BY DEF One
<1> QED BY <1>1, <1>3, <1>4, <1>5, <1>6

\* A customer about whom nothing changes but the age its timer read
LEMMA SessionFrame ==
  ASSUME NEW v \in Client, SessionInv(v),
         listener'[v] = listener[v], timer'[v].at = timer[v].at, customer'[v] = customer[v],
         requests'[v] = requests[v], responses'[v] = responses[v]
  PROVE  SessionInv(v)'
  BY DEF SessionInv, Places, Sums, Room, ExitIsLast, Ended, MaySend, CallsUnderWay,
         ExitsUnderWay, InHand

LEMMA SessionInit == Init => CallInv
<1> SUFFICES ASSUME Init, NEW u \in Client PROVE SessionInv(u)
  BY DEF CallInv
<1>1. /\ requests[u] = <<>> /\ responses[u] = <<>> /\ listener[u].at = "none"
      /\ timer[u].at = "none" /\ customer[u] = "new"
  BY DEF Init
<1>2. Count(requests[u], "call") = 0 /\ Count(requests[u], "exit") = 0
      /\ Count(responses[u], "answer") = 0 /\ Count(responses[u], "exit") = 0
  BY <1>1, CountEmpty
<1>3. ~Ended(u)
  BY <1>1 DEF Ended
<1>4. Places(u)
  BY <1>1 DEF Places
<1>5. Sums(u)
  BY <1>1, <1>2 DEF Sums, CallsUnderWay, ExitsUnderWay, InHand, MaySend, One
<1>6. ExitIsLast(u)
  BY <1>1 DEF ExitIsLast
<1> QED BY <1>3, <1>4, <1>5, <1>6 DEF SessionInv


\* One step of one customer's processes, one lemma per kind of step
LEMMA SessionBegins ==
  ASSUME TypeOK, NEW u \in Client, SessionInv(u), cinema_take_client(u) \/ start_timer(u)
  PROVE  SessionInv(u)'
<1>1. CASE cinema_take_client(u)
  <2>1. /\ listener[u].at = "none" /\ listener'[u] = [listener[u] EXCEPT !.at = "start"]
        /\ customer[u] = "new" /\ customer'[u] = "idle"
        /\ timer'[u] = timer[u] /\ requests'[u] = requests[u] /\ responses'[u] = responses[u]
    BY <1>1 DEF cinema_take_client, ListenerGoes, TypeOK
  <2>2. listener'[u].at = "start" /\ ~Ended(u) /\ ~Ended(u)'
    BY <2>1 DEF Ended, TypeOK
  <2>3. Places(u)'
    BY <2>1, <2>2 DEF SessionInv, Places
  <2>4. Sums(u)'
    BY <2>1, <2>2 DEF SessionInv, Sums, CallsUnderWay, ExitsUnderWay, InHand, MaySend, One
  <2> QED BY <2>1, <2>2, <2>3, <2>4 DEF SessionInv, ExitIsLast
<1>2. CASE start_timer(u)
  <2>1. /\ listener[u].at = "start" /\ listener'[u] = [listener[u] EXCEPT !.at = "receive"]
        /\ timer'[u].at = "poll" /\ customer'[u] = customer[u]
        /\ requests'[u] = requests[u] /\ responses'[u] = responses[u]
    BY <1>2 DEF start_timer, ListenerGoes, TypeOK
  <2>2. listener'[u].at = "receive" /\ ~Ended(u) /\ ~Ended(u)'
    BY <2>1 DEF Ended, TypeOK
  <2>3. Places(u)'
    BY <2>1, <2>2 DEF SessionInv, Places
  <2>4. Sums(u)'
    BY <2>1, <2>2 DEF SessionInv, Sums, Places, CallsUnderWay, ExitsUnderWay, InHand, MaySend, One
  <2> QED BY <2>1, <2>2, <2>3, <2>4 DEF SessionInv, ExitIsLast
<1> QED BY <1>1, <1>2

LEMMA SessionReceives ==
  ASSUME TypeOK, NEW u \in Client, SessionInv(u), ReceiveRequest(u)
  PROVE  SessionInv(u)'
<1>1. /\ listener[u].at = "receive"
      /\ listener'[u].at = "check" /\ listener'[u].request = Head(requests[u])
      /\ timer'[u] = timer[u] /\ customer'[u] = customer[u] /\ responses'[u] = responses[u]
      /\ requests' = [requests EXCEPT ![u] = Tail(@)] /\ requests[u] # <<>>
  BY DEF ReceiveRequest, TypeOK
<1>2. Head(requests[u]) \in {"call", "exit"}
  BY <1>1, TailType DEF TypeOK
<1>3. \A m : Count(requests'[u], m) = Count(requests[u], m) - (IF Head(requests[u]) = m THEN 1 ELSE 0)
  <2>1. requests[u] \in Seq({"call", "exit"}) /\ requests'[u] = Tail(requests[u])
    BY <1>1 DEF TypeOK
  <2> QED BY <1>1, <2>1, CountTail
<1>4. ~Ended(u) /\ ~Ended(u)'
  BY <1>1 DEF Ended
<1>5. CallsUnderWay(u)' = CallsUnderWay(u) /\ ExitsUnderWay(u)' = ExitsUnderWay(u)
  <2>1. /\ InHand(u, "call")' = (IF Head(requests[u]) = "call" THEN 1 ELSE 0)
        /\ InHand(u, "exit")' = (IF Head(requests[u]) = "exit" THEN 1 ELSE 0)
        /\ InHand(u, "call") = 0 /\ InHand(u, "exit") = 0
    BY <1>1 DEF InHand, One
  <2>2. /\ Count(requests'[u], "call")
             = Count(requests[u], "call") - (IF Head(requests[u]) = "call" THEN 1 ELSE 0)
        /\ Count(requests'[u], "exit")
             = Count(requests[u], "exit") - (IF Head(requests[u]) = "exit" THEN 1 ELSE 0)
        /\ Count(responses'[u], "answer") = Count(responses[u], "answer")
    BY <1>1, <1>3
  <2>3. /\ Count(requests[u], "call") \in Nat /\ Count(requests[u], "exit") \in Nat
        /\ Count(responses[u], "answer") \in Nat
    BY QueueCounts
  <2>4. CASE Head(requests[u]) = "call"
    BY <2>1, <2>2, <2>3, <2>4, CallsCounted
  <2>5. CASE Head(requests[u]) = "exit"
    BY <2>1, <2>2, <2>3, <2>5, CallsCounted
  <2> QED BY <1>2, <2>4, <2>5
<1>6. Places(u)'
  BY <1>1, <1>4 DEF SessionInv, Places
<1>7. Sums(u)'
  BY <1>1, <1>4, <1>5 DEF SessionInv, Sums, MaySend
<1> QED BY <1>1, <1>4, <1>6, <1>7 DEF SessionInv, ExitIsLast

\* The statements before the call goes to the admin or the session ends
LEMMA SessionProceeds ==
  ASSUME TypeOK, NEW u \in Client, SessionInv(u), Check(u) \/ Touch(u) \/ Forward(u)
  PROVE  SessionInv(u)'
<1>1. /\ listener[u].at \in {"check", "touch", "handle"}
      /\ listener'[u].at \in {"touch", "handle", "await"}
      /\ listener'[u].at = "await" => listener[u].request = "call"
      /\ listener'[u].request = listener[u].request
      /\ timer'[u] = timer[u] /\ customer'[u] = customer[u]
      /\ requests'[u] = requests[u] /\ responses'[u] = responses[u]
  BY DEF Check, Touch, Forward, ListenerGoes, TypeOK
<1>2. ~Ended(u) /\ ~Ended(u)'
  BY <1>1 DEF Ended
<1>3. CallsUnderWay(u)' = CallsUnderWay(u) /\ ExitsUnderWay(u)' = ExitsUnderWay(u)
  BY <1>1 DEF CallsUnderWay, ExitsUnderWay, InHand
<1>4. Places(u)'
  BY <1>1, <1>2 DEF SessionInv, Places
<1>5. Sums(u)'
  BY <1>1, <1>2, <1>3 DEF SessionInv, Sums, MaySend
<1> QED BY <1>1, <1>2, <1>4, <1>5 DEF SessionInv, ExitIsLast

LEMMA SessionAnswers ==
  ASSUME TypeOK, NEW u \in Client, SessionInv(u), Answer(u)
  PROVE  SessionInv(u)'
<1>1. /\ listener[u].at = "await" /\ listener'[u].at = "receive"
      /\ timer'[u] = timer[u] /\ customer'[u] = customer[u] /\ requests'[u] = requests[u]
      /\ responses' = Send(responses, u, "answer")
  BY DEF Answer, ListenerGoes, TypeOK
<1>2. ~Ended(u) /\ ~Ended(u)'
  BY <1>1 DEF Ended
<1>3. \A m : Count(responses'[u], m) = Count(responses[u], m) + (IF "answer" = m THEN 1 ELSE 0)
  <2>1. /\ responses[u] \in Seq({"answer", "exit"})
        /\ responses'[u] = Append(responses[u], "answer")
    BY <1>1 DEF Send, TypeOK
  <2> QED BY <2>1, CountAppend
<1>4. listener[u].request = "call"
  BY <1>1, <1>2 DEF SessionInv, Places
<1>5. CallsUnderWay(u)' = CallsUnderWay(u) /\ ExitsUnderWay(u)' = ExitsUnderWay(u)
  <2>1. /\ InHand(u, "call") = 1 /\ InHand(u, "call")' = 0
        /\ InHand(u, "exit") = 0 /\ InHand(u, "exit")' = 0
    BY <1>1, <1>4 DEF InHand, One
  <2>2. /\ Count(responses'[u], "answer") = Count(responses[u], "answer") + 1
        /\ requests'[u] = requests[u]
    BY <1>1, <1>3
  <2>3. /\ Count(requests[u], "call") \in Nat /\ Count(requests[u], "exit") \in Nat
        /\ Count(responses[u], "answer") \in Nat
    BY QueueCounts
  <2> QED BY <2>1, <2>2, <2>3, CallsCounted
<1>6. Places(u)'
  BY <1>1, <1>2 DEF SessionInv, Places
<1>7. Sums(u)'
  BY <1>1, <1>2, <1>3, <1>5, QueueCounts DEF SessionInv, Sums, MaySend
<1>8. ExitIsLast(u)'
  <2>1. responses[u] \in Seq({"answer", "exit"}) /\ responses'[u] = Append(responses[u], "answer")
    BY <1>1 DEF TypeOK, Send
  <2>2. \A i \in DOMAIN responses[u] : responses[u][i] # "exit"
    BY <1>2 DEF SessionInv, ExitIsLast
  <2>3. \A i \in DOMAIN responses'[u] : responses'[u][i] # "exit"
    BY <2>1, <2>2, AppendProperties, LenProperties
  <2> QED BY <2>3 DEF ExitIsLast
<1> QED BY <1>2, <1>6, <1>7, <1>8 DEF SessionInv

\* The EXIT taken from the queue leaves room for one message.
LEMMA SessionEnds ==
  ASSUME TypeOK, NEW u \in Client, SessionInv(u), EndSession(u)
  PROVE  SessionInv(u)'
<1>1. /\ listener[u].at = "handle" /\ listener[u].request = "exit" /\ listener'[u].at = "kill"
      /\ timer'[u] = timer[u] /\ customer'[u] = customer[u] /\ requests'[u] = requests[u]
      /\ responses' = Send(responses, u, "exit")
  BY DEF EndSession, ListenerGoes, TypeOK
<1>2. ~Ended(u) /\ Ended(u)'
  BY <1>1 DEF Ended
<1>3. \A m : Count(responses'[u], m) = Count(responses[u], m) + (IF "exit" = m THEN 1 ELSE 0)
  <2>1. /\ responses[u] \in Seq({"answer", "exit"})
        /\ responses'[u] = Append(responses[u], "exit")
    BY <1>1 DEF Send, TypeOK
  <2> QED BY <2>1, CountAppend
<1>4. Places(u) /\ Sums(u)
  BY <1>2 DEF SessionInv
<1>5. /\ Len(requests'[u]) + Count(responses'[u], "answer") + 1 = CallsUnderWay(u) + ExitsUnderWay(u)
      /\ Len(requests'[u]) \in Nat /\ Count(responses'[u], "answer") \in Nat
  <2>1. InHand(u, "call") = 0 /\ InHand(u, "exit") = 1
    BY <1>1 DEF InHand, One
  <2>2. Count(responses'[u], "answer") = Count(responses[u], "answer") /\ requests'[u] = requests[u]
    <3>1. Count(responses'[u], "answer") = Count(responses[u], "answer") + 0
      BY <1>3
    <3> QED BY <3>1, <1>1, QueueCounts
  <2>3. /\ Count(requests[u], "call") \in Nat /\ Count(requests[u], "exit") \in Nat
        /\ Count(responses[u], "answer") \in Nat
        /\ Len(requests[u]) = Count(requests[u], "call") + Count(requests[u], "exit")
    BY QueueCounts
  <2>4. Len(requests'[u]) = Count(requests[u], "call") + Count(requests[u], "exit")
    BY <2>2, <2>3
  <2>5. /\ CallsUnderWay(u) = Count(requests[u], "call") + Count(responses[u], "answer")
        /\ ExitsUnderWay(u) = Count(requests[u], "exit") + 1
    BY <2>1, <2>3, CallsCounted
  <2> QED BY <2>2, <2>3, <2>4, <2>5, SMTT(30)
<1>6. Len(requests'[u]) + Count(responses'[u], "answer") + One(MaySend(u)) <= 1
  BY <1>4, <1>5 DEF Sums, MaySend, One
<1>7. customer[u] = "idle" =>
        Len(requests'[u]) + Count(responses'[u], "answer") + One(MaySend(u)) = 0
  <2> SUFFICES ASSUME customer[u] = "idle"
               PROVE  Len(requests'[u]) + Count(responses'[u], "answer") + One(MaySend(u)) = 0
    OBVIOUS
  <2>1. CallsUnderWay(u) = 0 /\ ExitsUnderWay(u) = One(~MaySend(u))
    BY <1>4 DEF Sums, One
  <2> QED BY <1>5, <2>1 DEF One, MaySend
<1>8. Room(u)'
  <2>1. customer'[u] # "new" /\ timer'[u].at # "none"
    BY <1>1, <1>4 DEF Places
  <2>2. /\ Len(requests'[u]) + Count(responses'[u], "answer") + One(MaySend(u)') <= 1
        /\ customer'[u] = "idle" =>
              Len(requests'[u]) + Count(responses'[u], "answer") + One(MaySend(u)') = 0
    BY <1>1, <1>6, <1>7 DEF MaySend
  <2> QED BY <2>1, <2>2, <1>5 DEF Room, One
<1>9. ExitIsLast(u)'
  <2>1. responses[u] \in Seq({"answer", "exit"}) /\ responses'[u] = Append(responses[u], "exit")
    BY <1>1 DEF TypeOK, Send
  <2>2. \A i \in DOMAIN responses[u] : responses[u][i] # "exit"
    BY <1>2 DEF SessionInv, ExitIsLast
  <2>3. \A i \in DOMAIN responses'[u] : responses'[u][i] = "exit" => i = Len(responses'[u])
    BY <2>1, <2>2, AppendProperties, LenProperties
  <2> QED BY <2>3, <1>2 DEF ExitIsLast
<1> QED BY <1>2, <1>8, <1>9 DEF SessionInv

LEMMA SessionCloses ==
  ASSUME TypeOK, NEW u \in Client, SessionInv(u), KillTimer(u) \/ Verify(u) \/ Drain(u) \/ CloseSlot(u)
  PROVE  SessionInv(u)'
<1>1. /\ Ended(u) /\ Ended(u)'
      /\ customer'[u] = customer[u] /\ responses'[u] = responses[u]
      /\ timer'[u].at \in {timer[u].at, "killed"}
  BY DEF KillTimer, Verify, Drain, CloseSlot, ListenerGoes, Ended, TypeOK
<1>2. Len(requests'[u]) \in Nat /\ Len(requests'[u]) <= Len(requests[u])
  <2>1. CASE Drain(u)
    <3>1. /\ requests[u] # <<>> /\ requests[u] \in Seq({"call", "exit"})
          /\ requests'[u] = Tail(requests[u])
      BY <2>1 DEF Drain, TypeOK
    <3>2. Len(requests'[u]) = Len(requests[u]) - 1
      BY <3>1, TailCounts
    <3>3. Len(requests[u]) \in Nat \ {0}
      BY <3>1, QueueCounts
    <3> QED BY <3>2, <3>3
  <2>2. CASE ~Drain(u)
    <3>1. requests'[u] = requests[u]
      BY <2>2 DEF KillTimer, Verify, CloseSlot
    <3> QED BY <3>1, QueueCounts
  <2> QED BY <2>1, <2>2
<1>3. One(MaySend(u)') \in {0, 1} /\ One(MaySend(u)') <= One(MaySend(u)) /\ One(MaySend(u)) \in {0, 1}
  BY <1>1 DEF MaySend, One
<1>4. Room(u)'
  <2>1. Room(u)
    BY <1>1 DEF SessionInv
  <2>2. Count(responses[u], "answer") \in Nat
    BY QueueCounts
  <2>3. Len(requests'[u]) + Count(responses'[u], "answer") + One(MaySend(u)') + One(customer'[u] = "idle") <= 1
    BY <1>1, <1>2, <1>3, <2>1, <2>2, QueueCounts DEF Room, One
  <2> QED BY <1>1, <2>1, <2>3 DEF Room
<1> QED BY <1>1, <1>4 DEF SessionInv, ExitIsLast


\* The timer's steps: its EXIT takes the place it had.
LEMMA SessionTimer ==
  ASSUME TypeOK, NEW u \in Client, SessionInv(u), TimerStep(u)
  PROVE  SessionInv(u)'
<1>1. /\ listener'[u] = listener[u] /\ customer'[u] = customer[u] /\ responses'[u] = responses[u]
      /\ Ended(u)' <=> Ended(u)
  BY DEF TimerStep, Poll, StillActive, SendExit, MarkTimedOut, Ended
<1>2. CASE SendExit(u)
  <2>1. /\ timer[u].at = "compare" /\ timer'[u].at = "mark"
        /\ requests[u] \in Seq({"call", "exit"}) /\ requests'[u] = Append(requests[u], "exit")
    BY <1>2 DEF SendExit, TimerGoes, Send, TypeOK
  <2>2. One(MaySend(u)) = 1 /\ One(MaySend(u)') = 0 /\ One(~MaySend(u)) = 0 /\ One(~MaySend(u)') = 1
    BY <2>1 DEF MaySend, One
  <2>3. /\ Count(requests'[u], "call") = Count(requests[u], "call")
        /\ Count(requests'[u], "exit") = Count(requests[u], "exit") + 1
    <3>1. /\ Count(requests'[u], "call") = Count(requests[u], "call") + 0
          /\ Count(requests'[u], "exit") = Count(requests[u], "exit") + 1
      BY <2>1, CountAppend
    <3> QED BY <3>1, QueueCounts
  <2>4. Len(requests'[u]) = Len(requests[u]) + 1
    BY <2>1, AppendProperties
  <2>5. InHand(u, "call")' = InHand(u, "call") /\ InHand(u, "exit")' = InHand(u, "exit")
    BY <1>1 DEF InHand
  <2>6. /\ InHand(u, "call") \in Nat /\ InHand(u, "exit") \in Nat
        /\ Count(requests[u], "call") \in Nat /\ Count(requests[u], "exit") \in Nat
        /\ Count(responses[u], "answer") \in Nat /\ Len(requests[u]) \in Nat
        /\ One(customer[u] = "idle") \in Nat /\ One(customer[u] = "leaving") \in Nat
    BY SessionNumbers
  <2>7. CallsUnderWay(u)' = CallsUnderWay(u) /\ ExitsUnderWay(u)' = ExitsUnderWay(u) + 1
    <3>1. /\ CallsUnderWay(u) = Count(requests[u], "call") + Count(responses[u], "answer")
                                + InHand(u, "call")
          /\ CallsUnderWay(u)' = Count(requests'[u], "call") + Count(responses'[u], "answer")
                                 + InHand(u, "call")'
          /\ ExitsUnderWay(u) = Count(requests[u], "exit") + InHand(u, "exit")
          /\ ExitsUnderWay(u)' = Count(requests'[u], "exit") + InHand(u, "exit")'
      BY CallsCounted
    <3>2. Count(responses'[u], "answer") = Count(responses[u], "answer")
      BY <1>1
    <3>3. CallsUnderWay(u)' = CallsUnderWay(u)
      BY <3>1, <3>2, <2>3, <2>5
    <3>4. ExitsUnderWay(u)' = (Count(requests[u], "exit") + 1) + InHand(u, "exit")
      BY <3>1, <2>3, <2>5
    <3> QED BY <3>1, <3>3, <3>4, <2>6
  <2>8. CallsUnderWay(u) \in Nat /\ ExitsUnderWay(u) \in Nat
    BY <2>6, CallsCounted
  <2>9. ASSUME ~Ended(u) PROVE Places(u)' /\ Sums(u)'
    <3>1. Places(u) /\ Sums(u)
      BY <2>9 DEF SessionInv
    <3>2. Places(u)'
      BY <3>1, <1>1, <2>1 DEF Places
    <3>3. Sums(u)'
      BY <3>1, <1>1, <2>2, <2>6, <2>7, <2>8 DEF Sums
    <3> QED BY <3>2, <3>3
  <2>10. ASSUME Ended(u) PROVE Room(u)'
    <3>1. Room(u)
      BY <2>10 DEF SessionInv
    <3> QED BY <3>1, <1>1, <2>1, <2>2, <2>4, <2>6 DEF Room
  <2> QED BY <1>1, <2>9, <2>10 DEF SessionInv, ExitIsLast
<1>3. CASE Poll(u) \/ StillActive(u) \/ MarkTimedOut(u)
  <2>1. /\ requests'[u] = requests[u]
        /\ timer[u].at \in {"poll", "compare", "mark"}
        /\ timer'[u].at \in {"poll", "compare", "done"}
        /\ timer[u].at = "mark" <=> timer'[u].at = "done"
    BY <1>3 DEF Poll, StillActive, MarkTimedOut, TimerGoes, TypeOK
  <2>2. MaySend(u)' <=> MaySend(u)
    BY <2>1 DEF MaySend
  <2>3. /\ CallsUnderWay(u)' = CallsUnderWay(u) /\ ExitsUnderWay(u)' = ExitsUnderWay(u)
        /\ One(MaySend(u)') = One(MaySend(u)) /\ One(~MaySend(u)') = One(~MaySend(u))
    BY <1>1, <2>1, <2>2 DEF CallsUnderWay, ExitsUnderWay, InHand, One
  <2>4. Places(u) => Places(u)'
    BY <1>1, <2>1 DEF Places
  <2>5. Sums(u) => Sums(u)'
    BY <1>1, <2>3 DEF Sums
  <2>6. Room(u) => Room(u)'
    BY <1>1, <2>1, <2>3 DEF Room
  <2> QED BY <1>1, <2>4, <2>5, <2>6 DEF SessionInv, ExitIsLast
<1> QED BY <1>2, <1>3 DEF TimerStep

\* The customer asks when it is idle, for which there is room.
LEMMA SessionAsks ==
  ASSUME TypeOK, NEW u \in Client, SessionInv(u), Call(u) \/ Leave(u)
  PROVE  SessionInv(u)'
<1>1. PICK request \in {"call", "exit"} :
        /\ Ask(u, request, IF request = "call" THEN "waiting" ELSE "leaving")
  BY DEF Call, Leave
<1>2. /\ listener'[u] = listener[u] /\ timer'[u] = timer[u] /\ responses'[u] = responses[u]
      /\ customer[u] = "idle"
      /\ customer'[u] = (IF request = "call" THEN "waiting" ELSE "leaving")
      /\ Ended(u)' <=> Ended(u)
      /\ requests[u] \in Seq({"call", "exit"}) /\ requests'[u] = Append(requests[u], request)
  BY <1>1 DEF Ask, Send, TypeOK, Ended
<1>3. /\ One(MaySend(u)') = One(MaySend(u)) /\ One(~MaySend(u)') = One(~MaySend(u))
      /\ One(MaySend(u)) \in Nat /\ One(~MaySend(u)) \in Nat
  BY <1>2 DEF MaySend, One
<1>4. /\ One(customer[u] = "idle") = 1 /\ One(customer'[u] = "idle") = 0
      /\ One(customer[u] = "waiting") = 0 /\ One(customer[u] = "leaving") = 0
      /\ One(customer'[u] = "waiting") = (IF request = "call" THEN 1 ELSE 0)
      /\ One(customer'[u] = "leaving") = (IF request = "exit" THEN 1 ELSE 0)
  BY <1>2 DEF One
<1>5. /\ Len(requests'[u]) = Len(requests[u]) + 1
      /\ \A m : Count(requests'[u], m) = Count(requests[u], m) + (IF request = m THEN 1 ELSE 0)
  <2>1. Len(requests'[u]) = Len(requests[u]) + 1
    BY <1>2, AppendProperties
  <2>2. \A m : Count(requests'[u], m) = Count(requests[u], m) + (IF request = m THEN 1 ELSE 0)
    BY <1>2, CountAppend
  <2> QED BY <2>1, <2>2
<1>6. /\ InHand(u, "call") \in Nat /\ InHand(u, "exit") \in Nat
      /\ InHand(u, "call")' = InHand(u, "call") /\ InHand(u, "exit")' = InHand(u, "exit")
      /\ Count(requests[u], "call") \in Nat /\ Count(requests[u], "exit") \in Nat
      /\ Count(responses[u], "answer") \in Nat /\ Len(requests[u]) \in Nat
  <2>1. InHand(u, "call")' = InHand(u, "call") /\ InHand(u, "exit")' = InHand(u, "exit")
    BY <1>2 DEF InHand
  <2> QED BY <2>1, SessionNumbers
<1>7. /\ CallsUnderWay(u) \in Nat /\ ExitsUnderWay(u) \in Nat
      /\ request = "call" => /\ CallsUnderWay(u)' = CallsUnderWay(u) + 1
                             /\ ExitsUnderWay(u)' = ExitsUnderWay(u)
      /\ request = "exit" => /\ CallsUnderWay(u)' = CallsUnderWay(u)
                             /\ ExitsUnderWay(u)' = ExitsUnderWay(u) + 1
  <2>1. Count(responses'[u], "answer") = Count(responses[u], "answer")
    BY <1>2
  <2>2. ASSUME request = "call"
        PROVE  /\ CallsUnderWay(u)' = CallsUnderWay(u) + 1
               /\ ExitsUnderWay(u)' = ExitsUnderWay(u)
    <3>1. /\ Count(requests'[u], "call") = Count(requests[u], "call") + 1
          /\ Count(requests'[u], "exit") = Count(requests[u], "exit") + 0
      BY <1>5, <2>2
    <3> QED BY <1>6, <2>1, <3>1, CallsCounted
  <2>3. ASSUME request = "exit"
        PROVE  /\ CallsUnderWay(u)' = CallsUnderWay(u)
               /\ ExitsUnderWay(u)' = ExitsUnderWay(u) + 1
    <3>1. /\ Count(requests'[u], "call") = Count(requests[u], "call") + 0
          /\ Count(requests'[u], "exit") = Count(requests[u], "exit") + 1
      BY <1>5, <2>3
    <3> QED BY <1>6, <2>1, <3>1, CallsCounted
  <2> QED BY <2>2, <2>3, SessionNumbers
<1>8. ASSUME ~Ended(u) PROVE Places(u)' /\ Sums(u)'
  <2>1. Places(u) /\ Sums(u)
    BY <1>8 DEF SessionInv
  <2>2. Places(u)'
    BY <1>2, <2>1 DEF Places
  <2>3. /\ CallsUnderWay(u) = 0 /\ ExitsUnderWay(u) = One(~MaySend(u))
        /\ Count(responses[u], "exit") = 0
    BY <1>2, <1>3, <1>4, <2>1 DEF Sums
  <2>4. Count(responses'[u], "exit") = 0 /\ customer'[u] # "crashed"
    BY <1>2, <2>3
  <2>5. CallsUnderWay(u)' = One(customer'[u] = "waiting")
    <3>1. request = "call" => CallsUnderWay(u)' = 1
      BY <1>7, <2>3
    <3>2. request = "exit" => CallsUnderWay(u)' = 0
      BY <1>7, <2>3
    <3> QED BY <1>4, <3>1, <3>2
  <2>6. ExitsUnderWay(u)' = One(customer'[u] = "leaving") + One(~MaySend(u)')
    <3>1. request = "call" => ExitsUnderWay(u)' = One(~MaySend(u))
      BY <1>7, <2>3
    <3>2. request = "exit" => ExitsUnderWay(u)' = One(~MaySend(u)) + 1
      BY <1>7, <2>3
    <3> QED BY <1>3, <1>4, <3>1, <3>2
  <2>7. CallsUnderWay(u)' + ExitsUnderWay(u)' <= 1 + One(~MaySend(u)')
    <3>1. One(customer'[u] = "waiting") + One(customer'[u] = "leaving") = 1
      BY <1>4
    <3> QED BY <3>1, <1>3, <1>4, <2>5, <2>6
  <2>8. Sums(u)'
    BY <2>4, <2>5, <2>6, <2>7 DEF Sums
  <2> QED BY <2>2, <2>8
<1>9. ASSUME Ended(u) PROVE Room(u)'
  <2>1. Room(u)
    BY <1>9 DEF SessionInv
  <2> QED BY <2>1, <1>2, <1>3, <1>4, <1>5, <1>6 DEF Room
<1> QED BY <1>2, <1>8, <1>9 DEF SessionInv, ExitIsLast


LEMMA SessionReads ==
  ASSUME TypeOK, NEW u \in Client, SessionInv(u), TakeAnswer(u)
  PROVE  SessionInv(u)'
<1>1. /\ listener'[u] = listener[u] /\ timer'[u] = timer[u] /\ requests'[u] = requests[u]
      /\ customer[u] \in {"waiting", "leaving"}
      /\ customer'[u] = (IF Head(responses[u]) = "exit" THEN "gone" ELSE "idle")
      /\ responses[u] # <<>> /\ responses'[u] = Tail(responses[u])
      /\ responses[u] \in Seq({"answer", "exit"})
      /\ Ended(u)' <=> Ended(u)
  BY DEF TakeAnswer, TypeOK, Ended
<1>2. Head(responses[u]) \in {"answer", "exit"}
  BY <1>1, HeadTailProperties, EmptySeq
<1>3. /\ Len(Tail(responses[u])) = Len(responses[u]) - 1
      /\ Head(responses[u]) = responses[u][1] /\ 1 \in DOMAIN responses[u]
      /\ \A i \in DOMAIN Tail(responses[u]) : /\ Tail(responses[u])[i] = responses[u][i + 1]
                                              /\ i + 1 \in DOMAIN responses[u]
  BY <1>1, TailCounts
<1>4. /\ Head(responses[u]) = "answer" =>
           /\ Count(responses'[u], "answer") = Count(responses[u], "answer") - 1
           /\ Count(responses'[u], "exit") = Count(responses[u], "exit")
      /\ Head(responses[u]) = "exit" => Count(responses'[u], "answer") = Count(responses[u], "answer")
      /\ Count(responses'[u], "answer") \in Nat
  <2>1. \A m : Count(responses'[u], m) = Count(responses[u], m) - (IF Head(responses[u]) = m THEN 1 ELSE 0)
    BY <1>1, CountTail
  <2>2. /\ Head(responses[u]) = "answer" =>
             /\ Count(responses'[u], "answer") = Count(responses[u], "answer") - 1
             /\ Count(responses'[u], "exit") = Count(responses[u], "exit") - 0
        /\ Head(responses[u]) = "exit" =>
             Count(responses'[u], "answer") = Count(responses[u], "answer") - 0
    BY <2>1
  <2>3. responses'[u] \in Seq({"answer", "exit"})
    BY <1>1, HeadTailProperties, EmptySeq
  <2>4. Count(responses'[u], "answer") \in Nat
    BY <2>3, CountType
  <2>5. Count(responses[u], "answer") \in Nat /\ Count(responses[u], "exit") \in Nat
    BY QueueCounts
  <2> QED BY <2>2, <2>4, <2>5
<1>5. /\ MaySend(u)' <=> MaySend(u)
      /\ One(MaySend(u)') = One(MaySend(u)) /\ One(~MaySend(u)') = One(~MaySend(u))
      /\ One(MaySend(u)) \in Nat /\ One(~MaySend(u)) \in Nat
  BY <1>1 DEF MaySend, One
<1>6. InHand(u, "call")' = InHand(u, "call") /\ InHand(u, "exit")' = InHand(u, "exit")
  BY <1>1 DEF InHand
<1>7. ASSUME ~Ended(u) PROVE Places(u)' /\ Sums(u)'
  <2>1. Places(u) /\ Sums(u) /\ ExitIsLast(u)
    BY <1>7 DEF SessionInv
  <2>2. Head(responses[u]) = "answer"
    BY <2>1, <1>2, <1>3, <1>7 DEF ExitIsLast
  <2>3. CallsUnderWay(u)' = CallsUnderWay(u) - 1 /\ ExitsUnderWay(u)' = ExitsUnderWay(u)
    <3>1. requests'[u] = requests[u]
      BY <1>1
    <3> QED BY <3>1, <2>2, <1>4, <1>6, SessionNumbers, CallsCounted
  <2>4. CallsUnderWay(u) >= 1
    <3>1. /\ Count(responses[u], "answer") \in Nat /\ Count(requests[u], "call") \in Nat
          /\ InHand(u, "call") \in Nat
      BY SessionNumbers
    <3>2. Count(responses'[u], "answer") = Count(responses[u], "answer") - 1
      BY <2>2, <1>4
    <3>3. Count(responses[u], "answer") >= 1
      BY <3>1, <3>2, <1>4
    <3>4. CallsUnderWay(u) = Count(requests[u], "call") + Count(responses[u], "answer")
                             + InHand(u, "call")
      BY CallsCounted
    <3> QED BY <3>1, <3>3, <3>4
  <2>5. customer[u] = "waiting" /\ CallsUnderWay(u) = 1 /\ ExitsUnderWay(u) = One(~MaySend(u))
    <3>1. CallsUnderWay(u) = One(customer[u] = "waiting")
      BY <2>1, <1>1 DEF Sums
    <3>2. customer[u] = "waiting"
      BY <3>1, <2>4 DEF One
    <3>3. ExitsUnderWay(u) = One(customer[u] = "leaving") + One(~MaySend(u))
      BY <2>1, <1>1 DEF Sums
    <3>4. One(customer[u] = "leaving") = 0 /\ One(customer[u] = "waiting") = 1
      BY <3>2 DEF One
    <3> QED BY <3>1, <3>2, <3>3, <3>4, <1>5
  <2>6. customer'[u] = "idle"
    BY <2>2, <1>1
  <2>7. Places(u)'
    BY <2>1, <2>6, <1>1 DEF Places
  <2>8. Count(responses'[u], "exit") = 0
    BY <2>1, <2>2, <1>4 DEF Sums
  <2>9. One(customer'[u] = "waiting") = 0 /\ One(customer'[u] = "leaving") = 0
    BY <2>6 DEF One
  <2>10. CallsUnderWay(u)' = 0 /\ ExitsUnderWay(u)' = One(~MaySend(u)')
    BY <2>3, <2>5, <1>5
  <2>11. Sums(u)'
    BY <2>8, <2>9, <2>10, <1>5 DEF Sums
  <2> QED BY <2>7, <2>11
<1>8. ASSUME Ended(u) PROVE Room(u)'
  <2>1. Room(u)
    BY <1>8 DEF SessionInv
  <2>2. One(customer[u] = "idle") = 0
    BY <1>1 DEF One
  <2>3. One(customer'[u] = "idle") = (IF Head(responses[u]) = "exit" THEN 0 ELSE 1)
    BY <1>1 DEF One
  <2>4. Len(requests'[u]) = Len(requests[u]) /\ Len(requests[u]) \in Nat
    BY <1>1, SessionNumbers
  <2>5. Count(responses'[u], "answer") + One(customer'[u] = "idle") = Count(responses[u], "answer")
    BY <2>3, <1>2, <1>4, SessionNumbers
  <2>6. One(customer'[u] = "idle") \in Nat
    BY <2>3
  <2>7. Len(requests'[u]) + Count(responses'[u], "answer") + One(MaySend(u)') + One(customer'[u] = "idle") <= 1
    BY <2>1, <2>2, <2>4, <2>5, <2>6, <1>4, <1>5 DEF Room
  <2>8. customer'[u] # "new" /\ timer'[u].at # "none"
    BY <2>1, <1>1 DEF Room
  <2> QED BY <2>7, <2>8 DEF Room
<1>9. ExitIsLast(u)'
  <2> SUFFICES ASSUME NEW i \in DOMAIN responses'[u], responses'[u][i] = "exit"
               PROVE  i = Len(responses'[u]) /\ Ended(u)'
    BY DEF ExitIsLast
  <2>1. i + 1 \in DOMAIN responses[u] /\ responses[u][i + 1] = "exit"
    BY <1>1, <1>3
  <2>2. i + 1 = Len(responses[u]) /\ Ended(u)
    BY <2>1 DEF SessionInv, ExitIsLast
  <2>3. i \in Nat /\ Len(responses[u]) \in Nat
    <3>1. responses'[u] \in Seq({"answer", "exit"})
      BY <1>1, HeadTailProperties, EmptySeq
    <3> QED BY <3>1, <1>1, LenProperties
  <2> QED BY <2>2, <2>3, <1>1, <1>3
<1> QED BY <1>1, <1>7, <1>8, <1>9 DEF SessionInv

LEMMA SessionCrashes ==
  ASSUME TypeOK, NEW u \in Client, SessionInv(u), Crash(u)
  PROVE  SessionInv(u)'
<1>1. /\ listener'[u] = listener[u] /\ timer'[u] = timer[u]
      /\ requests'[u] = requests[u] /\ responses'[u] = responses[u]
      /\ customer[u] \in {"idle", "waiting", "leaving"} /\ customer'[u] = "crashed"
      /\ Ended(u)' <=> Ended(u)
  BY DEF Crash, TypeOK, Ended
<1>2. /\ CallsUnderWay(u)' = CallsUnderWay(u) /\ ExitsUnderWay(u)' = ExitsUnderWay(u)
      /\ One(MaySend(u)') = One(MaySend(u)) /\ One(~MaySend(u)') = One(~MaySend(u))
      /\ One(MaySend(u)) \in Nat
      /\ One(customer'[u] = "idle") = 0 /\ One(customer[u] = "idle") \in Nat
  BY <1>1 DEF CallsUnderWay, ExitsUnderWay, InHand, MaySend, One
<1>3. Places(u) => Places(u)'
  BY <1>1 DEF Places
<1>4. Sums(u) => Sums(u)'
  BY <1>1, <1>2 DEF Sums
<1>5. Room(u) => Room(u)'
  BY <1>1, <1>2, SessionNumbers DEF Room
<1> QED BY <1>1, <1>3, <1>4, <1>5 DEF SessionInv, ExitIsLast

\* A step of one customer's processes leaves the others' alone.
LEMMA OthersUntouched ==
  ASSUME TypeOK, NEW u \in Client, NEW v \in Client \ {u},
         \/ cinema_take_client(u) \/ cinema_listen_client(u)
         \/ TimerStep(u) \/ CustomerStep(u)
  PROVE  /\ listener'[v] = listener[v] /\ timer'[v] = timer[v] /\ customer'[v] = customer[v]
         /\ requests'[v] = requests[v] /\ responses'[v] = responses[v]
<1>1. CASE cinema_take_client(u) \/ cinema_listen_client(u)
  BY <1>1 DEF cinema_take_client, cinema_listen_client, start_timer, ReceiveRequest, Check, Touch,
              Forward, Answer, EndSession, KillTimer, Verify, Drain, CloseSlot, ListenerGoes,
              Send, TypeOK
<1>2. CASE TimerStep(u)
  BY <1>2 DEF TimerStep, Poll, StillActive, SendExit, MarkTimedOut, TimerGoes, Send, TypeOK
<1>3. CASE CustomerStep(u)
  BY <1>3 DEF CustomerStep, Call, Leave, Ask, TakeAnswer, Crash, Send, TypeOK
<1> QED BY <1>1, <1>2, <1>3

LEMMA SessionNext == TypeOK /\ CallInv /\ [Next]_vars => CallInv'
<1> SUFFICES ASSUME TypeOK, CallInv, [Next]_vars, NEW v \in Client
             PROVE  SessionInv(v)'
  BY DEF CallInv
<1>1. SessionInv(v)
  BY DEF CallInv
<1>2. CASE \/ cinema_take_client(v) \/ cinema_listen_client(v)
           \/ TimerStep(v) \/ CustomerStep(v)
  BY <1>1, <1>2, SessionBegins, SessionReceives, SessionProceeds, SessionAnswers, SessionEnds,
     SessionCloses, SessionTimer, SessionAsks, SessionReads, SessionCrashes
  DEF cinema_listen_client, CustomerStep
<1>3. ASSUME NEW u \in Client \ {v},
             \/ cinema_take_client(u) \/ cinema_listen_client(u)
             \/ TimerStep(u) \/ CustomerStep(u)
      PROVE  SessionInv(v)'
  BY <1>1, <1>3, OthersUntouched, SessionFrame
<1>4. CASE Tick \/ UNCHANGED vars \/ \E p \in Process : semaphore_wait(p)
  <2>1. /\ listener' = listener /\ timer'[v].at = timer[v].at /\ customer' = customer
        /\ requests' = requests /\ responses' = responses
    BY <1>4 DEF Tick, semaphore_wait, vars
  <2> QED BY <2>1, <1>1, SessionFrame
<1> QED BY <1>2, <1>3, <1>4 DEF Next, ProcessStep

LEMMA CallInvHolds == Spec => []CallInv
  BY SessionInit, SessionNext, TypeCorrect, PTL DEF Spec

LEMMA CallsFollow == TypeOK /\ CallInv => AnswersMatchCalls
<1> SUFFICES ASSUME TypeOK, NEW u \in Client, SessionInv(u)
             PROVE  /\ ~Ended(u) /\ customer[u] # "crashed" =>
                           CallsUnderWay(u) = (IF customer[u] = "waiting" THEN 1 ELSE 0)
                    /\ ExitIsLast(u)
  BY DEF CallInv, AnswersMatchCalls, ExitIsLast
<1> QED BY DEF SessionInv, Sums, One

LEMMA BacklogFollows == TypeOK /\ CallInv => BacklogIsBounded
<1> SUFFICES ASSUME TypeOK, NEW u \in Client, SessionInv(u)
             PROVE  Len(requests[u]) <= 2
  BY DEF CallInv, BacklogIsBounded
<1>1. Len(requests[u]) = Count(requests[u], "call") + Count(requests[u], "exit")
  BY QueueCounts
<1>2. CASE ~Ended(u)
  <2>1. CallsUnderWay(u) + ExitsUnderWay(u) <= 2
    BY <1>2, SessionNumbers DEF SessionInv, Sums, One
  <2> QED BY <2>1, <1>1, SessionNumbers, CallsCounted
<1>3. CASE Ended(u)
  <2>1. One(MaySend(u)) \in Nat /\ One(customer[u] = "idle") \in Nat
    BY DEF One
  <2>2. Len(requests[u]) + Count(responses[u], "answer") + One(MaySend(u)) + One(customer[u] = "idle") <= 1
    BY <1>3 DEF SessionInv, Room
  <2> QED BY <2>1, <2>2, SessionNumbers
<1> QED BY <1>2, <1>3

\* The messages between a customer and its listener carry the customer's id and nothing
\* that would pair an answer with its call (communicationqueue.cpp:21).  However customers,
\* timers and killed clients interleave: exactly one call is under way while a customer
\* waits and none while it does not, and nothing is ever sent after an EXIT.
THEOREM AnswersMatchCallsHolds == Spec => []AnswersMatchCalls
  BY CallInvHolds, CallsFollow, TypeCorrect, PTL

\* No customer, waiting or killed, ever has more than two messages in the queue that all
\* customers share: its own and one EXIT of its timer (cinema.cpp:109-115).
THEOREM BacklogIsBoundedHolds == Spec => []BacklogIsBounded
  BY CallInvHolds, BacklogFollows, TypeCorrect, PTL


----------------------------------------------------------------------------
(* The call that comes when the session is over *)

\* The step that takes a listener from its wait for a last message to its end.
LEMMA DrainIsTheStep ==
  ASSUME TypeOK, [Next]_vars, NEW u \in Client,
         listener[u].at = "drain", listener'[u].at = "done"
  PROVE  Drain(u)
<1>1. CASE \/ cinema_take_client(u) \/ cinema_listen_client(u)
           \/ TimerStep(u) \/ CustomerStep(u)
  BY <1>1 DEF cinema_take_client, cinema_listen_client, start_timer, ReceiveRequest, Check, Touch,
              Forward, Answer, EndSession, KillTimer, Verify, CloseSlot, ListenerGoes,
              TimerStep, Poll, StillActive, SendExit, MarkTimedOut,
              CustomerStep, Call, Leave, Ask, TakeAnswer, Crash, TypeOK
<1>2. ASSUME NEW v \in Client \ {u},
             \/ cinema_take_client(v) \/ cinema_listen_client(v)
             \/ TimerStep(v) \/ CustomerStep(v)
      PROVE  FALSE
  BY <1>2, OthersUntouched
<1>3. CASE Tick \/ UNCHANGED vars \/ \E p \in Process : semaphore_wait(p)
  BY <1>3 DEF Tick, semaphore_wait, vars
<1> QED BY <1>1, <1>2, <1>3 DEF Next, ProcessStep

LEMMA DrainLeavesNothing ==
  ASSUME TypeOK, NEW u \in Client, SessionInv(u), Drain(u)
  PROVE  requests'[u] = <<>> /\ customer'[u] # "idle"
<1>1. /\ requests[u] # <<>> /\ requests'[u] = Tail(requests[u])
      /\ customer' = customer /\ Ended(u)
  BY DEF Drain, ListenerGoes, Ended, TypeOK
<1>2. /\ One(MaySend(u)) \in Nat /\ One(customer[u] = "idle") \in Nat
      /\ customer[u] = "idle" => One(customer[u] = "idle") = 1
  BY DEF One
<1>3. Len(requests[u]) + Count(responses[u], "answer") + One(MaySend(u)) + One(customer[u] = "idle") <= 1
  BY <1>1 DEF SessionInv, Room
<1>4. requests[u] \in Seq({"call", "exit"}) /\ Len(requests[u]) >= 1
  BY <1>1 DEF TypeOK
<1>5. Len(requests[u]) \in Nat /\ Count(responses[u], "answer") \in Nat
  BY SessionNumbers
<1>6. Len(requests[u]) = 1 /\ One(customer[u] = "idle") = 0
  <2> DEFINE n == Len(requests[u])  a == Count(responses[u], "answer")
             m == One(MaySend(u))   i == One(customer[u] = "idle")
  <2>1. n \in Nat /\ a \in Nat /\ m \in Nat /\ i \in Nat /\ n >= 1 /\ n + a + m + i <= 1
    BY <1>2, <1>3, <1>4, <1>5
  <2> HIDE DEF n, a, m, i
  <2>2. n = 1 /\ i = 0
    BY <2>1
  <2> QED BY <2>2 DEF n, i
<1>7. Tail(requests[u]) = <<>>
  <2>1. Tail(requests[u]) \in Seq({"call", "exit"}) /\ Len(Tail(requests[u])) = Len(requests[u]) - 1
    BY <1>1, <1>4, HeadTailProperties
  <2>2. Len(Tail(requests[u])) = 0
    BY <1>6, <2>1
  <2> QED BY <2>1, <2>2, EmptySeq
<1> QED BY <1>1, <1>2, <1>6, <1>7

\* After a timeout a listener may wait for one more message (cinema.cpp:161-164).  Whenever it gets
\* one, that is the last: the queue holds no other of this customer, the customer does not call
\* again, and the timer is dead.
THEOREM LateCallIsTheLastHolds == Spec => LateCallIsTheLast
<1>1. TypeOK /\ CallInv /\ [Next]_vars
      => [\A u \in Client :
             listener[u].at = "drain" /\ listener'[u].at = "done"
             => requests'[u] = <<>> /\ customer'[u] # "idle"]_vars
  BY DrainIsTheStep, DrainLeavesNothing DEF CallInv
<1>2. QED
  BY <1>1, CallInvHolds, TypeCorrect, PTL DEF Spec, LateCallIsTheLast

-----------------------------------------------------------------------------
(* Silence.  A customer with a slot of its own: its stamp is the time      *)
(* since its listener last stamped it for as long as its timer polls.      *)

\* No two customers share a slot of the table: client ids below MAX_CLIENTS, say.
OwnSlots == \A u, v \in Client : SlotOf(u) = SlotOf(v) => u = v

\* The timer is dead before its listener marks the slot.
KilledFirst(u) == listener[u].at \in {"verify", "drain", "close", "done"} => timer[u].at = "killed"

Clock(u) == timer[u].at \in {"poll", "compare"} => StampOf(u) = quiet[u]

SilenceInv == /\ quiet \in [Client -> Age]
              /\ \A u \in Client : KilledFirst(u) /\ Clock(u)

silentVars == <<vars, quiet>>

LEMMA SilenceStarts == SilenceInit => SilenceInv
  BY SpecialStamps DEF SilenceInit, SilenceInv, Init, KilledFirst, Clock

\* What a customer's processes do to its own slot
LEMMA OwnStep ==
  ASSUME TypeOK, NEW u \in Client, KilledFirst(u), Clock(u), quiet[u] \in Age,
         \/ cinema_take_client(u) \/ cinema_listen_client(u)
         \/ TimerStep(u) \/ CustomerStep(u),
         quiet'[u] = IF Stamps(u) THEN 0 ELSE quiet[u]
  PROVE  KilledFirst(u)' /\ Clock(u)' /\ quiet'[u] \in Age
<1> USE SlotInRange
<1>1. quiet'[u] \in Age
  BY SpecialStamps
<1>2. CASE cinema_take_client(u)
  <2>1. /\ listener[u].at = "none" /\ listener'[u].at = "start"
        /\ UNCHANGED <<timer, stamps>>
    BY <1>2 DEF cinema_take_client, ListenerGoes, TypeOK
  <2>2. quiet'[u] = quiet[u]
    BY <2>1 DEF Stamps
  <2> QED BY <1>1, <2>1, <2>2 DEF KilledFirst, Clock, StampOf
<1>3. CASE start_timer(u) \/ Touch(u)
  <2>1. /\ listener[u].at \in {"start", "touch"} /\ listener'[u].at \in {"receive", "handle"}
        /\ stamps'[SlotOf(u)] = 0
    BY <1>3 DEF start_timer, Touch, ListenerGoes, update_timestamp, Listener, TypeOK
  <2>2. quiet'[u] = 0
    BY <2>1 DEF Stamps
  <2> QED BY <1>1, <2>1, <2>2 DEF KilledFirst, Clock, StampOf
<1>4. CASE ReceiveRequest(u) \/ Check(u) \/ Forward(u) \/ Answer(u) \/ EndSession(u)
  <2>1. /\ listener[u].at \in {"receive", "check", "handle", "await"}
        /\ listener'[u].at \in {"check", "touch", "handle", "await", "receive", "kill"}
        /\ UNCHANGED <<timer, stamps>>
    BY <1>4 DEF ReceiveRequest, Check, Forward, Answer, EndSession, ListenerGoes, get_timestamp, TypeOK
  <2>2. quiet'[u] = quiet[u]
    BY <2>1 DEF Stamps
  <2> QED BY <1>1, <2>1, <2>2 DEF KilledFirst, Clock, StampOf
<1>5. CASE KillTimer(u) \/ Verify(u) \/ Drain(u) \/ CloseSlot(u)
  <2>1. timer'[u].at = "killed"
    BY <1>5 DEF KillTimer, Verify, Drain, CloseSlot, ListenerGoes, KilledFirst, TypeOK
  <2> QED BY <1>1, <2>1 DEF KilledFirst, Clock
<1>6. CASE TimerStep(u)
  <2>1. listener'[u] = listener[u] /\ timer[u].at \in {"poll", "compare", "mark"}
    BY <1>6 DEF TimerStep, Poll, StillActive, SendExit, MarkTimedOut, TimerGoes
  <2>2. KilledFirst(u)'
    BY <2>1 DEF KilledFirst
  <2>3. quiet'[u] = quiet[u]
    BY <2>1 DEF Stamps
  <2>4. CASE MarkTimedOut(u)
    <3>1. timer'[u].at = "done"
      BY <2>4 DEF MarkTimedOut, TimerGoes, TypeOK
    <3> QED BY <1>1, <2>2, <3>1 DEF Clock
  <2>5. CASE Poll(u) \/ StillActive(u) \/ SendExit(u)
    <3>1. UNCHANGED stamps /\ (timer'[u].at = "poll" => timer[u].at = "compare")
          /\ (timer'[u].at = "compare" => timer[u].at = "poll")
      BY <2>5 DEF Poll, StillActive, SendExit, TimerGoes, get_timestamp, TypeOK
    <3> QED BY <1>1, <2>2, <2>3, <3>1 DEF Clock, StampOf
  <2> QED BY <1>6, <2>4, <2>5 DEF TimerStep
<1>7. CASE CustomerStep(u)
  <2>1. UNCHANGED <<listener, timer, stamps>>
    BY <1>7 DEF CustomerStep, Call, Leave, Ask, TakeAnswer, Crash
  <2>2. quiet'[u] = quiet[u]
    BY <2>1 DEF Stamps
  <2> QED BY <1>1, <2>1, <2>2 DEF KilledFirst, Clock, StampOf
<1> QED BY <1>2, <1>3, <1>4, <1>5, <1>6, <1>7 DEF cinema_listen_client

\* Another customer's processes stamp another slot.
LEMMA OtherSlot ==
  ASSUME OwnSlots, TypeOK, NEW u \in Client, NEW v \in Client \ {u},
         \/ cinema_take_client(u) \/ cinema_listen_client(u)
         \/ TimerStep(u) \/ CustomerStep(u)
  PROVE  stamps'[SlotOf(v)] = stamps[SlotOf(v)]
<1>1. \/ UNCHANGED stamps
      \/ \E value \in Stamp : stamps' = [stamps EXCEPT ![SlotOf(u)] = value]
  BY SpecialStamps
  DEF cinema_take_client, cinema_listen_client, start_timer, ReceiveRequest, Check, Touch, Forward,
      Answer, EndSession, KillTimer, Verify, Drain, CloseSlot, TimerStep, Poll, StillActive,
      SendExit, MarkTimedOut, CustomerStep, Call, Leave, Ask, TakeAnswer, Crash,
      update_timestamp, get_timestamp, Listener, Timer
<1>2. SlotOf(u) # SlotOf(v)
  BY DEF OwnSlots
<1> QED BY <1>1, <1>2, SlotInRange DEF TypeOK

LEMMA SilenceGoesOn ==
  ASSUME OwnSlots
  PROVE  TypeOK /\ SilenceInv /\ [SilenceNext]_silentVars => SilenceInv'
<1> SUFFICES ASSUME TypeOK, SilenceInv, [SilenceNext]_silentVars
             PROVE  SilenceInv'
  OBVIOUS
<1>1. CASE ProcessStep /\ quiet' = [u \in Client |-> IF Stamps(u) THEN 0 ELSE quiet[u]]
  <2> SUFFICES ASSUME NEW v \in Client
               PROVE  KilledFirst(v)' /\ Clock(v)' /\ quiet'[v] \in Age
    BY <1>1 DEF SilenceInv
  <2>1. KilledFirst(v) /\ Clock(v) /\ quiet[v] \in Age
        /\ quiet'[v] = IF Stamps(v) THEN 0 ELSE quiet[v]
    BY <1>1 DEF SilenceInv
  <2>2. CASE \/ cinema_take_client(v) \/ cinema_listen_client(v)
             \/ TimerStep(v) \/ CustomerStep(v)
    BY <2>1, <2>2, OwnStep
  <2>3. ASSUME /\ listener'[v] = listener[v] /\ timer'[v] = timer[v]
               /\ stamps'[SlotOf(v)] = stamps[SlotOf(v)]
        PROVE  KilledFirst(v)' /\ Clock(v)' /\ quiet'[v] \in Age
    <3>1. quiet'[v] = quiet[v]
      BY <2>1, <2>3 DEF Stamps
    <3> QED BY <2>1, <2>3, <3>1 DEF KilledFirst, Clock, StampOf
  <2>4. ASSUME NEW u \in Client \ {v},
               \/ cinema_take_client(u) \/ cinema_listen_client(u)
               \/ TimerStep(u) \/ CustomerStep(u)
        PROVE  KilledFirst(v)' /\ Clock(v)' /\ quiet'[v] \in Age
    BY <2>4, <2>3, OtherSlot, OthersUntouched
  <2>5. ASSUME NEW p \in Process, semaphore_wait(p)
        PROVE  KilledFirst(v)' /\ Clock(v)' /\ quiet'[v] \in Age
    BY <2>5, <2>3 DEF semaphore_wait
  <2> QED BY <1>1, <2>2, <2>4, <2>5 DEF ProcessStep
<1>2. CASE Tick /\ quiet' = [u \in Client |-> Older(quiet[u])]
  <2> SUFFICES ASSUME NEW v \in Client
               PROVE  KilledFirst(v)' /\ Clock(v)' /\ quiet'[v] \in Age
    BY <1>2 DEF SilenceInv
  <2>1. KilledFirst(v) /\ Clock(v) /\ quiet[v] \in Age
    BY DEF SilenceInv
  <2>2. /\ quiet'[v] = Older(quiet[v]) /\ timer'[v].at = timer[v].at /\ listener' = listener
        /\ stamps'[SlotOf(v)] = Older(stamps[SlotOf(v)])
    BY <1>2, SlotInRange DEF Tick, TypeOK
  <2> QED BY <2>1, <2>2, OlderType DEF KilledFirst, Clock, StampOf
<1>3. CASE UNCHANGED silentVars
  BY <1>3 DEF SilenceInv, KilledFirst, Clock, StampOf, Stamps, silentVars, vars
<1> QED BY <1>1, <1>2, <1>3 DEF SilenceNext

\* The clock adds nothing to what the session does.
LEMMA SilenceIsSpec == SilenceSpec => Spec
<1>1. SilenceInit => Init
  BY DEF SilenceInit
<1>2. [SilenceNext]_silentVars => [Next]_vars
  BY DEF SilenceNext, Next, silentVars
<1> QED BY <1>1, <1>2, PTL DEF SilenceSpec, Spec, silentVars

\* A timer that finds its session expired (cinema.cpp:109) is right about its own
\* customer, if the table has a slot for each; the shared_slot run shows that it is wrong
\* about customers whose ids are equal modulo MAX_CLIENTS.
THEOREM OnlyTheSilentExpireHolds ==
  ASSUME OwnSlots
  PROVE  SilenceSpec => OnlyTheSilentExpire
<1> DEFINE Right == \A u \in Client : /\ timer[u].at = "poll"
                                      /\ timer'[u].at = "compare"
                                      /\ timer'[u].seen > MaxWait
                                      => quiet[u] > MaxWait
<1>1. TypeOK /\ SilenceInv /\ [SilenceNext]_silentVars => [Right]_silentVars
  <2> SUFFICES ASSUME TypeOK, SilenceInv, SilenceNext,
                      NEW v \in Client, timer[v].at = "poll", timer'[v].at = "compare",
                      timer'[v].seen > MaxWait
               PROVE  quiet[v] > MaxWait
    OBVIOUS
  <2>1. PICK u \in Client : cinema_take_client(u) \/ cinema_listen_client(u)
                            \/ TimerStep(u) \/ CustomerStep(u)
    <3>1. timer'[v].at # timer[v].at
      OBVIOUS
    <3> QED BY <3>1 DEF SilenceNext, ProcessStep, Tick, semaphore_wait
  <2>2. u = v
    BY <2>1, OthersUntouched
  <2>3. Poll(v)
    BY <2>1, <2>2 DEF cinema_take_client, cinema_listen_client, start_timer, ReceiveRequest, Check,
       Touch, Forward, Answer, EndSession, KillTimer, Verify, Drain, CloseSlot, TimerStep,
       StillActive, SendExit, MarkTimedOut, TimerGoes, CustomerStep, Call, Leave, Ask,
       TakeAnswer, Crash, TypeOK
  <2>4. timer'[v].seen = Difference(StampOf(v)) /\ StampOf(v) = quiet[v] /\ quiet[v] \in Age
    BY <2>3 DEF Poll, SilenceInv, Clock, TypeOK
  <2> QED BY <2>4 DEF Difference, Age
<1>2. SilenceSpec => []TypeOK
  BY SilenceIsSpec, TypeCorrect, PTL
<1>3. SilenceSpec => []SilenceInv
  <2> HIDE DEF Right
  <2> QED BY <1>2, SilenceStarts, SilenceGoesOn, PTL DEF SilenceSpec, silentVars
<1>4. SilenceSpec => [][Right]_silentVars
  <2> HIDE DEF Right
  <2> QED BY <1>1, <1>2, <1>3, PTL DEF SilenceSpec, silentVars
<1> QED BY <1>4 DEF OnlyTheSilentExpire, silentVars

=============================================================================
