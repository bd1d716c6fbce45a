------------------------------ MODULE Middleware ------------------------------
(***************************************************************************)
(* How a customer learns of the reservations of others while looking at a  *)
(* room: from the handler of the reservation through the update queues to  *)
(* a listener process of mom, from there through a slot of shared memory   *)
(* to the polling thread of the client, and by a callback to the menus.    *)
(*                                                                         *)
(* One customer.  An update is [room, n] for the n-th reservation of the   *)
(* other customers; the message has neither, only seats.  The calls of the *)
(* customer are answered in one step: BoxOffice and Network have the rest. *)
(***************************************************************************)
EXTENDS Integers, Sequences, FiniteSets

CONSTANTS Room,        \* rooms of the cinema
          Capacity,    \* updates a queue takes
          MaxUpdates,  \* bound: reservations of other customers
          MaxVisits    \* bound: times the customer gets the seats of a room

ASSUME RoomAssumption == Room \subseteq Nat \ {0}
ASSUME CapacityAssumption == Capacity \in Nat \ {0}
ASSUME BoundAssumption == MaxUpdates \in Nat /\ MaxVisits \in Nat

VARIABLES count,       \* reservations of the others
          registered,  \* rooms the customer is in, by Clients_rooms
          handler,     \* the update a handler is about to send, or Blank
          activity,    \* admin's activity queue
          inbox,       \* mom's listener_queue
          child,       \* mom's child for the customer
          listener,    \* listeners it forked
          slot,        \* the customer's Seats_update in shared memory
          thread,      \* polling threads of the client
          client,      \* the main thread of the client
          answer,      \* answer to its call, or "none"
          args         \* update_args of client_start

adminVars == <<count, registered, handler, activity>>
momVars == <<inbox, child, listener>>
clientVars == <<client, args>>
vars == <<adminVars, momVars, slot, thread, clientVars, answer>>

SUCCESS == 0
NOT_SUCCESS == 1

Visit == 1..MaxVisits

\* No seats: count = 0, or nothing at all
Blank == [room |-> 0, n |-> 0]

\* What a client process has when it starts, and when it is over
Client(at) == [at |-> at, call |-> "none", room |-> 0, connected |-> TRUE,
               listener_thread |-> 0, listener_extern_data |-> FALSE]
Thread(at) == [at |-> at, cancelled |-> FALSE, update |-> Blank]
NoThread == [v \in Visit |-> Thread("none")]
NoArgs == [alive |-> FALSE, an_update |-> FALSE, seats |-> Blank]

Init ==
    /\ count = 0
    /\ registered = {}
    /\ handler = Blank
    /\ activity = <<>>
    /\ inbox = <<>>
    /\ child = [task |-> "none", listening |-> FALSE, forked |-> 0, killed |-> FALSE]
    /\ listener = [v \in Visit |-> [at |-> "none", update |-> Blank]]
    \* A new segment is all zeros, and zero is SUCCESS.
    /\ slot = [update |-> SUCCESS, seats |-> Blank]
    /\ thread = NoThread
    /\ client = Client("menu")
    /\ answer = "none"
    /\ args = NoArgs

----------------------------------------------------------------------------
(* The way of an update to mom *)

\* Another customer reserves a seat in room r.
Reserve(r) ==
    /\ handler = Blank
    /\ count < MaxUpdates
    /\ count' = count + 1
    /\ handler' = IF r \in registered THEN [room |-> r, n |-> count + 1] ELSE Blank
    /\ UNCHANGED <<registered, activity, momVars, slot, thread, clientVars, answer>>

Notify ==
    /\ handler # Blank
    /\ Len(activity) < Capacity
    /\ activity' = Append(activity, handler)
    /\ handler' = Blank
    /\ UNCHANGED <<count, registered, momVars, slot, thread, clientVars, answer>>

\* The admin's forwarder, the socket and mom's receiver
ForwardUpdate ==
    /\ activity # <<>>
    /\ Len(inbox) < Capacity
    /\ inbox' = Append(inbox, Head(activity))
    /\ activity' = Tail(activity)
    /\ UNCHANGED <<count, registered, handler, child, listener, slot, thread,
                   clientVars, answer>>

----------------------------------------------------------------------------
(* mom: the child of the customer *)

\* What becomes of a call: the answer, the rooms the admin has the customer in
\* afterwards, and what process_message will do.  An EXIT may be the timer's.
Outcomes(call, room) ==
    LET outcome(choice, rooms, task) == [answer |-> choice, rooms |-> rooms, task |-> task]
        ended == outcome("exit", registered, "finish")
        refused == outcome("refused", registered, "none")
    IN  {ended} \cup
        CASE call = "rooms"  -> {outcome("rooms", registered, "finish")}
          [] call = "seats"  -> {outcome("seats", registered \cup {room}, "start"), refused}
          [] call = "select" -> {outcome("select", {}, "finish"), refused}
          [] call = "pay"    -> {outcome("pay", registered, "none")}
          [] call = "exit"   -> {}

fork_client ==
    /\ client.at = "await"
    /\ answer = "none"
    /\ child.task = "none"
    /\ \E o \in Outcomes(client.call, client.room) :
          /\ answer' = o.answer
          /\ registered' = o.rooms
          /\ child' = [child EXCEPT !.task = o.task]
    /\ UNCHANGED <<count, handler, activity, inbox, listener, slot, thread, clientVars>>

\* Mutant of start_async_seat_listener: whether there is one is not looked at.
StartAnother ==
    /\ child.task = "start"
    /\ child' = [child EXCEPT !.task = "none", !.listening = TRUE, !.forked = @ + 1]
    /\ listener' = [listener EXCEPT ![child.forked + 1].at = "reset"]
    /\ UNCHANGED <<adminVars, inbox, slot, thread, clientVars, answer>>

start_async_seat_listener ==
    /\ child.task = "start"
    /\ IF child.listening
       THEN /\ child' = [child EXCEPT !.task = "none"]
            /\ UNCHANGED listener
       ELSE /\ child' = [child EXCEPT !.task = "none", !.listening = TRUE, !.forked = @ + 1]
            /\ listener' = [listener EXCEPT ![child.forked + 1].at = "reset"]
    /\ UNCHANGED <<adminVars, inbox, slot, thread, clientVars, answer>>

\* Mutant of finish_async_seat_listener: the arguments of kill in order.
FinishAndKill ==
    /\ child.task = "finish"
    /\ child' = [child EXCEPT !.task = "none", !.listening = FALSE,
                              !.killed = @ \/ child.listening]
    /\ listener' = IF child.listening
                   THEN [listener EXCEPT ![child.forked].at = "killed"]
                   ELSE listener
    /\ UNCHANGED <<adminVars, inbox, slot, thread, clientVars, answer>>

\* kill(SIGKILL, pid) sends signal number pid to process 9, or fails.
finish_async_seat_listener ==
    /\ child.task = "finish"
    /\ child' = [child EXCEPT !.task = "none", !.listening = FALSE,
                              !.killed = @ \/ child.listening]
    /\ UNCHANGED <<adminVars, inbox, listener, slot, thread, clientVars, answer>>

----------------------------------------------------------------------------
(* mom: the listeners *)

Reset(v) ==
    /\ listener[v].at = "reset"
    /\ slot' = [update |-> NOT_SUCCESS, seats |-> Blank]
    /\ listener' = [listener EXCEPT ![v].at = "receive"]
    /\ UNCHANGED <<adminVars, inbox, child, thread, clientVars, answer>>

TakeUpdate(v) ==
    /\ listener[v].at = "receive"
    /\ inbox # <<>>
    /\ inbox' = Tail(inbox)
    /\ listener' = [listener EXCEPT ![v] = [at |-> "write", update |-> Head(inbox)]]
    /\ UNCHANGED <<adminVars, child, slot, thread, clientVars, answer>>

flag_update_write(v) ==
    /\ listener[v].at = "write"
    /\ slot' = [update |-> SUCCESS, seats |-> listener[v].update]
    /\ listener' = [listener EXCEPT ![v] = [at |-> "receive", update |-> Blank]]
    /\ UNCHANGED <<adminVars, inbox, child, thread, clientVars, answer>>

----------------------------------------------------------------------------
(* client_interface: the polling threads *)

Running == client.at \notin {"gone", "crashed"}

\* The end of the process
End(at) == client' = Client(at) /\ thread' = NoThread /\ args' = NoArgs

\* A thread without data ends at once, and sleep reads the interval from it.
BeginThread(v) ==
    /\ Running
    /\ thread[v].at = "begin"
    /\ thread' = [thread EXCEPT ![v] =
           IF client.listener_extern_data THEN [@ EXCEPT !.at = "sleep"] ELSE Thread("end")]
    /\ UNCHANGED <<adminVars, momVars, slot, clientVars, answer>>

Sleep(v) ==
    /\ Running
    /\ thread[v].at = "poll"
    /\ IF client.listener_extern_data
       THEN thread' = [thread EXCEPT ![v].at = "sleep"] /\ UNCHANGED clientVars
       ELSE End("crashed")
    /\ UNCHANGED <<adminVars, momVars, slot, answer>>

\* It is the first place after pthread_cancel where a thread ends.
Wake(v) ==
    /\ Running
    /\ thread[v].at = "sleep"
    /\ thread' = [thread EXCEPT ![v] = IF @.cancelled THEN Thread("end") ELSE Thread("take")]
    /\ UNCHANGED <<adminVars, momVars, slot, clientVars, answer>>

\* Mutant of TakeSlot: the flag stays as it is.
TakeAndLeave(v) ==
    /\ Running
    /\ thread[v].at = "take"
    /\ thread' = [thread EXCEPT ![v] =
           IF slot.update = SUCCESS THEN [@ EXCEPT !.at = "call", !.update = slot.seats]
                                    ELSE [@ EXCEPT !.at = "poll"]]
    /\ UNCHANGED <<adminVars, momVars, slot, clientVars, answer>>

TakeSlot(v) ==
    /\ Running
    /\ thread[v].at = "take"
    /\ slot' = [slot EXCEPT !.update = NOT_SUCCESS]
    /\ thread' = [thread EXCEPT ![v] =
           IF slot.update = SUCCESS THEN [@ EXCEPT !.at = "call", !.update = slot.seats]
                                    ELSE [@ EXCEPT !.at = "poll"]]
    /\ UNCHANGED <<adminVars, momVars, clientVars, answer>>

\* Mutant of on_update: the flag of the slot is reset after the callback, too.
ResetAfterCall(v) ==
    /\ Running
    /\ thread[v].at = "call"
    /\ client.listener_extern_data
    /\ args' = IF args.alive
               THEN [args EXCEPT !.an_update = TRUE, !.seats = thread[v].update]
               ELSE args
    /\ thread' = [thread EXCEPT ![v] =
           IF @.cancelled THEN Thread("end") ELSE Thread("poll")]
    /\ slot' = [slot EXCEPT !.update = NOT_SUCCESS]
    /\ UNCHANGED <<adminVars, momVars, client, answer>>

\* The callback writes seats and flag of update_args, and prints, where a
\* cancelled thread ends.  The client crashes without data, and may crash when
\* update_args is gone or the menu is reading it.
on_update(v) ==
    /\ Running
    /\ thread[v].at = "call"
    /\ \/ /\ client.listener_extern_data
          /\ args' = IF args.alive
                     THEN [args EXCEPT !.an_update = TRUE, !.seats = thread[v].update]
                     ELSE args
          /\ thread' = [thread EXCEPT ![v] =
                 IF @.cancelled THEN Thread("end") ELSE Thread("poll")]
          /\ UNCHANGED client
       \/ /\ ~client.listener_extern_data \/ ~args.alive \/ client.at = "copy"
          /\ End("crashed")
    /\ UNCHANGED <<adminVars, momVars, slot, answer>>

----------------------------------------------------------------------------
(* client_interface: calls *)

NoData(c) == [c EXCEPT !.listener_extern_data = FALSE]

\* What pthread_cancel leaves of client c: it reports success or ESRCH for a
\* thread that ended, and ESRCH if anything for one that was never made.
Cancelled(c) ==
    LET v == c.listener_thread
    IN  CASE v = 0 -> {c}
          [] v # 0 /\ thread[v].at = "end" -> {c, NoData(c)}
          [] v # 0 /\ thread[v].at # "end" -> {NoData(c)}

\* Mutant of CancelledThreads: pthread_cancel has no effect.
ThreadsGoOn == thread

CancelledThreads ==
    [v \in Visit |-> IF v = client.listener_thread /\ thread[v].at # "end"
                     THEN [thread[v] EXCEPT !.cancelled = TRUE] ELSE thread[v]]

\* The client becomes c, and ends its polling thread.
_end_listener_thread(c) == client' \in Cancelled(c) /\ thread' = CancelledThreads

\* get_seats sets the data before the thread of the last visit is cancelled again.
_start_listener_thread(c) ==
    LET v == c.listener_thread + 1
    IN  /\ \E d \in Cancelled([c EXCEPT !.listener_extern_data = TRUE]) :
              client' = [d EXCEPT !.listener_thread = v]
        /\ thread' = [CancelledThreads EXCEPT ![v].at = "begin"]

Asking(call) == [client EXCEPT !.at = "await", !.call = call]
At(place) == [client EXCEPT !.at = place, !.call = "none",
                            !.room = IF place = "seats" THEN @ ELSE 0]

\* Without a connection _getClient returns a null pointer, which is used.  The
\* first call of all cancels a thread that was never made, which is undefined.
get_rooms ==
    /\ client.at = "menu"
    /\ \/ client.connected /\ _end_listener_thread(Asking("rooms")) /\ UNCHANGED args
       \/ (~client.connected \/ client.listener_thread = 0) /\ End("crashed")
    /\ UNCHANGED <<adminVars, momVars, slot, answer>>

get_seats(r) ==
    /\ client.at = "rooms"
    /\ client.listener_thread < MaxVisits
    /\ _end_listener_thread([Asking("seats") EXCEPT !.room = r])
    /\ args' = [NoArgs EXCEPT !.alive = TRUE]
    /\ UNCHANGED <<adminVars, momVars, slot, answer>>

reserve_seat ==
    /\ client.at = "seats"
    /\ client' = Asking("select")
    /\ UNCHANGED <<adminVars, momVars, slot, thread, args, answer>>

pay_seats ==
    /\ client.at = "menu"
    /\ client.connected
    /\ client' = Asking("pay")
    /\ UNCHANGED <<adminVars, momVars, slot, thread, args, answer>>

end_mom ==
    /\ client.at \in {"menu", "close"}
    /\ IF client.connected THEN _end_listener_thread(Asking("exit")) /\ UNCHANGED args
                           ELSE End("gone")
    /\ UNCHANGED <<adminVars, momVars, slot, answer>>

----------------------------------------------------------------------------
(* client_interface and client: answers *)

\* update_args goes out of scope where client_start jumps back over it.
OutOfScope == args' = NoArgs

\* After a payment the client goes on without a connection.
Closed ==
    /\ answer = "exit"
    /\ IF client.call = "pay"
       THEN _end_listener_thread([At("menu") EXCEPT !.connected = FALSE]) /\ UNCHANGED args
       ELSE End("gone")

Answered ==
    \/ answer = "rooms" /\ client' = At("rooms") /\ UNCHANGED <<thread, args>>
    \/ answer = "seats" /\ _start_listener_thread(At("seats")) /\ UNCHANGED args
    \/ answer = "select" /\ _end_listener_thread(At("menu")) /\ OutOfScope
    \/ answer = "pay" /\ client' = At("close") /\ UNCHANGED <<thread, args>>
    \/ answer = "refused" /\ client.call = "seats"
                          /\ client' = At("menu") /\ OutOfScope /\ UNCHANGED thread
    \/ answer = "refused" /\ client.call = "select"
                          /\ client' = At("seats") /\ UNCHANGED <<thread, args>>

Receive ==
    /\ client.at = "await"
    /\ answer' = "none"
    /\ Answered \/ Closed
    /\ UNCHANGED <<adminVars, momVars, slot>>

----------------------------------------------------------------------------
(* client: back and refresh *)

GoBack ==
    /\ \/ client.at = "seats" /\ client' = At("rooms") /\ OutOfScope
       \/ client.at = "rooms" /\ client' = At("menu") /\ UNCHANGED args
    /\ UNCHANGED <<adminVars, momVars, slot, thread, answer>>

\* seats = update_args.seats, and then an_update = false
Refresh ==
    /\ \/ client.at = "seats" /\ args.an_update /\ client' = At("copy") /\ UNCHANGED args
       \/ /\ client.at = "copy"
          /\ client' = At("seats")
          /\ args' = [args EXCEPT !.an_update = FALSE]
    /\ UNCHANGED <<adminVars, momVars, slot, thread, answer>>

----------------------------------------------------------------------------
AdminStep == Notify \/ ForwardUpdate
ChildStep == fork_client \/ start_async_seat_listener \/ finish_async_seat_listener
ListenerStep(v) == Reset(v) \/ TakeUpdate(v) \/ flag_update_write(v)
ThreadStep(v) == BeginThread(v) \/ Sleep(v) \/ Wake(v) \/ TakeSlot(v) \/ on_update(v)
CustomerStep == \/ get_rooms \/ \E r \in Room : get_seats(r)
                \/ reserve_seat \/ pay_seats \/ end_mom \/ GoBack

Next ==
    \/ \E r \in Room : Reserve(r)
    \/ AdminStep \/ ChildStep
    \/ \E v \in Visit : ListenerStep(v) \/ ThreadStep(v)
    \/ CustomerStep \/ Receive \/ Refresh

Spec == Init /\ [][Next]_vars

\* Processes and threads that can run do; nobody has to reserve or to call.
FairSpec == /\ Spec
            /\ WF_vars(Notify) /\ WF_vars(ForwardUpdate)
            /\ WF_vars(ChildStep) /\ WF_vars(Receive)
            /\ \A v \in Visit : WF_vars(ListenerStep(v)) /\ WF_vars(ThreadStep(v))

----------------------------------------------------------------------------
(* Safety *)

Update == [room : Room \cup {0}, n : Nat]

TypeOK ==
    /\ count \in Nat
    /\ registered \subseteq Room
    /\ handler \in Update
    /\ activity \in Seq(Update)
    /\ inbox \in Seq(Update)
    /\ child \in [task : {"none", "start", "finish"}, listening : BOOLEAN,
                  forked : 0..MaxVisits, killed : BOOLEAN]
    /\ listener \in [Visit -> [at : {"none", "reset", "receive", "write"}, update : Update]]
    /\ slot \in [update : {SUCCESS, NOT_SUCCESS}, seats : Update]
    /\ thread \in [Visit -> [at : {"none", "begin", "poll", "sleep", "take", "call", "end"},
                             cancelled : BOOLEAN, update : Update]]
    /\ client \in [at : {"menu", "rooms", "seats", "await", "copy", "close",
                         "gone", "crashed"},
                   call : {"none", "rooms", "seats", "select", "pay", "exit"},
                   room : Room \cup {0}, connected : BOOLEAN,
                   listener_thread : 0..MaxVisits, listener_extern_data : BOOLEAN]
    /\ answer \in {"none", "rooms", "seats", "select", "pay", "refused", "exit"}
    /\ args \in [alive : BOOLEAN, an_update : BOOLEAN, seats : Update]

\* An update is on its way in one place at most: two processes or threads that
\* take from the same queue or slot do not both get it, though listeners are
\* never stopped and cancelled threads go on (mom.cpp:151, client_interface.cpp:197-201).
Places(u) ==
    {<<"activity", i>> : i \in {j \in DOMAIN activity : activity[j] = u}}
    \cup {<<"inbox", i>> : i \in {j \in DOMAIN inbox : inbox[j] = u}}
    \cup {<<"listener", v>> : v \in {w \in Visit : listener[w].update = u}}
    \cup {<<"thread", v>> : v \in {w \in Visit : thread[w].update = u}}
    \cup IF handler = u THEN {<<"handler", 0>>} ELSE {}
    \cup IF slot.update = SUCCESS /\ slot.seats = u THEN {<<"slot", 0>>} ELSE {}

EachUpdateInOnePlace ==
    \A r \in Room, n \in 1..count : Cardinality(Places([room |-> r, n |-> n])) <= 1

\* One thread polls at most, and none while the client asks for rooms or seats
\* or leaves (client_interface.cpp:313).  While it polls, its data is there, and
\* until the customer goes back so is update_args.
Polling == {v \in Visit : thread[v].at \in {"poll", "sleep", "take", "call"}
                          /\ ~thread[v].cancelled}

PollingBelongsToTheVisit ==
    Running =>
    /\ Cardinality(Polling) <= 1
    /\ Polling # {} =>
          /\ client.listener_extern_data
          /\ ~(client.at = "await" /\ client.call \in {"rooms", "seats", "exit"})
          /\ client.at \in {"seats", "copy"} => args.alive

\* As long as mom has not tried to stop a listener, the slot never goes back to
\* an older update (mom.cpp:107-136).
SlotGoesBack == /\ slot'.update = SUCCESS /\ slot'.seats # Blank
                /\ slot'.seats.n < slot.seats.n

NewsComeInOrder == [][~child.killed => ~SlotGoesBack]_vars

\* The same without that condition
NewsNeverGoBack == [][~SlotGoesBack]_vars

----------------------------------------------------------------------------
(* Liveness *)

\* A handler gets rid of its update, even when the customer left the room or
\* the cinema and is still registered (admin.cpp:41, 131).
HandlersGetThrough == handler # Blank ~> handler = Blank

\* In the first visit the callback gets the newest seats once the others stop
\* reserving, unless the customer ends the visit or the client (mom.cpp:122-136).
FirstVisit == /\ Running /\ args.alive /\ ~child.killed
              /\ client.listener_thread = 1 /\ 1 \in Polling

NewsArrive ==
    (FirstVisit /\ handler # Blank) ~> (~FirstVisit \/ args.seats.n = count)
=============================================================================
