----------------------------- MODULE BoxOffice -----------------------------
(***************************************************************************)
(* The admin together with everybody who calls it: the cinema's main loop  *)
(* that registers customers (cinema_take_client), one listener per         *)
(* customer (cinema_listen_client with cinema_handle), and the customers,  *)
(* who follow the menus of client_start through the calls of               *)
(* client_interface.                                                       *)
(*                                                                         *)
(* A call travels from the client through mom, the network and the         *)
(* listener to the admin and back; here it is the request in the admin's   *)
(* queue and, later, the answer taken from the reply queue.  The listener  *)
(* keeps its own state (session), because the inactivity timer may end the *)
(* session of a customer who does not know it yet.                         *)
(***************************************************************************)
EXTENDS Admin, FiniteSets

CONSTANTS MaxRestarts,  \* bound on the restarts of the cinema
          MaxCrashes    \* bound on the customers killed with a session open

ASSUME MaxRestartsAssumption == MaxRestarts \in Nat
ASSUME MaxCrashesAssumption == MaxCrashes \in Nat

VARIABLES session,   \* user -> what its listener does
          client,    \* user -> where the customer is in client_start
          restarts   \* restarts so far

vars == <<dbVars, adminVars, session, client, restarts>>

Screen == {"none", "menu", "rooms", "seats", "paid", "gone", "crashed"}

Client == [at : Screen, asked : Choice \cup {"nothing"}, room : RoomInput \cup {0},
           seat : SeatInput \cup {0}, cart : Seq(Place), view : SUBSET SeatSet]

Stranger == [at |-> "none", asked |-> "nothing", room |-> 0, seat |-> 0,
             cart |-> <<>>, view |-> {}]

TypeOK == /\ DbTypeOK
          /\ AdminTypeOK
          /\ session \in [User -> {"none", "open", "waiting", "closed"}]
          /\ client \in [User -> Client]
          /\ restarts \in 0..MaxRestarts

Init == /\ DbInit
        /\ AdminInit
        /\ session = [u \in User |-> "none"]
        /\ client = [u \in User |-> Stranger]
        /\ restarts = 0

---------------------------------------------------------------------------
(* Messages to and from the admin *)

Request(choice) == [Idle EXCEPT !.pc = "queued", !.choice = choice]

\* The answer the caller of a slot takes next.
Answered(s) == reply[s] # <<>>
Taken(s) == Head(reply[s])
TakeReply(s) == reply' = [reply EXCEPT ![s] = Tail(@)]

---------------------------------------------------------------------------
(* cinema_take_client: one registration at a time *)

AskRegistration ==
    /\ handler[Registration] = Idle
    /\ ~ Answered(Registration)
    /\ users < MaxUsers
    /\ Become(Registration, Request("register"))
    /\ UNCHANGED <<dbVars, reply, activity, busyCount, session, client, restarts>>

\* The listener of the new customer is forked and the customer logs in.  With
\* a refused INSERT the new customer's id is 0; what that session does under
\* an id that is no message type is not modelled.
Register ==
    /\ Answered(Registration)
    /\ TakeReply(Registration)
    /\ LET u == Taken(Registration).id
       IN  /\ session' = IF u = 0 THEN session ELSE [session EXCEPT ![u] = "open"]
           /\ client' = IF u = 0 THEN client ELSE [client EXCEPT ![u].at = "menu"]
    /\ UNCHANGED <<dbVars, handler, activity, busyCount, restarts>>

---------------------------------------------------------------------------
(* The customer's calls.  The listener passes each on and waits. *)

Ask(u, request, waiting) ==
    /\ session[u] = "open"
    /\ session' = [session EXCEPT ![u] = "waiting"]
    /\ Become(u, request)
    /\ client' = [client EXCEPT ![u] = waiting]
    /\ UNCHANGED <<dbVars, reply, activity, busyCount, restarts>>

\* get_rooms
AskRooms(u) ==
    /\ client[u].at = "menu"
    /\ Ask(u, Request("rooms"), [client[u] EXCEPT !.asked = "rooms"])

\* get_seats
AskSeats(u, room) ==
    /\ client[u].at = "rooms"
    /\ Ask(u, [Request("seats") EXCEPT !.room = room],
           [client[u] EXCEPT !.asked = "seats", !.room = room])

\* reserve_seat: the message carries the seat, not the room
AskSeat(u, seat) ==
    /\ client[u].at = "seats"
    /\ Ask(u, [Request("select") EXCEPT !.seat = seat],
           [client[u] EXCEPT !.asked = "select", !.seat = seat])

\* pay_seats, offered for a cart that is not empty
AskPayment(u) ==
    /\ client[u].at = "menu"
    /\ client[u].cart # <<>>
    /\ Ask(u, [Request("pay") EXCEPT !.list = client[u].cart],
           [client[u] EXCEPT !.asked = "pay"])

\* A screen that no longer shows the seats of a room.
Leave(c, screen) == [c EXCEPT !.at = screen, !.room = 0, !.view = {}]

\* GO_BACK asks nobody: the admin still sees the customer in the room.
GoBack(u) ==
    /\ session[u] # "waiting"
    /\ \/ /\ client[u].at = "rooms"
          /\ client' = [client EXCEPT ![u].at = "menu"]
       \/ /\ client[u].at = "seats"
          /\ client' = [client EXCEPT ![u] = Leave(@, "rooms")]
    /\ UNCHANGED <<dbVars, adminVars, session, restarts>>

---------------------------------------------------------------------------
(* The answers *)

AfterRooms(c, answer) == [c EXCEPT !.at = "rooms"]

AfterSeats(c, answer) ==
    IF answer.choice = "seats" THEN [c EXCEPT !.at = "seats", !.view = answer.taken]
    ELSE Leave(c, "menu")

AfterSelect(c, answer) ==
    IF answer.ok
    THEN [Leave(c, "menu") EXCEPT
              !.cart = Append(@, [room |-> c.room, seat |-> c.seat])]
    ELSE c

AfterPayment(c, answer) == IF answer.ok THEN [c EXCEPT !.at = "paid"] ELSE c

\* What the customer makes of the answer; a customer who is no longer there
\* makes nothing of it.
After(c, answer) ==
    LET d == IF c.at = "crashed" THEN c
             ELSE CASE c.asked = "rooms" -> AfterRooms(c, answer)
                    [] c.asked = "seats" -> AfterSeats(c, answer)
                    [] c.asked = "select" -> AfterSelect(c, answer)
                    [] c.asked = "pay" -> AfterPayment(c, answer)
                    [] OTHER -> c
    IN  [d EXCEPT !.asked = "nothing", !.seat = 0]

Receive(u) ==
    /\ session[u] = "waiting"
    /\ Answered(u)
    /\ TakeReply(u)
    /\ session' = [session EXCEPT ![u] = "open"]
    /\ client' = [client EXCEPT ![u] = After(@, Taken(u))]
    /\ UNCHANGED <<dbVars, handler, activity, busyCount, restarts>>

---------------------------------------------------------------------------
(* The end of a session: CHOICE_EXIT goes to the admin, which does not     *)
(* answer it                                                               *)

EndSession(u) ==
    /\ session[u] = "open"
    /\ session' = [session EXCEPT ![u] = "closed"]
    /\ Become(u, Request("exit"))
    /\ UNCHANGED <<dbVars, reply, activity, busyCount, restarts>>

\* client_close, from the menu or after the payment
Exit(u) == /\ client[u].at \in {"menu", "paid"}
           /\ EndSession(u)
           /\ client' = [client EXCEPT ![u].at = "gone"]

\* Mutant of Timeout: the admin is not told.
TimeoutUntold(u) ==
    /\ session[u] = "open"
    /\ session' = [session EXCEPT ![u] = "closed"]
    /\ UNCHANGED <<dbVars, adminVars, client, restarts>>

\* The EXIT of the inactivity timer
Timeout(u) == EndSession(u) /\ UNCHANGED client

\* The next call of a customer whose session the timer ended is answered with
\* that EXIT.
NoticeClosed(u) ==
    /\ session[u] = "closed"
    /\ client[u].at \in {"menu", "rooms", "seats", "paid"}
    /\ client' = [client EXCEPT ![u] = Leave(@, "gone")]
    /\ UNCHANGED <<dbVars, adminVars, session, restarts>>

\* The customer's process is killed.
Crash(u) ==
    /\ Cardinality({v \in User : client[v].at = "crashed"}) < MaxCrashes
    /\ client[u].at \in {"menu", "rooms", "seats", "paid"}
    /\ client' = [client EXCEPT ![u] = Leave(@, "crashed")]
    /\ UNCHANGED <<dbVars, adminVars, session, restarts>>

---------------------------------------------------------------------------
(* The updates, through the network forwarders and mom, in order *)

Deliver(u) ==
    /\ activity[u] # <<>>
    /\ activity' = [activity EXCEPT ![u] = Tail(@)]
    /\ client' = [client EXCEPT ![u].view =
            IF client[u].at = "seats" THEN Head(activity[u]) ELSE @]
    /\ UNCHANGED <<dbVars, handler, reply, busyCount, session, restarts>>

---------------------------------------------------------------------------
(* Mutant of Restart: the queues are not removed before the new start.     *)
RestartKeepingQueues ==
    /\ restarts < MaxRestarts
    /\ restarts' = restarts + 1
    /\ clean_db_tables
    /\ handler' = [s \in Slot |-> Idle]
    /\ session' = [u \in User |-> IF session[u] = "none" THEN "none" ELSE "closed"]
    /\ client' = [u \in User |-> IF session[u] = "none" THEN client[u]
                                 ELSE [Leave(client[u], "gone") EXCEPT !.asked = "nothing"]]
    /\ UNCHANGED <<reply, activity, busyCount>>

(* The cinema is stopped at any point, its queues are removed (destructor, *)
(* initializer), and it is started again; only the database survives.      *)

Restart ==
    /\ restarts < MaxRestarts
    /\ restarts' = restarts + 1
    /\ clean_db_tables
    /\ handler' = [s \in Slot |-> Idle]
    /\ reply' = [s \in Slot |-> <<>>]
    /\ activity' = [u \in User |-> <<>>]
    /\ session' = [u \in User |-> IF session[u] = "none" THEN "none" ELSE "closed"]
    /\ client' = [u \in User |-> IF session[u] = "none" THEN client[u]
                                 ELSE [Leave(client[u], "gone") EXCEPT !.asked = "nothing"]]
    /\ UNCHANGED busyCount

---------------------------------------------------------------------------
AdminStep(s) == admin_handle_request(s) /\ UNCHANGED <<session, client, restarts>>

Customer(u) == \/ AskRooms(u)
               \/ \E room \in RoomInput : AskSeats(u, room)
               \/ \E seat \in SeatInput : AskSeat(u, seat)
               \/ AskPayment(u)
               \/ GoBack(u)
               \/ Exit(u)
               \/ NoticeClosed(u)
               \/ Crash(u)

Next == \/ AskRegistration \/ Register \/ Restart
        \/ \E s \in Slot : AdminStep(s)
        \/ \E u \in User : Customer(u) \/ Receive(u) \/ Timeout(u) \/ Deliver(u)

Spec == Init /\ [][Next]_vars

\* The operating system runs every process that can run: the admin and its
\* handlers, the listeners and the cinema; the timer of an
\* inactive customer expires.  Customers owe nothing.
FairSpec == /\ Spec
            /\ WF_vars(Register)
            /\ \A s \in Slot : WF_vars(AdminStep(s))
            /\ \A u \in User : /\ WF_vars(Receive(u))
                               /\ WF_vars(Timeout(u))

---------------------------------------------------------------------------
(* Safety *)

RowsOf(u) == {row \in reservations : row.user = u}

\* A seat of a room belongs to one customer at most, whatever the handlers of
\* different customers do at the same time (primary key, db_api.cpp:55).
NoDoubleBooking ==
    \A a, b \in reservations : a.room = b.room /\ a.seat = b.seat => a = b

\* An EXIT the admin still has to carry out.
Leaving(u) == /\ handler[u].choice = "exit"
              /\ handler[u].pc \in {"queued", "logout", "release"}

\* A customer with unpaid reservations and nobody who will pay or release them.
AnswersFor(u) == session[u] \in {"open", "waiting"} \/ Leaving(u)
Stranded(u)   == ~ AnswersFor(u) /\ \E row \in reservations : row.user = u /\ ~ row.paid

\* An unpaid reservation belongs to a session that still runs or whose EXIT is
\* being carried out: no way to end a session, nor a restart, leaves a seat
\* reserved for nobody (admin.cpp:40-44, 164-167).  Refused statements aside.
NoStrandedHold == busyCount = 0 => \A u \in User : ~ Stranded(u)

\* Refused statements included: the one that strands seats is the DELETE of the
\* customer's own EXIT (admin.cpp:42), whose result nobody looks at.  No other
\* refusal does, the logout before it included, and nothing that comes later.
StrandedByTheDelete ==
    [][\A u \in User :
          ~ Stranded(u) /\ Stranded(u)'
          => handler[u].pc = "release" /\ busyCount' > busyCount]_vars

\* The queues never get out of step: an answer is there only for a listener
\* that waits for it, it is the only one and answers what was asked, and a
\* listener that does not wait has nothing under way, its EXIT excepted
\* (cinema_handler.cpp:14-17, admin.cpp:20-150).
OneAnswerPerRequest ==
    \A u \in User :
        /\ session[u] = "waiting" =>
              \/ handler[u].pc # "idle" /\ handler[u].choice = client[u].asked
                                       /\ ~ Answered(u)
              \/ /\ handler[u] = Idle /\ Len(reply[u]) = 1
                 /\ Taken(u).choice \in {client[u].asked, "invalid"}
        /\ session[u] # "waiting" =>
              ~ Answered(u) /\ (handler[u] = Idle \/ Leaving(u))

\* A seat was reserved for this customer, who has not been told yet.
ReservedUntold(u) ==
    \/ handler[u].pc \in {"leaveRoom", "viewers", "snapshot", "notify", "leaveAgain"}
    \/ Answered(u) /\ Taken(u).choice = "select" /\ Taken(u).ok

\* A customer has as many reservations as seats in the cart, one more while
\* the answer is on its way (admin.cpp:102-142, client_interface.cpp:357-360).
CartCountsReservations ==
    \A u \in User :
        /\ session[u] \in {"open", "waiting"}
        /\ client[u].at # "crashed"
        /\ handler[u].pc # "dead"
        => Cardinality(RowsOf(u)) =
               Len(client[u].cart) + (IF ReservedUntold(u) THEN 1 ELSE 0)

\* A customer who looks at a room is registered there and gets its updates
\* (admin.cpp:91, 109, 136).  Refused statements aside.
ViewersAreRegistered ==
    busyCount = 0 =>
        \A u \in User :
            session[u] = "open" /\ client[u].at = "seats"
            => [user |-> u, room |-> client[u].room] \in clientsRooms

\* Only what the customer put in the cart is ever paid (admin.cpp:27-28).
OnlyTheCartIsPaid ==
    \A row \in reservations :
        row.paid => \E i \in DOMAIN client[row.user].cart :
                       client[row.user].cart[i] = [room |-> row.room, seat |-> row.seat]

\* A paid reservation is never lost and never changes hands, across sessions,
\* other customers and restarts (README.md:9).
PaidIsFinal == [][\A row \in reservations : row.paid => row \in reservations']_vars

\* A customer who pays or was told so has a seat that is neither paid nor in the
\* list of the payment under way.
Paid(u, place)  == \E row \in RowsOf(u) : row.paid /\ [room |-> row.room, seat |-> row.seat] = place
ToPay(u, place) == /\ handler[u].choice = "pay" /\ handler[u].pc \in {"queued", "pay"}
                   /\ \E j \in DOMAIN handler[u].list : handler[u].list[j] = place

Purchases(u) == \/ session[u] = "waiting" /\ client[u].asked = "pay" /\ client[u].at = "menu"
                \/ session[u] = "open" /\ client[u].at = "paid"

Shortfall(u) == /\ Purchases(u)
                /\ \E i \in DOMAIN client[u].cart :
                      ~ Paid(u, client[u].cart[i]) /\ ~ ToPay(u, client[u].cart[i])

\* In one room, and refused statements included: what makes a purchase fall short
\* unnoticed is the refused UPDATE of the payment itself (admin.cpp:29-37).  No earlier
\* refusal does, no other customer's payment or EXIT, and nothing after the answer.
UnpaidByTheUpdate ==
    [][\A u \in User :
          ~ Shortfall(u) /\ Shortfall(u)'
          => handler[u].pc = "pay" /\ busyCount' > busyCount]_vars

---------------------------------------------------------------------------
(* What the documents say and the code does not keep *)

\* "Por ultimo el cliente realiza la transaccion para abonar las reservas. En
\* ese momento la reserva se hace efectiva" (README.md:9): a customer who was
\* told the purchase is done owns every seat of the cart, paid.
PurchaseIsEffective ==
    \A u \in User :
        session[u] = "open" /\ client[u].at = "paid" =>
            \A i \in DOMAIN client[u].cart :
                \E row \in RowsOf(u) :
                    /\ row.paid
                    /\ [room |-> row.room, seat |-> row.seat] = client[u].cart[i]

\* "los asientos deben aparecer como reservados para el resto de los clientes"
\* (README.md:7): when nothing is under way, a customer who looks at a room
\* sees every reserved seat of it as reserved.
Quiet == \A u \in User : handler[u] = Idle /\ ~ Answered(u) /\ activity[u] = <<>>

ViewersSeeReservations ==
    Quiet => \A u \in User :
                 session[u] = "open" /\ client[u].at = "seats"
                 => db_select_reservations(client[u].room) \subseteq client[u].view

---------------------------------------------------------------------------
(* Refinement: the tables implement the promise about seats *)

BookedPlace(row) == <<row.user, [room |-> row.room, seat |-> row.seat]>>

Booking == INSTANCE SeatBooking WITH
    Place <- [room : Room, seat : {s \in SeatInput : s > 0}],
    held <- {BookedPlace(row) : row \in {r \in reservations : ~ r.paid}},
    sold <- {BookedPlace(row) : row \in {r \in reservations : r.paid}},
    customer <- [u \in User |-> CASE session[u] = "none" -> "new"
                                  [] session[u] = "closed" -> "left"
                                  [] OTHER -> "in"]

\* Every step on the tables is a step of SeatBooking or changes nothing there:
\* holds are given only to customers in service, sold only to their holder,
\* and lost only after their customer left.
ImplementsBooking == Booking!Spec

\* The same with fairness: what a customer who left still holds is given back.
HoldsAreGivenBack == Booking!FairSpec

---------------------------------------------------------------------------
(* Liveness *)

\* A listener that passed a request on gets an answer (admin.cpp:149).
RequestsAreAnswered == \A u \in User : session[u] = "waiting" ~> session[u] # "waiting"

\* What a killed client reserved and did not pay is free again in the end
\* (README.md:19, cinema.cpp:109-114).
AbandonedSeatsAreFreed ==
    \A u \in User : client[u].at = "crashed" ~> \A row \in RowsOf(u) : row.paid
=============================================================================
