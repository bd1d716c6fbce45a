------------------------------- MODULE Admin -------------------------------
(***************************************************************************)
(* The cinema's admin (src/src/admin/admin.cpp): a main loop that forks    *)
(* one process per request, and the handlers.  Handlers of different       *)
(* customers run at the same time, and only single SQL statements are      *)
(* atomic, so every statement of admin_handle_request is a step.           *)
(*                                                                         *)
(* A request is identified by the message type its answer is sent with:    *)
(* the customer's id, or the token of the one customer the cinema is       *)
(* registering (Registration).  Nobody sends a second request under a type *)
(* before the first is answered, so "handler" is a function of that type.  *)
(***************************************************************************)
EXTENDS Database, Sequences

CONSTANTS RoomInput,   \* the room numbers customers type
          SeatInput,   \* the seat numbers customers type
          MaxBusy      \* bound on the refused SQL statements

ASSUME InputAssumption == RoomInput \subseteq Int /\ SeatInput \subseteq Int
ASSUME MaxBusyAssumption == MaxBusy \in Nat

Registration == 0
Slot == {Registration} \cup User

VARIABLES handler,    \* slot -> the request in the admin's queue or its handler
          reply,      \* slot -> answers in the queue the cinema reads
          activity,   \* user -> seat updates on their way to the customer
          busyCount   \* refused statements so far

adminVars == <<handler, reply, activity, busyCount>>

Choice == {"register", "rooms", "seats", "select", "pay", "exit"}
Place  == [room : RoomInput \cup {0}, seat : SeatInput \cup {0}]
SeatSet == Nat \ {0}

SqlStep == {"insertUser", "login", "listRooms", "seatMap", "enterRoom",
            "currentRoom", "insert", "leaveRoom", "viewers", "snapshot",
            "leaveAgain", "pay", "logout", "release"}
Pc == SqlStep \cup {"idle", "queued", "notify", "dead"}

Handler == [pc : Pc, choice : Choice, room : RoomInput \cup Room \cup {0},
            seat : SeatInput \cup {0}, list : Seq(Place), id : 0..MaxUsers,
            taken : SUBSET SeatSet, viewers : SUBSET User]

Answer == [choice : Choice \cup {"invalid"}, ok : BOOLEAN, id : 0..MaxUsers,
           taken : SUBSET SeatSet]

Idle == [pc |-> "idle", choice |-> "exit", room |-> 0, seat |-> 0,
         list |-> <<>>, id |-> 0, taken |-> {}, viewers |-> {}]

AdminTypeOK == /\ handler \in [Slot -> Handler]
               /\ reply \in [Slot -> Seq(Answer)]
               /\ activity \in [User -> Seq(SUBSET SeatSet)]
               /\ busyCount \in 0..MaxBusy

AdminInit == /\ handler = [s \in Slot |-> Idle]
             /\ reply = [s \in Slot |-> <<>>]
             /\ activity = [u \in User |-> <<>>]
             /\ busyCount = 0

---------------------------------------------------------------------------
(* Helpers *)

At(s, label) == handler[s].pc = label

\* What happens to the request of one slot.
Become(s, h) == handler' = [handler EXCEPT ![s] = h]

Goto(s, label) == Become(s, [handler[s] EXCEPT !.pc = label])

\* The handler's send_message and exit.
Respond(s, answer) ==
    /\ reply' = [reply EXCEPT ![s] = Append(@, answer)]
    /\ Become(s, Idle)

Message(choice, ok, id, taken) ==
    [choice |-> choice, ok |-> ok, id |-> id, taken |-> taken]

Result(choice, ok) == Message(choice, ok, 0, {})

InStatement(s) == /\ handler[s].pc \in SqlStep
                  /\ At(s, "pay") => handler[s].list # <<>>

\* A statement may be refused while another handler has one to execute.
MayBeBusy(s) == /\ busyCount < MaxBusy
                /\ \E other \in Slot \ {s} : InStatement(other)

Sql(s, busy) == /\ busy => MayBeBusy(s)
                /\ busyCount' = IF busy THEN busyCount + 1 ELSE busyCount

\* seat_status[index-1] = ...: outside of the vector for a seat the room does
\* not have.  The write goes unnoticed or kills the handler.
Overrun(room, taken, seats) == ~ (taken \subseteq 1..seats)

---------------------------------------------------------------------------
(* The main loop: receive a request, fork its handler *)

FirstStep(choice) == CASE choice = "register" -> "insertUser"
                       [] choice = "rooms"    -> "listRooms"
                       [] choice = "seats"    -> "seatMap"
                       [] choice = "select"   -> "currentRoom"
                       [] choice = "pay"      -> "pay"
                       [] choice = "exit"     -> "logout"

admin_listen_requests(s) ==
    /\ At(s, "queued")
    /\ Goto(s, FirstStep(handler[s].choice))
    /\ UNCHANGED <<dbVars, reply, activity, busyCount>>

---------------------------------------------------------------------------
(* CHOICE_CONNECTION_ACCEPTED *)

InsertUser(s, busy) ==
    /\ At(s, "insertUser")
    /\ Sql(s, busy)
    /\ db_insert_user(busy)
    /\ Become(s, [handler[s] EXCEPT !.id = InsertedUser(busy), !.pc = "login"])
    /\ UNCHANGED <<active, reservations, clientsRooms, reply, activity>>

LoginUser(s, busy) ==
    /\ At(s, "login")
    /\ Sql(s, busy)
    /\ db_login_user(handler[s].id, busy)
    /\ Respond(s, Message("register", TRUE, handler[s].id, {}))
    /\ UNCHANGED <<users, reservations, clientsRooms, activity>>

---------------------------------------------------------------------------
(* CHOICE_ROOMS_REQUEST: an empty list is not an error *)

ListRooms(s, busy) ==
    /\ At(s, "listRooms")
    /\ Sql(s, busy)
    /\ Respond(s, Result("rooms", TRUE))
    /\ UNCHANGED <<dbVars, activity>>

---------------------------------------------------------------------------
(* CHOICE_SEATS_REQUEST *)

\* The seats of the room, then its reservations: the first never change, so
\* both queries are one step, of which either may be refused.
SeatMapUnknown(s, busy) ==
    /\ At(s, "seatMap")
    /\ Sql(s, busy)
    /\ handler[s].room \in Room => busy
    /\ Respond(s, Result("invalid", FALSE))
    /\ UNCHANGED <<dbVars, activity>>

SeatMap(s, busy) ==
    LET room  == handler[s].room
        taken == IF busy THEN {} ELSE db_select_reservations(room)
    IN  /\ At(s, "seatMap")
        /\ room \in Room
        /\ Sql(s, busy)
        /\ \/ Become(s, [handler[s] EXCEPT !.taken = taken \cap SeatsOf(room),
                                            !.pc = "enterRoom"])
           \/ /\ Overrun(room, taken, SeatCount[room])
              /\ Goto(s, "dead")
        /\ UNCHANGED <<dbVars, reply, activity>>

EnterRoom(s, busy) ==
    /\ At(s, "enterRoom")
    /\ Sql(s, busy)
    /\ db_insert_user_in_room(s, handler[s].room, busy)
    /\ Respond(s, Message("seats", TRUE, 0, handler[s].taken))
    /\ UNCHANGED <<users, active, reservations, activity>>

---------------------------------------------------------------------------
(* CHOICE_SEAT_SELECT_REQUEST *)

\* Mutant of CurrentRoom: no room reads as room 0, and nobody tests for it.
CurrentRoomOrZero(s, busy) ==
    LET found == IF busy THEN {} ELSE RoomsOfUser(s)
    IN  /\ At(s, "currentRoom")
        /\ Sql(s, busy)
        /\ \E room \in IF found = {} THEN {0} ELSE found :
               Become(s, [handler[s] EXCEPT !.room = room, !.pc = "insert"])
        /\ UNCHANGED <<dbVars, reply, activity>>

\* res.front() on all the rooms the customer is registered in, in no stated
\* order; on none (or after a refused query) the handler dies.  The test for
\* room 0 that follows cannot succeed: no row has it.
CurrentRoom(s, busy) ==
    LET found == IF busy THEN {} ELSE RoomsOfUser(s)
    IN  /\ At(s, "currentRoom")
        /\ Sql(s, busy)
        /\ \/ \E room \in found :
                 Become(s, [handler[s] EXCEPT !.room = room, !.pc = "insert"])
           \/ found = {} /\ Goto(s, "dead")
        /\ UNCHANGED <<dbVars, reply, activity>>

\* Mutant of InsertReservation: the result of the INSERT is not looked at.
InsertUnchecked(s, busy) ==
    LET h == handler[s]
    IN  /\ At(s, "insert")
        /\ Sql(s, busy)
        /\ IF ~ busy /\ SeatIsFree(h.room, h.seat)
           THEN db_insert_reservation(s, h.room, h.seat)
           ELSE UNCHANGED reservations
        /\ Goto(s, "leaveRoom")
        /\ UNCHANGED <<users, active, clientsRooms, reply, activity>>

InsertReservation(s, busy) ==
    LET h == handler[s]
    IN  /\ At(s, "insert")
        /\ Sql(s, busy)
        /\ \/ /\ ~ busy /\ SeatIsFree(h.room, h.seat)
              /\ db_insert_reservation(s, h.room, h.seat)
              /\ Goto(s, "leaveRoom")
              /\ UNCHANGED reply
           \/ /\ busy \/ ~ SeatIsFree(h.room, h.seat)
              /\ Respond(s, Result("select", FALSE))
              /\ UNCHANGED reservations
        /\ UNCHANGED <<users, active, clientsRooms, activity>>

LeaveRoom(s, busy) ==
    /\ At(s, "leaveRoom")
    /\ Sql(s, busy)
    /\ db_remove_user_in_room(s, busy)
    /\ Goto(s, "viewers")
    /\ UNCHANGED <<users, active, reservations, reply, activity>>

Viewers(s, busy) ==
    LET viewers == IF busy THEN {} ELSE db_select_users_in_room(handler[s].room)
    IN  /\ At(s, "viewers")
        /\ Sql(s, busy)
        /\ Become(s, [handler[s] EXCEPT
                !.viewers = viewers,
                !.pc = IF viewers = {} THEN "leaveAgain" ELSE "snapshot"])
        /\ UNCHANGED <<dbVars, reply, activity>>

\* As in SeatMap.  Refused seats leave an empty vector behind, refused
\* reservations a vector of free seats.
Snapshot(s, busy) ==
    LET room == handler[s].room
    IN  /\ At(s, "snapshot")
        /\ Sql(s, busy)
        /\ \E seats \in {SeatCount[room]} \cup (IF busy THEN {0} ELSE {}) :
             LET taken == IF busy /\ seats > 0 THEN {} ELSE db_select_reservations(room)
             IN  \/ Become(s, [handler[s] EXCEPT !.taken = taken \cap 1..seats,
                                                 !.pc = "notify"])
                 \/ Overrun(room, taken, seats) /\ Goto(s, "dead")
        /\ UNCHANGED <<dbVars, reply, activity>>

\* One update per viewer.  They go to different customers, so sending them
\* one by one makes no difference.
Notify(s) ==
    /\ At(s, "notify")
    /\ activity' = [u \in User |-> IF u \in handler[s].viewers
                                   THEN Append(activity[u], handler[s].taken)
                                   ELSE activity[u]]
    /\ Goto(s, "leaveAgain")
    /\ UNCHANGED <<dbVars, reply, busyCount>>

\* Mutant of LeaveRoomAgain: "return" for "break", so no answer is sent.
LeaveUnanswered(s, busy) ==
    /\ At(s, "leaveAgain")
    /\ Sql(s, busy)
    /\ db_remove_user_in_room(s, busy)
    /\ Become(s, Idle)
    /\ UNCHANGED <<users, active, reservations, reply, activity>>

LeaveRoomAgain(s, busy) ==
    /\ At(s, "leaveAgain")
    /\ Sql(s, busy)
    /\ db_remove_user_in_room(s, busy)
    /\ Respond(s, Result("select", TRUE))
    /\ UNCHANGED <<users, active, reservations, activity>>

---------------------------------------------------------------------------
(* CHOICE_PAY_RESERVATION_REQUEST *)

\* A refused UPDATE ends the loop, and the answer is SUCCESS all the same.
PayReservation(s, busy) ==
    LET list == handler[s].list
    IN  /\ At(s, "pay")
        /\ list # <<>>
        /\ Sql(s, busy)
        /\ db_update_paid_reservation(s, Head(list), busy)
        /\ Become(s, [handler[s] EXCEPT !.list = IF busy THEN <<>> ELSE Tail(list)])
        /\ UNCHANGED <<users, active, clientsRooms, reply, activity>>

\* Mutant of PaymentDone: the loop stops one seat early.
PaymentDoneEarly(s) ==
    /\ At(s, "pay")
    /\ Len(handler[s].list) <= 1
    /\ Respond(s, Result("pay", TRUE))
    /\ UNCHANGED <<dbVars, activity, busyCount>>

PaymentDone(s) ==
    /\ At(s, "pay")
    /\ handler[s].list = <<>>
    /\ Respond(s, Result("pay", TRUE))
    /\ UNCHANGED <<dbVars, activity, busyCount>>

---------------------------------------------------------------------------
(* CHOICE_EXIT: two statements whose results nobody looks at, no answer *)

\* Mutant of LogoutUser: a refused logout ends the handler.
LogoutOrGiveUp(s, busy) ==
    /\ At(s, "logout")
    /\ Sql(s, busy)
    /\ db_logout_user(s, busy)
    /\ IF busy THEN Become(s, Idle) ELSE Goto(s, "release")
    /\ UNCHANGED <<users, reservations, clientsRooms, reply, activity>>

LogoutUser(s, busy) ==
    /\ At(s, "logout")
    /\ Sql(s, busy)
    /\ db_logout_user(s, busy)
    /\ Goto(s, "release")
    /\ UNCHANGED <<users, reservations, clientsRooms, reply, activity>>

\* Mutant of ReleaseSeats: "break" for "return", so EXIT is answered.
ReleaseAndAnswer(s, busy) ==
    /\ At(s, "release")
    /\ Sql(s, busy)
    /\ db_remove_user_unpaid_reservations(s, busy)
    /\ Respond(s, Result("exit", FALSE))
    /\ UNCHANGED <<users, active, clientsRooms, activity>>

ReleaseSeats(s, busy) ==
    /\ At(s, "release")
    /\ Sql(s, busy)
    /\ db_remove_user_unpaid_reservations(s, busy)
    /\ Become(s, Idle)
    /\ UNCHANGED <<users, active, clientsRooms, reply, activity>>

---------------------------------------------------------------------------
AnswerRegistration(busy) == \/ InsertUser(Registration, busy)
                            \/ LoginUser(Registration, busy)

AnswerSelect(u, busy) == \/ CurrentRoom(u, busy)
                         \/ InsertReservation(u, busy)
                         \/ LeaveRoom(u, busy)
                         \/ Viewers(u, busy)
                         \/ Snapshot(u, busy)
                         \/ LeaveRoomAgain(u, busy)

AnswerUser(u, busy) == \/ ListRooms(u, busy)
                       \/ SeatMapUnknown(u, busy)
                       \/ SeatMap(u, busy)
                       \/ EnterRoom(u, busy)
                       \/ AnswerSelect(u, busy)
                       \/ PayReservation(u, busy)
                       \/ LogoutUser(u, busy)
                       \/ ReleaseSeats(u, busy)

\* One step of the handler (or of the main loop) for the request of a slot.
admin_handle_request(s) ==
    \/ admin_listen_requests(s)
    \/ \E busy \in BOOLEAN : \/ s = Registration /\ AnswerRegistration(busy)
                             \/ s \in User /\ AnswerUser(s, busy)
    \/ s \in User /\ (Notify(s) \/ PaymentDone(s))

\* Mutant of clean_db_tables: unpaid reservations are kept.
CleanVisitsOnly == /\ db_remove_users_in_room
                   /\ UNCHANGED <<users, active, reservations>>

\* admin_daemon, after the cinema was started again.
clean_db_tables == /\ db_remove_unpaid_reservations
                   /\ db_remove_users_in_room
                   /\ UNCHANGED <<users, active>>
=============================================================================
