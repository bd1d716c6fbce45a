----------------------------- MODULE CartProofs -----------------------------
(***************************************************************************)
(* Proofs about what a customer believes: the cart, the room on the        *)
(* screen and the purchase agree with the tables.  Every step of the       *)
(* system is first put as one customer sees it (UserMoves); the invariants *)
(* are then about one customer and kept by each of these moves.            *)
(***************************************************************************)
EXTENDS ProtocolProofs, FiniteSetTheorems, SequenceTheorems

USE SeatCountAssumption, MaxUsersAssumption, InputAssumption,
    MaxBusyAssumption, MaxRestartsAssumption
USE DEF Registration, Slot, User

---------------------------------------------------------------------------
(* The steps of the handler of one customer *)

VisitsOf(u) == {visit \in clientsRooms : visit.user = u}

RowsKept(u) == RowsOf(u)' = RowsOf(u)
VisitsKept(u) == VisitsOf(u)' = VisitsOf(u)
Silent(u) == reply'[u] = reply[u]

Says(u, choice, ok) ==
    /\ handler'[u] = Idle
    /\ \E a \in Answer : /\ a.choice = choice /\ a.ok = ok
                         /\ reply'[u] = Append(reply[u], a)

Begins(u) ==
    LET g == handler[u]  h == handler'[u]
    IN  /\ g.pc = "queued" /\ h.pc = FirstStep(g.choice)
        /\ h.choice = g.choice /\ h.room = g.room /\ h.seat = g.seat /\ h.list = g.list
        /\ Silent(u) /\ RowsKept(u) /\ VisitsKept(u)

LooksUp(u) ==
    LET g == handler[u]  h == handler'[u]
    IN  /\ \/ g.pc = "listRooms" /\ Says(u, "rooms", TRUE)
           \/ g.pc = "seatMap" /\ Says(u, "invalid", FALSE)
           \/ /\ g.pc = "seatMap" /\ h.pc \in {"enterRoom", "dead"}
              /\ h.choice = g.choice /\ h.room = g.room
              /\ Silent(u)
        /\ RowsKept(u) /\ VisitsKept(u)

Enters(u) ==
    /\ handler[u].pc = "enterRoom" /\ Says(u, "seats", TRUE)
    /\ busyCount' = 0 => [user |-> u, room |-> handler[u].room] \in clientsRooms'
    /\ RowsKept(u)

FindsRoom(u) ==
    LET g == handler[u]  h == handler'[u]
    IN  /\ g.pc = "currentRoom" /\ h.choice = g.choice /\ h.seat = g.seat
        /\ \/ h.pc = "insert" /\ h.room \in RoomsOfUser(u)
           \/ h.pc = "dead"
        /\ Silent(u) /\ RowsKept(u) /\ VisitsKept(u)

Reserves(u) ==
    /\ Inserts(u)
    /\ handler'[u].pc = "leaveRoom" /\ handler'[u].choice = handler[u].choice
    /\ Silent(u)

Telling == {"leaveRoom", "viewers", "snapshot", "notify", "leaveAgain"}

Tells(u) ==
    /\ handler[u].pc \in Telling /\ handler'[u].pc \in Telling \cup {"dead"}
    /\ handler'[u].choice = handler[u].choice
    /\ Silent(u) /\ RowsKept(u)

AnswersSeat(u) ==
    /\ \/ handler[u].pc = "insert" /\ Says(u, "select", FALSE) /\ VisitsKept(u)
       \/ handler[u].pc = "leaveAgain" /\ Says(u, "select", TRUE)
    /\ RowsKept(u)

PaysOne(u) ==
    LET g == handler[u]  h == handler'[u]
    IN  /\ g.pc = "pay" /\ g.list # <<>>
        /\ h.pc = "pay" /\ h.choice = g.choice
        /\ \/ Pays(u) /\ h.list = Tail(g.list)
           \/ RowsKept(u) /\ h.list = <<>> /\ busyCount' > busyCount
        /\ Silent(u) /\ VisitsKept(u)

PaysAll(u) ==
    /\ handler[u].pc = "pay" /\ handler[u].list = <<>> /\ Says(u, "pay", TRUE)
    /\ RowsKept(u) /\ VisitsKept(u)

Quits(u) ==
    /\ handler[u].pc \in {"logout", "release"}
    /\ \/ handler'[u] = Idle
       \/ handler'[u].choice = handler[u].choice /\ handler'[u].pc = "release"
    /\ \A row \in RowsOf(u) : row.paid => row \in RowsOf(u)'
    /\ RowsOf(u)' \subseteq RowsOf(u)
    /\ Silent(u)

Works(u) == /\ session'[u] = session[u] /\ client'[u] = client[u]
            /\ \/ Begins(u) \/ LooksUp(u) \/ Enters(u) \/ FindsRoom(u) \/ Reserves(u)
               \/ Tells(u) \/ AnswersSeat(u) \/ PaysOne(u) \/ PaysAll(u) \/ Quits(u)

\* A handler that goes on changes its own slot and answers nothing.
LEMMA GoesOnIn ==
    ASSUME TypeInv, NEW u \in User, NEW h, Become(u, h), UNCHANGED reply
    PROVE  handler'[u] = h /\ Silent(u)
BY DEF Become, Silent, TypeInv, TypeOK, AdminTypeOK

\* A handler that ends says what it answers.
LEMMA EndsSaying ==
    ASSUME TypeInv, NEW u \in User, NEW a \in Answer, Respond(u, a)
    PROVE  Says(u, a.choice, a.ok)
<1>1. handler'[u] = Idle
  BY RespondSlot DEF Become, TypeInv, TypeOK, AdminTypeOK
<1>2. reply'[u] = Append(reply[u], a)
  BY RespondSlot
<1>3. QED
  BY <1>1, <1>2 DEF Says

\* The same for the answers without content.
LEMMA EndsWithResult ==
    ASSUME TypeInv, NEW u \in User, NEW choice \in Choice \cup {"invalid"},
           NEW ok \in BOOLEAN, Respond(u, Result(choice, ok))
    PROVE  Says(u, choice, ok)
<1> DEFINE a == Result(choice, ok)
<1>1. a \in Answer
  BY ResultType
<1>2. a.choice = choice /\ a.ok = ok
  BY DEF Result, Message
<1>3. Respond(u, a)
  OBVIOUS
<1> HIDE DEF a
<1>4. QED
  BY <1>1, <1>2, <1>3, EndsSaying

\* A change of pc is a change of nothing else.
LEMMA OnlyPc ==
    ASSUME NEW g \in Handler, NEW pc, NEW h, h = [g EXCEPT !.pc = pc]
    PROVE  /\ h.pc = pc /\ h.choice = g.choice /\ h.room = g.room
           /\ h.seat = g.seat /\ h.list = g.list
BY DEF Handler

\* An unchanged table keeps everybody's rows.
LEMMA TablesKept ==
    ASSUME NEW u
    PROVE  /\ UNCHANGED reservations => RowsKept(u)
           /\ UNCHANGED clientsRooms => VisitsKept(u)
BY DEF RowsKept, VisitsKept, RowsOf, VisitsOf

\* The handler of a reservation.
LEMMA SelectMoves ==
    ASSUME TypeInv, TypeInv', NEW u \in User, NEW busy \in BOOLEAN, AnswerSelect(u, busy)
    PROVE  FindsRoom(u) \/ Reserves(u) \/ Tells(u) \/ AnswersSeat(u)
<1>0. handler[u] \in Handler
  BY DEF TypeInv, TypeOK, AdminTypeOK
<1>1. CASE CurrentRoom(u, busy)
  <2>1. At(u, "currentRoom") /\ UNCHANGED <<reservations, clientsRooms, reply>>
    BY <1>1 DEF CurrentRoom, dbVars
  <2>2. ASSUME NEW room \in RoomsOfUser(u),
               Become(u, [handler[u] EXCEPT !.room = room, !.pc = "insert"])
        PROVE  FindsRoom(u)
    <3> DEFINE h == [handler[u] EXCEPT !.room = room, !.pc = "insert"]
    <3>1. /\ h.pc = "insert" /\ h.choice = handler[u].choice
          /\ h.seat = handler[u].seat /\ h.room = room
      BY <1>0 DEF Handler
    <3>2. Become(u, h)
      BY <2>2
    <3> HIDE DEF h
    <3>3. QED
      BY <2>1, <3>1, <3>2, GoesOnIn, TablesKept DEF FindsRoom, At
  <2>3. CASE Goto(u, "dead")
    <3> DEFINE h == [handler[u] EXCEPT !.pc = "dead"]
    <3>1. h.pc = "dead" /\ h.choice = handler[u].choice /\ h.seat = handler[u].seat
      BY <1>0, OnlyPc
    <3>2. Become(u, h)
      BY <2>3 DEF Goto
    <3> HIDE DEF h
    <3>3. QED
      BY <2>1, <3>1, <3>2, GoesOnIn, TablesKept DEF FindsRoom, At
  <2>4. QED
    BY <1>1, <2>2, <2>3 DEF CurrentRoom
<1>2. CASE InsertReservation(u, busy)
  <2>1. At(u, "insert") /\ UNCHANGED clientsRooms
    BY <1>2 DEF InsertReservation
  <2>2. ASSUME SeatIsFree(handler[u].room, handler[u].seat),
               db_insert_reservation(u, handler[u].room, handler[u].seat),
               Goto(u, "leaveRoom"), UNCHANGED reply
        PROVE  Reserves(u)
    <3> DEFINE h == [handler[u] EXCEPT !.pc = "leaveRoom"]
    <3>1. h.pc = "leaveRoom" /\ h.choice = handler[u].choice
      BY <1>0, OnlyPc
    <3>2. Become(u, h)
      BY <2>2 DEF Goto
    <3> HIDE DEF h
    <3>3. QED
      BY <2>1, <2>2, <3>1, <3>2, GoesOnIn DEF Reserves, Inserts
  <2>3. ASSUME Respond(u, Result("select", FALSE)), UNCHANGED reservations
        PROVE  AnswersSeat(u)
    <3>1. Says(u, "select", FALSE)
      BY <2>3, EndsWithResult DEF Choice
    <3>2. QED
      BY <2>1, <2>3, <3>1, TablesKept DEF AnswersSeat, At
  <2>4. QED
    BY <1>2, <2>2, <2>3 DEF InsertReservation
<1>3. CASE LeaveRoom(u, busy)
  <2> DEFINE h == [handler[u] EXCEPT !.pc = "viewers"]
  <2>1. h.pc = "viewers" /\ h.choice = handler[u].choice
    BY <1>0, OnlyPc
  <2>2. Become(u, h) /\ At(u, "leaveRoom") /\ UNCHANGED <<reservations, reply>>
    BY <1>3 DEF LeaveRoom, Goto
  <2> HIDE DEF h
  <2>3. QED
    BY <2>1, <2>2, GoesOnIn, TablesKept DEF Tells, Telling, At
<1>4. CASE Viewers(u, busy)
  <2> DEFINE viewers == IF busy THEN {} ELSE db_select_users_in_room(handler[u].room)
             pc == IF viewers = {} THEN "leaveAgain" ELSE "snapshot"
             h == [handler[u] EXCEPT !.viewers = viewers, !.pc = pc]
  <2>1. pc \in Telling
    BY DEF Telling
  <2>2. Become(u, h) /\ At(u, "viewers") /\ UNCHANGED <<reservations, reply>>
    BY <1>4 DEF Viewers, dbVars
  <2> HIDE DEF pc, viewers
  <2>3. h.pc = pc /\ h.choice = handler[u].choice
    BY <1>0 DEF Handler
  <2> HIDE DEF h
  <2>4. QED
    BY <2>1, <2>2, <2>3, GoesOnIn, TablesKept DEF Tells, Telling, At
<1>5. CASE Snapshot(u, busy)
  <2>1. PICK h : Become(u, h) /\ (\/ h = [handler[u] EXCEPT !.pc = "dead"]
                                  \/ \E taken : h = [handler[u] EXCEPT
                                                 !.taken = taken, !.pc = "notify"])
    BY <1>5 DEF Snapshot, Goto
  <2>2. h.pc \in {"notify", "dead"} /\ h.choice = handler[u].choice
    BY <1>0, <2>1 DEF Handler
  <2>3. At(u, "snapshot") /\ UNCHANGED <<reservations, reply>>
    BY <1>5 DEF Snapshot, dbVars
  <2>4. QED
    BY <2>1, <2>2, <2>3, GoesOnIn, TablesKept DEF Tells, Telling, At
<1>6. CASE LeaveRoomAgain(u, busy)
  <2>1. Says(u, "select", TRUE)
    BY <1>6, EndsWithResult DEF LeaveRoomAgain, Choice
  <2>2. QED
    BY <1>6, <2>1, TablesKept DEF LeaveRoomAgain, AnswersSeat, At
<1>7. QED
  BY <1>1, <1>2, <1>3, <1>4, <1>5, <1>6 DEF AnswerSelect

\* The handlers of the other requests.
LEMMA UserHandlerMoves ==
    ASSUME TypeInv, TypeInv', NEW u \in User, NEW busy \in BOOLEAN, AnswerUser(u, busy),
           ~ AnswerSelect(u, busy)
    PROVE  LooksUp(u) \/ Enters(u) \/ PaysOne(u) \/ Quits(u)
<1>0. handler[u] \in Handler /\ busyCount \in Nat
  BY DEF TypeInv, TypeOK, AdminTypeOK
<1>1. CASE ListRooms(u, busy)
  <2>1. Says(u, "rooms", TRUE)
    BY <1>1, EndsWithResult DEF ListRooms, Choice
  <2>2. QED
    BY <1>1, <2>1, TablesKept DEF ListRooms, LooksUp, At, dbVars
<1>2. CASE SeatMapUnknown(u, busy)
  <2>1. Says(u, "invalid", FALSE)
    BY <1>2, EndsWithResult DEF SeatMapUnknown
  <2>2. QED
    BY <1>2, <2>1, TablesKept DEF SeatMapUnknown, LooksUp, At, dbVars
<1>3. CASE SeatMap(u, busy)
  <2>1. PICK h : Become(u, h) /\ (\/ h = [handler[u] EXCEPT !.pc = "dead"]
                                  \/ \E taken : h = [handler[u] EXCEPT
                                                 !.taken = taken, !.pc = "enterRoom"])
    BY <1>3 DEF SeatMap, Goto
  <2>2. h.pc \in {"enterRoom", "dead"} /\ h.choice = handler[u].choice
                                       /\ h.room = handler[u].room
    BY <1>0, <2>1 DEF Handler
  <2>3. At(u, "seatMap") /\ UNCHANGED <<reservations, clientsRooms, reply>>
    BY <1>3 DEF SeatMap, dbVars
  <2>4. QED
    BY <2>1, <2>2, <2>3, GoesOnIn, TablesKept DEF LooksUp, At
<1>4. CASE EnterRoom(u, busy)
  <2> DEFINE a == Message("seats", TRUE, 0, handler[u].taken)
  <2>1. a \in Answer /\ a.choice = "seats" /\ a.ok = TRUE
    BY <1>0 DEF Answer, Message, Choice, Handler
  <2>2. Respond(u, a) /\ At(u, "enterRoom") /\ UNCHANGED reservations
    BY <1>4 DEF EnterRoom
  <2> HIDE DEF a
  <2>3. Says(u, "seats", TRUE)
    BY <2>1, <2>2, EndsSaying
  <2>4. busyCount' = 0 => [user |-> u, room |-> handler[u].room] \in clientsRooms'
    BY <1>0, <1>4 DEF EnterRoom, Sql, db_insert_user_in_room
  <2>5. QED
    BY <2>2, <2>3, <2>4, TablesKept DEF Enters, At
<1>5. CASE PayReservation(u, busy)
  <2> DEFINE list == IF busy THEN <<>> ELSE Tail(handler[u].list)
             h == [handler[u] EXCEPT !.list = list]
  <2>1. /\ Become(u, h) /\ At(u, "pay") /\ UNCHANGED <<clientsRooms, reply>>
        /\ handler[u].list # <<>>
    BY <1>5 DEF PayReservation
  <2>2. h.pc = handler[u].pc /\ h.choice = handler[u].choice /\ h.list = list
    BY <1>0 DEF Handler
  <2> HIDE DEF h
  <2>3. handler'[u] = h /\ Silent(u)
    BY <2>1, GoesOnIn
  <2>4. CASE busy
    <3>1. UNCHANGED reservations /\ busyCount' > busyCount
      BY <1>5, <2>4 DEF PayReservation, db_update_paid_reservation, Sql, TypeInv, TypeOK,
                        AdminTypeOK
    <3>2. QED
      BY <1>0, <2>1, <2>2, <2>3, <2>4, <3>1, TablesKept DEF PaysOne, At
  <2>5. CASE ~ busy
    <3>1. Pays(u)
      BY <1>5, <2>1, <2>5 DEF PayReservation, Pays, db_update_paid_reservation
    <3>2. QED
      BY <2>1, <2>2, <2>3, <2>5, <3>1, TablesKept DEF PaysOne, At
  <2>6. QED
    BY <2>4, <2>5
<1>6. CASE LogoutUser(u, busy)
  <2> DEFINE h == [handler[u] EXCEPT !.pc = "release"]
  <2>1. h.pc = "release" /\ h.choice = handler[u].choice
    BY <1>0, OnlyPc
  <2>2. Become(u, h) /\ At(u, "logout") /\ UNCHANGED <<reservations, reply>>
    BY <1>6 DEF LogoutUser, Goto
  <2> HIDE DEF h
  <2>3. QED
    BY <2>1, <2>2, GoesOnIn, TablesKept DEF Quits, At, RowsKept
<1>7. CASE ReleaseSeats(u, busy)
  <2>1. handler'[u] = Idle /\ Silent(u)
    BY <1>7, GoesOnIn DEF ReleaseSeats
  <2>2. reservations' = {row \in reservations : busy \/ row.user # u \/ row.paid}
    BY <1>7 DEF ReleaseSeats, db_remove_user_unpaid_reservations
  <2>3. /\ \A row \in RowsOf(u) : row.paid => row \in RowsOf(u)'
        /\ RowsOf(u)' \subseteq RowsOf(u)
    BY <2>2 DEF RowsOf
  <2>4. QED
    BY <1>7, <2>1, <2>3 DEF ReleaseSeats, Quits, At
<1>8. QED
  BY <1>1, <1>2, <1>3, <1>4, <1>5, <1>6, <1>7 DEF AnswerUser

\* Every step of the admin for a customer is one of these moves.
LEMMA AdminWorks ==
    ASSUME TypeInv, TypeInv', NEW u \in User, AdminStep(u)
    PROVE  Works(u)
<1>0. session'[u] = session[u] /\ client'[u] = client[u] /\ handler[u] \in Handler
  BY DEF AdminStep, TypeInv, TypeOK, AdminTypeOK
<1>1. CASE admin_listen_requests(u)
  <2> DEFINE pc == FirstStep(handler[u].choice)
             h == [handler[u] EXCEPT !.pc = pc]
  <2>1. Become(u, h) /\ At(u, "queued") /\ UNCHANGED <<reservations, clientsRooms, reply>>
    BY <1>1 DEF admin_listen_requests, Goto, dbVars
  <2> HIDE DEF pc
  <2>2. /\ h.pc = pc /\ h.choice = handler[u].choice /\ h.room = handler[u].room
        /\ h.seat = handler[u].seat /\ h.list = handler[u].list
    BY <1>0, OnlyPc
  <2> HIDE DEF h
  <2>3. Begins(u)
    BY <2>1, <2>2, GoesOnIn, TablesKept DEF Begins, At, pc
  <2>4. QED
    BY <1>0, <2>3 DEF Works
<1>2. ASSUME NEW busy \in BOOLEAN, AnswerUser(u, busy) PROVE Works(u)
  BY <1>0, <1>2, SelectMoves, UserHandlerMoves DEF Works
<1>3. CASE Notify(u)
  <2> DEFINE h == [handler[u] EXCEPT !.pc = "leaveAgain"]
  <2>1. h.pc = "leaveAgain" /\ h.choice = handler[u].choice
    BY <1>0, OnlyPc
  <2>2. Become(u, h) /\ At(u, "notify") /\ UNCHANGED <<reservations, reply>>
    BY <1>3 DEF Notify, Goto, dbVars
  <2> HIDE DEF h
  <2>3. QED
    BY <1>0, <2>1, <2>2, GoesOnIn, TablesKept DEF Works, Tells, Telling, At
<1>4. CASE PaymentDone(u)
  <2>1. Says(u, "pay", TRUE)
    BY <1>4, EndsWithResult DEF PaymentDone, Choice
  <2>2. QED
    BY <1>0, <1>4, <2>1, TablesKept DEF Works, PaymentDone, PaysAll, At, dbVars
<1>5. QED
  BY <1>1, <1>2, <1>3, <1>4 DEF AdminStep, admin_handle_request

---------------------------------------------------------------------------
(* The moves of the customer and of the others *)

SameCart(u) == /\ client'[u].at = client[u].at /\ client'[u].asked = client[u].asked
               /\ client'[u].room = client[u].room /\ client'[u].seat = client[u].seat
               /\ client'[u].cart = client[u].cart

Untouched(u) == /\ handler'[u] = handler[u] /\ Silent(u)
                /\ session'[u] = session[u] /\ SameCart(u)
                /\ RowsKept(u) /\ VisitsKept(u)

\* What is asked where.
AskedWhere(c) == \/ c.asked = "rooms" /\ c.at = "menu"
                 \/ c.asked = "seats" /\ c.at = "rooms"
                 \/ c.asked = "select" /\ c.at = "seats"
                 \/ c.asked = "pay" /\ c.at = "menu"

Asks(u) ==
    LET h == handler'[u]  d == client'[u]
    IN  /\ session[u] = "open" /\ session'[u] = "waiting"
        /\ h.pc = "queued" /\ h.choice = d.asked /\ AskedWhere(d)
        /\ d.at = client[u].at /\ d.cart = client[u].cart
        /\ d.asked = "seats" => h.room = d.room
        /\ d.asked = "select" => h.seat = d.seat /\ d.room = client[u].room
        /\ d.asked = "pay" => h.list = d.cart
        /\ Silent(u) /\ RowsKept(u) /\ VisitsKept(u)

GoesBack(u) ==
    /\ session[u] # "waiting" /\ session'[u] = session[u]
    /\ client'[u].at \in {"menu", "rooms"} /\ client[u].at \in {"rooms", "seats"}
    /\ client'[u].asked = client[u].asked /\ client'[u].cart = client[u].cart
    /\ handler'[u] = handler[u] /\ Silent(u) /\ RowsKept(u) /\ VisitsKept(u)

\* The end of the session, on either side: by an EXIT, by the news of one, or
\* because the customer is killed.
Stops(u) ==
    /\ \/ session'[u] = "closed"
       \/ session'[u] = session[u] /\ client'[u].at = "crashed"
    /\ \/ handler'[u] = handler[u]
       \/ handler'[u].choice = "exit" /\ handler'[u].pc = "queued"
    /\ client'[u].cart = client[u].cart
    /\ Silent(u) /\ RowsKept(u) /\ VisitsKept(u)

Receives(u) ==
    /\ session[u] = "waiting" /\ session'[u] = "open"
    /\ Answered(u) /\ reply'[u] = Tail(reply[u]) /\ handler'[u] = handler[u]
    /\ client'[u] = After(client[u], Taken(u))
    /\ RowsKept(u) /\ VisitsKept(u)

Opens(u) ==
    /\ session[u] = "none" /\ session'[u] = "open"
    /\ client'[u].at = "menu" /\ client'[u].cart = client[u].cart
    /\ client'[u].asked = client[u].asked
    /\ handler'[u] = handler[u] /\ Silent(u) /\ RowsKept(u) /\ VisitsKept(u)

\* A step of the admin for somebody else.
LEMMA OthersWork ==
    ASSUME TypeInv, NEW s \in Slot, AdminStep(s), NEW u \in User, u # s
    PROVE  Untouched(u)
<1>1. /\ handler'[u] = handler[u] /\ Silent(u)
      /\ session'[u] = session[u] /\ SameCart(u)
  BY AdminFlow DEF HandlerStep, AdminStep, Silent, SameCart
<1>2. RowsOf(u)' \subseteq RowsOf(u)
  BY RowsOfOthers DEF RowsOf
<1>3. ASSUME NEW row \in reservations, row.user = u PROVE row \in reservations'
  <2>1. CASE admin_listen_requests(s) \/ Notify(s) \/ PaymentDone(s)
    BY <2>1 DEF admin_listen_requests, Notify, PaymentDone, dbVars
  <2>2. ASSUME NEW busy \in BOOLEAN, AnswerRegistration(busy) PROVE row \in reservations'
    BY <2>2 DEF AnswerRegistration, InsertUser, LoginUser
  <2>3. ASSUME NEW busy \in BOOLEAN, s \in User, AnswerUser(s, busy)
        PROVE  row \in reservations'
    <3>1. UNCHANGED reservations \/ Inserts(s) \/ Pays(s) \/ Releases(s)
      BY <2>3, AnswerUserTable
    <3>2. CASE Pays(s)
      <4> DEFINE place == Head(handler[s].list)
      <4>1. PaidRow(row, s, place) = row
        BY <1>3 DEF PaidRow
      <4>2. QED
        BY <3>2, <4>1 DEF Pays, db_update_paid_reservation
    <3>3. QED
      BY <1>3, <3>1, <3>2 DEF Inserts, db_insert_reservation, Releases,
                              db_remove_user_unpaid_reservations
  <2>4. QED
    BY <2>1, <2>2, <2>3 DEF AdminStep, admin_handle_request
<1>4. RowsKept(u)
  BY <1>2, <1>3 DEF RowsKept, RowsOf
<1>5. VisitsKept(u)
  <2>1. CASE admin_listen_requests(s) \/ Notify(s) \/ PaymentDone(s)
    BY <2>1, TablesKept DEF admin_listen_requests, Notify, PaymentDone, dbVars
  <2>2. ASSUME NEW busy \in BOOLEAN, AnswerRegistration(busy) PROVE VisitsKept(u)
    BY <2>2, TablesKept DEF AnswerRegistration, InsertUser, LoginUser
  <2>3. ASSUME NEW busy \in BOOLEAN, db_insert_user_in_room(s, handler[s].room, busy)
        PROVE  VisitsKept(u)
    BY <2>3 DEF db_insert_user_in_room, VisitsKept, VisitsOf
  <2>4. ASSUME NEW busy \in BOOLEAN, db_remove_user_in_room(s, busy)
        PROVE  VisitsKept(u)
    BY <2>4 DEF db_remove_user_in_room, VisitsKept, VisitsOf
  <2>5. ASSUME NEW busy \in BOOLEAN, s \in User, AnswerUser(s, busy)
        PROVE  VisitsKept(u)
    <3>1. CASE EnterRoom(s, busy) \/ LeaveRoom(s, busy) \/ LeaveRoomAgain(s, busy)
      BY <2>3, <2>4, <3>1 DEF EnterRoom, LeaveRoom, LeaveRoomAgain
    <3>2. CASE \/ ListRooms(s, busy) \/ SeatMapUnknown(s, busy) \/ SeatMap(s, busy)
               \/ PayReservation(s, busy) \/ LogoutUser(s, busy) \/ ReleaseSeats(s, busy)
      BY <3>2, TablesKept DEF ListRooms, SeatMapUnknown, SeatMap, PayReservation,
                              LogoutUser, ReleaseSeats, dbVars
    <3>3. CASE \/ CurrentRoom(s, busy) \/ InsertReservation(s, busy)
               \/ Viewers(s, busy) \/ Snapshot(s, busy)
      BY <3>3, TablesKept DEF CurrentRoom, InsertReservation, Viewers, Snapshot, dbVars
    <3>4. QED
      BY <2>5, <3>1, <3>2, <3>3 DEF AnswerUser, AnswerSelect
  <2>6. QED
    BY <2>1, <2>2, <2>5 DEF AdminStep, admin_handle_request
<1>6. QED
  BY <1>1, <1>4, <1>5 DEF Untouched

\* The tables are not the customers' to write.
LEMMA CallersKeepTables ==
    ASSUME \/ AskRegistration \/ Register \/ UNCHANGED vars
           \/ \E v \in User : Customer(v) \/ Receive(v) \/ Timeout(v) \/ Deliver(v),
           NEW u
    PROVE  RowsKept(u) /\ VisitsKept(u)
<1>1. UNCHANGED <<reservations, clientsRooms>>
  BY DEF AskRegistration, Register, vars, dbVars, Customer, AskRooms, AskSeats,
         AskSeat, AskPayment, Ask, GoBack, Exit, NoticeClosed, Crash, Receive,
         Timeout, EndSession, Deliver
<1>2. QED
  BY <1>1, TablesKept

\* What a call is made of.
LEMMA AskMove ==
    ASSUME TypeInv, NEW u \in User, NEW r \in Handler, NEW d \in Client, Ask(u, r, d),
           r.pc = "queued", r.choice = d.asked, AskedWhere(d),
           d.at = client[u].at, d.cart = client[u].cart,
           d.asked = "seats" => r.room = d.room,
           d.asked = "select" => r.seat = d.seat /\ d.room = client[u].room,
           d.asked = "pay" => r.list = d.cart
    PROVE  Asks(u)
<1>1. handler'[u] = r
  BY BecomeSlot DEF Ask
<1>2. session[u] = "open" /\ session'[u] = "waiting" /\ client'[u] = d
  BY DEF Ask, TypeInv, TypeOK
<1>3. Silent(u) /\ RowsKept(u) /\ VisitsKept(u)
  BY TablesKept DEF Ask, Silent, dbVars
<1>4. QED
  BY <1>1, <1>2, <1>3 DEF Asks

\* A customer's step, for the customer.
LEMMA CustomerMoves ==
    ASSUME TypeInv, ProtocolInv, NEW u \in User, Customer(u)
    PROVE  Asks(u) \/ GoesBack(u) \/ Stops(u)
<1>0. /\ client[u] \in Client
      /\ \A choice \in Choice : /\ Request(choice) \in Handler
                                /\ Request(choice).pc = "queued"
                                /\ Request(choice).choice = choice
  BY RequestType, RequestFields DEF TypeInv, TypeOK
<1>K. RowsKept(u) /\ VisitsKept(u)
  BY CallersKeepTables
<1>1. CASE AskRooms(u)
  <2> DEFINE r == Request("rooms")
             d == [client[u] EXCEPT !.asked = "rooms"]
  <2>1. /\ d \in Client /\ d.asked = "rooms" /\ d.at = client[u].at
        /\ d.cart = client[u].cart
    BY <1>0 DEF Client, Choice
  <2>2. Ask(u, r, d) /\ client[u].at = "menu"
    BY <1>1 DEF AskRooms
  <2>3. r \in Handler /\ r.pc = "queued" /\ r.choice = "rooms"
    BY <1>0 DEF Choice
  <2> HIDE DEF r, d
  <2>4. QED
    BY <2>1, <2>2, <2>3, AskMove DEF AskedWhere
<1>2. ASSUME NEW room \in RoomInput, AskSeats(u, room) PROVE Asks(u)
  <2> DEFINE q == Request("seats")
             r == [q EXCEPT !.room = room]
             d == [client[u] EXCEPT !.asked = "seats", !.room = room]
  <2>1. /\ d \in Client /\ d.asked = "seats" /\ d.at = client[u].at
        /\ d.cart = client[u].cart /\ d.room = room
    BY <1>0 DEF Client, Choice
  <2>2. Ask(u, r, d) /\ client[u].at = "rooms"
    BY <1>2 DEF AskSeats
  <2>3. q \in Handler /\ q.pc = "queued" /\ q.choice = "seats"
    BY <1>0 DEF Choice
  <2> HIDE DEF q
  <2>4. r \in Handler /\ r.pc = "queued" /\ r.choice = "seats" /\ r.room = room
    BY <2>3 DEF Handler
  <2> HIDE DEF r, d
  <2>5. QED
    BY <2>1, <2>2, <2>4, AskMove DEF AskedWhere
<1>3. ASSUME NEW seat \in SeatInput, AskSeat(u, seat) PROVE Asks(u)
  <2> DEFINE q == Request("select")
             r == [q EXCEPT !.seat = seat]
             d == [client[u] EXCEPT !.asked = "select", !.seat = seat]
  <2>1. /\ d \in Client /\ d.asked = "select" /\ d.at = client[u].at
        /\ d.cart = client[u].cart /\ d.seat = seat /\ d.room = client[u].room
    BY <1>0 DEF Client, Choice
  <2>2. Ask(u, r, d) /\ client[u].at = "seats"
    BY <1>3 DEF AskSeat
  <2>3. q \in Handler /\ q.pc = "queued" /\ q.choice = "select"
    BY <1>0 DEF Choice
  <2> HIDE DEF q
  <2>4. r \in Handler /\ r.pc = "queued" /\ r.choice = "select" /\ r.seat = seat
    BY <2>3 DEF Handler
  <2> HIDE DEF r, d
  <2>5. QED
    BY <2>1, <2>2, <2>4, AskMove DEF AskedWhere
<1>4. CASE AskPayment(u)
  <2> DEFINE q == Request("pay")
             cart == client[u].cart
             r == [q EXCEPT !.list = cart]
             d == [client[u] EXCEPT !.asked = "pay"]
  <2>1. d \in Client /\ d.asked = "pay" /\ d.at = client[u].at /\ d.cart = cart
    BY <1>0 DEF Client, Choice
  <2>2. Ask(u, r, d) /\ client[u].at = "menu"
    BY <1>4 DEF AskPayment
  <2>3. q \in Handler /\ q.pc = "queued" /\ q.choice = "pay" /\ cart \in Seq(Place)
    BY <1>0 DEF Choice, Client
  <2> HIDE DEF q
  <2>4. r \in Handler /\ r.pc = "queued" /\ r.choice = "pay" /\ r.list = cart
    BY <2>3 DEF Handler
  <2> HIDE DEF r, d
  <2>5. QED
    BY <2>1, <2>2, <2>4, AskMove DEF AskedWhere
<1>5. CASE GoBack(u)
  <2>1. UNCHANGED <<session, handler, reply>> /\ session[u] # "waiting"
    BY <1>5 DEF GoBack, adminVars
  <2>2. PICK d : /\ client' = [client EXCEPT ![u] = d]
                 /\ client[u].at \in {"rooms", "seats"}
                 /\ \/ d = [client[u] EXCEPT !.at = "menu"]
                    \/ d = Leave(client[u], "rooms")
    BY <1>5 DEF GoBack, TypeInv, TypeOK
  <2>3. d.at \in {"menu", "rooms"} /\ d.asked = client[u].asked /\ d.cart = client[u].cart
    BY <1>0, <2>2 DEF Leave, Client
  <2>4. client'[u] = d
    BY <2>2 DEF TypeInv, TypeOK
  <2>5. QED
    BY <1>K, <2>1, <2>2, <2>3, <2>4 DEF GoesBack, Silent
<1>6. CASE Exit(u)
  <2> DEFINE r == Request("exit")
             d == [client[u] EXCEPT !.at = "gone"]
  <2>1. r \in Handler /\ r.pc = "queued" /\ r.choice = "exit"
    BY <1>0 DEF Choice
  <2>2. /\ Become(u, r) /\ session[u] = "open" /\ UNCHANGED reply
        /\ session' = [session EXCEPT ![u] = "closed"]
        /\ client' = [client EXCEPT ![u] = d]
    BY <1>6 DEF Exit, EndSession
  <2>3. d.cart = client[u].cart
    BY <1>0 DEF Client
  <2> HIDE DEF r, d
  <2>4. handler'[u] = r /\ session'[u] = "closed" /\ client'[u] = d
    BY <2>1, <2>2, BecomeSlot DEF TypeInv, TypeOK
  <2>5. QED
    BY <1>K, <2>1, <2>2, <2>3, <2>4 DEF Stops, Silent
<1>7. CASE NoticeClosed(u) \/ Crash(u)
  <2>1. UNCHANGED <<session, handler, reply>>
    BY <1>7 DEF NoticeClosed, Crash, adminVars
  <2>2. PICK at \in Screen : /\ client' = [client EXCEPT ![u] = Leave(client[u], at)]
                             /\ at = "crashed" \/ session[u] = "closed"
                             /\ client[u].at \in {"menu", "rooms", "seats", "paid"}
    BY <1>7 DEF NoticeClosed, Crash, Screen, TypeInv, TypeOK
  <2>3. /\ client'[u] = Leave(client[u], at)
        /\ client'[u].at = at /\ client'[u].cart = client[u].cart
    BY <1>0, <2>2 DEF Leave, Client, TypeInv, TypeOK
  <2>4. QED
    BY <1>K, <2>1, <2>2, <2>3 DEF Stops, Silent
<1>8. QED
  BY <1>1, <1>2, <1>3, <1>4, <1>5, <1>6, <1>7 DEF Customer

\* A restart, for one customer.
Restarts(u) ==
    /\ handler'[u] = Idle /\ reply'[u] = <<>>
    /\ \/ session'[u] = "closed"
       \/ session'[u] = "none" /\ session[u] = "none"
    /\ client'[u].cart = client[u].cart
    /\ \A row \in RowsOf(u) : row.paid => row \in RowsOf(u)'
    /\ RowsOf(u)' \subseteq RowsOf(u)

\* A step that is somebody else's.
LEMMA OthersMove ==
    ASSUME TypeInv, NEW u \in User, NEW v \in User \ {u},
           Customer(v) \/ Receive(v) \/ Timeout(v) \/ Deliver(v)
    PROVE  Untouched(u)
<1>1. handler'[u] = handler[u]
  <2>1. ASSUME NEW h, Become(v, h) PROVE handler'[u] = handler[u]
    BY <2>1 DEF Become, TypeInv, TypeOK, AdminTypeOK
  <2>2. handler' = handler \/ \E h : Become(v, h)
    BY DEF Customer, AskRooms, AskSeats, AskSeat, AskPayment, Ask, GoBack, Exit,
           NoticeClosed, Crash, Receive, Timeout, EndSession, Deliver, adminVars
  <2>3. QED
    BY <2>1, <2>2
<1>2. Silent(u)
  BY DEF Customer, AskRooms, AskSeats, AskSeat, AskPayment, Ask, GoBack, Exit,
         NoticeClosed, Crash, Receive, TakeReply, Timeout, EndSession, Deliver,
         adminVars, Silent, TypeInv, TypeOK, AdminTypeOK
<1>3. session'[u] = session[u]
  BY DEF Customer, AskRooms, AskSeats, AskSeat, AskPayment, Ask, GoBack, Exit,
         NoticeClosed, Crash, Receive, Timeout, EndSession, Deliver, TypeInv, TypeOK
<1>4. client'[u] = client[u]
  <2>1. ASSUME NEW d, client' = [client EXCEPT ![v] = d] PROVE client'[u] = client[u]
    BY <2>1 DEF TypeInv, TypeOK
  <2>2. CASE Customer(v)
    <3>1. client' = client \/ \E d : client' = [client EXCEPT ![v] = d]
      BY <2>2 DEF Customer, AskRooms, AskSeats, AskSeat, AskPayment, Ask, GoBack, Exit,
                  NoticeClosed, Crash, TypeInv, TypeOK
    <3>2. QED
      BY <2>1, <3>1
  <2>3. CASE Receive(v) \/ Timeout(v) \/ Deliver(v)
    BY <2>3 DEF Receive, Timeout, Deliver, TypeInv, TypeOK
  <2>4. QED
    BY <2>2, <2>3
<1>5. QED
  BY <1>1, <1>2, <1>3, <1>4, CallersKeepTables DEF Untouched, SameCart

\* A registration opens the session of one new customer.
LEMMA RegistrationMoves ==
    ASSUME TypeInv, ProtocolInv, NEW u \in User, AskRegistration \/ Register
    PROVE  Untouched(u) \/ Opens(u)
<1>1. RowsKept(u) /\ VisitsKept(u)
  BY CallersKeepTables
<1>2. handler'[u] = handler[u] /\ Silent(u)
  <2>1. CASE AskRegistration
    <3>1. PICK r : Become(Registration, r)
      BY <2>1 DEF AskRegistration
    <3>2. QED
      BY <2>1, <3>1 DEF AskRegistration, Become, Silent, TypeInv, TypeOK, AdminTypeOK
  <2>2. CASE Register
    BY <2>2 DEF Register, TakeReply, Silent, TypeInv, TypeOK, AdminTypeOK
  <2>3. QED
    BY <2>1, <2>2
<1>3. CASE UNCHANGED <<session, client>>
  BY <1>1, <1>2, <1>3 DEF Untouched, SameCart
<1>4. CASE Register /\ ~ UNCHANGED <<session, client>>
  <2> DEFINE id == Taken(Registration).id
  <2>1. /\ session' = [session EXCEPT ![id] = "open"]
        /\ client' = [client EXCEPT ![id].at = "menu"]
        /\ id # 0 /\ Answered(Registration)
    BY <1>4 DEF Register
  <2>2. session[id] = "none"
    <3>1. PICK a \in Answer : reply[Registration] = <<a>> /\ Fresh(a.id)
      BY <2>1 DEF ProtocolInv, RegistrationInStep, Answered
    <3>2. id = a.id
      BY <3>1 DEF Taken
    <3> HIDE DEF id
    <3>3. QED
      BY <2>1, <3>1, <3>2 DEF Fresh
  <2> HIDE DEF id
  <2>3. CASE id = u
    <3>1. client[u] \in Client
      BY DEF TypeInv, TypeOK
    <3>2. client'[u] = [client[u] EXCEPT !.at = "menu"] /\ session'[u] = "open"
      BY <2>1, <2>3 DEF TypeInv, TypeOK
    <3>3. client'[u].at = "menu" /\ client'[u].cart = client[u].cart
                                 /\ client'[u].asked = client[u].asked
      BY <3>1, <3>2 DEF Client
    <3>4. QED
      BY <1>1, <1>2, <2>2, <2>3, <3>2, <3>3 DEF Opens
  <2>4. CASE id # u
    <3>1. session'[u] = session[u] /\ client'[u] = client[u]
      BY <2>1, <2>4 DEF TypeInv, TypeOK
    <3>2. QED
      BY <1>1, <1>2, <3>1 DEF Untouched, SameCart
  <2>5. QED
    BY <2>3, <2>4
<1>5. QED
  BY <1>3, <1>4 DEF AskRegistration

\* Every step of the system is, for one customer, one of these moves.
LEMMA UserMoves ==
    ASSUME TypeInv, ProtocolInv, [Next]_vars, NEW u \in User
    PROVE  \/ Untouched(u) \/ Works(u) \/ Asks(u) \/ GoesBack(u) \/ Stops(u)
           \/ Receives(u) \/ Opens(u) \/ Restarts(u)
<1>1. CASE AskRegistration \/ Register
  BY <1>1, RegistrationMoves
<1>2. CASE Restart
  <2>1. /\ handler'[u] = Idle /\ reply'[u] = <<>>
        /\ session'[u] = IF session[u] = "none" THEN "none" ELSE "closed"
        /\ reservations' = {row \in reservations : row.paid}
    BY <1>2 DEF Restart, clean_db_tables, db_remove_unpaid_reservations
  <2>2. client'[u].cart = client[u].cart
    BY <1>2 DEF Restart, Leave, TypeInv, TypeOK, Client
  <2>3. /\ \A row \in RowsOf(u) : row.paid => row \in RowsOf(u)'
        /\ RowsOf(u)' \subseteq RowsOf(u)
    BY <2>1 DEF RowsOf
  <2>4. QED
    BY <2>1, <2>2, <2>3 DEF Restarts
<1>3. ASSUME NEW s \in Slot, AdminStep(s) PROVE Untouched(u) \/ Works(u)
  BY <1>3, AdminWorks, OthersWork, StepType
<1>4. ASSUME NEW v \in User, Customer(v) \/ Receive(v) \/ Timeout(v) \/ Deliver(v), v # u
      PROVE  Untouched(u)
  BY <1>4, OthersMove
<1>5. CASE Customer(u)
  BY <1>5, CustomerMoves
<1>6. CASE Receive(u)
  <2>1. /\ session[u] = "waiting" /\ session'[u] = "open" /\ Answered(u)
        /\ reply'[u] = Tail(reply[u]) /\ handler'[u] = handler[u]
        /\ client'[u] = After(client[u], Taken(u))
    BY <1>6 DEF Receive, TakeReply, TypeInv, TypeOK, AdminTypeOK
  <2>2. RowsKept(u) /\ VisitsKept(u)
    BY <1>6, CallersKeepTables
  <2>3. QED
    BY <2>1, <2>2 DEF Receives
<1>7. CASE Timeout(u)
  <2> DEFINE r == Request("exit")
  <2>1. r \in Handler /\ r.pc = "queued" /\ r.choice = "exit"
    BY RequestType, RequestFields DEF Choice
  <2>2. /\ Become(u, r) /\ UNCHANGED <<reply, client>>
        /\ session' = [session EXCEPT ![u] = "closed"]
    BY <1>7 DEF Timeout, EndSession
  <2> HIDE DEF r
  <2>3. handler'[u] = r /\ session'[u] = "closed"
    BY <2>1, <2>2, BecomeSlot DEF TypeInv, TypeOK
  <2>4. QED
    BY <1>7, <2>1, <2>2, <2>3, CallersKeepTables DEF Stops, Silent
<1>8. CASE Deliver(u)
  <2>1. UNCHANGED <<handler, reply, session>> /\ RowsKept(u) /\ VisitsKept(u)
    BY <1>8, CallersKeepTables DEF Deliver
  <2>2. SameCart(u)
    BY <1>8 DEF Deliver, SameCart, TypeInv, TypeOK, Client
  <2>3. QED
    BY <2>1, <2>2 DEF Untouched, Silent
<1>9. CASE UNCHANGED vars
  BY <1>9, CallersKeepTables DEF Untouched, SameCart, Silent, vars, adminVars
<1>10. QED
  BY <1>1, <1>2, <1>3, <1>4, <1>5, <1>6, <1>7, <1>8, <1>9 DEF Next

---------------------------------------------------------------------------
(* The answers, field by field *)

\* What a customer who is still there makes of an answer.
LEMMA AfterFields ==
    ASSUME NEW c \in Client, NEW a \in Answer, NEW d, d = After(c, a)
    PROVE  /\ d.asked = "nothing"
           /\ c.at = "crashed" => d.at = "crashed" /\ d.cart = c.cart
           /\ c.at # "crashed" /\ c.asked = "rooms" => d.at = "rooms" /\ d.cart = c.cart
           /\ c.at # "crashed" /\ c.asked = "seats" =>
                 /\ d.cart = c.cart
                 /\ IF a.choice = "seats" THEN d.at = "seats" /\ d.room = c.room
                    ELSE d.at = "menu"
           /\ c.at # "crashed" /\ c.asked = "select" =>
                 IF a.ok THEN /\ d.at = "menu"
                              /\ d.cart = Append(c.cart, [room |-> c.room, seat |-> c.seat])
                 ELSE d.at = c.at /\ d.room = c.room /\ d.cart = c.cart
           /\ c.at # "crashed" /\ c.asked = "pay" =>
                 /\ d.cart = c.cart
                 /\ d.at = IF a.ok THEN "paid" ELSE c.at
<1>1. CASE c.at = "crashed"
  <2>1. d = [c EXCEPT !.asked = "nothing", !.seat = 0]
    BY <1>1 DEF After
  <2>2. QED
    BY <1>1, <2>1 DEF Client
<1>2. CASE c.at # "crashed" /\ c.asked = "rooms"
  <2>1. d = [AfterRooms(c, a) EXCEPT !.asked = "nothing", !.seat = 0]
    BY <1>2 DEF After
  <2>2. QED
    BY <1>2, <2>1 DEF AfterRooms, Client
<1>3. CASE c.at # "crashed" /\ c.asked = "seats"
  <2>1. d = [AfterSeats(c, a) EXCEPT !.asked = "nothing", !.seat = 0]
    BY <1>3 DEF After
  <2>2. CASE a.choice = "seats"
    BY <1>3, <2>1, <2>2 DEF AfterSeats, Client
  <2>3. CASE a.choice # "seats"
    BY <1>3, <2>1, <2>3 DEF AfterSeats, Leave, Client
  <2>4. QED
    BY <2>2, <2>3
<1>4. CASE c.at # "crashed" /\ c.asked = "select"
  <2>1. d = [AfterSelect(c, a) EXCEPT !.asked = "nothing", !.seat = 0]
    BY <1>4 DEF After
  <2>2. CASE a.ok
    <3> DEFINE place == [room |-> c.room, seat |-> c.seat]
               e == Leave(c, "menu")
               f == [e EXCEPT !.cart = Append(e.cart, place)]
    <3>1. d = [f EXCEPT !.asked = "nothing", !.seat = 0]
      BY <2>1, <2>2 DEF AfterSelect
    <3>2. e.at = "menu" /\ e.cart = c.cart
      BY DEF Leave, Client
    <3>3. e \in Client
      BY LeaveType DEF Screen
    <3> HIDE DEF e, place
    <3>4. d.at = e.at /\ d.asked = "nothing" /\ d.cart = Append(e.cart, place)
      BY <3>1, <3>3 DEF Client
    <3>5. QED
      BY <1>4, <2>2, <3>2, <3>4 DEF place
  <2>3. CASE ~ a.ok
    BY <1>4, <2>1, <2>3 DEF AfterSelect, Client
  <2>4. QED
    BY <2>2, <2>3
<1>5. CASE c.at # "crashed" /\ c.asked = "pay"
  <2>1. d = [AfterPayment(c, a) EXCEPT !.asked = "nothing", !.seat = 0]
    BY <1>5 DEF After
  <2>2. CASE a.ok
    BY <1>5, <2>1, <2>2 DEF AfterPayment, Client
  <2>3. CASE ~ a.ok
    BY <1>5, <2>1, <2>3 DEF AfterPayment, Client
  <2>4. QED
    BY <2>2, <2>3
<1>6. CASE c.at # "crashed" /\ c.asked \notin {"rooms", "seats", "select", "pay"}
  <2>1. d = [c EXCEPT !.asked = "nothing", !.seat = 0]
    BY <1>6 DEF After
  <2>2. QED
    BY <1>6, <2>1 DEF Client
<1>7. QED
  BY <1>1, <1>2, <1>3, <1>4, <1>5, <1>6

\* Only the answer for a seat fills the cart.
LEMMA AfterKeepsCart ==
    ASSUME NEW c \in Client, NEW a \in Answer, c.at # "crashed",
           c.asked \in {"rooms", "seats", "pay"}
    PROVE  After(c, a).cart = c.cart
<1> DEFINE d == After(c, a)
<1>1. d = After(c, a)
  OBVIOUS
<1> HIDE DEF d
<1>2. CASE c.asked = "rooms"
  <2>1. d = [AfterRooms(c, a) EXCEPT !.asked = "nothing", !.seat = 0]
    BY <1>1, <1>2 DEF After
  <2>2. QED
    BY <1>1, <2>1 DEF AfterRooms, Client
<1>3. CASE c.asked = "seats"
  BY <1>1, <1>3, AfterFields
<1>4. CASE c.asked = "pay"
  BY <1>1, <1>4, AfterFields
<1>5. QED
  BY <1>1, <1>2, <1>3, <1>4

\* The answer a waiting listener takes: it is the only one.
LEMMA OnlyAnswer ==
    ASSUME TypeInv, ProtocolInv, NEW u \in User, Answered(u), session[u] = "waiting"
    PROVE  /\ Taken(u) \in Answer /\ reply[u] = <<Taken(u)>>
           /\ Taken(u).choice \in {client[u].asked, "invalid"}
           /\ handler[u] = Idle
<1>1. Told(u)
  BY DEF ProtocolInv, InStep, Served, Answered
<1>2. QED
  BY <1>1 DEF Told, Taken

\* A handler at work has a listener that waits for it, or carries out an EXIT.
LEMMA WorkIsDue ==
    ASSUME TypeInv, ProtocolInv, NEW u \in User, Works(u)
    PROVE  \/ session[u] = "waiting" /\ Served(u)
           \/ session[u] = "closed" /\ Leaving(u)
<1>1. handler[u].pc # "idle"
  BY DEF Works, Begins, LooksUp, Enters, FindsRoom, Reserves, Inserts, At, Tells,
         Telling, AnswersSeat, PaysOne, PaysAll, Quits
<1>2. InStep(u) /\ handler[u] # Idle
  BY <1>1 DEF ProtocolInv, Idle
<1>3. QED
  BY <1>2 DEF InStep, Told, TypeInv, TypeOK
---------------------------------------------------------------------------
(* Only the cart is paid.  What a payment still has to pay is in the cart, *)
(* and the cart only grows.                                                *)

InCart(cart, place) ==
    \E i \in DOMAIN cart : cart[i] = [room |-> place.room, seat |-> place.seat]

CartInv(u) ==
    /\ \A row \in RowsOf(u) : row.paid => InCart(client[u].cart, row)
    /\ handler[u].choice = "pay" =>
          \A i \in DOMAIN handler[u].list : InCart(client[u].cart, handler[u].list[i])

\* Nothing leaves the cart.
LEMMA CartGrows ==
    ASSUME TypeInv, ProtocolInv, [Next]_vars, NEW u \in User, NEW place,
           InCart(client[u].cart, place)
    PROVE  InCart(client'[u].cart, place)
<1>1. CASE client'[u].cart = client[u].cart
  BY <1>1 DEF InCart
<1>2. CASE Receives(u)
  <2> DEFINE a == Taken(u)
             new == [room |-> client[u].room, seat |-> client[u].seat]
  <2>1. client[u] \in Client /\ a \in Answer /\ client'[u] = After(client[u], a)
    BY <1>2, OnlyAnswer DEF Receives, TypeInv, TypeOK
  <2> HIDE DEF a
  <2>2. \/ client'[u].cart = client[u].cart
        \/ client'[u].cart = Append(client[u].cart, new)
    <3>1. CASE client[u].asked \in {"rooms", "seats", "select", "pay"}
      BY <2>1, <3>1, AfterFields
    <3>2. CASE client[u].asked \notin {"rooms", "seats", "select", "pay"}
      BY <2>1, <3>2 DEF After, Client
    <3>3. QED
      BY <3>1, <3>2
  <2>3. client[u].cart \in Seq(Place)
    BY <2>1 DEF Client
  <2> HIDE DEF new
  <2>4. CASE client'[u].cart = Append(client[u].cart, new)
    <3>1. PICK i \in DOMAIN client[u].cart :
              client[u].cart[i] = [room |-> place.room, seat |-> place.seat]
      BY DEF InCart
    <3>2. i \in DOMAIN client'[u].cart /\ client'[u].cart[i] = client[u].cart[i]
      BY <2>3, <2>4, <3>1
    <3>3. QED
      BY <3>1, <3>2 DEF InCart
  <2>5. QED
    BY <1>1, <2>2, <2>4
<1>3. Receives(u) \/ client'[u].cart = client[u].cart
  BY UserMoves DEF Untouched, SameCart, Works, Asks, GoesBack, Stops, Opens, Restarts
<1>4. QED
  BY <1>1, <1>2, <1>3

\* What a payment has still to pay, after a step of its handler.
LEMMA ListShrinks ==
    ASSUME TypeInv, ProtocolInv, NEW u \in User, Works(u), handler'[u].choice = "pay",
           NEW i \in DOMAIN handler'[u].list
    PROVE  /\ handler[u].choice = "pay"
           /\ \E j \in DOMAIN handler[u].list : handler'[u].list[i] = handler[u].list[j]
<1>0. handler[u].list \in Seq(Place)
  BY DEF TypeInv, TypeOK, AdminTypeOK, Handler
<1>1. Idle.choice # "pay" /\ (Served(u) \/ Leaving(u))
  BY WorkIsDue DEF Idle
<1>2. CASE Begins(u)
  BY <1>2 DEF Begins
<1>3. CASE PaysOne(u)
  <2>1. handler[u].choice = "pay" /\ handler[u].list # <<>>
    BY <1>3 DEF PaysOne
  <2>2. CASE handler'[u].list = Tail(handler[u].list)
    <3>1. i + 1 \in DOMAIN handler[u].list
          /\ Tail(handler[u].list)[i] = handler[u].list[i + 1]
      BY <1>0, <2>1, <2>2
    <3>2. QED
      BY <2>1, <2>2, <3>1
  <2>3. QED
    BY <1>3, <2>2 DEF PaysOne
<1>4. CASE LooksUp(u) \/ Enters(u) \/ FindsRoom(u) \/ Reserves(u) \/ Tells(u)
           \/ AnswersSeat(u) \/ PaysAll(u) \/ Quits(u)
  BY <1>1, <1>4 DEF LooksUp, Enters, FindsRoom, Reserves, Inserts, At, Tells, Telling,
                    AnswersSeat, PaysAll, Quits, Says, Served, Serves, Leaving
<1>5. QED
  BY <1>2, <1>3, <1>4 DEF Works

\* A row that is paid was paid before or is the next of the payment.
LEMMA NewlyPaid ==
    ASSUME TypeInv, NEW u \in User, Works(u), NEW row \in RowsOf(u)', row.paid
    PROVE  \/ row \in RowsOf(u)
           \/ /\ PaysOne(u) /\ row.room = Head(handler[u].list).room
                            /\ row.seat = Head(handler[u].list).seat
<1>1. CASE Reserves(u)
  BY <1>1 DEF Reserves, Inserts, db_insert_reservation, RowsOf
<1>2. CASE PaysOne(u)
  <2> DEFINE place == Head(handler[u].list)
  <2>1. CASE Pays(u)
    <3>1. PICK old \in reservations : row = PaidRow(old, u, place)
      BY <2>1 DEF Pays, db_update_paid_reservation, RowsOf
    <3>2. old \in Reservation /\ row.user = u
      BY <3>1 DEF TypeInv, TypeOK, DbTypeOK, RowsOf
    <3>3. CASE row = old
      BY <3>2, <3>3 DEF RowsOf
    <3>4. CASE row # old
      <4>1. old.room = place.room /\ old.seat = place.seat
            /\ row = [old EXCEPT !.paid = TRUE]
        BY <3>1, <3>4 DEF PaidRow
      <4>2. row.room = old.room /\ row.seat = old.seat
        BY <3>2, <4>1 DEF Reservation
      <4>3. QED
        BY <1>2, <4>1, <4>2
    <3>5. QED
      BY <3>3, <3>4
  <2>2. CASE RowsKept(u)
    BY <2>2 DEF RowsKept
  <2>3. QED
    BY <1>2, <2>1, <2>2 DEF PaysOne
<1>3. CASE Begins(u) \/ LooksUp(u) \/ Enters(u) \/ FindsRoom(u) \/ Tells(u)
           \/ AnswersSeat(u) \/ PaysAll(u)
  BY <1>3 DEF Begins, LooksUp, Enters, FindsRoom, Tells, AnswersSeat, PaysAll, RowsKept
<1>4. CASE Quits(u)
  BY <1>4 DEF Quits
<1>5. QED
  BY <1>1, <1>2, <1>3, <1>4 DEF Works

\* The invariant of the cart is kept.
LEMMA CartStep ==
    ASSUME TypeInv, ProtocolInv, [Next]_vars, NEW u \in User, CartInv(u)
    PROVE  CartInv(u)'
<1>0. \A place : InCart(client[u].cart, place) => InCart(client'[u].cart, place)
  BY CartGrows
<1>1. ASSUME NEW row \in RowsOf(u)', row.paid PROVE InCart(client[u].cart, row)
  <2>1. CASE row \in RowsOf(u)
    BY <1>1, <2>1 DEF CartInv
  <2>2. CASE Works(u) /\ row \notin RowsOf(u)
    <3> DEFINE g == handler[u]
    <3>1. /\ PaysOne(u) /\ row.room = Head(g.list).room
                        /\ row.seat = Head(g.list).seat
      BY <1>1, <2>2, NewlyPaid
    <3>2. g.choice = "pay" /\ g.list # <<>> /\ g.list \in Seq(Place)
      <4>1. g.pc = "pay" /\ g.list # <<>>
        BY <3>1 DEF PaysOne
      <4>2. Served(u) \/ Leaving(u)
        BY <2>2, WorkIsDue
      <4>3. QED
        BY <4>1, <4>2 DEF Served, Serves, Leaving, TypeInv, TypeOK, AdminTypeOK, Handler
    <3>3. 1 \in DOMAIN g.list /\ Head(g.list) = g.list[1]
      BY <3>2
    <3>4. InCart(client[u].cart, g.list[1])
      BY <3>2, <3>3 DEF CartInv
    <3>5. QED
      BY <3>1, <3>3, <3>4 DEF InCart
  <2>3. CASE ~ Works(u)
    <3>1. row \in RowsOf(u)
      BY <2>3, UserMoves DEF Untouched, Asks, GoesBack, Stops, Receives, Opens, Restarts,
                             RowsKept
    <3>2. QED
      BY <2>1, <3>1
  <2>4. QED
    BY <2>1, <2>2, <2>3
<1>2. ASSUME handler'[u].choice = "pay", NEW i \in DOMAIN handler'[u].list
      PROVE  InCart(client'[u].cart, handler'[u].list[i])
  <2>1. CASE handler'[u] = handler[u]
    BY <1>0, <1>2, <2>1 DEF CartInv
  <2>2. CASE Works(u)
    <3>1. PICK j \in DOMAIN handler[u].list : handler'[u].list[i] = handler[u].list[j]
      BY <1>2, <2>2, ListShrinks
    <3>2. InCart(client[u].cart, handler[u].list[j])
      BY <1>2, <2>2, <3>1, ListShrinks DEF CartInv
    <3>3. InCart(client'[u].cart, handler[u].list[j])
      BY <2>2, <3>2 DEF Works
    <3>4. QED
      BY <3>1, <3>3 DEF InCart
  <2>3. CASE Asks(u)
    <3>1. handler'[u].list = client'[u].cart /\ client'[u].cart = client[u].cart
      BY <1>2, <2>3 DEF Asks
    <3>2. client[u].cart \in Seq(Place)
      BY DEF TypeInv, TypeOK, Client
    <3>3. client[u].cart[i] \in Place
      BY <1>2, <3>1, <3>2
    <3>4. client[u].cart[i] = [room |-> client[u].cart[i].room,
                               seat |-> client[u].cart[i].seat]
      BY <3>3 DEF Place
    <3>5. QED
      BY <1>2, <3>1, <3>4 DEF InCart
  <2>4. CASE Stops(u) \/ Restarts(u)
    BY <1>2, <2>1, <2>4 DEF Stops, Restarts, Idle
  <2>5. QED
    BY <2>1, <2>2, <2>3, <2>4, UserMoves DEF Untouched, GoesBack, Receives, Opens
<1>3. \A row \in RowsOf(u)' : row.paid => InCart(client'[u].cart, row)
  BY <1>0, <1>1
<1>4. QED
  BY <1>2, <1>3 DEF CartInv

\* Only what a customer put in the cart is ever paid, whatever list the payment
\* carries, however many of its statements are refused, and whoever else
\* reserves and pays meanwhile (admin.cpp:27-28).
THEOREM OnlyTheCartIsPaidHolds == Spec => []OnlyTheCartIsPaid
<1> DEFINE Inv == \A u \in User : CartInv(u)
<1>1. Init => Inv
  <2>1. Idle.choice # "pay"
    BY DEF Idle
  <2>2. QED
    BY <2>1 DEF Init, AdminInit, DbInit, CartInv, RowsOf
<1>2. TypeInv /\ ProtocolInv /\ Inv /\ [Next]_vars => Inv'
  BY CartStep
<1>3. TypeInv /\ Inv => OnlyTheCartIsPaid
  <2> SUFFICES ASSUME TypeInv, Inv, NEW row \in reservations, row.paid
               PROVE  InCart(client[row.user].cart, row)
    BY DEF OnlyTheCartIsPaid, InCart
  <2>1. row.user \in User
    BY DEF TypeInv, TypeOK, DbTypeOK, Reservation
  <2>2. QED
    BY <2>1 DEF CartInv, RowsOf
<1> HIDE DEF Inv
<1>4. QED
  BY <1>1, <1>2, <1>3, TypesHold, ProtocolHolds, PTL DEF Spec

---------------------------------------------------------------------------
(* A call, its handler and its customer speak of the same room and seat.   *)
(* Only of customers in service: the screen of one who was killed or whose *)
(* session ended shows nothing.                                            *)

InService(u) == session[u] \in {"open", "waiting"} /\ client[u].at # "crashed"

CallInv(u) ==
    /\ InService(u) =>
          /\ session[u] = "waiting" => AskedWhere(client[u])
          /\ handler[u].choice = "seats" /\ handler[u].pc \in {"queued", "seatMap", "enterRoom"}
             => handler[u].room = client[u].room
          /\ handler[u].choice = "select" /\ handler[u].pc \in {"queued", "currentRoom", "insert"}
             => handler[u].seat = client[u].seat
    /\ \A i \in DOMAIN reply[u] : reply[u][i].choice = "invalid" => ~ reply[u][i].ok

\* Who does not wait has nothing under way.
LEMMA NothingUnderWay ==
    ASSUME TypeInv, ProtocolInv, NEW u \in User, session[u] # "waiting"
    PROVE  /\ reply[u] = <<>>
           /\ session[u] \in {"none", "open"} => handler[u] = Idle
           /\ handler[u] = Idle \/ Leaving(u)
BY DEF ProtocolInv, InStep, TypeInv, TypeOK

\* Who is in service and has a handler at work waits for it.
LEMMA ServiceIsServed ==
    ASSUME TypeInv, ProtocolInv, NEW u \in User, Works(u), session[u] \in {"open", "waiting"}
    PROVE  session[u] = "waiting" /\ Served(u) /\ reply[u] = <<>>
BY WorkIsDue DEF Served

\* Appending adds the new element and moves none.
LEMMA AppendItem ==
    ASSUME NEW S, NEW q \in Seq(S), NEW e \in S, NEW i \in DOMAIN Append(q, e)
    PROVE  \/ Append(q, e)[i] = e
           \/ i \in DOMAIN q /\ Append(q, e)[i] = q[i]
<1>1. Append(q, e) \in Seq(S) /\ Len(Append(q, e)) = Len(q) + 1
  BY AppendProperties
<1>2. i \in 1..Len(q) + 1
  BY <1>1
<1>3. QED
  BY <1>2, AppendProperties

\* The answer taken was the last.
LEMMA LastAnswer ==
    ASSUME TypeInv, ProtocolInv, NEW u \in User, Receives(u)
    PROVE  reply'[u] = <<>>
<1> DEFINE a == Taken(u)
<1>1. reply[u] = <<a>> /\ reply'[u] = Tail(reply[u])
  BY OnlyAnswer DEF Receives
<1> HIDE DEF a
<1>2. Tail(<<a>>) = <<>>
  OBVIOUS
<1>3. QED
  BY <1>1, <1>2

\* The handler's moves, for a customer in service.
LEMMA CallWorks ==
    ASSUME TypeInv, ProtocolInv, NEW u \in User, Works(u), CallInv(u)
    PROVE  CallInv(u)'
<1> DEFINE g == handler[u]  h == handler'[u]  c == client[u]
<1>1. session'[u] = session[u] /\ client'[u] = c
  BY DEF Works
<1>2. Idle.choice = "exit" /\ Idle.pc = "idle"
  BY DEF Idle
<1>3. ASSUME InService(u)
      PROVE  /\ session[u] = "waiting" => AskedWhere(c)
             /\ h.choice = "seats" /\ h.pc \in {"queued", "seatMap", "enterRoom"}
                => h.room = c.room
             /\ h.choice = "select" /\ h.pc \in {"queued", "currentRoom", "insert"}
                => h.seat = c.seat
  <2>1. Serves(g)
    BY <1>3, ServiceIsServed DEF InService, Served
  <2>2. /\ session[u] = "waiting" => AskedWhere(c)
        /\ g.choice = "seats" /\ g.pc \in {"queued", "seatMap", "enterRoom"}
           => g.room = c.room
        /\ g.choice = "select" /\ g.pc \in {"queued", "currentRoom", "insert"}
           => g.seat = c.seat
    BY <1>3 DEF CallInv
  <2>3. CASE Begins(u)
    BY <2>1, <2>2, <2>3 DEF Begins, Serves
  <2>4. CASE LooksUp(u)
    BY <1>2, <2>1, <2>2, <2>4 DEF LooksUp, Says, Serves
  <2>5. CASE FindsRoom(u)
    BY <2>1, <2>2, <2>5 DEF FindsRoom, Serves
  <2>6. CASE Reserves(u) \/ Tells(u)
    BY <2>1, <2>2, <2>6 DEF Reserves, Inserts, At, Tells, Telling, Serves
  <2>7. CASE Enters(u) \/ AnswersSeat(u) \/ PaysAll(u)
    BY <1>2, <2>1, <2>2, <2>7 DEF Enters, AnswersSeat, PaysAll, Says
  <2>8. CASE PaysOne(u) \/ Quits(u)
    BY <1>2, <2>1, <2>2, <2>8 DEF PaysOne, Quits, Serves
  <2>9. QED
    BY <2>3, <2>4, <2>5, <2>6, <2>7, <2>8 DEF Works
<1>4. \A i \in DOMAIN reply'[u] : reply'[u][i].choice = "invalid" => ~ reply'[u][i].ok
  <2>1. CASE Silent(u)
    BY <2>1 DEF CallInv, Silent
  <2>2. ASSUME NEW choice, NEW ok, Says(u, choice, ok), choice = "invalid" => ~ ok
        PROVE  \A i \in DOMAIN reply'[u] :
                   reply'[u][i].choice = "invalid" => ~ reply'[u][i].ok
    <3>1. PICK a \in Answer : /\ a.choice = choice /\ a.ok = ok
                              /\ reply'[u] = Append(reply[u], a)
      BY <2>2 DEF Says
    <3>2. reply[u] \in Seq(Answer)
      BY DEF TypeInv, TypeOK, AdminTypeOK
    <3>3. \A i \in DOMAIN reply'[u] :
              \/ reply'[u][i] = a
              \/ i \in DOMAIN reply[u] /\ reply'[u][i] = reply[u][i]
      BY <3>1, <3>2, AppendItem
    <3>4. QED
      BY <2>2, <3>1, <3>3 DEF CallInv
  <2>3. \/ Silent(u)
        \/ Says(u, "rooms", TRUE) \/ Says(u, "invalid", FALSE) \/ Says(u, "seats", TRUE)
        \/ Says(u, "select", FALSE) \/ Says(u, "select", TRUE) \/ Says(u, "pay", TRUE)
    BY DEF Works, Begins, LooksUp, Enters, FindsRoom, Reserves, Tells, AnswersSeat,
           PaysOne, PaysAll, Quits
  <2>4. QED
    BY <2>1, <2>2, <2>3
<1>5. QED
  BY <1>1, <1>3, <1>4 DEF CallInv, InService

\* Every step keeps calls and customers together.
LEMMA CallStep ==
    ASSUME TypeInv, ProtocolInv, [Next]_vars, NEW u \in User, CallInv(u)
    PROVE  CallInv(u)'
<1>0. Idle.choice = "exit" /\ reply[u] \in Seq(Answer)
  BY DEF Idle, TypeInv, TypeOK, AdminTypeOK
<1>1. CASE Untouched(u)
  BY <1>1 DEF Untouched, SameCart, Silent, CallInv, InService, AskedWhere
<1>2. CASE Works(u)
  BY <1>2, CallWorks
<1>3. CASE Asks(u)
  BY <1>3 DEF Asks, Silent, CallInv, InService
<1>4. CASE GoesBack(u)
  <2>1. session'[u] = session[u] /\ session[u] # "waiting"
        /\ handler'[u] = handler[u] /\ reply'[u] = reply[u]
    BY <1>4 DEF GoesBack, Silent
  <2>2. handler[u].choice = "exit"
    BY <1>0, <2>1, NothingUnderWay DEF Leaving
  <2>3. QED
    BY <2>1, <2>2 DEF CallInv
<1>5. CASE Stops(u)
  <2>1. ~ InService(u)'
    BY <1>5 DEF Stops, InService
  <2>2. QED
    BY <1>5, <2>1 DEF Stops, Silent, CallInv
<1>6. CASE Receives(u)
  <2>1. session'[u] = "open" /\ handler'[u] = Idle
    BY <1>6, OnlyAnswer DEF Receives
  <2>2. reply'[u] = <<>>
    BY <1>6, LastAnswer
  <2>3. QED
    BY <1>0, <2>1, <2>2 DEF CallInv
<1>7. CASE Opens(u)
  <2>1. session'[u] = "open" /\ handler'[u] = Idle /\ reply'[u] = reply[u]
    BY <1>7, NothingUnderWay DEF Opens, Silent
  <2>2. QED
    BY <1>0, <2>1 DEF CallInv
<1>8. CASE Restarts(u)
  BY <1>8 DEF Restarts, CallInv, InService
<1>9. QED
  BY <1>1, <1>2, <1>3, <1>4, <1>5, <1>6, <1>7, <1>8, UserMoves

\* In every reachable state the calls of every customer are accounted for.
LEMMA CallsHold == Spec => [](\A u \in User : CallInv(u))
<1> DEFINE Inv == \A u \in User : CallInv(u)
<1>1. Init => Inv
  BY DEF Init, AdminInit, CallInv, InService
<1>2. TypeInv /\ ProtocolInv /\ Inv /\ [Next]_vars => Inv'
  BY CallStep
<1> HIDE DEF Inv
<1>3. Spec => []Inv
  BY <1>1, <1>2, TypesHold, ProtocolHolds, PTL DEF Spec
<1>4. QED
  BY <1>3 DEF Inv

---------------------------------------------------------------------------
(* Who looks at a room is registered there, as long as no statement was    *)
(* refused, and until the handler of a reservation takes the visit away.   *)

ViewInv(u) ==
    busyCount = 0 /\ InService(u) =>
        /\ client[u].at = "seats" /\ ~ ReservedUntold(u) /\ handler[u].pc # "dead"
           => [user |-> u, room |-> client[u].room] \in VisitsOf(u)
        /\ client[u].asked = "seats" /\ Answered(u) /\ Taken(u).choice = "seats"
           => [user |-> u, room |-> client[u].room] \in VisitsOf(u)

\* What the customer who has got no answer sees of ReservedUntold.
LEMMA UntoldByPc ==
    ASSUME NEW u \in User, reply[u] = <<>>
    PROVE  ~ Answered(u) /\ (ReservedUntold(u) <=> handler[u].pc \in Telling)
BY DEF Answered, ReservedUntold, Telling

\* The same after the step that sends the answer.
LEMMA UntoldBySaying ==
    ASSUME NEW u \in User, reply[u] = <<>>, NEW choice, NEW ok, Says(u, choice, ok)
    PROVE  /\ Answered(u)' /\ Taken(u)'.choice = choice
           /\ ReservedUntold(u)' <=> choice = "select" /\ ok
           /\ handler'[u].pc = "idle"
<1>1. PICK a \in Answer : a.choice = choice /\ a.ok = ok /\ reply'[u] = Append(reply[u], a)
  BY DEF Says
<1>2. reply'[u] = <<a>>
  BY <1>1
<1>3. Answered(u)' /\ Taken(u)' = a
  BY <1>2 DEF Answered, Taken
<1>4. handler'[u].pc = "idle"
  BY DEF Says, Idle
<1>5. QED
  BY <1>1, <1>3, <1>4 DEF ReservedUntold

\* The handler's moves, for a customer who looks at a room.
LEMMA ViewWorks ==
    ASSUME TypeInv, ProtocolInv, NEW u \in User, Works(u), InService(u), busyCount' = 0,
           busyCount = 0, CallInv(u), ViewInv(u)
    PROVE  ViewInv(u)'
<1> DEFINE g == handler[u]  h == handler'[u]  c == client[u]
           visit == [user |-> u, room |-> c.room]
<1>1. session'[u] = session[u] /\ client'[u] = c
  BY DEF Works
<1>2. /\ session[u] = "waiting" /\ Serves(g) /\ g.choice = c.asked /\ reply[u] = <<>>
      /\ AskedWhere(c)
  BY ServiceIsServed DEF InService, Served, CallInv
<1>3. c.at = "seats" => c.asked = "select"
  BY <1>2 DEF AskedWhere
<1>4. c.at = "seats" /\ g.pc \notin Telling /\ g.pc # "dead" => visit \in VisitsOf(u)
  BY <1>2, UntoldByPc DEF ViewInv
<1>5. ASSUME c.at = "seats", ~ ReservedUntold(u)', h.pc # "dead"
      PROVE  visit \in VisitsOf(u)'
  <2>1. g.choice = "select" /\ Serves(g)
    BY <1>2, <1>3, <1>5
  <2>2. CASE Silent(u)
    <3>1. h.pc \notin Telling
      BY <1>2, <1>5, <2>2, UntoldByPc DEF Silent, ReservedUntold, Telling
    <3>2. ~ AnswersSeat(u)
      BY <1>2, <2>2, UntoldBySaying DEF AnswersSeat, Silent, Answered
    <3>3. Begins(u) \/ FindsRoom(u)
      BY <2>1, <1>5, <3>1, <3>2 DEF Works, Begins, FindsRoom, LooksUp, Enters, Reserves,
                                    Tells, Telling, PaysOne, PaysAll, Quits, Serves
    <3>4. VisitsKept(u) /\ g.pc \notin Telling /\ g.pc # "dead"
      BY <3>3 DEF Begins, FindsRoom, Telling
    <3>5. QED
      BY <1>4, <1>5, <3>4 DEF VisitsKept
  <2>3. CASE ~ Silent(u)
    <3>1. AnswersSeat(u)
      BY <2>1, <2>3 DEF Works, Begins, FindsRoom, LooksUp, Enters, Reserves, Tells,
                        PaysOne, PaysAll, Quits, Serves
    <3>2. g.pc = "insert" /\ VisitsKept(u)
      BY <1>2, <1>5, <3>1, UntoldBySaying DEF AnswersSeat
    <3>3. QED
      BY <1>4, <1>5, <3>2 DEF VisitsKept, Telling
  <2>4. QED
    BY <2>2, <2>3
<1>6. ASSUME c.asked = "seats", Answered(u)', Taken(u)'.choice = "seats"
      PROVE  visit \in VisitsOf(u)'
  <2>1. g.choice = "seats" /\ Serves(g) /\ ~ Silent(u)
    BY <1>2, <1>6 DEF Silent, Answered
  <2>2. Enters(u)
    <3>1. Enters(u) \/ Says(u, "invalid", FALSE)
      BY <2>1 DEF Works, Begins, FindsRoom, LooksUp, Reserves, Tells, AnswersSeat,
                  PaysOne, PaysAll, Quits, Serves
    <3>2. ASSUME Says(u, "invalid", FALSE) PROVE Taken(u)'.choice = "invalid"
      BY <1>2, <3>2, UntoldBySaying
    <3>3. QED
      BY <1>6, <3>1, <3>2
  <2>3. g.room = c.room
    BY <2>1, <2>2 DEF Enters, CallInv
  <2>4. visit \in clientsRooms'
    BY <2>2, <2>3 DEF Enters
  <2>5. QED
    BY <2>4 DEF VisitsOf
<1>7. QED
  BY <1>1, <1>5, <1>6 DEF ViewInv

\* The moves of the customer and of the others.
LEMMA ViewStep ==
    ASSUME TypeInv, ProtocolInv, [Next]_vars, NEW u \in User, CallInv(u), ViewInv(u)
    PROVE  ViewInv(u)'
<1> SUFFICES ASSUME busyCount' = 0, InService(u)' PROVE ViewInv(u)'
  BY DEF ViewInv
<1>0. busyCount = 0 /\ Idle.pc = "idle"
  BY RefusalsCount DEF Idle
<1>1. CASE Untouched(u)
  <2>1. InService(u) /\ client'[u].at = client[u].at /\ client'[u].asked = client[u].asked
        /\ client'[u].room = client[u].room
    BY <1>1 DEF Untouched, SameCart, InService
  <2>2. /\ handler'[u] = handler[u] /\ Answered(u)' = Answered(u) /\ Taken(u)' = Taken(u)
        /\ VisitsOf(u)' = VisitsOf(u)
    BY <1>1 DEF Untouched, Silent, Answered, Taken, VisitsKept
  <2>3. ReservedUntold(u)' = ReservedUntold(u)
    BY <2>2 DEF ReservedUntold
  <2>4. QED
    BY <1>0, <2>1, <2>2, <2>3 DEF ViewInv
<1>2. CASE Works(u)
  BY <1>0, <1>2, ViewWorks DEF Works, InService
<1>3. CASE Asks(u)
  <2>1. handler[u] = Idle /\ reply[u] = <<>> /\ reply'[u] = <<>>
    BY <1>3, NothingUnderWay DEF Asks, Silent
  <2>2. InService(u) /\ ~ ReservedUntold(u) /\ handler[u].pc # "dead"
    BY <1>0, <1>3, <2>1, UntoldByPc DEF Asks, InService, Telling
  <2>3. ~ Answered(u)'
    BY <2>1 DEF Answered
  <2>4. client'[u].at = "seats" => /\ client[u].at = "seats"
                                   /\ client'[u].room = client[u].room
    BY <1>3 DEF Asks, AskedWhere
  <2>5. client[u].at = "seats" => [user |-> u, room |-> client[u].room] \in VisitsOf(u)'
    BY <1>0, <1>3, <2>2 DEF ViewInv, Asks, VisitsKept
  <2>6. QED
    BY <2>3, <2>4, <2>5 DEF ViewInv
<1>4. CASE GoesBack(u)
  <2>1. ~ Answered(u)' /\ client'[u].at # "seats"
    BY <1>4, NothingUnderWay DEF GoesBack, Silent, Answered
  <2>2. QED
    BY <2>1 DEF ViewInv
<1>5. CASE Receives(u)
  <2> DEFINE a == Taken(u)  c == client[u]  d == client'[u]
             visit == [user |-> u, room |-> c.room]
  <2>1. /\ session[u] = "waiting" /\ Answered(u) /\ a \in Answer /\ handler[u] = Idle
        /\ d = After(c, a) /\ c \in Client /\ VisitsOf(u)' = VisitsOf(u)
    BY <1>5, OnlyAnswer DEF Receives, TypeInv, TypeOK, VisitsKept
  <2>2. ~ Answered(u)'
    BY <1>5, LastAnswer DEF Answered
  <2>3. d.at # "crashed"
    BY DEF InService
  <2> HIDE DEF a, c, d
  <2>4. c.at # "crashed"
    BY <2>1, <2>3, AfterFields
  <2>5. AskedWhere(c)
    BY <2>1, <2>4 DEF CallInv, InService, c
  <2>6. ASSUME d.at = "seats" PROVE d.room = c.room /\ visit \in VisitsOf(u)
    <3>1. CASE c.asked = "seats"
      <4>1. a.choice = "seats" /\ d.room = c.room
        BY <2>1, <2>4, <2>6, <3>1, AfterFields, ZenonT(60)
      <4>2. QED
        BY <1>0, <2>1, <2>4, <3>1, <4>1 DEF ViewInv, InService, a, c
    <3>2. CASE c.asked = "select"
      <4>1. ~ a.ok /\ d.room = c.room /\ c.at = "seats"
        BY <2>1, <2>4, <2>6, <3>2, AfterFields
      <4>2. ~ ReservedUntold(u) /\ handler[u].pc # "dead"
        BY <1>0, <2>1, <4>1 DEF ReservedUntold, a
      <4>3. QED
        BY <1>0, <2>1, <2>4, <4>1, <4>2 DEF ViewInv, InService, c
    <3>3. CASE c.asked \in {"rooms", "pay"}
      BY <2>1, <2>4, <2>5, <2>6, <3>3, AfterFields DEF AskedWhere
    <3>4. QED
      BY <2>5, <3>1, <3>2, <3>3 DEF AskedWhere
  <2>7. QED
    BY <2>1, <2>2, <2>6 DEF ViewInv, c, d
<1>6. CASE Opens(u)
  <2>1. ~ Answered(u)' /\ client'[u].at # "seats"
    BY <1>6, NothingUnderWay DEF Opens, Silent, Answered
  <2>2. QED
    BY <2>1 DEF ViewInv
<1>7. CASE Stops(u) \/ Restarts(u)
  BY <1>7 DEF Stops, Restarts, InService
<1>8. QED
  BY <1>1, <1>2, <1>3, <1>4, <1>5, <1>6, <1>7, UserMoves

\* A customer who looks at a room is registered there and so gets its updates,
\* through every sequence of visits, refused and granted reservations, answers
\* that cross, timeouts and restarts (admin.cpp:91, 109, 136), as long as no
\* statement was refused.
THEOREM ViewersAreRegisteredHolds == Spec => []ViewersAreRegistered
<1> DEFINE Calls == \A u \in User : CallInv(u)
           Inv == \A u \in User : ViewInv(u)
<1>1. Init => Inv
  BY DEF Init, ViewInv, InService
<1>2. TypeInv /\ ProtocolInv /\ Calls /\ Inv /\ [Next]_vars => Inv'
  BY ViewStep
<1>3. TypeInv /\ ProtocolInv /\ Inv => ViewersAreRegistered
  <2> SUFFICES ASSUME TypeInv, ProtocolInv, Inv, busyCount = 0, NEW u \in User,
                      session[u] = "open", client[u].at = "seats"
               PROVE  [user |-> u, room |-> client[u].room] \in clientsRooms
    BY DEF ViewersAreRegistered
  <2>1. handler[u] = Idle /\ reply[u] = <<>>
    BY NothingUnderWay
  <2>2. InService(u) /\ ~ ReservedUntold(u) /\ handler[u].pc # "dead"
    BY <2>1, UntoldByPc DEF InService, Idle, Telling
  <2>3. QED
    BY <2>2 DEF ViewInv, VisitsOf
<1>4. Spec => []Calls
  BY CallsHold
<1> HIDE DEF Inv, Calls
<1>5. QED
  BY <1>1, <1>2, <1>3, <1>4, TypesHold, ProtocolHolds, PTL DEF Spec

---------------------------------------------------------------------------
(* The cart counts the rows of the customer.  A reservation adds one row,  *)
(* a payment none, because two rows never differ in nothing but the flag.  *)

CountInv(u) ==
    /\ IsFiniteSet(RowsOf(u))
    /\ session[u] = "none" => RowsOf(u) = {} /\ client[u].cart = <<>>
    /\ InService(u) /\ handler[u].pc # "dead"
       => Cardinality(RowsOf(u)) =
              Len(client[u].cart) + (IF ReservedUntold(u) THEN 1 ELSE 0)

\* A payment makes no row and loses none.
LEMMA PaymentCounts ==
    ASSUME TypeInv, NoDoubleBooking, NEW u \in User, Pays(u), IsFiniteSet(RowsOf(u))
    PROVE  /\ IsFiniteSet(RowsOf(u)')
           /\ Cardinality(RowsOf(u)') = Cardinality(RowsOf(u))
<1> DEFINE place == Head(handler[u].list)
           S == RowsOf(u)
           T == RowsOf(u)'
           f == [row \in S |-> PaidRow(row, u, place)]
<1>1. \A row \in reservations : /\ PaidRow(row, u, place).user = row.user
                                /\ PaidRow(row, u, place).room = row.room
                                /\ PaidRow(row, u, place).seat = row.seat
  BY DEF PaidRow, TypeInv, TypeOK, DbTypeOK, Reservation
<1>2. reservations' = {PaidRow(row, u, place) : row \in reservations}
  BY DEF Pays, db_update_paid_reservation
<1> HIDE DEF place
<1>3. T = {PaidRow(row, u, place) : row \in S}
  BY <1>1, <1>2 DEF RowsOf
<1>4. \A a, b \in S : f[a] = f[b] => a = b
  <2> SUFFICES ASSUME NEW a \in S, NEW b \in S, f[a] = f[b] PROVE a = b
    OBVIOUS
  <2>1. a \in reservations /\ b \in reservations
    BY DEF RowsOf
  <2>2. a.room = b.room /\ a.seat = b.seat
    BY <1>1, <2>1
  <2>3. QED
    BY <2>1, <2>2 DEF NoDoubleBooking
<1>5. f \in [S -> T] /\ \A t \in T : \E row \in S : f[row] = t
  BY <1>3
<1> HIDE DEF S, T, f
<1>6. f \in Bijection(S, T)
  BY <1>4, <1>5 DEF Bijection, Injection, Surjection, IsInjective
<1>7. ExistsBijection(S, T)
  BY <1>6 DEF ExistsBijection
<1>8. IsFiniteSet(S)
  BY DEF S
<1>9. IsFiniteSet(T) /\ Cardinality(T) = Cardinality(S)
  BY <1>7, <1>8, FS_Bijection
<1>10. QED
  BY <1>9 DEF S, T

\* A reservation makes one row.
LEMMA ReservationCounts ==
    ASSUME TypeInv, NEW u \in User, Inserts(u), IsFiniteSet(RowsOf(u))
    PROVE  /\ IsFiniteSet(RowsOf(u)')
           /\ Cardinality(RowsOf(u)') = Cardinality(RowsOf(u)) + 1
<1> DEFINE new == [user |-> u, room |-> handler[u].room,
                   seat |-> handler[u].seat, paid |-> FALSE]
           S == RowsOf(u)
<1>1. RowsOf(u)' = S \cup {new}
  BY DEF RowsOf, Inserts, db_insert_reservation
<1>2. new \notin S
  BY DEF RowsOf, Inserts, SeatIsFree
<1> HIDE DEF new
<1>3. /\ IsFiniteSet(S \cup {new})
      /\ Cardinality(S \cup {new}) = Cardinality(S) + 1
  BY <1>2, FS_AddElement
<1>4. QED
  BY <1>1, <1>3

\* The answer to another question than the one for a seat tells of no seat.
LEMMA UntoldOnReceive ==
    ASSUME TypeInv, ProtocolInv, NEW u \in User, CallInv(u), Answered(u),
           session[u] = "waiting"
    PROVE  ReservedUntold(u) <=> client[u].asked = "select" /\ Taken(u).ok
<1>1. /\ handler[u].pc = "idle" /\ reply[u] = <<Taken(u)>>
      /\ Taken(u).choice \in {client[u].asked, "invalid"}
  BY OnlyAnswer DEF Idle
<1>2. Taken(u).choice = "invalid" => ~ Taken(u).ok
  <2> DEFINE a == Taken(u)
  <2>1. reply[u] = <<a>>
    BY <1>1
  <2> HIDE DEF a
  <2>2. 1 \in DOMAIN reply[u] /\ reply[u][1] = a
    BY <2>1
  <2>3. a.choice = "invalid" => ~ a.ok
    BY <2>2 DEF CallInv
  <2>4. QED
    BY <2>3 DEF a
<1>3. client[u].asked # "invalid"
  BY DEF TypeInv, TypeOK, Client, Choice
<1>4. QED
  BY <1>1, <1>2, <1>3 DEF ReservedUntold

\* The rows stay finitely many.
LEMMA RowsFinite ==
    ASSUME TypeInv, ProtocolInv, NoDoubleBooking, [Next]_vars, NEW u \in User,
           IsFiniteSet(RowsOf(u))
    PROVE  IsFiniteSet(RowsOf(u)')
<1> DEFINE S == RowsOf(u)
           T == RowsOf(u)'
<1>1. CASE RowsKept(u)
  BY <1>1 DEF RowsKept
<1>2. CASE T \subseteq S
  BY <1>2, FS_Subset
<1>3. CASE Inserts(u)
  BY <1>3, ReservationCounts
<1>4. CASE Pays(u)
  BY <1>4, PaymentCounts
<1>5. RowsKept(u) \/ T \subseteq S \/ Inserts(u) \/ Pays(u)
  BY UserMoves DEF Untouched, Works, Begins, LooksUp, Enters, FindsRoom, Reserves, Tells,
         AnswersSeat, PaysOne, PaysAll, Quits, Asks, GoesBack, Stops, Receives, Opens,
         Restarts
<1>6. QED
  BY <1>1, <1>2, <1>3, <1>4, <1>5

\* The handler's moves, for a customer in service.
LEMMA CountWorks ==
    ASSUME TypeInv, ProtocolInv, NoDoubleBooking, NEW u \in User, Works(u), InService(u),
           CountInv(u), handler'[u].pc # "dead"
    PROVE  Cardinality(RowsOf(u)') =
               Len(client[u].cart) + (IF ReservedUntold(u)' THEN 1 ELSE 0)
<1> DEFINE g == handler[u]
           n == Cardinality(RowsOf(u))
           n1 == Cardinality(RowsOf(u)')
           len == Len(client[u].cart)
<1>1. Serves(g) /\ reply[u] = <<>> /\ IsFiniteSet(RowsOf(u))
  BY ServiceIsServed DEF InService, Served, CountInv
<1>2. n = len + (IF g.pc \in Telling THEN 1 ELSE 0) \/ g.pc = "dead"
  BY <1>1, UntoldByPc DEF CountInv
<1>3. len \in Nat /\ n \in Nat
  BY <1>1, FS_CardinalityType DEF TypeInv, TypeOK, Client
<1>4. RowsKept(u) => n1 = n
  BY DEF RowsKept
<1>5. Silent(u) => (ReservedUntold(u)' <=> handler'[u].pc \in Telling)
  BY <1>1 DEF Silent, ReservedUntold, Answered, Telling
<1>6. \A choice, ok : Says(u, choice, ok) => (ReservedUntold(u)' <=> choice = "select" /\ ok)
  BY <1>1, UntoldBySaying
<1>7. g.pc # "dead" /\ (Inserts(u) => n1 = n + 1) /\ (Pays(u) => n1 = n)
  BY <1>1, PaymentCounts, ReservationCounts
     DEF Works, Begins, LooksUp, Enters, FindsRoom, Reserves, Inserts, At, Tells, Telling,
         AnswersSeat, PaysOne, PaysAll, Quits
<1> HIDE DEF n, n1, len
<1>8. CASE Begins(u) \/ LooksUp(u) \/ Enters(u) \/ FindsRoom(u)
  <2>1. ~ ReservedUntold(u)'
    BY <1>1, <1>5, <1>6, <1>8 DEF Begins, LooksUp, Enters, FindsRoom, Serves, FirstStep,
                                  Telling
  <2>2. n1 = n /\ g.pc \notin Telling
    BY <1>4, <1>8 DEF Begins, LooksUp, Enters, FindsRoom, Telling
  <2>3. n1 = len + 0
    BY <1>2, <1>7, <2>2
  <2>4. QED
    BY <2>1, <2>3 DEF n1, len
<1>9. CASE Reserves(u)
  <2>1. ReservedUntold(u)'
    BY <1>5, <1>9 DEF Reserves, Telling
  <2>2. n1 = len + 1
    BY <1>2, <1>3, <1>7, <1>9 DEF Reserves, Inserts, At, Telling
  <2>3. QED
    BY <2>1, <2>2 DEF n1, len
<1>10. CASE Tells(u)
  <2>1. ReservedUntold(u)'
    BY <1>5, <1>10 DEF Tells
  <2>2. n1 = len + 1
    BY <1>2, <1>3, <1>4, <1>7, <1>10 DEF Tells
  <2>3. QED
    BY <2>1, <2>2 DEF n1, len
<1>11. CASE AnswersSeat(u)
  <2>1. CASE g.pc = "insert" /\ Says(u, "select", FALSE)
    <3>1. ~ ReservedUntold(u)'
      BY <1>6, <2>1
    <3>2. n1 = len
      BY <1>2, <1>3, <1>4, <1>11, <2>1 DEF AnswersSeat, Telling
    <3>3. QED
      BY <1>3, <3>1, <3>2 DEF n1, len
  <2>2. CASE g.pc = "leaveAgain" /\ Says(u, "select", TRUE)
    <3>1. ReservedUntold(u)'
      BY <1>6, <2>2
    <3>2. n1 = len + 1
      BY <1>2, <1>3, <1>4, <1>11, <2>2 DEF AnswersSeat, Telling
    <3>3. QED
      BY <3>1, <3>2 DEF n1, len
  <2>3. QED
    BY <1>11, <2>1, <2>2 DEF AnswersSeat
<1>12. CASE PaysOne(u) \/ PaysAll(u)
  <2>1. ~ ReservedUntold(u)'
    BY <1>5, <1>6, <1>12 DEF PaysOne, PaysAll, Telling
  <2>2. n1 = n /\ g.pc \notin Telling
    BY <1>4, <1>7, <1>12 DEF PaysOne, PaysAll, Telling
  <2>3. n1 = len + 0
    BY <1>2, <1>7, <2>2
  <2>4. QED
    BY <2>1, <2>3 DEF n1, len
<1>13. CASE Quits(u)
  BY <1>1, <1>13 DEF Quits, Serves
<1>14. QED
  BY <1>8, <1>9, <1>10, <1>11, <1>12, <1>13 DEF Works

\* Every step keeps the count.
LEMMA CountStep ==
    ASSUME TypeInv, ProtocolInv, NoDoubleBooking, [Next]_vars, NEW u \in User,
           CallInv(u), CountInv(u)
    PROVE  CountInv(u)'
<1> DEFINE Even == Cardinality(RowsOf(u)) =
                       Len(client[u].cart) + (IF ReservedUntold(u) THEN 1 ELSE 0)
<1>0. IsFiniteSet(RowsOf(u)')
  BY RowsFinite DEF CountInv
<1>1. ASSUME session'[u] = "none" PROVE RowsOf(u)' = {} /\ client'[u].cart = <<>>
  <2>1. session[u] = "none" /\ client'[u].cart = client[u].cart
        /\ (RowsKept(u) \/ RowsOf(u)' \subseteq RowsOf(u))
    <3>1. ~ Works(u) \/ session[u] # "none"
      BY WorkIsDue
    <3>2. QED
      BY <1>1, <3>1, UserMoves DEF Works, Untouched, SameCart, Asks, GoesBack, Stops,
                                   Receives, Opens, Restarts
  <2>2. RowsOf(u) = {} /\ client[u].cart = <<>>
    BY <2>1 DEF CountInv
  <2>3. QED
    BY <2>1, <2>2 DEF RowsKept
<1>2. ASSUME InService(u)', handler'[u].pc # "dead" PROVE Even'
  <2>1. CASE Untouched(u) \/ GoesBack(u)
    <3>1. InService(u) /\ handler[u].pc # "dead" /\ client'[u].cart = client[u].cart
      BY <1>2, <2>1 DEF Untouched, SameCart, GoesBack, InService
    <3>2. handler'[u] = handler[u] /\ reply'[u] = reply[u] /\ RowsOf(u)' = RowsOf(u)
      BY <2>1 DEF Untouched, GoesBack, Silent, RowsKept
    <3>3. ReservedUntold(u)' <=> ReservedUntold(u)
      BY <3>2 DEF ReservedUntold, Answered, Taken
    <3>4. Even
      BY <3>1 DEF CountInv
    <3>5. QED
      BY <3>1, <3>2, <3>3, <3>4
  <2>2. CASE Works(u)
    <3>1. InService(u) /\ client'[u] = client[u]
      BY <1>2, <2>2 DEF Works, InService
    <3>2. QED
      BY <1>2, <2>2, <3>1, CountWorks
  <2>3. CASE Asks(u)
    <3>1. handler[u] = Idle /\ reply[u] = <<>> /\ InService(u)
      BY <1>2, <2>3, NothingUnderWay DEF Asks, InService
    <3>2. ~ ReservedUntold(u) /\ handler[u].pc # "dead"
      BY <3>1, UntoldByPc DEF Idle, Telling
    <3>3. ~ ReservedUntold(u)'
      BY <2>3, <3>1 DEF Asks, Silent, ReservedUntold, Answered
    <3>4. Cardinality(RowsOf(u)) = Len(client[u].cart) + 0
      BY <3>1, <3>2 DEF CountInv
    <3>5. QED
      BY <2>3, <3>3, <3>4 DEF Asks, RowsKept
  <2>4. CASE Receives(u)
    <3> DEFINE a == Taken(u)  c == client[u]  d == client'[u]
    <3>1. /\ session[u] = "waiting" /\ Answered(u) /\ a \in Answer /\ handler[u] = Idle
          /\ handler'[u] = Idle /\ d = After(c, a) /\ c \in Client
          /\ RowsOf(u)' = RowsOf(u)
      BY <2>4, OnlyAnswer DEF Receives, TypeInv, TypeOK, RowsKept
    <3>2. ~ ReservedUntold(u)'
      BY <2>4, <3>1, LastAnswer DEF ReservedUntold, Answered, Idle
    <3>3. ReservedUntold(u) <=> c.asked = "select" /\ a.ok
      BY <3>1, UntoldOnReceive
    <3>4. d.at # "crashed"
      BY <1>2 DEF InService
    <3> HIDE DEF a, c, d
    <3>5. c.at # "crashed"
      BY <3>1, <3>4, AfterFields
    <3>6. /\ Cardinality(RowsOf(u)) = Len(c.cart) + (IF ReservedUntold(u) THEN 1 ELSE 0)
          /\ AskedWhere(c)
      <4>1. InService(u) /\ handler[u].pc # "dead"
        BY <3>1, <3>5 DEF InService, Idle, c
      <4>2. QED
        BY <3>1, <4>1 DEF CountInv, CallInv, c
    <3>7. CASE c.asked = "select" /\ a.ok
      <4> DEFINE place == [room |-> c.room, seat |-> c.seat]
      <4>1. d.cart = Append(c.cart, place)
        BY <3>1, <3>5, <3>7, AfterFields
      <4>2. c.cart \in Seq(Place) /\ place \in Place
        BY <3>1 DEF Client, Place
      <4> HIDE DEF place
      <4>3. Len(d.cart) = Len(c.cart) + 1
        BY <4>1, <4>2, AppendProperties
      <4>4. Cardinality(RowsOf(u)') = Len(d.cart)
        BY <3>1, <3>3, <3>6, <3>7, <4>3
      <4>5. Len(d.cart) \in Nat
        BY <4>2, <4>3
      <4>6. QED
        BY <3>2, <4>4, <4>5 DEF d
    <3>8. CASE ~ (c.asked = "select" /\ a.ok)
      <4>1. d.cart = c.cart
        <5>1. CASE c.asked = "select"
          BY <3>1, <3>5, <3>8, <5>1, AfterFields
        <5>2. CASE c.asked \in {"rooms", "seats", "pay"}
          BY <3>1, <3>5, <5>2, AfterKeepsCart
        <5>3. QED
          BY <3>6, <5>1, <5>2 DEF AskedWhere
      <4>2. Cardinality(RowsOf(u)') = Len(d.cart) + 0
        BY <3>1, <3>3, <3>6, <3>8, <4>1
      <4>3. QED
        BY <3>2, <4>2 DEF d
    <3>9. QED
      BY <3>7, <3>8
  <2>5. CASE Opens(u)
    <3>1. /\ handler'[u] = Idle /\ reply'[u] = <<>>
          /\ RowsOf(u)' = {} /\ client'[u].cart = <<>>
      BY <2>5, NothingUnderWay DEF Opens, Silent, RowsKept, CountInv
    <3>2. ~ ReservedUntold(u)'
      BY <3>1 DEF ReservedUntold, Answered, Idle
    <3>3. QED
      BY <3>1, <3>2, FS_EmptySet
  <2>6. CASE Stops(u) \/ Restarts(u)
    BY <1>2, <2>6 DEF Stops, Restarts, InService
  <2>7. QED
    BY <2>1, <2>2, <2>3, <2>4, <2>5, <2>6, UserMoves
<1>3. QED
  BY <1>0, <1>1, <1>2 DEF CountInv

\* In every reachable state the rows of every customer are counted.
LEMMA CountsHold == Spec => [](\A u \in User : CountInv(u))
<1> DEFINE Calls == \A u \in User : CallInv(u)
           Inv == \A u \in User : CountInv(u)
<1>1. Init => Inv
  <2>1. Init => \A u \in User : RowsOf(u) = {} /\ session[u] = "none"
                                /\ client[u].cart = <<>>
    BY DEF Init, DbInit, RowsOf, Stranger
  <2>2. QED
    BY <2>1, FS_EmptySet DEF CountInv, InService
<1>2. TypeInv /\ ProtocolInv /\ NoDoubleBooking /\ Calls /\ Inv /\ [Next]_vars => Inv'
  BY CountStep
<1>3. Spec => []Calls
  BY CallsHold
<1> HIDE DEF Inv, Calls
<1>4. Spec => []Inv
  BY <1>1, <1>2, <1>3, TypesHold, ProtocolHolds, NoDoubleBookingHolds, PTL DEF Spec
<1>5. QED
  BY <1>4 DEF Inv

\* A customer in service has as many reservations as seats in the cart, and one
\* more from the INSERT to the answer, whatever the others reserve, pay and
\* give back and whichever statements are refused (admin.cpp:102-142,
\* client_interface.cpp:357-360).
THEOREM CartCountsReservationsHolds == Spec => []CartCountsReservations
<1> DEFINE Inv == \A u \in User : CountInv(u)
<1>1. Inv => CartCountsReservations
  BY DEF CountInv, CartCountsReservations, InService
<1>2. Spec => []Inv
  BY CountsHold
<1> HIDE DEF Inv
<1>3. QED
  BY <1>1, <1>2, PTL

---------------------------------------------------------------------------
(* A purchase.  What README.md:9 promises fails in wrong_room, where the   *)
(* handler reserves in another of the rooms the customer visited, and with *)
(* a refused UPDATE.  Nothing else is in its way: with one room, and as    *)
(* long as no statement is refused, the promise holds.                     *)

Owns(rows, place) ==
    \E row \in rows : row.room = place.room /\ row.seat = place.seat

PaidFor(rows, place) ==
    \E row \in rows : row.room = place.room /\ row.seat = place.seat /\ row.paid

\* What the customer in service has in the cart and is told.
OwnsCart(u) ==
    LET c == client[u]
    IN  /\ \A i \in DOMAIN c.cart : Owns(RowsOf(u), c.cart[i])
        /\ ReservedUntold(u) => Owns(RowsOf(u), [room |-> c.room, seat |-> c.seat])

\* The room on the screen exists.
RoomShown(u) ==
    /\ client[u].at = "seats" => client[u].room \in Room
    /\ client[u].asked = "seats" /\ Answered(u) /\ Taken(u).choice = "seats"
       => client[u].room \in Room

\* What is paid, and what a payment still has to pay.
CartPaid(u) ==
    /\ client[u].at = "paid" \/ (client[u].asked = "pay" /\ Answered(u))
       => \A i \in DOMAIN client[u].cart : PaidFor(RowsOf(u), client[u].cart[i])
    /\ handler[u].choice = "pay" /\ handler[u].pc \in {"queued", "pay"}
       => \A i \in DOMAIN client[u].cart :
              \/ PaidFor(RowsOf(u), client[u].cart[i])
              \/ \E j \in DOMAIN handler[u].list : handler[u].list[j] = client[u].cart[i]

PurchaseInv(u) == InService(u) /\ handler[u].pc # "dead"
                  => /\ OwnsCart(u) /\ RoomShown(u)
                     /\ busyCount = 0 => CartPaid(u)

\* A payment, place by place.
LEMMA PaymentOwns ==
    ASSUME TypeInv, NEW u \in User, Pays(u), NEW p
    PROVE  LET place == Head(handler[u].list)
           IN  /\ Owns(RowsOf(u), p) => Owns(RowsOf(u)', p)
               /\ PaidFor(RowsOf(u), p) => PaidFor(RowsOf(u)', p)
               /\ Owns(RowsOf(u), p) /\ p = place => PaidFor(RowsOf(u)', p)
<1> DEFINE place == Head(handler[u].list)
           new(row) == PaidRow(row, u, place)
<1>1. \A row \in RowsOf(u) : new(row) \in RowsOf(u)'
  BY DEF Pays, db_update_paid_reservation, RowsOf, PaidRow, TypeInv, TypeOK, DbTypeOK,
         Reservation
<1>2. \A row \in RowsOf(u) : /\ new(row).room = row.room /\ new(row).seat = row.seat
                             /\ row.paid => new(row).paid
                             /\ row.room = place.room /\ row.seat = place.seat
                                => new(row).paid
  BY DEF PaidRow, RowsOf, TypeInv, TypeOK, DbTypeOK, Reservation
<1> HIDE DEF new, place
<1>3. Owns(RowsOf(u), p) => Owns(RowsOf(u)', p)
  BY <1>1, <1>2 DEF Owns
<1>4. PaidFor(RowsOf(u), p) => PaidFor(RowsOf(u)', p)
  BY <1>1, <1>2 DEF PaidFor
<1>5. Owns(RowsOf(u), p) /\ p = place => PaidFor(RowsOf(u)', p)
  BY <1>1, <1>2 DEF Owns, PaidFor
<1>6. QED
  BY <1>3, <1>4, <1>5 DEF place

\* No step takes a row from a customer in service.
LEMMA RowsStay ==
    ASSUME TypeInv, ProtocolInv, [Next]_vars, NEW u \in User, InService(u),
           ~ Restarts(u), NEW p
    PROVE  /\ Owns(RowsOf(u), p) => Owns(RowsOf(u)', p)
           /\ PaidFor(RowsOf(u), p) => PaidFor(RowsOf(u)', p)
<1>1. RowsKept(u) \/ Pays(u) \/ RowsOf(u) \subseteq RowsOf(u)'
  <2>1. ~ Quits(u) \/ ~ Works(u)
    BY ServiceIsServed DEF InService, Served, Serves, Quits
  <2>2. Inserts(u) => RowsOf(u) \subseteq RowsOf(u)'
    BY DEF Inserts, db_insert_reservation, RowsOf
  <2>3. QED
    BY <2>1, <2>2, UserMoves
       DEF Untouched, Works, Begins, LooksUp, Enters, FindsRoom, Reserves, Tells,
           AnswersSeat, PaysOne, PaysAll, Asks, GoesBack, Stops, Receives, Opens
<1>2. QED
  BY <1>1, PaymentOwns DEF RowsKept, Owns, PaidFor

\* Who is in service was in service, or has just come.
LEMMA Serving ==
    ASSUME TypeInv, ProtocolInv, [Next]_vars, NEW u \in User,
           InService(u)', handler'[u].pc # "dead"
    PROVE  \/ Opens(u)
           \/ /\ InService(u) /\ handler[u].pc # "dead" /\ ~ Restarts(u)
              /\ Untouched(u) \/ Works(u) \/ Asks(u) \/ GoesBack(u) \/ Receives(u)
<1>0. Idle.pc # "dead" /\ ~ Restarts(u) /\ ~ Stops(u)
  BY DEF Idle, Restarts, Stops, InService
<1>1. CASE Untouched(u)
  BY <1>0, <1>1 DEF Untouched, SameCart, InService
<1>2. CASE Works(u)
  <2>1. handler[u].pc # "dead"
    BY <1>2 DEF Works, Begins, LooksUp, Enters, FindsRoom, Reserves, Inserts, At, Tells,
                Telling, AnswersSeat, PaysOne, PaysAll, Quits
  <2>2. QED
    BY <1>0, <1>2, <2>1 DEF Works, InService
<1>3. CASE Asks(u)
  BY <1>0, <1>3, NothingUnderWay DEF Asks, InService
<1>4. CASE GoesBack(u)
  BY <1>0, <1>4 DEF GoesBack, InService
<1>5. CASE Receives(u)
  <2> DEFINE a == Taken(u)  c == client[u]  d == client'[u]
  <2>1. /\ session[u] = "waiting" /\ a \in Answer /\ handler[u] = Idle
        /\ d = After(c, a) /\ c \in Client
    BY <1>5, OnlyAnswer DEF Receives, TypeInv, TypeOK
  <2>2. d.at # "crashed"
    BY DEF InService
  <2> HIDE DEF a, c, d
  <2>3. c.at # "crashed"
    BY <2>1, <2>2, AfterFields
  <2>4. QED
    BY <1>0, <1>5, <2>1, <2>3 DEF InService, c
<1>6. QED
  BY <1>0, <1>1, <1>2, <1>3, <1>4, <1>5, UserMoves

\* What is told stays told.
LEMMA ToldAlike ==
    ASSUME NEW u \in User, handler'[u] = handler[u], Silent(u)
    PROVE  /\ ReservedUntold(u)' <=> ReservedUntold(u)
           /\ Answered(u)' <=> Answered(u)
           /\ Taken(u)' = Taken(u)
BY DEF Silent, ReservedUntold, Answered, Taken

\* A customer who has just asked, come or taken the answer has no other answer.
LEMMA NoAnswerYet ==
    ASSUME TypeInv, ProtocolInv, NEW u \in User, Asks(u) \/ Opens(u) \/ Receives(u)
    PROVE  ~ Answered(u)' /\ ~ ReservedUntold(u)'
<1>1. reply'[u] = <<>>
  BY NothingUnderWay, LastAnswer DEF Asks, Opens, Silent
<1>2. handler'[u].pc \in {"idle", "queued"}
  BY NothingUnderWay, OnlyAnswer DEF Asks, Opens, Receives, Idle
<1>3. QED
  BY <1>1, <1>2 DEF Answered, ReservedUntold

\* The room on the screen.
LEMMA ShownStep ==
    ASSUME TypeInv, ProtocolInv, [Next]_vars, NEW u \in User, CallInv(u), PurchaseInv(u),
           InService(u)', handler'[u].pc # "dead"
    PROVE  RoomShown(u)'
<1>1. CASE Opens(u)
  BY <1>1, NoAnswerYet DEF RoomShown, Opens
<1>2. CASE ~ Opens(u)
  <2>1. /\ InService(u) /\ RoomShown(u)
        /\ Untouched(u) \/ Works(u) \/ Asks(u) \/ GoesBack(u) \/ Receives(u)
    BY <1>2, Serving DEF PurchaseInv
  <2>2. CASE Untouched(u)
    BY <2>1, <2>2, ToldAlike DEF Untouched, SameCart, RoomShown
  <2>3. CASE Works(u)
    <3>1. client'[u] = client[u] /\ Serves(handler[u]) /\ reply[u] = <<>>
          /\ handler[u].choice = client[u].asked
      BY <2>1, <2>3, ServiceIsServed DEF InService, Works, Served
    <3>2. ASSUME client[u].asked = "seats", Answered(u)', Taken(u)'.choice = "seats"
          PROVE  client[u].room \in Room
      <4>1. ~ Silent(u)
        BY <3>1, <3>2 DEF Silent, Answered
      <4>2. Enters(u) \/ Says(u, "invalid", FALSE)
        BY <2>3, <3>1, <3>2, <4>1 DEF Works, Begins, FindsRoom, LooksUp, Reserves, Tells,
                                      AnswersSeat, PaysOne, PaysAll, Quits, Serves
      <4>3. ASSUME Says(u, "invalid", FALSE) PROVE Taken(u)'.choice = "invalid"
        BY <3>1, <4>3, UntoldBySaying
      <4>4. handler[u].pc = "enterRoom" /\ handler[u].choice = "seats"
        BY <3>1, <3>2, <4>2, <4>3 DEF Enters
      <4>5. handler[u].room = client[u].room
        BY <2>1, <4>4 DEF CallInv
      <4>6. QED
        BY <4>4, <4>5 DEF TypeInv, RoomKnown
    <3>3. QED
      BY <2>1, <3>1, <3>2 DEF RoomShown
  <2>4. CASE Asks(u)
    BY <2>1, <2>4, NoAnswerYet DEF Asks, AskedWhere, RoomShown
  <2>5. CASE GoesBack(u)
    BY <2>5, NothingUnderWay DEF GoesBack, Silent, Answered, RoomShown
  <2>6. CASE Receives(u)
    <3> DEFINE a == Taken(u)  c == client[u]  d == client'[u]
    <3>1. /\ session[u] = "waiting" /\ a \in Answer /\ Answered(u)
          /\ d = After(c, a) /\ c \in Client
      BY <2>6, OnlyAnswer DEF Receives, TypeInv, TypeOK
    <3>2. c.at # "crashed" /\ AskedWhere(c)
      BY <2>1, <3>1 DEF InService, CallInv
    <3>3. ASSUME d.at = "seats"
          PROVE  d.room = c.room /\ (c.at = "seats" \/ (c.asked = "seats" /\ a.choice = "seats"))
      <4> HIDE DEF a, c, d
      <4>1. CASE c.asked = "seats"
        BY <3>1, <3>2, <3>3, <4>1, AfterFields, ZenonT(60)
      <4>2. CASE c.asked = "select"
        BY <3>1, <3>2, <3>3, <4>2, AfterFields
      <4>3. CASE c.asked = "rooms"
        BY <3>1, <3>2, <3>3, <4>3, AfterFields
      <4>4. CASE c.asked = "pay"
        BY <3>1, <3>2, <3>3, <4>4, AfterFields DEF AskedWhere
      <4>5. QED
        BY <3>2, <4>1, <4>2, <4>3, <4>4 DEF AskedWhere
    <3>4. QED
      BY <2>1, <2>6, <3>1, <3>3, NoAnswerYet DEF RoomShown
  <2>7. QED
    BY <2>1, <2>2, <2>3, <2>4, <2>5, <2>6
<1>3. QED
  BY <1>1, <1>2

\* The cinema has one room: nobody can be registered in two.
SingleRoom == \A r, s \in Room : r = s

\* Every seat in the cart is the customer's.
LEMMA OwnsStep ==
    ASSUME TypeInv, ProtocolInv, [Next]_vars, NEW u \in User, CallInv(u), CountInv(u),
           PurchaseInv(u), SingleRoom, InService(u)', handler'[u].pc # "dead"
    PROVE  OwnsCart(u)'
<1>1. CASE Opens(u)
  <2>1. client'[u].cart = <<>>
    BY <1>1 DEF Opens, CountInv
  <2>2. QED
    BY <1>1, <2>1, NoAnswerYet DEF OwnsCart
<1>2. CASE ~ Opens(u)
  <2>1. /\ InService(u) /\ OwnsCart(u) /\ RoomShown(u)
        /\ Untouched(u) \/ Works(u) \/ Asks(u) \/ GoesBack(u) \/ Receives(u)
    BY <1>2, Serving DEF PurchaseInv
  <2>2. \A p : Owns(RowsOf(u), p) => Owns(RowsOf(u)', p)
    BY <1>2, Serving, RowsStay
  <2>3. ASSUME client'[u].cart = client[u].cart
        PROVE  \A i \in DOMAIN client'[u].cart : Owns(RowsOf(u)', client'[u].cart[i])
    BY <2>1, <2>2, <2>3 DEF OwnsCart
  <2>4. CASE Untouched(u)
    <3>1. /\ client'[u].cart = client[u].cart /\ client'[u].room = client[u].room
          /\ client'[u].seat = client[u].seat
          /\ ReservedUntold(u)' <=> ReservedUntold(u)
      BY <2>4, ToldAlike DEF Untouched, SameCart
    <3>2. QED
      BY <2>1, <2>2, <2>3, <3>1 DEF OwnsCart
  <2>5. CASE Works(u)
    <3> DEFINE g == handler[u]  c == client[u]
               place == [room |-> c.room, seat |-> c.seat]
    <3>1. /\ client'[u] = client[u] /\ Serves(g) /\ reply[u] = <<>>
          /\ g.choice = c.asked /\ AskedWhere(c)
      BY <2>1, <2>5, ServiceIsServed DEF InService, Works, Served, CallInv
    <3>2. ASSUME ReservedUntold(u)' PROVE Owns(RowsOf(u)', place)
      <4>1. CASE Reserves(u)
        <5>1. g.pc = "insert" /\ g.choice = "select"
          BY <3>1, <4>1 DEF Reserves, Inserts, At, Serves
        <5>2. g.seat = c.seat /\ g.room \in Room /\ c.room \in Room
          BY <2>1, <3>1, <5>1 DEF CallInv, TypeInv, RoomKnown, RoomShown, AskedWhere
        <5>3. g.room = c.room
          BY <5>2 DEF SingleRoom
        <5> DEFINE new == [user |-> u, room |-> g.room, seat |-> g.seat, paid |-> FALSE]
        <5>4. new \in RowsOf(u)'
          BY <4>1 DEF Reserves, Inserts, db_insert_reservation, RowsOf
        <5>5. QED
          BY <5>2, <5>3, <5>4 DEF Owns
      <4>2. CASE ~ Reserves(u)
        <5>1. Silent(u) => handler'[u].pc \in Telling
          BY <3>1, <3>2 DEF Silent, ReservedUntold, Answered, Telling
        <5>2. ASSUME NEW choice, NEW ok, Says(u, choice, ok)
              PROVE  choice = "select" /\ ok
          BY <3>1, <3>2, <5>2, UntoldBySaying
        <5>3. g.pc \in Telling
          BY <2>5, <3>1, <4>2, <5>1, <5>2
             DEF Works, Begins, FirstStep, LooksUp, Enters, FindsRoom, Tells, AnswersSeat,
                 PaysOne, PaysAll, Quits, Serves, Telling
        <5>4. ReservedUntold(u)
          BY <5>3 DEF ReservedUntold, Telling
        <5>5. QED
          BY <2>1, <2>2, <5>4 DEF OwnsCart
      <4>3. QED
        BY <4>1, <4>2
    <3>3. QED
      BY <2>3, <3>1, <3>2 DEF OwnsCart
  <2>6. CASE Asks(u)
    BY <2>3, <2>6, NoAnswerYet DEF Asks, OwnsCart
  <2>7. CASE GoesBack(u)
    <3>1. handler[u] = Idle \/ Leaving(u)
      BY <2>7, NothingUnderWay DEF GoesBack
    <3>2. ~ ReservedUntold(u)'
      BY <2>7, <3>1, NothingUnderWay
         DEF GoesBack, Silent, ReservedUntold, Answered, Idle, Leaving
    <3>3. QED
      BY <2>3, <2>7, <3>2 DEF GoesBack, OwnsCart
  <2>8. CASE Receives(u)
    <3> DEFINE a == Taken(u)  c == client[u]  d == client'[u]
               place == [room |-> c.room, seat |-> c.seat]
    <3>1. /\ session[u] = "waiting" /\ a \in Answer /\ Answered(u)
          /\ d = After(c, a) /\ c \in Client
      BY <2>8, OnlyAnswer DEF Receives, TypeInv, TypeOK
    <3>2. c.at # "crashed" /\ AskedWhere(c)
      BY <2>1, <3>1 DEF InService, CallInv
    <3>3. ReservedUntold(u) <=> c.asked = "select" /\ a.ok
      BY <3>1, UntoldOnReceive
    <3> HIDE DEF a, c, d
    <3>4. CASE c.asked = "select" /\ a.ok
      <4>1. d.cart = Append(c.cart, place)
        BY <3>1, <3>2, <3>4, AfterFields
      <4>2. c.cart \in Seq(Place) /\ place \in Place
        BY <3>1 DEF Client, Place
      <4>3. Owns(RowsOf(u)', place)
        BY <2>1, <2>2, <3>3, <3>4 DEF OwnsCart, c
      <4> HIDE DEF place
      <4>4. ASSUME NEW i \in DOMAIN d.cart PROVE Owns(RowsOf(u)', d.cart[i])
        <5>1. \/ d.cart[i] = place
              \/ i \in DOMAIN c.cart /\ d.cart[i] = c.cart[i]
          BY <4>1, <4>2, <4>4, AppendItem
        <5>2. QED
          BY <2>1, <2>2, <4>3, <5>1 DEF OwnsCart, c
      <4>5. QED
        BY <2>8, <4>4, NoAnswerYet DEF OwnsCart, d
    <3>5. CASE ~ (c.asked = "select" /\ a.ok)
      <4>1. d.cart = c.cart
        <5>1. CASE c.asked = "select"
          BY <3>1, <3>2, <3>5, <5>1, AfterFields
        <5>2. CASE c.asked \in {"rooms", "seats", "pay"}
          BY <3>1, <3>2, <5>2, AfterKeepsCart
        <5>3. QED
          BY <3>2, <5>1, <5>2 DEF AskedWhere
      <4>2. QED
        BY <2>3, <2>8, <4>1, NoAnswerYet DEF OwnsCart, c, d
    <3>6. QED
      BY <3>4, <3>5
  <2>9. QED
    BY <2>1, <2>4, <2>5, <2>6, <2>7, <2>8
<1>3. QED
  BY <1>1, <1>2

\* A payment that is under way, place by place.
LEMMA PaidWorks ==
    ASSUME TypeInv, ProtocolInv, [Next]_vars, NEW u \in User, Works(u), InService(u),
           CallInv(u), OwnsCart(u), CartPaid(u),
           ~ (handler[u].pc = "pay" /\ busyCount' > busyCount)
    PROVE  CartPaid(u)'
<1> DEFINE g == handler[u]  h == handler'[u]  c == client[u]
<1>1. /\ client'[u] = client[u] /\ Serves(g) /\ reply[u] = <<>>
      /\ g.choice = c.asked /\ AskedWhere(c) /\ c.at # "paid"
  BY ServiceIsServed DEF InService, Works, Served, CallInv, AskedWhere
<1>2. \A p : PaidFor(RowsOf(u), p) => PaidFor(RowsOf(u)', p)
  BY RowsStay DEF InService, Restarts, Works
<1>3. ASSUME c.asked = "pay", Answered(u)', NEW i \in DOMAIN c.cart
      PROVE  PaidFor(RowsOf(u)', c.cart[i])
  <2>1. PaysAll(u)
    BY <1>1, <1>3 DEF Works, Begins, LooksUp, Enters, FindsRoom, Reserves, Inserts, At,
           Tells, Telling, AnswersSeat, PaysOne, Quits, Serves, Silent, Answered
  <2>2. g.pc = "pay" /\ g.choice = "pay" /\ g.list = <<>>
    BY <1>1, <1>3, <2>1 DEF PaysAll
  <2>3. PaidFor(RowsOf(u), c.cart[i])
    BY <1>3, <2>2 DEF CartPaid
  <2>4. QED
    BY <1>2, <2>3
<1>4. ASSUME h.choice = "pay", h.pc \in {"queued", "pay"}, NEW i \in DOMAIN c.cart
      PROVE  \/ PaidFor(RowsOf(u)', c.cart[i])
             \/ \E j \in DOMAIN h.list : h.list[j] = c.cart[i]
  <2>1. Begins(u) \/ PaysOne(u)
    BY <1>1, <1>4 DEF Works, LooksUp, Enters, FindsRoom, Reserves, Inserts, At, Tells,
           Telling, AnswersSeat, PaysAll, Quits, Serves, Says, Idle
  <2>2. /\ g.choice = "pay" /\ g.pc \in {"queued", "pay"}
        /\ g.list \in Seq(Place)
    BY <1>1, <1>4, <2>1 DEF Begins, PaysOne, TypeInv, TypeOK, AdminTypeOK, Handler
  <2>3. \/ PaidFor(RowsOf(u), c.cart[i])
        \/ \E j \in DOMAIN g.list : g.list[j] = c.cart[i]
    BY <2>2 DEF CartPaid
  <2>4. CASE PaidFor(RowsOf(u), c.cart[i])
    BY <1>2, <2>4
  <2>5. CASE Begins(u)
    BY <1>2, <2>3, <2>5 DEF Begins
  <2>6. ASSUME PaysOne(u), NEW j \in DOMAIN g.list, g.list[j] = c.cart[i]
        PROVE  \/ PaidFor(RowsOf(u)', c.cart[i])
               \/ \E k \in DOMAIN h.list : h.list[k] = c.cart[i]
    <3>1. Pays(u) /\ h.list = Tail(g.list) /\ g.list # <<>>
      BY <2>6 DEF PaysOne
    <3>2. CASE j = 1
      <4>1. c.cart[i] = Head(g.list)
        BY <2>2, <2>6, <3>1, <3>2
      <4>2. Owns(RowsOf(u), c.cart[i])
        BY DEF OwnsCart
      <4>3. QED
        BY <3>1, <4>1, <4>2, PaymentOwns
    <3>3. CASE j # 1
      <4>1. j - 1 \in DOMAIN Tail(g.list) /\ Tail(g.list)[j - 1] = g.list[j]
        BY <2>2, <2>6, <3>1, <3>3
      <4>2. QED
        BY <2>6, <3>1, <4>1
    <3>4. QED
      BY <3>2, <3>3
  <2>7. QED
    BY <2>1, <2>3, <2>4, <2>5, <2>6
<1>5. QED
  BY <1>1, <1>3, <1>4 DEF CartPaid

\* What is paid stays paid, and who is told so has paid everything, unless this step is
\* the refused UPDATE of the payment.
LEMMA PaidStep ==
    ASSUME TypeInv, ProtocolInv, [Next]_vars, NEW u \in User, CallInv(u), CountInv(u),
           PurchaseInv(u), InService(u) /\ handler[u].pc # "dead" => CartPaid(u),
           ~ (handler[u].pc = "pay" /\ busyCount' > busyCount),
           InService(u)', handler'[u].pc # "dead"
    PROVE  CartPaid(u)'
<1>1. CASE Opens(u)
  <2>1. client'[u].at = "menu" /\ handler'[u].choice = "exit"
    BY <1>1, NothingUnderWay DEF Opens, Idle
  <2>2. QED
    BY <1>1, <2>1, NoAnswerYet DEF CartPaid
<1>2. CASE ~ Opens(u)
  <2>1. /\ InService(u) /\ OwnsCart(u) /\ CartPaid(u)
        /\ Untouched(u) \/ Works(u) \/ Asks(u) \/ GoesBack(u) \/ Receives(u)
    BY <1>2, Serving DEF PurchaseInv
  <2>2. \A p : PaidFor(RowsOf(u), p) => PaidFor(RowsOf(u)', p)
    BY <1>2, Serving, RowsStay
  <2>3. CASE Untouched(u)
    <3>1. /\ client'[u].cart = client[u].cart /\ client'[u].at = client[u].at
          /\ client'[u].asked = client[u].asked /\ handler'[u] = handler[u]
          /\ Answered(u)' <=> Answered(u)
      BY <2>3, ToldAlike DEF Untouched, SameCart
    <3>2. QED
      BY <2>1, <2>2, <3>1 DEF CartPaid
  <2>4. CASE Works(u)
    BY <2>1, <2>4, PaidWorks
  <2>5. CASE Asks(u)
    <3>1. /\ client'[u].at # "paid" /\ ~ Answered(u)'
          /\ handler'[u].choice = client'[u].asked
          /\ client'[u].asked = "pay" => handler'[u].list = client'[u].cart
      BY <2>5, NoAnswerYet DEF Asks, AskedWhere
    <3>2. QED
      BY <3>1 DEF CartPaid
  <2>6. CASE GoesBack(u)
    <3>1. handler'[u].choice = "exit" /\ ~ Answered(u)' /\ client'[u].at # "paid"
      BY <2>6, NothingUnderWay DEF GoesBack, Silent, Answered, Idle, Leaving
    <3>2. QED
      BY <3>1 DEF CartPaid
  <2>7. CASE Receives(u)
    <3> DEFINE a == Taken(u)  c == client[u]  d == client'[u]
    <3>1. /\ session[u] = "waiting" /\ a \in Answer /\ Answered(u)
          /\ d = After(c, a) /\ c \in Client /\ handler'[u] = Idle
      BY <2>7, OnlyAnswer DEF Receives, TypeInv, TypeOK
    <3>2. c.at # "crashed" /\ AskedWhere(c)
      BY <2>1, <3>1 DEF InService, CallInv
    <3>3. handler'[u].choice # "pay" /\ ~ Answered(u)'
      BY <2>7, <3>1, NoAnswerYet DEF Idle
    <3> HIDE DEF a, c, d
    <3>4. d.at = "paid" => c.asked = "pay" /\ d.cart = c.cart
      <4>1. CASE c.asked = "select"
        BY <3>1, <3>2, <4>1, AfterFields DEF AskedWhere
      <4>2. CASE c.asked = "rooms"
        BY <3>1, <3>2, <4>2, AfterFields
      <4>3. CASE c.asked = "seats"
        BY <3>1, <3>2, <4>3, AfterFields
      <4>4. CASE c.asked = "pay"
        BY <3>1, <3>2, <4>4, AfterFields
      <4>5. QED
        BY <3>2, <4>1, <4>2, <4>3, <4>4 DEF AskedWhere
    <3>5. QED
      BY <2>1, <2>2, <3>1, <3>3, <3>4 DEF CartPaid, c, d
  <2>8. QED
    BY <2>1, <2>3, <2>4, <2>5, <2>6, <2>7
<1>3. QED
  BY <1>1, <1>2

\* What the screens and the carts promise in one room survives every step.
LEMMA PurchaseStep ==
    ASSUME TypeInv, ProtocolInv, [Next]_vars, NEW u \in User, CallInv(u), CountInv(u),
           PurchaseInv(u), SingleRoom
    PROVE  PurchaseInv(u)'
<1>1. ASSUME busyCount' = 0 PROVE busyCount = 0 /\ ~ (busyCount' > busyCount)
  BY <1>1, RefusalsCount
<1>2. QED
  BY <1>1, ShownStep, OwnsStep, PaidStep DEF PurchaseInv

\* Where the cinema has one room, a customer who was told that the purchase is
\* done owns every seat of the cart, paid, as long as no statement was refused
\* (README.md:9): the wrong room and the unnoticed refusal are the only ways in
\* which the code breaks that promise.
THEOREM PurchaseIsEffectiveInOneRoom ==
    ASSUME SingleRoom
    PROVE  Spec => [](busyCount = 0 => PurchaseIsEffective)
<1> DEFINE Calls == \A u \in User : CallInv(u)
           Counts == \A u \in User : CountInv(u)
           Inv == \A u \in User : PurchaseInv(u)
<1>1. Init => Inv
  BY DEF Init, PurchaseInv, InService
<1>2. TypeInv /\ ProtocolInv /\ Calls /\ Counts /\ Inv /\ [Next]_vars => Inv'
  BY PurchaseStep
<1>3. TypeInv /\ ProtocolInv /\ Inv => (busyCount = 0 => PurchaseIsEffective)
  <2> SUFFICES ASSUME TypeInv, ProtocolInv, Inv, busyCount = 0, NEW u \in User,
                      session[u] = "open", client[u].at = "paid",
                      NEW i \in DOMAIN client[u].cart
               PROVE  \E row \in RowsOf(u) :
                         /\ row.paid
                         /\ [room |-> row.room, seat |-> row.seat] = client[u].cart[i]
    BY DEF PurchaseIsEffective
  <2>1. handler[u] = Idle
    BY NothingUnderWay
  <2>2. PaidFor(RowsOf(u), client[u].cart[i])
    BY <2>1 DEF PurchaseInv, InService, CartPaid, Idle
  <2>3. client[u].cart \in Seq(Place)
    BY DEF TypeInv, TypeOK, Client
  <2>4. client[u].cart[i] \in Place
    BY <2>3
  <2>5. QED
    BY <2>2, <2>4 DEF PaidFor, Place
<1>4. Spec => []Calls /\ []Counts
  BY CallsHold, CountsHold
<1> HIDE DEF Inv, Calls, Counts
<1>5. QED
  BY <1>1, <1>2, <1>3, <1>4, TypesHold, ProtocolHolds, PTL DEF Spec

\* A place of a cart is a room and a seat.
LEMMA PaidAlike ==
    ASSUME TypeInv, NEW u \in User, NEW i \in DOMAIN client[u].cart
    PROVE  Paid(u, client[u].cart[i]) <=> PaidFor(RowsOf(u), client[u].cart[i])
<1>1. client[u].cart \in Seq(Place)
  BY DEF TypeInv, TypeOK, Client
<1>2. client[u].cart[i] \in Place
  BY <1>1
<1> DEFINE p == client[u].cart[i]
<1>3. p = [room |-> p.room, seat |-> p.seat]
  BY <1>2 DEF Place
<1> HIDE DEF p
<1>4. \A row \in RowsOf(u) : [room |-> row.room, seat |-> row.seat] = p
                             <=> row.room = p.room /\ row.seat = p.seat
  BY <1>3
<1>5. QED
  BY <1>4 DEF Paid, PaidFor, p

\* For a customer who pays or was told so, CartPaid says that nothing is missing.
LEMMA NothingMissing ==
    ASSUME TypeInv, ProtocolInv, NEW u \in User
    PROVE  /\ InService(u) /\ ~ Shortfall(u) /\ CallInv(u) => CartPaid(u)
           /\ CartPaid(u) => ~ Shortfall(u)
           /\ Purchases(u) => InService(u) /\ handler[u].pc # "dead"
<1> DEFINE c == client[u]
           Missing(i) == ~ PaidFor(RowsOf(u), c.cart[i]) /\ ~ ToPay(u, c.cart[i])
<1>1. Shortfall(u) <=> Purchases(u) /\ \E i \in DOMAIN c.cart : Missing(i)
  BY PaidAlike DEF Shortfall
<1>2. session[u] = "open" => handler[u] = Idle /\ ~ Answered(u)
  BY NothingUnderWay DEF Answered
<1>3. session[u] = "waiting" => Served(u) \/ Told(u)
  BY DEF ProtocolInv, InStep
<1>4. Idle.pc = "idle" /\ Idle.choice = "exit"
  BY DEF Idle
<1>5. Served(u) => Serves(handler[u]) /\ handler[u].choice = c.asked /\ ~ Answered(u)
  BY DEF Served, Answered
<1>6. Told(u) => handler[u] = Idle /\ Answered(u)
  BY DEF Told, Answered
<1>7. Purchases(u) => InService(u) /\ handler[u].pc # "dead"
  BY <1>2, <1>3, <1>4, <1>5, <1>6 DEF Purchases, InService, Serves
<1>8. ASSUME CartPaid(u), Purchases(u), NEW i \in DOMAIN c.cart PROVE ~ Missing(i)
  BY <1>2, <1>3, <1>5, <1>6, <1>8 DEF Purchases, CartPaid, ToPay, Serves
<1>9. ASSUME InService(u), CallInv(u), ~ Shortfall(u) PROVE CartPaid(u)
  <2>1. session[u] = "waiting" => AskedWhere(c)
    BY <1>9 DEF CallInv
  <2>2. ASSUME c.at = "paid" \/ (c.asked = "pay" /\ Answered(u))
        PROVE  Purchases(u) /\ handler[u] = Idle
    BY <1>2, <1>3, <1>5, <1>6, <1>9, <2>1, <2>2 DEF Purchases, InService, AskedWhere
  <2>3. ASSUME handler[u].choice = "pay"
        PROVE  Purchases(u)
    BY <1>2, <1>3, <1>4, <1>5, <1>6, <1>9, <2>1, <2>3 DEF Purchases, InService, AskedWhere
  <2>4. QED
    BY <1>1, <1>4, <1>9, <2>2, <2>3 DEF CartPaid, ToPay
<1>10. QED
  BY <1>1, <1>7, <1>8, <1>9

\* In one room, and however many statements are refused: what makes a purchase fall
\* short of the cart is the refused UPDATE of that payment (admin.cpp:29-37), and no
\* other step of anybody, before or after the answer.
THEOREM UnpaidByTheUpdateHolds ==
    ASSUME SingleRoom
    PROVE  Spec => UnpaidByTheUpdate
<1> DEFINE Calls == \A u \in User : CallInv(u)
           Counts == \A u \in User : CountInv(u)
           Inv == \A u \in User : PurchaseInv(u)
           Facts == \A u \in User :
                       /\ CartPaid(u) => ~ Shortfall(u)
                       /\ Purchases(u) => InService(u) /\ handler[u].pc # "dead"
<1>1. Init => Inv
  BY DEF Init, PurchaseInv, InService
<1>2. TypeInv /\ ProtocolInv /\ Calls /\ Counts /\ Inv /\ [Next]_vars => Inv'
  BY PurchaseStep
<1>3. TypeInv /\ ProtocolInv => Facts
  BY NothingMissing
<1>4. TypeInv /\ ProtocolInv /\ Calls /\ Counts /\ Inv /\ Facts' /\ [Next]_vars
      => [\A u \in User :
             ~ Shortfall(u) /\ Shortfall(u)'
             => handler[u].pc = "pay" /\ busyCount' > busyCount]_vars
  <2> SUFFICES ASSUME TypeInv, ProtocolInv, Calls, Counts, Inv, Facts', [Next]_vars,
                      NEW u \in User, ~ Shortfall(u), Shortfall(u)',
                      ~ (handler[u].pc = "pay" /\ busyCount' > busyCount)
               PROVE  FALSE
    OBVIOUS
  <2>1. InService(u) => CartPaid(u)
    BY NothingMissing
  <2>2. InService(u)' /\ handler'[u].pc # "dead" /\ ~ CartPaid(u)'
    BY DEF Shortfall
  <2>3. QED
    BY <2>1, <2>2, PaidStep
<1>5. Spec => []Calls /\ []Counts
  BY CallsHold, CountsHold
<1> HIDE DEF Inv, Calls, Counts, Facts
<1>6. QED
  BY <1>1, <1>2, <1>3, <1>4, <1>5, TypesHold, ProtocolHolds, PTL DEF Spec, UnpaidByTheUpdate
=============================================================================
