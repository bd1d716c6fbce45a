-------------------------- MODULE BoxOfficeProofs --------------------------
(***************************************************************************)
(* Proofs about BoxOffice for every set of rooms, customers and inputs.    *)
(***************************************************************************)
EXTENDS BoxOffice, TLAPS

USE SeatCountAssumption, MaxUsersAssumption, InputAssumption,
    MaxBusyAssumption, MaxRestartsAssumption
USE DEF Registration, Slot, User

---------------------------------------------------------------------------
(* Types.  The ids stay in range because a registration starts only while  *)
(* one is left, and a row gets a room only from a handler that checked it. *)

RegistrationBounded ==
    handler[Registration].pc \in {"queued", "insertUser"} => users < MaxUsers

RoomKnown == \A u \in User : handler[u].pc \in {"enterRoom", "insert"}
                             => handler[u].room \in Room

TypeInv == TypeOK /\ RegistrationBounded /\ RoomKnown

\* The free handler and the answers the handlers build have their types.
LEMMA IdleType == Idle \in Handler
BY DEF Idle, Handler, Pc, SqlStep, Choice, SeatSet, Place

LEMMA ResultType ==
    \A choice \in Choice \cup {"invalid"}, ok \in BOOLEAN :
        Result(choice, ok) \in Answer
BY DEF Result, Message, Answer, SeatSet

LEMMA SeatInputIsInt == \A seat \in SeatInput \cup {0} : seat \in Int
OBVIOUS

\* A refusal is counted within its bound.
LEMMA SqlType ==
    ASSUME TypeInv, NEW s \in Slot, NEW busy \in BOOLEAN, Sql(s, busy)
    PROVE  busyCount' \in 0..MaxBusy
BY DEF TypeInv, TypeOK, AdminTypeOK, Sql, MayBeBusy

\* Become changes one slot.
LEMMA BecomeSlot ==
    ASSUME TypeInv, NEW s \in Slot, NEW h \in Handler, Become(s, h)
    PROVE  /\ handler' \in [Slot -> Handler]
           /\ handler'[s] = h
           /\ \A t \in Slot \ {s} : handler'[t] = handler[t]
BY DEF TypeInv, TypeOK, AdminTypeOK, Become

\* Respond ends the handler and adds one answer.
LEMMA RespondSlot ==
    ASSUME TypeInv, NEW s \in Slot, NEW a \in Answer, Respond(s, a)
    PROVE  /\ Become(s, Idle)
           /\ reply' \in [Slot -> Seq(Answer)]
           /\ reply'[s] = Append(reply[s], a)
           /\ \A t \in Slot \ {s} : reply'[t] = reply[t]
BY DEF TypeInv, TypeOK, AdminTypeOK, Respond

\* What a step of a handler must show to keep the types.
LEMMA HandlerStepType ==
    ASSUME TypeInv, NEW s \in Slot, NEW h \in Handler, Become(s, h),
           DbTypeOK', busyCount' \in 0..MaxBusy,
           reply' \in [Slot -> Seq(Answer)],
           activity' \in [User -> Seq(SUBSET SeatSet)],
           UNCHANGED <<session, client, restarts>>,
           users' = users \/ s = Registration,
           h.pc \in {"queued", "insertUser"} => handler[s].pc = "queued" /\ users' = users,
           h.pc \in {"enterRoom", "insert"} /\ s \in User => h.room \in Room
    PROVE  TypeInv'
<1>1. /\ handler' \in [Slot -> Handler]
      /\ handler'[s] = h
      /\ \A t \in Slot \ {s} : handler'[t] = handler[t]
  BY BecomeSlot
<1>2. AdminTypeOK'
  BY <1>1 DEF AdminTypeOK
<1>3. TypeOK'
  BY <1>2 DEF TypeInv, TypeOK
<1>4. RegistrationBounded'
  BY <1>1 DEF TypeInv, RegistrationBounded
<1>5. RoomKnown'
  BY <1>1 DEF TypeInv, RoomKnown
<1>6. QED
  BY <1>3, <1>4, <1>5 DEF TypeInv

LEMMA ListenType ==
    ASSUME TypeInv, NEW s \in Slot, admin_listen_requests(s),
           UNCHANGED <<session, client, restarts>>
    PROVE  TypeInv'
<1> DEFINE h == [handler[s] EXCEPT !.pc = FirstStep(handler[s].choice)]
<1>1. handler[s] \in Handler
  BY DEF TypeInv, TypeOK, AdminTypeOK
<1>2. FirstStep(handler[s].choice) \in
        {"insertUser", "listRooms", "seatMap", "currentRoom", "pay", "logout"}
  BY <1>1 DEF FirstStep, Handler, Choice
<1>3. h \in Handler /\ h.pc = FirstStep(handler[s].choice)
  BY <1>1, <1>2 DEF Handler, Pc, SqlStep
<1>4. Become(s, h) /\ handler[s].pc = "queued"
  BY DEF admin_listen_requests, Goto, At
<1>5. DbTypeOK' /\ users' = users
  BY DEF TypeInv, TypeOK, DbTypeOK, admin_listen_requests, dbVars
<1>6. /\ busyCount' \in 0..MaxBusy
      /\ reply' \in [Slot -> Seq(Answer)]
      /\ activity' \in [User -> Seq(SUBSET SeatSet)]
  BY DEF TypeInv, TypeOK, AdminTypeOK, admin_listen_requests
<1> HIDE DEF h
<1>7. QED
  BY <1>2, <1>3, <1>4, <1>5, <1>6, HandlerStepType

LEMMA InsertUserType ==
    ASSUME TypeInv, NEW busy \in BOOLEAN, InsertUser(Registration, busy),
           UNCHANGED <<session, client, restarts>>
    PROVE  TypeInv'
<1> DEFINE s == Registration
           h == [handler[s] EXCEPT !.id = InsertedUser(busy), !.pc = "login"]
<1>1. handler[s] \in Handler /\ s \in Slot
  BY DEF TypeInv, TypeOK, AdminTypeOK
<1>2. DbTypeOK' /\ InsertedUser(busy) \in 0..MaxUsers
  BY DEF TypeInv, TypeOK, DbTypeOK, RegistrationBounded, InsertUser, At,
         db_insert_user, InsertedUser
<1>3. h \in Handler /\ h.pc = "login"
  BY <1>1, <1>2 DEF Handler, Pc, SqlStep
<1>4. Become(s, h) /\ Sql(s, busy)
  BY DEF InsertUser
<1>5. /\ reply' \in [Slot -> Seq(Answer)]
      /\ activity' \in [User -> Seq(SUBSET SeatSet)]
  BY DEF TypeInv, TypeOK, AdminTypeOK, InsertUser
<1>6. busyCount' \in 0..MaxBusy
  BY <1>1, <1>4, SqlType
<1> HIDE DEF h
<1>7. QED
  BY <1>1, <1>2, <1>3, <1>4, <1>5, <1>6, HandlerStepType

LEMMA LoginUserType ==
    ASSUME TypeInv, NEW busy \in BOOLEAN, LoginUser(Registration, busy),
           UNCHANGED <<session, client, restarts>>
    PROVE  TypeInv'
<1> DEFINE s == Registration
           a == Message("register", TRUE, handler[s].id, {})
<1>1. handler[s] \in Handler /\ s \in Slot
  BY DEF TypeInv, TypeOK, AdminTypeOK
<1>2. a \in Answer
  BY <1>1 DEF Message, Answer, Handler, Choice, SeatSet
<1>3. Respond(s, a) /\ Sql(s, busy)
  BY DEF LoginUser
<1>4. DbTypeOK' /\ users' = users
  BY <1>1 DEF TypeInv, TypeOK, DbTypeOK, LoginUser, db_login_user, Handler
<1>5. activity' \in [User -> Seq(SUBSET SeatSet)]
  BY DEF TypeInv, TypeOK, AdminTypeOK, LoginUser
<1>6. busyCount' \in 0..MaxBusy
  BY <1>1, <1>3, SqlType
<1> HIDE DEF a
<1>7. Become(s, Idle) /\ reply' \in [Slot -> Seq(Answer)]
  BY <1>1, <1>2, <1>3, RespondSlot
<1>8. Idle \in Handler /\ Idle.pc = "idle"
  BY IdleType DEF Idle
<1>9. QED
  BY <1>1, <1>4, <1>5, <1>6, <1>7, <1>8, HandlerStepType

\* Steps of a customer's handler that answer and end.
LEMMA RespondType ==
    ASSUME TypeInv, NEW u \in User, NEW busy \in BOOLEAN, NEW a \in Answer,
           Respond(u, a), Sql(u, busy), DbTypeOK', UNCHANGED <<users, activity>>,
           UNCHANGED <<session, client, restarts>>
    PROVE  TypeInv'
<1>1. u \in Slot
  OBVIOUS
<1>2. Become(u, Idle) /\ reply' \in [Slot -> Seq(Answer)]
  BY <1>1, RespondSlot
<1>3. busyCount' \in 0..MaxBusy
  BY <1>1, SqlType
<1>4. activity' \in [User -> Seq(SUBSET SeatSet)]
  BY DEF TypeInv, TypeOK, AdminTypeOK
<1>5. Idle \in Handler /\ Idle.pc = "idle"
  BY IdleType DEF Idle
<1>6. QED
  BY <1>1, <1>2, <1>3, <1>4, <1>5, HandlerStepType

\* Steps of a customer's handler that go on.
LEMMA GoOnType ==
    ASSUME TypeInv, NEW u \in User, NEW busy \in BOOLEAN, NEW h \in Handler,
           Become(u, h), Sql(u, busy), DbTypeOK', UNCHANGED <<users, reply, activity>>,
           UNCHANGED <<session, client, restarts>>,
           h.pc \notin {"queued", "insertUser"},
           h.pc \in {"enterRoom", "insert"} => h.room \in Room
    PROVE  TypeInv'
<1>1. busyCount' \in 0..MaxBusy
  BY SqlType
<1>2. /\ activity' \in [User -> Seq(SUBSET SeatSet)]
      /\ reply' \in [Slot -> Seq(Answer)]
  BY DEF TypeInv, TypeOK, AdminTypeOK
<1>3. u \in Slot
  OBVIOUS
<1>4. QED
  BY <1>1, <1>2, <1>3, HandlerStepType

\* The same for steps that only move to another statement.
LEMMA GotoType ==
    ASSUME TypeInv, NEW u \in User, NEW busy \in BOOLEAN, NEW label \in Pc,
           Goto(u, label), Sql(u, busy), DbTypeOK',
           UNCHANGED <<users, reply, activity>>,
           UNCHANGED <<session, client, restarts>>,
           label \notin {"queued", "insertUser", "enterRoom", "insert"}
    PROVE  TypeInv'
<1> DEFINE h == [handler[u] EXCEPT !.pc = label]
<1>1. handler[u] \in Handler
  BY DEF TypeInv, TypeOK, AdminTypeOK
<1>2. h \in Handler /\ h.pc = label
  BY <1>1 DEF Handler
<1>3. Become(u, h)
  BY DEF Goto
<1> HIDE DEF h
<1>4. QED
  BY <1>2, <1>3, GoOnType

LEMMA AnswerSelectType ==
    ASSUME TypeInv, NEW u \in User, NEW busy \in BOOLEAN, AnswerSelect(u, busy),
           UNCHANGED <<session, client, restarts>>
    PROVE  TypeInv'
<1> USE DEF dbVars
<1>0. /\ handler[u] \in Handler
      /\ DbTypeOK
      /\ RoomKnown
  BY DEF TypeInv, TypeOK, AdminTypeOK
<1>1. CASE CurrentRoom(u, busy)
  <2>1. DbTypeOK' /\ Sql(u, busy) /\ UNCHANGED <<users, reply, activity>>
    BY <1>0, <1>1 DEF CurrentRoom, DbTypeOK
  <2>2. ASSUME NEW room \in RoomsOfUser(u),
               Become(u, [handler[u] EXCEPT !.room = room, !.pc = "insert"])
        PROVE  TypeInv'
    <3> DEFINE h == [handler[u] EXCEPT !.room = room, !.pc = "insert"]
    <3>1. room \in Room
      BY <1>0 DEF RoomsOfUser, DbTypeOK, Visit
    <3>2. h \in Handler /\ h.pc = "insert" /\ h.room = room
      BY <1>0, <3>1 DEF Handler, Pc, SqlStep
    <3>3. Become(u, h)
      BY <2>2
    <3> HIDE DEF h
    <3>4. QED
      BY <2>1, <3>1, <3>2, <3>3, GoOnType
  <2>3. CASE Goto(u, "dead")
    BY <2>1, <2>3, GotoType DEF Pc
  <2>4. QED
    BY <1>1, <2>2, <2>3 DEF CurrentRoom
<1>2. CASE InsertReservation(u, busy)
  <2>1. CASE /\ SeatIsFree(handler[u].room, handler[u].seat)
             /\ db_insert_reservation(u, handler[u].room, handler[u].seat)
             /\ Goto(u, "leaveRoom")
             /\ UNCHANGED reply
    <3>1. handler[u].room \in Room
      BY <1>0, <1>2 DEF InsertReservation, At, RoomKnown
    <3>2. handler[u].seat \in Nat \ {0}
      <4>1. handler[u].seat \in SeatInput \cup {0}
        BY <1>0 DEF Handler
      <4>2. handler[u].seat \in Int
        BY <4>1, SeatInputIsInt
      <4>3. QED
        BY <2>1, <4>2 DEF SeatIsFree
    <3>3. reservations' \subseteq Reservation
      <4> DEFINE row == [user |-> u, room |-> handler[u].room,
                         seat |-> handler[u].seat, paid |-> FALSE]
      <4>1. row \in Reservation
        BY <3>1, <3>2 DEF Reservation
      <4>2. reservations' = reservations \cup {row}
        BY <2>1 DEF db_insert_reservation
      <4>3. QED
        BY <1>0, <4>1, <4>2 DEF DbTypeOK
    <3>4. DbTypeOK'
      BY <1>0, <1>2, <3>3 DEF InsertReservation, DbTypeOK
    <3>5. Sql(u, busy) /\ UNCHANGED <<users, reply, activity>>
      BY <1>2, <2>1 DEF InsertReservation
    <3>6. QED
      BY <2>1, <3>4, <3>5, GotoType DEF Pc, SqlStep
  <2>2. CASE Respond(u, Result("select", FALSE)) /\ UNCHANGED reservations
    <3>1. Result("select", FALSE) \in Answer
      BY ResultType DEF Choice
    <3>2. DbTypeOK' /\ Sql(u, busy) /\ UNCHANGED <<users, activity>>
      BY <1>0, <1>2, <2>2 DEF InsertReservation, DbTypeOK
    <3>3. QED
      BY <2>2, <3>1, <3>2, RespondType
  <2>3. QED
    BY <1>2, <2>1, <2>2 DEF InsertReservation
<1>3. CASE LeaveRoom(u, busy)
  <2>1. DbTypeOK' /\ Sql(u, busy) /\ UNCHANGED <<users, reply, activity>>
    BY <1>0, <1>3 DEF LeaveRoom, DbTypeOK, db_remove_user_in_room
  <2>2. Goto(u, "viewers")
    BY <1>3 DEF LeaveRoom
  <2>3. QED
    BY <2>1, <2>2, GotoType DEF Pc, SqlStep
<1>4. CASE Viewers(u, busy)
  <2> DEFINE viewers == IF busy THEN {} ELSE db_select_users_in_room(handler[u].room)
             label == IF viewers = {} THEN "leaveAgain" ELSE "snapshot"
             h == [handler[u] EXCEPT !.viewers = viewers, !.pc = label]
  <2>1. DbTypeOK' /\ Sql(u, busy) /\ UNCHANGED <<users, reply, activity>>
    BY <1>0, <1>4 DEF Viewers, DbTypeOK
  <2>2. viewers \in SUBSET User
    BY <1>0 DEF db_select_users_in_room, DbTypeOK, Visit
  <2>3. label \in {"leaveAgain", "snapshot"}
    OBVIOUS
  <2>4. Become(u, h)
    BY <1>4 DEF Viewers
  <2> HIDE DEF viewers, label
  <2>5. h \in Handler /\ h.pc = label
    BY <1>0, <2>2, <2>3 DEF Handler, Pc, SqlStep
  <2> HIDE DEF h
  <2>6. QED
    BY <2>1, <2>3, <2>4, <2>5, GoOnType
<1>5. CASE Snapshot(u, busy)
  <2> DEFINE room == handler[u].room
             Shown(seats) == (IF busy /\ seats > 0 THEN {}
                              ELSE db_select_reservations(room)) \cap 1..seats
  <2>1. DbTypeOK' /\ Sql(u, busy) /\ UNCHANGED <<users, reply, activity>>
    BY <1>0, <1>5 DEF Snapshot, DbTypeOK
  <2>2. ASSUME NEW seats,
               Become(u, [handler[u] EXCEPT !.taken = Shown(seats), !.pc = "notify"])
        PROVE  TypeInv'
    <3> DEFINE h == [handler[u] EXCEPT !.taken = Shown(seats), !.pc = "notify"]
    <3>1. Shown(seats) \in SUBSET SeatSet
      BY <1>0 DEF SeatSet, db_select_reservations, DbTypeOK, Reservation
    <3> HIDE DEF Shown
    <3>2. h \in Handler /\ h.pc = "notify"
      BY <1>0, <3>1 DEF Handler, Pc, SqlStep
    <3>3. Become(u, h)
      BY <2>2
    <3> HIDE DEF h
    <3>4. QED
      BY <2>1, <3>2, <3>3, GoOnType
  <2>3. CASE Goto(u, "dead")
    BY <2>1, <2>3, GotoType DEF Pc
  <2>4. QED
    BY <1>5, <2>2, <2>3 DEF Snapshot
<1>6. CASE LeaveRoomAgain(u, busy)
  <2>1. Result("select", TRUE) \in Answer
    BY ResultType DEF Choice
  <2>2. /\ DbTypeOK' /\ Respond(u, Result("select", TRUE)) /\ Sql(u, busy)
        /\ UNCHANGED <<users, activity>>
    BY <1>0, <1>6 DEF LeaveRoomAgain, DbTypeOK, db_remove_user_in_room
  <2>3. QED
    BY <2>1, <2>2, RespondType
<1>7. QED
  BY <1>1, <1>2, <1>3, <1>4, <1>5, <1>6 DEF AnswerSelect

LEMMA AnswerUserType ==
    ASSUME TypeInv, NEW u \in User, NEW busy \in BOOLEAN, AnswerUser(u, busy),
           UNCHANGED <<session, client, restarts>>
    PROVE  TypeInv'
<1> USE DEF dbVars
<1>0. /\ handler[u] \in Handler
      /\ DbTypeOK
      /\ RoomKnown
  BY DEF TypeInv, TypeOK, AdminTypeOK
<1>1. CASE ListRooms(u, busy)
  <2>1. Result("rooms", TRUE) \in Answer
    BY ResultType DEF Choice
  <2>2. DbTypeOK' /\ Respond(u, Result("rooms", TRUE)) /\ Sql(u, busy)
    BY <1>0, <1>1 DEF ListRooms, DbTypeOK
  <2>3. QED
    BY <1>1, <2>1, <2>2, RespondType DEF ListRooms
<1>2. CASE SeatMapUnknown(u, busy)
  <2>1. Result("invalid", FALSE) \in Answer
    BY ResultType
  <2>2. DbTypeOK' /\ Respond(u, Result("invalid", FALSE)) /\ Sql(u, busy)
    BY <1>0, <1>2 DEF SeatMapUnknown, DbTypeOK
  <2>3. QED
    BY <1>2, <2>1, <2>2, RespondType DEF SeatMapUnknown
<1>3. CASE SeatMap(u, busy)
  <2> DEFINE room == handler[u].room
             taken == IF busy THEN {} ELSE db_select_reservations(room)
             h == [handler[u] EXCEPT !.taken = taken \cap SeatsOf(room),
                                     !.pc = "enterRoom"]
  <2>1. DbTypeOK' /\ Sql(u, busy) /\ UNCHANGED <<users, reply, activity>>
    BY <1>0, <1>3 DEF SeatMap, DbTypeOK
  <2>2. CASE Become(u, h)
    <3>1. taken \cap SeatsOf(room) \in SUBSET SeatSet
      BY <1>0 DEF SeatsOf, SeatSet, db_select_reservations, DbTypeOK, Reservation
    <3>2. h \in Handler /\ h.pc = "enterRoom" /\ h.room = room
      BY <1>0, <3>1 DEF Handler, Pc, SqlStep
    <3>3. room \in Room
      BY <1>3 DEF SeatMap
    <3> HIDE DEF h
    <3>4. QED
      BY <2>1, <2>2, <3>2, <3>3, GoOnType
  <2>3. CASE Goto(u, "dead")
    BY <2>1, <2>3, GotoType DEF Pc
  <2>4. QED
    BY <1>3, <2>2, <2>3 DEF SeatMap
<1>4. CASE EnterRoom(u, busy)
  <2> DEFINE a == Message("seats", TRUE, 0, handler[u].taken)
  <2>1. a \in Answer
    <3>1. handler[u].taken \in SUBSET SeatSet
      BY <1>0 DEF Handler
    <3>2. QED
      BY <3>1 DEF Message, Answer, Choice
  <2>2. handler[u].room \in Room
    BY <1>0, <1>4 DEF EnterRoom, At, RoomKnown
  <2>3. DbTypeOK'
    BY <1>0, <1>4, <2>2 DEF EnterRoom, DbTypeOK, db_insert_user_in_room, Visit
  <2>4. Respond(u, a) /\ Sql(u, busy) /\ UNCHANGED <<users, activity>>
    BY <1>4 DEF EnterRoom
  <2> HIDE DEF a
  <2>5. QED
    BY <2>1, <2>3, <2>4, RespondType
<1>5. CASE AnswerSelect(u, busy)
  BY <1>5, AnswerSelectType
<1>6. CASE PayReservation(u, busy)
  <2> DEFINE list == handler[u].list
             rest == IF busy THEN <<>> ELSE Tail(list)
             h == [handler[u] EXCEPT !.list = rest]
  <2>1. /\ list \in Seq(Place) /\ list # <<>>
        /\ Sql(u, busy) /\ UNCHANGED <<users, reply, activity>>
        /\ Become(u, h) /\ handler[u].pc = "pay"
    BY <1>0, <1>6 DEF PayReservation, Handler, At
  <2>2. rest \in Seq(Place)
    BY <2>1
  <2> HIDE DEF rest
  <2>3. h \in Handler /\ h.pc = "pay"
    BY <1>0, <2>1, <2>2 DEF Handler
  <2>4. reservations' \subseteq Reservation
    <3>1. \A row \in Reservation : PaidRow(row, u, Head(list)) \in Reservation
      BY DEF PaidRow, Reservation
    <3>2. QED
      BY <1>0, <1>6, <3>1 DEF PayReservation, db_update_paid_reservation, DbTypeOK
  <2>5. DbTypeOK'
    BY <1>0, <1>6, <2>4 DEF PayReservation, DbTypeOK
  <2> HIDE DEF h
  <2>6. QED
    BY <2>1, <2>3, <2>5, GoOnType
<1>7. CASE LogoutUser(u, busy)
  <2>1. DbTypeOK' /\ Sql(u, busy) /\ UNCHANGED <<users, reply, activity>>
    BY <1>0, <1>7 DEF LogoutUser, DbTypeOK, db_logout_user
  <2>2. Goto(u, "release")
    BY <1>7 DEF LogoutUser
  <2>3. QED
    BY <2>1, <2>2, GotoType DEF Pc, SqlStep
<1>8. CASE ReleaseSeats(u, busy)
  <2>1. DbTypeOK' /\ Sql(u, busy) /\ UNCHANGED <<users, reply, activity>>
    BY <1>0, <1>8 DEF ReleaseSeats, DbTypeOK, db_remove_user_unpaid_reservations
  <2>2. Become(u, Idle) /\ Idle \in Handler /\ Idle.pc = "idle"
    BY <1>8, IdleType DEF ReleaseSeats, Idle
  <2>3. QED
    BY <2>1, <2>2, GoOnType
<1>9. QED
  BY <1>1, <1>2, <1>3, <1>4, <1>5, <1>6, <1>7, <1>8 DEF AnswerUser

\* Every step of the admin keeps the types.
LEMMA AdminStepType ==
    ASSUME TypeInv, NEW s \in Slot, AdminStep(s)
    PROVE  TypeInv'
<1>0. /\ UNCHANGED <<session, client, restarts>>
      /\ admin_handle_request(s)
  BY DEF AdminStep
<1>1. CASE admin_listen_requests(s)
  BY <1>0, <1>1, ListenType
<1>2. CASE \E busy \in BOOLEAN : s = Registration /\ AnswerRegistration(busy)
  BY <1>0, <1>2, InsertUserType, LoginUserType DEF AnswerRegistration
<1>3. CASE \E busy \in BOOLEAN : s \in User /\ AnswerUser(s, busy)
  BY <1>0, <1>3, AnswerUserType
<1>4. CASE s \in User /\ Notify(s)
  <2> DEFINE h == [handler[s] EXCEPT !.pc = "leaveAgain"]
  <2>1. handler[s] \in Handler /\ DbTypeOK /\ AdminTypeOK
    BY DEF TypeInv, TypeOK, AdminTypeOK
  <2>2. h \in Handler /\ h.pc = "leaveAgain"
    BY <2>1 DEF Handler, Pc, SqlStep
  <2>3. Become(s, h) /\ UNCHANGED <<users, reply, busyCount>>
    BY <1>4 DEF Notify, Goto, dbVars
  <2>4. DbTypeOK' /\ busyCount' \in 0..MaxBusy /\ reply' \in [Slot -> Seq(Answer)]
    BY <1>4, <2>1 DEF Notify, dbVars, DbTypeOK, AdminTypeOK
  <2>5. activity' \in [User -> Seq(SUBSET SeatSet)]
    <3>1. handler[s].taken \in SUBSET SeatSet
      BY <2>1 DEF Handler
    <3>2. \A u \in User : activity[u] \in Seq(SUBSET SeatSet)
      BY <2>1 DEF AdminTypeOK
    <3>3. \A u \in User : Append(activity[u], handler[s].taken) \in Seq(SUBSET SeatSet)
      BY <3>1, <3>2
    <3>4. QED
      BY <1>4, <3>2, <3>3 DEF Notify
  <2> HIDE DEF h
  <2>6. QED
    BY <1>0, <2>2, <2>3, <2>4, <2>5, HandlerStepType
<1>5. CASE s \in User /\ PaymentDone(s)
  <2>1. Result("pay", TRUE) \in Answer
    BY ResultType DEF Choice
  <2>2. Become(s, Idle) /\ reply' \in [Slot -> Seq(Answer)]
    BY <1>5, <2>1, RespondSlot DEF PaymentDone
  <2>3. DbTypeOK' /\ UNCHANGED users
    BY <1>5 DEF PaymentDone, dbVars, TypeInv, TypeOK, DbTypeOK
  <2>4. busyCount' \in 0..MaxBusy /\ activity' \in [User -> Seq(SUBSET SeatSet)]
    BY <1>5 DEF PaymentDone, TypeInv, TypeOK, AdminTypeOK
  <2>5. Idle \in Handler /\ Idle.pc = "idle"
    BY IdleType DEF Idle
  <2>6. QED
    BY <1>0, <2>2, <2>3, <2>4, <2>5, HandlerStepType
<1>6. QED
  BY <1>0, <1>1, <1>2, <1>3, <1>4, <1>5 DEF admin_handle_request

\* A caller's step: what it does to a handler is to queue a request.
OnlyQueued ==
    \A t \in Slot : \/ handler'[t] = handler[t]
                   \/ /\ handler'[t].pc = "queued"
                      /\ t = Registration => users < MaxUsers

\* A caller's step changes no table; what it must show about the rest.
LEMMA CallerStepType ==
    ASSUME TypeInv, UNCHANGED <<dbVars, busyCount, restarts>>,
           handler' \in [Slot -> Handler],
           OnlyQueued,
           reply' \in [Slot -> Seq(Answer)],
           activity' \in [User -> Seq(SUBSET SeatSet)],
           session' \in [User -> {"none", "open", "waiting", "closed"}],
           client' \in [User -> Client]
    PROVE  TypeInv'
<1>1. TypeOK'
  BY DEF TypeInv, TypeOK, DbTypeOK, AdminTypeOK, dbVars
<1>2. RegistrationBounded'
  BY DEF TypeInv, RegistrationBounded, dbVars, OnlyQueued
<1>3. RoomKnown'
  BY DEF TypeInv, RoomKnown, OnlyQueued
<1>4. QED
  BY <1>1, <1>2, <1>3 DEF TypeInv

\* Requests have the type of a handler.
LEMMA RequestType ==
    \A choice \in Choice : Request(choice) \in Handler /\ Request(choice).pc = "queued"
BY IdleType DEF Request, Idle, Handler, Pc, SqlStep, Choice, SeatSet, Place

\* Ask, for a request and a client of the right types.
LEMMA AskType ==
    ASSUME TypeInv, NEW u \in User, NEW request \in Handler, NEW waiting \in Client,
           Ask(u, request, waiting), request.pc = "queued"
    PROVE  TypeInv'
<1>1. /\ handler' \in [Slot -> Handler]
      /\ handler'[u] = request
      /\ \A t \in Slot \ {u} : handler'[t] = handler[t]
  BY BecomeSlot DEF Ask
<1>2. /\ reply' \in [Slot -> Seq(Answer)]
      /\ activity' \in [User -> Seq(SUBSET SeatSet)]
      /\ UNCHANGED <<dbVars, busyCount, restarts>>
  BY DEF TypeInv, TypeOK, AdminTypeOK, Ask
<1>3. /\ session' \in [User -> {"none", "open", "waiting", "closed"}]
      /\ client' \in [User -> Client]
  BY DEF TypeInv, TypeOK, Ask
<1>4. OnlyQueued
  BY <1>1 DEF OnlyQueued
<1>5. QED
  BY <1>1, <1>2, <1>3, <1>4, CallerStepType

\* A customer who leaves a screen is still a customer.
LEMMA LeaveType ==
    \A c \in Client, screen \in Screen : Leave(c, screen) \in Client
BY DEF Leave, Client, Screen, SeatSet

\* The end of a session, whoever ends it.
LEMMA EndSessionType ==
    ASSUME TypeInv, NEW u \in User, EndSession(u), client' \in [User -> Client]
    PROVE  TypeInv'
<1> DEFINE r == Request("exit")
<1>1. r \in Handler /\ r.pc = "queued" /\ Become(u, r)
  BY RequestType DEF Choice, EndSession
<1> HIDE DEF r
<1>2. /\ handler' \in [Slot -> Handler]
      /\ handler'[u] = r
      /\ \A t \in Slot \ {u} : handler'[t] = handler[t]
  BY <1>1, BecomeSlot
<1>3. /\ reply' \in [Slot -> Seq(Answer)]
      /\ activity' \in [User -> Seq(SUBSET SeatSet)]
      /\ UNCHANGED <<dbVars, busyCount, restarts>>
      /\ session' \in [User -> {"none", "open", "waiting", "closed"}]
  BY DEF TypeInv, TypeOK, AdminTypeOK, EndSession
<1>4. OnlyQueued
  BY <1>1, <1>2 DEF OnlyQueued
<1>5. QED
  BY <1>1, <1>2, <1>3, <1>4, CallerStepType

\* A step that touches neither the admin nor the listeners.
LEMMA OwnStepType ==
    ASSUME TypeInv, UNCHANGED <<dbVars, adminVars, session, restarts>>,
           client' \in [User -> Client]
    PROVE  TypeInv'
<1>1. /\ UNCHANGED <<dbVars, busyCount, restarts>>
      /\ handler' = handler
      /\ handler' \in [Slot -> Handler]
      /\ reply' \in [Slot -> Seq(Answer)]
      /\ activity' \in [User -> Seq(SUBSET SeatSet)]
      /\ session' \in [User -> {"none", "open", "waiting", "closed"}]
  BY DEF TypeInv, TypeOK, AdminTypeOK, adminVars
<1>2. OnlyQueued
  BY <1>1 DEF OnlyQueued
<1>3. QED
  BY <1>1, <1>2, CallerStepType

\* Every step of a customer keeps the types.
LEMMA CustomerType ==
    ASSUME TypeInv, NEW u \in User, Customer(u)
    PROVE  TypeInv'
<1>0. /\ client[u] \in Client
      /\ client \in [User -> Client]
      /\ session \in [User -> {"none", "open", "waiting", "closed"}]
      /\ AdminTypeOK
  BY DEF TypeInv, TypeOK
<1>1. CASE AskRooms(u)
  <2> DEFINE c == [client[u] EXCEPT !.asked = "rooms"]
             r == Request("rooms")
  <2>1. c \in Client
    BY <1>0 DEF Client, Choice
  <2>2. r \in Handler /\ r.pc = "queued"
    BY RequestType DEF Choice
  <2>3. Ask(u, r, c)
    BY <1>1 DEF AskRooms
  <2> HIDE DEF c, r
  <2>4. QED
    BY <2>1, <2>2, <2>3, AskType
<1>2. ASSUME NEW room \in RoomInput, AskSeats(u, room) PROVE TypeInv'
  <2> DEFINE c == [client[u] EXCEPT !.asked = "seats", !.room = room]
             r == [Request("seats") EXCEPT !.room = room]
  <2>1. c \in Client
    BY <1>0 DEF Client, Choice
  <2>2. r \in Handler /\ r.pc = "queued"
    <3>1. Request("seats") \in Handler /\ Request("seats").pc = "queued"
      BY RequestType DEF Choice
    <3>2. QED
      BY <3>1 DEF Handler
  <2>3. Ask(u, r, c)
    BY <1>2 DEF AskSeats
  <2> HIDE DEF c, r
  <2>4. QED
    BY <2>1, <2>2, <2>3, AskType
<1>3. ASSUME NEW seat \in SeatInput, AskSeat(u, seat) PROVE TypeInv'
  <2> DEFINE c == [client[u] EXCEPT !.asked = "select", !.seat = seat]
             r == [Request("select") EXCEPT !.seat = seat]
  <2>1. c \in Client
    BY <1>0 DEF Client, Choice
  <2>2. r \in Handler /\ r.pc = "queued"
    <3>1. Request("select") \in Handler /\ Request("select").pc = "queued"
      BY RequestType DEF Choice
    <3>2. QED
      BY <3>1 DEF Handler
  <2>3. Ask(u, r, c)
    BY <1>3 DEF AskSeat
  <2> HIDE DEF c, r
  <2>4. QED
    BY <2>1, <2>2, <2>3, AskType
<1>4. CASE AskPayment(u)
  <2> DEFINE c == [client[u] EXCEPT !.asked = "pay"]
             r == [Request("pay") EXCEPT !.list = client[u].cart]
  <2>1. c \in Client /\ client[u].cart \in Seq(Place)
    BY <1>0 DEF Client, Choice
  <2>2. r \in Handler /\ r.pc = "queued"
    <3>1. Request("pay") \in Handler /\ Request("pay").pc = "queued"
      BY RequestType DEF Choice
    <3>2. QED
      BY <2>1, <3>1 DEF Handler
  <2>3. Ask(u, r, c)
    BY <1>4 DEF AskPayment
  <2> HIDE DEF c, r
  <2>4. QED
    BY <2>1, <2>2, <2>3, AskType
<1>5. CASE GoBack(u)
  <2>1. client' \in [User -> Client]
    <3>1. CASE client' = [client EXCEPT ![u].at = "menu"]
      <4>1. [client[u] EXCEPT !.at = "menu"] \in Client
        BY <1>0 DEF Client, Screen
      <4>2. QED
        BY <1>0, <3>1, <4>1
    <3>2. CASE client' = [client EXCEPT ![u] = Leave(@, "rooms")]
      BY <1>0, <3>2, LeaveType DEF Screen
    <3>3. QED
      BY <1>5, <3>1, <3>2 DEF GoBack
  <2>2. QED
    BY <1>5, <2>1, OwnStepType DEF GoBack
<1>6. CASE Exit(u)
  <2>1. client' \in [User -> Client]
    <3>1. [client[u] EXCEPT !.at = "gone"] \in Client
      BY <1>0 DEF Client, Screen
    <3>2. QED
      BY <1>0, <1>6, <3>1 DEF Exit
  <2>2. QED
    BY <1>0, <1>6, <2>1, EndSessionType DEF Exit
<1>7. CASE NoticeClosed(u) \/ Crash(u)
  <2>1. client' \in [User -> Client]
    BY <1>0, <1>7, LeaveType DEF NoticeClosed, Crash, Screen
  <2>2. QED
    BY <1>7, <2>1, OwnStepType DEF NoticeClosed, Crash
<1>8. QED
  BY <1>1, <1>2, <1>3, <1>4, <1>5, <1>6, <1>7 DEF Customer

\* What the customer makes of an answer is a customer again.
LEMMA AfterType ==
    ASSUME NEW c \in Client, NEW answer \in Answer
    PROVE  After(c, answer) \in Client
<1> DEFINE Told(d) == [d EXCEPT !.asked = "nothing", !.seat = 0]
<1>1. \A d \in Client : Told(d) \in Client
  BY DEF Client
<1>2. AfterRooms(c, answer) \in Client
  BY DEF AfterRooms, Client, Screen
<1>3. AfterSeats(c, answer) \in Client
  <2>1. [c EXCEPT !.at = "seats", !.view = answer.taken] \in Client
    BY DEF Client, Screen, Answer
  <2>2. QED
    BY <2>1, LeaveType DEF AfterSeats, Screen
<1>4. AfterSelect(c, answer) \in Client
  <2> DEFINE p == [room |-> c.room, seat |-> c.seat]
             d == Leave(c, "menu")
  <2>1. p \in Place /\ c.cart \in Seq(Place)
    BY DEF Client, Place
  <2>2. d \in Client /\ d.cart = c.cart
    <3>1. d \in Client
      BY LeaveType DEF Screen
    <3>2. d.cart = c.cart
      BY DEF Leave, Client
    <3>3. QED
      BY <3>1, <3>2
  <2>3. Append(d.cart, p) \in Seq(Place)
    BY <2>1, <2>2
  <2> HIDE DEF p, d
  <2>4. [d EXCEPT !.cart = Append(@, p)] \in Client
    BY <2>2, <2>3 DEF Client
  <2>5. QED
    BY <2>4 DEF AfterSelect, p, d
<1>5. AfterPayment(c, answer) \in Client
  BY DEF AfterPayment, Client, Screen
<1>6. QED
  BY <1>1, <1>2, <1>3, <1>4, <1>5 DEF After
\* The cinema takes a customer in: it asks, and it forks the listener.
LEMMA TakeClientType ==
    ASSUME TypeInv, AskRegistration \/ Register
    PROVE  TypeInv'
<1>0. /\ client \in [User -> Client]
      /\ session \in [User -> {"none", "open", "waiting", "closed"}]
      /\ AdminTypeOK
  BY DEF TypeInv, TypeOK
<1>1. CASE AskRegistration
  <2> DEFINE r == Request("register")
  <2>1. r \in Handler /\ r.pc = "queued" /\ Become(Registration, r)
    BY <1>1, RequestType DEF Choice, AskRegistration
  <2> HIDE DEF r
  <2>2. /\ handler' \in [Slot -> Handler]
        /\ handler'[Registration] = r
        /\ \A t \in Slot \ {Registration} : handler'[t] = handler[t]
    BY <2>1, BecomeSlot
  <2>3. /\ users < MaxUsers
        /\ UNCHANGED <<dbVars, reply, activity, busyCount, session, client, restarts>>
    BY <1>1 DEF AskRegistration
  <2>4. OnlyQueued
    BY <2>1, <2>2, <2>3 DEF OnlyQueued
  <2>5. QED
    BY <1>0, <2>2, <2>3, <2>4, CallerStepType DEF AdminTypeOK
<1>2. CASE Register
  <2> DEFINE id == Taken(Registration).id
  <2>1. /\ reply' \in [Slot -> Seq(Answer)]
        /\ Taken(Registration) \in Answer
    BY <1>0, <1>2 DEF Register, TakeReply, Taken, Answered, AdminTypeOK
  <2>2. /\ id \in Slot
        /\ session' = IF id = 0 THEN session ELSE [session EXCEPT ![id] = "open"]
        /\ client' = IF id = 0 THEN client ELSE [client EXCEPT ![id].at = "menu"]
    BY <1>2, <2>1 DEF Register, Answer
  <2> HIDE DEF id
  <2>3. session' \in [User -> {"none", "open", "waiting", "closed"}]
    BY <1>0, <2>2
  <2>4. client' \in [User -> Client]
    <3>1. \A v \in User : [client[v] EXCEPT !.at = "menu"] \in Client
      BY <1>0 DEF Client, Screen
    <3>2. QED
      BY <1>0, <2>2, <3>1
  <2>5. UNCHANGED <<dbVars, handler, activity, busyCount, restarts>>
    BY <1>2 DEF Register
  <2>6. OnlyQueued
    BY <2>5 DEF OnlyQueued
  <2>7. QED
    BY <1>0, <2>1, <2>3, <2>4, <2>5, <2>6, CallerStepType DEF AdminTypeOK
<1>3. QED
  BY <1>1, <1>2

\* A listener that passes an answer on.
LEMMA ReceiveType ==
    ASSUME TypeInv, NEW u \in User, Receive(u)
    PROVE  TypeInv'
<1>0. /\ client \in [User -> Client]
      /\ session \in [User -> {"none", "open", "waiting", "closed"}]
      /\ AdminTypeOK
  BY DEF TypeInv, TypeOK
<1>1. /\ reply' \in [Slot -> Seq(Answer)]
      /\ Taken(u) \in Answer
  BY <1>0 DEF Receive, TakeReply, Taken, Answered, AdminTypeOK
<1>2. client' \in [User -> Client]
  <2>1. After(client[u], Taken(u)) \in Client
    BY <1>0, <1>1, AfterType
  <2>2. QED
    BY <1>0, <2>1 DEF Receive
<1>3. /\ session' \in [User -> {"none", "open", "waiting", "closed"}]
      /\ UNCHANGED <<dbVars, handler, activity, busyCount, restarts>>
  BY <1>0 DEF Receive
<1>4. OnlyQueued
  BY <1>3 DEF OnlyQueued
<1>5. QED
  BY <1>0, <1>1, <1>2, <1>3, <1>4, CallerStepType DEF AdminTypeOK

\* An update that reaches a customer.
LEMMA DeliverType ==
    ASSUME TypeInv, NEW u \in User, Deliver(u)
    PROVE  TypeInv'
<1>0. /\ client \in [User -> Client]
      /\ session \in [User -> {"none", "open", "waiting", "closed"}]
      /\ AdminTypeOK
  BY DEF TypeInv, TypeOK
<1>1. /\ activity' \in [User -> Seq(SUBSET SeatSet)]
      /\ Head(activity[u]) \in SUBSET SeatSet
  BY <1>0 DEF Deliver, AdminTypeOK
<1>2. client' \in [User -> Client]
  <2> DEFINE view == IF client[u].at = "seats" THEN Head(activity[u]) ELSE client[u].view
  <2>1. view \in SUBSET SeatSet
    BY <1>0, <1>1 DEF Client
  <2>2. client' = [client EXCEPT ![u].view = view]
    BY DEF Deliver
  <2> HIDE DEF view
  <2>3. [client[u] EXCEPT !.view = view] \in Client
    BY <1>0, <2>1, ZenonT(60) DEF Client
  <2>4. QED
    BY <1>0, <2>2, <2>3
<1>3. UNCHANGED <<dbVars, handler, reply, busyCount, session, restarts>>
  BY DEF Deliver
<1>4. OnlyQueued
  BY <1>3 DEF OnlyQueued
<1>5. QED
  BY <1>0, <1>1, <1>2, <1>3, <1>4, CallerStepType DEF AdminTypeOK

\* A restart.
LEMMA RestartType ==
    ASSUME TypeInv, Restart
    PROVE  TypeInv'
<1>0. /\ client \in [User -> Client]
      /\ DbTypeOK /\ AdminTypeOK /\ restarts \in 0..MaxRestarts
  BY DEF TypeInv, TypeOK
<1>1. DbTypeOK'
  BY <1>0 DEF Restart, clean_db_tables, db_remove_unpaid_reservations,
              db_remove_users_in_room, DbTypeOK
<1>2. AdminTypeOK'
  BY <1>0, IdleType DEF Restart, AdminTypeOK
<1>3. client' \in [User -> Client]
  <2>1. \A c \in Client : [Leave(c, "gone") EXCEPT !.asked = "nothing"] \in Client
    <3>1. \A d \in Client : [d EXCEPT !.asked = "nothing"] \in Client
      BY DEF Client
    <3>2. QED
      BY <3>1, LeaveType DEF Screen
  <2>2. QED
    BY <1>0, <2>1 DEF Restart
<1>4. /\ session' \in [User -> {"none", "open", "waiting", "closed"}]
      /\ restarts' \in 0..MaxRestarts
  BY <1>0 DEF Restart
<1>5. RegistrationBounded' /\ RoomKnown'
  BY DEF Restart, RegistrationBounded, RoomKnown, Idle
<1>6. QED
  BY <1>1, <1>2, <1>3, <1>4, <1>5 DEF TypeInv, TypeOK

\* The first state has the types.
LEMMA InitType == ASSUME Init PROVE TypeInv
<1>1. DbTypeOK
  BY DEF Init, DbInit, DbTypeOK
<1>2. AdminTypeOK
  BY IdleType DEF Init, AdminInit, AdminTypeOK
<1>3. Stranger \in Client
  BY DEF Stranger, Client, Screen
<1>4. RegistrationBounded /\ RoomKnown
  BY DEF Init, AdminInit, RegistrationBounded, RoomKnown, Idle
<1>5. QED
  BY <1>1, <1>2, <1>3, <1>4 DEF Init, TypeInv, TypeOK

\* Every step keeps the types.
LEMMA StepType == ASSUME TypeInv, [Next]_vars PROVE TypeInv'
<1>1. CASE AskRegistration \/ Register
  BY <1>1, TakeClientType
<1>2. CASE Restart
  BY <1>2, RestartType
<1>3. ASSUME NEW s \in Slot, AdminStep(s) PROVE TypeInv'
  BY <1>3, AdminStepType
<1>4. ASSUME NEW u \in User, Customer(u) PROVE TypeInv'
  BY <1>4, CustomerType
<1>5. ASSUME NEW u \in User, Receive(u) PROVE TypeInv'
  BY <1>5, ReceiveType
<1>6. ASSUME NEW u \in User, Timeout(u) PROVE TypeInv'
  BY <1>6, EndSessionType DEF Timeout, TypeInv, TypeOK
<1>7. ASSUME NEW u \in User, Deliver(u) PROVE TypeInv'
  BY <1>7, DeliverType
<1>8. CASE UNCHANGED vars
  BY <1>8 DEF vars, dbVars, adminVars, TypeInv, TypeOK, DbTypeOK, AdminTypeOK,
              RegistrationBounded, RoomKnown
<1>9. QED
  BY <1>1, <1>2, <1>3, <1>4, <1>5, <1>6, <1>7, <1>8 DEF Next

\* The inductive invariant behind the types holds in every state.
LEMMA TypesHold == Spec => []TypeInv
<1>1. Init => TypeInv
  BY InitType
<1>2. TypeInv /\ [Next]_vars => TypeInv'
  BY StepType
<1>3. QED
  BY <1>1, <1>2, PTL DEF Spec

\* Whatever the rooms, the customers, their inputs and the refusals, every
\* variable keeps its type: above all, no reservation is ever written for a
\* room that does not exist or a seat below 1 (admin.cpp:99-106), and no id is
\* given that the table of users does not have.
THEOREM TypeCorrect == Spec => []TypeOK
BY TypesHold, PTL DEF TypeInv

---------------------------------------------------------------------------
(* The table of reservations.  Five statements write it, and every step of *)
(* the system is one of them or leaves the table alone.                    *)

Inserts(u) == /\ At(u, "insert")
              /\ SeatIsFree(handler[u].room, handler[u].seat)
              /\ db_insert_reservation(u, handler[u].room, handler[u].seat)

Pays(u) == /\ At(u, "pay")
           /\ handler[u].list # <<>>
           /\ db_update_paid_reservation(u, Head(handler[u].list), FALSE)

Releases(u) == /\ At(u, "release")
               /\ db_remove_user_unpaid_reservations(u, FALSE)

ReservationStep == \/ UNCHANGED reservations
                   \/ \E u \in User : Inserts(u) \/ Pays(u) \/ Releases(u)
                   \/ Restart

\* The admin's steps for one customer, seen from the table.
LEMMA AnswerUserTable ==
    ASSUME NEW u \in User, NEW busy \in BOOLEAN, AnswerUser(u, busy)
    PROVE  UNCHANGED reservations \/ Inserts(u) \/ Pays(u) \/ Releases(u)
<1>1. CASE ListRooms(u, busy) \/ SeatMapUnknown(u, busy) \/ SeatMap(u, busy)
  BY <1>1 DEF ListRooms, SeatMapUnknown, SeatMap, dbVars
<1>2. CASE EnterRoom(u, busy) \/ LogoutUser(u, busy)
  BY <1>2 DEF EnterRoom, LogoutUser
<1>3. CASE AnswerSelect(u, busy)
  <2>1. CASE InsertReservation(u, busy)
    BY <2>1 DEF InsertReservation, Inserts
  <2>2. CASE ~ InsertReservation(u, busy)
    BY <1>3, <2>2 DEF AnswerSelect, CurrentRoom, LeaveRoom, Viewers, Snapshot,
                      LeaveRoomAgain, dbVars
  <2>3. QED
    BY <2>1, <2>2
<1>4. CASE PayReservation(u, busy)
  <2>1. CASE busy
    BY <1>4, <2>1 DEF PayReservation, db_update_paid_reservation
  <2>2. CASE ~ busy
    <3>1. busy = FALSE
      BY <2>2
    <3>2. QED
      BY <1>4, <3>1 DEF PayReservation, Pays
  <2>3. QED
    BY <2>1, <2>2
<1>5. CASE ReleaseSeats(u, busy)
  <2>1. CASE busy
    BY <1>5, <2>1 DEF ReleaseSeats, db_remove_user_unpaid_reservations
  <2>2. CASE ~ busy
    <3>1. busy = FALSE
      BY <2>2
    <3>2. QED
      BY <1>5, <3>1 DEF ReleaseSeats, Releases
  <2>3. QED
    BY <2>1, <2>2
<1>6. QED
  BY <1>1, <1>2, <1>3, <1>4, <1>5 DEF AnswerUser

\* The same of every step of the system.
LEMMA NextTable == ASSUME [Next]_vars PROVE ReservationStep
<1>1. CASE AskRegistration \/ Register \/ Restart
  BY <1>1 DEF AskRegistration, Register, ReservationStep, dbVars
<1>2. ASSUME NEW s \in Slot, AdminStep(s) PROVE ReservationStep
  <2>1. CASE admin_listen_requests(s) \/ Notify(s) \/ PaymentDone(s)
    BY <2>1 DEF admin_listen_requests, Notify, PaymentDone, dbVars, ReservationStep
  <2>2. ASSUME NEW busy \in BOOLEAN, AnswerRegistration(busy) PROVE ReservationStep
    BY <2>2 DEF AnswerRegistration, InsertUser, LoginUser, ReservationStep
  <2>3. ASSUME NEW busy \in BOOLEAN, s \in User, AnswerUser(s, busy)
        PROVE  ReservationStep
    BY <2>3, AnswerUserTable DEF ReservationStep
  <2>4. QED
    BY <1>2, <2>1, <2>2, <2>3 DEF AdminStep, admin_handle_request
<1>3. ASSUME NEW u \in User, Customer(u) \/ Receive(u) \/ Timeout(u) \/ Deliver(u)
      PROVE  UNCHANGED reservations
  BY <1>3 DEF Customer, AskRooms, AskSeats, AskSeat, AskPayment, Ask, GoBack, Exit,
              NoticeClosed, Crash, Receive, Timeout, EndSession, Deliver, dbVars
<1>4. CASE UNCHANGED vars
  BY <1>4 DEF vars, dbVars, ReservationStep
<1>5. QED
  BY <1>1, <1>2, <1>3, <1>4 DEF Next, ReservationStep

\* A statement that writes the table keeps it a table with one row per seat.
LEMMA OneRowPerSeat ==
    ASSUME TypeInv, NoDoubleBooking, ReservationStep
    PROVE  NoDoubleBooking'
<1>1. CASE UNCHANGED reservations
  BY <1>1 DEF NoDoubleBooking
<1>2. ASSUME NEW u \in User, Inserts(u) PROVE NoDoubleBooking'
  <2> DEFINE row == [user |-> u, room |-> handler[u].room,
                     seat |-> handler[u].seat, paid |-> FALSE]
  <2>1. reservations' = reservations \cup {row}
    BY <1>2 DEF Inserts, db_insert_reservation
  <2>2. \A a \in reservations : ~ (a.room = row.room /\ a.seat = row.seat)
    BY <1>2 DEF Inserts, SeatIsFree
  <2> HIDE DEF row
  <2>3. QED
    BY <2>1, <2>2 DEF NoDoubleBooking
<1>3. ASSUME NEW u \in User, Pays(u) PROVE NoDoubleBooking'
  <2> DEFINE place == Head(handler[u].list)
             paid(r) == PaidRow(r, u, place)
  <2>1. reservations' = {paid(r) : r \in reservations}
    BY <1>3 DEF Pays, db_update_paid_reservation
  <2>2. \A r \in reservations : paid(r).room = r.room /\ paid(r).seat = r.seat
    BY DEF PaidRow, TypeInv, TypeOK, DbTypeOK, Reservation
  <2> HIDE DEF paid
  <2>3. ASSUME NEW a \in reservations', NEW b \in reservations',
               a.room = b.room, a.seat = b.seat
        PROVE  a = b
    <3>1. PICK p \in reservations : a = paid(p)
      BY <2>1
    <3>2. PICK q \in reservations : b = paid(q)
      BY <2>1
    <3>3. p.room = q.room /\ p.seat = q.seat
      BY <2>2, <2>3, <3>1, <3>2
    <3>4. p = q
      BY <3>3 DEF NoDoubleBooking
    <3>5. QED
      BY <3>1, <3>2, <3>4
  <2>4. QED
    BY <2>3 DEF NoDoubleBooking
<1>4. ASSUME NEW u \in User, Releases(u) PROVE NoDoubleBooking'
  BY <1>4 DEF Releases, db_remove_user_unpaid_reservations, NoDoubleBooking
<1>5. CASE Restart
  BY <1>5 DEF Restart, clean_db_tables, db_remove_unpaid_reservations, NoDoubleBooking
<1>6. QED
  BY <1>1, <1>2, <1>3, <1>4, <1>5 DEF ReservationStep

\* No statement removes or changes a paid row.
LEMMA PaidRowsStay ==
    ASSUME TypeInv, ReservationStep, NEW row \in reservations, row.paid
    PROVE  row \in reservations'
<1>1. CASE UNCHANGED reservations
  BY <1>1
<1>2. ASSUME NEW u \in User, Inserts(u) PROVE row \in reservations'
  BY <1>2 DEF Inserts, db_insert_reservation
<1>3. ASSUME NEW u \in User, Pays(u) PROVE row \in reservations'
  <2> DEFINE place == Head(handler[u].list)
  <2>1. PaidRow(row, u, place) = row
    <3>1. row \in Reservation
      BY DEF TypeInv, TypeOK, DbTypeOK
    <3>2. [row EXCEPT !.paid = TRUE] = row
      BY <3>1 DEF Reservation
    <3>3. QED
      BY <3>2 DEF PaidRow
  <2>2. QED
    BY <1>3, <2>1 DEF Pays, db_update_paid_reservation
<1>4. ASSUME NEW u \in User, Releases(u) PROVE row \in reservations'
  BY <1>4 DEF Releases, db_remove_user_unpaid_reservations
<1>5. CASE Restart
  BY <1>5 DEF Restart, clean_db_tables, db_remove_unpaid_reservations
<1>6. QED
  BY <1>1, <1>2, <1>3, <1>4, <1>5 DEF ReservationStep

\* A seat of a room belongs to one customer at most, in every reachable state,
\* for every number of rooms, seats, customers and concurrent handlers: the
\* primary key of Reservations (db_api.cpp:55) decides, and no other
\* statement changes the seat of a row.
THEOREM NoDoubleBookingHolds == Spec => []NoDoubleBooking
<1>1. Init => NoDoubleBooking
  BY DEF Init, DbInit, NoDoubleBooking
<1>2. TypeInv /\ NoDoubleBooking /\ [Next]_vars => NoDoubleBooking'
  BY NextTable, OneRowPerSeat
<1>3. QED
  BY <1>1, <1>2, TypesHold, PTL DEF Spec

\* A paid reservation is never lost and never changes hands, whatever happens
\* to its customer, to the others or to the cinema (README.md:9): the
\* statements that delete rows both ask for paid_flag = 0
\* (db_api.cpp, db_remove_user_unpaid_reservations and
\* db_remove_unpaid_reservations).
THEOREM PaidIsFinalHolds == Spec => PaidIsFinal
<1>1. TypeInv /\ [Next]_vars =>
          [\A row \in reservations : row.paid => row \in reservations']_vars
  BY NextTable, PaidRowsStay
<1>2. QED
  BY <1>1, TypesHold, PTL DEF Spec, PaidIsFinal
=============================================================================
