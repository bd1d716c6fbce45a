------------------------------ MODULE Database ------------------------------
(***************************************************************************)
(* The SQLite database of the cinema (src/src/db/db_api.cpp).  A table is  *)
(* a variable, a function db_* that writes is an action on one table.      *)
(* Every function runs one SQL statement, and SQLite makes one statement   *)
(* atomic.  The program installs no busy handler, so a statement that      *)
(* meets another process's lock is not executed at all: that is the        *)
(* parameter "busy".  Rooms and Seats are written only by                  *)
(* database_data_init, before the cinema runs, and are constants.          *)
(***************************************************************************)
EXTENDS Integers

CONSTANTS SeatCount,   \* room -> number of seats: the rows of Rooms and Seats
          MaxUsers     \* bound on the rows of Users

Room    == DOMAIN SeatCount
User    == 1..MaxUsers
SeatsOf(room) == 1..SeatCount[room]

ASSUME SeatCountAssumption == /\ Room \subseteq Nat \ {0}
                              /\ SeatCount \in [Room -> Nat \ {0}]
ASSUME MaxUsersAssumption == MaxUsers \in Nat

VARIABLES users,         \* AUTOINCREMENT counter of Users
          active,        \* rows of Active_clients
          reservations,  \* rows of Reservations
          clientsRooms   \* rows of Clients_rooms

dbVars == <<users, active, reservations, clientsRooms>>

Reservation == [user : User, room : Room, seat : Nat \ {0}, paid : BOOLEAN]
Visit       == [user : User, room : Room]

DbTypeOK == /\ users \in 0..MaxUsers
            /\ active \subseteq 0..MaxUsers
            /\ reservations \subseteq Reservation
            /\ clientsRooms \subseteq Visit

DbInit == /\ users = 0
          /\ active = {}
          /\ reservations = {}
          /\ clientsRooms = {}

---------------------------------------------------------------------------
(* Queries *)

db_select_reservations(room) ==
    {row.seat : row \in {r \in reservations : r.room = room}}

db_select_users_in_room(room) ==
    {visit.user : visit \in {v \in clientsRooms : v.room = room}}

\* Every row the query of db_select_user_current_room returns; the function
\* itself is "any of them", and undefined when there is none.
RoomsOfUser(user) ==
    {visit.room : visit \in {v \in clientsRooms : v.user = user}}

---------------------------------------------------------------------------
(* Statements *)

\* The id the new row would get, 0 when the insert is refused:
\* sqlite3_last_insert_rowid of a connection that never inserted.
InsertedUser(busy) == IF busy THEN 0 ELSE users + 1

db_insert_user(busy) == users' = IF busy THEN users ELSE users + 1

db_login_user(user, busy) ==
    active' = IF busy THEN active ELSE active \cup {user}

db_logout_user(user, busy) ==
    active' = IF busy THEN active ELSE active \ {user}

\* Mutants of SeatIsFree: no primary key, and no test on the number.
AnyPositiveSeat(room, seat) == seat > 0
AnySeatNumber(room, seat) ==
    \A row \in reservations : ~ (row.room = room /\ row.seat = seat)

\* The primary key (room_id, seat_id) and the test on the seat number.
\* PRAGMA foreign_key is not a pragma of SQLite (foreign_keys is), so the
\* references to Seats, Users and Rooms are not enforced.
SeatIsFree(room, seat) ==
    /\ seat > 0
    /\ \A row \in reservations : ~ (row.room = room /\ row.seat = seat)

db_insert_reservation(user, room, seat) ==
    reservations' = reservations \cup
        {[user |-> user, room |-> room, seat |-> seat, paid |-> FALSE]}

\* Mutant of PaidRow: WHERE user_id only.
PaidRowOfUser(row, user, place) ==
    IF row.user = user THEN [row EXCEPT !.paid = TRUE] ELSE row

\* The row after the UPDATE of db_update_paid_reservation.
PaidRow(row, user, place) ==
    IF row.user = user /\ row.room = place.room /\ row.seat = place.seat
    THEN [row EXCEPT !.paid = TRUE]
    ELSE row

db_update_paid_reservation(user, place, busy) ==
    reservations' = IF busy THEN reservations
                    ELSE {PaidRow(row, user, place) : row \in reservations}

\* Mutants of db_remove_user_unpaid_reservations: without the test on
\* paid_flag, without the one on user_id, and forgotten altogether.
RemoveReservations(user, busy) ==
    reservations' = {row \in reservations : busy \/ row.user # user}
RemoveUnpaid(user, busy) ==
    reservations' = {row \in reservations : busy \/ row.paid}
RemoveNothing(user, busy) == reservations' = reservations

db_remove_user_unpaid_reservations(user, busy) ==
    reservations' = {row \in reservations : busy \/ row.user # user \/ row.paid}

db_remove_unpaid_reservations == reservations' = {row \in reservations : row.paid}

db_insert_user_in_room(user, room, busy) ==
    clientsRooms' = IF busy THEN clientsRooms
                    ELSE clientsRooms \cup {[user |-> user, room |-> room]}

\* Mutant of db_remove_user_in_room: without the WHERE clause.
RemoveEveryVisit(user, busy) ==
    clientsRooms' = {visit \in clientsRooms : busy}

db_remove_user_in_room(user, busy) ==
    clientsRooms' = {visit \in clientsRooms : busy \/ visit.user # user}

db_remove_users_in_room == clientsRooms' = {}
=============================================================================
