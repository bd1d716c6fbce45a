-------------------------- MODULE RefinementProofs --------------------------
(***************************************************************************)
(* Proof that BoxOffice implements SeatBooking: every statement, message   *)
(* and fault of the system is a step of the promise about seats or changes *)
(* nothing there.                                                          *)
(***************************************************************************)
EXTENDS ProtocolProofs

USE SeatCountAssumption, MaxUsersAssumption, InputAssumption,
    MaxBusyAssumption, MaxRestartsAssumption
USE DEF Registration, Slot, User

---------------------------------------------------------------------------
(* The refinement mapping, by name *)

Pairs(rows) == {BookedPlace(row) : row \in rows}
HeldPairs == Pairs({row \in reservations : ~ row.paid})
SoldPairs == Pairs({row \in reservations : row.paid})
Service(s) == CASE s = "none" -> "new" [] s = "closed" -> "left" [] OTHER -> "in"
Customers == [u \in User |-> Service(session[u])]
Places == [room : Room, seat : {s \in SeatInput : s > 0}]

\* What the mapping sees of the table.
LEMMA MappingUnchanged ==
    ASSUME UNCHANGED reservations
    PROVE  UNCHANGED <<HeldPairs, SoldPairs>>
BY DEF HeldPairs, SoldPairs, Pairs

\* A pair names its row.
LEMMA PairsOf ==
    ASSUME NEW a, NEW b, BookedPlace(a) = BookedPlace(b)
    PROVE  a.user = b.user /\ a.room = b.room /\ a.seat = b.seat
BY DEF BookedPlace

---------------------------------------------------------------------------
(* The statements that write reservations *)

\* INSERT takes a free seat.
LEMMA InsertHolds ==
    ASSUME TypeInv, NEW u \in User, Inserts(u)
    PROVE  \E p \in Places : /\ \A v \in User : <<v, p>> \notin HeldPairs \cup SoldPairs
                             /\ HeldPairs' = HeldPairs \cup {<<u, p>>}
                             /\ SoldPairs' = SoldPairs
<1> DEFINE p == [room |-> handler[u].room, seat |-> handler[u].seat]
           new == [user |-> u, room |-> handler[u].room, seat |-> handler[u].seat,
                   paid |-> FALSE]
<1>1. p \in Places
  <2>1. handler[u] \in Handler /\ handler[u].room \in Room
    BY DEF TypeInv, TypeOK, AdminTypeOK, RoomKnown, Inserts, At
  <2>2. handler[u].seat \in SeatInput /\ handler[u].seat > 0
    BY <2>1 DEF Handler, Inserts, SeatIsFree
  <2>3. QED
    BY <2>1, <2>2 DEF Places
<1>2. BookedPlace(new) = <<u, p>> /\ new.paid = FALSE
  BY DEF BookedPlace
<1>3. reservations' = reservations \cup {new}
  BY DEF Inserts, db_insert_reservation
<1>4. \A row \in reservations : ~ (row.room = p.room /\ row.seat = p.seat)
  BY DEF Inserts, SeatIsFree
<1> HIDE DEF new
<1>5. \A v \in User : <<v, p>> \notin HeldPairs \cup SoldPairs
  <2> SUFFICES ASSUME NEW v \in User, NEW row \in reservations, BookedPlace(row) = <<v, p>>
               PROVE  FALSE
    BY DEF HeldPairs, SoldPairs, Pairs
  <2>1. row.room = p.room /\ row.seat = p.seat
    BY DEF BookedPlace
  <2>2. QED
    BY <1>4, <2>1
<1> HIDE DEF p
<1>6. HeldPairs' = HeldPairs \cup {<<u, p>>}
  <2>1. {row \in reservations' : ~ row.paid} = {row \in reservations : ~ row.paid} \cup {new}
    BY <1>2, <1>3
  <2>2. QED
    BY <1>2, <2>1 DEF HeldPairs, Pairs
<1>7. SoldPairs' = SoldPairs
  <2>1. {row \in reservations' : row.paid} = {row \in reservations : row.paid}
    BY <1>2, <1>3
  <2>2. QED
    BY <2>1 DEF SoldPairs, Pairs
<1>8. QED
  BY <1>1, <1>5, <1>6, <1>7

\* UPDATE sells a seat to its holder, or changes nothing.
LEMMA PaySells ==
    ASSUME TypeInv, NoDoubleBooking, NEW u \in User, Pays(u)
    PROVE  \/ UNCHANGED reservations
           \/ \E p \in Places : /\ <<u, p>> \in HeldPairs
                                /\ HeldPairs' = HeldPairs \ {<<u, p>>}
                                /\ SoldPairs' = SoldPairs \cup {<<u, p>>}
<1> DEFINE place == Head(handler[u].list)
           hit(row) == row.user = u /\ row.room = place.room /\ row.seat = place.seat
           paid(row) == PaidRow(row, u, place)
<1>1. reservations' = {paid(row) : row \in reservations}
  BY DEF Pays, db_update_paid_reservation
<1>2. \A row \in reservations : row \in Reservation
  BY DEF TypeInv, TypeOK, DbTypeOK
<1>3. \A row \in reservations : ~ hit(row) \/ row.paid => paid(row) = row
  BY <1>2 DEF PaidRow, Reservation
<1>4. CASE \A row \in reservations : ~ hit(row) \/ row.paid
  BY <1>1, <1>3, <1>4
<1>5. CASE \E row \in reservations : hit(row) /\ ~ row.paid
  <2>1. PICK row \in reservations : hit(row) /\ ~ row.paid
    BY <1>5
  <2> DEFINE new == paid(row)
             p == [room |-> row.room, seat |-> row.seat]
  <2>2. new.user = u /\ new.room = row.room /\ new.seat = row.seat /\ new.paid = TRUE
    BY <1>2, <2>1 DEF PaidRow, Reservation
  <2>3. \A other \in reservations \ {row} : ~ hit(other)
    BY <2>1 DEF NoDoubleBooking
  <2>4. \A other \in reservations \ {row} : paid(other) = other
    BY <1>3, <2>3
  <2> HIDE DEF paid, hit
  <2>5. reservations' = (reservations \ {row}) \cup {new}
    BY <1>1, <2>4
  <2>6. BookedPlace(row) = <<u, p>> /\ BookedPlace(new) = <<u, p>>
    BY <2>1, <2>2 DEF BookedPlace, hit
  <2>7. \A other \in reservations \ {row} : BookedPlace(other) # <<u, p>>
    <3>1. \A other \in reservations \ {row} : ~ (other.room = row.room /\ other.seat = row.seat)
      BY DEF NoDoubleBooking
    <3>2. QED
      BY <3>1 DEF BookedPlace
  <2>8. p \in Places
    <3>1. row.room \in Room /\ row.seat \in Nat \ {0}
      BY <1>2 DEF Reservation
    <3>2. row.seat \in SeatInput
      <4>1. handler[u].list \in Seq(Place) /\ handler[u].list # <<>>
        BY DEF TypeInv, TypeOK, AdminTypeOK, Handler, Pays
      <4>2. place \in Place
        BY <4>1
      <4>3. row.seat = place.seat
        BY <2>1 DEF hit
      <4>4. QED
        BY <3>1, <4>2, <4>3 DEF Place
    <3>3. QED
      BY <3>1, <3>2 DEF Places
  <2> HIDE DEF new, p
  <2>9. {r \in reservations' : ~ r.paid} = {r \in reservations : ~ r.paid} \ {row}
    BY <2>1, <2>2, <2>5
  <2>10. {r \in reservations' : r.paid} = {r \in reservations : r.paid} \cup {new}
    BY <2>1, <2>2, <2>5
  <2>11. HeldPairs' = HeldPairs \ {<<u, p>>}
    BY <2>6, <2>7, <2>9 DEF HeldPairs, Pairs
  <2>12. SoldPairs' = SoldPairs \cup {<<u, p>>}
    BY <2>6, <2>10 DEF SoldPairs, Pairs
  <2>13. <<u, p>> \in HeldPairs
    BY <2>1, <2>6 DEF HeldPairs, Pairs
  <2>14. QED
    BY <2>8, <2>11, <2>12, <2>13
<1>6. QED
  BY <1>4, <1>5

\* DELETE of an EXIT gives back what its customer holds.
LEMMA ReleaseGivesBack ==
    ASSUME NEW u \in User, Releases(u)
    PROVE  /\ HeldPairs' = {h \in HeldPairs : h[1] # u}
           /\ SoldPairs' = SoldPairs
<1>1. reservations' = {row \in reservations : row.user # u \/ row.paid}
  BY DEF Releases, db_remove_user_unpaid_reservations
<1>2. {r \in reservations' : ~ r.paid} = {r \in reservations : ~ r.paid /\ r.user # u}
  BY <1>1
<1>3. {r \in reservations' : r.paid} = {r \in reservations : r.paid}
  BY <1>1
<1>4. \A row : BookedPlace(row)[1] = row.user
  BY DEF BookedPlace
<1>5. QED
  BY <1>2, <1>3, <1>4 DEF HeldPairs, SoldPairs, Pairs
---------------------------------------------------------------------------
(* The rest of the steps, and the refinement *)

\* A session that begins, ends, or goes on, as SeatBooking sees it.
LEMMA ServiceChange ==
    ASSUME TypeInv, NEW u \in User, NEW s, session' = [session EXCEPT ![u] = s]
    PROVE  Customers' = [Customers EXCEPT ![u] = Service(s)]
BY DEF Customers, TypeInv, TypeOK

\* A listener that goes from one customer's message to the admin's answer, or
\* back, is in service all the time.
LEMMA ServiceGoesOn ==
    ASSUME TypeInv, NEW u \in User, session[u] \in {"open", "waiting"},
           NEW s \in {"open", "waiting"}, session' = [session EXCEPT ![u] = s]
    PROVE  Customers' = Customers
BY DEF Customers, Service, TypeInv, TypeOK

\* A handler that inserts or pays works for a customer in service; one that
\* releases, for a customer who left.
LEMMA ServiceOf ==
    ASSUME TypeInv, ProtocolInv, NEW u \in User
    PROVE  /\ handler[u].pc \in {"insert", "pay"} => Customers[u] = "in"
           /\ handler[u].pc = "release" => Customers[u] = "left"
<1>1. InStep(u) /\ session[u] \in {"none", "open", "waiting", "closed"}
  BY DEF ProtocolInv, TypeInv, TypeOK
<1>2. handler[u].pc \in {"insert", "pay"} => session[u] = "waiting"
  BY <1>1 DEF InStep, Leaving, Idle
<1>3. handler[u].pc = "release" => session[u] = "closed"
  BY <1>1 DEF InStep, Served, Serves, Told, Idle
<1>4. QED
  BY <1>2, <1>3 DEF Customers, Service

\* The admin's steps in SeatBooking: a statement that writes reservations, or none.
LEMMA AdminRefines ==
    ASSUME TypeInv, ProtocolInv, NoDoubleBooking, NEW s \in Slot, AdminStep(s)
    PROVE  /\ Customers' = Customers
           /\ \/ UNCHANGED reservations
              \/ s \in User /\ (Inserts(s) \/ Pays(s) \/ Releases(s))
<1>1. Customers' = Customers
  BY DEF AdminStep, Customers
<1>2. CASE admin_listen_requests(s) \/ Notify(s) \/ PaymentDone(s)
  BY <1>1, <1>2 DEF admin_listen_requests, Notify, PaymentDone, dbVars
<1>3. ASSUME NEW busy \in BOOLEAN, AnswerRegistration(busy)
      PROVE  UNCHANGED reservations
  BY <1>3 DEF AnswerRegistration, InsertUser, LoginUser
<1>4. QED
  BY <1>1, <1>2, <1>3, AnswerUserTable DEF AdminStep, admin_handle_request

\* The first state is the first state of SeatBooking.
LEMMA BookingInit == Init => Booking!Init
BY DEF Init, DbInit, Booking!Init

\* Every step is a step of SeatBooking or changes nothing there.
LEMMA BookingStep ==
    ASSUME TypeInv, ProtocolInv, NoDoubleBooking, [Next]_vars
    PROVE  [Booking!Next]_(Booking!vars)
<1> DEFINE Stutters == UNCHANGED <<HeldPairs, SoldPairs, Customers>>
<1>a. Stutters => UNCHANGED Booking!vars
  BY DEF Booking!vars, HeldPairs, SoldPairs, Pairs, Customers, Service
<1>1. ASSUME NEW s \in Slot, AdminStep(s) PROVE [Booking!Next]_(Booking!vars)
  <2>1. /\ Customers' = Customers
        /\ \/ UNCHANGED reservations
           \/ s \in User /\ (Inserts(s) \/ Pays(s) \/ Releases(s))
    BY <1>1, AdminRefines
  <2>2. CASE UNCHANGED reservations
    BY <1>a, <2>1, <2>2, MappingUnchanged
  <2>3. CASE s \in User /\ Inserts(s)
    <3>1. Customers[s] = "in"
      BY <2>3, ServiceOf DEF Inserts, At
    <3>2. PICK p \in Places : /\ \A v \in User : <<v, p>> \notin HeldPairs \cup SoldPairs
                              /\ HeldPairs' = HeldPairs \cup {<<s, p>>}
                              /\ SoldPairs' = SoldPairs
      BY <2>3, InsertHolds
    <3>3. Booking!Hold(s, p)
      BY <2>1, <3>1, <3>2 DEF Booking!Hold, HeldPairs, SoldPairs, Pairs, Customers, Service
    <3>4. QED
      BY <2>3, <3>2, <3>3 DEF Booking!Next, Places
  <2>4. CASE s \in User /\ Pays(s)
    <3>1. Customers[s] = "in"
      BY <2>4, ServiceOf DEF Pays, At
    <3>2. CASE \E p \in Places : /\ <<s, p>> \in HeldPairs
                                 /\ HeldPairs' = HeldPairs \ {<<s, p>>}
                                 /\ SoldPairs' = SoldPairs \cup {<<s, p>>}
      <4>1. PICK p \in Places : /\ <<s, p>> \in HeldPairs
                                /\ HeldPairs' = HeldPairs \ {<<s, p>>}
                                /\ SoldPairs' = SoldPairs \cup {<<s, p>>}
        BY <3>2
      <4>2. Booking!Sell(s, p)
        BY <2>1, <3>1, <4>1 DEF Booking!Sell, HeldPairs, SoldPairs, Pairs, Customers, Service
      <4>3. QED
        BY <2>4, <4>1, <4>2 DEF Booking!Next, Places
    <3>3. QED
      BY <2>2, <2>4, <3>2, PaySells
  <2>5. CASE s \in User /\ Releases(s)
    <3>1. Customers[s] = "left"
      BY <2>5, ServiceOf DEF Releases, At
    <3>2. /\ HeldPairs' = {h \in HeldPairs : h[1] # s}
          /\ SoldPairs' = SoldPairs
      BY <2>5, ReleaseGivesBack
    <3>3. Booking!Release(s)
      BY <2>1, <3>1, <3>2 DEF Booking!Release, HeldPairs, SoldPairs, Pairs, Customers, Service
    <3>4. QED
      BY <2>5, <3>3 DEF Booking!Next
  <2>6. QED
    BY <2>1, <2>2, <2>3, <2>4, <2>5
<1>2. CASE Register
  <2> DEFINE id == Taken(Registration).id
  <2>1. Fresh(id) /\ id \in Slot
    <3>1. PICK a \in Answer : reply[Registration] = <<a>> /\ Fresh(a.id)
      BY <1>2 DEF Register, Answered, ProtocolInv, RegistrationInStep
    <3>2. QED
      BY <3>1 DEF Taken, Answer
  <2>2. /\ session' = IF id = 0 THEN session ELSE [session EXCEPT ![id] = "open"]
        /\ UNCHANGED reservations
    BY <1>2 DEF Register, dbVars
  <2>3. UNCHANGED <<HeldPairs, SoldPairs>>
    BY <2>2, MappingUnchanged
  <2> HIDE DEF id
  <2>4. CASE id = 0
    BY <1>a, <2>2, <2>3, <2>4 DEF Customers
  <2>5. CASE id # 0
    <3>1. PICK u \in User : u = id
      BY <2>1, <2>5
    <3>2. Customers' = [Customers EXCEPT ![u] = "in"] /\ Customers[u] = "new"
      <4>1. session[u] = "none" /\ session' = [session EXCEPT ![u] = "open"]
        BY <2>1, <2>2, <2>5, <3>1 DEF Fresh
      <4>2. Customers' = [Customers EXCEPT ![u] = Service("open")]
        BY <4>1, ServiceChange
      <4>3. QED
        BY <4>1, <4>2 DEF Service, Customers
    <3>3. Booking!Arrive(u)
      BY <2>3, <3>1, <3>2 DEF Booking!Arrive, HeldPairs, SoldPairs, Pairs, Customers, Service
    <3>4. QED
      BY <3>1, <3>3 DEF Booking!Next
  <2>6. QED
    BY <2>4, <2>5
<1>3. ASSUME NEW u \in User, EndSession(u) PROVE [Booking!Next]_(Booking!vars)
  <2>1. /\ session[u] = "open" /\ session' = [session EXCEPT ![u] = "closed"]
        /\ UNCHANGED reservations
    BY <1>3 DEF EndSession, dbVars
  <2>2. UNCHANGED <<HeldPairs, SoldPairs>>
    BY <2>1, MappingUnchanged
  <2>3. Customers' = [Customers EXCEPT ![u] = "left"] /\ Customers[u] = "in"
    BY <2>1, ServiceChange DEF Service, Customers
  <2>4. Booking!Leave(u)
    BY <2>2, <2>3 DEF Booking!Leave, HeldPairs, SoldPairs, Pairs, Customers, Service
  <2>5. QED
    BY <2>4 DEF Booking!Next
<1>4. CASE Restart
  <2>1. reservations' = {row \in reservations : row.paid}
    BY <1>4 DEF Restart, clean_db_tables, db_remove_unpaid_reservations
  <2>2. HeldPairs' = {} /\ SoldPairs' = SoldPairs
    BY <2>1 DEF HeldPairs, SoldPairs, Pairs
  <2>3. Customers' = [u \in User |-> IF Customers[u] = "in" THEN "left" ELSE Customers[u]]
    BY <1>4 DEF Restart, Customers, Service, TypeInv, TypeOK
  <2>4. Booking!Close
    BY <2>2, <2>3 DEF Booking!Close, HeldPairs, SoldPairs, Pairs, Customers, Service
  <2>5. QED
    BY <2>4 DEF Booking!Next
<1>5. ASSUME NEW u \in User, NEW r, NEW c, Ask(u, r, c) PROVE Stutters
  <2>1. /\ session[u] \in {"open", "waiting"}
        /\ session' = [session EXCEPT ![u] = "waiting"]
        /\ UNCHANGED reservations
    BY <1>5 DEF Ask, dbVars
  <2>2. QED
    BY <2>1, ServiceGoesOn, MappingUnchanged
<1>6. ASSUME NEW u \in User, Receive(u) PROVE Stutters
  <2>1. /\ session[u] \in {"open", "waiting"}
        /\ session' = [session EXCEPT ![u] = "open"]
        /\ UNCHANGED reservations
    BY <1>6 DEF Receive, dbVars
  <2>2. QED
    BY <2>1, ServiceGoesOn, MappingUnchanged
<1>7. ASSUME UNCHANGED <<reservations, session>> PROVE Stutters
  BY <1>7, MappingUnchanged DEF Customers
<1>8. ASSUME NEW u \in User, Customer(u) \/ Receive(u) \/ Timeout(u) \/ Deliver(u)
      PROVE  [Booking!Next]_(Booking!vars)
  <2>1. \/ EndSession(u) \/ Receive(u) \/ UNCHANGED <<reservations, session>>
        \/ \E r, c : Ask(u, r, c)
    BY <1>8 DEF Customer, AskRooms, AskSeats, AskSeat, AskPayment, GoBack, Exit,
                NoticeClosed, Crash, Timeout, Deliver, dbVars
  <2>2. QED
    BY <1>a, <1>3, <1>5, <1>6, <1>7, <2>1
<1>9. CASE AskRegistration \/ UNCHANGED vars
  BY <1>a, <1>7, <1>9 DEF AskRegistration, vars, dbVars
<1>10. QED
  BY <1>1, <1>2, <1>4, <1>8, <1>9 DEF Next

\* The system implements SeatBooking for every number of rooms, seats,
\* customers, refused statements, killed clients and restarts: seats are taken
\* only while free and only for customers in service (admin.cpp:102), paid only
\* for their holder (admin.cpp:28), given back only after their customer left
\* (admin.cpp:41-42) or when the cinema starts again (admin.cpp:164-167), and
\* never lost once they are paid.
THEOREM BookingImplemented == Spec => ImplementsBooking
<1>1. Init => Booking!Init
  BY BookingInit
<1>2. TypeInv /\ ProtocolInv /\ NoDoubleBooking /\ [Next]_vars
      => [Booking!Next]_(Booking!vars)
  BY BookingStep
<1>3. QED
  BY <1>1, <1>2, TypesHold, ProtocolHolds, NoDoubleBookingHolds, PTL
     DEF Spec, ImplementsBooking, Booking!Spec
=============================================================================
