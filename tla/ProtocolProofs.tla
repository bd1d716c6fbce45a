--------------------------- MODULE ProtocolProofs ---------------------------
(***************************************************************************)
(* Proofs that the listeners, the customers and the handlers stay in step, *)
(* and what follows from that: no seat is left reserved for nobody, and    *)
(* BoxOffice implements SeatBooking.                                       *)
(***************************************************************************)
EXTENDS BoxOfficeProofs

USE SeatCountAssumption, MaxUsersAssumption, InputAssumption,
    MaxBusyAssumption, MaxRestartsAssumption
USE DEF Registration, Slot, User

---------------------------------------------------------------------------
(* The control flow of a handler: where it goes from one statement to the  *)
(* next, and which answer it ends with.                                    *)

Follows(g, h) ==
    /\ h.choice = g.choice
    /\ \/ g.pc = "queued" /\ h.pc = FirstStep(g.choice)
       \/ g.pc = "insertUser" /\ h.pc = "login"
       \/ g.pc = "seatMap" /\ h.pc \in {"enterRoom", "dead"}
       \/ g.pc = "currentRoom" /\ h.pc \in {"insert", "dead"}
       \/ g.pc = "insert" /\ h.pc = "leaveRoom"
       \/ g.pc = "leaveRoom" /\ h.pc = "viewers"
       \/ g.pc = "viewers" /\ h.pc \in {"snapshot", "leaveAgain"}
       \/ g.pc = "snapshot" /\ h.pc \in {"notify", "dead"}
       \/ g.pc = "notify" /\ h.pc = "leaveAgain"
       \/ g.pc = "pay" /\ h.pc = "pay"
       \/ g.pc = "logout" /\ h.pc = "release"

Answers(g, a) == \/ g.pc = "login" /\ a.choice = "register"
                 \/ g.pc = "listRooms" /\ a.choice = "rooms"
                 \/ g.pc = "seatMap" /\ a.choice = "invalid"
                 \/ g.pc = "enterRoom" /\ a.choice = "seats"
                 \/ g.pc \in {"insert", "leaveAgain"} /\ a.choice = "select"
                 \/ g.pc = "pay" /\ a.choice = "pay"

HandlerStep(s) ==
    /\ \A t \in Slot \ {s} : handler'[t] = handler[t] /\ reply'[t] = reply[t]
    /\ \/ Follows(handler[s], handler'[s]) /\ reply'[s] = reply[s]
       \/ /\ handler'[s] = Idle
          /\ \E a \in Answer : /\ Answers(handler[s], a)
                               /\ reply'[s] = Append(reply[s], a)
       \/ handler[s].pc = "release" /\ handler'[s] = Idle /\ reply'[s] = reply[s]

\* A handler that goes on without an answer.
LEMMA GoesOn ==
    ASSUME TypeInv, NEW s \in Slot, NEW h, Become(s, h), Follows(handler[s], h),
           UNCHANGED reply
    PROVE  HandlerStep(s)
<1>1. /\ handler'[s] = h
      /\ \A t \in Slot \ {s} : handler'[t] = handler[t]
  BY DEF Become, TypeInv, TypeOK, AdminTypeOK
<1>2. QED
  BY <1>1 DEF HandlerStep

\* A handler that ends with an answer.
LEMMA EndsWith ==
    ASSUME TypeInv, NEW s \in Slot, NEW a \in Answer, Respond(s, a),
           Answers(handler[s], a)
    PROVE  HandlerStep(s)
<1>1. /\ Become(s, Idle)
      /\ reply'[s] = Append(reply[s], a)
      /\ \A t \in Slot \ {s} : reply'[t] = reply[t]
  BY RespondSlot
<1>2. /\ handler'[s] = Idle
      /\ \A t \in Slot \ {s} : handler'[t] = handler[t]
  BY <1>1 DEF Become, TypeInv, TypeOK, AdminTypeOK
<1>3. QED
  BY <1>1, <1>2 DEF HandlerStep

\* A change of pc is a change of nothing else.
LEMMA SamePc ==
    ASSUME NEW g \in Handler, NEW pc
    PROVE  /\ [g EXCEPT !.pc = pc].pc = pc
           /\ [g EXCEPT !.pc = pc].choice = g.choice
BY DEF Handler

\* The steps of the handler of a reservation follow the control flow.
LEMMA SelectFlow ==
    ASSUME TypeInv, NEW u \in User, NEW busy \in BOOLEAN, AnswerSelect(u, busy)
    PROVE  HandlerStep(u)
<1>0. handler[u] \in Handler
  BY DEF TypeInv, TypeOK, AdminTypeOK
<1>1. CASE CurrentRoom(u, busy)
  <2>1. ASSUME NEW room, Become(u, [handler[u] EXCEPT !.room = room, !.pc = "insert"])
        PROVE  HandlerStep(u)
    <3> DEFINE h == [handler[u] EXCEPT !.room = room, !.pc = "insert"]
    <3>1. h.pc = "insert" /\ h.choice = handler[u].choice
      BY <1>0 DEF Handler
    <3>2. Become(u, h) /\ At(u, "currentRoom") /\ UNCHANGED reply
      BY <1>1, <2>1 DEF CurrentRoom
    <3> HIDE DEF h
    <3>3. QED
      BY <3>1, <3>2, GoesOn DEF Follows, At
  <2>2. CASE Goto(u, "dead")
    <3> DEFINE h == [handler[u] EXCEPT !.pc = "dead"]
    <3>1. h.pc = "dead" /\ h.choice = handler[u].choice
      BY <1>0, SamePc
    <3>2. Become(u, h) /\ At(u, "currentRoom") /\ UNCHANGED reply
      BY <1>1, <2>2 DEF CurrentRoom, Goto
    <3> HIDE DEF h
    <3>3. QED
      BY <3>1, <3>2, GoesOn DEF Follows, At
  <2>3. QED
    BY <1>1, <2>1, <2>2 DEF CurrentRoom
<1>2. CASE InsertReservation(u, busy)
  <2>1. CASE Goto(u, "leaveRoom") /\ UNCHANGED reply
    <3> DEFINE h == [handler[u] EXCEPT !.pc = "leaveRoom"]
    <3>1. h.pc = "leaveRoom" /\ h.choice = handler[u].choice
      BY <1>0, SamePc
    <3>2. Become(u, h) /\ At(u, "insert")
      BY <1>2, <2>1 DEF InsertReservation, Goto
    <3> HIDE DEF h
    <3>3. QED
      BY <2>1, <3>1, <3>2, GoesOn DEF Follows, At
  <2>2. CASE Respond(u, Result("select", FALSE))
    <3> DEFINE a == Result("select", FALSE)
    <3>1. a \in Answer /\ a.choice = "select"
      BY ResultType DEF Choice, Result, Message
    <3>2. Respond(u, a) /\ At(u, "insert")
      BY <1>2, <2>2 DEF InsertReservation
    <3> HIDE DEF a
    <3>3. QED
      BY <3>1, <3>2, EndsWith DEF Answers, At
  <2>3. QED
    BY <1>2, <2>1, <2>2 DEF InsertReservation
<1>3. CASE LeaveRoom(u, busy)
  <2> DEFINE h == [handler[u] EXCEPT !.pc = "viewers"]
  <2>1. h.pc = "viewers" /\ h.choice = handler[u].choice
    BY <1>0, SamePc
  <2>2. Become(u, h) /\ At(u, "leaveRoom") /\ UNCHANGED reply
    BY <1>3 DEF LeaveRoom, Goto
  <2> HIDE DEF h
  <2>3. QED
    BY <2>1, <2>2, GoesOn DEF Follows, At
<1>4. CASE Viewers(u, busy)
  <2> DEFINE viewers == IF busy THEN {} ELSE db_select_users_in_room(handler[u].room)
             pc == IF viewers = {} THEN "leaveAgain" ELSE "snapshot"
             h == [handler[u] EXCEPT !.viewers = viewers, !.pc = pc]
  <2>1. pc \in {"snapshot", "leaveAgain"}
    OBVIOUS
  <2>2. Become(u, h) /\ At(u, "viewers") /\ UNCHANGED reply
    BY <1>4 DEF Viewers
  <2> HIDE DEF pc, viewers
  <2>3. h.pc = pc /\ h.choice = handler[u].choice
    BY <1>0 DEF Handler
  <2> HIDE DEF h
  <2>4. QED
    BY <2>1, <2>2, <2>3, GoesOn DEF Follows, At
<1>5. CASE Snapshot(u, busy)
  <2>1. PICK h : Become(u, h) /\ (\/ h = [handler[u] EXCEPT !.pc = "dead"]
                                  \/ \E taken : h = [handler[u] EXCEPT
                                                 !.taken = taken, !.pc = "notify"])
    BY <1>5 DEF Snapshot, Goto
  <2>2. h.pc \in {"notify", "dead"} /\ h.choice = handler[u].choice
    BY <1>0, <2>1 DEF Handler
  <2>3. At(u, "snapshot") /\ UNCHANGED reply
    BY <1>5 DEF Snapshot
  <2>4. QED
    BY <2>1, <2>2, <2>3, GoesOn DEF Follows, At
<1>6. CASE LeaveRoomAgain(u, busy)
  <2> DEFINE a == Result("select", TRUE)
  <2>1. a \in Answer /\ a.choice = "select"
    BY ResultType DEF Choice, Result, Message
  <2>2. Respond(u, a) /\ At(u, "leaveAgain")
    BY <1>6 DEF LeaveRoomAgain
  <2> HIDE DEF a
  <2>3. QED
    BY <2>1, <2>2, EndsWith DEF Answers, At
<1>7. QED
  BY <1>1, <1>2, <1>3, <1>4, <1>5, <1>6 DEF AnswerSelect
\* The steps of every other handler of a customer follow it.
LEMMA UserFlow ==
    ASSUME TypeInv, NEW u \in User, NEW busy \in BOOLEAN, AnswerUser(u, busy)
    PROVE  HandlerStep(u)
<1>0. handler[u] \in Handler
  BY DEF TypeInv, TypeOK, AdminTypeOK
<1>1. CASE ListRooms(u, busy)
  <2> DEFINE a == Result("rooms", TRUE)
  <2>1. a \in Answer /\ a.choice = "rooms"
    BY ResultType DEF Choice, Result, Message
  <2>2. Respond(u, a) /\ At(u, "listRooms")
    BY <1>1 DEF ListRooms
  <2> HIDE DEF a
  <2>3. QED
    BY <2>1, <2>2, EndsWith DEF Answers, At
<1>2. CASE SeatMapUnknown(u, busy)
  <2> DEFINE a == Result("invalid", FALSE)
  <2>1. a \in Answer /\ a.choice = "invalid"
    BY ResultType DEF Choice, Result, Message
  <2>2. Respond(u, a) /\ At(u, "seatMap")
    BY <1>2 DEF SeatMapUnknown
  <2> HIDE DEF a
  <2>3. QED
    BY <2>1, <2>2, EndsWith DEF Answers, At
<1>3. CASE SeatMap(u, busy)
  <2>1. PICK h : Become(u, h) /\ (\/ h = [handler[u] EXCEPT !.pc = "dead"]
                                  \/ \E taken : h = [handler[u] EXCEPT
                                                 !.taken = taken, !.pc = "enterRoom"])
    BY <1>3 DEF SeatMap, Goto
  <2>2. h.pc \in {"enterRoom", "dead"} /\ h.choice = handler[u].choice
    BY <1>0, <2>1 DEF Handler
  <2>3. At(u, "seatMap") /\ UNCHANGED reply
    BY <1>3 DEF SeatMap
  <2>4. QED
    BY <2>1, <2>2, <2>3, GoesOn DEF Follows, At
<1>4. CASE EnterRoom(u, busy)
  <2> DEFINE a == Message("seats", TRUE, 0, handler[u].taken)
  <2>1. a \in Answer /\ a.choice = "seats"
    BY <1>0 DEF Answer, Message, Choice, Handler
  <2>2. Respond(u, a) /\ At(u, "enterRoom")
    BY <1>4 DEF EnterRoom
  <2> HIDE DEF a
  <2>3. QED
    BY <2>1, <2>2, EndsWith DEF Answers, At
<1>5. CASE AnswerSelect(u, busy)
  BY <1>5, SelectFlow
<1>6. CASE PayReservation(u, busy)
  <2> DEFINE list == IF busy THEN <<>> ELSE Tail(handler[u].list)
             h == [handler[u] EXCEPT !.list = list]
  <2>1. Become(u, h) /\ At(u, "pay") /\ UNCHANGED reply
    BY <1>6 DEF PayReservation
  <2> HIDE DEF list
  <2>2. h.pc = handler[u].pc /\ h.choice = handler[u].choice
    BY <1>0 DEF Handler
  <2> HIDE DEF h
  <2>3. QED
    BY <2>1, <2>2, GoesOn DEF Follows, At
<1>7. CASE LogoutUser(u, busy)
  <2> DEFINE h == [handler[u] EXCEPT !.pc = "release"]
  <2>1. h.pc = "release" /\ h.choice = handler[u].choice
    BY <1>0, SamePc
  <2>2. Become(u, h) /\ At(u, "logout") /\ UNCHANGED reply
    BY <1>7 DEF LogoutUser, Goto
  <2> HIDE DEF h
  <2>3. QED
    BY <2>1, <2>2, GoesOn DEF Follows, At
<1>8. CASE ReleaseSeats(u, busy)
  BY <1>8 DEF ReleaseSeats, HandlerStep, Become, At, TypeInv, TypeOK, AdminTypeOK
<1>9. QED
  BY <1>1, <1>2, <1>3, <1>4, <1>5, <1>6, <1>7, <1>8 DEF AnswerUser

\* So do all steps of the admin.
LEMMA AdminFlow ==
    ASSUME TypeInv, NEW s \in Slot, AdminStep(s)
    PROVE  HandlerStep(s)
<1>0. handler[s] \in Handler
  BY DEF TypeInv, TypeOK, AdminTypeOK
<1>1. CASE admin_listen_requests(s)
  <2> DEFINE pc == FirstStep(handler[s].choice)
             h == [handler[s] EXCEPT !.pc = pc]
  <2>1. Become(s, h) /\ At(s, "queued") /\ UNCHANGED reply
    BY <1>1 DEF admin_listen_requests, Goto
  <2>2. h.pc = pc /\ h.choice = handler[s].choice
    BY <1>0, SamePc
  <2> HIDE DEF h
  <2>3. QED
    BY <2>1, <2>2, GoesOn DEF Follows, At
<1>2. ASSUME NEW busy \in BOOLEAN, s = Registration, InsertUser(s, busy)
      PROVE  HandlerStep(s)
  <2> DEFINE id == InsertedUser(busy)
             h == [handler[s] EXCEPT !.id = id, !.pc = "login"]
  <2>1. Become(s, h) /\ At(s, "insertUser") /\ UNCHANGED reply
    BY <1>2 DEF InsertUser
  <2> HIDE DEF id
  <2>2. h.pc = "login" /\ h.choice = handler[s].choice
    BY <1>0 DEF Handler
  <2> HIDE DEF h
  <2>3. QED
    BY <2>1, <2>2, GoesOn DEF Follows, At
<1>3. ASSUME NEW busy \in BOOLEAN, s = Registration, LoginUser(s, busy)
      PROVE  HandlerStep(s)
  <2> DEFINE a == Message("register", TRUE, handler[s].id, {})
  <2>1. a \in Answer /\ a.choice = "register"
    BY <1>0 DEF Answer, Message, Choice, Handler
  <2>2. Respond(s, a) /\ At(s, "login")
    BY <1>3 DEF LoginUser
  <2> HIDE DEF a
  <2>3. QED
    BY <2>1, <2>2, EndsWith DEF Answers, At
<1>4. ASSUME NEW busy \in BOOLEAN, s \in User, AnswerUser(s, busy)
      PROVE  HandlerStep(s)
  BY <1>4, UserFlow
<1>5. CASE Notify(s)
  <2> DEFINE h == [handler[s] EXCEPT !.pc = "leaveAgain"]
  <2>1. h.pc = "leaveAgain" /\ h.choice = handler[s].choice
    BY <1>0, SamePc
  <2>2. Become(s, h) /\ At(s, "notify") /\ UNCHANGED reply
    BY <1>5 DEF Notify, Goto
  <2> HIDE DEF h
  <2>3. QED
    BY <2>1, <2>2, GoesOn DEF Follows, At
<1>6. CASE PaymentDone(s)
  <2> DEFINE a == Result("pay", TRUE)
  <2>1. a \in Answer /\ a.choice = "pay"
    BY ResultType DEF Choice, Result, Message
  <2>2. Respond(s, a) /\ At(s, "pay")
    BY <1>6 DEF PaymentDone
  <2> HIDE DEF a
  <2>3. QED
    BY <2>1, <2>2, EndsWith DEF Answers, At
<1>7. QED
  BY <1>1, <1>2, <1>3, <1>4, <1>5, <1>6 DEF AdminStep, admin_handle_request,
                                            AnswerRegistration
---------------------------------------------------------------------------
(* A listener and its requests.  The admin works on what the listener      *)
(* waits for, or has answered it once, or carries out the EXIT that was    *)
(* the listener's last request.                                            *)

Serves(h) == \/ h.choice = "rooms" /\ h.pc \in {"queued", "listRooms"}
             \/ h.choice = "seats" /\ h.pc \in {"queued", "seatMap", "enterRoom", "dead"}
             \/ /\ h.choice = "select"
                /\ h.pc \in {"queued", "currentRoom", "insert", "leaveRoom", "viewers",
                             "snapshot", "notify", "leaveAgain", "dead"}
             \/ h.choice = "pay" /\ h.pc \in {"queued", "pay"}

Served(u) == /\ Serves(handler[u])
             /\ handler[u].choice = client[u].asked
             /\ reply[u] = <<>>

Told(u) == /\ handler[u] = Idle
           /\ \E a \in Answer : /\ reply[u] = <<a>>
                               /\ a.choice \in {client[u].asked, "invalid"}

InStep(u) == /\ session[u] = "waiting" => Served(u) \/ Told(u)
             /\ session[u] # "waiting" => reply[u] = <<>>
             /\ session[u] \in {"none", "open"} => handler[u] = Idle
             /\ session[u] = "closed" => handler[u] = Idle \/ Leaving(u)

\* An id that is given but not yet in use.
Fresh(id) == id # 0 => id <= users /\ session[id] = "none"

\* The same for the registration of a new customer.
RegistrationInStep ==
    /\ \A v \in User : v > users => session[v] = "none"
    /\ \/ handler[Registration] = Idle
       \/ /\ handler[Registration].choice = "register"
          /\ handler[Registration].pc \in {"queued", "insertUser", "login"}
          /\ reply[Registration] = <<>>
    /\ handler[Registration].pc = "login" => Fresh(handler[Registration].id)
    /\ \/ reply[Registration] = <<>>
       \/ \E a \in Answer : reply[Registration] = <<a>> /\ Fresh(a.id)

ProtocolInv == RegistrationInStep /\ \A u \in User : InStep(u)

\* Who is not concerned stays in step.
LEMMA Unconcerned ==
    ASSUME NEW u \in User, InStep(u), handler'[u] = handler[u], reply'[u] = reply[u],
           session'[u] = session[u], client'[u].asked = client[u].asked
    PROVE  InStep(u)'
BY DEF InStep, Served, Told, Leaving

\* The admin's steps keep every listener in step.
LEMMA AdminInStep ==
    ASSUME TypeInv, NEW s \in Slot, AdminStep(s), NEW u \in User, InStep(u)
    PROVE  InStep(u)'
<1>1. HandlerStep(s) /\ UNCHANGED <<session, client>>
  BY AdminFlow DEF AdminStep
<1>2. CASE u # s
  BY <1>1, <1>2, Unconcerned DEF HandlerStep
<1>3. CASE u = s
  <2>1. handler[u] # Idle
    BY <1>1, <1>3 DEF HandlerStep, Follows, Answers, Idle
  <2>2. CASE session[u] = "waiting"
    <3>1. Served(u)
      BY <2>1, <2>2 DEF InStep, Told
    <3>2. CASE Follows(handler[u], handler'[u]) /\ reply'[u] = reply[u]
      <4>1. Serves(handler'[u]) /\ handler'[u].choice = handler[u].choice
        BY <3>1, <3>2 DEF Served, Serves, Follows, FirstStep
      <4>2. Served(u)'
        BY <1>1, <3>1, <3>2, <4>1 DEF Served
      <4>3. QED
        BY <1>1, <2>2, <4>2 DEF InStep
    <3>3. CASE /\ handler'[u] = Idle
               /\ \E a \in Answer : /\ Answers(handler[u], a)
                                   /\ reply'[u] = Append(reply[u], a)
      <4>1. PICK a \in Answer : Answers(handler[u], a) /\ reply'[u] = Append(reply[u], a)
        BY <3>3
      <4>2. a.choice \in {client[u].asked, "invalid"}
        BY <3>1, <4>1 DEF Answers, Served, Serves
      <4>3. reply'[u] = <<a>>
        BY <3>1, <4>1 DEF Served
      <4>4. Told(u)'
        BY <1>1, <3>3, <4>2, <4>3 DEF Told
      <4>5. QED
        BY <1>1, <2>2, <4>4 DEF InStep
    <3>4. handler[u].pc # "release"
      BY <3>1 DEF Served, Serves
    <3>5. QED
      BY <1>1, <1>3, <3>2, <3>3, <3>4 DEF HandlerStep
  <2>3. CASE session[u] # "waiting"
    <3>1. session[u] = "closed" /\ Leaving(u) /\ reply[u] = <<>>
      BY <2>1, <2>3 DEF InStep, TypeInv, TypeOK
    <3>2. ~ \E a \in Answer : Answers(handler[u], a)
      BY <3>1 DEF Leaving, Answers
    <3>3. reply'[u] = <<>> /\ (handler'[u] = Idle \/ Leaving(u)')
      BY <1>1, <1>3, <3>1, <3>2 DEF HandlerStep, Follows, FirstStep, Leaving
    <3>4. QED
      BY <1>1, <3>1, <3>3 DEF InStep
  <2>4. QED
    BY <2>2, <2>3
<1>4. QED
  BY <1>2, <1>3
\* A call puts its customer's listener in step with a fresh request.
LEMMA AskInStep ==
    ASSUME TypeInv, NEW v \in User, NEW r, NEW c, Ask(v, r, c), InStep(v),
           Serves(r), r.choice = c.asked, NEW u \in User, InStep(u)
    PROVE  InStep(u)'
<1>1. /\ handler'[v] = r /\ session'[v] = "waiting" /\ client'[v] = c
      /\ \A t \in User \ {v} : /\ handler'[t] = handler[t]
                               /\ session'[t] = session[t]
                               /\ client'[t] = client[t]
      /\ reply' = reply
  BY DEF Ask, Become, TypeInv, TypeOK, AdminTypeOK
<1>2. reply[v] = <<>>
  BY DEF Ask, InStep
<1>3. CASE u = v
  BY <1>1, <1>2, <1>3 DEF InStep, Served
<1>4. CASE u # v
  BY <1>1, <1>4, Unconcerned
<1>5. QED
  BY <1>3, <1>4

\* The end of a session leaves its EXIT with the admin.
LEMMA EndInStep ==
    ASSUME TypeInv, NEW v \in User, EndSession(v), InStep(v), NEW u \in User, InStep(u),
           u # v => client'[u] = client[u]
    PROVE  InStep(u)'
<1> DEFINE r == Request("exit")
<1>1. /\ handler'[v] = r /\ session'[v] = "closed"
      /\ \A t \in User \ {v} : /\ handler'[t] = handler[t]
                               /\ session'[t] = session[t]
      /\ reply' = reply
  BY DEF EndSession, Become, TypeInv, TypeOK, AdminTypeOK
<1>2. r.choice = "exit" /\ r.pc = "queued"
  BY DEF Request, Idle
<1> HIDE DEF r
<1>3. reply[v] = <<>>
  BY DEF EndSession, InStep
<1>4. CASE u = v
  BY <1>1, <1>2, <1>3, <1>4 DEF InStep, Leaving
<1>5. CASE u # v
  BY <1>1, <1>5, Unconcerned
<1>6. QED
  BY <1>4, <1>5

\* A change of a customer that asks nobody.
LEMMA OwnStepInStep ==
    ASSUME TypeInv, NEW v \in User, NEW c, client' = [client EXCEPT ![v] = c],
           c.asked = client[v].asked, UNCHANGED <<adminVars, session>>,
           NEW u \in User, InStep(u)
    PROVE  InStep(u)'
<1>1. /\ handler' = handler /\ reply' = reply /\ session' = session
      /\ client'[u].asked = client[u].asked
  BY DEF adminVars, TypeInv, TypeOK
<1>2. QED
  BY <1>1, Unconcerned

\* Requests as Ask makes them.
LEMMA RequestFields ==
    \A choice \in Choice :
        LET r == Request(choice)
        IN  r.pc = "queued" /\ r.choice = choice
BY DEF Request, Idle

\* The customer's steps keep every listener in step.
LEMMA CustomerInStep ==
    ASSUME TypeInv, NEW v \in User, Customer(v), InStep(v), NEW u \in User, InStep(u)
    PROVE  InStep(u)'
<1>0. client[v] \in Client /\ client \in [User -> Client]
  BY DEF TypeInv, TypeOK
<1>1. CASE AskRooms(v)
  <2> DEFINE c == [client[v] EXCEPT !.asked = "rooms"]
             r == Request("rooms")
  <2>1. r.choice = "rooms" /\ r.pc = "queued"
    BY DEF Request, Idle
  <2>2. c.asked = "rooms" /\ Ask(v, r, c)
    BY <1>0, <1>1 DEF AskRooms, Client
  <2> HIDE DEF c, r
  <2>3. QED
    BY <2>1, <2>2, AskInStep DEF Serves
<1>2. ASSUME NEW room \in RoomInput, AskSeats(v, room) PROVE InStep(u)'
  <2> DEFINE c == [client[v] EXCEPT !.asked = "seats", !.room = room]
             r == [Request("seats") EXCEPT !.room = room]
  <2>1. r.choice = "seats" /\ r.pc = "queued"
    BY DEF Request, Idle
  <2>2. c.asked = "seats" /\ Ask(v, r, c)
    BY <1>0, <1>2 DEF AskSeats, Client
  <2> HIDE DEF c, r
  <2>3. QED
    BY <2>1, <2>2, AskInStep DEF Serves
<1>3. ASSUME NEW seat \in SeatInput, AskSeat(v, seat) PROVE InStep(u)'
  <2> DEFINE c == [client[v] EXCEPT !.asked = "select", !.seat = seat]
             r == [Request("select") EXCEPT !.seat = seat]
  <2>1. r.choice = "select" /\ r.pc = "queued"
    BY DEF Request, Idle
  <2>2. c.asked = "select" /\ Ask(v, r, c)
    BY <1>0, <1>3 DEF AskSeat, Client
  <2> HIDE DEF c, r
  <2>3. QED
    BY <2>1, <2>2, AskInStep DEF Serves
<1>4. CASE AskPayment(v)
  <2> DEFINE c == [client[v] EXCEPT !.asked = "pay"]
             r == [Request("pay") EXCEPT !.list = client[v].cart]
  <2>1. r.choice = "pay" /\ r.pc = "queued"
    BY DEF Request, Idle
  <2>2. c.asked = "pay" /\ Ask(v, r, c)
    BY <1>0, <1>4 DEF AskPayment, Client
  <2> HIDE DEF c, r
  <2>3. QED
    BY <2>1, <2>2, AskInStep DEF Serves
<1>5. CASE GoBack(v)
  <2>1. PICK c : client' = [client EXCEPT ![v] = c] /\ c.asked = client[v].asked
    <3>1. CASE client' = [client EXCEPT ![v].at = "menu"]
      <4>1. [client[v] EXCEPT !.at = "menu"].asked = client[v].asked
        BY <1>0 DEF Client
      <4>2. QED
        BY <3>1, <4>1
    <3>2. CASE client' = [client EXCEPT ![v] = Leave(@, "rooms")]
      <4>1. Leave(client[v], "rooms").asked = client[v].asked
        BY <1>0 DEF Client, Leave
      <4>2. QED
        BY <3>2, <4>1
    <3>3. QED
      BY <1>5, <3>1, <3>2 DEF GoBack
  <2>2. QED
    BY <1>5, <2>1, OwnStepInStep DEF GoBack
<1>6. CASE Exit(v)
  <2>1. u # v => client'[u] = client[u]
    BY <1>0, <1>6 DEF Exit
  <2>2. QED
    BY <1>6, <2>1, EndInStep DEF Exit
<1>7. CASE NoticeClosed(v) \/ Crash(v)
  <2>1. \A screen : Leave(client[v], screen).asked = client[v].asked
    BY <1>0 DEF Client, Leave
  <2>2. PICK screen : client' = [client EXCEPT ![v] = Leave(client[v], screen)]
    BY <1>7 DEF NoticeClosed, Crash
  <2>3. QED
    BY <1>7, <2>1, <2>2, OwnStepInStep DEF NoticeClosed, Crash
<1>8. QED
  BY <1>1, <1>2, <1>3, <1>4, <1>5, <1>6, <1>7 DEF Customer

\* A listener that takes its answer has none left.
LEMMA ReceiveInStep ==
    ASSUME TypeInv, NEW v \in User, Receive(v), InStep(v), NEW u \in User, InStep(u)
    PROVE  InStep(u)'
<1>1. /\ session'[v] = "open" /\ reply'[v] = Tail(reply[v])
      /\ \A t \in User \ {v} : /\ session'[t] = session[t]
                               /\ reply'[t] = reply[t]
                               /\ client'[t] = client[t]
      /\ handler' = handler
  BY DEF Receive, TakeReply, TypeInv, TypeOK, AdminTypeOK
<1>2. CASE u = v
  <2>1. Told(u)
    BY <1>2 DEF Receive, InStep, Answered, Served
  <2>2. handler'[u] = Idle /\ reply'[u] = <<>>
    BY <1>1, <1>2, <2>1 DEF Told
  <2>3. QED
    BY <1>1, <1>2, <2>2 DEF InStep
<1>3. CASE u # v
  BY <1>1, <1>3, Unconcerned
<1>4. QED
  BY <1>2, <1>3

\* The cinema's steps: a listener begins in step, and a restart leaves none.
LEMMA CinemaInStep ==
    ASSUME TypeInv, AskRegistration \/ Register \/ Restart, RegistrationInStep,
           NEW u \in User, InStep(u)
    PROVE  InStep(u)'
<1>1. CASE AskRegistration
  <2>1. /\ handler'[u] = handler[u]
        /\ UNCHANGED <<reply, session, client>>
    BY <1>1 DEF AskRegistration, Become, TypeInv, TypeOK, AdminTypeOK
  <2>2. QED
    BY <2>1, Unconcerned
<1>2. CASE Register
  <2> DEFINE id == Taken(Registration).id
  <2>1. Fresh(id)
    BY <1>2 DEF Register, Answered, Taken, RegistrationInStep
  <2>2. reply'[u] = reply[u] /\ handler' = handler
    BY <1>2 DEF Register, TakeReply, TypeInv, TypeOK, AdminTypeOK
  <2>3. /\ session' = IF id = 0 THEN session ELSE [session EXCEPT ![id] = "open"]
        /\ client' = IF id = 0 THEN client ELSE [client EXCEPT ![id].at = "menu"]
    BY <1>2 DEF Register
  <2> HIDE DEF id
  <2>4. client'[u].asked = client[u].asked
    BY <2>3 DEF TypeInv, TypeOK, Client
  <2>5. CASE u # id \/ id = 0
    BY <2>2, <2>3, <2>4, <2>5, Unconcerned DEF TypeInv, TypeOK
  <2>6. CASE u = id
    <3>1. session[u] = "none" /\ session'[u] = "open"
      BY <2>1, <2>3, <2>6 DEF Fresh, TypeInv, TypeOK
    <3>2. QED
      BY <2>2, <3>1 DEF InStep
  <2>7. QED
    BY <2>5, <2>6
<1>3. CASE Restart
  <2>1. handler'[u] = Idle /\ reply'[u] = <<>> /\ session'[u] \in {"none", "closed"}
    BY <1>3 DEF Restart
  <2>2. QED
    BY <2>1 DEF InStep
<1>4. QED
  BY <1>1, <1>2, <1>3
\* Only the cinema and the handler of a registration concern the registration.
LEMMA RegistrationUnconcerned ==
    ASSUME TypeInv, RegistrationInStep, users' = users,
           handler'[Registration] = handler[Registration],
           reply'[Registration] = reply[Registration],
           \A v \in User : session'[v] = "none" <=> session[v] = "none"
    PROVE  RegistrationInStep'
<1>1. /\ handler[Registration].id \in Slot
      /\ \A a \in Answer : a.id \in Slot
  BY DEF TypeInv, TypeOK, AdminTypeOK, Handler, Answer
<1>2. \A id \in Slot : Fresh(id) => Fresh(id)'
  BY DEF Fresh
<1>3. QED
  BY <1>1, <1>2 DEF RegistrationInStep

\* What the handler of a registration does.
LEMMA RegistrationHandler ==
    ASSUME TypeInv, RegistrationInStep, AdminStep(Registration)
    PROVE  RegistrationInStep'
<1>0. /\ handler[Registration] \in Handler
      /\ handler \in [Slot -> Handler]
      /\ reply \in [Slot -> Seq(Answer)]
      /\ users \in Nat
      /\ UNCHANGED session
  BY DEF TypeInv, TypeOK, AdminTypeOK, DbTypeOK, AdminStep
<1>1. /\ handler[Registration].choice = "register"
      /\ reply[Registration] = <<>>
      /\ \A v \in User : v > users => session[v] = "none"
  <2>1. HandlerStep(Registration)
    BY AdminFlow
  <2>2. handler[Registration] # Idle
    BY <2>1 DEF HandlerStep, Follows, Answers, Idle
  <2>3. QED
    BY <2>2 DEF RegistrationInStep
<1>2. CASE admin_listen_requests(Registration)
  <2> DEFINE h == [handler[Registration] EXCEPT !.pc = "insertUser"]
  <2>1. Become(Registration, h) /\ UNCHANGED <<users, reply>>
    BY <1>1, <1>2 DEF admin_listen_requests, Goto, FirstStep, dbVars
  <2>2. h.pc = "insertUser" /\ h.choice = "register"
    BY <1>0, <1>1, SamePc
  <2> HIDE DEF h
  <2>3. handler'[Registration] = h
    BY <1>0, <2>1 DEF Become
  <2>4. QED
    BY <1>0, <1>1, <2>1, <2>2, <2>3 DEF RegistrationInStep
<1>3. ASSUME NEW busy \in BOOLEAN, InsertUser(Registration, busy)
      PROVE  RegistrationInStep'
  <2>2. users' = (IF busy THEN users ELSE users + 1) /\ users < MaxUsers
    BY <1>3 DEF InsertUser, db_insert_user, At, TypeInv, RegistrationBounded
  <2>3. PICK id \in Nat :
            /\ Become(Registration, [handler[Registration] EXCEPT !.id = id, !.pc = "login"])
            /\ id = 0 \/ (id = users + 1 /\ users' = users + 1)
    <3>1. CASE busy
      BY <1>3, <3>1 DEF InsertUser, InsertedUser
    <3>2. CASE ~ busy
      <4>1. users' = users + 1 /\ users + 1 \in Nat
        BY <1>0, <2>2, <3>2
      <4>2. Become(Registration, [handler[Registration] EXCEPT !.id = users + 1,
                                                              !.pc = "login"])
        BY <1>3, <3>2 DEF InsertUser, InsertedUser
      <4>3. QED
        BY <4>1, <4>2
    <3>3. QED
      BY <3>1, <3>2
  <2> DEFINE h == [handler[Registration] EXCEPT !.id = id, !.pc = "login"]
  <2>1. Become(Registration, h) /\ UNCHANGED reply
    BY <1>3, <2>3 DEF InsertUser
  <2>4. h.pc = "login" /\ h.choice = "register" /\ h.id = id
    BY <1>0, <1>1 DEF Handler
  <2> HIDE DEF h
  <2>5. handler'[Registration] = h
    BY <1>0, <2>1 DEF Become
  <2>6. id # 0 => id <= users' /\ session'[id] = "none"
    <3>1. CASE id = 0
      BY <3>1
    <3>2. CASE id = users + 1 /\ users' = users + 1
      <4>1. id \in User /\ id > users /\ id <= users'
        BY <1>0, <2>2, <3>2
      <4>2. QED
        BY <1>0, <1>1, <4>1
    <3>3. QED
      BY <2>3, <3>1, <3>2
  <2>7. \A v \in User : v > users' => session'[v] = "none"
    BY <1>0, <1>1, <2>2
  <2>8. QED
    BY <1>1, <2>1, <2>4, <2>5, <2>6, <2>7 DEF RegistrationInStep, Fresh
<1>4. ASSUME NEW busy \in BOOLEAN, LoginUser(Registration, busy)
      PROVE  RegistrationInStep'
  <2>1. PICK a \in Answer : a = Message("register", TRUE, handler[Registration].id, {})
    BY <1>0 DEF Answer, Message, Choice, Handler
  <2>2. Respond(Registration, a) /\ UNCHANGED users
    BY <1>4, <2>1 DEF LoginUser
  <2>3. a.id # 0 => a.id <= users' /\ session'[a.id] = "none"
    BY <1>0, <1>4, <2>1, <2>2 DEF LoginUser, At, RegistrationInStep, Fresh, Message
  <2>4. handler'[Registration] = Idle /\ reply'[Registration] = <<a>>
    BY <1>0, <1>1, <2>2 DEF Respond, Become
  <2>5. Idle.pc # "login"
    BY DEF Idle
  <2>6. QED
    BY <1>0, <1>1, <2>2, <2>3, <2>4, <2>5 DEF RegistrationInStep, Fresh
<1>5. QED
  BY <1>2, <1>3, <1>4 DEF AdminStep, admin_handle_request, AnswerRegistration

\* Every step keeps the registration in step.
LEMMA RegistrationStep ==
    ASSUME TypeInv, ProtocolInv, [Next]_vars
    PROVE  RegistrationInStep'
<1>0. RegistrationInStep /\ \A u \in User : InStep(u)
  BY DEF ProtocolInv
<1>1. CASE AskRegistration
  <2> DEFINE r == Request("register")
  <2>1. r.pc = "queued" /\ r.choice = "register"
    BY DEF Request, Idle
  <2>2. /\ Become(Registration, r) /\ reply[Registration] = <<>>
        /\ UNCHANGED <<users, reply, session>>
    BY <1>1 DEF AskRegistration, Answered, dbVars
  <2> HIDE DEF r
  <2>3. handler'[Registration] = r
    BY <2>2 DEF Become, TypeInv, TypeOK, AdminTypeOK
  <2>4. QED
    BY <1>0, <2>1, <2>2, <2>3 DEF RegistrationInStep
<1>2. CASE Register
  <2> DEFINE id == Taken(Registration).id
  <2>1. PICK a \in Answer : reply[Registration] = <<a>> /\ Fresh(a.id)
    BY <1>0, <1>2 DEF Register, Answered, RegistrationInStep
  <2>2. id = a.id /\ id \in Slot
    BY <2>1 DEF Taken, Answer
  <2>3. reply'[Registration] = <<>> /\ handler' = handler /\ users' = users
    BY <1>2, <2>1 DEF Register, TakeReply, dbVars, TypeInv, TypeOK, AdminTypeOK
  <2>4. session' = IF id = 0 THEN session ELSE [session EXCEPT ![id] = "open"]
    BY <1>2 DEF Register
  <2> HIDE DEF id
  <2>5. \A v \in User : v > users' => session'[v] = "none"
    BY <1>0, <2>1, <2>2, <2>3, <2>4 DEF RegistrationInStep, Fresh, TypeInv, TypeOK, DbTypeOK
  <2>6. handler[Registration] = Idle
    BY <1>0, <2>1 DEF RegistrationInStep
  <2>7. Idle.pc # "login"
    BY DEF Idle
  <2>8. QED
    BY <2>3, <2>5, <2>6, <2>7 DEF RegistrationInStep
<1>3. CASE Restart
  <2>1. /\ handler'[Registration] = Idle /\ reply'[Registration] = <<>>
        /\ users' = users
        /\ \A v \in User : session[v] = "none" => session'[v] = "none"
    BY <1>3 DEF Restart, clean_db_tables
  <2>2. Idle.pc # "login"
    BY DEF Idle
  <2>3. QED
    BY <1>0, <2>1, <2>2 DEF RegistrationInStep
<1>4. CASE AdminStep(Registration)
  BY <1>0, <1>4, RegistrationHandler
<1>5. ASSUME NEW s \in User, AdminStep(s) PROVE RegistrationInStep'
  <2>1. HandlerStep(s) /\ UNCHANGED session
    BY <1>5, AdminFlow DEF AdminStep
  <2>2. users' = users
    <3>1. CASE admin_listen_requests(s) \/ Notify(s) \/ PaymentDone(s)
      BY <3>1 DEF admin_listen_requests, Notify, PaymentDone, dbVars
    <3>2. ASSUME NEW busy \in BOOLEAN, AnswerUser(s, busy) PROVE users' = users
      <4>1. CASE AnswerSelect(s, busy)
        BY <4>1 DEF AnswerSelect, CurrentRoom, InsertReservation, LeaveRoom, Viewers,
                    Snapshot, LeaveRoomAgain, dbVars
      <4>2. CASE ~ AnswerSelect(s, busy)
        BY <3>2, <4>2 DEF AnswerUser, ListRooms, SeatMapUnknown, SeatMap, EnterRoom,
                          PayReservation, LogoutUser, ReleaseSeats, dbVars
      <4>3. QED
        BY <4>1, <4>2
    <3>3. QED
      BY <1>5, <3>1, <3>2 DEF AdminStep, admin_handle_request
  <2>3. QED
    BY <1>0, <2>1, <2>2, RegistrationUnconcerned DEF HandlerStep
<1>6. ASSUME NEW u \in User, Customer(u) \/ Receive(u) \/ Timeout(u) \/ Deliver(u)
      PROVE  RegistrationInStep'
  <2>1. /\ handler'[Registration] = handler[Registration]
        /\ reply'[Registration] = reply[Registration]
        /\ users' = users
    <3>1. ASSUME NEW h, Become(u, h) PROVE handler'[Registration] = handler[Registration]
      BY <3>1 DEF Become, TypeInv, TypeOK, AdminTypeOK
    <3>2. CASE Customer(u) \/ Timeout(u) \/ Deliver(u)
      <4>1. UNCHANGED <<users, reply>>
        BY <3>2 DEF Customer, AskRooms, AskSeats, AskSeat, AskPayment, Ask, GoBack, Exit,
                    NoticeClosed, Crash, Timeout, EndSession, Deliver, adminVars, dbVars
      <4>2. handler' = handler \/ \E h : Become(u, h)
        BY <3>2 DEF Customer, AskRooms, AskSeats, AskSeat, AskPayment, Ask, GoBack, Exit,
                    NoticeClosed, Crash, Timeout, EndSession, Deliver, adminVars
      <4>3. QED
        BY <3>1, <4>1, <4>2
    <3>3. CASE Receive(u)
      BY <3>3 DEF Receive, TakeReply, dbVars, TypeInv, TypeOK, AdminTypeOK
    <3>4. QED
      BY <1>6, <3>2, <3>3
  <2>2. \A v \in User : session'[v] = "none" <=> session[v] = "none"
    BY <1>6 DEF Customer, AskRooms, AskSeats, AskSeat, AskPayment, Ask, GoBack, Exit,
                NoticeClosed, Crash, Receive, Timeout, EndSession, Deliver,
                TypeInv, TypeOK
  <2>3. QED
    BY <1>0, <2>1, <2>2, RegistrationUnconcerned
<1>7. CASE UNCHANGED vars
  BY <1>0, <1>7, RegistrationUnconcerned DEF vars, dbVars, adminVars
<1>8. QED
  BY <1>1, <1>2, <1>3, <1>4, <1>5, <1>6, <1>7 DEF Next

\* Every step keeps everybody in step.
LEMMA ProtocolStep ==
    ASSUME TypeInv, ProtocolInv, [Next]_vars
    PROVE  ProtocolInv'
<1>0. RegistrationInStep /\ \A u \in User : InStep(u)
  BY DEF ProtocolInv
<1>1. ASSUME NEW u \in User PROVE InStep(u)'
  <2>1. CASE AskRegistration \/ Register \/ Restart
    BY <1>0, <2>1, CinemaInStep
  <2>2. ASSUME NEW s \in Slot, AdminStep(s) PROVE InStep(u)'
    BY <1>0, <2>2, AdminInStep
  <2>3. ASSUME NEW v \in User, Customer(v) PROVE InStep(u)'
    BY <1>0, <2>3, CustomerInStep
  <2>4. ASSUME NEW v \in User, Receive(v) PROVE InStep(u)'
    BY <1>0, <2>4, ReceiveInStep
  <2>5. ASSUME NEW v \in User, Timeout(v) PROVE InStep(u)'
    BY <1>0, <2>5, EndInStep DEF Timeout
  <2>6. ASSUME NEW v \in User, Deliver(v) PROVE InStep(u)'
    <3>1. handler' = handler /\ reply' = reply /\ session' = session
      BY <2>6 DEF Deliver
    <3>2. client'[u].asked = client[u].asked
      BY <2>6 DEF Deliver, TypeInv, TypeOK, Client
    <3>3. QED
      BY <1>0, <3>1, <3>2, Unconcerned
  <2>7. CASE UNCHANGED vars
    BY <1>0, <2>7, Unconcerned DEF vars, adminVars
  <2>8. QED
    BY <2>1, <2>2, <2>3, <2>4, <2>5, <2>6, <2>7 DEF Next
<1>2. RegistrationInStep'
  BY RegistrationStep
<1>3. QED
  BY <1>1, <1>2 DEF ProtocolInv

\* At the start nobody has asked anything.
LEMMA ProtocolInit == ASSUME Init PROVE ProtocolInv
<1>1. Idle.pc # "login"
  BY DEF Idle
<1>2. QED
  BY <1>1 DEF Init, AdminInit, DbInit, ProtocolInv, RegistrationInStep, InStep

\* Everybody is in step in every state.
LEMMA ProtocolHolds == Spec => []ProtocolInv
<1>1. Init => ProtocolInv
  BY ProtocolInit
<1>2. TypeInv /\ ProtocolInv /\ [Next]_vars => ProtocolInv'
  BY ProtocolStep
<1>3. QED
  BY <1>1, <1>2, TypesHold, PTL DEF Spec

\* A listener that waits for the admin has its request under way or exactly one
\* answer, to the question its customer asked; a listener that does not wait has
\* nothing in the admin's queues but perhaps its EXIT (cinema_handler.cpp:14-17,
\* admin.cpp:20-150).  So answers matched by message type alone are matched
\* well, whatever the number of customers, refused statements and restarts.
THEOREM OneAnswerPerRequestHolds == Spec => []OneAnswerPerRequest
<1>1. TypeInv /\ ProtocolInv => OneAnswerPerRequest
  <2> SUFFICES ASSUME TypeInv, ProtocolInv, NEW u \in User
               PROVE  /\ session[u] = "waiting" =>
                            \/ /\ handler[u].pc # "idle"
                               /\ handler[u].choice = client[u].asked
                               /\ ~ Answered(u)
                            \/ /\ handler[u] = Idle /\ Len(reply[u]) = 1
                               /\ Taken(u).choice \in {client[u].asked, "invalid"}
                      /\ session[u] # "waiting" =>
                            ~ Answered(u) /\ (handler[u] = Idle \/ Leaving(u))
    BY DEF OneAnswerPerRequest
  <2>1. InStep(u)
    BY DEF ProtocolInv
  <2>2. Served(u) => /\ handler[u].pc # "idle"
                     /\ handler[u].choice = client[u].asked
                     /\ ~ Answered(u)
    BY DEF Served, Serves, Answered
  <2>3. Told(u) => /\ handler[u] = Idle /\ Len(reply[u]) = 1
                   /\ Taken(u).choice \in {client[u].asked, "invalid"}
    BY DEF Told, Taken
  <2>4. session[u] # "waiting" => ~ Answered(u) /\ (handler[u] = Idle \/ Leaving(u))
    BY <2>1 DEF InStep, Answered, TypeInv, TypeOK
  <2>5. QED
    BY <2>1, <2>2, <2>3, <2>4 DEF InStep
<1>2. QED
  BY <1>1, TypesHold, ProtocolHolds, PTL
---------------------------------------------------------------------------
(* Unpaid reservations and those who answer for them *)

\* Refused statements are only ever counted up.
LEMMA RefusalsCount ==
    ASSUME TypeInv, [Next]_vars, busyCount' = 0
    PROVE  busyCount = 0
<1>0. busyCount \in Nat
  BY DEF TypeInv, TypeOK, AdminTypeOK
<1>1. ASSUME NEW s \in Slot, NEW busy \in BOOLEAN, Sql(s, busy) PROVE busyCount = 0
  BY <1>0, <1>1 DEF Sql
<1>2. ASSUME NEW s \in Slot, AdminStep(s) PROVE busyCount = 0
  <2>1. CASE admin_listen_requests(s) \/ Notify(s) \/ PaymentDone(s)
    BY <2>1 DEF admin_listen_requests, Notify, PaymentDone
  <2>2. ASSUME NEW busy \in BOOLEAN, s = Registration, AnswerRegistration(busy)
        PROVE  Sql(s, busy)
    BY <2>2 DEF AnswerRegistration, InsertUser, LoginUser
  <2>3. ASSUME NEW busy \in BOOLEAN, AnswerUser(s, busy) PROVE Sql(s, busy)
    <3>1. CASE AnswerSelect(s, busy)
      BY <3>1 DEF AnswerSelect, CurrentRoom, InsertReservation, LeaveRoom, Viewers,
                  Snapshot, LeaveRoomAgain
    <3>2. CASE ~ AnswerSelect(s, busy)
      BY <2>3, <3>2 DEF AnswerUser, ListRooms, SeatMapUnknown, SeatMap, EnterRoom,
                        PayReservation, LogoutUser, ReleaseSeats
    <3>3. QED
      BY <3>1, <3>2
  <2>4. QED
    BY <1>1, <1>2, <2>1, <2>2, <2>3 DEF AdminStep, admin_handle_request
<1>3. ASSUME NEW u \in User, Customer(u) \/ Receive(u) \/ Timeout(u) \/ Deliver(u)
      PROVE  busyCount' = busyCount
  BY <1>3 DEF Customer, AskRooms, AskSeats, AskSeat, AskPayment, Ask, GoBack, Exit,
              NoticeClosed, Crash, Receive, Timeout, EndSession, Deliver, adminVars
<1>4. CASE AskRegistration \/ Register \/ Restart
  BY <1>4 DEF AskRegistration, Register, Restart
<1>5. CASE UNCHANGED vars
  BY <1>5 DEF vars, adminVars
<1>6. QED
  BY <1>2, <1>3, <1>4, <1>5 DEF Next

\* The admin's step for one slot changes no other customer's rows, and none at
\* all for a registration.
LEMMA RowsOfOthers ==
    ASSUME TypeInv, NEW s \in Slot, AdminStep(s), NEW row \in reservations', row.user # s
    PROVE  row \in reservations
<1>1. CASE admin_listen_requests(s) \/ Notify(s) \/ PaymentDone(s)
  BY <1>1 DEF admin_listen_requests, Notify, PaymentDone, dbVars
<1>2. ASSUME NEW busy \in BOOLEAN, AnswerRegistration(busy)
      PROVE  row \in reservations
  BY <1>2 DEF AnswerRegistration, InsertUser, LoginUser
<1>3. ASSUME NEW busy \in BOOLEAN, s \in User, AnswerUser(s, busy)
      PROVE  row \in reservations
  <2>1. UNCHANGED reservations \/ Inserts(s) \/ Pays(s) \/ Releases(s)
    BY <1>3, AnswerUserTable
  <2>2. CASE Pays(s)
    <3> DEFINE place == Head(handler[s].list)
    <3>1. PICK old \in reservations : row = PaidRow(old, s, place)
      BY <2>2 DEF Pays, db_update_paid_reservation
    <3>2. old.user = row.user
      BY <3>1 DEF PaidRow, TypeInv, TypeOK, DbTypeOK, Reservation
    <3>3. QED
      BY <3>1, <3>2 DEF PaidRow
  <2>3. QED
    BY <2>1, <2>2 DEF Inserts, db_insert_reservation, Releases,
                      db_remove_user_unpaid_reservations
<1>4. QED
  BY <1>1, <1>2, <1>3 DEF AdminStep, admin_handle_request

\* The last statement of an EXIT, unless it is refused.
LEMMA ReleaseStep ==
    ASSUME TypeInv, NEW u \in User, AdminStep(u), At(u, "release")
    PROVE  Releases(u) \/ busyCount' > busyCount
<1>1. PICK busy \in BOOLEAN : ReleaseSeats(u, busy)
  BY DEF AdminStep, admin_handle_request, admin_listen_requests, AnswerUser, ListRooms,
         SeatMapUnknown, SeatMap, EnterRoom, AnswerSelect, CurrentRoom,
         InsertReservation, LeaveRoom, Viewers, Snapshot, LeaveRoomAgain,
         PayReservation, LogoutUser, Notify, PaymentDone, At
<1>2. CASE busy
  BY <1>1, <1>2 DEF ReleaseSeats, Sql, TypeInv, TypeOK, AdminTypeOK
<1>3. CASE ~ busy
  BY <1>1, <1>3 DEF ReleaseSeats, Releases
<1>4. QED
  BY <1>2, <1>3

\* An EXIT belongs to a session that is closed.
LEMMA LeavingIsClosed ==
    ASSUME TypeInv, ProtocolInv, NEW v \in User, Leaving(v)
    PROVE  session[v] = "closed"
BY DEF ProtocolInv, InStep, Leaving, Served, Serves, Told, Idle, TypeInv, TypeOK

\* The callers' steps take nobody out of service without an EXIT.
LEMMA CallersAnswerFor ==
    ASSUME TypeInv, ProtocolInv, NEW v \in User, AnswersFor(v),
           \/ AskRegistration \/ Register \/ UNCHANGED vars
           \/ \E u \in User : Customer(u) \/ Receive(u) \/ Timeout(u) \/ Deliver(u)
    PROVE  AnswersFor(v)'
<1>0. Leaving(v) => session[v] = "closed"
  BY LeavingIsClosed
<1>1. ASSUME handler'[v] = handler[v], session'[v] = session[v]
      PROVE  AnswersFor(v)'
  BY <1>1 DEF AnswersFor, Leaving
<1>2. ASSUME NEW u \in User, NEW r, NEW c, Ask(u, r, c) PROVE AnswersFor(v)'
  <2>1. CASE u = v
    BY <1>2, <2>1 DEF Ask, AnswersFor, TypeInv, TypeOK
  <2>2. CASE u # v
    BY <1>1, <1>2, <2>2 DEF Ask, Become, TypeInv, TypeOK, AdminTypeOK
  <2>3. QED
    BY <2>1, <2>2
<1>3. ASSUME NEW u \in User, EndSession(u) PROVE AnswersFor(v)'
  <2> DEFINE r == Request("exit")
  <2>1. r.choice = "exit" /\ r.pc = "queued"
    BY DEF Request, Idle
  <2>2. Become(u, r) /\ session' = [session EXCEPT ![u] = "closed"]
    BY <1>3 DEF EndSession
  <2> HIDE DEF r
  <2>3. CASE u = v
    BY <2>1, <2>2, <2>3 DEF AnswersFor, Leaving, Become, TypeInv, TypeOK, AdminTypeOK
  <2>4. CASE u # v
    BY <1>1, <2>2, <2>4 DEF Become, TypeInv, TypeOK, AdminTypeOK
  <2>5. QED
    BY <2>3, <2>4
<1>4. ASSUME NEW u \in User, Receive(u) PROVE AnswersFor(v)'
  BY <1>0, <1>1, <1>4 DEF Receive, AnswersFor, TypeInv, TypeOK
<1>5. ASSUME NEW u \in User, GoBack(u) \/ NoticeClosed(u) \/ Crash(u) \/ Deliver(u)
      PROVE  AnswersFor(v)'
  BY <1>1, <1>5 DEF GoBack, NoticeClosed, Crash, Deliver, adminVars
<1>6. CASE AskRegistration
  BY <1>1, <1>6 DEF AskRegistration, Become, TypeInv, TypeOK, AdminTypeOK
<1>7. CASE Register
  <2>1. session'[v] \in {session[v], "open"} /\ handler' = handler
    BY <1>7 DEF Register, TypeInv, TypeOK
  <2>2. QED
    BY <2>1 DEF AnswersFor, Leaving
<1>8. CASE UNCHANGED vars
  BY <1>1, <1>8 DEF vars, adminVars
<1>9. ASSUME NEW u \in User, Customer(u) PROVE AnswersFor(v)'
  BY <1>2, <1>3, <1>5, <1>9 DEF Customer, AskRooms, AskSeats, AskSeat, AskPayment, Exit
<1>10. ASSUME NEW u \in User, Timeout(u) PROVE AnswersFor(v)'
  BY <1>3, <1>10 DEF Timeout
<1>11. QED
  BY <1>4, <1>5, <1>6, <1>7, <1>8, <1>9, <1>10

\* No step strands an unpaid reservation, unless it is the refused DELETE.
LEMMA NobodyStrands ==
    ASSUME TypeInv, ProtocolInv, [Next]_vars,
           NEW row \in reservations', ~ row.paid, row.user \in User,
           ~ Stranded(row.user),
           ~ (At(row.user, "release") /\ busyCount' > busyCount)
    PROVE  AnswersFor(row.user)'
<1>0. \A old \in reservations :
          old.user = row.user => old.paid \/ AnswersFor(row.user)
  BY DEF Stranded
<1>1. CASE Restart
  BY <1>1 DEF Restart, clean_db_tables, db_remove_unpaid_reservations
<1>2. ASSUME NEW s \in Slot, AdminStep(s) PROVE AnswersFor(row.user)'
  <2>1. HandlerStep(s) /\ UNCHANGED session
    BY <1>2, AdminFlow DEF AdminStep
  <2>2. CASE row.user # s
    <3>1. row \in reservations
      BY <1>2, <2>2, RowsOfOthers
    <3>2. AnswersFor(row.user)
      BY <1>0, <3>1
    <3>3. QED
      BY <2>1, <2>2, <3>2 DEF HandlerStep, AnswersFor, Leaving
  <2>3. CASE row.user = s
    <3>1. s \in User /\ InStep(s)
      BY <2>3 DEF ProtocolInv
    <3>2. handler[s] # Idle
      BY <2>1 DEF HandlerStep, Follows, Answers, Idle
    <3>3. CASE session[s] = "waiting"
      BY <2>1, <2>3, <3>1, <3>3 DEF AnswersFor
    <3>4. CASE session[s] # "waiting"
      <4>1. Leaving(s)
        BY <3>1, <3>2, <3>4 DEF InStep, TypeInv, TypeOK
      <4>2. CASE At(s, "release")
        BY <1>2, <2>3, <3>1, <4>2, ReleaseStep DEF Releases,
                                                  db_remove_user_unpaid_reservations
      <4>3. CASE ~ At(s, "release")
        <5>1. Leaving(s)'
          BY <2>1, <4>1, <4>3 DEF HandlerStep, Follows, Answers, FirstStep, Leaving, At
        <5>2. QED
          BY <2>3, <5>1 DEF AnswersFor
      <4>4. QED
        BY <4>2, <4>3
    <3>5. QED
      BY <3>3, <3>4
  <2>4. QED
    BY <2>2, <2>3
<1>3. CASE \/ AskRegistration \/ Register \/ UNCHANGED vars
           \/ \E u \in User : Customer(u) \/ Receive(u) \/ Timeout(u) \/ Deliver(u)
  <2>1. reservations' = reservations
    BY <1>3 DEF AskRegistration, Register, vars, dbVars, Customer, AskRooms, AskSeats,
                AskSeat, AskPayment, Ask, GoBack, Exit, NoticeClosed, Crash, Receive,
                Timeout, EndSession, Deliver
  <2>2. AnswersFor(row.user)
    BY <1>0, <2>1
  <2>3. QED
    BY <1>3, <2>2, CallersAnswerFor
<1>4. QED
  BY <1>1, <1>2, <1>3 DEF Next

\* The step that strands the seats of a customer
LEMMA StrandingStep ==
    ASSUME TypeInv, ProtocolInv, [Next]_vars, NEW u \in User,
           ~ Stranded(u), Stranded(u)'
    PROVE  handler[u].pc = "release" /\ busyCount' > busyCount
<1>1. PICK row \in reservations' : row.user = u /\ ~ row.paid
  BY DEF Stranded
<1>2. ~ AnswersFor(row.user)'
  BY <1>1 DEF Stranded
<1>3. At(u, "release") /\ busyCount' > busyCount
  BY <1>1, <1>2, NobodyStrands
<1>4. QED
  BY <1>3 DEF At

\* As long as no statement was refused, an unpaid reservation has a session that
\* runs or an EXIT under way to answer for it, in every interleaving of
\* reservations, timeouts, EXITs and restarts (admin.cpp:40-44, 164-167): no
\* seat stays reserved for a customer who is gone.
THEOREM NoStrandedHoldHolds == Spec => []NoStrandedHold
<1>1. Init => NoStrandedHold
  BY DEF Init, DbInit, NoStrandedHold, Stranded
<1>2. TypeInv /\ TypeInv' /\ ProtocolInv /\ NoStrandedHold /\ [Next]_vars
      => NoStrandedHold'
  <2> SUFFICES ASSUME TypeInv, TypeInv', ProtocolInv, NoStrandedHold, [Next]_vars,
                      busyCount' = 0, NEW u \in User, Stranded(u)'
               PROVE  FALSE
    BY DEF NoStrandedHold
  <2>1. ~ Stranded(u) /\ ~ (busyCount' > busyCount)
    BY RefusalsCount DEF NoStrandedHold
  <2>2. QED
    BY <2>1, StrandingStep
<1>3. QED
  BY <1>1, <1>2, TypesHold, ProtocolHolds, PTL DEF Spec

\* However many statements are refused: seats are reserved for nobody only after
\* the DELETE of their own customer's EXIT was (admin.cpp:42).
THEOREM StrandedByTheDeleteHolds == Spec => StrandedByTheDelete
<1>1. TypeInv /\ ProtocolInv /\ [Next]_vars
      => [\A u \in User :
             ~ Stranded(u) /\ Stranded(u)'
             => handler[u].pc = "release" /\ busyCount' > busyCount]_vars
  BY StrandingStep
<1>2. QED
  BY <1>1, TypesHold, ProtocolHolds, PTL DEF Spec, StrandedByTheDelete
=============================================================================
