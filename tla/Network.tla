------------------------------- MODULE Network -------------------------------
(***************************************************************************)
(* The way of a call between a client and its listener.  On the client's   *)
(* host, mom runs a child per client and one forwarder that carries the    *)
(* calls of all of them over one socket; in the cinema one process per     *)
(* host takes them off the socket.  Each serves one call at a time.        *)
(*                                                                         *)
(* A System V queue is read by message type, so it is a function from      *)
(* types to sequences; the queue a forwarder reads with type 0 is one      *)
(* sequence.  Either holds Capacity messages, and a sender waits.          *)
(* What the admin answers is nondeterministic, as is the inactivity timer. *)
(***************************************************************************)
EXTENDS Integers, Sequences, FiniteSets

CONSTANTS Client,        \* the ids the database gives to the customers
          Host,          \* hosts with a mom
          HostOf,        \* client -> host
          Token,         \* client -> process id, its message type before the id
          Request,       \* client -> what it asks for once it is connected
          Capacity,      \* messages a queue takes
          LittleEndian,  \* byte order of the hosts
          MaxExpired,    \* bound: sessions that end by inactivity
          MaxDead        \* bound: listeners whose handler dies

\* database_data_init takes the ids 1 and 2; a process id that is some other
\* client's id as well would mix up their answers.
ASSUME ClientAssumption == Client \subseteq Nat \ {0, 1, 2}
ASSUME TokenAssumption ==
    /\ Token \in [Client -> Nat \ {0, 1, 2}]
    /\ \A c, d \in Client : Token[c] # d /\ (Token[c] = Token[d] => c = d)
\* The fields of a message that hold them are int (message.h:15, 52-53).
ASSUME WidthAssumption == \A c \in Client : c <= 2147483647 /\ Token[c] <= 2147483647
ASSUME HostAssumption == HostOf \in [Client -> Host]
ASSUME FiniteAssumption == IsFiniteSet(Host)
ASSUME RequestAssumption ==
    Request \in [Client -> SUBSET {"rooms", "seats", "select", "pay", "exit"}]
ASSUME CapacityAssumption == Capacity \in Nat \ {0}
ASSUME LittleEndianAssumption == LittleEndian \in BOOLEAN

VARIABLES child,       \* mom's child of client c, the client waiting for it
          toCinema,    \* host -> mom.cinema_queue, calls
          fromCinema,  \* host -> mom.cinema_queue, answers
          forwarder,   \* host -> what network_listen of mom waits for
          uplink,      \* host -> packets on the socket to the cinema
          downlink,    \* host -> packets on the socket from the cinema
          connection,  \* host -> the cinema's process for that host
          requests,    \* cinema.client_comm, calls
          responses,   \* cinema.client_comm, answers
          cinema,      \* the main loop, which registers customers
          listener,    \* client -> its listener
          expired      \* clients whose timer sent its EXIT

hostVars == <<toCinema, fromCinema, forwarder, uplink, downlink>>
cinemaVars == <<requests, responses, cinema, listener, expired>>
vars == <<child, hostVars, connection, cinemaVars>>

TYPE_CONNECTION_CINEMA_REQUEST == 1
UNDEFINED == -1
SUCCESS == 0
NOT_SUCCESS == 1

Type == {TYPE_CONNECTION_CINEMA_REQUEST} \cup Client \cup {Token[c] : c \in Client}
Choice == {"connect", "accepted", "rooms", "seats", "select", "pay", "exit", "invalid"}

----------------------------------------------------------------------------
(* Queues *)

Empty == [t \in Type |-> <<>>]

\* Messages in a queue
Load(queue) == Cardinality(UNION {{t} \X DOMAIN queue[t] : t \in Type})

\* msgsnd waits for space.
HasSpace(queue) == Load(queue) < Capacity

Put(queue, m) == [queue EXCEPT ![m.type] = Append(@, m)]
Without(queue, t) == [queue EXCEPT ![t] = Tail(@)]

\* meant is not in the message: it says what its sender meant by an answer.
Message(type, choice, id, success, meant) ==
    [type |-> type, choice |-> choice, id |-> id, success |-> success, meant |-> meant]

----------------------------------------------------------------------------
(* Packets: integers of 32 bits in network order, as far as the code says so *)

SwapLong(x) ==
    LET second == x \div 256
        third == second \div 256
        fourth == third \div 256
    IN  (((x % 256) * 256 + (second % 256)) * 256 + (third % 256)) * 256 + (fourth % 256)
SwapShort(x) == (x % 256) * 256 + ((x \div 256) % 256)

htonl(x) == IF LittleEndian THEN SwapLong(x) ELSE x
ntohl(x) == htonl(x)
ntohs(x) == IF LittleEndian THEN SwapShort(x) ELSE x % (256 * 256)

\* m6.success goes out as it is, m4.success as a long ...
serialize_message(m) ==
    Message(htonl(m.type), m.choice, htonl(m.id),
            CASE m.choice = "seats" -> htonl(m.success)
              [] m.choice \in {"select", "pay"} -> m.success
              [] OTHER -> 0, m.meant)

\* Mutant of deserialize_message: the message type stays in network order.
DeserializeTypeAsItIs(p) ==
    Message(p.type, p.choice, ntohl(p.id), p.success, p.meant)

\* ... and they are read as a long and as a short.
deserialize_message(p) ==
    Message(ntohl(p.type), p.choice, ntohl(p.id),
            CASE p.choice = "seats" -> ntohs(p.success)
              [] p.choice \in {"select", "pay"} -> ntohl(p.success)
              [] OTHER -> 0, p.meant)

----------------------------------------------------------------------------
Init ==
    /\ child = [c \in Client |-> [at |-> "receive", asked |-> "exit", id |-> UNDEFINED]]
    /\ toCinema = [h \in Host |-> <<>>]
    /\ fromCinema = [h \in Host |-> Empty]
    /\ forwarder = [h \in Host |-> "call"]
    /\ uplink = [h \in Host |-> <<>>]
    /\ downlink = [h \in Host |-> <<>>]
    /\ connection = [h \in Host |-> [at |-> "receive", type |-> 0]]
    /\ requests = Empty
    /\ responses = Empty
    /\ cinema = [at |-> "receive", token |-> 0]
    /\ listener = [c \in Client |-> [at |-> "none", asked |-> "exit"]]
    /\ expired = {}

----------------------------------------------------------------------------
(* The client and mom's child for it *)

\* The message type under which the child gets answers
TypeOf(c) == IF child[c].id = UNDEFINED THEN Token[c] ELSE child[c].id

Call(c, choice) ==
    /\ child[c].at = "receive"
    /\ (choice = "connect") <=> (child[c].id = UNDEFINED)
    /\ child' = [child EXCEPT ![c] = [@ EXCEPT !.at = "send", !.asked = choice]]
    /\ UNCHANGED <<hostVars, connection, cinemaVars>>

\* A connection request keeps its message type; it carries the token.
CallMessage(c) ==
    IF child[c].asked = "connect"
    THEN Message(TYPE_CONNECTION_CINEMA_REQUEST, "connect", Token[c], 0, "none")
    ELSE Message(child[c].id, child[c].asked, 0, 0, "none")

SendCall(c) ==
    LET h == HostOf[c]
    IN  /\ child[c].at = "send"
        /\ Len(toCinema[h]) < Capacity
        /\ toCinema' = [toCinema EXCEPT ![h] = Append(@, CallMessage(c))]
        /\ child' = [child EXCEPT ![c].at = "await"]
        /\ UNCHANGED <<fromCinema, forwarder, uplink, downlink, connection, cinemaVars>>

\* Mutant of Verdict: a refusal is NOT_SUCCESS for every kind of call.
VerdictByNotSuccess(asked, m) ==
    CASE m.choice = "exit" -> "closed"
      [] m.choice = "invalid" -> "refused"
      [] OTHER -> IF m.success = NOT_SUCCESS THEN "refused" ELSE "accepted"

\* How login, get_rooms, get_seats, reserve_seat and pay_seats read an answer
Verdict(asked, m) ==
    CASE m.choice = "exit" -> "closed"
      [] m.choice # "exit" /\ m.choice # (IF asked = "connect" THEN "accepted" ELSE asked)
             -> "refused"
      [] m.choice \in {"accepted", "rooms"} -> "accepted"
      [] m.choice \in {"seats", "pay"} ->
             IF m.success = NOT_SUCCESS THEN "refused" ELSE "accepted"
      [] m.choice = "select" -> IF m.success # SUCCESS THEN "refused" ELSE "accepted"

\* process_message learns the id from the answer to a connection request and
\* ends the child with an EXIT.
TakeAnswer(c) ==
    LET h == HostOf[c]
        t == TypeOf(c)
        m == Head(fromCinema[h][t])
    IN  /\ child[c].at = "await"
        /\ fromCinema[h][t] # <<>>
        /\ fromCinema' = [fromCinema EXCEPT ![h] = Without(@, t)]
        /\ child' = [child EXCEPT ![c] =
               [@ EXCEPT !.at = IF m.choice = "exit" THEN "end" ELSE "receive",
                         !.id = IF m.choice = "accepted" THEN m.id ELSE child[c].id]]
        /\ UNCHANGED <<toCinema, forwarder, uplink, downlink, connection, cinemaVars>>

----------------------------------------------------------------------------
(* mom's forwarder: network_listen *)

ForwardCall(h) ==
    /\ forwarder[h] = "call"
    /\ toCinema[h] # <<>>
    /\ toCinema' = [toCinema EXCEPT ![h] = Tail(@)]
    /\ uplink' = [uplink EXCEPT ![h] = Append(@, serialize_message(Head(toCinema[h])))]
    /\ forwarder' = [forwarder EXCEPT ![h] = "answer"]
    /\ UNCHANGED <<child, fromCinema, downlink, connection, cinemaVars>>

ForwardAnswer(h) ==
    /\ forwarder[h] = "answer"
    /\ downlink[h] # <<>>
    /\ HasSpace(fromCinema[h])
    /\ downlink' = [downlink EXCEPT ![h] = Tail(@)]
    /\ fromCinema' = [fromCinema EXCEPT ![h] = Put(@, deserialize_message(Head(downlink[h])))]
    /\ forwarder' = [forwarder EXCEPT ![h] = "call"]
    /\ UNCHANGED <<child, toCinema, uplink, connection, cinemaVars>>

----------------------------------------------------------------------------
(* The cinema's process for the connection of a host: network_listen *)

\* The answer to a connection request has the token as its type.
AnswerType(m) == IF m.type = TYPE_CONNECTION_CINEMA_REQUEST THEN m.id ELSE m.type

TakePacket(h) ==
    LET m == deserialize_message(Head(uplink[h]))
    IN  /\ connection[h].at = "receive"
        /\ uplink[h] # <<>>
        /\ HasSpace(requests)
        /\ uplink' = [uplink EXCEPT ![h] = Tail(@)]
        /\ requests' = Put(requests, m)
        /\ connection' = [connection EXCEPT ![h] = [at |-> "await", type |-> AnswerType(m)]]
        /\ UNCHANGED <<child, toCinema, fromCinema, forwarder, downlink,
                       responses, cinema, listener, expired>>

\* Mutant of ReturnAnswer: receive_message with type 0.
ReturnAnyAnswer(h) ==
    \E t \in Type :
        /\ connection[h].at = "await"
        /\ responses[t] # <<>>
        /\ responses' = Without(responses, t)
        /\ downlink' = [downlink EXCEPT ![h] =
               Append(@, serialize_message(Head(responses[t])))]
        /\ connection' = [connection EXCEPT ![h] = [at |-> "receive", type |-> 0]]
        /\ UNCHANGED <<child, toCinema, fromCinema, forwarder, uplink,
                       requests, cinema, listener, expired>>

ReturnAnswer(h) ==
    LET t == connection[h].type
    IN  /\ connection[h].at = "await"
        /\ responses[t] # <<>>
        /\ responses' = Without(responses, t)
        /\ downlink' = [downlink EXCEPT ![h] =
               Append(@, serialize_message(Head(responses[t])))]
        /\ connection' = [connection EXCEPT ![h] = [at |-> "receive", type |-> 0]]
        /\ UNCHANGED <<child, toCinema, fromCinema, forwarder, uplink,
                       requests, cinema, listener, expired>>

----------------------------------------------------------------------------
(* The cinema: registration, listeners and timers *)

cinema_take_client ==
    /\ cinema.at = "receive"
    /\ requests[TYPE_CONNECTION_CINEMA_REQUEST] # <<>>
    /\ cinema' = [at |-> "confirm", token |-> Head(requests[TYPE_CONNECTION_CINEMA_REQUEST]).id]
    /\ requests' = Without(requests, TYPE_CONNECTION_CINEMA_REQUEST)
    /\ UNCHANGED <<child, hostVars, connection, responses, listener, expired>>

\* The client that is registered learns its id, and its listener is forked.
send_confirmation(c) ==
    /\ cinema.at = "confirm"
    /\ cinema.token = Token[c]
    /\ HasSpace(responses)
    /\ responses' = Put(responses, Message(Token[c], "accepted", c, 0, "accepted"))
    /\ cinema' = [at |-> "receive", token |-> 0]
    /\ listener' = [listener EXCEPT ![c].at = "receive"]
    /\ UNCHANGED <<child, hostVars, connection, requests, expired>>

\* The call goes to the admin, whose handler may die (admin.cpp:84).
Listen(c) ==
    /\ listener[c].at = "receive"
    /\ requests[c] # <<>>
    /\ requests' = Without(requests, c)
    /\ \E at \in {"answer", "dead"} :
          /\ at = "dead" => /\ Cardinality({d \in Client : listener[d].at = "dead"}) < MaxDead
                            /\ Head(requests[c]).choice \in {"seats", "select"}
          /\ listener' = [listener EXCEPT ![c] =
                 [@ EXCEPT !.at = at, !.asked = Head(requests[c]).choice]]
    /\ UNCHANGED <<child, hostVars, connection, responses, cinema, expired>>

\* The admin's answers
Answers(c, asked) ==
    LET answer(choice, success, meant) == Message(c, choice, 0, success, meant)
    IN  CASE asked = "rooms"  -> {answer("rooms", SUCCESS, "accepted")}
          [] asked = "seats"  -> {answer("seats", SUCCESS, "accepted"),
                                  answer("invalid", 0, "refused")}
          [] asked = "select" -> {answer("select", SUCCESS, "accepted"),
                                  answer("select", NOT_SUCCESS, "refused"),
                                  answer("invalid", 0, "refused")}
          [] asked = "pay"    -> {answer("pay", SUCCESS, "accepted")}
          [] OTHER -> {}

Answer(c) ==
    /\ listener[c].at = "answer"
    /\ HasSpace(responses)
    /\ \E m \in Answers(c, listener[c].asked) : responses' = Put(responses, m)
    /\ listener' = [listener EXCEPT ![c].at = "receive"]
    /\ UNCHANGED <<child, hostVars, connection, requests, cinema, expired>>

\* An EXIT ends the session.  The listener takes one message more when it
\* finds the mark of the timer, which comes after the timer's EXIT.
AnswerExit(c) ==
    /\ listener[c].at = "answer"
    /\ listener[c].asked = "exit"
    /\ HasSpace(responses)
    /\ responses' = Put(responses, Message(c, "exit", 0, 0, "closed"))
    /\ \E at \in IF c \in expired THEN {"drain", "done"} ELSE {"done"} :
          listener' = [listener EXCEPT ![c].at = at]
    /\ UNCHANGED <<child, hostVars, connection, requests, cinema, expired>>

Drain(c) ==
    /\ listener[c].at = "drain"
    /\ requests[c] # <<>>
    /\ requests' = Without(requests, c)
    /\ listener' = [listener EXCEPT ![c].at = "done"]
    /\ UNCHANGED <<child, hostVars, connection, responses, cinema, expired>>

\* Mutant of Expire: the timer goes on after its EXIT.
ExpireAgain(c) ==
    /\ Cardinality(expired \cup {c}) <= MaxExpired
    /\ listener[c].at \in {"receive", "answer", "dead"}
    /\ HasSpace(requests)
    /\ requests' = Put(requests, Message(c, "exit", 0, 0, "closed"))
    /\ expired' = expired \cup {c}
    /\ UNCHANGED <<child, hostVars, connection, responses, cinema, listener>>

\* The timer's EXIT, once, while the listener has not killed it
Expire(c) ==
    /\ Cardinality(expired) < MaxExpired
    /\ c \notin expired
    /\ listener[c].at \in {"receive", "answer", "dead"}
    /\ HasSpace(requests)
    /\ requests' = Put(requests, Message(c, "exit", 0, 0, "closed"))
    /\ expired' = expired \cup {c}
    /\ UNCHANGED <<child, hostVars, connection, responses, cinema, listener>>

----------------------------------------------------------------------------
ChildStep(c) == SendCall(c) \/ TakeAnswer(c)
HostStep(h) == ForwardCall(h) \/ ForwardAnswer(h)
ConnectionStep(h) == TakePacket(h) \/ ReturnAnswer(h)
CinemaStep == cinema_take_client \/ \E c \in Client : send_confirmation(c)
ListenerStep(c) == Listen(c) \/ Answer(c) \/ AnswerExit(c) \/ Drain(c)

Next ==
    \/ \E c \in Client : \/ \E choice \in Request[c] \cup {"connect"} : Call(c, choice)
                         \/ ChildStep(c) \/ ListenerStep(c) \/ Expire(c)
    \/ \E h \in Host : HostStep(h) \/ ConnectionStep(h)
    \/ CinemaStep

Spec == Init /\ [][Next]_vars

\* Every process that can run does.  Nobody has to call and no timer has to
\* expire; a handler need not die.
FairSpec == /\ Spec
            /\ WF_vars(CinemaStep)
            /\ \A c \in Client : WF_vars(ChildStep(c)) /\ WF_vars(ListenerStep(c))
            /\ \A h \in Host : WF_vars(HostStep(h)) /\ WF_vars(ConnectionStep(h))

----------------------------------------------------------------------------
(* Safety *)

Verdicts == {"accepted", "refused", "closed"}
MessageSet == [type : Type, choice : Choice, id : Nat, success : Nat,
               meant : Verdicts \cup {"none"}]
PacketSet == [type : Nat, choice : Choice, id : Nat, success : Nat,
              meant : Verdicts \cup {"none"}]

TypeOK ==
    /\ child \in [Client -> [at : {"receive", "send", "await", "end"},
                             asked : Choice,
                             id : Client \cup {UNDEFINED}]]
    /\ toCinema \in [Host -> Seq(MessageSet)]
    /\ fromCinema \in [Host -> [Type -> Seq(MessageSet)]]
    /\ forwarder \in [Host -> {"call", "answer"}]
    /\ uplink \in [Host -> Seq(PacketSet)]
    /\ downlink \in [Host -> Seq(PacketSet)]
    /\ connection \in [Host -> [at : {"receive", "await"}, type : Type \cup {0}]]
    /\ requests \in [Type -> Seq(MessageSet)]
    /\ responses \in [Type -> Seq(MessageSet)]
    /\ cinema \in [at : {"receive", "confirm"}, token : Nat]
    /\ listener \in [Client -> [at : {"none", "receive", "answer", "dead", "drain", "done"},
                                asked : Choice]]
    /\ expired \subseteq Client

\* What comes back to a host is read by type alone (mom.cpp:203-204): under a
\* client's type there is never anything but one answer to the call it waits
\* for, whatever the other clients of the host, late EXITs and drained calls do.
Expected(c) == IF child[c].asked = "connect" THEN {"accepted"}
               ELSE {child[c].asked, "invalid", "exit"}

AnswersReachTheirCaller ==
    \A c \in Client :
        LET arrived == fromCinema[HostOf[c]][TypeOf(c)]
        IN  /\ arrived # <<>> => child[c].at = "await" /\ Len(arrived) = 1
            /\ \A i \in DOMAIN arrived :
                  /\ arrived[i].choice \in Expected(c)
                  /\ arrived[i].choice = "accepted" => arrived[i].id = c

\* The client takes for accepted or refused what the admin accepted or refused,
\* although the two ends of the socket do not agree on the bytes of the
\* success field (socket.cpp:133, 150, 231, 249).
VerdictsArrive ==
    \A c \in Client :
        LET arrived == fromCinema[HostOf[c]][TypeOf(c)]
        IN  \A i \in DOMAIN arrived :
                Verdict(child[c].asked, arrived[i]) = arrived[i].meant

\* Unread messages in the two queues all clients of the cinema share: the calls
\* of a host come one by one, so only the timers add to one for each host.
QueuesKeepTheirPlaces ==
    /\ Load(responses) <= Cardinality(Host) + Cardinality(expired)
    /\ Load(requests) <= Cardinality(Host) + Cardinality(expired)

----------------------------------------------------------------------------
(* Liveness *)

\* A client that waits is answered, or its host's forwarder waits for a
\* listener whose handler died (mom.cpp:231-236, cinema.cpp:181-191): then all
\* calls of that host stand still, but of no other.
HostStandsStill(h) == \E c \in Client : HostOf[c] = h /\ listener[c].at = "dead"

CallsAreAnswered ==
    \A c \in Client :
        child[c].at \in {"send", "await"}
        ~> \/ child[c].at \in {"receive", "end"}
           \/ HostStandsStill(HostOf[c])
=============================================================================
