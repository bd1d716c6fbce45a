---------------------------- MODULE NetworkProofs ----------------------------
(***************************************************************************)
(* Theorems about Network for any set of clients on any number of hosts,   *)
(* any ids that fit an int, queues of any size and either byte order.      *)
(***************************************************************************)
EXTENDS Network, FiniteSetTheorems, SequenceTheorems, TLAPS

USE ClientAssumption, TokenAssumption, HostAssumption

----------------------------------------------------------------------------
(* Integers in network order and back *)

Word == {x \in Nat : ((x \div 256) \div 256) \div 256 < 256}

LEMMA Division ==
  ASSUME NEW q \in Nat, NEW r \in 0 .. 255, NEW x, x = 256 * q + r
  PROVE  x \in Nat /\ x \div 256 = q /\ x % 256 = r
BY SMTT(30)

LEMMA Divided ==
  ASSUME NEW x \in Nat
  PROVE  /\ x \div 256 \in Nat /\ x % 256 \in 0 .. 255
         /\ x = 256 * (x \div 256) + (x % 256)
BY SMTT(30)

\* The ids and the process ids of the customers fit a word, and 0 and 1 do.
LEMMA Words ==
  /\ Word \subseteq Nat /\ 0 \in Word /\ 1 \in Word
  /\ \A c \in Client : c \in Word /\ Token[c] \in Word
<1>1. ASSUME NEW x \in Nat, x <= 2147483647
      PROVE  x \in Word
  BY <1>1, SMTT(30) DEF Word
<1>2. \A c \in Client : c \in Nat /\ Token[c] \in Nat
  OBVIOUS
<1>3. 0 \in Word /\ 1 \in Word
  BY <1>1, SMT
<1> QED BY <1>1, <1>2, <1>3, WidthAssumption, SMT DEF Word

\* Reversing the bytes of a word twice gives the word.
LEMMA SwapTwice ==
  ASSUME NEW x \in Word
  PROVE  SwapLong(x) \in Nat /\ SwapLong(SwapLong(x)) = x
<1> DEFINE b == x \div 256  c == b \div 256  d == c \div 256
           p == x % 256  q == b % 256  r == c % 256
<1>1. b \in Nat /\ p \in 0 .. 255 /\ x = 256 * b + p  BY Divided DEF Word
<1>2. c \in Nat /\ q \in 0 .. 255 /\ b = 256 * c + q  BY Divided, <1>1, ZenonT(60)
<1>3. d \in Nat /\ r \in 0 .. 255 /\ c = 256 * d + r  BY Divided, <1>2, ZenonT(60)
<1>4. d \in 0 .. 255 /\ d % 256 = d  BY <1>3 DEF Word
<1>5. SwapLong(x) = ((p * 256 + q) * 256 + r) * 256 + d
  BY <1>4 DEF SwapLong
<1> HIDE DEF b, c, d, p, q, r
<1> DEFINE u == 256 * p + q   v == 256 * u + r   y == 256 * v + d
<1>6. u \in Nat /\ v \in Nat /\ y \in Nat
  BY <1>1, <1>2, <1>3, <1>4
<1>7. u \div 256 = p /\ u % 256 = q /\ p % 256 = p
  <2>1. p \in Nat /\ q \in 0 .. 255 /\ u = 256 * p + q
    BY <1>1, <1>2
  <2>2. p % 256 = p
    BY <1>1
  <2> HIDE DEF u
  <2> QED BY <2>1, <2>2, Division
<1>8. v \div 256 = u /\ v % 256 = r
  <2> HIDE DEF u
  <2> QED BY Division, <1>6, <1>3
<1>9. y \div 256 = v /\ y % 256 = d
  <2> HIDE DEF u, v
  <2> QED BY Division, <1>6, <1>4
<1>10. SwapLong(x) = y
  BY <1>5, <1>1, <1>2, <1>3, <1>4
<1> HIDE DEF u, v, y
<1>11. SwapLong(y) = ((d * 256 + r) * 256 + q) * 256 + p
  BY <1>7, <1>8, <1>9 DEF SwapLong
<1>12. ((d * 256 + r) * 256 + q) * 256 + p = x
  BY <1>1, <1>2, <1>3, <1>4
<1> QED BY <1>6, <1>10, <1>11, <1>12

\* Any natural number has an image in network order; one that fits survives.
LEMMA SwapType ==
  ASSUME NEW x \in Nat
  PROVE  SwapLong(x) \in Nat /\ SwapShort(x) \in Nat
<1> DEFINE b == x \div 256  c == b \div 256  d == c \div 256
<1>1. b \in Nat /\ x % 256 \in Nat  BY Divided
<1>2. c \in Nat /\ b % 256 \in Nat  BY Divided, <1>1
<1>3. d \in Nat /\ c % 256 \in Nat  BY Divided, <1>2
<1>4. d % 256 \in Nat  BY Divided, <1>3
<1>5. SwapLong(x) = (((x % 256) * 256 + (b % 256)) * 256 + (c % 256)) * 256 + (d % 256)
  BY DEF SwapLong
<1>6. SwapShort(x) = (x % 256) * 256 + (b % 256)
  BY DEF SwapShort
<1> HIDE DEF b, c, d
<1> QED BY <1>1, <1>2, <1>3, <1>4, <1>5, <1>6

\* What one end writes with htonl the other reads back with ntohl.
LEMMA NetworkOrder ==
  /\ \A x \in Nat : htonl(x) \in Nat /\ ntohl(x) \in Nat /\ ntohs(x) \in Nat
  /\ \A x \in Word : ntohl(htonl(x)) = x
<1>1. ASSUME NEW x \in Nat
      PROVE  x % (256 * 256) \in Nat
  OBVIOUS
<1>2. ASSUME NEW x \in Nat
      PROVE  htonl(x) \in Nat /\ ntohl(x) \in Nat /\ ntohs(x) \in Nat
  BY SwapType, <1>1 DEF htonl, ntohl, ntohs
<1>3. ASSUME NEW x \in Word
      PROVE  ntohl(htonl(x)) = x
  BY SwapTwice DEF htonl, ntohl
<1> QED BY <1>2, <1>3

\* The two values of a success field: 0 is read as 0 by either function, and 1,
\* which is sent as it is and read with ntohl, as something else.
LEMMA SuccessOrder ==
  ntohs(htonl(0)) = 0 /\ ntohl(0) = 0 /\ ntohl(1) # 0
<1>1. SwapLong(0) = 0 /\ SwapShort(0) = 0 /\ SwapLong(1) # 0
  BY SMT DEF SwapLong, SwapShort
<1>2. 0 % (256 * 256) = 0
  OBVIOUS
<1> QED BY <1>1, <1>2 DEF htonl, ntohl, ntohs

----------------------------------------------------------------------------
(***************************************************************************)
(* The inductive invariant.  A forwarder is serial, so a host has at most  *)
(* one call in the cinema; the rest says what is left behind there when a  *)
(* session ends, and that none of it can be taken for an answer.           *)
(***************************************************************************)

Accepted(c) == Message(Token[c], "accepted", c, 0, "accepted")
Exit(c) == Message(c, "exit", 0, 0, "closed")
IsCall(m) == m.meant = "none"
ListenerPc == {"none", "receive", "answer", "dead", "drain", "done"}
Asked == {"rooms", "seats", "select", "pay", "exit"}

\* An EXIT is the last message of a listener.
Over(c) == listener[c].at \in {"drain", "done"}
Open(c) == Over(c) => responses[c] # <<>>

\* Nothing has been done yet for a call of a customer without an id.
Fresh(c) == child[c].id = UNDEFINED => listener[c].at = "none"
Ready(c) == Fresh(c) /\ Open(c)

\* Client c waits, and its call has left the queue of its host.
Queued(c) == \E i \in DOMAIN toCinema[HostOf[c]] :
                 toCinema[HostOf[c]][i] = CallMessage(c)
Away(c) == child[c].at = "await" /\ ~Queued(c)

\* What comes back is for c, about its call, and will be read as it was meant.
Good(c, m) ==
    /\ m.type = TypeOf(c)
    /\ m.choice \in Expected(c)
    /\ Verdict(child[c].asked, m) = m.meant
    /\ m.choice = "accepted" => m.id = c /\ listener[c].at # "none"
    /\ m.choice # "exit" => Open(c)

Children ==
    \A c \in Client :
        /\ child[c].id \in {UNDEFINED, c}
        /\ child[c].id = c => listener[c].at # "none"
        /\ child[c].at \in {"send", "await"} =>
              \/ child[c].asked = "connect" /\ child[c].id = UNDEFINED
              \/ child[c].asked \in Asked /\ child[c].id = c
        /\ child[c].at \in {"receive", "send"} => Ready(c)

\* The calls in the queue of a host, at most one for each of its clients
Calls ==
    \A h \in Host :
        /\ \A i \in DOMAIN toCinema[h] :
              \E c \in Client : /\ HostOf[c] = h /\ child[c].at = "await" /\ Ready(c)
                                /\ toCinema[h][i] = CallMessage(c)
        /\ \A i, j \in DOMAIN toCinema[h] : toCinema[h][i] = toCinema[h][j] => i = j

\* The call of a host on its way to the cinema, in it, or its answer on the way
\* back
Idle(h) == uplink[h] = <<>> /\ downlink[h] = <<>> /\ connection[h].at = "receive"

Carries(h, c) == HostOf[c] = h /\ Away(c) /\ fromCinema[h][TypeOf(c)] = <<>>

GoesUp(h, c) ==
    /\ Carries(h, c) /\ Ready(c)
    /\ uplink[h] = <<serialize_message(CallMessage(c))>>
    /\ downlink[h] = <<>> /\ connection[h].at = "receive"

IsHeld(h, c) ==
    /\ Carries(h, c) /\ Open(c)
    /\ connection[h] = [at |-> "await", type |-> TypeOf(c)]
    /\ uplink[h] = <<>> /\ downlink[h] = <<>>

GoesDown(h, c) ==
    /\ Carries(h, c)
    /\ Len(downlink[h]) = 1 /\ Good(c, deserialize_message(Head(downlink[h])))
    /\ uplink[h] = <<>> /\ connection[h].at = "receive"

Wires ==
    \A h \in Host :
        \/ forwarder[h] = "call" /\ Idle(h)
        \/ /\ forwarder[h] = "answer"
           /\ \E c \in Client : GoesUp(h, c) \/ IsHeld(h, c) \/ GoesDown(h, c)

\* The answers in the queue of a host
Arrived ==
    \A h \in Host, t \in Type :
        fromCinema[h][t] # <<>> =>
            \E c \in Client :
                /\ HostOf[c] = h /\ t = TypeOf(c) /\ Away(c)
                /\ Len(fromCinema[h][t]) = 1 /\ Good(c, Head(fromCinema[h][t]))

\* The connection waits for the answer to customer c.
Waits(c) == connection[HostOf[c]] = [at |-> "await", type |-> TypeOf(c)]
Connecting(c) == child[c].id = UNDEFINED /\ Waits(c)
Visiting(c) == child[c].id = c /\ Waits(c)

Registers == requests[TYPE_CONNECTION_CINEMA_REQUEST]

Registration ==
    /\ \A i \in DOMAIN Registers :
          \E c \in Client : /\ Registers[i].id = Token[c]
                            /\ Connecting(c) /\ listener[c].at = "none"
                            /\ cinema # [at |-> "confirm", token |-> Token[c]]
    /\ \A i, j \in DOMAIN Registers : Registers[i].id = Registers[j].id => i = j
    /\ \A c \in Client :
          cinema = [at |-> "confirm", token |-> Token[c]] =>
              Connecting(c) /\ listener[c].at = "none"

Confirmed ==
    \A c \in Client :
        responses[Token[c]] # <<>> =>
            /\ responses[Token[c]] = <<Accepted(c)>>
            /\ Connecting(c) /\ listener[c].at # "none"

\* The session of a registered customer.  Its calls in the queue of requests
\* (there is one, the one it waits for), the timer's EXIT (one), ...
Unheard(visiting, asked, calls, answers, at, heard) ==
    /\ \A i \in DOMAIN calls :
          IsCall(calls[i]) /\ at \notin {"drain", "done"} =>
              /\ visiting /\ calls[i].choice = asked /\ answers = <<>>
              /\ at = "receive" \/ heard = "exit"
    /\ \A i, j \in DOMAIN calls : IsCall(calls[i]) /\ IsCall(calls[j]) => i = j

Timed(c, calls, late) ==
    /\ \A i \in DOMAIN calls : ~IsCall(calls[i]) => late /\ calls[i] = Exit(c)
    /\ \A i, j \in DOMAIN calls : ~IsCall(calls[i]) /\ ~IsCall(calls[j]) => i = j

\* ... what its listener is about to answer, or will never answer, ...
Heard(visiting, asked, calls, answers, at, heard, late) ==
    /\ at = "none" => calls = <<>> /\ answers = <<>> /\ ~late
    /\ at = "dead" => heard # "exit"
    /\ at \in {"answer", "dead"} /\ heard # "exit" =>
          visiting /\ heard = asked /\ answers = <<>>
    /\ at = "answer" /\ heard = "exit" =>
          \/ late /\ \A i \in DOMAIN calls : IsCall(calls[i])
          \/ /\ visiting /\ asked = "exit" /\ answers = <<>>
             /\ \A i \in DOMAIN calls : ~IsCall(calls[i])

\* ... the answers in the queue of responses, ...
Said(c, visiting, asked, answers, at, late) ==
    \A i \in DOMAIN answers :
        IF at \in {"drain", "done"} /\ i = Len(answers)
        THEN answers[i] = Exit(c) /\ (late \/ (visiting /\ asked = "exit"))
        ELSE i = 1 /\ visiting /\ answers[i] \in Answers(c, asked)

\* ... and what is left when it is over.
Left(visiting, calls, answers, at, late) ==
    at \in {"drain", "done"} /\ calls # <<>> =>
        /\ Len(calls) = 1 /\ late
        /\ answers # <<>> => visiting /\ Len(answers) = 1

Session(c, visiting, asked, calls, answers, at, heard, late) ==
    /\ Unheard(visiting, asked, calls, answers, at, heard)
    /\ Timed(c, calls, late)
    /\ Heard(visiting, asked, calls, answers, at, heard, late)
    /\ Said(c, visiting, asked, answers, at, late)
    /\ Left(visiting, calls, answers, at, late)

SessionOf(c) ==
    \A visiting, late \in BOOLEAN :
        (visiting <=> Visiting(c)) /\ (late <=> c \in expired) =>
            Session(c, visiting, child[c].asked, requests[c], responses[c],
                    listener[c].at, listener[c].asked, late)

Sessions == \A c \in Client : SessionOf(c)

IInv == /\ TypeOK /\ Children /\ Calls /\ Wires /\ Arrived
        /\ Registration /\ Confirmed /\ Sessions

----------------------------------------------------------------------------
(* Steps of one session *)

LEMMA OfTail ==
  ASSUME NEW M, NEW q \in Seq(M), q # <<>>
  PROVE  /\ Head(q) \in M /\ Tail(q) \in Seq(M)
         /\ DOMAIN q = 1 .. Len(q) /\ 1 \in DOMAIN q /\ Head(q) = q[1]
         /\ Len(q) \in Nat \ {0} /\ Len(Tail(q)) = Len(q) - 1
         /\ DOMAIN Tail(q) = 1 .. Len(q) - 1
         /\ \A i \in DOMAIN Tail(q) : i + 1 \in DOMAIN q /\ Tail(q)[i] = q[i + 1]
  OBVIOUS

LEMMA OfAppend ==
  ASSUME NEW M, NEW q \in Seq(M), NEW m \in M
  PROVE  /\ Append(q, m) \in Seq(M) /\ Append(q, m) # <<>>
         /\ Len(q) \in Nat /\ Len(Append(q, m)) = Len(q) + 1
         /\ DOMAIN q = 1 .. Len(q) /\ DOMAIN Append(q, m) = 1 .. Len(q) + 1
         /\ Append(q, m)[Len(q) + 1] = m
         /\ \A i \in DOMAIN Append(q, m) :
               i = Len(q) + 1 \/ (i \in DOMAIN q /\ Append(q, m)[i] = q[i])
  OBVIOUS

\* The timer's EXIT is no call of a customer.
LEMMA ExitIsNoCall == \A c \in Client : ~IsCall(Exit(c)) /\ Exit(c).choice = "exit"
  BY DEF IsCall, Exit, Message

\* The connection takes a call of a customer whose listener can still answer.
LEMMA SessionCalls ==
  ASSUME NEW c \in Client, NEW asked, NEW was, NEW calls \in Seq(MessageSet),
         NEW answers \in Seq(MessageSet), NEW at \in ListenerPc, NEW heard,
         NEW late \in BOOLEAN, NEW m \in MessageSet,
         NEW before \in BOOLEAN, ~before, NEW visiting \in BOOLEAN, visiting,
         Session(c, before, was, calls, answers, at, heard, late),
         at \in {"drain", "done"} => answers # <<>>, at # "none",
         IsCall(m), m.choice = asked
  PROVE  Session(c, visiting, asked, Append(calls, m), answers, at, heard, late)
<1> DEFINE q == Append(calls, m)
<1> USE DEF Session
<1>1. \A i \in DOMAIN q : i = Len(calls) + 1 \/ (i \in DOMAIN calls /\ q[i] = calls[i])
  BY OfAppend
<1>2. q[Len(calls) + 1] = m /\ q # <<>> /\ Len(q) = Len(calls) + 1 /\ Len(calls) \in Nat
  BY OfAppend
<1>3. at \in {"drain", "done"} => answers # <<>> /\ Len(answers) = 1 /\ late /\ calls = <<>>
  <2> SUFFICES ASSUME at \in {"drain", "done"}
               PROVE  answers # <<>> /\ Len(answers) = 1 /\ late /\ calls = <<>>
    OBVIOUS
  <2>1. answers # <<>> /\ DOMAIN answers = 1 .. Len(answers) /\ Len(answers) \in Nat \ {0}
    OBVIOUS
  <2>2. 1 = Len(answers) /\ late
    BY <2>1 DEF Said
  <2>3. calls = <<>>
    BY <2>1 DEF Left
  <2> QED BY <2>1, <2>2, <2>3
<1>4. at \notin {"drain", "done"} => answers = <<>>
  <2> SUFFICES ASSUME at \notin {"drain", "done"}, answers # <<>>
               PROVE  FALSE
    OBVIOUS
  <2>1. 1 \in DOMAIN answers
    OBVIOUS
  <2> QED BY <2>1 DEF Said
<1>5. \A i \in DOMAIN calls : ~IsCall(calls[i])
  BY <1>3 DEF Unheard
<1>6. at \in {"answer", "dead"} => heard = "exit"
  BY DEF Heard
<1> HIDE DEF q
<1>7. Unheard(visiting, asked, q, answers, at, heard)
  <2>1. ASSUME NEW i \in DOMAIN q, IsCall(q[i])
        PROVE  i = Len(calls) + 1
    BY <2>1, <1>1, <1>5
  <2>2. ASSUME NEW i \in DOMAIN q, IsCall(q[i]), at \notin {"drain", "done"}
        PROVE  q[i].choice = asked /\ answers = <<>> /\ (at = "receive" \/ heard = "exit")
    <3>1. at \notin {"answer", "dead"} => at = "receive"
      BY <2>2 DEF ListenerPc
    <3> QED BY <2>1, <2>2, <1>2, <1>4, <1>6, <3>1
  <2> QED BY <2>1, <2>2 DEF Unheard
<1>8. Timed(c, q, late)
  <2>1. ASSUME NEW i \in DOMAIN q, ~IsCall(q[i])
        PROVE  i \in DOMAIN calls /\ q[i] = calls[i]
    BY <2>1, <1>1, <1>2
  <2> QED BY <2>1 DEF Timed
<1>9. Heard(visiting, asked, q, answers, at, heard, late)
  <2>1. \A i \in DOMAIN q : late /\ (\A j \in DOMAIN calls : IsCall(calls[j])) => IsCall(q[i])
    BY <1>1, <1>2
  <2>3. at # "dead"
    BY <1>6 DEF Heard
  <2>4. at = "answer" => late /\ \A j \in DOMAIN calls : IsCall(calls[j])
    BY <1>6 DEF Heard
  <2> QED BY <1>6, <2>1, <2>3, <2>4 DEF Heard
<1>10. Said(c, visiting, asked, answers, at, late)
  BY <1>3, <1>4 DEF Said
<1>11. Left(visiting, q, answers, at, late)
  BY <1>2, <1>3 DEF Left
<1> QED BY <1>7, <1>8, <1>9, <1>10, <1>11 DEF q

\* What is left of a queue once its first message is taken
RestOf(q, answers) ==
    answers \in Seq(MessageSet) /\ answers # <<>> /\ q = Tail(answers)

\* The connection takes the answer.
LEMMA SessionReturns ==
  ASSUME NEW c \in Client, NEW asked, NEW calls, NEW answers, NEW at, NEW heard,
         NEW late \in BOOLEAN, NEW q, RestOf(q, answers),
         NEW before \in BOOLEAN, before, NEW visiting \in BOOLEAN, ~visiting,
         Session(c, before, asked, calls, answers, at, heard, late)
  PROVE  Session(c, visiting, asked, calls, q, at, heard, late)
<1> USE DEF Session
<1>0. answers # <<>>
  BY DEF RestOf
<1>1. /\ Len(answers) \in Nat \ {0} /\ Len(q) = Len(answers) - 1
      /\ DOMAIN answers = 1 .. Len(answers) /\ DOMAIN q = 1 .. Len(answers) - 1
      /\ \A i \in DOMAIN q : i + 1 \in DOMAIN answers /\ q[i] = answers[i + 1]
      /\ q \in Seq(MessageSet)
  <2>1. answers \in Seq(MessageSet) /\ answers # <<>> /\ q = Tail(answers)
    BY DEF RestOf
  <2> HIDE DEF Session
  <2>2. /\ DOMAIN answers = 1 .. Len(answers) /\ Len(answers) \in Nat \ {0}
        /\ q \in Seq(MessageSet)
    BY <2>1, OfTail
  <2>3. Len(q) = Len(answers) - 1 /\ DOMAIN q = 1 .. Len(answers) - 1
    BY <2>1, OfTail
  <2>4. \A i \in DOMAIN q : i + 1 \in DOMAIN answers /\ q[i] = answers[i + 1]
    BY <2>1, OfTail
  <2> QED BY <2>2, <2>3, <2>4
<1>2. Unheard(visiting, asked, calls, q, at, heard)
  BY <1>0 DEF Unheard
<1>3. Timed(c, calls, late)
  OBVIOUS
<1>4. Heard(visiting, asked, calls, q, at, heard, late)
  BY DEF Heard
<1>5. Said(c, visiting, asked, q, at, late)
  <2> SUFFICES ASSUME NEW i \in DOMAIN q
               PROVE  /\ at \in {"drain", "done"} /\ i = Len(q)
                      /\ q[i] = Exit(c) /\ late
    BY DEF Said
  <2>1. i + 1 \in DOMAIN answers /\ q[i] = answers[i + 1] /\ i + 1 # 1 /\ i \in Nat
    BY <1>1
  <2>2. /\ at \in {"drain", "done"} /\ i + 1 = Len(answers)
        /\ q[i] = Exit(c) /\ (late \/ asked = "exit")
    BY <2>1 DEF Said
  <2>3. i = Len(q)
    BY <2>1, <2>2, <1>1
  <2>4. late
    <3>1. 1 \in DOMAIN answers /\ 1 # Len(answers)
      BY <2>1, <2>2, <1>1
    <3>2. answers[1] \in Answers(c, asked)
      BY <3>1 DEF Said
    <3>3. Answers(c, "exit") = {}
      BY DEF Answers
    <3> QED BY <2>2, <3>2, <3>3
  <2> QED BY <2>2, <2>3, <2>4
<1>6. Left(visiting, calls, q, at, late)
  <2> SUFFICES ASSUME at \in {"drain", "done"}, calls # <<>>
               PROVE  q = <<>>
    BY DEF Left
  <2>1. Len(answers) = 1
    BY <1>0 DEF Left
  <2>2. Len(q) = 0 /\ q \in Seq(MessageSet)
    BY <2>1, <1>1
  <2> HIDE DEF Session
  <2> QED BY <2>2
<1> QED BY <1>2, <1>3, <1>4, <1>5, <1>6

\* The listener takes a message; its handler may die of a call.
LEMMA SessionListens ==
  ASSUME NEW c \in Client, NEW visiting \in BOOLEAN, NEW asked, NEW calls \in Seq(MessageSet),
         NEW answers \in Seq(MessageSet), NEW heard, NEW late \in BOOLEAN, calls # <<>>,
         Session(c, visiting, asked, calls, answers, "receive", heard, late),
         NEW at \in {"answer", "dead"}, at = "dead" => Head(calls).choice # "exit"
  PROVE  Session(c, visiting, asked, Tail(calls), answers, at, Head(calls).choice, late)
<1> DEFINE q == Tail(calls)  m == Head(calls)
<1> USE DEF Session
<1>1. /\ DOMAIN calls = 1 .. Len(calls) /\ 1 \in DOMAIN calls /\ m = calls[1]
      /\ DOMAIN q = 1 .. Len(calls) - 1 /\ Len(calls) \in Nat
      /\ \A i \in DOMAIN q : i + 1 \in DOMAIN calls /\ q[i] = calls[i + 1] /\ i \in Nat \ {0}
  BY OfTail
<1> HIDE DEF q, m
<1>2. IsCall(m) => visiting /\ m.choice = asked /\ answers = <<>>
  BY <1>1 DEF Unheard
<1>3. ~IsCall(m) => late /\ m = Exit(c)
  BY <1>1 DEF Timed
<1>4. IsCall(m) => \A i \in DOMAIN q : ~IsCall(q[i])
  <2> SUFFICES ASSUME IsCall(m), NEW i \in DOMAIN q, IsCall(q[i])
               PROVE  FALSE
    OBVIOUS
  <2>1. i + 1 = 1
    BY <1>1 DEF Unheard
  <2> QED BY <2>1, <1>1
<1>5. ~IsCall(m) => \A i \in DOMAIN q : IsCall(q[i])
  <2> SUFFICES ASSUME ~IsCall(m), NEW i \in DOMAIN q, ~IsCall(q[i])
               PROVE  FALSE
    OBVIOUS
  <2>1. i + 1 = 1
    BY <1>1 DEF Timed
  <2> QED BY <2>1, <1>1
<1>6. Unheard(visiting, asked, q, answers, at, m.choice)
  <2>1. ASSUME NEW i \in DOMAIN q, IsCall(q[i])
        PROVE  /\ visiting /\ q[i].choice = asked /\ answers = <<>>
               /\ m.choice = "exit"
    <3>1. ~IsCall(m)
      BY <2>1, <1>4
    <3>2. m.choice = "exit"
      BY <3>1, <1>3, ExitIsNoCall
    <3>3. visiting /\ q[i].choice = asked /\ answers = <<>>
      BY <2>1, <1>1 DEF Unheard
    <3> QED BY <3>2, <3>3
  <2>2. ASSUME NEW i \in DOMAIN q, NEW j \in DOMAIN q, IsCall(q[i]), IsCall(q[j])
        PROVE  i = j
    <3>1. i + 1 = j + 1
      BY <2>2, <1>1 DEF Unheard
    <3> QED BY <3>1, <1>1
  <2> QED BY <2>1, <2>2 DEF Unheard
<1>7. Timed(c, q, late)
  <2>1. ASSUME NEW i \in DOMAIN q, ~IsCall(q[i])
        PROVE  late /\ q[i] = Exit(c)
    BY <2>1, <1>1 DEF Timed
  <2>2. ASSUME NEW i \in DOMAIN q, NEW j \in DOMAIN q, ~IsCall(q[i]), ~IsCall(q[j])
        PROVE  i = j
    <3>1. i + 1 = j + 1
      BY <2>2, <1>1 DEF Timed
    <3> QED BY <3>1, <1>1
  <2> QED BY <2>1, <2>2 DEF Timed
<1>8. Heard(visiting, asked, q, answers, at, m.choice, late)
  <2>1. CASE IsCall(m)
    BY <2>1, <1>2, <1>4 DEF Heard, m
  <2>2. CASE ~IsCall(m)
    <3>1. m.choice = "exit" /\ at = "answer"
      BY <2>2, <1>3, ExitIsNoCall DEF m
    <3> QED BY <2>2, <3>1, <1>3, <1>5 DEF Heard
  <2> QED BY <2>1, <2>2
<1>9. Said(c, visiting, asked, answers, at, late)
  BY DEF Said
<1>10. Left(visiting, q, answers, at, late)
  BY DEF Left
<1> QED BY <1>6, <1>7, <1>8, <1>9, <1>10 DEF q, m

\* It answers a call, ...
LEMMA SessionAnswers ==
  ASSUME NEW c \in Client, NEW visiting \in BOOLEAN, NEW asked, NEW calls \in Seq(MessageSet),
         NEW answers \in Seq(MessageSet), NEW heard, NEW late \in BOOLEAN,
         Session(c, visiting, asked, calls, answers, "answer", heard, late),
         NEW m \in MessageSet, m \in Answers(c, heard)
  PROVE  /\ Session(c, visiting, asked, calls, Append(answers, m), "receive", heard, late)
         /\ heard # "exit"
<1> USE DEF Session
<1>1. heard # "exit"
  BY DEF Answers
<1>2. visiting /\ heard = asked /\ answers = <<>>
  BY <1>1 DEF Heard
<1>3. \A i \in DOMAIN calls : ~IsCall(calls[i])
  BY <1>1 DEF Unheard
<1> DEFINE q == Append(answers, m)
<1>4. DOMAIN q = {1} /\ q[1] = m
  BY <1>2
<1> HIDE DEF q
<1>5. Unheard(visiting, asked, calls, q, "receive", heard)
  BY <1>3 DEF Unheard
<1>6. Heard(visiting, asked, calls, q, "receive", heard, late)
  BY DEF Heard
<1>7. Said(c, visiting, asked, q, "receive", late)
  BY <1>2, <1>4 DEF Said
<1>8. Left(visiting, calls, q, "receive", late)
  BY DEF Left
<1> QED BY <1>1, <1>5, <1>6, <1>7, <1>8 DEF q

\* ... or an EXIT, which ends it.
LEMMA SessionEnds ==
  ASSUME NEW c \in Client, NEW visiting \in BOOLEAN, NEW asked, NEW calls \in Seq(MessageSet),
         NEW answers \in Seq(MessageSet), NEW late \in BOOLEAN,
         Session(c, visiting, asked, calls, answers, "answer", "exit", late),
         Exit(c) \in MessageSet, NEW at \in {"drain", "done"}
  PROVE  Session(c, visiting, asked, calls, Append(answers, Exit(c)), at, "exit", late)
<1> USE DEF Session
<1> DEFINE q == Append(answers, Exit(c))
<1>1. /\ Len(answers) \in Nat /\ Len(q) = Len(answers) + 1 /\ q[Len(answers) + 1] = Exit(c)
      /\ \A i \in DOMAIN q :
               i = Len(answers) + 1 \/ (i \in DOMAIN answers /\ q[i] = answers[i])
      /\ DOMAIN answers = 1 .. Len(answers) /\ DOMAIN calls = 1 .. Len(calls)
      /\ Len(calls) \in Nat
  BY OfAppend
<1> HIDE DEF q
<1>2. \/ late /\ \A i \in DOMAIN calls : IsCall(calls[i])
      \/ /\ visiting /\ asked = "exit" /\ answers = <<>>
         /\ \A i \in DOMAIN calls : ~IsCall(calls[i])
  BY DEF Heard
<1>3. \A i, j \in DOMAIN calls : i = j
  BY <1>2 DEF Unheard, Timed
<1>4. Unheard(visiting, asked, calls, q, at, "exit")
  BY DEF Unheard
<1>5. Heard(visiting, asked, calls, q, at, "exit", late)
  BY DEF Heard
<1>6. Said(c, visiting, asked, q, at, late)
  <2> SUFFICES ASSUME NEW i \in DOMAIN q
               PROVE  IF i = Len(q)
                      THEN q[i] = Exit(c) /\ (late \/ (visiting /\ asked = "exit"))
                      ELSE i = 1 /\ visiting /\ q[i] \in Answers(c, asked)
    BY DEF Said
  <2>1. CASE i = Len(q)
    BY <2>1, <1>1, <1>2
  <2>2. CASE i # Len(q)
    <3>1. i \in DOMAIN answers /\ q[i] = answers[i]
      BY <2>2, <1>1
    <3> QED BY <2>2, <3>1 DEF Said
  <2> QED BY <2>1, <2>2
<1>7. Left(visiting, calls, q, at, late)
  <2> SUFFICES ASSUME calls # <<>>
               PROVE  Len(calls) = 1 /\ late /\ visiting /\ Len(q) = 1
    BY DEF Left
  <2>1. 1 \in DOMAIN calls /\ Len(calls) \in DOMAIN calls
    BY <1>1
  <2>2. Len(calls) = 1
    BY <2>1, <1>3
  <2>3. IsCall(calls[1]) => visiting /\ answers = <<>>
    BY <2>1 DEF Unheard
  <2>4. ~IsCall(calls[1]) => late
    BY <2>1 DEF Timed
  <2>5. late /\ visiting /\ answers = <<>>
    BY <2>1, <2>3, <2>4, <1>2
  <2> QED BY <2>2, <2>5, <1>1
<1> QED BY <1>4, <1>5, <1>6, <1>7 DEF q

LEMMA SessionDrains ==
  ASSUME NEW c \in Client, NEW visiting \in BOOLEAN, NEW asked, NEW calls \in Seq(MessageSet),
         NEW answers \in Seq(MessageSet), NEW heard, NEW late \in BOOLEAN, calls # <<>>,
         Session(c, visiting, asked, calls, answers, "drain", heard, late)
  PROVE  Session(c, visiting, asked, Tail(calls), answers, "done", heard, late)
<1> USE DEF Session
<1>1. Len(calls) = 1
  BY DEF Left
<1> DEFINE q == Tail(calls)
<1>2. q \in Seq(MessageSet) /\ Len(q) = Len(calls) - 1
  BY OfTail
<1> HIDE DEF q
<1>3. q = <<>>
  <2>1. Len(q) = 0
    BY <1>1, <1>2
  <2> QED BY <2>1, <1>2
<1>4. Said(c, visiting, asked, answers, "done", late)
  BY DEF Said
<1>5. Unheard(visiting, asked, q, answers, "done", heard)
  BY <1>3 DEF Unheard
<1>6. Timed(c, q, late)
  BY <1>3 DEF Timed
<1>7. Heard(visiting, asked, q, answers, "done", heard, late)
  BY DEF Heard
<1>8. Left(visiting, q, answers, "done", late)
  BY <1>3 DEF Left
<1> QED BY <1>4, <1>5, <1>6, <1>7, <1>8 DEF q

\* The timer sends its EXIT.
LEMMA SessionExpires ==
  ASSUME NEW c \in Client, NEW visiting \in BOOLEAN, NEW asked, NEW calls \in Seq(MessageSet),
         NEW answers \in Seq(MessageSet), NEW heard, Exit(c) \in MessageSet,
         NEW at \in {"receive", "answer", "dead"},
         NEW before \in BOOLEAN, ~before, NEW late \in BOOLEAN, late,
         Session(c, visiting, asked, calls, answers, at, heard, before)
  PROVE  Session(c, visiting, asked, Append(calls, Exit(c)), answers, at, heard, late)
<1> USE DEF Session
<1> DEFINE q == Append(calls, Exit(c))
<1>1. /\ q[Len(calls) + 1] = Exit(c)
      /\ \A i \in DOMAIN q :
               i = Len(calls) + 1 \/ (i \in DOMAIN calls /\ q[i] = calls[i])
  BY OfAppend
<1> HIDE DEF q
<1>2. \A i \in DOMAIN calls : IsCall(calls[i])
  BY DEF Timed
<1>3. ~IsCall(Exit(c))
  BY ExitIsNoCall
<1>4. \A i \in DOMAIN q : IF IsCall(q[i]) THEN i \in DOMAIN calls /\ q[i] = calls[i]
                          ELSE i = Len(calls) + 1 /\ q[i] = Exit(c)
  BY <1>1, <1>2, <1>3
<1>5. Unheard(visiting, asked, q, answers, at, heard)
  BY <1>4 DEF Unheard
<1>6. Timed(c, q, late)
  BY <1>4 DEF Timed
<1>7. Heard(visiting, asked, q, answers, at, heard, late)
  <2>1. at = "answer" /\ heard = "exit" =>
          visiting /\ asked = "exit" /\ answers = <<>> /\ \A i \in DOMAIN calls : ~IsCall(calls[i])
    BY DEF Heard
  <2>2. at = "answer" /\ heard = "exit" => \A i \in DOMAIN q : ~IsCall(q[i])
    BY <2>1, <1>4
  <2>3. /\ at = "dead" => heard # "exit"
        /\ at \in {"answer", "dead"} /\ heard # "exit" =>
              visiting /\ heard = asked /\ answers = <<>>
    BY DEF Heard
  <2> QED BY <2>1, <2>2, <2>3 DEF Heard
<1>8. Said(c, visiting, asked, answers, at, late)
  BY DEF Said
<1>9. Left(visiting, q, answers, at, late)
  BY DEF Left
<1> QED BY <1>5, <1>6, <1>7, <1>8, <1>9 DEF q

\* A customer is registered.
LEMMA SessionBegins ==
  ASSUME NEW c \in Client, NEW visiting \in BOOLEAN, NEW asked, NEW calls, NEW answers,
         NEW heard, NEW late \in BOOLEAN,
         Session(c, visiting, asked, calls, answers, "none", heard, late)
  PROVE  Session(c, visiting, asked, calls, answers, "receive", heard, late)
<1>1. calls = <<>> /\ answers = <<>>
  BY DEF Session, Heard
<1> QED BY <1>1 DEF Session, Unheard, Timed, Heard, Said, Left

----------------------------------------------------------------------------
(* Message types tell the clients apart *)

\* Process ids, ids and the type of a registration are different integers.
LEMMA Types ==
  /\ Type \subseteq Nat \ {0} /\ TYPE_CONNECTION_CINEMA_REQUEST \in Type
  /\ \A c \in Client : /\ c \in Type /\ Token[c] \in Type /\ Token[c] # UNDEFINED
                       /\ c # TYPE_CONNECTION_CINEMA_REQUEST /\ c # UNDEFINED
                       /\ Token[c] # TYPE_CONNECTION_CINEMA_REQUEST
  /\ \A c, d \in Client : Token[c] # d /\ (Token[c] = Token[d] => c = d)
<1>1. \A c \in Client : c \in Nat \ {0, 1, 2} /\ Token[c] \in Nat \ {0, 1, 2}
  OBVIOUS
<1>2. Type \subseteq Nat \ {0} /\ TYPE_CONNECTION_CINEMA_REQUEST \in Type
  <2>1. ASSUME NEW t \in Type
        PROVE  t = 1 \/ t \in Client \/ \E c \in Client : t = Token[c]
    BY DEF Type, TYPE_CONNECTION_CINEMA_REQUEST
  <2>2. TYPE_CONNECTION_CINEMA_REQUEST \in Type
    BY DEF Type
  <2>3. ASSUME NEW t \in Type
        PROVE  t \in Nat \ {0}
    <3>1. CASE t = 1
      BY <3>1
    <3>2. CASE t \in Client
      BY <3>2
    <3>3. CASE \E c \in Client : t = Token[c]
      BY <3>3, <1>1
    <3> QED BY <2>1, <3>1, <3>2, <3>3
  <2> QED BY <2>2, <2>3
<1>3. \A c \in Client : c \in Type /\ Token[c] \in Type
  BY DEF Type
<1>4. \A c \in Client : /\ c # TYPE_CONNECTION_CINEMA_REQUEST /\ c # UNDEFINED
                        /\ Token[c] # TYPE_CONNECTION_CINEMA_REQUEST /\ Token[c] # UNDEFINED
  BY <1>1 DEF TYPE_CONNECTION_CINEMA_REQUEST, UNDEFINED
<1> QED BY <1>2, <1>3, <1>4

\* The types under which two children get answers differ.
LEMMA TypesDiffer ==
  ASSUME Children
  PROVE  /\ \A c \in Client : /\ TypeOf(c) \in Type
                              /\ TypeOf(c) # TYPE_CONNECTION_CINEMA_REQUEST
                              /\ TypeOf(c) \in {c, Token[c]}
         /\ \A c, d \in Client : TypeOf(c) = TypeOf(d) => c = d
<1>1. \A c \in Client : child[c].id \in {UNDEFINED, c}
  BY DEF Children
<1>2. \A c \in Client : TypeOf(c) \in {c, Token[c]}
  BY <1>1 DEF TypeOf
<1> QED BY <1>2, Types

\* The calls of two clients can be told apart.
LEMMA CallsDiffer ==
  ASSUME NEW c \in Client, NEW d \in Client, Children,
         child[c].at \in {"send", "await"}, child[d].at \in {"send", "await"},
         CallMessage(c) = CallMessage(d)
  PROVE  c = d
<1>1. \A b \in {c, d} : IF child[b].asked = "connect"
                        THEN CallMessage(b).type = TYPE_CONNECTION_CINEMA_REQUEST
                             /\ CallMessage(b).id = Token[b]
                        ELSE CallMessage(b).type = b
  BY DEF Children, CallMessage, Message, Asked
<1>2. child[c].asked = "connect" <=> child[d].asked = "connect"
  BY <1>1, Types
<1> QED BY <1>1, <1>2, Types

\* What a call is made of
LEMMA CallType ==
  ASSUME NEW c \in Client, TypeOK, Children, child[c].at \in {"send", "await"}
  PROVE  /\ CallMessage(c) \in MessageSet
         /\ CallMessage(c).choice = child[c].asked /\ CallMessage(c).success = 0
         /\ IsCall(CallMessage(c))
         /\ CallMessage(c).type \in Word /\ CallMessage(c).id \in Word
         /\ AnswerType(CallMessage(c)) = TypeOf(c)
         /\ IF child[c].id = UNDEFINED
            THEN /\ child[c].asked = "connect" /\ CallMessage(c).id = Token[c]
                 /\ CallMessage(c).type = TYPE_CONNECTION_CINEMA_REQUEST
            ELSE /\ child[c].asked \in Asked /\ child[c].id = c /\ CallMessage(c).type = c
<1>1. \/ child[c].asked = "connect" /\ child[c].id = UNDEFINED
      \/ child[c].asked \in Asked /\ child[c].id = c
  BY DEF Children
<1>2. CASE child[c].asked = "connect" /\ child[c].id = UNDEFINED
  <2>1. CallMessage(c) = Message(TYPE_CONNECTION_CINEMA_REQUEST, "connect", Token[c], 0, "none")
    BY <1>2 DEF CallMessage
  <2>2. Token[c] \in Nat /\ TYPE_CONNECTION_CINEMA_REQUEST \in Word
    BY Words DEF TYPE_CONNECTION_CINEMA_REQUEST
  <2> QED BY <1>2, <2>1, <2>2, Types, Words
          DEF Message, MessageSet, Choice, IsCall, AnswerType, TypeOf, Verdicts
<1>3. CASE child[c].asked \in Asked /\ child[c].id = c
  <2>1. CallMessage(c) = Message(c, child[c].asked, 0, 0, "none")
    BY <1>3 DEF CallMessage, Asked
  <2> QED BY <1>3, <2>1, Types, Words
          DEF Message, MessageSet, Choice, Asked, IsCall, AnswerType, TypeOf, Verdicts
<1> QED BY <1>1, <1>2, <1>3

\* A call crosses the socket unchanged.
LEMMA CallArrives ==
  ASSUME NEW c \in Client, TypeOK, Children, child[c].at \in {"send", "await"}
  PROVE  deserialize_message(serialize_message(CallMessage(c))) = CallMessage(c)
<1> DEFINE m == CallMessage(c)
<1>1. m = [type |-> m.type, choice |-> m.choice, id |-> m.id, success |-> 0, meant |-> m.meant]
  BY DEF CallMessage, Message
<1>2. /\ ntohl(htonl(m.type)) = m.type /\ ntohl(htonl(m.id)) = m.id
  BY CallType, NetworkOrder
<1>3. m.success = 0
  BY CallType
<1> HIDE DEF m
<1> DEFINE p == serialize_message(m)
<1>4. /\ p.type = htonl(m.type) /\ p.choice = m.choice /\ p.id = htonl(m.id)
      /\ p.meant = m.meant
  BY DEF serialize_message, Message
<1>5. p.success = IF m.choice = "seats" THEN htonl(0) ELSE 0
  BY <1>3 DEF serialize_message, Message
<1> HIDE DEF p
<1> DEFINE success == CASE p.choice = "seats" -> ntohs(p.success)
                        [] p.choice \in {"select", "pay"} -> ntohl(p.success)
                        [] OTHER -> 0
<1>6. success = 0
  <2>1. CASE m.choice = "seats"
    BY <2>1, <1>4, <1>5, SuccessOrder
  <2>2. CASE m.choice \in {"select", "pay"}
    BY <2>2, <1>4, <1>5, SuccessOrder
  <2>3. CASE m.choice \notin {"seats", "select", "pay"}
    BY <2>3, <1>4
  <2> QED BY <2>1, <2>2, <2>3
<1>7. deserialize_message(p) = Message(ntohl(p.type), p.choice, ntohl(p.id), success, p.meant)
  BY DEF deserialize_message
<1> HIDE DEF success
<1>8. deserialize_message(p) = m
  BY <1>1, <1>2, <1>4, <1>6, <1>7 DEF Message
<1> QED BY <1>8 DEF p, m

\* What a registration, the admin or an EXIT puts into the queue of answers
Answering(c, asked) ==
    IF asked = "connect" THEN {Accepted(c)} ELSE Answers(c, asked) \cup {Exit(c)}

\* What an answer to a call may contain
LEMMA AnswerOf ==
  ASSUME NEW c \in Client, NEW asked \in Asked \cup {"connect"}, NEW m \in Answering(c, asked)
  PROVE  /\ m \in MessageSet /\ m.type \in Word /\ m.id \in Word
         /\ m.type = IF asked = "connect" THEN Token[c] ELSE c
         /\ m.choice = "accepted" => m.id = c /\ asked = "connect"
         /\ m.choice \in IF asked = "connect" THEN {"accepted"} ELSE {asked, "invalid", "exit"}
         /\ m.choice = "exit" => m = Exit(c)
         /\ \/ m.choice \in {"accepted", "rooms", "exit", "invalid"}
            \/ m.choice \in {"seats", "pay"} /\ m.success = 0 /\ m.meant = "accepted"
            \/ m.choice = "select" /\ m.success = 0 /\ m.meant = "accepted"
            \/ m.choice = "select" /\ m.success = 1 /\ m.meant = "refused"
         /\ m.choice \in {"accepted", "rooms"} => m.meant = "accepted"
         /\ m.choice = "invalid" => m.meant = "refused"
         /\ m.choice = "exit" => m.meant = "closed"
<1>1. CASE asked = "connect"
  BY <1>1, Types, Words DEF Answering, Accepted, Message, MessageSet, Choice, Verdicts
<1>2. CASE m = Exit(c) /\ asked # "connect"
  BY <1>2, Types, Words DEF Answering, Exit, Message, MessageSet, Choice, Verdicts
<1>3. CASE asked # "connect" /\ m \in Answers(c, asked)
  <2>1. CASE asked = "rooms"
    BY <1>3, <2>1, Types, Words DEF Answers, Message, MessageSet, Choice, Verdicts, SUCCESS
  <2>2. CASE asked = "seats"
    BY <1>3, <2>2, Types, Words DEF Answers, Message, MessageSet, Choice, Verdicts, SUCCESS
  <2>3. CASE asked = "select"
    BY <1>3, <2>3, Types, Words
    DEF Answers, Message, MessageSet, Choice, Verdicts, SUCCESS, NOT_SUCCESS
  <2>4. CASE asked = "pay"
    BY <1>3, <2>4, Types, Words DEF Answers, Message, MessageSet, Choice, Verdicts, SUCCESS
  <2>5. CASE asked = "exit"
    BY <1>3, <2>5 DEF Answers
  <2> QED BY <1>3, <2>1, <2>2, <2>3, <2>4, <2>5 DEF Asked
<1> QED BY <1>1, <1>2, <1>3 DEF Answering

\* An answer goes to the type under which its caller waits.
LEMMA AnswerFinds ==
  ASSUME NEW c \in Client, NEW asked, NEW m \in Answering(c, asked)
  PROVE  /\ asked = "connect" => m.type = Token[c]
         /\ asked # "connect" => m.type = c
<1>1. CASE asked = "connect"
  BY <1>1 DEF Answering, Accepted, Message
<1>2. CASE m = Exit(c) /\ asked # "connect"
  BY <1>2 DEF Exit, Message
<1>3. CASE m \in Answers(c, asked) /\ asked # "connect"
  BY <1>3 DEF Answers, Message
<1> QED BY <1>1, <1>2, <1>3 DEF Answering

\* An answer crosses it with another success field at most, and is read as it was meant.
LEMMA AnswerArrives ==
  ASSUME NEW c \in Client, NEW asked \in Asked \cup {"connect"}, NEW m \in Answering(c, asked),
         NEW d, d = deserialize_message(serialize_message(m))
  PROVE  /\ d.type = m.type /\ d.choice = m.choice /\ d.id = m.id
         /\ Verdict(asked, d) = d.meant
<1>1. m.type \in Word /\ m.id \in Word
  BY AnswerOf
<1> DEFINE p == serialize_message(m)
<1>2. /\ p.type = htonl(m.type) /\ p.choice = m.choice /\ p.id = htonl(m.id)
      /\ p.meant = m.meant
  BY DEF serialize_message, Message
<1>3. /\ m.choice = "seats" => p.success = htonl(m.success)
      /\ m.choice \in {"select", "pay"} => p.success = m.success
  BY DEF serialize_message, Message
<1> HIDE DEF p
<1>4. /\ d.type = ntohl(p.type) /\ d.choice = p.choice /\ d.id = ntohl(p.id)
      /\ d.meant = p.meant
  BY DEF deserialize_message, Message, p
<1>5. /\ p.choice = "seats" => d.success = ntohs(p.success)
      /\ p.choice \in {"select", "pay"} => d.success = ntohl(p.success)
  BY DEF deserialize_message, Message, p
<1>6. d.type = m.type /\ d.choice = m.choice /\ d.id = m.id /\ d.meant = m.meant
  BY <1>1, <1>2, <1>4, NetworkOrder
<1>7. /\ m.choice \in {"seats", "select", "pay"} /\ m.success = 0 => d.success = 0
      /\ m.choice = "select" /\ m.success = 1 => d.success # 0
  BY <1>2, <1>3, <1>5, SuccessOrder
<1>8. \/ m.choice \in {"accepted", "rooms", "exit", "invalid"}
      \/ m.choice \in {"seats", "pay"} /\ m.success = 0 /\ m.meant = "accepted"
      \/ m.choice = "select" /\ m.success = 0 /\ m.meant = "accepted"
      \/ m.choice = "select" /\ m.success = 1 /\ m.meant = "refused"
  BY AnswerOf
<1>9. asked = "connect" => m.choice = "accepted"
  BY AnswerOf
<1>10. asked # "connect" => m.choice \in {asked, "invalid", "exit"}
  BY AnswerOf
<1>11. Verdict(asked, d) = d.meant
  <2>1. CASE m.choice \in {"accepted", "rooms"}
    <3>1. d.meant = "accepted" /\ d.choice = IF asked = "connect" THEN "accepted" ELSE asked
      BY <1>6, <2>1, AnswerOf DEF Asked
    <3> QED BY <3>1, <1>6, <2>1 DEF Verdict
  <2>2. CASE m.choice = "invalid"
    <3>1. d.meant = "refused" /\ asked \in Asked \cup {"connect"} /\ asked # "invalid"
      BY <1>6, <2>2, AnswerOf DEF Asked
    <3> QED BY <3>1, <1>6, <2>2 DEF Verdict
  <2>3. CASE m.choice = "exit"
    BY <2>3, <1>6, AnswerOf DEF Verdict
  <2>4. CASE m.choice \in {"seats", "pay"}
    <3>1. d.meant = "accepted" /\ d.choice = asked /\ asked # "connect" /\ d.success = 0
      BY <1>6, <1>7, <2>4, AnswerOf
    <3> QED BY <3>1, <1>6, <2>4 DEF Verdict, NOT_SUCCESS
  <2>5. CASE m.choice = "select"
    <3>1. d.choice = asked /\ asked # "connect"
      BY <1>6, <2>5, <1>9, <1>10
    <3>2. \/ m.success = 0 /\ m.meant = "accepted"
          \/ m.success = 1 /\ m.meant = "refused"
      BY <2>5, <1>8
    <3>3. d.meant = IF d.success = 0 THEN "accepted" ELSE "refused"
      BY <3>2, <1>6, <1>7, <2>5
    <3> QED BY <3>1, <3>3, <1>6, <2>5 DEF Verdict, SUCCESS
  <2>6. m.choice \in {"accepted", "rooms", "exit", "invalid", "seats", "pay", "select"}
    BY <1>8
  <2> QED BY <2>1, <2>2, <2>3, <2>4, <2>5, <2>6
<1> QED BY <1>6, <1>11

\* Messages become packets, and packets with a known type become messages.
LEMMA PacketType ==
  /\ \A m \in MessageSet : serialize_message(m) \in PacketSet
  /\ \A p \in PacketSet : deserialize_message(p).type \in Type
                             => deserialize_message(p) \in MessageSet
<1>1. ASSUME NEW m \in MessageSet
      PROVE  serialize_message(m) \in PacketSet
  <2>1. m.type \in Nat /\ m.id \in Nat /\ m.success \in Nat /\ m.choice \in Choice
    BY Types DEF MessageSet
  <2>2. htonl(m.type) \in Nat /\ htonl(m.id) \in Nat /\ htonl(m.success) \in Nat
    BY <2>1, NetworkOrder
  <2> QED BY <2>1, <2>2 DEF serialize_message, Message, MessageSet, PacketSet
<1>2. ASSUME NEW p \in PacketSet, deserialize_message(p).type \in Type
      PROVE  deserialize_message(p) \in MessageSet
  <2>1. p.id \in Nat /\ p.success \in Nat /\ p.choice \in Choice
    BY DEF PacketSet
  <2>2. ntohl(p.id) \in Nat /\ ntohs(p.success) \in Nat /\ ntohl(p.success) \in Nat
    BY <2>1, NetworkOrder
  <2>3. ntohl(p.type) \in Type
    BY <1>2 DEF deserialize_message, Message
  <2> QED BY <2>1, <2>2, <2>3 DEF deserialize_message, Message, MessageSet, PacketSet
<1> QED BY <1>1, <1>2

----------------------------------------------------------------------------
(* What the parts of the invariant say together *)

\* The connection of a host waits for nobody but the client whose call it took.
LEMMA HeldAlone ==
  ASSUME Children, Wires
  PROVE  \A c \in Client : Waits(c) => IsHeld(HostOf[c], c)
<1> SUFFICES ASSUME NEW c \in Client, Waits(c)
             PROVE  IsHeld(HostOf[c], c)
  OBVIOUS
<1> DEFINE h == HostOf[c]
<1>1. h \in Host
  OBVIOUS
<1>2. connection[h].at = "await" /\ connection[h].type = TypeOf(c)
  BY DEF Waits
<1> HIDE DEF h
<1>3. PICK d \in Client : GoesUp(h, d) \/ IsHeld(h, d) \/ GoesDown(h, d)
  BY <1>1, <1>2 DEF Wires, Idle
<1>4. IsHeld(h, d)
  BY <1>2, <1>3 DEF GoesUp, GoesDown
<1>5. TypeOf(d) = TypeOf(c)
  BY <1>2, <1>4 DEF IsHeld
<1> QED BY <1>4, <1>5, TypesDiffer DEF h

\* At most one client of a host is waited for.
LEMMA OneWaits ==
  ASSUME Children, NEW c \in Client, NEW d \in Client, Waits(c), Waits(d), HostOf[c] = HostOf[d]
  PROVE  c = d
<1>1. TypeOf(c) = TypeOf(d)
  BY DEF Waits
<1> QED BY <1>1, TypesDiffer

\* A step in the cinema leaves the calls and answers of the hosts alone, as
\* long as it closes no session silently and registers only whom it holds.
LEMMA HostFrame ==
  ASSUME Children, Calls, Wires, Arrived,
         UNCHANGED <<child, hostVars, connection>>,
         \A c \in Client : Open(c) => Open(c)',
         \A c \in Client : listener[c].at # "none" => listener'[c].at # "none",
         \A c \in Client : Fresh(c) /\ ~Waits(c) => Fresh(c)'
  PROVE  Children' /\ Calls' /\ Wires' /\ Arrived'
<1>1. \A c \in Client : /\ TypeOf(c)' = TypeOf(c) /\ CallMessage(c)' = CallMessage(c)
                        /\ Expected(c)' = Expected(c)
  BY DEF TypeOf, CallMessage, Expected
<1>2. \A c \in Client : /\ Queued(c)' <=> Queued(c)
                        /\ Away(c)' <=> Away(c)
  BY <1>1 DEF Queued, Away, hostVars
<1>3. ASSUME NEW c \in Client, NEW m, Good(c, m)
      PROVE  Good(c, m)'
  BY <1>1, <1>3 DEF Good
<1>4. \A c \in Client : Ready(c) /\ ~Waits(c) => Ready(c)'
  BY DEF Ready
<1>5. Children'
  <2> SUFFICES ASSUME NEW c \in Client, child[c].at \in {"receive", "send"}
               PROVE  Ready(c)'
    BY DEF Children
  <2>1. ~Waits(c)
    BY HeldAlone DEF IsHeld, Carries, Away
  <2> QED BY <1>4, <2>1 DEF Children
<1>6. Calls'
  <2>1. ASSUME NEW h \in Host, NEW i \in DOMAIN toCinema[h], NEW c \in Client,
               HostOf[c] = h, Ready(c), toCinema[h][i] = CallMessage(c)
        PROVE  Ready(c)'
    <3>1. ~Waits(c)
      BY <2>1, HeldAlone DEF IsHeld, Carries, Away, Queued
    <3> QED BY <1>4, <2>1, <3>1
  <2> QED BY <2>1, <1>1 DEF Calls, hostVars
<1>7. Wires'
  <2> SUFFICES ASSUME NEW h \in Host, NEW c \in Client,
                      GoesUp(h, c) \/ IsHeld(h, c) \/ GoesDown(h, c)
               PROVE  (GoesUp(h, c) \/ IsHeld(h, c) \/ GoesDown(h, c))'
    BY DEF Wires, Idle, hostVars
  <2>1. Carries(h, c)'
    BY <1>1, <1>2 DEF GoesUp, IsHeld, GoesDown, Carries, hostVars
  <2>2. CASE GoesUp(h, c)
    <3>1. ~Waits(c)
      BY <2>2 DEF GoesUp, Carries, Waits
    <3>2. Ready(c)'
      BY <2>2, <3>1, <1>4 DEF GoesUp
    <3> QED BY <2>1, <2>2, <3>2, <1>1 DEF GoesUp, hostVars
  <2>3. CASE IsHeld(h, c)
    BY <2>1, <2>3, <1>1 DEF IsHeld, hostVars
  <2>4. CASE GoesDown(h, c)
    BY <2>1, <2>4, <1>3 DEF GoesDown, hostVars
  <2> QED BY <2>2, <2>3, <2>4
<1>8. Arrived'
  BY <1>1, <1>2, <1>3 DEF Arrived, hostVars
<1> QED BY <1>5, <1>6, <1>7, <1>8

\* A step that leaves a customer's call and its session alone
LEMMA SessionFrame ==
  ASSUME NEW c \in Client, SessionOf(c),
         Visiting(c)' <=> Visiting(c), Visiting(c) => child'[c].asked = child[c].asked,
         requests'[c] = requests[c], responses'[c] = responses[c],
         listener'[c] = listener[c], (c \in expired') <=> (c \in expired)
  PROVE  SessionOf(c)'
<1> SUFFICES ASSUME NEW visiting \in BOOLEAN, NEW late \in BOOLEAN,
                    visiting <=> Visiting(c)', late <=> c \in expired'
             PROVE  Session(c, visiting, child'[c].asked, requests'[c], responses'[c],
                            listener'[c].at, listener'[c].asked, late)
  BY DEF SessionOf
<1>1. Session(c, visiting, child[c].asked, requests[c], responses[c],
              listener[c].at, listener[c].asked, late)
  BY DEF SessionOf
<1>2. Session(c, visiting, child'[c].asked, requests[c], responses[c],
              listener[c].at, listener[c].asked, late)
  <2>1. CASE visiting
    BY <1>1, <2>1
  \* What the customer asked matters only while its call is in the cinema.
  <2>2. CASE ~visiting
    <3> DEFINE was == child[c].asked  calls == requests[c]  answers == responses[c]
               at == listener[c].at  heard == listener[c].asked
    <3> HIDE DEF was, calls, answers, at, heard
    <3>1. Session(c, visiting, was, calls, answers, at, heard, late)
      BY <1>1 DEF was, calls, answers, at, heard
    <3>2. ASSUME NEW asked
          PROVE  Session(c, visiting, asked, calls, answers, at, heard, late)
      <4>1. Unheard(visiting, asked, calls, answers, at, heard)
        BY <2>2, <3>1 DEF Session, Unheard
      <4>2. Heard(visiting, asked, calls, answers, at, heard, late)
        BY <2>2, <3>1 DEF Session, Heard
      <4>3. Said(c, visiting, asked, answers, at, late)
        BY <2>2, <3>1 DEF Session, Said
      <4> QED BY <3>1, <4>1, <4>2, <4>3 DEF Session, Left
    <3> QED BY <3>2 DEF calls, answers, at, heard
  <2> QED BY <2>1, <2>2
<1> QED BY <1>2

\* A step outside the cinema
LEMMA CinemaFrame ==
  ASSUME Registration, Confirmed, Sessions, UNCHANGED cinemaVars,
         \A c \in Client : /\ Connecting(c) => Connecting(c)'
                           /\ Visiting(c)' <=> Visiting(c)
                           /\ Visiting(c) => child'[c].asked = child[c].asked
  PROVE  Registration' /\ Confirmed' /\ Sessions'
<1> USE DEF cinemaVars
<1>1. Registers' = Registers
  BY DEF Registers
<1>2. Registration'
  BY <1>1 DEF Registration
<1>3. Confirmed'
  BY DEF Confirmed
<1>4. Sessions'
  BY SessionFrame DEF Sessions
<1> QED BY <1>2, <1>3, <1>4

----------------------------------------------------------------------------
(* One lemma for each action *)

\* A client that calls has nothing left behind on the way.
LEMMA CallKeeps ==
  ASSUME IInv, NEW c \in Client, NEW choice \in Request[c] \cup {"connect"}, Call(c, choice)
  PROVE  IInv'
<1> USE DEF IInv
<1>0. choice \in Asked \cup {"connect"} /\ Asked \cup {"connect"} \subseteq Choice
  BY RequestAssumption DEF Asked, Choice
<1>1. /\ child' = [child EXCEPT ![c] = [@ EXCEPT !.at = "send", !.asked = choice]]
      /\ child[c].at = "receive" /\ (choice = "connect" <=> child[c].id = UNDEFINED)
      /\ UNCHANGED <<hostVars, connection, cinemaVars>>
  BY DEF Call
<1>2. child \in [Client -> [at : {"receive", "send", "await", "end"}, asked : Choice,
                            id : Client \cup {UNDEFINED}]]
  BY DEF TypeOK
<1>3. /\ child'[c].at = "send" /\ child'[c].asked = choice /\ child'[c].id = child[c].id
      /\ \A d \in Client : /\ d # c => child'[d] = child[d]
                           /\ child'[d].id = child[d].id
  BY <1>1, <1>2
<1>4. \A d \in Client : TypeOf(d)' = TypeOf(d)
  BY <1>3 DEF TypeOf
<1>5. \A d \in Client : d # c => CallMessage(d)' = CallMessage(d) /\ Expected(d)' = Expected(d)
  BY <1>3 DEF CallMessage, Expected
<1>6. TypeOK'
  <2>1. choice \in Choice
    BY <1>0
  <2>2. child' \in [Client -> [at : {"receive", "send", "await", "end"}, asked : Choice,
                              id : Client \cup {UNDEFINED}]]
    BY <1>1, <1>2, <2>1, ZenonT(60)
  <2> QED BY <1>1, <2>2 DEF TypeOK, hostVars, cinemaVars
<1>7. \A d \in Client : Ready(d)' <=> Ready(d)
  BY <1>1, <1>3 DEF Ready, Fresh, Open, Over, cinemaVars
<1>8. Children'
  <2>1. \A d \in Client : d # c =>
            /\ child'[d].id \in {UNDEFINED, d}
            /\ child'[d].id = d => listener'[d].at # "none"
            /\ child'[d].at \in {"send", "await"} =>
                  \/ child'[d].asked = "connect" /\ child'[d].id = UNDEFINED
                  \/ child'[d].asked \in Asked /\ child'[d].id = d
            /\ child'[d].at \in {"receive", "send"} => Ready(d)'
    BY <1>1, <1>3, <1>7 DEF Children, cinemaVars
  <2>2. /\ child'[c].id \in {UNDEFINED, c}
        /\ child'[c].id = c => listener'[c].at # "none"
        /\ \/ child'[c].asked = "connect" /\ child'[c].id = UNDEFINED
           \/ child'[c].asked \in Asked /\ child'[c].id = c
        /\ Ready(c)'
    BY <1>0, <1>1, <1>3, <1>7 DEF Children, cinemaVars
  <2> QED BY <2>1, <2>2 DEF Children
<1>9. Calls'
  BY <1>1, <1>3, <1>5, <1>7 DEF Calls, hostVars
<1>10. \A d \in Client : Away(d) => Away(d)' /\ d # c
  BY <1>1, <1>3, <1>5 DEF Away, Queued, hostVars
<1>11. ASSUME NEW d \in Client, NEW m, d # c, Good(d, m)
       PROVE  Good(d, m)'
  BY <1>1, <1>3, <1>4, <1>5, <1>11 DEF Good, Open, Over, cinemaVars
<1>12. Wires'
  <2> SUFFICES ASSUME NEW h \in Host, NEW d \in Client,
                      GoesUp(h, d) \/ IsHeld(h, d) \/ GoesDown(h, d)
               PROVE  (GoesUp(h, d) \/ IsHeld(h, d) \/ GoesDown(h, d))'
    BY <1>1 DEF Wires, Idle, hostVars
  <2>1. Carries(h, d)' /\ d # c
    BY <1>1, <1>4, <1>10 DEF GoesUp, IsHeld, GoesDown, Carries, hostVars
  <2>2. CASE GoesUp(h, d)
    BY <1>1, <1>5, <1>7, <2>1, <2>2 DEF GoesUp, hostVars
  <2>3. CASE IsHeld(h, d)
    BY <1>1, <1>4, <2>1, <2>3 DEF IsHeld, hostVars, Open, Over, cinemaVars
  <2>4. CASE GoesDown(h, d)
    BY <1>1, <1>11, <2>1, <2>4 DEF GoesDown, hostVars
  <2> QED BY <2>2, <2>3, <2>4
<1>13. Arrived'
  BY <1>1, <1>4, <1>10, <1>11 DEF Arrived, hostVars
<1>14. ~Waits(c)
  BY <1>1, HeldAlone DEF IsHeld, Carries, Away
<1>15. \A d \in Client : /\ Waits(d)' <=> Waits(d)
                         /\ Waits(d) => child'[d].asked = child[d].asked
  BY <1>1, <1>3, <1>4, <1>14 DEF Waits
<1>16. Registration' /\ Confirmed' /\ Sessions'
  BY <1>1, <1>3, <1>15, CinemaFrame DEF Connecting, Visiting
<1> QED BY <1>6, <1>8, <1>9, <1>12, <1>13, <1>16

\* The child puts its call behind those of the host's other clients.
LEMMA SendCallKeeps ==
  ASSUME IInv, NEW c \in Client, SendCall(c)
  PROVE  IInv'
<1> USE DEF IInv
<1> DEFINE k == HostOf[c]
<1>0. k \in Host
  OBVIOUS
<1>1. /\ child[c].at = "send"
      /\ toCinema' = [toCinema EXCEPT ![k] = Append(@, CallMessage(c))]
      /\ child' = [child EXCEPT ![c].at = "await"]
      /\ UNCHANGED <<fromCinema, forwarder, uplink, downlink, connection, cinemaVars>>
  BY DEF SendCall
<1> HIDE DEF k
<1>2. /\ child \in [Client -> [at : {"receive", "send", "await", "end"}, asked : Choice,
                               id : Client \cup {UNDEFINED}]]
      /\ toCinema \in [Host -> Seq(MessageSet)]
  BY DEF TypeOK
<1>3. /\ child'[c].at = "await"
      /\ \A d \in Client : /\ d # c => child'[d] = child[d]
                           /\ child'[d].id = child[d].id /\ child'[d].asked = child[d].asked
  BY <1>1, <1>2
<1>4. \A d \in Client : /\ TypeOf(d)' = TypeOf(d) /\ CallMessage(d)' = CallMessage(d)
                        /\ Expected(d)' = Expected(d)
  BY <1>3 DEF TypeOf, CallMessage, Expected
<1>5. CallMessage(c) \in MessageSet
  BY <1>1, CallType
<1>6. TypeOK'
  <2>1. child' \in [Client -> [at : {"receive", "send", "await", "end"}, asked : Choice,
                               id : Client \cup {UNDEFINED}]]
    <3>1. child' = [child EXCEPT ![c] = [child[c] EXCEPT !.at = "await"]]
      BY <1>1
    <3>2. [child[c] EXCEPT !.at = "await"] \in
              [at : {"receive", "send", "await", "end"}, asked : Choice,
               id : Client \cup {UNDEFINED}]
      <4>1. child[c] \in [at : {"receive", "send", "await", "end"}, asked : Choice,
                          id : Client \cup {UNDEFINED}]
        BY <1>2
      <4> QED BY <4>1
    <3> QED BY <1>2, <3>1, <3>2
  <2>2. toCinema' \in [Host -> Seq(MessageSet)]
    BY <1>0, <1>1, <1>2, <1>5
  <2> QED BY <1>1, <2>1, <2>2 DEF TypeOK, cinemaVars
<1>7. \A d \in Client : Ready(d)' <=> Ready(d)
  BY <1>1, <1>3 DEF Ready, Fresh, Open, Over, cinemaVars
<1>8. Children'
  BY <1>1, <1>3, <1>7 DEF Children, cinemaVars
<1> DEFINE q == toCinema[k]
<1>9. /\ toCinema'[k] = Append(q, CallMessage(c)) /\ q \in Seq(MessageSet)
      /\ \A h \in Host : h # k => toCinema'[h] = toCinema[h]
  BY <1>0, <1>1, <1>2
<1>10. /\ Len(q) \in Nat /\ Append(q, CallMessage(c))[Len(q) + 1] = CallMessage(c)
       /\ DOMAIN Append(q, CallMessage(c)) = 1 .. Len(q) + 1
       /\ \A i \in DOMAIN Append(q, CallMessage(c)) :
             i = Len(q) + 1 \/ (i \in DOMAIN q /\ Append(q, CallMessage(c))[i] = q[i])
  BY <1>5, <1>9, OfAppend
<1>11. \A h \in Host : \A i \in DOMAIN toCinema'[h] :
          \/ h = k /\ i = Len(q) + 1 /\ toCinema'[h][i] = CallMessage(c)
          \/ i \in DOMAIN toCinema[h] /\ toCinema'[h][i] = toCinema[h][i]
  BY <1>9, <1>10
<1> HIDE DEF q
\* A client that has yet to send its call has none in the queue.
<1>12. ASSUME NEW h \in Host, NEW i \in DOMAIN toCinema[h]
       PROVE  toCinema[h][i] # CallMessage(c)
  <2> SUFFICES ASSUME toCinema[h][i] = CallMessage(c)
               PROVE  FALSE
    OBVIOUS
  <2>1. PICK d \in Client : child[d].at = "await" /\ toCinema[h][i] = CallMessage(d)
    BY DEF Calls
  <2>2. d # c
    BY <2>1, <1>1
  <2> QED BY <1>1, <2>1, <2>2, CallsDiffer
<1>13. Calls'
  <2>1. ASSUME NEW h \in Host, NEW i \in DOMAIN toCinema'[h]
        PROVE  \E d \in Client : /\ HostOf[d] = h /\ child'[d].at = "await" /\ Ready(d)'
                                 /\ toCinema'[h][i] = CallMessage(d)'
    <3>1. CASE h = k /\ i = Len(q) + 1 /\ toCinema'[h][i] = CallMessage(c)
      BY <3>1, <1>1, <1>3, <1>4, <1>7 DEF Children, k
    <3>2. CASE i \in DOMAIN toCinema[h] /\ toCinema'[h][i] = toCinema[h][i]
      <4>1. PICK d \in Client : /\ HostOf[d] = h /\ child[d].at = "await" /\ Ready(d)
                                /\ toCinema[h][i] = CallMessage(d)
        BY <3>2 DEF Calls
      <4>2. child'[d].at = "await"
        BY <4>1, <1>3
      <4> QED BY <3>2, <4>1, <4>2, <1>4, <1>7
    <3> QED BY <3>1, <3>2, <1>11
  <2>2. ASSUME NEW h \in Host, NEW i \in DOMAIN toCinema'[h], NEW j \in DOMAIN toCinema'[h],
               toCinema'[h][i] = toCinema'[h][j]
        PROVE  i = j
    <3>1. CASE i \in DOMAIN toCinema[h] /\ toCinema'[h][i] = toCinema[h][i]
      <4>1. toCinema'[h][j] # CallMessage(c)
        BY <2>2, <3>1, <1>12
      <4>2. j \in DOMAIN toCinema[h] /\ toCinema'[h][j] = toCinema[h][j]
        BY <4>1, <1>11
      <4> QED BY <2>2, <3>1, <4>2, ZenonT(60) DEF Calls
    <3>2. CASE i = Len(q) + 1 /\ toCinema'[h][i] = CallMessage(c)
      <4>1. toCinema'[h][j] = CallMessage(c)
        BY <2>2, <3>2
      <4>2. j = Len(q) + 1
        BY <4>1, <1>11, <1>12
      <4> QED BY <3>2, <4>2
    <3> QED BY <3>1, <3>2, <1>11
  <2> QED BY <2>1, <2>2 DEF Calls
<1>14. \A d \in Client : Away(d) => Away(d)' /\ d # c
  <2> SUFFICES ASSUME NEW d \in Client, Away(d)
               PROVE  Away(d)' /\ d # c
    OBVIOUS
  <2>1. d # c /\ child[d].at = "await" /\ child'[d].at = "await"
    BY <1>1, <1>3 DEF Away
  <2>2. CallMessage(d) # CallMessage(c)
    BY <1>1, <2>1, CallsDiffer
  <2>3. ~Queued(d)'
    <3>1. \A i \in DOMAIN toCinema'[HostOf[d]] : toCinema'[HostOf[d]][i] # CallMessage(d)
      BY <2>2, <1>11 DEF Away, Queued
    <3> QED BY <3>1, <1>4 DEF Queued
  <2> QED BY <2>1, <2>3 DEF Away
<1>15. ASSUME NEW d \in Client, NEW m, Good(d, m)
       PROVE  Good(d, m)'
  BY <1>1, <1>3, <1>4, <1>15 DEF Good, Open, Over, cinemaVars
<1>16. Wires'
  <2> SUFFICES ASSUME NEW h \in Host, NEW d \in Client,
                      GoesUp(h, d) \/ IsHeld(h, d) \/ GoesDown(h, d)
               PROVE  (GoesUp(h, d) \/ IsHeld(h, d) \/ GoesDown(h, d))'
    BY <1>1 DEF Wires, Idle
  <2>1. Carries(h, d)'
    BY <1>1, <1>4, <1>14 DEF GoesUp, IsHeld, GoesDown, Carries
  <2>2. CASE GoesUp(h, d)
    BY <1>1, <1>4, <1>7, <2>1, <2>2 DEF GoesUp
  <2>3. CASE IsHeld(h, d)
    BY <1>1, <1>4, <2>1, <2>3 DEF IsHeld, Open, Over, cinemaVars
  <2>4. CASE GoesDown(h, d)
    BY <1>1, <1>15, <2>1, <2>4 DEF GoesDown
  <2> QED BY <2>2, <2>3, <2>4
<1>17. Arrived'
  BY <1>1, <1>4, <1>14, <1>15 DEF Arrived
<1>18. \A d \in Client : Waits(d)' <=> Waits(d)
  BY <1>1, <1>4 DEF Waits
<1>19. Registration' /\ Confirmed' /\ Sessions'
  BY <1>1, <1>3, <1>18, CinemaFrame DEF Connecting, Visiting
<1> QED BY <1>6, <1>8, <1>13, <1>16, <1>17, <1>19

\* The child takes the answer and learns its id from it.
LEMMA TakeAnswerKeeps ==
  ASSUME IInv, NEW c \in Client, TakeAnswer(c)
  PROVE  IInv'
<1> USE DEF IInv
<1> DEFINE k == HostOf[c]  t == TypeOf(c)  m == Head(fromCinema[k][t])
           box == [at : {"receive", "send", "await", "end"}, asked : Choice,
                   id : Client \cup {UNDEFINED}]
<1>0. k \in Host /\ t \in Type
  BY TypesDiffer
<1>1. /\ child[c].at = "await" /\ fromCinema[k][t] # <<>>
      /\ fromCinema' = [fromCinema EXCEPT ![k] = Without(@, t)]
      /\ child' = [child EXCEPT ![c] =
               [@ EXCEPT !.at = IF m.choice = "exit" THEN "end" ELSE "receive",
                         !.id = IF m.choice = "accepted" THEN m.id ELSE child[c].id]]
      /\ UNCHANGED <<toCinema, forwarder, uplink, downlink, connection, cinemaVars>>
  BY DEF TakeAnswer
<1>2. Away(c) /\ Len(fromCinema[k][t]) = 1 /\ Good(c, m)
  <2>1. PICK d \in Client : /\ t = TypeOf(d) /\ Away(d)
                            /\ Len(fromCinema[k][t]) = 1 /\ Good(d, m)
    BY <1>0, <1>1 DEF Arrived
  <2>2. d = c
    BY <2>1, TypesDiffer
  <2> QED BY <2>1, <2>2
<1> DEFINE id == IF m.choice = "accepted" THEN m.id ELSE child[c].id
           at == IF m.choice = "exit" THEN "end" ELSE "receive"
<1>3. id = c /\ listener[c].at # "none" /\ (at = "receive" => Open(c))
  <2>1. CASE m.choice = "accepted"
    BY <1>2, <2>1 DEF Good
  <2>2. CASE m.choice # "accepted"
    <3>1. child[c].asked # "connect"
      BY <1>2, <2>2 DEF Good, Expected
    <3>2. child[c].id = c
      BY <1>1, <3>1 DEF Children
    <3> QED BY <1>2, <2>2, <3>2 DEF Good, Children
  <2> QED BY <2>1, <2>2
<1>4. child[c] \in box /\ child \in [Client -> box] /\ fromCinema \in [Host -> [Type -> Seq(MessageSet)]]
  BY DEF TypeOK
<1>5. child' = [child EXCEPT ![c] = [child[c] EXCEPT !.at = at, !.id = id]]
  BY <1>1
<1>6. at \in {"receive", "end"} /\ (m.choice = "exit" <=> at = "end")
  OBVIOUS
<1> HIDE DEF id, at
<1>7. [child[c] EXCEPT !.at = at, !.id = id] \in box
  BY <1>3, <1>4, <1>6
<1>8. /\ child' \in [Client -> box]
      /\ child'[c].at = at /\ child'[c].id = c /\ child'[c].asked = child[c].asked
      /\ \A d \in Client : d # c => child'[d] = child[d]
  BY <1>3, <1>4, <1>5, <1>7
<1> HIDE DEF k, t, m
<1>9. /\ fromCinema'[k][t] = <<>>
      /\ fromCinema' \in [Host -> [Type -> Seq(MessageSet)]]
      /\ \A h \in Host, u \in Type : h # k \/ u # t => fromCinema'[h][u] = fromCinema[h][u]
  <2> DEFINE q == fromCinema[k][t]
  <2>1. q \in Seq(MessageSet) /\ Len(q) = 1
    BY <1>0, <1>2, <1>4
  <2>2. Tail(q) \in Seq(MessageSet) /\ Len(Tail(q)) = 0
    BY <2>1, <1>1, OfTail
  <2>3. Tail(q) = <<>>
    BY <2>2, SMTT(30)
  <2>4. fromCinema' = [fromCinema EXCEPT ![k] = [fromCinema[k] EXCEPT ![t] = <<>>]]
    BY <1>0, <1>1, <1>4, <2>3 DEF Without
  <2> QED BY <1>0, <1>4, <2>4
<1>10. TypeOK'
  BY <1>1, <1>8, <1>9 DEF TypeOK, cinemaVars
<1>11. \A d \in Client : d # c => /\ TypeOf(d)' = TypeOf(d) /\ CallMessage(d)' = CallMessage(d)
                                  /\ Expected(d)' = Expected(d)
  BY <1>8 DEF TypeOf, CallMessage, Expected
<1>12. \A d \in Client : d # c => (Ready(d) => Ready(d)')
  BY <1>1, <1>8 DEF Ready, Fresh, Open, Over, cinemaVars
<1>13. Children'
  <2>1. ASSUME at = "receive" PROVE Ready(c)'
    BY <1>1, <1>3, <1>8, <2>1, Types DEF Ready, Fresh, Open, Over, cinemaVars
  <2>2. /\ child'[c].id \in {UNDEFINED, c} /\ child'[c].id = c /\ listener'[c].at # "none"
        /\ child'[c].at \notin {"send", "await"}
        /\ child'[c].at \in {"receive", "send"} => Ready(c)'
    BY <1>1, <1>3, <1>6, <1>8, <2>1 DEF cinemaVars
  <2>3. \A d \in Client : d # c =>
            /\ child'[d].id \in {UNDEFINED, d}
            /\ child'[d].id = d => listener'[d].at # "none"
            /\ child'[d].at \in {"send", "await"} =>
                  \/ child'[d].asked = "connect" /\ child'[d].id = UNDEFINED
                  \/ child'[d].asked \in Asked /\ child'[d].id = d
            /\ child'[d].at \in {"receive", "send"} => Ready(d)'
    BY <1>1, <1>8, <1>12 DEF Children, cinemaVars
  <2> QED BY <2>2, <2>3 DEF Children
<1>14. Calls'
  <2>1. ASSUME NEW h \in Host, NEW i \in DOMAIN toCinema[h], NEW d \in Client, HostOf[d] = h,
               toCinema[h][i] = CallMessage(d)
        PROVE  d # c
    BY <1>2, <2>1 DEF Away, Queued
  <2>2. ASSUME NEW h \in Host, NEW i \in DOMAIN toCinema[h]
        PROVE  \E d \in Client : /\ HostOf[d] = h /\ child'[d].at = "await" /\ Ready(d)'
                                 /\ toCinema[h][i] = CallMessage(d)'
    <3>1. PICK d \in Client : /\ HostOf[d] = h /\ child[d].at = "await" /\ Ready(d)
                              /\ toCinema[h][i] = CallMessage(d)
      BY DEF Calls
    <3>2. d # c
      BY <2>1, <3>1
    <3> QED BY <3>1, <3>2, <1>8, <1>11, <1>12
  <2> QED BY <1>1, <2>2 DEF Calls
<1>15. \A d \in Client : d # c /\ Away(d) => Away(d)'
  BY <1>1, <1>8, <1>11 DEF Away, Queued
<1>16. ASSUME NEW d \in Client, NEW p, d # c, Good(d, p)
       PROVE  Good(d, p)'
  BY <1>1, <1>8, <1>11, <1>16 DEF Good, Open, Over, cinemaVars
<1>17. Wires'
  <2> SUFFICES ASSUME NEW h \in Host, NEW d \in Client,
                      GoesUp(h, d) \/ IsHeld(h, d) \/ GoesDown(h, d)
               PROVE  (GoesUp(h, d) \/ IsHeld(h, d) \/ GoesDown(h, d))'
    BY <1>1 DEF Wires, Idle
  <2>0. HostOf[d] = h /\ Away(d) /\ fromCinema[h][TypeOf(d)] = <<>>
    BY DEF GoesUp, IsHeld, GoesDown, Carries
  <2>1. d # c
    BY <1>1, <2>0 DEF k, t
  <2>2. fromCinema'[h][TypeOf(d)] = <<>>
    BY <2>0, <1>9, TypesDiffer, ZenonT(60)
  <2>3. Carries(h, d)'
    BY <2>0, <2>1, <2>2, <1>11, <1>15 DEF Carries
  <2>4. CASE GoesUp(h, d)
    BY <1>1, <1>11, <1>12, <2>1, <2>3, <2>4 DEF GoesUp
  <2>5. CASE IsHeld(h, d)
    BY <1>1, <1>11, <2>1, <2>3, <2>5 DEF IsHeld, Open, Over, cinemaVars
  <2>6. CASE GoesDown(h, d)
    BY <1>1, <1>16, <2>1, <2>3, <2>6 DEF GoesDown
  <2> QED BY <2>4, <2>5, <2>6
<1>18. Arrived'
  <2> SUFFICES ASSUME NEW h \in Host, NEW u \in Type, fromCinema'[h][u] # <<>>
               PROVE  \E d \in Client : /\ HostOf[d] = h /\ u = TypeOf(d)' /\ Away(d)'
                                        /\ Len(fromCinema'[h][u]) = 1
                                        /\ Good(d, Head(fromCinema[h][u]))'
    BY DEF Arrived
  <2>1. fromCinema'[h][u] = fromCinema[h][u] /\ (h # k \/ u # t)
    BY <1>9
  <2>2. PICK d \in Client : /\ HostOf[d] = h /\ u = TypeOf(d) /\ Away(d)
                            /\ Len(fromCinema[h][u]) = 1 /\ Good(d, Head(fromCinema[h][u]))
    BY <2>1 DEF Arrived
  <2>3. d # c
    BY <2>1, <2>2 DEF k, t
  <2> QED BY <2>1, <2>2, <2>3, <1>11, <1>15, <1>16
<1>19. ~Waits(c) /\ ~Waits(c)'
  <2>1. ~Waits(c)
    BY <1>1, HeldAlone DEF IsHeld, Carries, k, t
  <2>2. ASSUME Waits(c)'
        PROVE  FALSE
    <3>1. TypeOf(c)' = c
      BY <1>8, Types DEF TypeOf
    <3>2. connection[k] = [at |-> "await", type |-> c]
      BY <1>1, <2>2, <3>1 DEF Waits, k
    <3>3. PICK d \in Client : GoesUp(k, d) \/ IsHeld(k, d) \/ GoesDown(k, d)
      BY <1>0, <3>2 DEF Wires, Idle
    <3>4. TypeOf(d) = c
      BY <3>2, <3>3 DEF GoesUp, IsHeld, GoesDown
    <3>5. d = c
      BY <3>4, TypesDiffer, Types
    <3> QED BY <2>1, <3>2, <3>4, <3>5 DEF Waits, k
  <2> QED BY <2>1, <2>2
<1>20. \A d \in Client : /\ Waits(d)' <=> Waits(d)
                         /\ Waits(d) => child'[d] = child[d]
  BY <1>1, <1>8, <1>11, <1>19 DEF Waits
<1>21. Registration' /\ Confirmed' /\ Sessions'
  BY <1>1, <1>20, CinemaFrame DEF Connecting, Visiting
<1> QED BY <1>10, <1>13, <1>14, <1>17, <1>18, <1>21

\* The forwarder puts a call on an idle wire.
LEMMA ForwardCallKeeps ==
  ASSUME IInv, NEW k \in Host, ForwardCall(k)
  PROVE  IInv'
<1> USE DEF IInv
<1> DEFINE q == toCinema[k]
<1>1. /\ forwarder[k] = "call" /\ q # <<>>
      /\ toCinema' = [toCinema EXCEPT ![k] = Tail(@)]
      /\ uplink' = [uplink EXCEPT ![k] = Append(@, serialize_message(Head(q)))]
      /\ forwarder' = [forwarder EXCEPT ![k] = "answer"]
      /\ UNCHANGED <<child, fromCinema, downlink, connection, cinemaVars>>
  BY DEF ForwardCall
<1>2. /\ toCinema \in [Host -> Seq(MessageSet)] /\ uplink \in [Host -> Seq(PacketSet)]
      /\ forwarder \in [Host -> {"call", "answer"}]
  BY DEF TypeOK
<1>3. /\ q \in Seq(MessageSet) /\ Tail(q) \in Seq(MessageSet) /\ Head(q) \in MessageSet
      /\ 1 \in DOMAIN q /\ Head(q) = q[1]
      /\ \A i \in DOMAIN Tail(q) : i + 1 \in DOMAIN q /\ Tail(q)[i] = q[i + 1] /\ i \in Nat \ {0}
  BY <1>1, <1>2, OfTail
<1>4. /\ toCinema'[k] = Tail(q)
      /\ \A h \in Host : h # k => toCinema'[h] = toCinema[h] /\ uplink'[h] = uplink[h]
                                  /\ forwarder'[h] = forwarder[h]
      /\ forwarder'[k] = "answer"
      /\ uplink'[k] = Append(uplink[k], serialize_message(Head(q)))
  BY <1>1, <1>2
<1>5. PICK c \in Client : HostOf[c] = k /\ child[c].at = "await" /\ Ready(c) /\ q[1] = CallMessage(c)
  BY <1>3 DEF Calls
<1>6. Idle(k)
  BY <1>1 DEF Wires
<1>7. serialize_message(Head(q)) \in PacketSet
  BY <1>3, PacketType
<1>8. uplink'[k] = <<serialize_message(CallMessage(c))>>
  BY <1>3, <1>4, <1>5, <1>6 DEF Idle
<1>9. TypeOK'
  <2>1. toCinema' \in [Host -> Seq(MessageSet)]
    BY <1>1, <1>2, <1>3
  <2>2. uplink' \in [Host -> Seq(PacketSet)]
    BY <1>1, <1>2, <1>7
  <2>3. forwarder' \in [Host -> {"call", "answer"}]
    BY <1>1, <1>2
  <2> QED BY <1>1, <2>1, <2>2, <2>3 DEF TypeOK, cinemaVars
<1>10. \A d \in Client : /\ TypeOf(d)' = TypeOf(d) /\ CallMessage(d)' = CallMessage(d)
                         /\ Expected(d)' = Expected(d) /\ (Ready(d)' <=> Ready(d))
  BY <1>1 DEF TypeOf, CallMessage, Expected, Ready, Fresh, Open, Over, cinemaVars
<1> HIDE DEF q
<1>11. \A h \in Host : \A i \in DOMAIN toCinema'[h] :
          \/ h # k /\ i \in DOMAIN toCinema[h] /\ toCinema'[h][i] = toCinema[h][i]
          \/ /\ h = k /\ i + 1 \in DOMAIN toCinema[h] /\ toCinema'[h][i] = toCinema[h][i + 1]
             /\ i \in Nat \ {0}
  BY <1>3, <1>4 DEF q
<1>12. ASSUME NEW i \in DOMAIN toCinema'[k]
       PROVE  toCinema'[k][i] # CallMessage(c)
  <2>1. /\ i + 1 \in DOMAIN toCinema[k] /\ 1 \in DOMAIN toCinema[k]
        /\ toCinema'[k][i] = toCinema[k][i + 1] /\ i + 1 # 1
    BY <1>3, <1>11 DEF q
  <2>2. toCinema[k][i + 1] # toCinema[k][1]
    BY <2>1 DEF Calls
  <2> QED BY <2>1, <2>2, <1>5 DEF q
<1>13. Children'
  BY <1>1, <1>10 DEF Children, cinemaVars
<1>14. Calls'
  <2>1. ASSUME NEW h \in Host, NEW i \in DOMAIN toCinema'[h]
        PROVE  \E d \in Client : /\ HostOf[d] = h /\ child[d].at = "await" /\ Ready(d)
                                 /\ toCinema'[h][i] = CallMessage(d)
    BY <1>11 DEF Calls
  <2>2. ASSUME NEW h \in Host, NEW i \in DOMAIN toCinema'[h], NEW j \in DOMAIN toCinema'[h],
               toCinema'[h][i] = toCinema'[h][j]
        PROVE  i = j
    <3>1. CASE h # k
      BY <2>2, <3>1, <1>11 DEF Calls
    <3>2. CASE h = k
      <4>1. i \in Nat /\ j \in Nat
        BY <3>2, <1>11
      <4>2. i + 1 = j + 1
        BY <2>2, <3>2, <1>11 DEF Calls
      <4> QED BY <4>1, <4>2
    <3> QED BY <3>1, <3>2
  <2>3. ASSUME NEW h \in Host, NEW i \in DOMAIN toCinema'[h]
        PROVE  \E d \in Client : /\ HostOf[d] = h /\ child'[d].at = "await" /\ Ready(d)'
                                 /\ toCinema'[h][i] = CallMessage(d)'
    BY <1>1, <1>10, <2>1
  <2> QED BY <2>2, <2>3 DEF Calls
<1>15. \A d \in Client : Queued(d)' => Queued(d)
  BY <1>10, <1>11 DEF Queued
<1>16. \A d \in Client : Away(d) => Away(d)'
  BY <1>1, <1>15 DEF Away
<1>17. Away(c)'
  BY <1>1, <1>5, <1>10, <1>12 DEF Away, Queued
<1>18. fromCinema[k][TypeOf(c)] = <<>>
  <2> SUFFICES ASSUME fromCinema[k][TypeOf(c)] # <<>>
               PROVE  FALSE
    OBVIOUS
  <2>1. PICK d \in Client : TypeOf(c) = TypeOf(d) /\ Away(d)
    BY TypesDiffer DEF Arrived
  <2>2. Away(c)
    BY <2>1, TypesDiffer
  <2> QED BY <2>2, <1>3, <1>5 DEF Away, Queued, q
<1>19. ASSUME NEW d \in Client, NEW m, Good(d, m)
       PROVE  Good(d, m)'
  BY <1>1, <1>10, <1>19 DEF Good, Open, Over, cinemaVars
<1>20. Wires'
  <2> SUFFICES ASSUME NEW h \in Host
               PROVE  \/ forwarder'[h] = "call" /\ Idle(h)'
                      \/ /\ forwarder'[h] = "answer"
                         /\ \E d \in Client : (GoesUp(h, d) \/ IsHeld(h, d) \/ GoesDown(h, d))'
    BY DEF Wires
  <2>1. CASE h = k
    <3>1. GoesUp(k, c)'
      BY <1>1, <1>5, <1>6, <1>8, <1>10, <1>17, <1>18 DEF GoesUp, Carries, Idle
    <3> QED BY <2>1, <3>1, <1>4
  <2>2. CASE h # k /\ forwarder[h] = "call"
    BY <2>2, <1>1, <1>4 DEF Wires, Idle
  <2>3. CASE h # k /\ forwarder[h] # "call"
    <3>1. PICK d \in Client : GoesUp(h, d) \/ IsHeld(h, d) \/ GoesDown(h, d)
      BY <2>3 DEF Wires
    <3>2. Carries(h, d)'
      BY <3>1, <1>1, <1>10, <1>16 DEF GoesUp, IsHeld, GoesDown, Carries
    <3>3. CASE GoesUp(h, d)
      BY <1>1, <1>4, <1>10, <2>3, <3>2, <3>3 DEF GoesUp, Wires
    <3>4. CASE IsHeld(h, d)
      BY <1>1, <1>4, <1>10, <2>3, <3>2, <3>4 DEF IsHeld, Open, Over, cinemaVars, Wires
    <3>5. CASE GoesDown(h, d)
      BY <1>1, <1>4, <1>19, <2>3, <3>2, <3>5 DEF GoesDown, Wires
    <3> QED BY <3>1, <3>3, <3>4, <3>5
  <2> QED BY <2>1, <2>2, <2>3
<1>21. Arrived'
  BY <1>1, <1>10, <1>16, <1>19 DEF Arrived
<1>22. \A d \in Client : Waits(d)' <=> Waits(d)
  BY <1>1, <1>10 DEF Waits
<1>23. Registration' /\ Confirmed' /\ Sessions'
  BY <1>1, <1>22, CinemaFrame DEF Connecting, Visiting
<1> QED BY <1>9, <1>13, <1>14, <1>20, <1>21, <1>23

\* The forwarder puts the answer under the type of the client it carries for.
LEMMA ForwardAnswerKeeps ==
  ASSUME IInv, NEW k \in Host, ForwardAnswer(k)
  PROVE  IInv'
<1> USE DEF IInv
<1> DEFINE m == deserialize_message(Head(downlink[k]))
<1>1. /\ forwarder[k] = "answer" /\ downlink[k] # <<>>
      /\ downlink' = [downlink EXCEPT ![k] = Tail(@)]
      /\ fromCinema' = [fromCinema EXCEPT ![k] = Put(@, m)]
      /\ forwarder' = [forwarder EXCEPT ![k] = "call"]
      /\ UNCHANGED <<child, toCinema, uplink, connection, cinemaVars>>
  BY DEF ForwardAnswer
<1>2. PICK c \in Client : GoesDown(k, c)
  BY <1>1 DEF Wires, Idle, GoesUp, IsHeld
<1>3. /\ HostOf[c] = k /\ Away(c) /\ fromCinema[k][TypeOf(c)] = <<>>
      /\ Len(downlink[k]) = 1 /\ Good(c, m) /\ uplink[k] = <<>>
      /\ connection[k].at = "receive"
  BY <1>2 DEF GoesDown, Carries
<1>4. /\ fromCinema \in [Host -> [Type -> Seq(MessageSet)]]
      /\ downlink \in [Host -> Seq(PacketSet)] /\ forwarder \in [Host -> {"call", "answer"}]
  BY DEF TypeOK
<1>5. Head(downlink[k]) \in PacketSet /\ Tail(downlink[k]) \in Seq(PacketSet)
      /\ Len(Tail(downlink[k])) = 0
  <2>1. downlink[k] \in Seq(PacketSet)
    BY <1>4
  <2> QED BY <2>1, <1>1, <1>3, OfTail
<1>6. m.type = TypeOf(c) /\ TypeOf(c) \in Type
  BY <1>3, TypesDiffer DEF Good
<1>7. m \in MessageSet
  BY <1>5, <1>6, PacketType
<1> HIDE DEF m
<1>8. /\ downlink'[k] = <<>> /\ downlink' \in [Host -> Seq(PacketSet)]
      /\ forwarder' \in [Host -> {"call", "answer"}] /\ forwarder'[k] = "call"
      /\ \A h \in Host : h # k => /\ downlink'[h] = downlink[h] /\ forwarder'[h] = forwarder[h]
  BY <1>1, <1>4, <1>5
<1>9. fromCinema' = [fromCinema EXCEPT ![k] = [fromCinema[k] EXCEPT ![TypeOf(c)] = <<m>>]]
  <2>1. Put(fromCinema[k], m) = [fromCinema[k] EXCEPT ![TypeOf(c)] = Append(@, m)]
    BY <1>6 DEF Put
  <2>2. [fromCinema[k] EXCEPT ![TypeOf(c)] = Append(@, m)]
          = [fromCinema[k] EXCEPT ![TypeOf(c)] = <<m>>]
    BY <1>3, <1>4
  <2> QED BY <1>1, <2>1, <2>2
<1>10. /\ fromCinema'[k][TypeOf(c)] = <<m>>
       /\ \A h \in Host, t \in Type :
             h # k \/ t # TypeOf(c) => fromCinema'[h][t] = fromCinema[h][t]
       /\ fromCinema' \in [Host -> [Type -> Seq(MessageSet)]]
  BY <1>4, <1>6, <1>7, <1>9
<1>11. TypeOK'
  BY <1>1, <1>8, <1>10 DEF TypeOK, cinemaVars
<1>12. \A d \in Client : /\ TypeOf(d)' = TypeOf(d) /\ CallMessage(d)' = CallMessage(d)
                         /\ Expected(d)' = Expected(d) /\ (Ready(d)' <=> Ready(d))
                         /\ (Open(d)' <=> Open(d))
  BY <1>1 DEF TypeOf, CallMessage, Expected, Ready, Fresh, Open, Over, cinemaVars
<1>13. \A d \in Client : Away(d)' <=> Away(d)
  BY <1>1, <1>12 DEF Away, Queued
<1>14. ASSUME NEW d \in Client, NEW p, Good(d, p)
       PROVE  Good(d, p)'
  BY <1>1, <1>12, <1>14 DEF Good, cinemaVars
<1>15. Children'
  BY <1>1, <1>12 DEF Children, cinemaVars
<1>16. Calls'
  BY <1>1, <1>12 DEF Calls
<1>17. Wires'
  <2> SUFFICES ASSUME NEW h \in Host
               PROVE  \/ forwarder'[h] = "call" /\ Idle(h)'
                      \/ /\ forwarder'[h] = "answer"
                         /\ \E d \in Client : (GoesUp(h, d) \/ IsHeld(h, d) \/ GoesDown(h, d))'
    BY DEF Wires
  <2>1. CASE h = k
    BY <2>1, <1>1, <1>3, <1>8 DEF Idle
  <2>2. CASE h # k /\ forwarder[h] = "call"
    BY <2>2, <1>1, <1>8 DEF Wires, Idle
  <2>3. CASE h # k /\ forwarder[h] # "call"
    <3>1. PICK d \in Client : GoesUp(h, d) \/ IsHeld(h, d) \/ GoesDown(h, d)
      BY <2>3 DEF Wires
    <3>2. Carries(h, d)'
      <4>1. HostOf[d] = h /\ Away(d) /\ fromCinema[h][TypeOf(d)] = <<>>
        BY <3>1 DEF GoesUp, IsHeld, GoesDown, Carries
      <4>2. fromCinema'[h][TypeOf(d)] = <<>>
        BY <4>1, <2>3, <1>10, TypesDiffer
      <4> QED BY <4>1, <4>2, <1>12, <1>13 DEF Carries
    <3>3. CASE GoesUp(h, d)
      BY <1>1, <1>8, <1>12, <2>3, <3>2, <3>3 DEF GoesUp, Wires
    <3>4. CASE IsHeld(h, d)
      BY <1>1, <1>8, <1>12, <2>3, <3>2, <3>4 DEF IsHeld, Wires
    <3>5. CASE GoesDown(h, d)
      BY <1>1, <1>8, <1>14, <2>3, <3>2, <3>5 DEF GoesDown, Wires
    <3> QED BY <3>1, <3>3, <3>4, <3>5
  <2> QED BY <2>1, <2>2, <2>3
<1>18. Arrived'
  <2> SUFFICES ASSUME NEW h \in Host, NEW t \in Type, fromCinema'[h][t] # <<>>
               PROVE  \E d \in Client : /\ HostOf[d] = h /\ t = TypeOf(d)' /\ Away(d)'
                                        /\ Len(fromCinema'[h][t]) = 1
                                        /\ Good(d, Head(fromCinema[h][t]))'
    BY DEF Arrived
  <2>1. CASE h = k /\ t = TypeOf(c)
    <3>1. Len(fromCinema'[h][t]) = 1 /\ Head(fromCinema'[h][t]) = m
      BY <2>1, <1>10
    <3> QED BY <2>1, <3>1, <1>3, <1>12, <1>13, <1>14
  <2>2. CASE h # k \/ t # TypeOf(c)
    <3>1. fromCinema'[h][t] = fromCinema[h][t]
      BY <2>2, <1>10
    <3>2. PICK d \in Client : /\ HostOf[d] = h /\ t = TypeOf(d) /\ Away(d)
                              /\ Len(fromCinema[h][t]) = 1 /\ Good(d, Head(fromCinema[h][t]))
      BY <3>1 DEF Arrived
    <3> QED BY <3>1, <3>2, <1>12, <1>13, <1>14
  <2> QED BY <2>1, <2>2
<1>19. \A d \in Client : Waits(d)' <=> Waits(d)
  BY <1>1, <1>12 DEF Waits
<1>20. Registration' /\ Confirmed' /\ Sessions'
  BY <1>1, <1>19, CinemaFrame DEF Connecting, Visiting
<1> QED BY <1>11, <1>15, <1>16, <1>17, <1>18, <1>20

\* The connection puts the call into the shared queue and waits for its client.
LEMMA TakePacketKeeps ==
  ASSUME IInv, NEW k \in Host, TakePacket(k)
  PROVE  IInv'
<1> USE DEF IInv
<1> DEFINE m == deserialize_message(Head(uplink[k]))
<1>1. /\ connection[k].at = "receive" /\ uplink[k] # <<>>
      /\ uplink' = [uplink EXCEPT ![k] = Tail(@)]
      /\ requests' = [requests EXCEPT ![m.type] = Append(@, m)]
      /\ connection' = [connection EXCEPT ![k] = [at |-> "await", type |-> AnswerType(m)]]
      /\ UNCHANGED <<child, toCinema, fromCinema, forwarder, downlink,
                     responses, cinema, listener, expired>>
  BY DEF TakePacket, Put
<1>2. PICK c \in Client : GoesUp(k, c)
  BY <1>1 DEF Wires, Idle, GoesDown, IsHeld
<1>3. /\ HostOf[c] = k /\ Away(c) /\ fromCinema[k][TypeOf(c)] = <<>> /\ Ready(c)
      /\ uplink[k] = <<serialize_message(CallMessage(c))>> /\ downlink[k] = <<>>
      /\ child[c].at = "await"
  BY <1>2 DEF GoesUp, Carries, Away
<1>4. m = CallMessage(c)
  BY <1>3, CallArrives
<1>5. /\ m \in MessageSet /\ m.choice = child[c].asked /\ IsCall(m) /\ AnswerType(m) = TypeOf(c)
      /\ IF child[c].id = UNDEFINED
         THEN m.id = Token[c] /\ m.type = TYPE_CONNECTION_CINEMA_REQUEST
         ELSE child[c].id = c /\ m.type = c
  BY <1>3, <1>4, CallType
<1> HIDE DEF m
<1>6. /\ uplink \in [Host -> Seq(PacketSet)] /\ requests \in [Type -> Seq(MessageSet)]
      /\ connection \in [Host -> [at : {"receive", "await"}, type : Type \cup {0}]]
      /\ responses \in [Type -> Seq(MessageSet)]
      /\ listener \in [Client -> [at : ListenerPc, asked : Choice]]
  BY DEF TypeOK, ListenerPc
<1>7. /\ uplink'[k] = <<>> /\ uplink' \in [Host -> Seq(PacketSet)]
      /\ \A h \in Host : h # k => uplink'[h] = uplink[h]
  <2>1. Tail(uplink[k]) = <<>>
    BY <1>3
  <2> QED BY <1>1, <1>6, <2>1
<1>8. TypeOf(c) \in Type /\ m.type \in Type
  BY <1>5, TypesDiffer, Types
<1>9. /\ connection'[k] = [at |-> "await", type |-> TypeOf(c)]
      /\ connection' \in [Host -> [at : {"receive", "await"}, type : Type \cup {0}]]
      /\ \A h \in Host : h # k => connection'[h] = connection[h]
  BY <1>1, <1>5, <1>6, <1>8
<1>10. /\ requests' \in [Type -> Seq(MessageSet)]
       /\ requests'[m.type] = Append(requests[m.type], m)
       /\ \A t \in Type : t # m.type => requests'[t] = requests[t]
  BY <1>1, <1>5, <1>6, <1>8
<1>11. TypeOK'
  BY <1>1, <1>7, <1>9, <1>10 DEF TypeOK
<1>12. \A d \in Client : /\ TypeOf(d)' = TypeOf(d) /\ CallMessage(d)' = CallMessage(d)
                         /\ Expected(d)' = Expected(d) /\ (Ready(d)' <=> Ready(d))
                         /\ (Open(d)' <=> Open(d))
  BY <1>1 DEF TypeOf, CallMessage, Expected, Ready, Fresh, Open, Over
<1>13. \A d \in Client : Away(d)' <=> Away(d)
  BY <1>1, <1>12 DEF Away, Queued
<1>14. ASSUME NEW d \in Client, NEW p, Good(d, p)
       PROVE  Good(d, p)'
  BY <1>1, <1>12, <1>14 DEF Good
<1>15. Children'
  BY <1>1, <1>12 DEF Children
<1>16. Calls'
  BY <1>1, <1>12 DEF Calls
<1>17. \A h \in Host, d \in Client : Carries(h, d)' <=> Carries(h, d)
  BY <1>1, <1>12, <1>13 DEF Carries
<1>18. Wires'
  <2> SUFFICES ASSUME NEW h \in Host
               PROVE  \/ forwarder'[h] = "call" /\ Idle(h)'
                      \/ /\ forwarder'[h] = "answer"
                         /\ \E d \in Client : (GoesUp(h, d) \/ IsHeld(h, d) \/ GoesDown(h, d))'
    BY DEF Wires
  <2>1. CASE h = k
    <3>1. IsHeld(k, c)'
      BY <1>1, <1>2, <1>3, <1>7, <1>9, <1>12, <1>17 DEF GoesUp, IsHeld, Ready
    <3> QED BY <2>1, <3>1, <1>1, <1>3 DEF Wires, Idle
  <2>2. CASE h # k /\ forwarder[h] = "call"
    BY <2>2, <1>1, <1>7, <1>9 DEF Wires, Idle
  <2>3. CASE h # k /\ forwarder[h] # "call"
    <3>1. PICK d \in Client : GoesUp(h, d) \/ IsHeld(h, d) \/ GoesDown(h, d)
      BY <2>3 DEF Wires
    <3>2. CASE GoesUp(h, d)
      BY <1>1, <1>7, <1>9, <1>12, <1>17, <2>3, <3>2 DEF GoesUp, Wires
    <3>3. CASE IsHeld(h, d)
      BY <1>1, <1>7, <1>9, <1>12, <1>17, <2>3, <3>3 DEF IsHeld, Wires
    <3>4. CASE GoesDown(h, d)
      BY <1>1, <1>7, <1>9, <1>14, <1>17, <2>3, <3>4 DEF GoesDown, Wires
    <3> QED BY <3>1, <3>2, <3>3, <3>4
  <2> QED BY <2>1, <2>2, <2>3
<1>19. Arrived'
  <2> SUFFICES ASSUME NEW h \in Host, NEW t \in Type, fromCinema[h][t] # <<>>
               PROVE  \E d \in Client : /\ HostOf[d] = h /\ t = TypeOf(d)' /\ Away(d)'
                                        /\ Len(fromCinema[h][t]) = 1
                                        /\ Good(d, Head(fromCinema[h][t]))'
    BY <1>1 DEF Arrived
  <2>1. PICK d \in Client : /\ HostOf[d] = h /\ t = TypeOf(d) /\ Away(d)
                            /\ Len(fromCinema[h][t]) = 1 /\ Good(d, Head(fromCinema[h][t]))
    BY DEF Arrived
  <2> QED BY <1>1, <1>12, <1>13, <1>14, <2>1
\* Now the connection waits for c, and it waited for nobody before.
<1>20. Waits(c)' /\ ~Waits(c)
  <2>1. connection'[HostOf[c]] = [at |-> "await", type |-> TypeOf(c)']
    BY <1>3, <1>9, <1>12
  <2>2. connection[HostOf[c]].at # "await"
    BY <1>1, <1>3
  <2> QED BY <2>1, <2>2 DEF Waits
<1>21. \A d \in Client : d # c => (Waits(d)' <=> Waits(d))
  <2> SUFFICES ASSUME NEW d \in Client, d # c
               PROVE  Waits(d)' <=> Waits(d)
    OBVIOUS
  <2>1. CASE HostOf[d] = k
    <3>1. TypeOf(d) # TypeOf(c)
      BY TypesDiffer
    <3> QED BY <2>1, <3>1, <1>1, <1>9, <1>12 DEF Waits
  <2>2. CASE HostOf[d] # k
    BY <2>2, <1>9, <1>12 DEF Waits
  <2> QED BY <2>1, <2>2
<1>22. /\ \A d \in Client : Connecting(d) => Connecting(d)'
       /\ \A d \in Client : d # c => (Visiting(d)' <=> Visiting(d))
  BY <1>1, <1>20, <1>21 DEF Connecting, Visiting
<1>23. Confirmed'
  BY <1>1, <1>22 DEF Confirmed
<1>24. \A d \in Client : d # c => SessionOf(d)'
  <2> SUFFICES ASSUME NEW d \in Client, d # c
               PROVE  SessionOf(d)'
    OBVIOUS
  <2>1. requests'[d] = requests[d]
    BY <1>5, <1>10, Types
  <2> QED BY <1>1, <1>22, <2>1, SessionFrame DEF Sessions
<1>25. CASE child[c].id = UNDEFINED
  <2>1. m.id = Token[c] /\ m.type = TYPE_CONNECTION_CINEMA_REQUEST
    BY <1>5, <1>25
  <2>2. Connecting(c)' /\ listener[c].at = "none" /\ ~Connecting(c)
    BY <1>1, <1>3, <1>20, <1>25 DEF Connecting, Ready, Fresh
  <2>3. Registration'
    <3> DEFINE q == Registers
    <3>1. Registers' = Append(q, m) /\ q \in Seq(MessageSet)
      BY <2>1, <1>6, <1>10, Types DEF Registers
    <3>2. /\ \A i \in DOMAIN Registers' : \/ i = Len(q) + 1 /\ Registers'[i] = m
                                          \/ i \in DOMAIN q /\ Registers'[i] = q[i]
      BY <3>1, <1>5, OfAppend
    <3>3. \A i \in DOMAIN q : q[i].id # Token[c]
      <4> SUFFICES ASSUME NEW i \in DOMAIN q
                   PROVE  q[i].id # Token[c]
        OBVIOUS
      <4>1. PICK d \in Client : q[i].id = Token[d] /\ Connecting(d)
        BY DEF Registration
      <4>2. d # c
        BY <2>2, <4>1
      <4> QED BY <4>1, <4>2
    <3>4. cinema # [at |-> "confirm", token |-> Token[c]]
      BY <2>2 DEF Registration
    <3> HIDE DEF q
    <3>5. ASSUME NEW i \in DOMAIN Registers'
          PROVE  \E d \in Client : /\ Registers'[i].id = Token[d]
                                   /\ Connecting(d)' /\ listener[d].at = "none"
                                   /\ cinema # [at |-> "confirm", token |-> Token[d]]
      <4>1. CASE Registers'[i] = m
        BY <4>1, <2>1, <2>2, <3>4
      <4>2. CASE i \in DOMAIN q /\ Registers'[i] = q[i]
        BY <4>2, <1>22 DEF Registration, q
      <4> QED BY <4>1, <4>2, <3>2
    <3>6. ASSUME NEW i \in DOMAIN Registers', NEW j \in DOMAIN Registers',
                 Registers'[i].id = Registers'[j].id
          PROVE  i = j
      <4>1. CASE i \in DOMAIN q /\ Registers'[i] = q[i]
        <5>1. j \in DOMAIN q /\ Registers'[j] = q[j]
          BY <3>2, <3>3, <3>6, <4>1, <2>1
        <5> QED BY <3>6, <4>1, <5>1 DEF Registration, q
      <4>2. CASE i = Len(q) + 1 /\ Registers'[i] = m
        <5>1. j = Len(q) + 1
          BY <3>2, <3>3, <3>6, <4>2, <2>1
        <5> QED BY <4>2, <5>1
      <4> QED BY <4>1, <4>2, <3>2
    <3>7. \A d \in Client : cinema' = [at |-> "confirm", token |-> Token[d]] =>
                               Connecting(d)' /\ listener'[d].at = "none"
      BY <1>1, <1>22 DEF Registration
    <3> QED BY <1>1, <3>5, <3>6, <3>7 DEF Registration
  <2>4. SessionOf(c)'
    <3>1. requests'[c] = requests[c]
      BY <2>1, <1>10, Types
    <3>2. ~Visiting(c) /\ ~Visiting(c)'
      BY <1>1, <1>25, Types DEF Visiting
    <3> QED BY <1>1, <3>1, <3>2, SessionFrame DEF Sessions
  <2>5. Sessions'
    BY <1>24, <2>4 DEF Sessions
  <2> QED BY <1>11, <1>15, <1>16, <1>18, <1>19, <1>23, <2>3, <2>5
<1>26. CASE child[c].id # UNDEFINED
  <2>1. m.type = c /\ child[c].id = c /\ c # TYPE_CONNECTION_CINEMA_REQUEST
    BY <1>5, <1>26, Types
  <2>2. Registration'
    <3>1. Registers' = Registers
      BY <2>1, <1>10, Types DEF Registers
    <3> QED BY <1>1, <1>22, <3>1 DEF Registration
  <2>3. SessionOf(c)'
    <3> SUFFICES ASSUME NEW visiting \in BOOLEAN, NEW late \in BOOLEAN,
                        visiting <=> Visiting(c)', late <=> c \in expired'
                 PROVE  Session(c, visiting, child'[c].asked, requests'[c], responses'[c],
                                listener'[c].at, listener'[c].asked, late)
      BY DEF SessionOf
    <3>1. visiting
      BY <1>1, <1>20, <2>1 DEF Visiting
    <3>2. PICK before \in BOOLEAN : ~before
      OBVIOUS
    <3>3. Session(c, before, child[c].asked, requests[c], responses[c],
                  listener[c].at, listener[c].asked, late)
      BY <1>1, <1>20, <3>2 DEF Sessions, SessionOf, Visiting
    <3>4. /\ requests[c] \in Seq(MessageSet) /\ responses[c] \in Seq(MessageSet)
          /\ listener[c].at \in ListenerPc
      BY <1>6, Types
    <3>5. /\ listener[c].at \in {"drain", "done"} => responses[c] # <<>>
          /\ listener[c].at # "none"
      BY <1>3, <2>1 DEF Ready, Open, Over, Children
    <3>6. Session(c, visiting, child[c].asked, Append(requests[c], m), responses[c],
                  listener[c].at, listener[c].asked, late)
      <4> DEFINE asked == child[c].asked  calls == requests[c]  answers == responses[c]
                 at == listener[c].at  heard == listener[c].asked
      <4>1. /\ calls \in Seq(MessageSet) /\ answers \in Seq(MessageSet) /\ at \in ListenerPc
            /\ at \in {"drain", "done"} => answers # <<>>
            /\ at # "none" /\ m.choice = asked /\ IsCall(m) /\ m \in MessageSet
            /\ Session(c, before, asked, calls, answers, at, heard, late)
        BY <3>3, <3>4, <3>5, <1>5
      <4> HIDE DEF asked, calls, answers, at, heard
      <4>2. Session(c, visiting, asked, Append(calls, m), answers, at, heard, late)
        BY <4>1, <3>1, <3>2, SessionCalls, SMTT(30)
      <4> QED BY <4>2 DEF asked, calls, answers, at, heard
    <3> QED BY <1>1, <1>10, <2>1, <3>6
  <2>4. Sessions'
    BY <1>24, <2>3 DEF Sessions
  <2> QED BY <1>11, <1>15, <1>16, <1>18, <1>19, <1>23, <2>2, <2>4
<1> QED BY <1>25, <1>26

\* The connection takes the answer to the call it waits for off the shared queue.
LEMMA ReturnAnswerKeeps ==
  ASSUME IInv, NEW k \in Host, ReturnAnswer(k)
  PROVE  IInv'
<1> USE DEF IInv
<1> DEFINE t == connection[k].type  m == Head(responses[t])  p == serialize_message(m)
<1>1. /\ connection[k].at = "await" /\ responses[t] # <<>>
      /\ responses' = [responses EXCEPT ![t] = Tail(@)]
      /\ downlink' = [downlink EXCEPT ![k] = Append(@, p)]
      /\ connection' = [connection EXCEPT ![k] = [at |-> "receive", type |-> 0]]
      /\ UNCHANGED <<child, toCinema, fromCinema, forwarder, uplink,
                     requests, cinema, listener, expired>>
  BY DEF ReturnAnswer, Without
<1>2. PICK c \in Client : IsHeld(k, c)
  BY <1>1 DEF Wires, Idle, GoesDown, GoesUp
<1>3. /\ HostOf[c] = k /\ Away(c) /\ fromCinema[k][TypeOf(c)] = <<>> /\ Open(c)
      /\ t = TypeOf(c) /\ downlink[k] = <<>> /\ uplink[k] = <<>>
      /\ child[c].at = "await" /\ Waits(c) /\ t \in Type /\ t \in {c, Token[c]}
  <2>1. Waits(c) /\ t = TypeOf(c)
    BY <1>2 DEF IsHeld, Carries, Waits
  <2> QED BY <1>2, <2>1, TypesDiffer DEF IsHeld, Carries, Away
<1>4. /\ downlink \in [Host -> Seq(PacketSet)] /\ requests \in [Type -> Seq(MessageSet)]
      /\ connection \in [Host -> [at : {"receive", "await"}, type : Type \cup {0}]]
      /\ responses \in [Type -> Seq(MessageSet)]
      /\ listener \in [Client -> [at : ListenerPc, asked : Choice]]
  BY DEF TypeOK, ListenerPc
<1>5. /\ responses[t] \in Seq(MessageSet) /\ m \in MessageSet /\ Tail(responses[t]) \in Seq(MessageSet)
      /\ 1 \in DOMAIN responses[t] /\ m = responses[t][1] /\ Len(responses[t]) \in Nat \ {0}
      /\ Len(Tail(responses[t])) = Len(responses[t]) - 1
  <2>1. responses[t] \in Seq(MessageSet)
    BY <1>3, <1>4
  <2> QED BY <2>1, <1>1, OfTail
<1> HIDE DEF t, m
<1>6. p \in PacketSet
  BY <1>5, PacketType
<1> HIDE DEF p
<1>7. /\ downlink'[k] = <<p>> /\ downlink' \in [Host -> Seq(PacketSet)]
      /\ \A h \in Host : h # k => downlink'[h] = downlink[h]
  BY <1>1, <1>3, <1>4, <1>6
<1>8. /\ connection'[k] = [at |-> "receive", type |-> 0]
      /\ connection' \in [Host -> [at : {"receive", "await"}, type : Type \cup {0}]]
      /\ \A h \in Host : h # k => connection'[h] = connection[h]
  BY <1>1, <1>4
<1>9. /\ responses' \in [Type -> Seq(MessageSet)] /\ responses'[t] = Tail(responses[t])
      /\ \A u \in Type : u # t => responses'[u] = responses[u]
  BY <1>1, <1>3, <1>4, <1>5
<1>10. TypeOK'
  BY <1>1, <1>7, <1>8, <1>9 DEF TypeOK
\* The answer is about the call that the connection waits for.
<1>11. /\ child[c].asked \in Asked \cup {"connect"} /\ m \in Answering(c, child[c].asked)
       /\ (child[c].id = UNDEFINED <=> child[c].asked = "connect")
       /\ IF child[c].id = UNDEFINED
          THEN t = Token[c] /\ responses[t] = <<m>> /\ listener[c].at # "none"
          ELSE t = c /\ child[c].id = c
  <2>1. \/ child[c].asked = "connect" /\ child[c].id = UNDEFINED
        \/ child[c].asked \in Asked /\ child[c].id = c
    BY <1>3 DEF Children
  <2>2. CASE child[c].asked = "connect" /\ child[c].id = UNDEFINED
    <3>1. t = Token[c]
      BY <1>3, <2>2 DEF TypeOf
    <3>2. responses[t] = <<Accepted(c)>> /\ listener[c].at # "none"
      BY <1>1, <3>1 DEF Confirmed
    <3>3. m = Accepted(c)
      BY <1>5, <3>2
    <3> QED BY <2>2, <3>1, <3>2, <3>3 DEF Answering
  <2>3. CASE child[c].asked \in Asked /\ child[c].id = c
    <3>1. t = c /\ c # UNDEFINED
      BY <1>3, <2>3, Types DEF TypeOf
    <3>2. m = Exit(c) \/ m \in Answers(c, child[c].asked)
      <4>1. PICK v \in BOOLEAN, late \in BOOLEAN :
               Said(c, v, child[c].asked, responses[c], listener[c].at, late)
        BY DEF Sessions, SessionOf, Session
      <4> QED BY <4>1, <3>1, <1>5 DEF Said
    <3> QED BY <2>3, <3>1, <3>2 DEF Answering, Asked
  <2> QED BY <2>1, <2>2, <2>3
<1>12. \A d \in Client : /\ TypeOf(d)' = TypeOf(d) /\ CallMessage(d)' = CallMessage(d)
                         /\ Expected(d)' = Expected(d)
  BY <1>1 DEF TypeOf, CallMessage, Expected
<1>13. \A d \in Client : d # c => /\ responses'[d] = responses[d]
                                  /\ responses'[Token[d]] = responses[Token[d]]
  <2>1. \A d \in Client : d # c => t # d /\ t # Token[d]
    BY <1>3, Types
  <2> QED BY <2>1, <1>9, Types
<1>14. \A d \in Client : d # c => (Open(d)' <=> Open(d)) /\ (Ready(d)' <=> Ready(d))
  BY <1>1, <1>13 DEF Ready, Fresh, Open, Over
<1>15. \A d \in Client : Away(d)' <=> Away(d)
  BY <1>1, <1>12 DEF Away, Queued
<1>16. ASSUME NEW d \in Client, NEW r, d # c, Good(d, r)
       PROVE  Good(d, r)'
  BY <1>1, <1>12, <1>14, <1>16 DEF Good
<1>17. Children'
  BY <1>1, <1>3, <1>14 DEF Children
<1>18. Calls'
  <2>1. ASSUME NEW h \in Host, NEW i \in DOMAIN toCinema[h]
        PROVE  \E d \in Client : /\ HostOf[d] = h /\ child[d].at = "await" /\ Ready(d)'
                                 /\ toCinema[h][i] = CallMessage(d)
    <3>1. PICK d \in Client : /\ HostOf[d] = h /\ child[d].at = "await" /\ Ready(d)
                              /\ toCinema[h][i] = CallMessage(d)
      BY DEF Calls
    <3>2. d # c
      BY <1>3, <3>1 DEF Away, Queued
    <3> QED BY <3>1, <3>2, <1>14
  <2> QED BY <1>1, <1>12, <2>1 DEF Calls
<1>19. \A h \in Host, d \in Client : Carries(h, d)' <=> Carries(h, d)
  BY <1>1, <1>12, <1>15 DEF Carries
<1>20. ASSUME NEW r, r = deserialize_message(p)
       PROVE  Good(c, r)'
  <2> DEFINE asked == child[c].asked
  <2>0. /\ asked \in Asked \cup {"connect"} /\ m \in Answering(c, asked)
        /\ child[c].id = UNDEFINED <=> asked = "connect"
    BY <1>11
  <2> HIDE DEF asked
  <2>1. /\ r.type = m.type /\ r.choice = m.choice /\ r.id = m.id
        /\ Verdict(asked, r) = r.meant
    BY <2>0, <1>20, AnswerArrives DEF p
  <2>2. r.type = TypeOf(c)
    <3>1. /\ asked = "connect" => m.type = Token[c]
          /\ asked # "connect" => m.type = c
      BY <2>0, AnswerFinds
    <3> QED BY <1>3, <1>11, <2>0, <2>1, <3>1
  <2>3. r.choice \in Expected(c)
    <3>1. m.choice \in IF asked = "connect" THEN {"accepted"} ELSE {asked, "invalid", "exit"}
      BY <2>0, AnswerOf
    <3> QED BY <2>1, <3>1 DEF Expected, asked
  <2>4. r.choice = "accepted" => r.id = c /\ listener[c].at # "none"
    <3>1. m.choice = "accepted" => m.id = c /\ asked = "connect"
      BY <2>0, AnswerOf, ZenonT(60)
    <3> QED BY <1>11, <2>0, <2>1, <3>1
  <2>5. r.choice # "exit" => Open(c)'
    <3> SUFFICES ASSUME r.choice # "exit", Over(c)
                 PROVE  responses'[c] # <<>>
      BY <1>1 DEF Open, Over
    <3>1. responses[c] # <<>>
      BY <1>3 DEF Open
    <3>2. CASE child[c].id = UNDEFINED
      BY <3>1, <3>2, <1>9, <1>11, Types
    <3>3. CASE child[c].id # UNDEFINED
      <4>1. t = c /\ m # Exit(c)
        BY <1>11, <2>1, <3>3, ExitIsNoCall
      <4>2. PICK v \in BOOLEAN, late \in BOOLEAN :
               Said(c, v, asked, responses[c], listener[c].at, late)
        BY DEF Sessions, SessionOf, Session, asked
      <4>3. 1 # Len(responses[c])
        BY <1>5, <4>1, <4>2 DEF Said, Over
      <4>4. Len(responses'[t]) # 0
        <5>1. Len(responses[t]) # 1 /\ Len(responses[t]) \in Nat
          BY <1>5, <4>1, <4>3
        <5>2. Len(responses'[t]) = Len(responses[t]) - 1
          BY <1>5, <1>9
        <5> QED BY <5>1, <5>2
      <4> QED BY <4>1, <4>4
    <3> QED BY <3>2, <3>3
  <2> QED BY <1>1, <1>12, <2>1, <2>2, <2>3, <2>4, <2>5 DEF Good, asked
<1>21. Wires'
  <2> SUFFICES ASSUME NEW h \in Host
               PROVE  \/ forwarder'[h] = "call" /\ Idle(h)'
                      \/ /\ forwarder'[h] = "answer"
                         /\ \E d \in Client : (GoesUp(h, d) \/ IsHeld(h, d) \/ GoesDown(h, d))'
    BY DEF Wires
  <2>1. CASE h = k
    <3>1. Len(downlink'[k]) = 1 /\ Head(downlink'[k]) = p
      BY <1>7
    <3>2. Good(c, deserialize_message(Head(downlink[k])))'
      BY <1>20, <3>1
    <3>3. GoesDown(k, c)'
      BY <1>1, <1>2, <1>3, <1>8, <1>19, <3>1, <3>2 DEF GoesDown, IsHeld
    <3> QED BY <2>1, <3>3, <1>1 DEF Wires, Idle
  <2>2. CASE h # k /\ forwarder[h] = "call"
    BY <2>2, <1>1, <1>7, <1>8 DEF Wires, Idle
  <2>3. CASE h # k /\ forwarder[h] # "call"
    <3>1. PICK d \in Client : GoesUp(h, d) \/ IsHeld(h, d) \/ GoesDown(h, d)
      BY <2>3 DEF Wires
    <3>2. d # c
      BY <1>3, <2>3, <3>1 DEF GoesUp, IsHeld, GoesDown, Carries
    <3>3. CASE GoesUp(h, d)
      BY <1>1, <1>7, <1>8, <1>12, <1>14, <1>19, <2>3, <3>2, <3>3 DEF GoesUp, Wires
    <3>4. CASE IsHeld(h, d)
      BY <1>1, <1>7, <1>8, <1>12, <1>14, <1>19, <2>3, <3>2, <3>4 DEF IsHeld, Wires
    <3>5. CASE GoesDown(h, d)
      BY <1>1, <1>7, <1>8, <1>16, <1>19, <2>3, <3>2, <3>5 DEF GoesDown, Wires
    <3> QED BY <3>1, <3>3, <3>4, <3>5
  <2> QED BY <2>1, <2>2, <2>3
<1>22. Arrived'
  <2> SUFFICES ASSUME NEW h \in Host, NEW u \in Type, fromCinema[h][u] # <<>>
               PROVE  \E d \in Client : /\ HostOf[d] = h /\ u = TypeOf(d)' /\ Away(d)'
                                        /\ Len(fromCinema[h][u]) = 1
                                        /\ Good(d, Head(fromCinema[h][u]))'
    BY <1>1 DEF Arrived
  <2>1. PICK d \in Client : /\ HostOf[d] = h /\ u = TypeOf(d) /\ Away(d)
                            /\ Len(fromCinema[h][u]) = 1 /\ Good(d, Head(fromCinema[h][u]))
    BY DEF Arrived
  <2>2. d # c
    BY <1>3, <2>1
  <2> QED BY <1>1, <1>12, <1>15, <1>16, <2>1, <2>2
<1>23. ~Waits(c)'
  <2>1. connection'[HostOf[c]].at # "await"
    BY <1>3, <1>8
  <2> QED BY <2>1 DEF Waits
<1>24. \A d \in Client : d # c => (Waits(d)' <=> Waits(d))
  <2> SUFFICES ASSUME NEW d \in Client, d # c
               PROVE  Waits(d)' <=> Waits(d)
    OBVIOUS
  <2>1. CASE HostOf[d] = k
    <3>1. ~Waits(d)
      BY <1>3, <2>1, OneWaits
    <3>2. connection'[HostOf[d]].at # "await"
      BY <1>8, <2>1
    <3> QED BY <3>1, <3>2 DEF Waits
  <2>2. CASE HostOf[d] # k
    BY <2>2, <1>8, <1>12 DEF Waits
  <2> QED BY <2>1, <2>2
<1>25. \A d \in Client : d # c => /\ Connecting(d) => Connecting(d)'
                                  /\ Visiting(d)' <=> Visiting(d)
  BY <1>1, <1>24 DEF Connecting, Visiting
<1>26. Registration'
  <2>1. Registers' = Registers
    BY <1>1 DEF Registers
  <2>2. ~(Connecting(c) /\ listener[c].at = "none")
    BY <1>11 DEF Connecting
  <2>3. \A d \in Client : Connecting(d) /\ listener[d].at = "none" => Connecting(d)'
    BY <2>2, <1>25
  <2> QED BY <1>1, <2>1, <2>3 DEF Registration
<1>27. Confirmed'
  <2>1. responses'[Token[c]] = <<>>
    <3>1. CASE child[c].id = UNDEFINED
      <4>1. Len(responses'[t]) = 0 /\ responses'[t] \in Seq(MessageSet)
        <5>1. responses[t] = <<m>>
          BY <3>1, <1>11
        <5>2. Len(responses[t]) = 1
          BY <5>1
        <5> QED BY <5>2, <1>5, <1>9
      <4>2. responses'[t] = <<>>
        BY <4>1
      <4> QED BY <4>2, <3>1, <1>11
    <3>2. CASE child[c].id # UNDEFINED
      <4>1. responses[Token[c]] = <<>>
        BY <3>2 DEF Confirmed, Connecting
      <4> QED BY <3>2, <4>1, <1>9, <1>11, Types
    <3> QED BY <3>1, <3>2
  <2>2. \A d \in Client : d # c /\ responses'[Token[d]] # <<>> =>
            /\ responses'[Token[d]] = <<Accepted(d)>>
            /\ Connecting(d)' /\ listener'[d].at # "none"
    BY <1>1, <1>13, <1>25 DEF Confirmed
  <2> QED BY <2>1, <2>2 DEF Confirmed, Accepted
<1>28. \A d \in Client : d # c => SessionOf(d)'
  BY <1>1, <1>13, <1>25, SessionFrame DEF Sessions
<1>29. SessionOf(c)'
  <2>1. CASE child[c].id = UNDEFINED
    <3>1. ~Visiting(c) /\ ~Visiting(c)'
      BY <1>1, <2>1, Types DEF Visiting
    <3>2. responses'[c] = responses[c]
      BY <2>1, <1>9, <1>11, Types
    <3> QED BY <1>1, <3>1, <3>2, SessionFrame DEF Sessions
  <2>2. CASE child[c].id # UNDEFINED
    <3>1. t = c /\ child[c].id = c
      BY <2>2, <1>11
    <3> SUFFICES ASSUME NEW visiting \in BOOLEAN, NEW late \in BOOLEAN,
                        visiting <=> Visiting(c)', late <=> c \in expired'
                 PROVE  Session(c, visiting, child'[c].asked, requests'[c], responses'[c],
                                listener'[c].at, listener'[c].asked, late)
      BY DEF SessionOf
    <3>2. ~visiting
      BY <1>23 DEF Visiting
    <3> DEFINE asked == child[c].asked  calls == requests[c]  answers == responses[c]
               at == listener[c].at  heard == listener[c].asked
    <3>3. PICK before \in BOOLEAN : before
      OBVIOUS
    <3>4. Session(c, before, asked, calls, answers, at, heard, late)
      BY <1>1, <1>3, <3>1, <3>3 DEF Sessions, SessionOf, Visiting
    <3> DEFINE rest == Tail(answers)
    <3>5. RestOf(rest, answers)
      BY <1>1, <1>4, <3>1, Types DEF RestOf
    <3> HIDE DEF asked, calls, answers, at, heard, rest
    <3>6. Session(c, visiting, asked, calls, rest, at, heard, late)
      <4> HIDE ClientAssumption, TokenAssumption, HostAssumption
      <4> QED BY <3>2, <3>3, <3>4, <3>5, SessionReturns
    <3> QED BY <3>1, <3>6, <1>1, <1>9 DEF asked, calls, answers, at, heard, rest
  <2> QED BY <2>1, <2>2
<1>30. Sessions'
  BY <1>28, <1>29 DEF Sessions
<1> QED BY <1>10, <1>17, <1>18, <1>21, <1>22, <1>26, <1>27, <1>30

\* A step of one listener or of its timer
LEMMA ListenerFrame ==
  ASSUME IInv, TypeOK', NEW c \in Client,
         UNCHANGED <<child, hostVars, connection, cinema>>,
         \A t \in Type : t # c => requests'[t] = requests[t] /\ responses'[t] = responses[t],
         \A d \in Client : d # c => /\ listener'[d] = listener[d]
                                    /\ (d \in expired') <=> (d \in expired),
         listener[c].at # "none", listener'[c].at # "none",
         Open(c) => Open(c)', SessionOf(c)'
  PROVE  IInv'
<1> USE DEF IInv
<1>1. \A d \in Client : /\ TypeOf(d)' = TypeOf(d) /\ (Waits(d)' <=> Waits(d))
                        /\ (Connecting(d)' <=> Connecting(d)) /\ (Visiting(d)' <=> Visiting(d))
  BY DEF TypeOf, Waits, Connecting, Visiting
<1>2. \A d \in Client : /\ d # c => requests'[d] = requests[d] /\ responses'[d] = responses[d]
                        /\ responses'[Token[d]] = responses[Token[d]]
  BY Types
<1>3. Children' /\ Calls' /\ Wires' /\ Arrived'
  <2>1. \A d \in Client : Open(d) => Open(d)'
    BY <1>2 DEF Open, Over
  <2>2. \A d \in Client : Fresh(d) /\ ~Waits(d) => Fresh(d)'
    BY DEF Fresh
  <2>3. \A d \in Client : listener[d].at # "none" => listener'[d].at # "none"
    OBVIOUS
  <2> QED BY <2>1, <2>2, <2>3, HostFrame
<1>4. Registration'
  <2>1. Registers' = Registers
    BY Types DEF Registers
  <2>2. \A d \in Client : listener[d].at = "none" => listener'[d].at = "none"
    OBVIOUS
  <2>3. \A d \in Client : Connecting(d) /\ listener[d].at = "none" =>
                              Connecting(d)' /\ listener'[d].at = "none"
    BY <1>1, <2>2
  <2>4. cinema' = cinema
    OBVIOUS
  <2>5. ASSUME NEW i \in DOMAIN Registers
        PROVE  \E d \in Client : /\ Registers[i].id = Token[d]
                                 /\ Connecting(d)' /\ listener'[d].at = "none"
                                 /\ cinema' # [at |-> "confirm", token |-> Token[d]]
    <3>1. PICK d \in Client : /\ Registers[i].id = Token[d]
                              /\ Connecting(d) /\ listener[d].at = "none"
                              /\ cinema # [at |-> "confirm", token |-> Token[d]]
      BY DEF Registration
    <3> QED BY <2>3, <2>4, <3>1
  <2>6. ASSUME NEW d \in Client, cinema' = [at |-> "confirm", token |-> Token[d]]
        PROVE  Connecting(d)' /\ listener'[d].at = "none"
    BY <2>3, <2>4, <2>6 DEF Registration
  <2> QED BY <2>1, <2>5, <2>6 DEF Registration
<1>5. Confirmed'
  <2>1. \A d \in Client : listener[d].at # "none" => listener'[d].at # "none"
    OBVIOUS
  <2>2. \A d \in Client : Accepted(d)' = Accepted(d)
    BY DEF Accepted
  <2> QED BY <1>1, <1>2, <2>1, <2>2 DEF Confirmed
<1>6. \A d \in Client : d # c => SessionOf(d)'
  BY <1>1, <1>2, SessionFrame DEF Sessions
<1> QED BY <1>3, <1>4, <1>5, <1>6 DEF Sessions

\* A listener takes the next message of its customer, a call or the timer's EXIT.
LEMMA ListenKeeps ==
  ASSUME IInv, NEW c \in Client, Listen(c)
  PROVE  IInv'
<1> USE DEF IInv
<1> DEFINE m == Head(requests[c])
<1>1. /\ listener[c].at = "receive" /\ requests[c] # <<>>
      /\ requests' = [requests EXCEPT ![c] = Tail(@)]
      /\ UNCHANGED <<child, hostVars, connection, responses, cinema, expired>>
  BY DEF Listen, Without
<1>2. PICK at \in {"answer", "dead"} :
          /\ at = "dead" => m.choice \in {"seats", "select"}
          /\ listener' = [listener EXCEPT ![c] = [@ EXCEPT !.at = at, !.asked = m.choice]]
  BY DEF Listen
<1>3. /\ requests \in [Type -> Seq(MessageSet)] /\ responses \in [Type -> Seq(MessageSet)]
      /\ listener \in [Client -> [at : ListenerPc, asked : Choice]] /\ c \in Type
  BY Types DEF TypeOK, ListenerPc
<1>4. requests[c] \in Seq(MessageSet) /\ responses[c] \in Seq(MessageSet)
  BY <1>3
<1>5. Tail(requests[c]) \in Seq(MessageSet) /\ m \in MessageSet /\ m.choice \in Choice
  <2>1. Tail(requests[c]) \in Seq(MessageSet) /\ m \in MessageSet
    BY <1>1, <1>4, OfTail
  <2> QED BY <2>1 DEF MessageSet
<1>6. /\ requests' \in [Type -> Seq(MessageSet)] /\ requests'[c] = Tail(requests[c])
      /\ \A t \in Type : t # c => requests'[t] = requests[t]
  BY <1>1, <1>3, <1>5
<1> HIDE DEF m
<1>7. /\ listener' \in [Client -> [at : ListenerPc, asked : Choice]]
      /\ listener'[c].at = at /\ listener'[c].asked = m.choice
      /\ \A d \in Client : d # c => listener'[d] = listener[d]
  <2> DEFINE r == [listener[c] EXCEPT !.at = at, !.asked = m.choice]
  <2>1. listener[c] \in [at : ListenerPc, asked : Choice]
    BY <1>3
  <2>2. r \in [at : ListenerPc, asked : Choice] /\ r.at = at /\ r.asked = m.choice
    BY <2>1, <1>5 DEF ListenerPc
  <2>3. listener' = [listener EXCEPT ![c] = r]
    BY <1>2, <1>3
  <2> HIDE DEF r
  <2> QED BY <2>2, <2>3, <1>3
<1>8. TypeOK'
  BY <1>1, <1>6, <1>7 DEF TypeOK, ListenerPc, hostVars
<1>9. SessionOf(c)'
  <2> SUFFICES ASSUME NEW visiting \in BOOLEAN, NEW late \in BOOLEAN,
                      visiting <=> Visiting(c)', late <=> c \in expired'
               PROVE  Session(c, visiting, child'[c].asked, requests'[c], responses'[c],
                              listener'[c].at, listener'[c].asked, late)
    BY DEF SessionOf
  <2>1. Session(c, visiting, child[c].asked, requests[c], responses[c],
                "receive", listener[c].asked, late)
    BY <1>1 DEF Sessions, SessionOf, Visiting, Waits, TypeOf
  <2>2. at = "dead" => Head(requests[c]).choice # "exit"
    BY <1>2 DEF m
  <2> DEFINE asked == child[c].asked  calls == requests[c]  answers == responses[c]
             heard == listener[c].asked
  <2>3. calls \in Seq(MessageSet) /\ answers \in Seq(MessageSet) /\ calls # <<>>
    BY <1>1, <1>4
  <2> HIDE DEF asked, calls, answers, heard
  <2>4. Session(c, visiting, asked, calls, answers, "receive", heard, late)
    BY <2>1 DEF asked, calls, answers, heard
  <2>5. at = "dead" => Head(calls).choice # "exit"
    BY <2>2 DEF calls
  <2>6. Session(c, visiting, asked, Tail(calls), answers, at, Head(calls).choice, late)
    BY <2>3, <2>4, <2>5, SessionListens
  <2> QED BY <2>6, <1>1, <1>6, <1>7 DEF asked, calls, answers, m
<1>10. listener[c].at # "none" /\ listener'[c].at # "none" /\ (Open(c) => Open(c)')
  BY <1>1, <1>7 DEF Open, Over
<1> QED BY <1>1, <1>6, <1>7, <1>8, <1>9, <1>10, ListenerFrame

\* A listener answers the call it took.
LEMMA AnswerKeeps ==
  ASSUME IInv, NEW c \in Client, Answer(c)
  PROVE  IInv'
<1> USE DEF IInv
<1>1. /\ listener[c].at = "answer"
      /\ listener' = [listener EXCEPT ![c].at = "receive"]
      /\ UNCHANGED <<child, hostVars, connection, requests, cinema, expired>>
  BY DEF Answer
<1>2. PICK m \in Answers(c, listener[c].asked) :
          responses' = [responses EXCEPT ![m.type] = Append(@, m)]
  BY DEF Answer, Put
<1>3. /\ requests \in [Type -> Seq(MessageSet)] /\ responses \in [Type -> Seq(MessageSet)]
      /\ listener \in [Client -> [at : ListenerPc, asked : Choice]] /\ c \in Type
  BY Types DEF TypeOK, ListenerPc
<1>4. requests[c] \in Seq(MessageSet) /\ responses[c] \in Seq(MessageSet)
  BY <1>3
<1>5. m.type = c /\ m \in MessageSet
  <2>1. listener[c].asked \in {"rooms", "seats", "select", "pay"}
    BY <1>2 DEF Answers
  <2>2. m \in Answering(c, listener[c].asked) /\ listener[c].asked \in Asked \cup {"connect"}
    BY <1>2, <2>1 DEF Answering, Asked
  <2> DEFINE asked == listener[c].asked
  <2>3. m \in Answering(c, asked) /\ asked \in Asked \cup {"connect"} /\ asked # "connect"
    BY <2>1, <2>2
  <2> HIDE DEF asked
  <2>4. m.type = c
    BY <2>3, AnswerFinds
  <2>5. m \in MessageSet
    BY <2>3, AnswerOf
  <2> QED BY <2>4, <2>5
<1>6. /\ responses' \in [Type -> Seq(MessageSet)] /\ responses'[c] = Append(responses[c], m)
      /\ \A t \in Type : t # c => responses'[t] = responses[t]
  BY <1>2, <1>3, <1>5
<1>7. /\ listener' \in [Client -> [at : ListenerPc, asked : Choice]]
      /\ listener'[c].at = "receive" /\ listener'[c].asked = listener[c].asked
      /\ \A d \in Client : d # c => listener'[d] = listener[d]
  BY <1>1, <1>3 DEF ListenerPc
<1>8. TypeOK'
  BY <1>1, <1>6, <1>7 DEF TypeOK, ListenerPc, hostVars
<1>9. SessionOf(c)'
  <2> SUFFICES ASSUME NEW visiting \in BOOLEAN, NEW late \in BOOLEAN,
                      visiting <=> Visiting(c)', late <=> c \in expired'
               PROVE  Session(c, visiting, child'[c].asked, requests'[c], responses'[c],
                              listener'[c].at, listener'[c].asked, late)
    BY DEF SessionOf
  <2>1. Session(c, visiting, child[c].asked, requests[c], responses[c],
                "answer", listener[c].asked, late)
    BY <1>1 DEF Sessions, SessionOf, Visiting, Waits, TypeOf
  <2> DEFINE asked == child[c].asked  calls == requests[c]  answers == responses[c]
             heard == listener[c].asked
  <2>3. calls \in Seq(MessageSet) /\ answers \in Seq(MessageSet) /\ m \in Answers(c, heard)
    BY <1>2, <1>4
  <2> HIDE DEF asked, calls, answers, heard
  <2>4. Session(c, visiting, asked, calls, answers, "answer", heard, late)
    BY <2>1 DEF asked, calls, answers, heard
  <2>6. Session(c, visiting, asked, calls, Append(answers, m), "receive", heard, late)
    BY <2>3, <2>4, <1>5, SessionAnswers
  <2> QED BY <2>6, <1>1, <1>6, <1>7 DEF asked, calls, answers, heard
<1>10. listener[c].at # "none" /\ listener'[c].at # "none" /\ (Open(c) => Open(c)')
  BY <1>1, <1>7 DEF Open, Over
<1> QED BY <1>1, <1>6, <1>7, <1>8, <1>9, <1>10, ListenerFrame

\* An EXIT is a message under the id of its customer.
LEMMA ExitType ==
  ASSUME NEW c \in Client
  PROVE  Exit(c) \in MessageSet /\ Exit(c).type = c
BY Types DEF Exit, Message, MessageSet, Choice, Verdicts

\* A listener says its last word.
LEMMA AnswerExitKeeps ==
  ASSUME IInv, NEW c \in Client, AnswerExit(c)
  PROVE  IInv'
<1> USE DEF IInv
<1>1. /\ listener[c].at = "answer" /\ listener[c].asked = "exit"
      /\ responses' = [responses EXCEPT ![c] = Append(@, Exit(c))]
      /\ UNCHANGED <<child, hostVars, connection, requests, cinema, expired>>
  BY ExitType DEF AnswerExit, Put, Exit
<1>2. PICK at \in {"drain", "done"} : listener' = [listener EXCEPT ![c].at = at]
  BY DEF AnswerExit
<1>3. /\ requests \in [Type -> Seq(MessageSet)] /\ responses \in [Type -> Seq(MessageSet)]
      /\ listener \in [Client -> [at : ListenerPc, asked : Choice]] /\ c \in Type
  BY Types DEF TypeOK, ListenerPc
<1>4. requests[c] \in Seq(MessageSet) /\ responses[c] \in Seq(MessageSet)
  BY <1>3
<1>5. /\ responses' \in [Type -> Seq(MessageSet)] /\ responses'[c] = Append(responses[c], Exit(c))
      /\ \A t \in Type : t # c => responses'[t] = responses[t]
  BY <1>1, <1>3, <1>4, ExitType
<1>6. /\ listener' \in [Client -> [at : ListenerPc, asked : Choice]]
      /\ listener'[c].at = at /\ listener'[c].asked = listener[c].asked
      /\ \A d \in Client : d # c => listener'[d] = listener[d]
  <2> DEFINE r == [listener[c] EXCEPT !.at = at]
  <2>1. listener[c] \in [at : ListenerPc, asked : Choice]
    BY <1>3
  <2>2. r \in [at : ListenerPc, asked : Choice] /\ r.at = at /\ r.asked = listener[c].asked
    BY <2>1 DEF ListenerPc
  <2>3. listener' = [listener EXCEPT ![c] = r]
    BY <1>2, <1>3
  <2> HIDE DEF r
  <2> QED BY <2>2, <2>3, <1>3
<1>7. TypeOK'
  BY <1>1, <1>5, <1>6 DEF TypeOK, ListenerPc, hostVars
<1>8. SessionOf(c)'
  <2> SUFFICES ASSUME NEW visiting \in BOOLEAN, NEW late \in BOOLEAN,
                      visiting <=> Visiting(c)', late <=> c \in expired'
               PROVE  Session(c, visiting, child'[c].asked, requests'[c], responses'[c],
                              listener'[c].at, listener'[c].asked, late)
    BY DEF SessionOf
  <2>1. Session(c, visiting, child[c].asked, requests[c], responses[c],
                "answer", "exit", late)
    BY <1>1 DEF Sessions, SessionOf, Visiting, Waits, TypeOf
  <2> DEFINE asked == child[c].asked  calls == requests[c]  answers == responses[c]
  <2>2. calls \in Seq(MessageSet) /\ answers \in Seq(MessageSet)
    BY <1>4
  <2> HIDE DEF asked, calls, answers
  <2>3. Session(c, visiting, asked, calls, answers, "answer", "exit", late)
    BY <2>1 DEF asked, calls, answers
  <2>4. Session(c, visiting, asked, calls, Append(answers, Exit(c)), at, "exit", late)
    BY <2>2, <2>3, ExitType, SessionEnds
  <2> QED BY <2>4, <1>1, <1>5, <1>6 DEF asked, calls, answers
<1>9. listener[c].at # "none" /\ listener'[c].at # "none" /\ (Open(c) => Open(c)')
  <2>1. responses'[c] # <<>>
    <3>1. Append(responses[c], Exit(c)) # <<>>
      BY <1>4, ExitType, SMTT(30)
    <3> QED BY <3>1, <1>5
  <2> QED BY <1>1, <1>6, <2>1 DEF Open, Over
<1> QED BY <1>1, <1>5, <1>6, <1>7, <1>8, <1>9, ListenerFrame

\* A listener that finds the mark of the timer takes one message more.
LEMMA DrainKeeps ==
  ASSUME IInv, NEW c \in Client, Drain(c)
  PROVE  IInv'
<1> USE DEF IInv
<1>1. /\ listener[c].at = "drain" /\ requests[c] # <<>>
      /\ requests' = [requests EXCEPT ![c] = Tail(@)]
      /\ listener' = [listener EXCEPT ![c].at = "done"]
      /\ UNCHANGED <<child, hostVars, connection, responses, cinema, expired>>
  BY DEF Drain, Without
<1>2. /\ requests \in [Type -> Seq(MessageSet)] /\ responses \in [Type -> Seq(MessageSet)]
      /\ listener \in [Client -> [at : ListenerPc, asked : Choice]] /\ c \in Type
  BY Types DEF TypeOK, ListenerPc
<1>3. requests[c] \in Seq(MessageSet) /\ responses[c] \in Seq(MessageSet)
  BY <1>2
<1>4. Tail(requests[c]) \in Seq(MessageSet)
  BY <1>1, <1>3, OfTail
<1>5. /\ requests' \in [Type -> Seq(MessageSet)] /\ requests'[c] = Tail(requests[c])
      /\ \A t \in Type : t # c => requests'[t] = requests[t]
  BY <1>1, <1>2, <1>4
<1>6. /\ listener' \in [Client -> [at : ListenerPc, asked : Choice]]
      /\ listener'[c].at = "done" /\ listener'[c].asked = listener[c].asked
      /\ \A d \in Client : d # c => listener'[d] = listener[d]
  BY <1>1, <1>2, ZenonT(60) DEF ListenerPc
<1>7. TypeOK'
  BY <1>1, <1>5, <1>6 DEF TypeOK, ListenerPc, hostVars
<1>8. SessionOf(c)'
  <2> SUFFICES ASSUME NEW visiting \in BOOLEAN, NEW late \in BOOLEAN,
                      visiting <=> Visiting(c)', late <=> c \in expired'
               PROVE  Session(c, visiting, child'[c].asked, requests'[c], responses'[c],
                              listener'[c].at, listener'[c].asked, late)
    BY DEF SessionOf
  <2>1. Session(c, visiting, child[c].asked, requests[c], responses[c],
                "drain", listener[c].asked, late)
    BY <1>1 DEF Sessions, SessionOf, Visiting, Waits, TypeOf
  <2> DEFINE asked == child[c].asked  calls == requests[c]  answers == responses[c]
             heard == listener[c].asked
  <2>2. calls \in Seq(MessageSet) /\ answers \in Seq(MessageSet) /\ calls # <<>>
    BY <1>1, <1>3
  <2> HIDE DEF asked, calls, answers, heard
  <2>3. Session(c, visiting, asked, calls, answers, "drain", heard, late)
    BY <2>1 DEF asked, calls, answers, heard
  <2>4. Session(c, visiting, asked, Tail(calls), answers, "done", heard, late)
    BY <2>2, <2>3, SessionDrains
  <2> QED BY <2>4, <1>1, <1>5, <1>6 DEF asked, calls, answers, heard
<1>9. listener[c].at # "none" /\ listener'[c].at # "none" /\ (Open(c) => Open(c)')
  BY <1>1, <1>6 DEF Open, Over
<1> QED BY <1>1, <1>5, <1>6, <1>7, <1>8, <1>9, ListenerFrame

\* The timer puts its EXIT into the queue of calls.
LEMMA ExpireKeeps ==
  ASSUME IInv, NEW c \in Client, Expire(c)
  PROVE  IInv'
<1> USE DEF IInv
<1>1. /\ c \notin expired /\ expired' = expired \cup {c}
      /\ requests' = [requests EXCEPT ![c] = Append(@, Exit(c))]
      /\ UNCHANGED <<child, hostVars, connection, responses, cinema, listener>>
  BY ExitType DEF Expire, Put, Exit
<1>2. PICK at \in {"receive", "answer", "dead"} : listener[c].at = at
  BY DEF Expire
<1>3. /\ requests \in [Type -> Seq(MessageSet)] /\ responses \in [Type -> Seq(MessageSet)]
      /\ c \in Type
  BY Types DEF TypeOK
<1>4. requests[c] \in Seq(MessageSet) /\ responses[c] \in Seq(MessageSet)
  BY <1>3
<1>5. /\ requests' \in [Type -> Seq(MessageSet)] /\ requests'[c] = Append(requests[c], Exit(c))
      /\ \A t \in Type : t # c => requests'[t] = requests[t]
  BY <1>1, <1>3, <1>4, ExitType
<1>6. TypeOK'
  BY <1>1, <1>5 DEF TypeOK, hostVars
<1>7. SessionOf(c)'
  <2> SUFFICES ASSUME NEW visiting \in BOOLEAN, NEW late \in BOOLEAN,
                      visiting <=> Visiting(c)', late <=> c \in expired'
               PROVE  Session(c, visiting, child'[c].asked, requests'[c], responses'[c],
                              listener'[c].at, listener'[c].asked, late)
    BY DEF SessionOf
  <2>1. PICK before \in BOOLEAN : ~before
    OBVIOUS
  <2>2. Session(c, visiting, child[c].asked, requests[c], responses[c],
                at, listener[c].asked, before)
    BY <1>1, <1>2, <2>1 DEF Sessions, SessionOf, Visiting, Waits, TypeOf
  <2>3. late /\ Exit(c) \in MessageSet
    BY <1>1, ExitType
  <2> DEFINE asked == child[c].asked  calls == requests[c]  answers == responses[c]
             heard == listener[c].asked
  <2>4. calls \in Seq(MessageSet) /\ answers \in Seq(MessageSet)
    BY <1>4
  <2> HIDE DEF asked, calls, answers, heard
  <2>5. Session(c, visiting, asked, calls, answers, at, heard, before)
    BY <2>2 DEF asked, calls, answers, heard
  <2>6. Session(c, visiting, asked, Append(calls, Exit(c)), answers, at, heard, late)
    BY <2>1, <2>3, <2>4, <2>5, SessionExpires
  <2> QED BY <2>6, <1>1, <1>2, <1>5 DEF asked, calls, answers, heard
<1>8. listener[c].at # "none" /\ listener'[c].at # "none" /\ (Open(c) => Open(c)')
  BY <1>1, <1>2 DEF Open, Over
<1>9. \A d \in Client : d # c => ((d \in expired') <=> (d \in expired))
  BY <1>1
<1> QED BY <1>1, <1>5, <1>6, <1>7, <1>8, <1>9, ListenerFrame

----------------------------------------------------------------------------
(* Steps of the main loop of the cinema *)

\* The cinema takes a connection request: nobody else is being registered.
LEMMA cinema_take_client_Keeps ==
  ASSUME IInv, cinema_take_client
  PROVE  IInv'
<1> USE DEF IInv
<1> DEFINE q == Registers  m == Head(q)
<1>1. /\ cinema.at = "receive" /\ q # <<>>
      /\ cinema' = [at |-> "confirm", token |-> m.id]
      /\ requests' = [requests EXCEPT ![TYPE_CONNECTION_CINEMA_REQUEST] = Tail(@)]
      /\ UNCHANGED <<child, hostVars, connection, responses, listener, expired>>
  BY DEF cinema_take_client, Without, Registers
<1>2. requests \in [Type -> Seq(MessageSet)] /\ q \in Seq(MessageSet)
  BY Types DEF TypeOK, Registers
<1>3. /\ Tail(q) \in Seq(MessageSet) /\ m \in MessageSet /\ m.id \in Nat
      /\ 1 \in DOMAIN q /\ m = q[1]
      /\ \A i \in DOMAIN Tail(q) : i + 1 \in DOMAIN q /\ Tail(q)[i] = q[i + 1] /\ i \in Nat \ {0}
  <2>1. m \in MessageSet
    BY <1>1, <1>2, OfTail
  <2>2. m.id \in Nat
    BY <2>1 DEF MessageSet
  <2> QED BY <1>1, <1>2, <2>1, <2>2, OfTail
<1>4. /\ requests' \in [Type -> Seq(MessageSet)] /\ Registers' = Tail(q)
      /\ \A t \in Type : t # TYPE_CONNECTION_CINEMA_REQUEST => requests'[t] = requests[t]
  BY <1>1, <1>2, <1>3, Types DEF Registers
<1>5. PICK c \in Client : m.id = Token[c] /\ Connecting(c) /\ listener[c].at = "none"
  BY <1>3 DEF Registration
<1> HIDE DEF m
<1>6. TypeOK'
  BY <1>1, <1>3, <1>4 DEF TypeOK, hostVars
<1>7. /\ \A d \in Client : (Waits(d)' <=> Waits(d)) /\ (Open(d)' <=> Open(d))
                           /\ (Fresh(d)' <=> Fresh(d))
      /\ \A d \in Client : (Connecting(d)' <=> Connecting(d)) /\ (Visiting(d)' <=> Visiting(d))
  BY <1>1 DEF Waits, TypeOf, Open, Over, Fresh, Connecting, Visiting
<1>8. Children' /\ Calls' /\ Wires' /\ Arrived'
  BY <1>1, <1>7, HostFrame
<1>9. Registration'
  <2>1. ASSUME NEW i \in DOMAIN Registers'
        PROVE  \E d \in Client : /\ Registers'[i].id = Token[d]
                                 /\ Connecting(d)' /\ listener'[d].at = "none"
                                 /\ cinema' # [at |-> "confirm", token |-> Token[d]]
    <3>1. i + 1 \in DOMAIN q /\ Registers'[i] = q[i + 1] /\ i + 1 # 1
      BY <1>3, <1>4
    <3>2. PICK d \in Client : q[i + 1].id = Token[d] /\ Connecting(d) /\ listener[d].at = "none"
      BY <3>1 DEF Registration
    <3>3. Token[d] # Token[c]
      BY <1>3, <1>5, <3>1, <3>2 DEF Registration
    <3> QED BY <1>1, <1>5, <1>7, <3>1, <3>2, <3>3
  <2>2. ASSUME NEW i \in DOMAIN Registers', NEW j \in DOMAIN Registers',
               Registers'[i].id = Registers'[j].id
        PROVE  i = j
    <3>1. q[i + 1].id = q[j + 1].id /\ i + 1 \in DOMAIN q /\ j + 1 \in DOMAIN q
      BY <1>3, <1>4, <2>2
    <3>2. i + 1 = j + 1
      BY <3>1 DEF Registration
    <3> QED BY <3>2, <1>3, <1>4
  <2>3. ASSUME NEW d \in Client, cinema' = [at |-> "confirm", token |-> Token[d]]
        PROVE  Connecting(d)' /\ listener'[d].at = "none"
    <3>1. Token[d] = Token[c]
      BY <1>1, <1>5, <2>3
    <3>2. d = c
      BY <3>1, Types
    <3> QED BY <1>1, <1>5, <1>7, <3>2
  <2> QED BY <2>1, <2>2, <2>3 DEF Registration
<1>10. Confirmed'
  <2>1. \A d \in Client : Accepted(d)' = Accepted(d)
    BY DEF Accepted
  <2> QED BY <1>1, <1>7, <2>1 DEF Confirmed
<1>11. Sessions'
  <2>1. \A d \in Client : requests'[d] = requests[d]
    BY <1>4, Types
  <2> QED BY <1>1, <1>7, <2>1, SessionFrame DEF Sessions
<1> QED BY <1>6, <1>8, <1>9, <1>10, <1>11

\* The customer gets its id under its token, and its session begins.
LEMMA send_confirmation_Keeps ==
  ASSUME IInv, NEW c \in Client, send_confirmation(c)
  PROVE  IInv'
<1> USE DEF IInv
<1>1. /\ cinema.at = "confirm" /\ cinema.token = Token[c]
      /\ responses' = [responses EXCEPT ![Token[c]] = Append(@, Accepted(c))]
      /\ cinema' = [at |-> "receive", token |-> 0]
      /\ listener' = [listener EXCEPT ![c].at = "receive"]
      /\ UNCHANGED <<child, hostVars, connection, requests, expired>>
  BY DEF send_confirmation, Put, Accepted, Message
<1>2. /\ responses \in [Type -> Seq(MessageSet)] /\ Token[c] \in Type
      /\ listener \in [Client -> [at : ListenerPc, asked : Choice]]
      /\ cinema \in [at : {"receive", "confirm"}, token : Nat]
  BY Types DEF TypeOK, ListenerPc
<1>3. Connecting(c) /\ listener[c].at = "none" /\ cinema = [at |-> "confirm", token |-> Token[c]]
  <2>1. cinema = [at |-> "confirm", token |-> Token[c]]
    BY <1>1, <1>2
  <2> QED BY <2>1 DEF Registration
<1>4. Accepted(c) \in MessageSet
  BY Types DEF Accepted, Message, MessageSet, Choice, Verdicts
<1>5. responses[Token[c]] = <<>>
  BY <1>3 DEF Confirmed
<1>6. /\ responses' \in [Type -> Seq(MessageSet)] /\ responses'[Token[c]] = <<Accepted(c)>>
      /\ \A t \in Type : t # Token[c] => responses'[t] = responses[t]
  <2>1. Append(<<>>, Accepted(c)) = <<Accepted(c)>>
    OBVIOUS
  <2>2. <<Accepted(c)>> \in Seq(MessageSet)
    BY <1>4
  <2>3. responses' = [responses EXCEPT ![Token[c]] = <<Accepted(c)>>]
    BY <1>1, <1>2, <1>5, <2>1
  <2> QED BY <1>2, <2>2, <2>3
<1>7. /\ listener' \in [Client -> [at : ListenerPc, asked : Choice]]
      /\ listener'[c].at = "receive" /\ listener'[c].asked = listener[c].asked
      /\ \A d \in Client : d # c => listener'[d] = listener[d]
  <2> DEFINE r == [listener[c] EXCEPT !.at = "receive"]
  <2>1. listener[c] \in [at : ListenerPc, asked : Choice]
    BY <1>2
  <2>2. /\ r \in [at : ListenerPc, asked : Choice]
        /\ r.at = "receive" /\ r.asked = listener[c].asked
    BY <2>1 DEF ListenerPc
  <2>3. listener' = [listener EXCEPT ![c] = r]
    BY <1>1, <1>2
  <2> HIDE DEF r
  <2> QED BY <2>2, <2>3, <1>2
<1>8. TypeOK'
  BY <1>1, <1>6, <1>7 DEF TypeOK, ListenerPc, hostVars
<1>9. /\ \A d \in Client : responses'[d] = responses[d]
      /\ \A d \in Client : d # c => responses'[Token[d]] = responses[Token[d]]
  BY <1>6, Types
<1>10. /\ \A d \in Client : Waits(d)' <=> Waits(d)
       /\ \A d \in Client : (Connecting(d)' <=> Connecting(d)) /\ (Visiting(d)' <=> Visiting(d))
  BY <1>1 DEF Waits, TypeOf, Connecting, Visiting
<1>11. Children' /\ Calls' /\ Wires' /\ Arrived'
  <2>1. \A d \in Client : Open(d) => Open(d)'
    BY <1>7, <1>9 DEF Open, Over
  <2>2. \A d \in Client : listener[d].at # "none" => listener'[d].at # "none"
    BY <1>3, <1>7
  <2>3. \A d \in Client : Fresh(d) /\ ~Waits(d) => Fresh(d)'
    BY <1>1, <1>3, <1>7 DEF Fresh, Connecting
  <2> QED BY <1>1, <2>1, <2>2, <2>3, HostFrame
<1>12. Registration'
  <2>1. Registers' = Registers
    BY <1>1 DEF Registers
  <2>2. \A d \in Client : cinema' # [at |-> "confirm", token |-> Token[d]]
    BY <1>1
  <2>3. ASSUME NEW i \in DOMAIN Registers
        PROVE  \E d \in Client : /\ Registers[i].id = Token[d]
                                 /\ Connecting(d)' /\ listener'[d].at = "none"
    <3>1. PICK d \in Client : /\ Registers[i].id = Token[d]
                              /\ Connecting(d) /\ listener[d].at = "none"
                              /\ cinema # [at |-> "confirm", token |-> Token[d]]
      BY DEF Registration
    <3>2. d # c
      BY <1>3, <3>1
    <3> QED BY <1>7, <1>10, <3>1, <3>2
  <2> QED BY <2>1, <2>2, <2>3 DEF Registration
<1>13. Confirmed'
  <2>1. \A d \in Client : Accepted(d)' = Accepted(d)
    BY DEF Accepted
  <2>2. Connecting(c)' /\ listener'[c].at # "none"
    BY <1>3, <1>7, <1>10
  <2>3. \A d \in Client : d # c /\ responses'[Token[d]] # <<>> =>
            /\ responses'[Token[d]] = <<Accepted(d)>>
            /\ Connecting(d)' /\ listener'[d].at # "none"
    BY <1>7, <1>9, <1>10 DEF Confirmed
  <2> QED BY <1>6, <2>1, <2>2, <2>3 DEF Confirmed
<1>14. \A d \in Client : d # c => SessionOf(d)'
  BY <1>1, <1>7, <1>9, <1>10, SessionFrame DEF Sessions
<1>15. SessionOf(c)'
  <2> SUFFICES ASSUME NEW visiting \in BOOLEAN, NEW late \in BOOLEAN,
                      visiting <=> Visiting(c)', late <=> c \in expired'
               PROVE  Session(c, visiting, child'[c].asked, requests'[c], responses'[c],
                              listener'[c].at, listener'[c].asked, late)
    BY DEF SessionOf
  <2>1. Session(c, visiting, child[c].asked, requests[c], responses[c],
                "none", listener[c].asked, late)
    BY <1>1, <1>3, <1>10 DEF Sessions, SessionOf
  <2> DEFINE asked == child[c].asked  calls == requests[c]  answers == responses[c]
             heard == listener[c].asked
  <2> HIDE DEF asked, calls, answers, heard
  <2>2. Session(c, visiting, asked, calls, answers, "none", heard, late)
    BY <2>1 DEF asked, calls, answers, heard
  <2>3. Session(c, visiting, asked, calls, answers, "receive", heard, late)
    BY <2>2, SessionBegins
  <2> QED BY <2>3, <1>1, <1>7, <1>9 DEF asked, calls, answers, heard
<1> QED BY <1>8, <1>11, <1>12, <1>13, <1>14, <1>15 DEF Sessions

----------------------------------------------------------------------------
(* The theorems *)

\* Nothing is under way at the start.
LEMMA InitKeeps == Init => IInv
<1> SUFFICES ASSUME Init
             PROVE  IInv
  OBVIOUS
<1> USE DEF Init, Empty
<1>1. TypeOK
  BY DEF TypeOK, Choice
<1>2. Children
  BY Types DEF Children, Ready, Fresh, Open, Over
<1>3. Calls /\ Wires /\ Arrived
  BY DEF Calls, Wires, Idle, Arrived
<1>4. Registration
  <2>1. Registers = <<>>
    BY Types DEF Registers
  <2>2. \A c \in Client : cinema # [at |-> "confirm", token |-> Token[c]]
    OBVIOUS
  <2> QED BY <2>1, <2>2 DEF Registration
<1>5. Confirmed
  BY Types DEF Confirmed
<1>6. Sessions
  <2> SUFFICES ASSUME NEW c \in Client, NEW visiting \in BOOLEAN, NEW late \in BOOLEAN,
                      visiting <=> Visiting(c), late <=> c \in expired
               PROVE  Session(c, visiting, child[c].asked, requests[c], responses[c],
                              listener[c].at, listener[c].asked, late)
    BY DEF Sessions, SessionOf
  <2>1. requests[c] = <<>> /\ responses[c] = <<>> /\ listener[c].at = "none" /\ ~late
    BY Types
  <2> HIDE DEF Init
  <2> QED BY <2>1 DEF Session, Unheard, Timed, Heard, Said, Left
<1> QED BY <1>1, <1>2, <1>3, <1>4, <1>5, <1>6 DEF IInv

\* What the invariant says depends on nothing but the variables.
LEMMA StutterKeeps ==
  ASSUME IInv, UNCHANGED vars
  PROVE  IInv'
<1> USE DEF IInv, vars, hostVars, cinemaVars
<1>1. /\ \A c \in Client : /\ Waits(c)' <=> Waits(c)
                           /\ Connecting(c)' <=> Connecting(c)
                           /\ Visiting(c)' <=> Visiting(c)
      /\ \A c \in Client : (Open(c)' <=> Open(c)) /\ (Fresh(c)' <=> Fresh(c))
  BY DEF Waits, TypeOf, Connecting, Visiting, Open, Over, Fresh
<1>2. TypeOK'
  BY DEF TypeOK
<1>3. Children' /\ Calls' /\ Wires' /\ Arrived'
  BY <1>1, HostFrame
<1>4. Registration' /\ Confirmed' /\ Sessions'
  BY <1>1, CinemaFrame
<1> QED BY <1>2, <1>3, <1>4

\* The invariant is inductive.
LEMMA NextKeeps == IInv /\ [Next]_vars => IInv'
<1> SUFFICES ASSUME IInv, [Next]_vars
             PROVE  IInv'
  OBVIOUS
<1>1. ASSUME NEW c \in Client, \E choice \in Request[c] \cup {"connect"} : Call(c, choice)
      PROVE  IInv'
  BY <1>1, CallKeeps
<1>2. ASSUME NEW c \in Client, ChildStep(c)
      PROVE  IInv'
  BY <1>2, SendCallKeeps, TakeAnswerKeeps DEF ChildStep
<1>3. ASSUME NEW c \in Client, ListenerStep(c)
      PROVE  IInv'
  BY <1>3, ListenKeeps, AnswerKeeps, AnswerExitKeeps, DrainKeeps DEF ListenerStep
<1>4. ASSUME NEW c \in Client, Expire(c)
      PROVE  IInv'
  BY <1>4, ExpireKeeps
<1>5. ASSUME NEW h \in Host, HostStep(h)
      PROVE  IInv'
  BY <1>5, ForwardCallKeeps, ForwardAnswerKeeps DEF HostStep
<1>6. ASSUME NEW h \in Host, ConnectionStep(h)
      PROVE  IInv'
  BY <1>6, TakePacketKeeps, ReturnAnswerKeeps DEF ConnectionStep
<1>7. CASE CinemaStep
  BY <1>7, cinema_take_client_Keeps, send_confirmation_Keeps DEF CinemaStep
<1>8. CASE UNCHANGED vars
  BY <1>8, StutterKeeps
<1> QED BY <1>1, <1>2, <1>3, <1>4, <1>5, <1>6, <1>7, <1>8 DEF Next

\* In every reachable state a host has one call in the cinema at most, and what the
\* sessions leave behind there cannot be taken for an answer (mom.cpp:231-236,
\* cinema.cpp:181-191).
THEOREM Invariance == Spec => []IInv
<1>1. Init => IInv
  BY InitKeeps
<1>2. IInv /\ [Next]_vars => IInv'
  BY NextKeeps
<1> QED BY <1>1, <1>2, PTL DEF Spec

\* Every message of the queues and of the sockets has the fields it is read
\* for: ids and types that are integers stay integers in either byte order.
THEOREM TypeCorrect == Spec => []TypeOK
<1>1. IInv => TypeOK
  BY DEF IInv
<1> QED BY <1>1, Invariance, PTL

\* An answer under a client's type is for the client, and about its call.
LEMMA ArrivedAnswers ==
  ASSUME Children, Arrived, NEW c \in Client, fromCinema[HostOf[c]][TypeOf(c)] # <<>>
  PROVE  /\ child[c].at = "await" /\ Len(fromCinema[HostOf[c]][TypeOf(c)]) = 1
         /\ \A i \in DOMAIN fromCinema[HostOf[c]][TypeOf(c)] :
               Good(c, fromCinema[HostOf[c]][TypeOf(c)][i])
<1> DEFINE q == fromCinema[HostOf[c]][TypeOf(c)]
<1>1. TypeOf(c) \in Type /\ HostOf[c] \in Host
  BY TypesDiffer
<1>2. PICK d \in Client : /\ TypeOf(c) = TypeOf(d) /\ Away(d) /\ Len(q) = 1 /\ Good(d, Head(q))
  BY <1>1 DEF Arrived
<1>3. d = c
  BY <1>2, TypesDiffer
<1> QED BY <1>2, <1>3 DEF Away

\* Under a client's type there is nothing but one answer to the call the client
\* waits for, and an accepted connection comes with the client's own id.
THEOREM AnswersReachTheirCallerHolds == Spec => []AnswersReachTheirCaller
<1>1. IInv => AnswersReachTheirCaller
  BY ArrivedAnswers DEF IInv, AnswersReachTheirCaller, Good
<1> QED BY <1>1, Invariance, PTL

\* The client reads as accepted, refused or closed what was meant so, in either
\* byte order and although the ends of the socket disagree on a field.
THEOREM VerdictsArriveHolds == Spec => []VerdictsArrive
<1>1. IInv => VerdictsArrive
  <2> SUFFICES ASSUME IInv, NEW c \in Client,
                      NEW i \in DOMAIN fromCinema[HostOf[c]][TypeOf(c)]
               PROVE  Verdict(child[c].asked, fromCinema[HostOf[c]][TypeOf(c)][i])
                         = fromCinema[HostOf[c]][TypeOf(c)][i].meant
    BY DEF VerdictsArrive
  <2>1. fromCinema[HostOf[c]][TypeOf(c)] # <<>>
    OBVIOUS
  <2> QED BY <2>1, ArrivedAnswers DEF IInv, Good
<1> QED BY <1>1, Invariance, PTL

----------------------------------------------------------------------------
(***************************************************************************)
(* How full the cinema's two queues get.  The places of a queue are the    *)
(* pairs of a type and an index; those of a call or of its answer belong   *)
(* to the host whose connection waits for it, which waits for one call at  *)
(* a time, and the others to a customer whose timer expired.               *)
(***************************************************************************)

Places(queue) == UNION {{t} \X DOMAIN queue[t] : t \in Type}

\* Nobody reads these types in the two queues, and nobody writes them.
Unused == /\ responses[TYPE_CONNECTION_CINEMA_REQUEST] = <<>>
          /\ \A c \in Client : requests[Token[c]] = <<>>
          /\ IsFiniteSet(expired)

QInv == IInv /\ Unused

\* No step puts an answer under the type of connection requests, nor a call under a token.
LEMMA UnusedKeeps ==
  ASSUME QInv, [Next]_vars
  PROVE  Unused'
<1> USE DEF QInv
<1>1. /\ requests \in [Type -> Seq(MessageSet)] /\ responses \in [Type -> Seq(MessageSet)]
  BY DEF IInv, TypeOK
<1>2. CASE UNCHANGED <<requests, responses, expired>>
  BY <1>2 DEF Unused
<1>3. ASSUME NEW t \in Type, NEW m, m.type \in Type,
             (t = TYPE_CONNECTION_CINEMA_REQUEST \/ \E c \in Client : t = c),
             \/ requests' = Put(requests, m) /\ m.type = t
             \/ requests' = Without(requests, t)
      PROVE  \A c \in Client : requests'[Token[c]] = <<>>
  BY <1>1, <1>3, Types DEF Put, Without, Unused
<1>4. ASSUME NEW t \in Type, NEW m, m.type \in Type,
             \E c \in Client : t \in {c, Token[c]},
             responses' = Put(responses, m) /\ m.type = t
      PROVE  responses'[TYPE_CONNECTION_CINEMA_REQUEST] = <<>>
  BY <1>1, <1>4, Types DEF Put, Unused
<1>5. ASSUME NEW h \in Host, TakePacket(h)
      PROVE  Unused'
  <2> DEFINE m == deserialize_message(Head(uplink[h]))
  <2>1. /\ connection[h].at = "receive" /\ uplink[h] # <<>> /\ requests' = Put(requests, m)
        /\ UNCHANGED <<responses, expired>>
    BY <1>5 DEF TakePacket
  <2>2. PICK c \in Client : GoesUp(h, c)
    BY <2>1 DEF IInv, Wires, Idle, GoesDown, IsHeld
  <2>3. /\ child[c].at = "await" /\ Ready(c)
        /\ uplink[h] = <<serialize_message(CallMessage(c))>>
    BY <2>2 DEF GoesUp, Carries, Away
  <2>4. m = CallMessage(c)
    BY <2>3, CallArrives DEF IInv
  <2>5. m.type \in {TYPE_CONNECTION_CINEMA_REQUEST, c}
    BY <2>3, <2>4, CallType DEF IInv
  <2> HIDE DEF m
  <2>6. \A d \in Client : requests'[Token[d]] = <<>>
    BY <2>1, <2>5, <1>3, Types
  <2> QED BY <2>1, <2>6 DEF Unused
<1>6. ASSUME NEW h \in Host, ReturnAnswer(h)
      PROVE  Unused'
  <2> DEFINE t == connection[h].type
  <2>1. /\ connection[h].at = "await" /\ responses' = Without(responses, t)
        /\ UNCHANGED <<requests, expired>>
    BY <1>6 DEF ReturnAnswer
  <2>2. PICK c \in Client : IsHeld(h, c)
    BY <2>1 DEF IInv, Wires, Idle, GoesDown, GoesUp
  <2>3. t = TypeOf(c)
    BY <2>2 DEF IsHeld
  <2>4. t \in Type /\ t # TYPE_CONNECTION_CINEMA_REQUEST
    BY <2>3, TypesDiffer DEF IInv
  <2> HIDE DEF t
  <2>5. responses'[TYPE_CONNECTION_CINEMA_REQUEST] = <<>>
    BY <2>1, <2>4, <1>1, Types DEF Without, Unused
  <2> QED BY <2>1, <2>5 DEF Unused
<1>7. CASE cinema_take_client
  <2>1. /\ requests' = Without(requests, TYPE_CONNECTION_CINEMA_REQUEST)
        /\ UNCHANGED <<responses, expired>>
    BY <1>7 DEF cinema_take_client
  <2>2. \A d \in Client : requests'[Token[d]] = <<>>
    BY <2>1, <1>1, Types DEF Without, Unused
  <2> QED BY <2>1, <2>2 DEF Unused
<1>8. ASSUME NEW c \in Client, send_confirmation(c)
      PROVE  Unused'
  <2>1. /\ responses' = Put(responses, Accepted(c)) /\ Accepted(c).type = Token[c]
        /\ UNCHANGED <<requests, expired>>
    BY <1>8 DEF send_confirmation, Accepted, Message
  <2>2. responses'[TYPE_CONNECTION_CINEMA_REQUEST] = <<>>
    BY <2>1, <1>4, Types
  <2> QED BY <2>1, <2>2 DEF Unused
<1>9. ASSUME NEW c \in Client, Listen(c) \/ Drain(c)
      PROVE  Unused'
  <2>1. requests' = Without(requests, c) /\ UNCHANGED <<responses, expired>>
    BY <1>9 DEF Listen, Drain
  <2>2. \A d \in Client : requests'[Token[d]] = <<>>
    BY <2>1, <1>1, Types DEF Without, Unused
  <2> QED BY <2>1, <2>2 DEF Unused
<1>10. ASSUME NEW c \in Client, Answer(c) \/ AnswerExit(c)
       PROVE  Unused'
  <2>1. /\ \E m \in Answers(c, listener[c].asked) \cup {Exit(c)} : responses' = Put(responses, m)
        /\ UNCHANGED <<requests, expired>>
    BY <1>10 DEF Answer, AnswerExit, Exit
  <2>2. PICK m \in Answers(c, listener[c].asked) \cup {Exit(c)} : responses' = Put(responses, m)
    BY <2>1
  <2>3. m.type = c
    BY <2>2 DEF Answers, Exit, Message
  <2>4. responses'[TYPE_CONNECTION_CINEMA_REQUEST] = <<>>
    BY <2>2, <2>3, <1>4, Types
  <2> QED BY <2>1, <2>4 DEF Unused
<1>11. ASSUME NEW c \in Client, Expire(c)
       PROVE  Unused'
  <2>1. /\ requests' = Put(requests, Exit(c)) /\ Exit(c).type = c
        /\ responses' = responses /\ expired' = expired \cup {c}
    BY <1>11 DEF Expire, Exit, Message
  <2>2. \A d \in Client : requests'[Token[d]] = <<>>
    BY <2>1, <1>3, Types
  <2>3. IsFiniteSet(expired')
    BY <2>1, FS_AddElement DEF Unused
  <2> QED BY <2>1, <2>2, <2>3 DEF Unused
<1>12. ASSUME NEW c \in Client, (\E choice \in Request[c] \cup {"connect"} : Call(c, choice)) \/ ChildStep(c)
       PROVE  Unused'
  BY <1>2, <1>12 DEF Call, ChildStep, SendCall, TakeAnswer, cinemaVars
<1>13. ASSUME NEW h \in Host, HostStep(h)
       PROVE  Unused'
  BY <1>2, <1>13 DEF HostStep, ForwardCall, ForwardAnswer, cinemaVars
<1>14. CASE UNCHANGED vars
  BY <1>2, <1>14 DEF vars, cinemaVars
<1> QED BY <1>5, <1>6, <1>7, <1>8, <1>9, <1>10, <1>11, <1>12, <1>13, <1>14
        DEF Next, ListenerStep, ConnectionStep, CinemaStep

\* Elements that belong to different members of a set are no more than these.
LEMMA AtMost ==
  ASSUME NEW A, NEW H, IsFiniteSet(H), NEW R,
         \A a \in A : \E h \in H : <<a, h>> \in R,
         \A a, b \in A : \A h \in H : <<a, h>> \in R /\ <<b, h>> \in R => a = b
  PROVE  IsFiniteSet(A) /\ Cardinality(A) <= Cardinality(H)
<1> DEFINE f == [a \in A |-> CHOOSE h \in H : <<a, h>> \in R]
<1>1. \A a \in A : f[a] \in H /\ <<a, f[a]>> \in R
  OBVIOUS
<1>2. f \in [A -> H] /\ \A a, b \in A : f[a] = f[b] => a = b
  <2>1. f \in [A -> H]
    BY <1>1
  <2> HIDE DEF f
  <2> QED BY <1>1, <2>1
<1> HIDE DEF f
<1>3. f \in Injection(A, H)
  BY <1>2 DEF Injection, IsInjective
<1> QED BY <1>3, FS_Injection

\* Two bounds add up.
LEMMA Together ==
  ASSUME NEW A, NEW B, NEW H, NEW E, IsFiniteSet(A), IsFiniteSet(B), IsFiniteSet(H), IsFiniteSet(E),
         Cardinality(A) <= Cardinality(H), Cardinality(B) <= Cardinality(E)
  PROVE  Cardinality(A \cup B) <= Cardinality(H) + Cardinality(E)
<1>1. Cardinality(A \cup B) = Cardinality(A) + Cardinality(B) - Cardinality(A \cap B)
  BY FS_Union
<1>2. IsFiniteSet(A \cap B)
  BY FS_Subset
<1>3. /\ Cardinality(A) \in Nat /\ Cardinality(B) \in Nat /\ Cardinality(A \cap B) \in Nat
      /\ Cardinality(H) \in Nat /\ Cardinality(E) \in Nat
  BY <1>2, FS_CardinalityType
<1> QED BY <1>1, <1>3

\* A place of either queue and the customer it is about
LEMMA PlacesOf ==
  ASSUME NEW queue \in [Type -> Seq(MessageSet)], NEW p \in Places(queue)
  PROVE  \E t \in Type : \E i \in DOMAIN queue[t] :
            /\ p = <<t, i>>
            /\ t = TYPE_CONNECTION_CINEMA_REQUEST \/ \E c \in Client : t \in {c, Token[c]}
BY DEF Places, Type

\* The places of the queue of answers that a connection does not wait for: each
\* holds the EXIT of a customer whose timer expired.
LateAnswers == {p \in Places(responses) :
                  \E c \in expired : p = <<c, Len(responses[c])>> /\ Over(c)}

\* The answer in place p is the one that the connection of host h waits for.
AwaitedAnswers == {p \in Places(responses) \X Host :
                     \E c \in Client : p[2] = HostOf[c] /\ Waits(c) /\ p[1][1] \in {c, Token[c]}}

\* An answer that is not a late EXIT is the one a connection waits for.
LEMMA AwaitedAnswer ==
  ASSUME QInv, NEW p \in Places(responses), p \notin LateAnswers
  PROVE  \E c \in Client, i \in Nat :
            /\ Waits(c) /\ i \in DOMAIN responses[p[1]] /\ p = <<p[1], i>>
            /\ \/ p[1] = Token[c] /\ child[c].id = UNDEFINED /\ i = 1
               \/ /\ p[1] = c /\ child[c].id = c
                  /\ \/ i = Len(responses[c]) /\ child[c].asked = "exit"
                     \/ i = 1 /\ responses[c][i] \in Answers(c, child[c].asked)
<1> USE DEF QInv, IInv
<1>1. responses \in [Type -> Seq(MessageSet)]
  BY DEF TypeOK
<1>0. PICK t \in Type : \E i \in DOMAIN responses[t] :
         /\ p = <<t, i>>
         /\ t = TYPE_CONNECTION_CINEMA_REQUEST \/ \E c \in Client : t \in {c, Token[c]}
  BY <1>1, PlacesOf
<1>2. PICK i \in DOMAIN responses[t] :
         /\ p = <<t, i>>
         /\ t = TYPE_CONNECTION_CINEMA_REQUEST \/ \E c \in Client : t \in {c, Token[c]}
  BY <1>0
<1>3. /\ responses[t] \in Seq(MessageSet) /\ responses[t] # <<>> /\ i \in Nat
      /\ p[1] = t
  BY <1>1, <1>2
<1>4. t # TYPE_CONNECTION_CINEMA_REQUEST
  BY <1>3 DEF Unused
<1>5. PICK c \in Client : t \in {c, Token[c]}
  BY <1>2, <1>4
<1>6. CASE t = Token[c]
  <2>1. responses[t] = <<Accepted(c)>> /\ Connecting(c)
    BY <1>3, <1>6 DEF Confirmed
  <2>2. i = 1
    BY <2>1
  <2> QED BY <1>2, <1>3, <1>6, <2>1, <2>2 DEF Connecting
<1>7. CASE t = c
  <2>1. PICK visiting \in BOOLEAN, late \in BOOLEAN :
           /\ (visiting <=> Visiting(c)) /\ (late <=> c \in expired)
           /\ Said(c, visiting, child[c].asked, responses[c], listener[c].at, late)
    <3>1. PICK visiting \in BOOLEAN : visiting <=> Visiting(c)
      OBVIOUS
    <3>2. PICK late \in BOOLEAN : late <=> c \in expired
      OBVIOUS
    <3> QED BY <3>1, <3>2 DEF Sessions, SessionOf, Session
  <2>2. CASE Over(c) /\ i = Len(responses[c])
    <3>1. ~late
      <4> SUFFICES ASSUME late
                   PROVE  FALSE
        OBVIOUS
      <4>1. c \in expired
        BY <2>1
      <4> QED BY <4>1, <2>2, <1>2, <1>7 DEF LateAnswers
    <3>2. visiting /\ child[c].asked = "exit"
      BY <2>1, <2>2, <3>1, <1>7 DEF Said, Over
    <3> QED BY <1>2, <1>3, <1>7, <2>1, <2>2, <3>2 DEF Visiting
  <2>3. CASE ~(Over(c) /\ i = Len(responses[c]))
    <3>1. i = 1 /\ visiting /\ responses[c][i] \in Answers(c, child[c].asked)
      BY <2>1, <2>3, <1>7 DEF Said, Over
    <3> QED BY <1>2, <1>3, <1>7, <2>1, <3>1 DEF Visiting
  <2> QED BY <2>2, <2>3
<1> QED BY <1>5, <1>6, <1>7

\* The queue of answers holds one for each host and for each expired timer at most.
LEMMA AnswersKeepTheirPlaces ==
  ASSUME QInv
  PROVE  Load(responses) <= Cardinality(Host) + Cardinality(expired)
<1> USE DEF QInv, IInv
<1> DEFINE B == LateAnswers  A == Places(responses) \ B
<1>1. responses \in [Type -> Seq(MessageSet)] /\ expired \subseteq Client /\ IsFiniteSet(expired)
  BY DEF TypeOK, Unused
<1>2. IsFiniteSet(B) /\ Cardinality(B) <= Cardinality(expired)
  <2> DEFINE R == {r \in B \X expired : r[1] = <<r[2], Len(responses[r[2]])>>}
  <2>1. ASSUME NEW p \in B
        PROVE  \E c \in expired : <<p, c>> \in R
    BY DEF LateAnswers
  <2>2. ASSUME NEW p \in B, NEW q \in B, NEW c \in expired, <<p, c>> \in R, <<q, c>> \in R
        PROVE  p = q
    BY <2>2
  <2> HIDE DEF R, B
  <2> QED BY <1>1, <2>1, <2>2, AtMost
<1>3. IsFiniteSet(A) /\ Cardinality(A) <= Cardinality(Host)
  <2> DEFINE R == AwaitedAnswers
  <2>1. ASSUME NEW p \in A
        PROVE  \E h \in Host : <<p, h>> \in R
    <3>1. PICK c \in Client : Waits(c) /\ p[1] \in {c, Token[c]}
      BY AwaitedAnswer
    <3> QED BY <3>1 DEF AwaitedAnswers
  <2>2. ASSUME NEW p \in A, NEW q \in A, NEW h \in Host, <<p, h>> \in R, <<q, h>> \in R
        PROVE  p = q
    <3>1. PICK c \in Client : h = HostOf[c] /\ Waits(c) /\ p[1] \in {c, Token[c]}
      BY <2>2 DEF AwaitedAnswers
    <3>2. PICK d \in Client : h = HostOf[d] /\ Waits(d) /\ q[1] \in {d, Token[d]}
      BY <2>2 DEF AwaitedAnswers
    <3>3. c = d
      BY <3>1, <3>2, OneWaits
    <3>4. PICK i \in Nat :
            /\ i \in DOMAIN responses[p[1]] /\ p = <<p[1], i>>
            /\ \/ p[1] = Token[c] /\ child[c].id = UNDEFINED /\ i = 1
               \/ /\ p[1] = c /\ child[c].id = c
                  /\ \/ i = Len(responses[c]) /\ child[c].asked = "exit"
                     \/ i = 1 /\ responses[c][i] \in Answers(c, child[c].asked)
      BY <3>1, AwaitedAnswer, Types
    <3>5. PICK j \in Nat :
            /\ j \in DOMAIN responses[q[1]] /\ q = <<q[1], j>>
            /\ \/ q[1] = Token[c] /\ child[c].id = UNDEFINED /\ j = 1
               \/ /\ q[1] = c /\ child[c].id = c
                  /\ \/ j = Len(responses[c]) /\ child[c].asked = "exit"
                     \/ j = 1 /\ responses[c][j] \in Answers(c, child[c].asked)
      BY <3>2, <3>3, AwaitedAnswer, Types
    <3>6. p[1] = q[1]
      BY <3>4, <3>5, Types
    <3>7. Answers(c, "exit") = {}
      BY DEF Answers
    <3>8. i = j
      BY <3>4, <3>5, <3>7, Types
    <3> QED BY <3>4, <3>5, <3>6, <3>8
  <2> HIDE DEF R, A
  <2> QED BY FiniteAssumption, <2>1, <2>2, AtMost
<1>4. Places(responses) = A \cup B
  BY DEF LateAnswers
<1>5. Load(responses) = Cardinality(A \cup B)
  BY <1>4 DEF Load, Places
<1> HIDE DEF A, B
<1> QED BY <1>1, <1>2, <1>3, <1>5, FiniteAssumption, Together

\* The places of the queue of calls that no client waits about: the EXIT of a
\* timer, or the call that came after the end of the session.
LateCalls == {p \in Places(requests) :
                \E c \in expired : p[1] = c /\ (~IsCall(requests[c][p[2]]) \/ Over(c))}

\* The call in place p is the one that the connection of host h waits for.
AwaitedCalls == {p \in Places(requests) \X Host :
                   \E c \in Client : /\ p[2] = HostOf[c] /\ Waits(c)
                                     /\ p[1][1] \in {c, TYPE_CONNECTION_CINEMA_REQUEST}
                                     /\ p[1][1] = TYPE_CONNECTION_CINEMA_REQUEST =>
                                           Registers[p[1][2]].id = Token[c]}

\* A call that is not late is the one a connection waits about.
LEMMA AwaitedCall ==
  ASSUME QInv, NEW p \in Places(requests), p \notin LateCalls
  PROVE  \E c \in Client, i \in Nat :
            /\ Waits(c) /\ i \in DOMAIN requests[p[1]] /\ p = <<p[1], i>>
            /\ \/ /\ p[1] = TYPE_CONNECTION_CINEMA_REQUEST /\ child[c].id = UNDEFINED
                  /\ Registers[i].id = Token[c]
               \/ p[1] = c /\ child[c].id = c /\ IsCall(requests[c][i])
<1> USE DEF QInv, IInv
<1>1. requests \in [Type -> Seq(MessageSet)]
  BY DEF TypeOK
<1>2. PICK t \in Type : \E i \in DOMAIN requests[t] :
         /\ p = <<t, i>>
         /\ t = TYPE_CONNECTION_CINEMA_REQUEST \/ \E c \in Client : t \in {c, Token[c]}
  BY <1>1, PlacesOf
<1>3. PICK i \in DOMAIN requests[t] :
         /\ p = <<t, i>>
         /\ t = TYPE_CONNECTION_CINEMA_REQUEST \/ \E c \in Client : t \in {c, Token[c]}
  BY <1>2
<1>4. /\ requests[t] \in Seq(MessageSet) /\ requests[t] # <<>> /\ i \in Nat
      /\ p[1] = t /\ p[2] = i
  BY <1>1, <1>3
<1>5. CASE t = TYPE_CONNECTION_CINEMA_REQUEST
  <2>1. PICK c \in Client : Registers[i].id = Token[c] /\ Connecting(c)
    BY <1>3, <1>5 DEF Registration, Registers
  <2> QED BY <1>3, <1>4, <1>5, <2>1 DEF Connecting
<1>6. ASSUME NEW c \in Client, t = c
      PROVE  \E d \in Client, j \in Nat :
               /\ Waits(d) /\ j \in DOMAIN requests[p[1]] /\ p = <<p[1], j>>
               /\ p[1] = d /\ child[d].id = d /\ IsCall(requests[d][j])
  <2>1. PICK visiting \in BOOLEAN, late \in BOOLEAN :
           /\ (visiting <=> Visiting(c)) /\ (late <=> c \in expired)
           /\ Unheard(visiting, child[c].asked, requests[c], responses[c],
                      listener[c].at, listener[c].asked)
           /\ Timed(c, requests[c], late)
           /\ Left(visiting, requests[c], responses[c], listener[c].at, late)
    <3>1. PICK visiting \in BOOLEAN : visiting <=> Visiting(c)
      OBVIOUS
    <3>2. PICK late \in BOOLEAN : late <=> c \in expired
      OBVIOUS
    <3> QED BY <3>1, <3>2 DEF Sessions, SessionOf, Session
  <2>2. late => IsCall(requests[c][i]) /\ ~Over(c)
    BY <2>1, <1>3, <1>4, <1>6 DEF LateCalls
  <2>3. IsCall(requests[c][i])
    BY <2>1, <2>2, <1>3, <1>6 DEF Timed
  <2>4. ~Over(c)
    BY <2>1, <2>2, <1>4, <1>6 DEF Left, Over
  <2>5. visiting
    BY <2>1, <2>3, <2>4, <1>3, <1>6 DEF Unheard, Over
  <2> QED BY <1>3, <1>4, <1>6, <2>1, <2>3, <2>5 DEF Visiting
<1>7. ASSUME NEW c \in Client, t = Token[c]
      PROVE  FALSE
  BY <1>4, <1>7 DEF Unused
<1> QED BY <1>3, <1>4, <1>5, <1>6, <1>7

\* The queue of calls holds one for each host and for each expired timer at most.
LEMMA CallsKeepTheirPlaces ==
  ASSUME QInv
  PROVE  Load(requests) <= Cardinality(Host) + Cardinality(expired)
<1> USE DEF QInv, IInv
<1> DEFINE B == LateCalls  A == Places(requests) \ B
<1>1. requests \in [Type -> Seq(MessageSet)] /\ expired \subseteq Client /\ IsFiniteSet(expired)
  BY DEF TypeOK, Unused
<1>2. ASSUME NEW c \in Client
      PROVE  /\ Over(c) /\ requests[c] # <<>> => Len(requests[c]) = 1
             /\ \A i, j \in DOMAIN requests[c] :
                   ~IsCall(requests[c][i]) /\ ~IsCall(requests[c][j]) => i = j
             /\ \A i, j \in DOMAIN requests[c] :
                   IsCall(requests[c][i]) /\ IsCall(requests[c][j]) => i = j
  <2>1. PICK visiting \in BOOLEAN : visiting <=> Visiting(c)
    OBVIOUS
  <2>2. PICK late \in BOOLEAN : late <=> c \in expired
    OBVIOUS
  <2>3. /\ Unheard(visiting, child[c].asked, requests[c], responses[c],
                   listener[c].at, listener[c].asked)
        /\ Timed(c, requests[c], late)
        /\ Left(visiting, requests[c], responses[c], listener[c].at, late)
    BY <2>1, <2>2 DEF Sessions, SessionOf, Session
  <2> QED BY <2>3 DEF Unheard, Timed, Left, Over
<1>3. ASSUME NEW p \in Places(requests)
      PROVE  /\ p[1] \in Type /\ p = <<p[1], p[2]>> /\ p[2] \in DOMAIN requests[p[1]]
             /\ requests[p[1]] \in Seq(MessageSet)
  BY <1>1 DEF Places
<1>4. IsFiniteSet(B) /\ Cardinality(B) <= Cardinality(expired)
  <2> DEFINE R == {r \in B \X expired :
                     r[1][1] = r[2] /\ (~IsCall(requests[r[2]][r[1][2]]) \/ Over(r[2]))}
  <2>1. ASSUME NEW p \in B
        PROVE  \E c \in expired : <<p, c>> \in R
    BY DEF LateCalls
  <2>2. ASSUME NEW p \in B, NEW q \in B, NEW c \in expired, <<p, c>> \in R, <<q, c>> \in R
        PROVE  p = q
    <3>1. p \in Places(requests) /\ q \in Places(requests)
      BY DEF LateCalls
    <3>2. /\ p[1] = c /\ q[1] = c
          /\ ~IsCall(requests[c][p[2]]) \/ Over(c)
          /\ ~IsCall(requests[c][q[2]]) \/ Over(c)
      BY <2>2
    <3>3. /\ p = <<c, p[2]>> /\ p[2] \in DOMAIN requests[c]
          /\ q = <<c, q[2]>> /\ q[2] \in DOMAIN requests[c]
          /\ requests[c] \in Seq(MessageSet)
      BY <1>3, <3>1, <3>2
    <3>4. CASE Over(c)
      <4>1. Len(requests[c]) = 1
        BY <1>1, <1>2, <3>3, <3>4
      <4>2. p[2] = 1 /\ q[2] = 1
        BY <3>3, <4>1
      <4> QED BY <3>3, <4>2
    <3>5. CASE ~Over(c)
      <4>1. p[2] = q[2]
        BY <1>1, <1>2, <3>2, <3>3, <3>5
      <4> QED BY <3>3, <4>1
    <3> QED BY <3>4, <3>5
  <2> HIDE DEF R, B
  <2> QED BY <1>1, <2>1, <2>2, AtMost
<1>5. IsFiniteSet(A) /\ Cardinality(A) <= Cardinality(Host)
  <2> DEFINE R == AwaitedCalls
  <2>1. ASSUME NEW p \in A
        PROVE  \E h \in Host : <<p, h>> \in R
    <3>1. PICK c \in Client, i \in Nat :
            /\ Waits(c) /\ i \in DOMAIN requests[p[1]] /\ p = <<p[1], i>>
            /\ \/ /\ p[1] = TYPE_CONNECTION_CINEMA_REQUEST /\ child[c].id = UNDEFINED
                  /\ Registers[i].id = Token[c]
               \/ p[1] = c /\ child[c].id = c /\ IsCall(requests[c][i])
      BY AwaitedCall
    <3>2. p[2] = i /\ HostOf[c] \in Host /\ c # TYPE_CONNECTION_CINEMA_REQUEST
      BY <3>1, Types
    <3> QED BY <3>1, <3>2 DEF AwaitedCalls
  <2>2. ASSUME NEW p \in A, NEW q \in A, NEW h \in Host, <<p, h>> \in R, <<q, h>> \in R
        PROVE  p = q
    <3>1. PICK c \in Client : /\ h = HostOf[c] /\ Waits(c)
                              /\ p[1] \in {c, TYPE_CONNECTION_CINEMA_REQUEST}
                              /\ p[1] = TYPE_CONNECTION_CINEMA_REQUEST =>
                                    Registers[p[2]].id = Token[c]
      BY <2>2 DEF AwaitedCalls
    <3>2. PICK d \in Client : /\ h = HostOf[d] /\ Waits(d)
                              /\ q[1] \in {d, TYPE_CONNECTION_CINEMA_REQUEST}
                              /\ q[1] = TYPE_CONNECTION_CINEMA_REQUEST =>
                                    Registers[q[2]].id = Token[d]
      BY <2>2 DEF AwaitedCalls
    <3>3. c = d
      BY <3>1, <3>2, OneWaits
    <3>4. \/ p[1] = TYPE_CONNECTION_CINEMA_REQUEST /\ child[c].id = UNDEFINED
          \/ p[1] = c /\ child[c].id = c /\ IsCall(requests[c][p[2]])
      <4>1. PICK e \in Client, i \in Nat :
              /\ Waits(e) /\ i \in DOMAIN requests[p[1]] /\ p = <<p[1], i>>
              /\ \/ /\ p[1] = TYPE_CONNECTION_CINEMA_REQUEST /\ child[e].id = UNDEFINED
                    /\ Registers[i].id = Token[e]
                 \/ p[1] = e /\ child[e].id = e /\ IsCall(requests[e][i])
        BY AwaitedCall
      <4>2. p[2] = i
        BY <4>1
      <4>3. e = c
        <5>1. CASE p[1] = TYPE_CONNECTION_CINEMA_REQUEST
          <6>1. Token[e] = Token[c]
            BY <3>1, <4>1, <4>2, <5>1, Types
          <6> QED BY <6>1, Types
        <5>2. CASE p[1] # TYPE_CONNECTION_CINEMA_REQUEST
          BY <3>1, <4>1, <5>2
        <5> QED BY <5>1, <5>2
      <4> QED BY <4>1, <4>2, <4>3
    <3>5. \/ q[1] = TYPE_CONNECTION_CINEMA_REQUEST /\ child[c].id = UNDEFINED
          \/ q[1] = c /\ child[c].id = c /\ IsCall(requests[c][q[2]])
      <4>1. PICK e \in Client, i \in Nat :
              /\ Waits(e) /\ i \in DOMAIN requests[q[1]] /\ q = <<q[1], i>>
              /\ \/ /\ q[1] = TYPE_CONNECTION_CINEMA_REQUEST /\ child[e].id = UNDEFINED
                    /\ Registers[i].id = Token[e]
                 \/ q[1] = e /\ child[e].id = e /\ IsCall(requests[e][i])
        BY AwaitedCall
      <4>2. q[2] = i
        BY <4>1
      <4>3. e = c
        <5>1. CASE q[1] = TYPE_CONNECTION_CINEMA_REQUEST
          <6>1. Token[e] = Token[c]
            BY <3>2, <3>3, <4>1, <4>2, <5>1, Types
          <6> QED BY <6>1, Types
        <5>2. CASE q[1] # TYPE_CONNECTION_CINEMA_REQUEST
          BY <3>2, <3>3, <4>1, <5>2
        <5> QED BY <5>1, <5>2
      <4> QED BY <4>1, <4>2, <4>3
    <3>6. p[1] = q[1]
      BY <3>4, <3>5, Types
    <3>7. /\ p = <<p[1], p[2]>> /\ p[2] \in DOMAIN requests[p[1]]
          /\ q = <<p[1], q[2]>> /\ q[2] \in DOMAIN requests[p[1]]
      BY <1>3, <3>6
    <3>8. p[2] = q[2]
      <4>1. CASE p[1] = TYPE_CONNECTION_CINEMA_REQUEST
        BY <3>1, <3>2, <3>3, <3>6, <3>7, <4>1 DEF Registration, Registers
      <4>2. CASE p[1] # TYPE_CONNECTION_CINEMA_REQUEST
        BY <1>2, <3>4, <3>5, <3>6, <3>7, <4>2
      <4> QED BY <4>1, <4>2
    <3> QED BY <3>7, <3>8
  <2> HIDE DEF R, A
  <2> QED BY FiniteAssumption, <2>1, <2>2, AtMost
<1>6. Places(requests) = A \cup B
  BY DEF LateCalls
<1>7. Load(requests) = Cardinality(A \cup B)
  BY <1>6 DEF Load, Places
<1> HIDE DEF A, B
<1> QED BY <1>1, <1>4, <1>5, <1>7, FiniteAssumption, Together

\* However many customers a cinema has, the two queues they all share hold a
\* message for each host and one for each expired timer at most.
THEOREM QueuesKeepTheirPlacesHolds == Spec => []QueuesKeepTheirPlaces
<1>1. Init => QInv
  <2> SUFFICES ASSUME Init
               PROVE  Unused
    BY InitKeeps DEF QInv
  <2> QED BY Types, FS_EmptySet DEF Init, Empty, Unused
<1>2. QInv /\ [Next]_vars => QInv'
  BY NextKeeps, UnusedKeeps DEF QInv
<1>3. QInv => QueuesKeepTheirPlaces
  BY AnswersKeepTheirPlaces, CallsKeepTheirPlaces DEF QueuesKeepTheirPlaces
<1> QED BY <1>1, <1>2, <1>3, PTL DEF Spec

=============================================================================
