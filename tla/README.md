# The cinema's reservations in TLA+

This directory holds a formal model of the seat reservation system in `src/`:
TLA+ modules translated from the C++ code, TLC configurations that check them
on small instances, and theorems about them checked by TLAPS for every
instance. Paths such as `admin.cpp:102` are relative to `src/src/`'s component
directories (`src/src/admin/admin.cpp`, and so on); `PROJECT.json` maps every
definition to its lines.

## 1. The system

| Component | State it keeps | Operations |
|---|---|---|
| **database** (`db/db_api.cpp`) | SQLite tables `Users`, `Active_clients`, `Rooms`, `Seats`, `Reservations`, `Clients_rooms` | one function per SQL statement; no transactions, no busy handler |
| **admin** (`admin/admin.cpp`) | request queue, the tables | receive a request, fork a handler: registration, rooms, seats, select, pay, exit; clean the tables at start; forward updates to a mom |
| **cinema** (`cinema/cinema.cpp`, `cinema_handler.cpp`) | client queue, shared array of timestamps (100 slots), one mutex | register a client, fork its listener; the listener passes requests on to the admin and waits; fork a timer per listener; one process per network connection |
| **mom** (`middleware/mom.cpp`) | queue of the local clients, shared memory with one update per client | accept a client, pass its calls to the network, wait for updates of a room |
| **client interface** (`middleware/client_interface.cpp`) | `Client` structure, polling thread | `init_mom`, `get_rooms`, `get_seats`, `reserve_seat`, `pay_seats`, `end_mom` |
| **client** (`client/client.cpp`) | screen, reservations made | the menus: rooms, seats, pay, back, exit |
| **network** (`network/*.cpp`) | sockets | serialise every message kind, connect, accept, forward |
| **ipc** (`ipc/*.cpp`) | System V queues, semaphores, shared memory | `send_message`/`receive_message` by message type |
| **set-up tools** (`utils/*.cpp`) | files and IPC objects | create and remove them, fill the tables |

A customer's call goes client → client interface → mom (message queue) →
network (socket) → cinema's queue → the customer's listener → admin's queue →
handler, and its answer comes the same way back. Requests and answers are
matched by message type only: the customer's id, or, before there is one, the
client's token. Updates of a room go from the handler of a reservation through
a third queue, the socket of one mom and that mom's queue into shared memory,
where the client's polling thread finds them. The inactivity timer takes part by
putting an EXIT into the customer's own request channel.

What makes this hard:

* **Handlers interleave.** The admin forks one process per request, so the
  handlers of different customers run at the same time on the same tables, and
  only a single SQL statement is atomic. A reservation is up to six statements.
* **Statements are refused.** A statement that meets the lock of another
  process returns `SQLITE_BUSY` at once. The code looks at some results and
  ignores others.
* **Answers are counted, not named.** One answer too many, or one that never
  comes, shifts everything that customer is told later.
* **Forwarders are serial and queues are short.** One answer that does not come stops a
  whole host; a message nobody reads keeps its place in a queue that all share.
* **Sessions end from two sides**, the customer and the timer, at any moment.
* **Clients are killed and the cinema is stopped** between any two steps.
* **What the customer sees is a copy**, kept up to date by messages.
* **Seat and room numbers come from a keyboard** and reach the handlers as
  they are.

What makes each component correct:

* database: one reservation per room and seat; rows change only as told;
* admin: one answer per request; a seat given to the one who was told so; an
  EXIT frees what was not paid and nothing else; a restart as well;
* cinema: no session without a customer that was registered; every abandoned
  session ends; a timer ends only its own customer's session;
* client and client interface: the cart is what the tables say; the customer
  who was told "paid" owns the seats; the screen shows the current room;
* mom and network: every update reaches each viewer, in order, in the right
  room; nobody waits for ever because somebody else does not answer.

`PROJECT.json` ("hazards") lists the places where this can go wrong, and the
properties aimed at each. The few without a property have a note saying why.

## 2. The modules

| Module | Models |
|---|---|
| `Database` | the tables, and the SQL statements as actions on one table each |
| `Admin` | `admin_handle_request`, one action per SQL statement, and the loop that forks it |
| `BoxOffice` | Admin with its callers: registration, listeners, timer, customers, killed clients, restarts |
| `SeatBooking` | the promise about seats: free, held or sold |
| `MCBoxOffice` | the rooms of the TLC instances |
| `Session` | the processes behind one session: listener, inactivity timer, timestamp table, semaphore |
| `SessionSilence` | `Session` with a history variable: how long a customer was silent |
| `ListenerService` | the promise about sessions that `BoxOffice` assumes |
| `Network` | the way of a call: mom's children and forwarder, packets, the cinema's process per host, the queues of bounded size |
| `MCNetwork` | clients, hosts and habits of the TLC instances |
| `Middleware` | the way of an update: activity queue, mom's listeners, shared memory, polling threads, callback |
| `BoxOfficeProofs` | theorems on `BoxOffice`: types, no double booking, paid is final |
| `ProtocolProofs` | requests and answers, no stranded hold |
| `CartProofs` | the customer's side: cart and rows, viewers, what is paid, purchases |
| `RefinementProofs` | `BoxOffice` implements `SeatBooking` |
| `SessionProofs` | theorems on `Session` and `SessionSilence`: types, the semaphore, the messages of a customer, whom a timer ends, `Session` implements `ListenerService` (safety) |
| `NetworkProofs` | theorems on `Network`: types and byte order, answers find their callers, room in the shared queues |
| `MiddlewareProofs` | theorems on `Middleware`: types, the polling threads |
| `UpdateProofs` | one place for each update, and their order |

`BoxOffice` extends `Admin`, which extends `Database`; `BoxOffice` instantiates
`SeatBooking` under a refinement mapping (`Booking`). `Session` refines what
`BoxOffice` calls `session`: both speak of a session that is `none`, `open`, `waiting`
or `closed`. `Session` takes the admin's answers for granted (`RequestsAreAnswered`,
checked in `BoxOffice`), and `BoxOffice` takes the end of an inactive session for
granted (`ImplementsService`, checked in `Session`).

### Database

`users` is the AUTOINCREMENT counter of Users: the customers registered since the
system was set up. (`database_data_init` inserts rows of its own before that;
ids are numbered relative to those.) `reservations`, `clientsRooms` and `active` are sets of rows.
Rooms and Seats are written only before the cinema starts and are the constant
`SeatCount` (room to number of seats). Every statement takes a Boolean `busy`:
refused, it changes nothing.

The schema counts as far as SQLite enforces it. The primary key of Reservations
is in `SeatIsFree`. The foreign keys are not, because `PRAGMA foreign_key=ON`
(db_api.cpp:37) is a misspelling of `foreign_keys`, which SQLite ignores.

`db_select_user_current_room` reads the first row of a query without ORDER BY.
The model lets it be any row (`RoomsOfUser`). The index SQLite would choose
today returns rows ordered by room number, one of those choices; nothing in
the source promises it.

### Admin

`handler[s]` is the request under message type `s`, waiting in the admin's queue
(`pc = "queued"`) or being handled; `reply[s]` holds the answers sent under `s` and
not read yet; `activity[u]` holds the updates on their way to customer `u`. Slot 0,
`Registration`, stands for the token of the customer who is being registered (the
cinema registers one at a time). One function per type is enough, because each
listener waits for its answer before it sends again and its EXIT is its
last request; `OneAnswerPerRequest` checks what that relies on.

A handler's `pc` names the statement it executes next. The statement and what the
code does with its result before the next statement are one action: the result
decides the `pc` or the answer. Where the code reads past the end or reads `front()` of
an empty vector, the step may end in `"dead"`: the process is killed by the
fault, and the answer never comes. For the write to `seat_status[index-1]` past the end it may also go on, since
a stray write may go unnoticed.

Merged on purpose: the queries of a room's seats and of its reservations
(Seats never changes, so the first has no other moment to happen; refusing either
is kept), the sends of one update to several customers (each goes to another
queue type), and a handler's last statement with the send that follows it.

### BoxOffice

`session[u]` is the listener: `none`, `open` (waits for the customer), `waiting`
(for the admin), `closed`. `client[u]` is the customer: the screen, the call
under way, the room and seat in it, the cart and the seats shown as taken.

A call is two actions: `Ask...` puts the request before the admin and `Receive`
takes the answer, with everything between client and listener left out. The
order of calls is that of `client_start`: rooms, then seats of a room, then a
seat; back at any point; payment for a non-empty cart; exit. `GoBack` sends
nothing, as in the code: the admin goes on believing the customer is in the
room.

`Timeout` is the EXIT of the timer, at any moment the listener waits for the
customer. The customer learns of it at the next call (`NoticeClosed`). `Crash`
kills the client; the listener and the timer stay. `Restart` stops the cinema at
any point, removes the queues (`destructor`, `initializer`) and starts it again,
which runs `clean_db_tables`.

The constants are bounds (`MaxUsers`, `MaxBusy`, `MaxRestarts`, `MaxCrashes`) and inputs:
`RoomInput` and `SeatInput` are what customers type, and need not exist.

Abstractions to know about:

* A session under id 0, after a refused registration, is not followed further: the
  registration's answer with id 0 is modelled (and is a finding), but
  `msgrcv` with type 0 afterwards is not.
* Tokens are process ids and might equal a customer's id; not modelled.
* How the timer finds out about inactivity, and what listener and timer do to each
  other at the end of a session, is in `Session`; here a session ends by one action.
* Updates arrive in the order the handlers sent them and none is lost on the way. This is
  the best case of mom and network; the findings about updates hold even then.
* Queues are unbounded, which is again the best case; `Network` and `Middleware` have their capacity.
* The middleware's own end of a client (a crash in `get_rooms` or in a callback) is in `Middleware`.

### SeatBooking

The abstract specification: `held` and `sold` are sets of user and place, and `customer` is
new, in or left. A seat is taken only when free and only by a customer in
service; sold only to its holder, also still in service; a hold disappears only by a sale, after its
customer left, or when the cinema closes; a sold seat stays sold. The mapping takes unpaid rows
as `held`, paid rows as `sold`, and `closed` sessions as `left`.

### Session

`listener[u].at` and `timer[u].at` are the statements the two processes execute next.
A critical section is two steps: `semaphore_wait` takes the mutex, and the access to
the table ends with giving it back. So a timer can be killed in between, and
`KillTimer` gives the mutex back, as SEM_UNDO makes the kernel do (semaphore.cpp:45).
`requests[u]` and `responses[u]` are the messages of type `u` in the two queues.

| Code | Actions |
|---|---|
| `cinema_take_client` and the fork | `cinema_take_client` |
| `start_timer`: stamp, fork | `start_timer` |
| loop of `cinema_listen_client` | `ReceiveRequest`, `Check`, `Touch`, `Forward`, `Answer`, `EndSession` |
| after the loop | `KillTimer`, `Verify`, then `Drain` or `CloseSlot` |
| loop of the timer | `Poll`, `StillActive`, `SendExit`, `MarkTimedOut` |
| customer and mom's forwarder | `Call`, `Leave`, `TakeAnswer`, `Crash` |

Time: a timestamp is modelled by its age, `Tick` advances all ages at once, and ages stop at
`MaxWait + 1`, since the code only asks whether an age exceeds the limit. The special
values -1 and -134 stay what they are; subtracted from the clock they are decades ago,
which is how the timer reads them. Polling every two seconds is `Poll` at any time.

`customer[u]` keeps to the client interface: one call at a time, any EXIT it receives
is the end (`_disconnect`). A killed client leaves its messages behind.

Left out: restarts of the cinema (the IPC objects are removed and everything starts
anew, `BoxOffice` has them), and queue capacity (`Network`). `update_timestamp` is
declared to return an int and returns nothing; its callers ignore the value and the
build has no optimisation flags, so it is read as `void`.

### ListenerService

A session is opened, then alternates between `open` and `waiting`, and ends once,
from `open`. With fairness: a call is answered, and a session that stays `open`
ends. `SessionOf` is the mapping: `waiting` while the listener waits for the admin,
`closed` from the EXIT to the admin on.

### Network

One client's call is carried by four processes, each of which serves one call at a time:

| Process | Code | Actions |
|---|---|---|
| mom's child of the client | `fork_client` | `Call` (the client's), `SendCall`, `TakeAnswer` |
| the host's forwarder | `network_listen` of mom | `ForwardCall`, `ForwardAnswer` |
| the cinema's process for the host | `network_listen` of the cinema | `TakePacket`, `ReturnAnswer` |
| main loop, listeners, timers | `cinema_take_client`, `cinema_listen_client`, `start_timer` | `cinema_take_client`, `send_confirmation`, `Listen`, `Answer`, `AnswerExit`, `Drain`, `Expire` |

A System V queue read by type is a function from types to sequences, and one read
with type 0 a single sequence; both take `Capacity` messages, and `HasSpace` is the
guard of every `msgsnd`. A socket is an ordered channel without loss (TCP; errors end
the process in the code). A packet holds the fields that control depends on: type, choice,
id and the success of an answer, with the bytes in the order of the host
(`LittleEndian`). `serialize_message` and `deserialize_message` do to them what the code does, and
the two do not agree: m6.success leaves in host order and is read with `ntohl`, m4.success
leaves as an int and is read with `ntohs`. `Verdict` is how the callers of the client
interface read what arrives.

`meant` is a ghost field: what the admin meant, carried along unchanged, and read by
`VerdictsArrive` only. The admin is nondeterministic within what its handlers answer
(`Answers`), at most `MaxDead` handlers die (admin.cpp:84), and at most `MaxExpired` timers
send their EXIT. Which calls a client makes is the constant `Request`.

Assumed: no process id (a client's type before it has an id) is another client's id
(`TokenAssumption`). The code does not exclude it; the two would then read each other's answers.
The ids 1 and 2 are taken by `database_data_init`, so that no id is the type of a connection request.
Ids and process ids fit the int fields that carry them (`WidthAssumption`, message.h:15, 52-53), and the
hosts are finitely many (`FiniteAssumption`).

### Middleware

One customer and everything that brings it the news. An update is `[room, n]`, for the
n-th reservation of the others; neither is in the real message, which has seats only.

| Code | Actions |
|---|---|
| handlers of other customers | `Reserve`, `Notify` (waits for space in the activity queue) |
| forwarder of the admin, receiver of mom | `ForwardUpdate` |
| mom's child | `fork_client` (the answer to a call, from `Outcomes`), then `start_async_seat_listener` or `finish_async_seat_listener` |
| a listener of mom | `Reset`, `TakeUpdate`, `flag_update_write` |
| a polling thread | `BeginThread`, `Sleep`, `Wake`, `TakeSlot`, `on_update` |
| calls of the client | `get_rooms`, `get_seats`, `reserve_seat`, `pay_seats`, `end_mom`, and `Receive` for the answer |
| menus | `GoBack`, `Refresh` (copy and reset are two steps) |

The answer reaches the client before `process_message` starts or stops a listener
(mom.cpp:205-206), so both happen in either order. `kill(SIGKILL, pid)` has its arguments
swapped and does nothing; `killed` records that it was tried. Cancellation is
deferred, as POSIX threads are by default: a cancelled thread goes on to its next `sleep`
or `printf` (`cancelled`, `Wake`, `on_update`). Undefined behaviour is a choice of outcomes: a callback through a
null pointer crashes; one into `update_args` that went out of scope, or one that writes while the
menu copies, may crash; `pthread_cancel` of a thread that ended may succeed or fail, and of one
that was never made may crash the client.

Merged: the critical sections of the slot are one step each (nobody is killed inside,
and no other state changes there); the admin's forwarder, the socket and mom's receiver, three
processes in a row that only pass an update on, are one queue hop, `activity` to `inbox`; the snapshot of a handler
and its choice of viewers are one step (`BoxOffice` has them apart); a call is answered in one step.

## 3. Properties

| Property | Says |
|---|---|
| `NoDoubleBooking` | a seat of a room belongs to one customer at most |
| `NoStrandedHold` | an unpaid reservation always has a session that runs, or an EXIT under way, to answer for it |
| `StrandedByTheDelete` | with refused statements too, seats lose who answers for them only by the refused DELETE of their customer's EXIT |
| `UnpaidByTheUpdate` | a purchase falls short of the cart only by the refused UPDATE of that payment (in one room) |
| `OneAnswerPerRequest` | a waiting listener has a request under way or exactly one answer to that request; one that does not wait has nothing |
| `CartCountsReservations` | the customer's cart and the customer's rows have the same number, one apart while the answer travels |
| `ViewersAreRegistered` | who looks at a room is in Clients_rooms for that room |
| `OnlyTheCartIsPaid` | a paid row is a seat in its customer's cart |
| `PaidIsFinal` | a paid row never disappears and never changes |
| `ImplementsBooking` | the whole system implements `SeatBooking` |
| `HoldsAreGivenBack` | the same with fairness: what customers who left hold is released |
| `RequestsAreAnswered` | a listener that waits gets an answer |
| `AbandonedSeatsAreFreed` | what a killed client held is free in the end |
| `PurchaseIsEffective` | who was told the purchase is done owns the cart, paid |
| `ViewersSeeReservations` | at rest, who looks at a room sees each reserved seat as reserved |
| `LockIsHeldByTheLiving` | the mutex is held only by a process whose next step gives it back |
| `AnswersMatchCalls` | exactly one call is under way while a customer waits, none while it does not, and EXIT is the last thing it is sent |
| `BacklogIsBounded` | a customer has two messages in the request queue at most |
| `OnlyTheSilentExpire` | a timer finds a session expired only if its own customer was silent too long |
| `LateCallIsTheLast` | a listener that waits for a last message leaves no other in the queue all share, and none comes later |
| `CallsAreAnswered` | who calls is answered or told that the session is over |
| `AbandonedSessionsEnd` | the session of a killed client ends |
| `GoneCustomersAreForgotten` | the listener of a customer who took the EXIT ends |
| `ImplementsService` | `Session` implements `ListenerService` with its fairness |
| `AnswersReachTheirCaller` | under a client's type a host holds nothing but one answer to the call that client waits for |
| `VerdictsArrive` | the client reads an answer as accepted, refused or closed as the admin meant it |
| `QueuesKeepTheirPlaces` | each shared queue holds one message per host and one per expired session at most |
| `CallsAreAnswered` (`Network`) | a client that waits is answered, unless a handler died on a call of its own host; or a queue is full for ever (`full_queue`) |
| `EachUpdateInOnePlace` | an update is in one queue, process, thread or slot at most |
| `PollingBelongsToTheVisit` | one thread polls at most, only during a visit, and its data is there |
| `NewsComeInOrder` | before a listener should have been stopped, the slot never goes back to an older update |
| `NewsNeverGoBack` | the same without that condition |
| `HandlersGetThrough` | a handler gets rid of its update, also when the customer has left |
| `NewsArrive` | in the first visit the callback gets the newest seats once the others stop, unless the visit ends |

`NoStrandedHold` and `ViewersAreRegistered` ask for `busyCount = 0`: an EXIT whose DELETE is
refused does strand its seats until the next start (admin.cpp:40-45 ignores the
results), and a refused INSERT into Clients_rooms is ignored as well. `StrandedByTheDelete` is about what is left
after a refusal: the logout before that DELETE, and every other statement, may be refused without stranding a seat.
`UnpaidByTheUpdate` does the same for payments: `PurchaseIsEffective` fails with one refusal, and this says by which.

## 4. The runs

| Run | Instance | Distinct states | Shows |
|---|---|---|---|
| `two_rooms` | 2 customers, 2 rooms of 1 seat | 4.0 million | interleavings of handlers, also for customers who go back and forth between rooms: queues, carts, viewers and tables stay in step |
| `refusals` | 2 customers, 1 seat, seats {1,2} typed, 1 refusal | 2.1 million | the same with a refused statement, a seat that does not exist and handlers that die of it, which refusal strands seats or leaves a seat unpaid, and the refinement of `SeatBooking` |
| `progress` | 2 customers, 1 seat, rooms {1,2}, seats {0,1} typed, 1 kill, 1 restart | 0.1 million | liveness, with a stop at any point: `PaidIsFinal`, no seat stays held, no old answer; `SeatBooking` is implemented with its fairness |
| `wrong_room` | 1 customer, 2 rooms | violation | see findings |
| `lost_update` | 2 customers, 1 room | violation | see findings |
| `sessions` | 2 customers, 2 slots, limit 1 tick, both may be killed | 1.7 million | safety of listeners, timers, table and semaphore, and whom the timers end (`SessionSilence`) |
| `session_service` | 1 customer, limit 2 ticks, may be killed | 1600 | liveness and refinement of `ListenerService` |
| `shared_slot` | customers 1 and 3, 2 slots, limit 1 tick | violation | see findings |
| `network` | 3 clients on 2 hosts, queues of 4, 1 expired session, 1 dead handler | 0.2 million | answers find their callers and keep their meaning; who waits is answered |
| `full_queue` | 3 clients on 1 host, queues of 2, 2 expired sessions | violation | see findings |
| `updates` | 1 customer, 1 room, 2 visits, 3 updates, queues of 1 | 0.8 million | listeners, slot, threads and callback in every interleaving |
| `leaked_listener` | 1 customer, 2 visits, 2 updates | violation | see findings |

Why these bounds. Conflicts about a seat, an update or a row are between two
handlers, so two customers reach every pair of statements in every order. One seat makes
every pair of reservations collide; two rooms are needed for a customer
registered in both; in `refusals` a cart of two comes about because seat 2 can be reserved
although the room has one. A refusal needs a second handler
with a statement to execute (`MayBeBusy`), so a lone customer never sees one.
One refusal hits any statement of any handler. One restart already happens between any
two steps. Users are not reused (ids are AUTOINCREMENT), hence a bounded number of
them, and a state in which all have left is final: deadlock checking is off in
every run of `BoxOffice` for this reason only; `RequestsAreAnswered` is what
would show a customer waiting for ever.

`Session`'s processes meet only in the table and at the semaphore, so two sessions show every
conflict. Liveness is checked for one session, whose listener and timer already contend for the
semaphore; that a session cannot keep it from the others is `LockIsHeldByTheLiving`, proved for
any number of them. In `sessions` 2 slots with customers 1 and 2, and in `shared_slot` with 1 and 3, stand for 100 slots with ids that
differ or agree modulo 100. A limit of one tick already separates "just stamped", "within
the limit" and "expired".

In `network` two hosts let answers of different forwarders meet in one queue, and two clients on one
of them share a forwarder; each client has its own habit (select; seats; pay and exit) to keep the product small, and every kind of
answer occurs. Queues of 4 are the real size, and `QueuesKeepTheirPlaces` shows that they never fill with one expired session.
`full_queue` takes 2 for 4, and 2 expired sessions for as many as it takes: the counterexample grows with the
capacity and not in kind. In `updates` two visits are what it takes to have two listeners and two threads at once;
three updates put one in each hand while a third waits; queues of one message make every sender wait. A run with two rooms
adds states but no new interleaving, as updates have no room on their way; `Room` is {1}.
Deadlock checking is off in the runs of both modules, since all customers may be gone;
`CallsAreAnswered` and `HandlersGetThrough` are what would show somebody waiting for ever.

**Fairness of `Network`**. Weak fairness of each process's steps: the main loop, each child, forwarder, connection and
listener. None for calls, timers and the death of handlers. A sender that waits for space needs no strong
fairness, since in `network` a shared queue never fills (`QueuesKeepTheirPlaces`, two hosts and one expired session are
fewer than four), and what blocks in `full_queue` blocks for ever.

**Fairness of `Middleware`**. Weak fairness of the handler's send, the forwarding, mom's child, each listener, each polling
thread while the client lives, and the client's `Receive`. None for the customers.

**Fairness of `Session`**. Weak fairness of each process's steps, of time and of a living
client's `TakeAnswer`. Strong fairness of `semaphore_wait`: a timer leaves the semaphore alone for
two seconds after each poll, so a process that waits for it gets it; weak fairness
would allow it to lose every race. Nobody has to call.

**Fairness of `BoxOffice`** (`FairSpec`). Weak fairness of each handler's steps (an operating system process
that can run is scheduled), of the listener's `Receive` and the cinema's
`Register` (blocking reads of a queue that has the message), and of `Timeout`
(the timer polls every two seconds and its session is inactive as long as the
listener stays `open`). No fairness for anything a customer does.
No strong fairness. `progress` has no refusals, and no seat beyond the room gets reserved: a
handler that dies leaves its listener waiting for ever, which is a known
consequence of the faults above and not of scheduling.

## 5. Findings

1. `wrong_room`: going back from a room leaves the customer registered in it
   (no message is sent, client.cpp:548-549), so after entering another room the
   customer has two rows, and the handler of a reservation takes the first. The
   seat may be reserved in the wrong room. The payment then names the room
   on the screen, its UPDATE matches no row and succeeds, and the customer is
   told the purchase is done.
2. `lost_update`: the seats handler reads first and registers the viewer
   afterwards; a reservation between the two is never shown to that customer.
3. `shared_slot`: timestamps are kept in slot `id % 100`, and ids grow with every
   customer ever registered, so two connected customers may share one. Customer 1 is silent; its timer reads the slot, and then the
   listener of customer 101 (3 in the run) stamps it anew. Finding that the time of customer 1 is over, its timer sends the EXIT and writes
   CONNECTION_TIMEDOUT (-1) over that stamp; the timer of customer 101 reads -1 as decades of inactivity and ends a session
   whose customer was silent for less than the limit. (The TIMER_CLOSE a leaving customer stores, -134, does the same
   in a longer trace: cinema.cpp:103 compares the clock with it and not the slot, which never holds.)
4. `full_queue`: a session that ends by inactivity is answered with an EXIT in the queue of answers, where it
   stays until its customer calls again. Customers who never do fill the queue that all share; then
   `send_confirmation` blocks, and with it the registration of every later customer.
5. `leaked_listener`: the arguments of `kill` are swapped (mom.cpp:151), so the listener of an earlier visit goes on
   beside the new one. Each takes updates from the same queue; the older may write last, and the
   slot goes back to older seats. The leak has a good side too: customers who left stay in Clients_rooms,
   and if their listeners did stop, the activity queue would fill and block the handlers of others
   (the mutant `FinishAndKill` violates `HandlersGetThrough`).

Consequences met on the way, without a run of their own:

* A failed UPDATE of a payment prepares an error answer (admin.cpp:31-32) that lines 36-37 overwrite with
  SUCCESS: with one refusal allowed, `PurchaseIsEffective` fails in one room too. `UnpaidByTheUpdate` says that nothing else does this.
* A refused DELETE of an EXIT is ignored (admin.cpp:42): the seats stay reserved for a customer who is gone until the next start.
  `StrandedByTheDelete` says that no other refusal does this.
* A handler reads the reservations (admin.cpp:115) and sends them to the viewers later (131). Another one may insert, read and send
  in between; a third customer then gets the older picture last, in which a reserved seat is free. `ViewersSeeReservations` is
  checked with two customers, where this cannot happen.
* The misspelt pragma leaves seat numbers unchecked (db_api.cpp:37, 54): a seat that does not exist can be reserved and paid, and
  every later reader of the room writes outside of a vector (admin.cpp:84, 118). `refusals` has such seats.
* The timer sends its EXIT before it marks the slot. The listener may be through with the EXIT, kill the timer and
  find no mark, or the mark can be overwritten between `Check` and `Touch`; the customer's last
  call then stays in the queue all customers share (cinema.cpp:162 says it is received). `LateCallIsTheLast` is about the
  listener that does find the mark.
* With a shared slot the calls of one customer stamp the slot that the timer of a killed one polls (cinema.cpp:148), and keep
  that session alive; `AbandonedSessionsEnd` is about a slot of one's own.
* A refused INSERT into Users is answered with CONNECTION_ACCEPTED and id 0, so that the check in cinema.cpp:57 cannot fire.
* A refused seat arrives as success 16777216, which `reserve_seat` reads correctly as not SUCCESS. A refused payment
  would read as paid, and refused seats (m4) as granted; the admin answers neither with NOT_SUCCESS, so `VerdictsArrive` holds.
* A polling thread that is cancelled in its critical section goes on to the callback and finds its data nulled: the client
  crashes (client_interface.cpp:164, 209). The same after a payment of an ended session, when the menu leads to
  `get_rooms` without a connection (232).
* Where `pthread_cancel` of an ended thread reports success, the second visit's data are nulled before its thread
  starts (client_interface.cpp:217), and that visit gets no news.
* A refresh copies the seats and then resets the flag (client.cpp:557-558), while the callback of the polling thread
  writes both. What it writes in between is taken back: the next refresh says "No update".
* A new segment is zero, and zero is SUCCESS: a first poll may find an update without seats. The first step of the
  listener of a later visit may wipe a real one (mom.cpp:119).

## 6. What is proved

Every safety property that a passing run checks is also a theorem. The theorems about `BoxOffice`
hold for every `SeatCount`, every number of
customers, every input, and any number of refusals, restarts and kills; those about
`Session` for any customers, slots and time limit; those about `Network` for any clients, hosts,
habits and capacity, either byte order and any number of expired timers and dead handlers; those about
`Middleware` for any rooms, capacity of the queues, number of reservations and visits. They use the
named assumptions of the modules: rooms and seat counts are positive naturals, the bounds naturals,
the inputs integers, ids naturals, at least one slot, queues that take at least one message, and what
section 2 says of the ids in `Network`.

Three theorems have a hypothesis of their own, and a run shows that it is needed. `PurchaseIsEffectiveInOneRoom`
asks for one room and no refused statement (`SingleRoom`, `busyCount = 0`): `wrong_room` is the counterexample with two
rooms, and with a refusal the code overwrites the error (section 5). `UnpaidByTheUpdateHolds` asks for one room, for the same reason. `OnlyTheSilentExpireHolds` asks that
no two customers share a slot (`OwnSlots`): `shared_slot` is the counterexample with two that do.
`ViewersAreRegistered` and `NoStrandedHold` have `busyCount = 0` in their statement; `StrandedByTheDelete` has not.

| Theorem | Module | States |
|---|---|---|
| `TypeCorrect` | `BoxOfficeProofs` | `Spec => []TypeOK` |
| `NoDoubleBookingHolds` | `BoxOfficeProofs` | `Spec => []NoDoubleBooking` |
| `PaidIsFinalHolds` | `BoxOfficeProofs` | `Spec => PaidIsFinal` |
| `OneAnswerPerRequestHolds` | `ProtocolProofs` | `Spec => []OneAnswerPerRequest` |
| `NoStrandedHoldHolds` | `ProtocolProofs` | `Spec => []NoStrandedHold` |
| `StrandedByTheDeleteHolds` | `ProtocolProofs` | `Spec => StrandedByTheDelete` |
| `OnlyTheCartIsPaidHolds` | `CartProofs` | `Spec => []OnlyTheCartIsPaid` |
| `ViewersAreRegisteredHolds` | `CartProofs` | `Spec => []ViewersAreRegistered` |
| `CartCountsReservationsHolds` | `CartProofs` | `Spec => []CartCountsReservations` |
| `PurchaseIsEffectiveInOneRoom` | `CartProofs` | `Spec => [](busyCount = 0 => PurchaseIsEffective)`, if there is one room |
| `UnpaidByTheUpdateHolds` | `CartProofs` | `Spec => UnpaidByTheUpdate`, if there is one room |
| `BookingImplemented` | `RefinementProofs` | `Spec => ImplementsBooking` |
| `TypeCorrect` | `SessionProofs` | `Spec => []TypeOK` |
| `LockIsHeldByTheLivingHolds` | `SessionProofs` | `Spec => []LockIsHeldByTheLiving` |
| `ServiceImplemented` | `SessionProofs` | `Spec => Service!Spec` |
| `AnswersMatchCallsHolds` | `SessionProofs` | `Spec => []AnswersMatchCalls` |
| `BacklogIsBoundedHolds` | `SessionProofs` | `Spec => []BacklogIsBounded` |
| `LateCallIsTheLastHolds` | `SessionProofs` | `Spec => LateCallIsTheLast` |
| `OnlyTheSilentExpireHolds` | `SessionProofs` | `SilenceSpec => OnlyTheSilentExpire`, if nobody shares a slot |
| `TypeCorrect` | `NetworkProofs` | `Spec => []TypeOK` |
| `AnswersReachTheirCallerHolds` | `NetworkProofs` | `Spec => []AnswersReachTheirCaller` |
| `VerdictsArriveHolds` | `NetworkProofs` | `Spec => []VerdictsArrive` |
| `QueuesKeepTheirPlacesHolds` | `NetworkProofs` | `Spec => []QueuesKeepTheirPlaces` |
| `TypeCorrect` | `MiddlewareProofs` | `Spec => []TypeOK` |
| `PollingBelongsToTheVisitHolds` | `MiddlewareProofs` | `Spec => []PollingBelongsToTheVisit` |
| `EachUpdateInOnePlaceHolds` | `UpdateProofs` | `Spec => []EachUpdateInOnePlace` |
| `NewsComeInOrderHolds` | `UpdateProofs` | `Spec => NewsComeInOrder` |

The argument, in layers:

1. *Types.* `TypeOK` is not inductive: a handler that reads a room to write a
   reservation must know that this room exists. `TypeInv` adds `RegistrationBounded`
   (the registration under way still has an id to give) and `RoomKnown` (a
   handler that is past the choice of its room names one that exists).
2. *The tables.* Lemma by lemma, what each SQL statement may do to Reservations.
   Every step of the system then leaves it unchanged or is an insert, a payment, a
   release or a cleaning (`ReservationStep`). `NoDoubleBooking` and
   `PaidIsFinal` are proved once for these cases, not once per action.
3. *The protocol.* `HandlerStep`, `Follows` and `Answers` describe a handler's
   control flow: which statement follows which, and that exactly the last
   one answers. `ProtocolInv` says of each customer that session, handler, answer
   queue and client are `InStep` (a waiting session is `Served` or `Told`, one at rest has nothing
   under way), and the same for the registration. It implies
   the protocol properties. What strands a seat is one lemma (`StrandingStep`), from which both theorems about it follow.
4. *The cart.* A step is first reduced to what one customer sees of it: a step of its handler (`Begins`, `Enters`,
   `Reserves`, `PaysOne`, ...), a move of its own (`Asks`, `GoesBack`, `Receives`, ...), a restart, or none of its
   business. On these, `CartInv` says that what is paid, and what a payment still has to pay, is in the
   cart, which only grows; `CallInv` that what is asked, handled and answered belong to one call; `ViewInv` that the customer is registered
   from the handler's insert until the handler of a reservation takes the visit away; and `CountInv` counts rows against seats in the
   cart, where an insert adds one because the key was free and a payment none, because two rows never differ
   in the flag alone. `PurchaseInv` adds, for one room, that every seat of the cart has its row, and that each is paid or
   still in the list of the payment under way; the one step that breaks this is the refused UPDATE (`PaidStep`).
5. *The refinement.* Under the mapping (unpaid rows are `held`, paid rows `sold`,
   closed sessions `left`) each table change of layer 2 is a step of `SeatBooking`.
   A reservation by a customer who already left would not be; layer 3 excludes it,
   since a session with a handler at work is `waiting`.
6. *The session.* `LockIsHeldByTheLiving` is inductive once types are known: whoever holds
   the semaphore is at a critical statement, and every way past that statement releases
   it, the kill included. `ServiceImplemented` maps each
   statement of the listener to a step or a stutter of `ListenerService`.
   `AnswersMatchCalls` and `BacklogIsBounded` are sums: `SessionInv` counts calls and EXITs in the two queues and in
   the hands of the two processes (`Places`, `Sums`; `Room` once the session has ended), so that each step moves one unit from
   one term to another. Counting in a sequence is by the cardinality of a set of positions, as a recursive
   count is out of the prover's reach. `LateCallIsTheLast` follows from
   `Room`, which leaves one place in all for messages, calls and EXITs that are still to come. For `OnlyTheSilentExpire`, `SilenceInv` says that as long as a timer runs, the age of the
   slot is the silence of its customer (`Clock`), because no process of anybody else writes that slot, and its own listener marks it only after
   it killed the timer (`KilledFirst`).
7. *The network.* A forwarder is serial, so a host has at most one call in the cinema: it goes up, is held by the
   connection, or its answer comes down (`Wires`); the other calls of the host wait in its queue, one per client (`Calls`). That is
   not enough, since timers and ended sessions leave messages under the same types in the shared queues. `Session` (in
   `Sessions`) says what they can be: while the session is on, the call of the client that is waited for, the timer's one EXIT and the
   answer to that call; afterwards the listener's EXIT as the last answer, and one call more that nobody will answer. So
   what a connection finds under a type is an answer to its client's call or the EXIT (`Good`), and none of it is for
   a call that will come later (`Open`, `Ready`). `Registration` and `Confirmed` say the same of the connection requests and
   tokens. TLC checked this invariant on two instances before it was proved. Byte order enters by `SwapTwice` (a
   word reversed twice is the word) and `SuccessOrder`; it is why ids must fit a word. `QueuesKeepTheirPlaces` follows by
   two injections: places of a queue into hosts, since a connection waits for one client at a time, and the other
   places into the customers whose timer expired.
8. *The middleware.* That mom never forks more listeners than the client has visits is not visible in the
   types alone: `TypeInv` adds that an answer fits the call it answers (`AnswerFits`) and that listeners forked, or about to be,
   are at most the visits made, or about to be answered (`ForksFollowVisits`). `PollInv` then says of the threads that
   those of earlier visits are cancelled or over, those of later ones not made, and the last one has its data or is
   cancelled too (`ThreadsFollowVisits`); that it is settled while the client asks for rooms or seats or leaves; and that
   `update_args` is there from the question for seats until the menu leaves the room. At most one thread remains that polls. `EachUpdateInOnePlace` is proved
   over kinds of places (`Lies`): a step moves an update from one place to the next and leaves the others alone, and an update
   that is not reserved yet is nowhere (`Counted`). For `NewsComeInOrder`, numbers only grow from the slot back through listener,
   queues and handler to the count, as long as mom never tried to stop a listener (`OrderInv`).

The proofs also changed the model in three places. The prover found that two arms of `After` (BoxOffice) were not exclusive
for a crashed client; the case is now a branch of its own. `htonl` is written with divisions by 256 in a row instead of powers of
256, the form the arithmetic lemmas need. And the width of the ids, which the byte-order lemma cannot do without, became the
assumption `WidthAssumption`.

## 7. What is only model-checked

Liveness (`HoldsAreGivenBack`, `RequestsAreAnswered`, `AbandonedSeatsAreFreed`, `CallsAreAnswered` of `Session` and of `Network`,
`GoneCustomersAreForgotten`, `AbandonedSessionsEnd`, `HandlersGetThrough`, `NewsArrive`)
needs fairness and ENABLED, which the prover does not handle. The same goes for the liveness part of `ImplementsService`, whose
safety part is proved. No safety property that holds is left to TLC alone. The runs that expect a violation are
checked by TLC only, as a counterexample needs no proof.

Not modelled: a session under id 0, which reads the first message of every shared queue; the customers of a second host as readers of
updates (they get none, since only the first mom that connects is served, admin.cpp:176); `recv` returning 0 after a connection is closed, for which
`receive_packet` spins (socket.cpp:295-304); `init_mom` and `start_mom`, which create and number things before the first call;
formatting and printing, command lines, creation of files and IPC
objects, the vendored SQLite headers, and the tests, which were read as evidence
of what is intended.

## 8. Plan

Done: all modules of section 2, the runs above, and the theorems of section 6. Next:

1. **Composition**: what `BoxOffice` takes for granted of a call (one answer, under the right type, and the end of the
   session by EXIT) stated as an abstract specification, and `Network` shown to implement it as `Session` implements `ListenerService`.
2. **Action properties of the network**: that a forwarder serves the calls of its host in the order in which they
   entered its queue, from the invariant of layer 7.
3. **A session under id 0**, which reads the first message of every shared queue.
