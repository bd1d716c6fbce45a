------------------------------ MODULE UpdateProofs ------------------------------
(***************************************************************************)
(* Theorems about the way of an update through Middleware: it is in one    *)
(* place at a time, and it is not overtaken while mom has one listener.    *)
(***************************************************************************)
EXTENDS MiddlewareProofs, SequenceTheorems

\* Updates that tell of a reservation, all but Blank
News == [room : Room, n : Nat \ {0}]

\* What is under way to the customer are updates.
LEMMA NewsAreUpdates == News \subseteq Update /\ Blank \notin News
  BY DEF News, Update, Blank

----------------------------------------------------------------------------
(* Where an update lies, one disjunct per kind of place                    *)

Only == 0   \* the index of a place for a single update

Lies(kind, i, u) ==
    \/ kind = "activity" /\ i \in DOMAIN activity /\ activity[i] = u
    \/ kind = "inbox" /\ i \in DOMAIN inbox /\ inbox[i] = u
    \/ kind = "listener" /\ i \in Visit /\ listener[i].update = u
    \/ kind = "thread" /\ i \in Visit /\ thread[i].update = u
    \/ kind = "handler" /\ i = Only /\ handler = u
    \/ kind = "slot" /\ i = Only /\ slot.update = SUCCESS /\ slot.seats = u

Kind == {"activity", "inbox", "listener", "thread", "handler", "slot"}

OnePlace(u) ==
    \A k, l \in Kind, i, j \in Nat :
        Lies(k, i, u) /\ Lies(l, j, u) => k = l /\ i = j

\* No update is on its way before its reservation was counted.
Counted(u) == \A k \in Kind, i \in Nat : Lies(k, i, u) => u.n <= count

PlaceInv == \A u \in News : OnePlace(u) /\ Counted(u)

LEMMA PlacesLie ==
  ASSUME TypeOK, NEW u, NEW p \in Places(u)
  PROVE  \E k \in Kind, i \in Nat : p = <<k, i>> /\ Lies(k, i, u)
<1>1. /\ activity \in Seq(Update) /\ inbox \in Seq(Update)
      /\ DOMAIN activity \subseteq Nat /\ DOMAIN inbox \subseteq Nat /\ Visit \subseteq Nat
  BY LenProperties DEF TypeOK, Visit
<1>2. CASE \E i \in DOMAIN activity : activity[i] = u /\ p = <<"activity", i>>
  BY <1>1, <1>2 DEF Lies, Kind
<1>3. CASE \E i \in DOMAIN inbox : inbox[i] = u /\ p = <<"inbox", i>>
  BY <1>1, <1>3 DEF Lies, Kind
<1>4. CASE \E v \in Visit : listener[v].update = u /\ p = <<"listener", v>>
  BY <1>1, <1>4 DEF Lies, Kind
<1>5. CASE \E v \in Visit : thread[v].update = u /\ p = <<"thread", v>>
  BY <1>1, <1>5 DEF Lies, Kind
<1>6. CASE handler = u /\ p = <<"handler", 0>>
  BY <1>6 DEF Lies, Kind, Only
<1>7. CASE slot.update = SUCCESS /\ slot.seats = u /\ p = <<"slot", 0>>
  BY <1>7 DEF Lies, Kind, Only
<1> QED BY <1>2, <1>3, <1>4, <1>5, <1>6, <1>7 DEF Places

\* The strengthened invariant gives the property.
LEMMA PlaceImplies == TypeOK /\ PlaceInv => EachUpdateInOnePlace
<1> SUFFICES ASSUME TypeOK, PlaceInv, NEW r \in Room, NEW n \in 1..count
             PROVE  Cardinality(Places([room |-> r, n |-> n])) <= 1
  BY DEF EachUpdateInOnePlace
<1> DEFINE u == [room |-> r, n |-> n]
<1>1. u \in News
  BY DEF News, TypeOK
<1>2. OnePlace(u)
  BY <1>1 DEF PlaceInv
<1> HIDE DEF u
<1>3. \A p, q \in Places(u) : p = q
  BY <1>2, PlacesLie DEF OnePlace
<1>4. Places(u) = {} \/ \E p : Places(u) = {p}
  BY <1>3
<1>5. Cardinality(Places(u)) <= 1
  <2>1. CASE Places(u) = {}
    BY <2>1, FS_EmptySet
  <2>2. ASSUME NEW p, Places(u) = {p} PROVE Cardinality(Places(u)) <= 1
    <3>1. Cardinality({p}) = 1
      BY FS_Singleton
    <3> QED BY <2>2, <3>1
  <2> QED BY <1>4, <2>1, <2>2
<1> QED BY <1>5 DEF u

----------------------------------------------------------------------------
(* Three things a step may do with an update                               *)

\* It stays where it is, or is gone.
LEMMA Stays ==
  ASSUME NEW u, OnePlace(u), Counted(u), count' = count,
         \A k \in Kind, i \in Nat : Lies(k, i, u)' => Lies(k, i, u)
  PROVE  OnePlace(u)' /\ Counted(u)'
  BY DEF OnePlace, Counted

\* It goes from one place to another.
LEMMA Handed ==
  ASSUME NEW u, OnePlace(u), Counted(u), count' = count,
         NEW from \in Kind, NEW m \in Nat, NEW to \in Kind, NEW n \in Nat,
         \A k \in Kind, i \in Nat : Lies(k, i, u)' =>
             \/ Lies(k, i, u) /\ (k # from \/ i # m)
             \/ k = to /\ i = n /\ Lies(from, m, u)
  PROVE  OnePlace(u)' /\ Counted(u)'
<1>1. OnePlace(u)'
  BY DEF OnePlace
<1>2. Counted(u)'
  BY DEF Counted
<1> QED BY <1>1, <1>2

\* It moves up in its queue, or from the head of the queue to another place.
LEMMA Dequeued ==
  ASSUME NEW u, OnePlace(u), Counted(u), count' = count,
         NEW queue \in Kind, NEW to \in Kind, NEW n \in Nat,
         \A k \in Kind, i \in Nat : Lies(k, i, u)' =>
             \/ k = queue /\ i >= 1 /\ Lies(queue, i + 1, u)
             \/ k # queue /\ Lies(k, i, u)
             \/ k = to /\ i = n /\ Lies(queue, 1, u)
  PROVE  OnePlace(u)' /\ Counted(u)'
<1>1. \A i \in Nat : i + 1 \in Nat /\ 1 \in Nat
  OBVIOUS
<1>2. OnePlace(u)'
  <2> SUFFICES ASSUME NEW k \in Kind, NEW l \in Kind, NEW i \in Nat, NEW j \in Nat,
                      Lies(k, i, u)', Lies(l, j, u)'
               PROVE  k = l /\ i = j
    BY DEF OnePlace
  <2>1. CASE k = queue /\ i >= 1 /\ Lies(queue, i + 1, u)
    BY <1>1, <2>1 DEF OnePlace
  <2>2. CASE k # queue /\ Lies(k, i, u)
    BY <1>1, <2>2 DEF OnePlace
  <2>3. CASE k = to /\ i = n /\ Lies(queue, 1, u)
    BY <1>1, <2>3 DEF OnePlace
  <2> QED BY <2>1, <2>2, <2>3
<1>3. Counted(u)'
  BY <1>1 DEF Counted
<1> QED BY <1>2, <1>3

----------------------------------------------------------------------------
\* Nothing is under way at the start.
LEMMA PlaceInit == Init => PlaceInv
<1> SUFFICES ASSUME Init, NEW u \in News PROVE \A k \in Kind, i \in Nat : ~Lies(k, i, u)
  BY DEF PlaceInv, OnePlace, Counted
<1> QED BY NewsAreUpdates DEF Init, Lies, NoThread, Thread

\* The handlers and the forwarders hand an update on.
LEMMA PlaceAdmin ==
  ASSUME TypeOK, PlaceInv, NEW u \in News, AdminStep \/ \E r \in Room : Reserve(r)
  PROVE  OnePlace(u)' /\ Counted(u)'
<1>0. OnePlace(u) /\ Counted(u)
  BY DEF PlaceInv
<1> USE DEF momVars, clientVars
<1>1. ASSUME NEW r \in Room, Reserve(r) PROVE OnePlace(u)' /\ Counted(u)'
  <2>1. CASE u.n <= count
    <3>1. handler' # u /\ count' = count + 1 /\ count \in Nat /\ u.n \in Nat
      BY <1>1, <2>1, NewsAreUpdates DEF Reserve, TypeOK, News
    <3>2. \A k \in Kind, i \in Nat : Lies(k, i, u)' => Lies(k, i, u)
      BY <1>1, <3>1 DEF Reserve, Lies
    <3> QED BY <1>0, <2>1, <3>1, <3>2 DEF OnePlace, Counted
  <2>2. CASE ~(u.n <= count)
    <3>1. \A k \in Kind, i \in Nat : ~Lies(k, i, u)
      BY <1>0, <2>2 DEF Counted
    <3>2. \A k \in Kind, i \in Nat : Lies(k, i, u)' => k = "handler" /\ i = Only /\ handler' = u
      BY <1>1, <3>1 DEF Reserve, Lies, Kind
    <3>3. handler' = u => u.n <= count'
      BY <1>1, NewsAreUpdates DEF Reserve, TypeOK
    <3> QED BY <3>2, <3>3 DEF OnePlace, Counted
  <2> QED BY <2>1, <2>2
<1>2. CASE Notify
  <2>1. activity \in Seq(Update) /\ handler \in Update /\ activity' = Append(activity, handler)
        /\ handler' = Blank /\ count' = count
        /\ UNCHANGED <<momVars, slot, thread>>
    BY <1>2 DEF Notify, TypeOK
  <2>2. /\ Len(activity) \in Nat /\ DOMAIN activity = 1 .. Len(activity)
        /\ DOMAIN activity' = 1 .. Len(activity) + 1
        /\ activity'[Len(activity) + 1] = handler
        /\ \A i \in DOMAIN activity : activity'[i] = activity[i]
    BY <2>1, AppendProperties, LenProperties
  <2>3. handler' # u
    BY <2>1, NewsAreUpdates
  <2>4. \A k \in Kind, i \in Nat : Lies(k, i, u)' =>
             \/ Lies(k, i, u) /\ (k # "handler" \/ i # Only)
             \/ k = "activity" /\ i = Len(activity) + 1 /\ Lies("handler", Only, u)
    BY <2>1, <2>2, <2>3 DEF Lies
  <2>5. "handler" \in Kind /\ "activity" \in Kind /\ Len(activity) + 1 \in Nat /\ Only \in Nat
    BY <2>2 DEF Kind, Only
  <2>6. count' = count /\ OnePlace(u) /\ Counted(u)
    BY <1>0, <2>1
  <2> DEFINE n == Len(activity) + 1
  <2> HIDE DEF n
  <2>7. \A k \in Kind, i \in Nat : Lies(k, i, u)' =>
             \/ Lies(k, i, u) /\ (k # "handler" \/ i # Only)
             \/ k = "activity" /\ i = n /\ Lies("handler", Only, u)
    BY <2>4 DEF n
  <2>8. n \in Nat /\ "handler" \in Kind /\ "activity" \in Kind /\ Only \in Nat
    BY <2>5 DEF n
  <2> QED BY <2>6, <2>7, <2>8, Handed
<1>3. CASE ForwardUpdate
  <2>1. /\ activity \in Seq(Update) /\ activity # <<>> /\ activity' = Tail(activity)
        /\ inbox \in Seq(Update) /\ inbox' = Append(inbox, Head(activity))
        /\ UNCHANGED <<count, handler, child, listener, slot, thread>>
    BY <1>3 DEF ForwardUpdate, TypeOK
  <2>2. /\ Len(activity) \in Nat \ {0} /\ DOMAIN activity = 1 .. Len(activity)
        /\ Head(activity) = activity[1] /\ Head(activity) \in Update
        /\ DOMAIN activity' = 1 .. Len(activity) - 1
        /\ \A i \in 1 .. Len(activity) - 1 : activity'[i] = activity[i + 1]
    BY <2>1, EmptySeq, LenProperties, HeadTailProperties
  <2>3. /\ Len(inbox) \in Nat /\ DOMAIN inbox = 1 .. Len(inbox)
        /\ DOMAIN inbox' = 1 .. Len(inbox) + 1
        /\ inbox'[Len(inbox) + 1] = Head(activity)
        /\ \A i \in DOMAIN inbox : inbox'[i] = inbox[i]
    BY <2>1, <2>2, AppendProperties, LenProperties
  <2>4. \A k \in Kind, i \in Nat : Lies(k, i, u)' =>
             \/ k = "activity" /\ i >= 1 /\ Lies("activity", i + 1, u)
             \/ k # "activity" /\ Lies(k, i, u)
             \/ k = "inbox" /\ i = Len(inbox) + 1 /\ Lies("activity", 1, u)
    BY <2>1, <2>2, <2>3 DEF Lies
  <2>5. "inbox" \in Kind /\ "activity" \in Kind /\ Len(inbox) + 1 \in Nat
    BY <2>3 DEF Kind
  <2> QED BY <1>0, <2>1, <2>4, <2>5, Dequeued
<1> QED BY <1>1, <1>2, <1>3 DEF AdminStep

\* A listener moves an update from the queue to its hand and to the slot.
LEMMA PlaceListener ==
  ASSUME TypeOK, PlaceInv, NEW u \in News, NEW v \in Visit, ListenerStep(v)
  PROVE  OnePlace(u)' /\ Counted(u)'
<1>0. OnePlace(u) /\ Counted(u) /\ listener \in [Visit -> ListenerSet] /\ v \in Nat /\ u # Blank
  BY NewsAreUpdates DEF PlaceInv, TypeOK, ListenerSet, Visit
<1> USE DEF adminVars, clientVars
<1>1. CASE Reset(v)
  <2>1. \A w \in Visit : listener'[w].update = listener[w].update
    BY <1>0, <1>1 DEF Reset, ListenerSet
  <2>2. slot'.update # SUCCESS /\ UNCHANGED <<count, handler, activity, inbox, thread>>
    BY <1>1 DEF Reset, SUCCESS, NOT_SUCCESS
  <2>3. \A k \in Kind, i \in Nat : Lies(k, i, u)' => Lies(k, i, u)
    BY <2>1, <2>2 DEF Lies
  <2> QED BY <1>0, <2>2, <2>3, Stays
<1>2. CASE TakeUpdate(v)
  <2>1. /\ inbox \in Seq(Update) /\ inbox # <<>> /\ inbox' = Tail(inbox)
        /\ listener' = [listener EXCEPT ![v] = [at |-> "write", update |-> Head(inbox)]]
        /\ UNCHANGED <<count, handler, activity, slot, thread>>
    BY <1>2 DEF TakeUpdate, TypeOK
  <2>2. /\ Len(inbox) \in Nat \ {0} /\ DOMAIN inbox = 1 .. Len(inbox)
        /\ Head(inbox) = inbox[1]
        /\ DOMAIN inbox' = 1 .. Len(inbox) - 1
        /\ \A i \in 1 .. Len(inbox) - 1 : inbox'[i] = inbox[i + 1]
    BY <2>1, EmptySeq, LenProperties, HeadTailProperties
  <2>3. /\ listener'[v].update = Head(inbox)
        /\ \A w \in Visit \ {v} : listener'[w].update = listener[w].update
    BY <1>0, <2>1
  <2>4. \A k \in Kind, i \in Nat : Lies(k, i, u)' =>
             \/ k = "inbox" /\ i >= 1 /\ Lies("inbox", i + 1, u)
             \/ k # "inbox" /\ Lies(k, i, u)
             \/ k = "listener" /\ i = v /\ Lies("inbox", 1, u)
    BY <2>1, <2>2, <2>3 DEF Lies
  <2>5. "inbox" \in Kind /\ "listener" \in Kind
    BY DEF Kind
  <2> QED BY <1>0, <2>1, <2>4, <2>5, Dequeued
<1>3. CASE flag_update_write(v)
  <2>1. /\ slot'.seats = listener[v].update /\ listener'[v].update = Blank
        /\ \A w \in Visit \ {v} : listener'[w].update = listener[w].update
        /\ UNCHANGED <<count, handler, activity, inbox, thread>>
    BY <1>0, <1>3 DEF flag_update_write
  <2>2. \A k \in Kind, i \in Nat : Lies(k, i, u)' =>
             \/ Lies(k, i, u) /\ (k # "listener" \/ i # v)
             \/ k = "slot" /\ i = Only /\ Lies("listener", v, u)
    BY <1>0, <2>1 DEF Lies
  <2>3. "slot" \in Kind /\ "listener" \in Kind /\ Only \in Nat
    BY DEF Kind, Only
  <2>4. v \in Nat /\ count' = count /\ OnePlace(u) /\ Counted(u)
    BY <1>0, <2>1
  <2> QED BY <2>2, <2>3, <2>4, Handed
<1> QED BY <1>1, <1>2, <1>3 DEF ListenerStep


\* A thread takes the slot's update; every other step of a thread leaves the
\* updates where they are or drops one.
LEMMA PlaceThread ==
  ASSUME TypeOK, PlaceInv, NEW u \in News, NEW v \in Visit, ThreadStep(v)
  PROVE  OnePlace(u)' /\ Counted(u)'
<1>0. OnePlace(u) /\ Counted(u) /\ thread \in [Visit -> ThreadSet] /\ v \in Nat /\ u # Blank
  BY NewsAreUpdates DEF PlaceInv, TypeOK, ThreadSet, Visit
<1> USE DEF adminVars, momVars, clientVars
<1>1. ASSUME \A w \in Visit : thread'[w].update \in {thread[w].update, Blank},
             UNCHANGED <<count, handler, activity, inbox, listener>>,
             slot'.update = SUCCESS => slot'.seats = slot.seats /\ slot.update = SUCCESS
      PROVE  OnePlace(u)' /\ Counted(u)'
  <2>1. \A k \in Kind, i \in Nat : Lies(k, i, u)' => Lies(k, i, u)
    BY <1>0, <1>1 DEF Lies
  <2> QED BY <1>0, <1>1, <2>1, Stays
<1>2. CASE TakeSlot(v)
  <2>1. CASE slot.update = SUCCESS
    <3>1. /\ thread'[v].update = slot.seats /\ slot'.update # SUCCESS
          /\ \A w \in Visit \ {v} : thread'[w].update = thread[w].update
          /\ UNCHANGED <<count, handler, activity, inbox, listener>>
      BY <1>0, <1>2, <2>1 DEF TakeSlot, ThreadSet, SUCCESS, NOT_SUCCESS, TypeOK
    <3>2. \A k \in Kind, i \in Nat : Lies(k, i, u)' =>
               \/ Lies(k, i, u) /\ (k # "slot" \/ i # Only)
               \/ k = "thread" /\ i = v /\ Lies("slot", Only, u)
      BY <1>0, <2>1, <3>1 DEF Lies
    <3>3. "slot" \in Kind /\ "thread" \in Kind /\ Only \in Nat
      BY DEF Kind, Only
    <3>4. v \in Nat /\ count' = count /\ OnePlace(u) /\ Counted(u)
      BY <1>0, <3>1
    <3> QED BY <3>2, <3>3, <3>4, Handed
  <2>2. CASE slot.update # SUCCESS
    <3>1. /\ \A w \in Visit : thread'[w].update = thread[w].update
          /\ slot'.update # SUCCESS
          /\ UNCHANGED <<count, handler, activity, inbox, listener>>
      BY <1>0, <1>2, <2>2 DEF TakeSlot, ThreadSet, SUCCESS, NOT_SUCCESS, TypeOK
    <3> QED BY <3>1, <1>1
  <2> QED BY <2>1, <2>2
<1>3. CASE BeginThread(v) \/ Sleep(v) \/ Wake(v) \/ on_update(v)
  <2>1. UNCHANGED <<count, handler, activity, inbox, listener, slot>>
    BY <1>3 DEF BeginThread, Sleep, Wake, on_update
  <2>2. \A w \in Visit : thread'[w].update \in {thread[w].update, Blank}
    BY <1>0, <1>3 DEF BeginThread, Sleep, Wake, on_update, End, NoThread, Thread, ThreadSet
  <2> QED BY <2>1, <2>2, <1>1
<1> QED BY <1>2, <1>3 DEF ThreadStep

\* The customer, its child and its answers move no update.
LEMMA PlaceCustomer ==
  ASSUME TypeOK, PlaceInv, NEW u \in News,
         ChildStep \/ CustomerStep \/ Receive \/ Refresh \/ UNCHANGED vars
  PROVE  OnePlace(u)' /\ Counted(u)'
<1>0. /\ OnePlace(u) /\ Counted(u) /\ u # Blank
      /\ thread \in [Visit -> ThreadSet] /\ listener \in [Visit -> ListenerSet]
      /\ client \in ClientSet
  BY NewsAreUpdates DEF PlaceInv, TypeOK, ThreadSet, ListenerSet, ClientSet
<1> USE DEF adminVars, momVars, clientVars
<1>1. UNCHANGED <<count, handler, activity, inbox, slot>>
  BY DEF ChildStep, fork_client, start_async_seat_listener, finish_async_seat_listener,
         CustomerStep, get_rooms, get_seats, reserve_seat, pay_seats, end_mom, GoBack,
         Receive, Refresh, vars
<1>2. \A w \in Visit : listener'[w].update = listener[w].update
  <2>1. CASE ChildStep
    BY <1>0, <2>1 DEF ChildStep, fork_client, start_async_seat_listener,
                      finish_async_seat_listener, ListenerSet
  <2>2. CASE CustomerStep \/ Receive \/ Refresh \/ UNCHANGED vars
    BY <2>2 DEF CustomerStep, get_rooms, get_seats, reserve_seat, pay_seats, end_mom, GoBack,
                Receive, Refresh, vars
  <2> QED BY <2>1, <2>2
<1>3. \A w \in Visit : CancelledThreads[w].update = thread[w].update
  BY <1>0 DEF CancelledThreads, ThreadSet
<1>4. CancelledThreads \in [Visit -> ThreadSet]
  BY <1>0, CancelledType DEF ClientSet
<1>5. \A w \in Visit : thread'[w].update \in {thread[w].update, Blank}
  <2>1. CASE UNCHANGED thread
    BY <2>1
  <2>2. CASE \E at \in {"gone", "crashed"} : End(at)
    BY <2>2 DEF End, NoThread, Thread
  <2>3. CASE \E c : _end_listener_thread(c)
    BY <2>3, <1>3 DEF _end_listener_thread
  <2>4. CASE _start_listener_thread(At("seats"))
    <3>1. thread' = [CancelledThreads EXCEPT ![At("seats").listener_thread + 1].at = "begin"]
      BY <2>4 DEF _start_listener_thread
    <3>2. \A w \in Visit : thread'[w].update = CancelledThreads[w].update
      BY <3>1, <1>4 DEF ThreadSet
    <3> QED BY <3>2, <1>3
  <2> QED
    BY <2>1, <2>2, <2>3, <2>4
    DEF ChildStep, fork_client, start_async_seat_listener, finish_async_seat_listener,
        CustomerStep, get_rooms, get_seats, reserve_seat, pay_seats, end_mom, GoBack,
        Receive, Answered, Closed, Refresh, vars
<1>6. \A k \in Kind, i \in Nat : Lies(k, i, u)' => Lies(k, i, u)
  BY <1>0, <1>1, <1>2, <1>5 DEF Lies
<1> QED BY <1>0, <1>1, <1>6, Stays

\* Every step keeps each update in one place.
LEMMA PlaceStep == TypeOK /\ PlaceInv /\ [Next]_vars => PlaceInv'
<1> SUFFICES ASSUME TypeOK, PlaceInv, [Next]_vars, NEW u \in News
             PROVE  OnePlace(u)' /\ Counted(u)'
  BY DEF PlaceInv
<1> QED BY PlaceAdmin, PlaceListener, PlaceThread, PlaceCustomer DEF Next

\* Listeners are never stopped and cancelled threads go on (mom.cpp:151,
\* client_interface.cpp:197-201), so several processes take from the same queue and
\* several threads from the same slot: still an update never is in two places, whatever
\* the capacity of the queues and the number of visits and reservations.
THEOREM EachUpdateInOnePlaceHolds == Spec => []EachUpdateInOnePlace
<1>1. Spec => []PlaceInv
  BY PlaceInit, PlaceStep, TypeCorrect, PTL DEF Spec
<1> QED BY <1>1, PlaceImplies, TypeCorrect, PTL


----------------------------------------------------------------------------
(* The order of updates.  The queues keep it; it is lost only where two    *)
(* listeners write to the slot, and there is a second one only after mom   *)
(* has tried to stop the first.                                            *)

Ascending(queue) == \A i, j \in DOMAIN queue : i < j => queue[i].n < queue[j].n

\* All that is still on its way to the listeners is newer than n.
Passed(n) ==
    /\ n <= count
    /\ \A i \in DOMAIN inbox : n < inbox[i].n
    /\ \A i \in DOMAIN activity : n < activity[i].n
    /\ handler # Blank => n < handler.n

QueuesInOrder ==
    /\ Ascending(inbox)
    /\ Ascending(activity)
    /\ \A i \in DOMAIN inbox : inbox[i].n <= count
    /\ \A i \in DOMAIN activity : activity[i].n <= count
    /\ \A i \in DOMAIN inbox, j \in DOMAIN activity : inbox[i].n < activity[j].n
    /\ handler # Blank => /\ \A i \in DOMAIN inbox : inbox[i].n < handler.n
                          /\ \A i \in DOMAIN activity : activity[i].n < handler.n
                          /\ handler.n <= count

ListenersInOrder ==
    /\ Passed(0)
    /\ Passed(slot.seats.n)
    /\ \A v \in Visit : listener[v].at = "write" =>
          Passed(listener[v].update.n) /\ 0 < listener[v].update.n

OneListener ==
    ~child.killed =>
    /\ child.forked = (IF child.listening THEN 1 ELSE 0)
    /\ \A v \in Visit : listener[v].at # "none" => v <= child.forked
    /\ \A v \in Visit : listener[v].at = "write" => slot.seats.n < listener[v].update.n

OrderInv == QueuesInOrder /\ ListenersInOrder /\ OneListener

LEMMA NumberType ==
  ASSUME TypeOK
  PROVE  /\ count \in Nat /\ handler.n \in Nat /\ slot.seats.n \in Nat /\ Blank.n = 0
         /\ \A i \in DOMAIN inbox : inbox[i].n \in Nat /\ i \in Nat
         /\ \A i \in DOMAIN activity : activity[i].n \in Nat /\ i \in Nat
         /\ \A v \in Visit : listener[v].update.n \in Nat
<1>1. /\ \A i \in DOMAIN inbox : inbox[i] \in Update /\ i \in Nat
      /\ \A i \in DOMAIN activity : activity[i] \in Update /\ i \in Nat
  BY LenProperties DEF TypeOK
<1>2. /\ handler \in Update /\ slot.seats \in Update
      /\ \A v \in Visit : listener[v].update \in Update
  BY DEF TypeOK
<1>3. \A u \in Update : u.n \in Nat
  BY DEF Update
<1> QED BY <1>1, <1>2, <1>3 DEF TypeOK, Blank

\* At the start there is nothing to be out of order.
LEMMA OrderInit == Init => OrderInv
<1> SUFFICES ASSUME Init PROVE OrderInv
  OBVIOUS
<1>1. inbox = <<>> /\ activity = <<>> /\ handler = Blank /\ count = 0 /\ slot.seats.n = 0
  BY DEF Init, Blank
<1>2. QueuesInOrder
  BY <1>1 DEF QueuesInOrder, Ascending
<1>3. ListenersInOrder
  BY <1>1 DEF ListenersInOrder, Passed, Init
<1>4. OneListener
  BY DEF OneListener, Init
<1> QED BY <1>2, <1>3, <1>4 DEF OrderInv

\* The queues of the admin and of mom
LEMMA OrderAdmin ==
  ASSUME TypeOK, TypeOK', OrderInv, AdminStep \/ \E r \in Room : Reserve(r)
  PROVE  OrderInv'
<1> USE DEF momVars, clientVars
<1>1. UNCHANGED <<child, listener, slot>> /\ (Passed(0) => OneListener')
  BY DEF AdminStep, Reserve, Notify, ForwardUpdate, OrderInv, OneListener
<1>2. /\ QueuesInOrder /\ Passed(0) /\ Passed(slot.seats.n)
      /\ \A v \in Visit : listener[v].at = "write" =>
            Passed(listener[v].update.n) /\ 0 < listener[v].update.n
  BY DEF OrderInv, ListenersInOrder
<1>3. ASSUME QueuesInOrder', \A n \in Nat : Passed(n) => Passed(n)'
      PROVE  OrderInv'
  <2>1. ListenersInOrder'
    BY <1>1, <1>2, <1>3, NumberType DEF ListenersInOrder
  <2> QED BY <1>1, <1>2, <1>3, <2>1 DEF OrderInv
<1>4. ASSUME NEW r \in Room, Reserve(r) PROVE OrderInv'
  <2>1. /\ handler = Blank /\ count' = count + 1 /\ UNCHANGED <<activity, inbox>>
        /\ handler' # Blank => handler'.n = count + 1
    BY <1>4 DEF Reserve
  <2>2. \A n \in Nat : Passed(n) => Passed(n)'
    BY <2>1, NumberType DEF Passed
  <2>3. QueuesInOrder'
    BY <1>2, <2>1, NumberType DEF QueuesInOrder, Ascending
  <2> QED BY <1>3, <2>2, <2>3
<1>5. CASE Notify
  <2>1. /\ activity \in Seq(Update) /\ handler \in Update /\ handler # Blank
        /\ activity' = Append(activity, handler)
        /\ handler' = Blank /\ UNCHANGED <<count, inbox>>
    BY <1>5 DEF Notify, TypeOK
  <2>2. /\ Len(activity) \in Nat /\ DOMAIN activity = 1 .. Len(activity)
        /\ DOMAIN activity' = 1 .. Len(activity) + 1
        /\ activity'[Len(activity) + 1] = handler
        /\ \A i \in 1 .. Len(activity) : activity'[i] = activity[i]
    BY <2>1, AppendProperties, LenProperties
  <2>3. \A n \in Nat : Passed(n) => Passed(n)'
    BY <2>1, <2>2, NumberType DEF Passed
  <2>4. Ascending(activity')
    BY <1>2, <2>1, <2>2, NumberType DEF QueuesInOrder, Ascending
  <2>5. QueuesInOrder'
    BY <1>2, <2>1, <2>2, <2>4, NumberType DEF QueuesInOrder, Ascending
  <2> QED BY <1>3, <2>3, <2>5
<1>6. CASE ForwardUpdate
  <2>1. /\ activity \in Seq(Update) /\ activity # <<>> /\ activity' = Tail(activity)
        /\ inbox \in Seq(Update) /\ inbox' = Append(inbox, Head(activity))
        /\ UNCHANGED <<count, handler>>
    BY <1>6 DEF ForwardUpdate, TypeOK
  <2>2. /\ Len(activity) \in Nat \ {0} /\ DOMAIN activity = 1 .. Len(activity)
        /\ Head(activity) = activity[1] /\ Head(activity) \in Update /\ 1 \in DOMAIN activity
        /\ DOMAIN activity' = 1 .. Len(activity) - 1
        /\ \A i \in 1 .. Len(activity) - 1 : activity'[i] = activity[i + 1] /\ i + 1 \in DOMAIN activity
    BY <2>1, EmptySeq, LenProperties, HeadTailProperties
  <2>3. /\ Len(inbox) \in Nat /\ DOMAIN inbox = 1 .. Len(inbox)
        /\ DOMAIN inbox' = 1 .. Len(inbox) + 1
        /\ inbox'[Len(inbox) + 1] = activity[1]
        /\ \A i \in 1 .. Len(inbox) : inbox'[i] = inbox[i]
    BY <2>1, <2>2, AppendProperties, LenProperties
  <2>4. \A i \in DOMAIN inbox' : \/ i \in DOMAIN inbox /\ inbox'[i] = inbox[i]
                                 \/ i = Len(inbox) + 1 /\ inbox'[i] = activity[1]
    BY <2>3
  <2>5. \A n \in Nat : Passed(n) => Passed(n)'
    BY <2>1, <2>2, <2>4, NumberType DEF Passed
  <2>6. Ascending(inbox')
    <3> SUFFICES ASSUME NEW i \in DOMAIN inbox', NEW j \in DOMAIN inbox', i < j
                 PROVE  inbox'[i].n < inbox'[j].n
      BY DEF Ascending
    <3>1. i \in DOMAIN inbox /\ inbox'[i] = inbox[i]
      BY <2>3
    <3>2. CASE j \in DOMAIN inbox /\ inbox'[j] = inbox[j]
      BY <1>2, <3>1, <3>2 DEF QueuesInOrder, Ascending
    <3>3. CASE inbox'[j] = activity[1]
      BY <1>2, <2>2, <3>1, <3>3 DEF QueuesInOrder
    <3> QED BY <2>4, <3>2, <3>3
  <2>7. Ascending(activity')
    <3> SUFFICES ASSUME NEW i \in DOMAIN activity', NEW j \in DOMAIN activity', i < j
                 PROVE  activity'[i].n < activity'[j].n
      BY DEF Ascending
    <3>1. /\ i + 1 \in DOMAIN activity /\ activity'[i] = activity[i + 1]
          /\ j + 1 \in DOMAIN activity /\ activity'[j] = activity[j + 1]
          /\ i + 1 < j + 1
      BY <2>2
    <3> QED BY <1>2, <3>1 DEF QueuesInOrder, Ascending
  <2>8. \A i \in DOMAIN inbox', j \in DOMAIN activity' : inbox'[i].n < activity'[j].n
    <3> SUFFICES ASSUME NEW i \in DOMAIN inbox', NEW j \in DOMAIN activity'
                 PROVE  inbox'[i].n < activity'[j].n
      OBVIOUS
    <3>1. j + 1 \in DOMAIN activity /\ activity'[j] = activity[j + 1] /\ 1 < j + 1
      BY <2>2
    <3>2. CASE i \in DOMAIN inbox /\ inbox'[i] = inbox[i]
      BY <1>2, <3>1, <3>2 DEF QueuesInOrder
    <3>3. CASE inbox'[i] = activity[1]
      BY <1>2, <2>2, <3>1, <3>3 DEF QueuesInOrder, Ascending
    <3> QED BY <2>4, <3>2, <3>3
  <2>9. QueuesInOrder'
    BY <1>2, <2>1, <2>2, <2>4, <2>6, <2>7, <2>8 DEF QueuesInOrder
  <2> QED BY <1>3, <2>5, <2>9
<1> QED BY <1>4, <1>5, <1>6 DEF AdminStep

\* Mom's listeners
LEMMA OrderListener ==
  ASSUME TypeOK, TypeOK', OrderInv, NEW v \in Visit, ListenerStep(v)
  PROVE  OrderInv'
<1> USE DEF adminVars, clientVars
<1>0. /\ QueuesInOrder /\ Passed(0) /\ Passed(slot.seats.n)
      /\ \A w \in Visit : listener[w].at = "write" =>
            Passed(listener[w].update.n) /\ 0 < listener[w].update.n
      /\ listener \in [Visit -> ListenerSet]
  BY DEF OrderInv, ListenersInOrder, TypeOK, ListenerSet
<1>1. CASE Reset(v)
  <2>1. /\ UNCHANGED <<count, handler, activity, inbox, child>>
        /\ slot'.seats = Blank /\ slot'.seats.n = 0
        /\ listener[v].at = "reset" /\ listener'[v].at = "receive"
        /\ \A w \in Visit \ {v} : listener'[w] = listener[w]
    BY <1>0, <1>1 DEF Reset, Blank
  <2>2. QueuesInOrder' /\ \A n \in Nat : Passed(n) => Passed(n)'
    BY <1>0, <2>1 DEF QueuesInOrder, Ascending, Passed
  <2>3. ListenersInOrder'
    BY <1>0, <2>1, <2>2, NumberType DEF ListenersInOrder
  <2>4. OneListener'
    BY <1>0, <2>1 DEF OrderInv, OneListener
  <2> QED BY <2>2, <2>3, <2>4 DEF OrderInv
<1>2. CASE TakeUpdate(v)
  <2>1. /\ inbox \in Seq(Update) /\ inbox # <<>> /\ inbox' = Tail(inbox)
        /\ listener[v].at = "receive"
        /\ listener' = [listener EXCEPT ![v] = [at |-> "write", update |-> Head(inbox)]]
        /\ UNCHANGED <<count, handler, activity, slot, child>>
    BY <1>2 DEF TakeUpdate, TypeOK
  <2>2. /\ Len(inbox) \in Nat \ {0} /\ DOMAIN inbox = 1 .. Len(inbox)
        /\ Head(inbox) = inbox[1] /\ 1 \in DOMAIN inbox
        /\ DOMAIN inbox' = 1 .. Len(inbox) - 1
        /\ \A i \in 1 .. Len(inbox) - 1 : inbox'[i] = inbox[i + 1] /\ i + 1 \in DOMAIN inbox
    BY <2>1, EmptySeq, LenProperties, HeadTailProperties
  <2>3. /\ listener'[v].at = "write" /\ listener'[v].update = inbox[1]
        /\ \A w \in Visit \ {v} : listener'[w] = listener[w]
    BY <1>0, <2>1, <2>2
  <2>4. Ascending(inbox')
    <3> SUFFICES ASSUME NEW i \in DOMAIN inbox', NEW j \in DOMAIN inbox', i < j
                 PROVE  inbox'[i].n < inbox'[j].n
      BY DEF Ascending
    <3>1. /\ i + 1 \in DOMAIN inbox /\ inbox'[i] = inbox[i + 1]
          /\ j + 1 \in DOMAIN inbox /\ inbox'[j] = inbox[j + 1]
          /\ i + 1 < j + 1
      BY <2>2
    <3> QED BY <1>0, <3>1 DEF QueuesInOrder, Ascending
  <2>5. QueuesInOrder'
    BY <1>0, <2>1, <2>2, <2>4 DEF QueuesInOrder
  <2>6. \A n \in Nat : Passed(n) => Passed(n)'
    BY <2>1, <2>2 DEF Passed
  <2>7. ASSUME NEW m, m = inbox[1].n PROVE Passed(m)'
    <3>1. m <= count /\ (handler # Blank => m < handler.n)
          /\ \A i \in DOMAIN activity : m < activity[i].n
      BY <1>0, <2>2, <2>7 DEF QueuesInOrder
    <3>2. \A i \in DOMAIN inbox' : m < inbox'[i].n
      <4> SUFFICES ASSUME NEW i \in DOMAIN inbox' PROVE m < inbox'[i].n
        OBVIOUS
      <4>1. i + 1 \in DOMAIN inbox /\ inbox'[i] = inbox[i + 1] /\ 1 < i + 1
        BY <2>2
      <4> QED BY <1>0, <2>2, <2>7, <4>1 DEF QueuesInOrder, Ascending
    <3> QED BY <2>1, <3>1, <3>2 DEF Passed
  <2>8. 0 < inbox[1].n /\ slot.seats.n < inbox[1].n
    BY <1>0, <2>2 DEF Passed
  <2>9. ListenersInOrder'
    <3>1. Passed(0)' /\ Passed(slot.seats.n)'
      BY <1>0, <2>1, <2>6, NumberType
    <3>2. ASSUME NEW w \in Visit, listener'[w].at = "write"
          PROVE  Passed(listener[w].update.n)' /\ 0 < listener'[w].update.n
      <4>1. CASE w = v
        BY <2>3, <2>7, <2>8, <4>1
      <4>2. CASE w # v
        BY <1>0, <2>3, <2>6, <3>2, <4>2, NumberType
      <4> QED BY <4>1, <4>2
    <3> QED BY <3>1, <3>2 DEF ListenersInOrder
  <2>10. OneListener'
    BY <2>1, <2>3, <2>8 DEF OrderInv, OneListener
  <2> QED BY <2>5, <2>9, <2>10 DEF OrderInv
<1>3. CASE flag_update_write(v)
  <2>1. /\ UNCHANGED <<count, handler, activity, inbox, child>>
        /\ slot'.seats = listener[v].update
        /\ listener[v].at = "write" /\ listener'[v].at = "receive"
        /\ \A w \in Visit \ {v} : listener'[w] = listener[w]
    BY <1>0, <1>3 DEF flag_update_write
  <2>2. QueuesInOrder' /\ \A n \in Nat : Passed(n) => Passed(n)'
    BY <1>0, <2>1 DEF QueuesInOrder, Ascending, Passed
  <2>3. ListenersInOrder'
    BY <1>0, <2>1, <2>2, NumberType DEF ListenersInOrder
  <2>4. OneListener'
    <3> SUFFICES ASSUME ~child.killed, NEW w \in Visit PROVE listener'[w].at # "write"
                 /\ (listener'[w].at # "none" => w <= child.forked)
      BY <2>1 DEF OrderInv, OneListener
    <3>1. /\ child.forked = (IF child.listening THEN 1 ELSE 0)
          /\ \A x \in Visit : listener[x].at # "none" => x <= child.forked
      BY DEF OrderInv, OneListener
    <3>2. v = 1 /\ (w # v => listener[w].at = "none")
      BY <2>1, <3>1 DEF Visit
    <3> QED BY <2>1, <3>1, <3>2
  <2> QED BY <2>2, <2>3, <2>4 DEF OrderInv
<1> QED BY <1>1, <1>2, <1>3 DEF ListenerStep

\* Mom's child forks a second listener only after it has tried to stop the first.
LEMMA OrderChild ==
  ASSUME TypeOK, TypeOK', OrderInv, ChildStep
  PROVE  OrderInv'
<1> USE DEF adminVars, momVars, clientVars
<1>0. /\ child \in ChildSet /\ listener \in [Visit -> ListenerSet] /\ child.forked \in Nat
      /\ UNCHANGED <<count, handler, activity, inbox, slot>>
  BY DEF TypeOK, ChildSet, ListenerSet, ChildStep, fork_client, start_async_seat_listener,
         finish_async_seat_listener
<1>1. QueuesInOrder' /\ \A n \in Nat : Passed(n) => Passed(n)'
  BY <1>0 DEF OrderInv, QueuesInOrder, Ascending, Passed
<1>2. ASSUME \A v \in Visit : listener'[v].at = "write" => listener'[v] = listener[v]
      PROVE  ListenersInOrder'
  BY <1>0, <1>1, <1>2, NumberType DEF OrderInv, ListenersInOrder
<1>3. CASE fork_client
  <2>1. UNCHANGED listener /\ child'.killed = child.killed /\ child'.forked = child.forked
        /\ child'.listening = child.listening
    BY <1>0, <1>3 DEF fork_client, ChildSet
  <2> QED BY <1>0, <1>1, <1>2, <2>1 DEF OrderInv, OneListener
<1>4. CASE start_async_seat_listener
  <2>1. CASE child.listening
    <3>1. UNCHANGED listener /\ child'.killed = child.killed /\ child'.forked = child.forked
          /\ child'.listening = child.listening
      BY <1>0, <1>4, <2>1 DEF start_async_seat_listener, ChildSet
    <3> QED BY <1>0, <1>1, <1>2, <3>1 DEF OrderInv, OneListener
  <2>2. CASE ~child.listening
    <3>1. /\ child'.killed = child.killed /\ child'.forked = child.forked + 1 /\ child'.listening
          /\ listener' = [listener EXCEPT ![child.forked + 1].at = "reset"]
      BY <1>0, <1>4, <2>2 DEF start_async_seat_listener, ChildSet
    <3>2. \A v \in Visit : \/ v = child.forked + 1 /\ listener'[v].at = "reset"
                           \/ listener'[v] = listener[v]
      BY <1>0, <3>1 DEF ListenerSet
    <3>3. OneListener'
      <4> SUFFICES ASSUME ~child.killed
                   PROVE  /\ child'.forked = 1
                          /\ \A v \in Visit : /\ listener'[v].at # "none" => v <= child'.forked
                                              /\ listener'[v].at # "write"
        BY <3>1 DEF OneListener
      <4>1. child.forked = 0 /\ \A v \in Visit : listener[v].at # "none" => v <= 0
        BY <2>2 DEF OrderInv, OneListener
      <4> QED BY <3>1, <3>2, <4>1 DEF Visit
    <3>4. ListenersInOrder'
      BY <1>2, <3>2
    <3> QED BY <1>1, <3>3, <3>4 DEF OrderInv
  <2> QED BY <2>1, <2>2
<1>5. CASE finish_async_seat_listener
  <2>1. UNCHANGED listener /\ child'.forked = child.forked /\ child'.listening = FALSE
        /\ (~child'.killed => ~child.killed /\ ~child.listening)
    BY <1>0, <1>5 DEF finish_async_seat_listener, ChildSet
  <2> QED BY <1>0, <1>1, <1>2, <2>1 DEF OrderInv, OneListener
<1> QED BY <1>3, <1>4, <1>5 DEF ChildStep

\* The client's threads and menus
LEMMA OrderClient ==
  ASSUME TypeOK, TypeOK', OrderInv,
         \/ \E v \in Visit : ThreadStep(v)
         \/ CustomerStep \/ Receive \/ Refresh \/ UNCHANGED vars
  PROVE  OrderInv' /\ slot'.seats = slot.seats
<1> USE DEF adminVars, momVars, clientVars
<1>1. UNCHANGED <<count, handler, activity, inbox, listener, child>> /\ slot'.seats = slot.seats
  <2>1. slot \in SlotSet
    BY DEF TypeOK, SlotSet
  <2>2. CASE \E v \in Visit : ThreadStep(v)
    BY <2>1, <2>2 DEF ThreadStep, BeginThread, Sleep, Wake, TakeSlot, on_update, SlotSet
  <2>3. CASE CustomerStep \/ Receive \/ Refresh \/ UNCHANGED vars
    BY <2>3 DEF CustomerStep, get_rooms, get_seats, reserve_seat, pay_seats, end_mom, GoBack,
                Receive, Refresh, vars
  <2> QED BY <2>2, <2>3
<1>2. QueuesInOrder' /\ \A n \in Nat : Passed(n) => Passed(n)'
  BY <1>1 DEF OrderInv, QueuesInOrder, Ascending, Passed
<1>3. ListenersInOrder'
  BY <1>1, <1>2, NumberType DEF OrderInv, ListenersInOrder
<1> QED BY <1>1, <1>2, <1>3 DEF OrderInv, OneListener

\* Every step keeps the updates in order.
LEMMA OrderStep == TypeInv /\ OrderInv /\ [Next]_vars => OrderInv'
<1> SUFFICES ASSUME TypeInv, OrderInv, [Next]_vars PROVE OrderInv'
  OBVIOUS
<1>1. TypeOK /\ TypeOK'
  BY TypeStep DEF TypeInv
<1> QED BY <1>1, OrderAdmin, OrderListener, OrderChild, OrderClient DEF Next

\* While mom has not tried to stop a listener, no update is overtaken by an older one: the
\* slot never goes back (mom.cpp:107-136).  The lost condition is the code's: kill with its
\* arguments swapped leaves the first listener running beside the next (mom.cpp:151).
THEOREM NewsComeInOrderHolds == Spec => NewsComeInOrder
<1>1. TypeInv /\ OrderInv /\ [Next]_vars => [~child.killed => ~SlotGoesBack]_vars
  <2> SUFFICES ASSUME TypeInv, OrderInv, Next, ~child.killed, SlotGoesBack PROVE FALSE
    OBVIOUS
  <2>0. TypeOK /\ TypeOK'
    BY TypeStep DEF TypeInv
  <2>1. slot'.update = SUCCESS /\ slot'.seats # Blank /\ slot'.seats.n < slot.seats.n
    BY DEF SlotGoesBack
  <2>2. slot.seats.n \in Nat
    BY <2>0, NumberType
  <2>3. ASSUME NEW v \in Visit, ListenerStep(v) PROVE FALSE
    <3>1. CASE flag_update_write(v)
      <4>1. slot'.seats = listener[v].update /\ listener[v].at = "write"
        BY <3>1 DEF flag_update_write
      <4>2. slot.seats.n < listener[v].update.n /\ listener[v].update.n \in Nat
        BY <2>0, <4>1, NumberType DEF OrderInv, OneListener
      <4> QED BY <2>1, <2>2, <4>1, <4>2
    <3>2. CASE Reset(v) \/ TakeUpdate(v)
      BY <2>1, <2>2, <3>2 DEF Reset, TakeUpdate
    <3> QED BY <2>3, <3>1, <3>2 DEF ListenerStep
  <2>4. CASE AdminStep \/ (\E r \in Room : Reserve(r)) \/ ChildStep
    BY <2>1, <2>2, <2>4 DEF AdminStep, Reserve, Notify, ForwardUpdate, ChildStep, fork_client,
       start_async_seat_listener, finish_async_seat_listener
  <2>5. CASE \/ \E v \in Visit : ThreadStep(v)
             \/ CustomerStep \/ Receive \/ Refresh
    BY <2>0, <2>1, <2>2, <2>5, OrderClient
  <2> QED BY <2>3, <2>4, <2>5 DEF Next
<1>2. Spec => []TypeInv
  BY TypeInit, TypeStep, PTL DEF Spec
<1>3. Spec => []OrderInv
  BY <1>2, OrderInit, OrderStep, PTL DEF Spec
<1> QED BY <1>1, <1>2, <1>3, PTL DEF Spec, NewsComeInOrder

=============================================================================
