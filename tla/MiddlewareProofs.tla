---------------------------- MODULE MiddlewareProofs ----------------------------
(***************************************************************************)
(* Theorems about Middleware for any rooms, any capacity of its queues,    *)
(* any number of reservations and visits.                                  *)
(***************************************************************************)
EXTENDS Middleware, FiniteSetTheorems, TLAPS

USE RoomAssumption, CapacityAssumption, BoundAssumption

----------------------------------------------------------------------------
(* The types, a name for each record *)

ChildSet == [task : {"none", "start", "finish"}, listening : BOOLEAN,
             forked : 0..MaxVisits, killed : BOOLEAN]
ListenerSet == [at : {"none", "reset", "receive", "write"}, update : Update]
SlotSet == [update : {SUCCESS, NOT_SUCCESS}, seats : Update]
ThreadSet == [at : {"none", "begin", "poll", "sleep", "take", "call", "end"},
              cancelled : BOOLEAN, update : Update]
ClientSet == [at : {"menu", "rooms", "seats", "await", "copy", "close", "gone", "crashed"},
              call : {"none", "rooms", "seats", "select", "pay", "exit"},
              room : Room \cup {0}, connected : BOOLEAN,
              listener_thread : 0..MaxVisits, listener_extern_data : BOOLEAN]
AnswerSet == {"none", "rooms", "seats", "select", "pay", "refused", "exit"}
ArgsSet == [alive : BOOLEAN, an_update : BOOLEAN, seats : Update]

AdminOK == /\ count \in Nat
           /\ registered \subseteq Room
           /\ handler \in Update
           /\ activity \in Seq(Update)
MomOK == /\ inbox \in Seq(Update)
         /\ child \in ChildSet
         /\ listener \in [Visit -> ListenerSet]
CallerOK == /\ thread \in [Visit -> ThreadSet]
            /\ client \in ClientSet
            /\ args \in ArgsSet

LEMMA TypeParts ==
    TypeOK <=> AdminOK /\ MomOK /\ slot \in SlotSet /\ CallerOK /\ answer \in AnswerSet
  BY DEF TypeOK, AdminOK, MomOK, CallerOK, ChildSet, ListenerSet, SlotSet, ThreadSet,
         ClientSet, AnswerSet, ArgsSet

LEMMA TypePartsNext ==
    TypeOK' <=> AdminOK' /\ MomOK' /\ (slot \in SlotSet)' /\ CallerOK' /\ (answer \in AnswerSet)'
  BY DEF TypeOK, AdminOK, MomOK, CallerOK, ChildSet, ListenerSet, SlotSet, ThreadSet,
         ClientSet, AnswerSet, ArgsSet

(* An answer fits the call it answers, and there is none before a call.  Every *)
(* listener mom forks belongs to a visit, so it has one for each at most.      *)
AnswerFits ==
    /\ Running /\ client.at # "await" => answer = "none"
    /\ client.at = "await" /\ answer \in {"rooms", "seats", "select", "pay"}
           => client.call = answer
    /\ client.at = "await" => client.call # "none"
    /\ client.at = "await" /\ client.call = "seats"
           => client.listener_thread < MaxVisits /\ client.room # 0

Starting == IF child.task = "start" THEN 1 ELSE 0
Owed == IF answer = "seats" THEN 1 ELSE 0

ForksFollowVisits ==
    /\ child.forked + Starting <= MaxVisits
    /\ Running => child.forked + Starting <= client.listener_thread + Owed

TypeInv == TypeOK /\ AnswerFits /\ ForksFollowVisits

----------------------------------------------------------------------------
(* What the helpers return *)

LEMMA BlankType == Blank \in Update
  BY DEF Blank, Update

LEMMA UpdateType == \A r \in Room, n \in Nat : [room |-> r, n |-> n] \in Update
  BY DEF Update

LEMMA BeginningType ==
    /\ \A at \in {"menu", "gone", "crashed"} : Client(at) \in ClientSet
    /\ \A at \in {"none", "take", "poll", "end"} : Thread(at) \in ThreadSet
    /\ NoThread \in [Visit -> ThreadSet]
    /\ NoArgs \in ArgsSet
  BY BlankType DEF Client, Thread, NoThread, NoArgs, ClientSet, ThreadSet, ArgsSet

LEMMA EndType ==
  ASSUME NEW at \in {"gone", "crashed"}, End(at)
  PROVE  CallerOK' /\ ~Running'
  BY BeginningType DEF End, CallerOK, Running, Client

LEMMA CancelledType ==
  ASSUME thread \in [Visit -> ThreadSet], client \in ClientSet, NEW c \in ClientSet
  PROVE  /\ Cancelled(c) \subseteq ClientSet
         /\ \A d \in Cancelled(c) : /\ d.at = c.at /\ d.call = c.call /\ d.room = c.room
                                    /\ d.listener_thread = c.listener_thread
         /\ CancelledThreads \in [Visit -> ThreadSet]
  BY ZenonT(60) DEF Cancelled, CancelledThreads, NoData, ClientSet, ThreadSet

LEMMA AskingType ==
  ASSUME client \in ClientSet, NEW call \in {"rooms", "seats", "select", "pay", "exit"}
  PROVE  /\ Asking(call) \in ClientSet
         /\ Asking(call).at = "await" /\ Asking(call).call = call
         /\ Asking(call).listener_thread = client.listener_thread
         /\ Asking(call).listener_extern_data = client.listener_extern_data
         /\ \A r \in Room : LET c == [Asking(call) EXCEPT !.room = r]
                            IN  /\ c \in ClientSet
                                /\ c.at = "await" /\ c.call = call /\ c.room = r
                                /\ c.listener_thread = client.listener_thread
  BY DEF Asking, ClientSet

LEMMA AtType ==
  ASSUME client \in ClientSet, NEW place \in {"menu", "rooms", "seats", "copy", "close"}
  PROVE  /\ At(place) \in ClientSet /\ At(place).at = place
         /\ At(place).listener_thread = client.listener_thread
         /\ At(place).listener_extern_data = client.listener_extern_data
         /\ LET c == [At(place) EXCEPT !.connected = FALSE]
            IN  /\ c \in ClientSet /\ c.at = place
                /\ c.listener_thread = client.listener_thread
  BY DEF At, ClientSet

\* A call or its end: the polling thread is cancelled and the client becomes c.
LEMMA EndListenerType ==
  ASSUME thread \in [Visit -> ThreadSet], client \in ClientSet, NEW c \in ClientSet,
         _end_listener_thread(c)
  PROVE  /\ client' \in ClientSet /\ thread' \in [Visit -> ThreadSet]
         /\ client'.at = c.at /\ client'.call = c.call /\ client'.room = c.room
         /\ client'.listener_thread = c.listener_thread
  BY CancelledType DEF _end_listener_thread

LEMMA StartListenerType ==
  ASSUME thread \in [Visit -> ThreadSet], client \in ClientSet, NEW c \in ClientSet,
         c.listener_thread < MaxVisits, _start_listener_thread(c)
  PROVE  /\ client' \in ClientSet /\ thread' \in [Visit -> ThreadSet]
         /\ client'.at = c.at
         /\ client'.listener_thread = c.listener_thread + 1
<1> DEFINE v == c.listener_thread + 1
           withData == [c EXCEPT !.listener_extern_data = TRUE]
<1>1. withData \in ClientSet /\ withData.at = c.at
  BY DEF ClientSet
<1>0. c.listener_thread \in 0..MaxVisits /\ v \in 0..MaxVisits /\ v \in Visit
  <2>1. c.listener_thread \in 0..MaxVisits
    BY DEF ClientSet
  <2> QED BY <2>1 DEF Visit
<1>2. PICK d \in Cancelled(withData) : client' = [d EXCEPT !.listener_thread = v]
  BY DEF _start_listener_thread
<1>3. d \in ClientSet /\ d.at = c.at
  BY <1>1, <1>2, CancelledType
<1>4. CancelledThreads \in [Visit -> ThreadSet]
  BY CancelledType
<1>5. thread' = [CancelledThreads EXCEPT ![v].at = "begin"]
  BY DEF _start_listener_thread
<1>6. thread' \in [Visit -> ThreadSet]
  BY <1>0, <1>4, <1>5 DEF ThreadSet
<1> HIDE DEF v
<1>7. client' \in ClientSet /\ client'.at = c.at /\ client'.listener_thread = v
  BY <1>0, <1>2, <1>3 DEF ClientSet
<1> USE DEF v
<1> QED BY <1>6, <1>7

----------------------------------------------------------------------------
(* TypeInv is an invariant. *)

LEMMA TypeInit == Init => TypeInv
<1> SUFFICES ASSUME Init PROVE TypeInv
  OBVIOUS
<1>1. AdminOK
  BY BlankType DEF Init, AdminOK
<1>2. MomOK
  BY BlankType DEF Init, MomOK, ChildSet, ListenerSet
<1>3. slot \in SlotSet /\ answer \in AnswerSet
  BY BlankType DEF Init, SlotSet, AnswerSet
<1>4. CallerOK
  BY BeginningType DEF Init, CallerOK
<1>5. AnswerFits /\ ForksFollowVisits
  BY DEF Init, AnswerFits, ForksFollowVisits, Starting, Owed, Client, Running
<1> QED BY <1>1, <1>2, <1>3, <1>4, <1>5, TypeParts DEF TypeInv

\* A step that changes neither the client nor its answer nor mom's child
LEMMA Bystander ==
  ASSUME AnswerFits, ForksFollowVisits, UNCHANGED <<client, answer, child>>
  PROVE  AnswerFits' /\ ForksFollowVisits'
  BY DEF AnswerFits, ForksFollowVisits, Starting, Owed, Running

LEMMA TypeAdmin ==
  ASSUME TypeInv, AdminStep \/ \E r \in Room : Reserve(r)
  PROVE  TypeInv'
<1> USE DEF AdminOK, MomOK, CallerOK, adminVars, momVars, clientVars
<1>1. ASSUME NEW r \in Room, Reserve(r) PROVE TypeInv'
  <2>1. AdminOK'
    BY <1>1, TypeParts, BlankType, UpdateType DEF Reserve, TypeInv
  <2> QED BY <1>1, <2>1, TypeParts, TypePartsNext, Bystander DEF Reserve, TypeInv
<1>2. CASE Notify
  BY <1>2, TypeParts, TypePartsNext, BlankType, Bystander DEF Notify, TypeInv
<1>3. CASE ForwardUpdate
  BY <1>3, TypeParts, TypePartsNext, Bystander DEF ForwardUpdate, TypeInv
<1> QED BY <1>1, <1>2, <1>3 DEF AdminStep

LEMMA TypeListener ==
  ASSUME TypeInv, NEW v \in Visit, ListenerStep(v)
  PROVE  TypeInv'
<1> USE DEF AdminOK, MomOK, CallerOK, adminVars, momVars, clientVars
<1>1. CASE Reset(v)
  <2>1. slot' \in SlotSet /\ MomOK'
    BY <1>1, TypeParts, BlankType DEF Reset, TypeInv, SlotSet, ListenerSet
  <2> QED BY <1>1, <2>1, TypeParts, TypePartsNext, Bystander DEF Reset, TypeInv
<1>2. CASE TakeUpdate(v)
  <2>1. Head(inbox) \in Update /\ Tail(inbox) \in Seq(Update)
    BY <1>2, TypeParts DEF TakeUpdate, TypeInv
  <2>2. MomOK'
    BY <1>2, <2>1, TypeParts DEF TakeUpdate, TypeInv, ListenerSet
  <2> QED BY <1>2, <2>2, TypeParts, TypePartsNext, Bystander DEF TakeUpdate, TypeInv
<1>3. CASE flag_update_write(v)
  <2>1. slot' \in SlotSet /\ MomOK'
    BY <1>3, TypeParts, BlankType DEF flag_update_write, TypeInv, SlotSet, ListenerSet
  <2> QED BY <1>3, <2>1, TypeParts, TypePartsNext, Bystander DEF flag_update_write, TypeInv
<1> QED BY <1>1, <1>2, <1>3 DEF ListenerStep

\* The end of the client process leaves no call to be answered.
LEMMA EndKeeps ==
  ASSUME TypeInv, NEW at \in {"gone", "crashed"}, End(at), UNCHANGED <<child, answer>>
  PROVE  AnswerFits' /\ ForksFollowVisits'
  BY EndType DEF TypeInv, AnswerFits, ForksFollowVisits, Starting, End, Client, Running

LEMMA ThreadType ==
  ASSUME thread \in [Visit -> ThreadSet], NEW v \in Visit
  PROVE  /\ \A at \in {"sleep", "call", "poll"} :
               [thread EXCEPT ![v].at = at] \in [Visit -> ThreadSet]
         /\ \A t \in ThreadSet : [thread EXCEPT ![v] = t] \in [Visit -> ThreadSet]
         /\ \A at \in {"sleep", "poll"} : [thread[v] EXCEPT !.at = at] \in ThreadSet
         /\ \A u \in Update : [thread[v] EXCEPT !.at = "call", !.update = u] \in ThreadSet
  BY DEF ThreadSet

LEMMA TypeThread ==
  ASSUME TypeInv, NEW v \in Visit, ThreadStep(v)
  PROVE  TypeInv'
<1> USE DEF AdminOK, MomOK, adminVars, momVars, clientVars
<1>1. CASE BeginThread(v)
  <2>1. thread' \in [Visit -> ThreadSet]
    BY <1>1, TypeParts, ThreadType, BeginningType DEF BeginThread, TypeInv, CallerOK
  <2> QED BY <1>1, <2>1, TypeParts, TypePartsNext, Bystander DEF BeginThread, TypeInv, CallerOK
<1>2. CASE Sleep(v)
  <2>1. CASE client.listener_extern_data
    <3>1. thread' \in [Visit -> ThreadSet]
      BY <1>2, <2>1, TypeParts, ThreadType DEF Sleep, TypeInv, CallerOK
    <3> QED BY <1>2, <2>1, <3>1, TypeParts, TypePartsNext, Bystander DEF Sleep, TypeInv, CallerOK
  <2>2. CASE ~client.listener_extern_data
    <3>1. End("crashed") /\ UNCHANGED <<adminVars, momVars, slot, answer>>
      BY <1>2, <2>2 DEF Sleep
    <3>2. CallerOK' /\ AnswerFits' /\ ForksFollowVisits'
      BY <3>1, EndType, EndKeeps
    <3> QED BY <3>1, <3>2, TypeParts, TypePartsNext DEF TypeInv
  <2> QED BY <2>1, <2>2
<1>3. CASE Wake(v)
  <2>1. thread' \in [Visit -> ThreadSet]
    BY <1>3, TypeParts, ThreadType, BeginningType DEF Wake, TypeInv, CallerOK
  <2> QED BY <1>3, <2>1, TypeParts, TypePartsNext, Bystander DEF Wake, TypeInv, CallerOK
<1>4. CASE TakeSlot(v)
  <2>1. slot.seats \in Update /\ slot' \in SlotSet
    BY <1>4, TypeParts DEF TakeSlot, TypeInv, SlotSet
  <2>2. thread' \in [Visit -> ThreadSet]
    BY <1>4, <2>1, TypeParts, ThreadType DEF TakeSlot, TypeInv, CallerOK
  <2> QED BY <1>4, <2>1, <2>2, TypeParts, TypePartsNext, Bystander DEF TakeSlot, TypeInv, CallerOK
<1>5. CASE on_update(v)
  <2>1. CASE End("crashed")
    <3>1. UNCHANGED <<adminVars, momVars, slot, answer>>
      BY <1>5 DEF on_update
    <3>2. CallerOK' /\ AnswerFits' /\ ForksFollowVisits'
      BY <2>1, <3>1, EndType, EndKeeps
    <3> QED BY <3>1, <3>2, TypeParts, TypePartsNext DEF TypeInv
  <2>2. CASE ~End("crashed")
    <3>1. thread' \in [Visit -> ThreadSet]
      BY <1>5, <2>2, TypeParts, ThreadType, BeginningType, ZenonT(60) DEF on_update, TypeInv, CallerOK
    <3>2. thread[v].update \in Update
      BY TypeParts DEF TypeInv, CallerOK, ThreadSet
    <3>3. args' \in ArgsSet
      BY <1>5, <2>2, <3>2, TypeParts DEF on_update, TypeInv, CallerOK, ArgsSet
    <3> QED BY <1>5, <2>2, <3>1, <3>3, TypeParts, TypePartsNext, Bystander DEF on_update, TypeInv, CallerOK
  <2> QED BY <2>1, <2>2
<1> QED BY <1>1, <1>2, <1>3, <1>4, <1>5 DEF ThreadStep

LEMMA OutcomeType ==
  ASSUME NEW call \in {"rooms", "seats", "select", "pay", "exit"}, NEW room \in Room \cup {0},
         call = "seats" => room \in Room, registered \subseteq Room,
         NEW o \in Outcomes(call, room)
  PROVE  /\ o.answer \in AnswerSet \ {"none"}
         /\ o.rooms \subseteq Room
         /\ o.task \in {"none", "start", "finish"}
         /\ o.answer \in {"rooms", "seats", "select", "pay"} => o.answer = call
         /\ o.task = "start" <=> o.answer = "seats"
<1> USE DEF Outcomes, AnswerSet
<1>1. CASE call = "rooms"
  BY <1>1
<1>2. CASE call = "seats"
  BY <1>2
<1>3. CASE call = "select"
  BY <1>3
<1>4. CASE call = "pay"
  BY <1>4
<1>5. CASE call = "exit"
  BY <1>5
<1> QED BY <1>1, <1>2, <1>3, <1>4, <1>5

LEMMA TypeChild ==
  ASSUME TypeInv, ChildStep
  PROVE  TypeInv'
<1> USE DEF AdminOK, MomOK, CallerOK, adminVars, momVars, clientVars
<1>0. /\ child \in ChildSet /\ listener \in [Visit -> ListenerSet] /\ client \in ClientSet
      /\ registered \subseteq Room
  BY TypeParts DEF TypeInv
<1>1. CASE fork_client
  <2>1. PICK o \in Outcomes(client.call, client.room) :
               /\ answer' = o.answer
               /\ registered' = o.rooms
               /\ child' = [child EXCEPT !.task = o.task]
    BY <1>1 DEF fork_client
  <2>2. /\ client.at = "await" /\ answer = "none" /\ child.task = "none"
        /\ UNCHANGED <<count, handler, activity, inbox, listener, slot, thread, clientVars>>
    BY <1>1 DEF fork_client
  <2>3. /\ client.call \in {"rooms", "seats", "select", "pay", "exit"}
        /\ client.room \in Room \cup {0}
        /\ client.call = "seats" => client.room \in Room
    BY <1>0, <2>2 DEF TypeInv, AnswerFits, ClientSet
  <2>4. /\ o.answer \in AnswerSet \ {"none"}
        /\ o.rooms \subseteq Room
        /\ o.task \in {"none", "start", "finish"}
        /\ o.answer \in {"rooms", "seats", "select", "pay"} => o.answer = client.call
        /\ o.task = "start" <=> o.answer = "seats"
    BY <1>0, <2>1, <2>3, OutcomeType
  <2>5. child' \in ChildSet
    BY <1>0, <2>1, <2>4 DEF ChildSet
  <2>6. AnswerFits'
    BY <2>1, <2>2, <2>4 DEF TypeInv, AnswerFits, Running
  <2>7. child'.forked = child.forked /\ child'.task = o.task
    BY <1>0, <2>1 DEF ChildSet
  <2>8. ForksFollowVisits'
    <3>1. child.forked \in Nat /\ client.listener_thread \in Nat
      BY <1>0 DEF ChildSet, ClientSet
    <3>2. child.forked <= client.listener_thread /\ child.forked <= MaxVisits
      BY <2>2, <3>1 DEF TypeInv, ForksFollowVisits, Starting, Owed, Running
    <3>3. o.task = "start" => child.forked + 1 <= MaxVisits
      BY <2>2, <2>4, <3>1, <3>2 DEF TypeInv, AnswerFits
    <3> QED BY <2>1, <2>2, <2>4, <2>7, <3>1, <3>2, <3>3 DEF ForksFollowVisits, Starting, Owed
  <2> QED BY <2>1, <2>2, <2>4, <2>5, <2>6, <2>8, TypeParts, TypePartsNext DEF TypeInv
<1>2. CASE start_async_seat_listener
  <2>0. /\ child.task = "start"
        /\ UNCHANGED <<adminVars, inbox, slot, thread, clientVars, answer>>
    BY <1>2 DEF start_async_seat_listener
  <2>1. child.forked + 1 \in 1..MaxVisits
    BY <1>0, <2>0 DEF TypeInv, ForksFollowVisits, Starting, ChildSet
  <2>2. CASE child.listening
    <3>1. child' = [child EXCEPT !.task = "none"] /\ listener' = listener
      BY <1>2, <2>2 DEF start_async_seat_listener
    <3>2. child' \in ChildSet /\ child'.task = "none" /\ child'.forked = child.forked
      BY <1>0, <3>1 DEF ChildSet
    <3>3. AnswerFits' /\ ForksFollowVisits'
      BY <1>0, <2>0, <3>2 DEF TypeInv, AnswerFits, ForksFollowVisits, Starting, Owed, Running,
         ChildSet, ClientSet
    <3> QED BY <2>0, <3>1, <3>2, <3>3, TypeParts, TypePartsNext DEF TypeInv
  <2>3. CASE ~child.listening
    <3>1. /\ child' = [child EXCEPT !.task = "none", !.listening = TRUE, !.forked = @ + 1]
          /\ listener' = [listener EXCEPT ![child.forked + 1].at = "reset"]
      BY <1>2, <2>3 DEF start_async_seat_listener
    <3>2. child' \in ChildSet /\ child'.task = "none" /\ child'.forked = child.forked + 1
      <4> DEFINE n == child.forked + 1
      <4>1. n \in 0..MaxVisits
        BY <2>1
      <4> HIDE DEF n
      <4> QED BY <1>0, <3>1, <4>1 DEF ChildSet, n
    <3>3. listener' \in [Visit -> ListenerSet]
      BY <1>0, <2>1, <3>1 DEF ListenerSet, Visit
    <3>4. AnswerFits' /\ ForksFollowVisits'
      BY <1>0, <2>0, <3>2 DEF TypeInv, AnswerFits, ForksFollowVisits, Starting, Owed, Running,
         ChildSet, ClientSet
    <3> QED BY <2>0, <3>2, <3>3, <3>4, TypeParts, TypePartsNext DEF TypeInv
  <2> QED BY <2>2, <2>3
<1>3. CASE finish_async_seat_listener
  <2>1. child' \in ChildSet /\ child'.task = "none" /\ child'.forked = child.forked
    BY <1>0, <1>3 DEF finish_async_seat_listener, ChildSet
  <2>2. AnswerFits' /\ ForksFollowVisits'
    BY <1>0, <1>3, <2>1 DEF finish_async_seat_listener, TypeInv, AnswerFits, ForksFollowVisits,
       Starting, Owed, Running, ChildSet, ClientSet
  <2> QED BY <1>3, <2>1, <2>2, TypeParts, TypePartsNext DEF finish_async_seat_listener, TypeInv
<1> QED BY <1>1, <1>2, <1>3 DEF ChildStep

\* A client that asks: it was not waiting, and what it asks for has no answer yet.
LEMMA AskingKeeps ==
  ASSUME TypeInv, Running, client.at # "await", UNCHANGED <<child, answer>>,
         client'.at = "await", client'.call # "none",
         client'.call = "seats" => client.listener_thread < MaxVisits /\ client'.room # 0,
         client'.listener_thread = client.listener_thread
  PROVE  AnswerFits' /\ ForksFollowVisits'
  BY DEF TypeInv, AnswerFits, ForksFollowVisits, Starting, Owed, Running

\* A client that goes elsewhere without a call
LEMMA MovingKeeps ==
  ASSUME TypeInv, Running, client.at # "await", UNCHANGED <<child, answer>>,
         client'.at # "await", client'.listener_thread = client.listener_thread
  PROVE  AnswerFits' /\ ForksFollowVisits'
  BY DEF TypeInv, AnswerFits, ForksFollowVisits, Starting, Owed, Running

LEMMA TypeCustomer ==
  ASSUME TypeInv, CustomerStep \/ Refresh
  PROVE  TypeInv'
<1> USE DEF AdminOK, MomOK, adminVars, momVars
<1>0. /\ thread \in [Visit -> ThreadSet] /\ client \in ClientSet /\ args \in ArgsSet
  BY TypeParts DEF TypeInv, CallerOK
<1>e. ASSUME NEW at \in {"gone", "crashed"}, End(at),
             UNCHANGED <<adminVars, momVars, slot, answer>>
      PROVE  TypeInv'
  <2>1. CallerOK' /\ AnswerFits' /\ ForksFollowVisits'
    BY <1>e, EndType, EndKeeps
  <2> QED BY <1>e, <2>1, TypeParts, TypePartsNext DEF TypeInv
<1>1. CASE get_rooms
  <2>1. CASE End("crashed")
    BY <1>1, <1>e, <2>1 DEF get_rooms
  <2>2. CASE ~End("crashed")
    <3>1. /\ client.at = "menu" /\ _end_listener_thread(Asking("rooms"))
          /\ UNCHANGED <<adminVars, momVars, slot, answer, args>>
      BY <1>1, <2>2 DEF get_rooms
    <3>2. /\ client' \in ClientSet /\ thread' \in [Visit -> ThreadSet]
          /\ client'.at = "await" /\ client'.call = "rooms"
          /\ client'.listener_thread = client.listener_thread
      BY <1>0, <3>1, AskingType, EndListenerType
    <3>3. AnswerFits' /\ ForksFollowVisits'
      BY <3>1, <3>2, AskingKeeps DEF Running
    <3> QED BY <1>0, <3>1, <3>2, <3>3, TypeParts, TypePartsNext DEF TypeInv, CallerOK
  <2> QED BY <2>1, <2>2
<1>2. ASSUME NEW r \in Room, get_seats(r) PROVE TypeInv'
  <2> DEFINE c == [Asking("seats") EXCEPT !.room = r]
  <2>1. /\ client.at = "rooms" /\ client.listener_thread < MaxVisits
        /\ _end_listener_thread(c)
        /\ args' = [NoArgs EXCEPT !.alive = TRUE]
        /\ UNCHANGED <<adminVars, momVars, slot, answer>>
    BY <1>2 DEF get_seats
  <2>2. /\ c \in ClientSet /\ c.at = "await" /\ c.call = "seats" /\ c.room = r
        /\ c.listener_thread = client.listener_thread
    BY <1>0, AskingType
  <2> HIDE DEF c
  <2>3. /\ client' \in ClientSet /\ thread' \in [Visit -> ThreadSet]
        /\ client'.at = "await" /\ client'.call = "seats" /\ client'.room = r
        /\ client'.listener_thread = client.listener_thread
    BY <1>0, <2>1, <2>2, EndListenerType
  <2>4. r # 0
    OBVIOUS
  <2>5. AnswerFits' /\ ForksFollowVisits'
    BY <2>1, <2>3, <2>4, AskingKeeps DEF Running
  <2>6. args' \in ArgsSet
    BY <2>1, BeginningType DEF ArgsSet
  <2> QED BY <2>1, <2>3, <2>5, <2>6, TypeParts, TypePartsNext DEF TypeInv, CallerOK
<1>3. CASE reserve_seat
  <2>1. /\ client.at = "seats" /\ client' = Asking("select")
        /\ UNCHANGED <<adminVars, momVars, slot, thread, args, answer>>
    BY <1>3 DEF reserve_seat
  <2>2. /\ client' \in ClientSet /\ client'.at = "await" /\ client'.call = "select"
        /\ client'.listener_thread = client.listener_thread
    BY <1>0, <2>1, AskingType
  <2>3. AnswerFits' /\ ForksFollowVisits'
    BY <2>1, <2>2, AskingKeeps DEF Running
  <2> QED BY <1>0, <2>1, <2>2, <2>3, TypeParts, TypePartsNext DEF TypeInv, CallerOK
<1>4. CASE pay_seats
  <2>1. /\ client.at = "menu" /\ client' = Asking("pay")
        /\ UNCHANGED <<adminVars, momVars, slot, thread, args, answer>>
    BY <1>4 DEF pay_seats
  <2>2. /\ client' \in ClientSet /\ client'.at = "await" /\ client'.call = "pay"
        /\ client'.listener_thread = client.listener_thread
    BY <1>0, <2>1, AskingType
  <2>3. AnswerFits' /\ ForksFollowVisits'
    BY <2>1, <2>2, AskingKeeps DEF Running
  <2> QED BY <1>0, <2>1, <2>2, <2>3, TypeParts, TypePartsNext DEF TypeInv, CallerOK
<1>5. CASE end_mom
  <2>1. CASE ~client.connected
    BY <1>5, <1>e, <2>1 DEF end_mom
  <2>2. CASE client.connected
    <3>1. /\ client.at \in {"menu", "close"} /\ _end_listener_thread(Asking("exit"))
          /\ UNCHANGED <<adminVars, momVars, slot, answer, args>>
      BY <1>5, <2>2 DEF end_mom
    <3>2. /\ client' \in ClientSet /\ thread' \in [Visit -> ThreadSet]
          /\ client'.at = "await" /\ client'.call = "exit"
          /\ client'.listener_thread = client.listener_thread
      BY <1>0, <3>1, AskingType, EndListenerType
    <3>3. AnswerFits' /\ ForksFollowVisits'
      BY <3>1, <3>2, AskingKeeps DEF Running
    <3> QED BY <1>0, <3>1, <3>2, <3>3, TypeParts, TypePartsNext DEF TypeInv, CallerOK
  <2> QED BY <2>1, <2>2
<1>6. CASE GoBack
  <2>1. /\ client.at \in {"seats", "rooms"}
        /\ client' = At("rooms") \/ client' = At("menu")
        /\ args' = NoArgs \/ args' = args
        /\ UNCHANGED <<adminVars, momVars, slot, thread, answer>>
    BY <1>6 DEF GoBack, OutOfScope
  <2>2. /\ client' \in ClientSet /\ client'.at \in {"rooms", "menu"}
        /\ client'.listener_thread = client.listener_thread
    BY <1>0, <2>1, AtType
  <2>3. AnswerFits' /\ ForksFollowVisits'
    BY <2>1, <2>2, MovingKeeps DEF Running
  <2> QED BY <1>0, <2>1, <2>2, <2>3, BeginningType, TypeParts, TypePartsNext DEF TypeInv, CallerOK
<1>7. CASE Refresh
  <2>1. /\ client.at \in {"seats", "copy"}
        /\ client' = At("copy") \/ client' = At("seats")
        /\ args' = [args EXCEPT !.an_update = FALSE] \/ args' = args
        /\ UNCHANGED <<adminVars, momVars, slot, thread, answer>>
    BY <1>7 DEF Refresh
  <2>2. /\ client' \in ClientSet /\ client'.at \in {"copy", "seats"}
        /\ client'.listener_thread = client.listener_thread
    BY <1>0, <2>1, AtType
  <2>3. AnswerFits' /\ ForksFollowVisits'
    BY <2>1, <2>2, MovingKeeps DEF Running
  <2>4. args' \in ArgsSet
    BY <1>0, <2>1 DEF ArgsSet
  <2> QED BY <2>1, <1>0, <2>2, <2>3, <2>4, TypeParts, TypePartsNext DEF TypeInv, CallerOK
<1> QED BY <1>1, <1>2, <1>3, <1>4, <1>5, <1>6, <1>7 DEF CustomerStep

\* An answer received: the client goes on, with one visit more if it got seats.
LEMMA ReceivingKeeps ==
  ASSUME TypeInv, client.at = "await", answer # "none", answer' = "none", UNCHANGED child,
         client' \in ClientSet, client'.at # "await",
         Running' => client'.listener_thread = client.listener_thread + Owed
  PROVE  AnswerFits' /\ ForksFollowVisits'
<1>1. child \in ChildSet /\ client \in ClientSet
  BY TypeParts DEF TypeInv, MomOK, CallerOK
<1>2. child.forked \in Nat /\ client.listener_thread \in Nat
  BY <1>1 DEF ChildSet, ClientSet
<1>3. AnswerFits'
  BY DEF AnswerFits
<1>4. child.forked + Starting <= MaxVisits
  BY DEF TypeInv, ForksFollowVisits
<1>5. child.forked + Starting <= client.listener_thread + Owed
  BY DEF TypeInv, ForksFollowVisits, Running
<1>6. Starting' = Starting /\ Owed' = 0
  BY DEF Starting, Owed
<1>7. Starting \in Nat /\ Owed \in Nat
  BY DEF Starting, Owed
<1>8. ForksFollowVisits'
  <2>1. CASE Running'
    <3>1. client'.listener_thread = client.listener_thread + Owed
      BY <2>1
    <3> QED BY <1>2, <1>4, <1>5, <1>6, <1>7, <3>1 DEF ForksFollowVisits
  <2>2. CASE ~Running'
    BY <1>4, <1>6, <2>2 DEF ForksFollowVisits
  <2> QED BY <2>1, <2>2
<1> QED BY <1>3, <1>8

LEMMA TypeReceive ==
  ASSUME TypeInv, Receive
  PROVE  TypeInv'
<1> USE DEF AdminOK, MomOK, adminVars, momVars
<1>0. /\ thread \in [Visit -> ThreadSet] /\ client \in ClientSet /\ args \in ArgsSet
  BY TypeParts DEF TypeInv, CallerOK
<1>1. /\ client.at = "await" /\ answer' = "none"
      /\ UNCHANGED <<adminVars, momVars, slot>>
  BY DEF Receive
<1>2. client.listener_thread \in Nat
  BY <1>0 DEF ClientSet
<1>3. ASSUME CallerOK', client'.at # "await", answer # "none",
             Running' => client'.listener_thread = client.listener_thread + Owed
      PROVE  TypeInv'
  <2>1. AnswerFits' /\ ForksFollowVisits'
    BY <1>1, <1>3, ReceivingKeeps DEF CallerOK
  <2> QED BY <1>1, <1>3, <2>1, TypeParts, TypePartsNext DEF TypeInv, AnswerSet
\* The client moves to a place without a thread of its own being made.
<1>4. ASSUME NEW place \in {"menu", "rooms", "seats", "close"}, answer \notin {"none", "seats"},
             NEW c \in ClientSet, c.at = place, c.listener_thread = client.listener_thread,
             \/ client' = c /\ UNCHANGED thread
             \/ _end_listener_thread(c),
             args' \in ArgsSet
      PROVE  TypeInv'
  <2>1. /\ client' \in ClientSet /\ thread' \in [Visit -> ThreadSet]
        /\ client'.at = place /\ client'.listener_thread = client.listener_thread
    BY <1>0, <1>4, EndListenerType
  <2>2. Owed = 0
    BY <1>4 DEF Owed
  <2>3. client'.listener_thread = client.listener_thread + Owed
    BY <1>2, <2>1, <2>2
  <2> QED BY <1>3, <1>4, <2>1, <2>3 DEF CallerOK
<1>5. ASSUME NEW place \in {"menu", "rooms", "seats", "close"}
      PROVE  /\ At(place) \in ClientSet /\ At(place).at = place
             /\ At(place).listener_thread = client.listener_thread
             /\ LET c == [At(place) EXCEPT !.connected = FALSE]
                IN  /\ c \in ClientSet /\ c.at = place
                    /\ c.listener_thread = client.listener_thread
  BY <1>0, AtType
<1>6. CASE Answered
  <2>1. CASE answer = "rooms" /\ client' = At("rooms") /\ UNCHANGED <<thread, args>>
    BY <1>0, <1>4, <1>5, <2>1
  <2>2. CASE answer = "seats" /\ _start_listener_thread(At("seats")) /\ UNCHANGED args
    <3>1. client.listener_thread < MaxVisits
      BY <1>1, <2>2 DEF TypeInv, AnswerFits
    <3>2. /\ client' \in ClientSet /\ thread' \in [Visit -> ThreadSet]
          /\ client'.at = "seats"
          /\ client'.listener_thread = client.listener_thread + 1
      BY <1>0, <1>5, <2>2, <3>1, StartListenerType
    <3>3. client'.listener_thread = client.listener_thread + Owed
      BY <2>2, <3>2 DEF Owed
    <3> QED BY <1>0, <1>3, <2>2, <3>2, <3>3 DEF CallerOK
  <2>3. CASE answer = "select" /\ _end_listener_thread(At("menu")) /\ OutOfScope
    BY <1>4, <1>5, <2>3, BeginningType DEF OutOfScope
  <2>4. CASE answer = "pay" /\ client' = At("close") /\ UNCHANGED <<thread, args>>
    BY <1>0, <1>4, <1>5, <2>4
  <2>5. CASE answer = "refused" /\ client' = At("menu") /\ OutOfScope /\ UNCHANGED thread
    BY <1>4, <1>5, <2>5, BeginningType DEF OutOfScope
  <2>6. CASE answer = "refused" /\ client' = At("seats") /\ UNCHANGED <<thread, args>>
    BY <1>0, <1>4, <1>5, <2>6
  <2> QED BY <1>6, <2>1, <2>2, <2>3, <2>4, <2>5, <2>6 DEF Answered
<1>7. CASE Closed
  <2> DEFINE c == [At("menu") EXCEPT !.connected = FALSE]
  <2>1. CASE client.call = "pay"
    <3>1. answer = "exit" /\ _end_listener_thread(c) /\ UNCHANGED args
      BY <1>7, <2>1 DEF Closed
    <3>2. c \in ClientSet /\ c.at = "menu" /\ c.listener_thread = client.listener_thread
      BY <1>5
    <3> HIDE DEF c
    <3> QED BY <1>0, <1>4, <3>1, <3>2
  <2>2. CASE client.call # "pay"
    <3>1. answer = "exit" /\ End("gone")
      BY <1>7, <2>2 DEF Closed
    <3>2. CallerOK' /\ ~Running'
      BY <3>1, EndType
    <3>3. client'.at # "await"
      BY <3>1 DEF End, Client
    <3> QED BY <1>3, <3>1, <3>2, <3>3
  <2> QED BY <2>1, <2>2
<1> QED BY <1>6, <1>7 DEF Receive

LEMMA TypeStep == TypeInv /\ [Next]_vars => TypeInv'
<1> SUFFICES ASSUME TypeInv, [Next]_vars PROVE TypeInv'
  OBVIOUS
<1>1. CASE UNCHANGED vars
  BY <1>1, TypeParts, TypePartsNext, Bystander
     DEF vars, adminVars, momVars, clientVars, TypeInv, AdminOK, MomOK, CallerOK
<1>2. CASE Next
  BY <1>2, TypeAdmin, TypeListener, TypeThread, TypeChild, TypeCustomer, TypeReceive DEF Next
<1> QED BY <1>1, <1>2

\* The state of admin, mom and client has the types of their structures; mom
\* forks no listener more than the client gets seats (mom.cpp:116-145).
THEOREM TypeCorrect == Spec => []TypeOK
<1>1. TypeInv => TypeOK
  BY DEF TypeInv
<1> QED BY <1>1, TypeInit, TypeStep, PTL DEF Spec

----------------------------------------------------------------------------
(* The polling threads *)

Settled(v) == thread[v].at = "end" \/ thread[v].cancelled

(* The threads follow the visits: the number of the visit is that of the last *)
(* thread, the ones before it are cancelled or over.                          *)
ThreadsFollowVisits ==
    LET last == client.listener_thread
    IN  /\ \A v \in Visit : v > last => thread[v].at = "none"
        /\ \A v \in Visit : v < last => Settled(v)
        /\ last # 0 /\ thread[last].at \in {"poll", "sleep", "take", "call"}
               => Settled(last) \/ client.listener_extern_data

Leaving == client.at = "await" /\ client.call \in {"rooms", "seats", "exit"}
LeavingIsSettled == Leaving /\ client.listener_thread # 0 => Settled(client.listener_thread)

ArgsFollowMenu ==
    \/ client.at \in {"seats", "copy"}
    \/ client.at = "await" /\ client.call \in {"seats", "select"}
    => args.alive

PollInv == ThreadsFollowVisits /\ LeavingIsSettled /\ ArgsFollowMenu

LEMMA PollInit == Init => PollInv
  BY DEF Init, PollInv, ThreadsFollowVisits, LeavingIsSettled, Leaving, ArgsFollowMenu,
         Client, NoThread, Thread, Visit

LEMMA PollImplies == TypeInv /\ PollInv => PollingBelongsToTheVisit
<1> SUFFICES ASSUME TypeInv, PollInv, Running
             PROVE  /\ Cardinality(Polling) <= 1
                    /\ Polling # {} =>
                          /\ client.listener_extern_data
                          /\ ~Leaving
                          /\ client.at \in {"seats", "copy"} => args.alive
  BY DEF PollingBelongsToTheVisit, Leaving
<1> DEFINE last == client.listener_thread
<1>1. last \in Nat
  BY TypeParts DEF TypeInv, CallerOK, ClientSet
<1>2. ASSUME NEW v \in Polling PROVE v = last /\ v # 0 /\ ~Settled(v)
  BY <1>1 DEF Polling, Visit, Settled, PollInv, ThreadsFollowVisits
<1>3. Polling \subseteq {last}
  BY <1>2
<1>4. Cardinality(Polling) <= 1
  <2>1. Polling = {} \/ Polling = {last}
    BY <1>3
  <2>2. Cardinality({}) = 0 /\ Cardinality({last}) = 1
    BY FS_EmptySet, FS_Singleton
  <2> QED BY <2>1, <2>2
<1>5. ASSUME Polling # {}
      PROVE  /\ client.listener_extern_data
             /\ ~Leaving
             /\ client.at \in {"seats", "copy"} => args.alive
  <2>1. last \in Polling /\ last # 0 /\ ~Settled(last)
    BY <1>2, <1>5
  <2> QED BY <2>1 DEF Polling, PollInv, ThreadsFollowVisits, LeavingIsSettled, ArgsFollowMenu
<1> QED BY <1>4, <1>5

\* Nothing of the client moves.
LEMMA PollBystander ==
  ASSUME PollInv, UNCHANGED <<thread, client, args>>
  PROVE  PollInv'
  BY DEF PollInv, ThreadsFollowVisits, LeavingIsSettled, Leaving, ArgsFollowMenu, Settled

LEMMA PollEnd ==
  ASSUME NEW at \in {"gone", "crashed"}, End(at)
  PROVE  PollInv'
  BY DEF End, PollInv, ThreadsFollowVisits, LeavingIsSettled, Leaving, ArgsFollowMenu,
         Client, NoThread, Thread, Visit

\* One thread that was made and has not ended goes on; a cancelled one is not revived.
LEMMA PollMove ==
  ASSUME TypeInv, PollInv, NEW v \in Visit, NEW t \in ThreadSet,
         thread' = [thread EXCEPT ![v] = t],
         thread[v].at \notin {"none", "end"}, t.at # "none",
         thread[v].cancelled => t.at = "end" \/ t.cancelled,
         t.at \in {"poll", "sleep", "take", "call"} =>
             client.listener_extern_data \/ thread[v].at # "begin",
         UNCHANGED client, args'.alive = args.alive
  PROVE  PollInv'
<1>1. client.listener_thread \in 0..MaxVisits /\ thread \in [Visit -> ThreadSet]
  BY TypeParts DEF TypeInv, CallerOK, ClientSet
<1>2. /\ thread'[v] = t
      /\ \A w \in Visit : w # v => thread'[w] = thread[w]
  BY <1>1
<1>3. \A w \in Visit : Settled(w) => Settled(w)'
  BY <1>2 DEF Settled
<1>4. ThreadsFollowVisits'
  <2> DEFINE last == client.listener_thread
  <2>1. \A w \in Visit : w > last => thread'[w].at = "none"
    BY <1>2 DEF PollInv, ThreadsFollowVisits
  <2>2. \A w \in Visit : w < last => Settled(w)'
    BY <1>3 DEF PollInv, ThreadsFollowVisits
  <2>3. ASSUME last # 0, thread'[last].at \in {"poll", "sleep", "take", "call"}
        PROVE  Settled(last)' \/ client.listener_extern_data
    <3>1. last \in Visit
      BY <1>1, <2>3 DEF Visit
    <3>2. CASE last # v
      BY <1>2, <1>3, <2>3, <3>1, <3>2 DEF PollInv, ThreadsFollowVisits
    <3>3. CASE last = v /\ thread[v].at = "begin"
      BY <1>2, <2>3, <3>3
    <3>4. CASE last = v /\ thread[v].at # "begin"
      <4>1. thread[v].at \in {"poll", "sleep", "take", "call"}
        BY <1>1, <3>4 DEF ThreadSet
      <4>2. Settled(v) \/ client.listener_extern_data
        BY <2>3, <3>4, <4>1 DEF PollInv, ThreadsFollowVisits
      <4> QED BY <1>3, <3>4, <4>2
    <3> QED BY <3>2, <3>3, <3>4
  <2> QED BY <2>1, <2>2, <2>3 DEF ThreadsFollowVisits
<1>5. LeavingIsSettled'
  <2>1. client.listener_thread # 0 => client.listener_thread \in Visit
    BY <1>1 DEF Visit
  <2> QED BY <1>3, <2>1 DEF PollInv, LeavingIsSettled, Leaving
<1>6. ArgsFollowMenu'
  BY DEF PollInv, ArgsFollowMenu
<1> QED BY <1>4, <1>5, <1>6 DEF PollInv

LEMMA PollThread ==
  ASSUME TypeInv, PollInv, NEW v \in Visit, ThreadStep(v)
  PROVE  PollInv'
<1> USE DEF clientVars
<1>0. /\ thread \in [Visit -> ThreadSet] /\ thread[v] \in ThreadSet
      /\ slot.seats \in Update /\ args \in ArgsSet
  BY TypeParts DEF TypeInv, CallerOK, SlotSet
<1>1. CASE BeginThread(v)
  <2>1. CASE client.listener_extern_data
    <3> DEFINE t == [thread[v] EXCEPT !.at = "sleep"]
    <3>1. t \in ThreadSet /\ t.at = "sleep" /\ t.cancelled = thread[v].cancelled
      BY <1>0 DEF ThreadSet
    <3>2. thread' = [thread EXCEPT ![v] = t] /\ UNCHANGED clientVars /\ thread[v].at = "begin"
      BY <1>1, <2>1 DEF BeginThread
    <3> HIDE DEF t
    <3> QED BY <2>1, <3>1, <3>2, PollMove
  <2>2. CASE ~client.listener_extern_data
    <3>1. /\ thread' = [thread EXCEPT ![v] = Thread("end")]
          /\ UNCHANGED clientVars /\ thread[v].at = "begin"
      BY <1>1, <2>2 DEF BeginThread
    <3>2. Thread("end") \in ThreadSet /\ Thread("end").at = "end"
      BY BeginningType DEF Thread
    <3> QED BY <3>1, <3>2, PollMove
  <2> QED BY <2>1, <2>2
<1>2. CASE Sleep(v)
  <2>1. CASE client.listener_extern_data
    <3> DEFINE t == [thread[v] EXCEPT !.at = "sleep"]
    <3>1. t \in ThreadSet /\ t.at = "sleep" /\ t.cancelled = thread[v].cancelled
      BY <1>0 DEF ThreadSet
    <3>2. thread' = [thread EXCEPT ![v] = t] /\ UNCHANGED clientVars /\ thread[v].at = "poll"
      BY <1>0, <1>2, <2>1 DEF Sleep
    <3> HIDE DEF t
    <3> QED BY <2>1, <3>1, <3>2, PollMove
  <2>2. CASE ~client.listener_extern_data
    BY <1>2, <2>2, PollEnd DEF Sleep
  <2> QED BY <2>1, <2>2
<1>3. CASE Wake(v)
  <2> DEFINE t == IF thread[v].cancelled THEN Thread("end") ELSE Thread("take")
  <2>1. t \in ThreadSet /\ t.at \in {"end", "take"} /\ (thread[v].cancelled => t.at = "end")
    BY BeginningType DEF Thread
  <2>2. thread' = [thread EXCEPT ![v] = t] /\ UNCHANGED clientVars /\ thread[v].at = "sleep"
    BY <1>3 DEF Wake
  <2> HIDE DEF t
  <2> QED BY <2>1, <2>2, PollMove
<1>4. CASE TakeSlot(v)
  <2> DEFINE t == IF slot.update = SUCCESS
                  THEN [thread[v] EXCEPT !.at = "call", !.update = slot.seats]
                  ELSE [thread[v] EXCEPT !.at = "poll"]
  <2>1. t \in ThreadSet /\ t.at \in {"call", "poll"} /\ t.cancelled = thread[v].cancelled
    BY <1>0 DEF ThreadSet
  <2>2. thread' = [thread EXCEPT ![v] = t] /\ UNCHANGED clientVars /\ thread[v].at = "take"
    BY <1>4 DEF TakeSlot
  <2> HIDE DEF t
  <2> QED BY <2>1, <2>2, PollMove
<1>5. CASE on_update(v)
  <2>1. CASE End("crashed")
    BY <2>1, PollEnd
  <2>2. CASE ~End("crashed")
    <3> DEFINE t == IF thread[v].cancelled THEN Thread("end") ELSE Thread("poll")
    <3>1. t \in ThreadSet /\ t.at \in {"end", "poll"} /\ (thread[v].cancelled => t.at = "end")
      BY BeginningType DEF Thread
    <3>2. /\ thread' = [thread EXCEPT ![v] = t] /\ UNCHANGED client /\ thread[v].at = "call"
          /\ client.listener_extern_data
      BY <1>5, <2>2 DEF on_update
    <3>3. args' = args \/ args' = [args EXCEPT !.an_update = TRUE, !.seats = thread[v].update]
      BY <1>5, <2>2 DEF on_update
    <3>4. args'.alive = args.alive
      BY <1>0, <3>3 DEF ArgsSet
    <3> HIDE DEF t
    <3> QED BY <3>1, <3>2, <3>4, PollMove
  <2> QED BY <2>1, <2>2
<1> QED BY <1>1, <1>2, <1>3, <1>4, <1>5 DEF ThreadStep

\* The polling thread is cancelled, wherever the client goes.
LEMMA PollEndListener ==
  ASSUME TypeInv, PollInv, NEW c \in ClientSet, _end_listener_thread(c),
         c.listener_thread = client.listener_thread, ArgsFollowMenu'
  PROVE  PollInv'
<1>1. /\ thread \in [Visit -> ThreadSet] /\ client \in ClientSet
      /\ client.listener_thread \in 0..MaxVisits
  BY TypeParts DEF TypeInv, CallerOK, ClientSet
<1>2. client'.listener_thread = client.listener_thread
  BY <1>1, EndListenerType
<1>3. thread' = CancelledThreads
  BY DEF _end_listener_thread
<1>4. \A w \in Visit : /\ thread'[w].at = thread[w].at
                       /\ Settled(w) => Settled(w)'
                       /\ w = client.listener_thread => Settled(w)'
  BY <1>1, <1>3 DEF CancelledThreads, Settled, ThreadSet
<1>5. client.listener_thread # 0 => client.listener_thread \in Visit
  BY <1>1 DEF Visit
<1>6. ThreadsFollowVisits'
  BY <1>2, <1>4, <1>5 DEF PollInv, ThreadsFollowVisits
<1>7. LeavingIsSettled'
  BY <1>2, <1>4, <1>5 DEF LeavingIsSettled
<1> QED BY <1>6, <1>7 DEF PollInv

\* The client goes elsewhere and leaves its threads alone.
LEMMA PollGo ==
  ASSUME PollInv, UNCHANGED thread, ~Leaving', ArgsFollowMenu',
         client'.listener_thread = client.listener_thread,
         client'.listener_extern_data = client.listener_extern_data
  PROVE  PollInv'
  BY DEF PollInv, ThreadsFollowVisits, LeavingIsSettled, Settled

LEMMA PollStartListener ==
  ASSUME TypeInv, PollInv, NEW c \in ClientSet, _start_listener_thread(c), c.at = "seats",
         c.listener_thread = client.listener_thread, client.listener_thread < MaxVisits,
         args'.alive
  PROVE  PollInv'
<1> DEFINE v == client.listener_thread + 1
<1>1. thread \in [Visit -> ThreadSet] /\ client \in ClientSet
  BY TypeParts DEF TypeInv, CallerOK
<1>2. client.listener_thread \in Nat /\ v \in Visit
  <2>1. client.listener_thread \in 0..MaxVisits
    BY <1>1 DEF ClientSet
  <2> QED BY <2>1 DEF Visit
<1>3. client'.at = "seats" /\ client'.listener_thread = v
  BY <1>1, StartListenerType
<1>4. CancelledThreads \in [Visit -> ThreadSet]
  BY <1>1, CancelledType
<1>5. thread' = [CancelledThreads EXCEPT ![v].at = "begin"]
  BY DEF _start_listener_thread
<1>6. \A w \in Visit : w # v => thread'[w] = CancelledThreads[w]
  BY <1>4, <1>5
<1>7. thread'[v].at = "begin"
  BY <1>2, <1>4, <1>5 DEF ThreadSet
<1>8. \A w \in Visit : /\ CancelledThreads[w].at = thread[w].at
                       /\ Settled(w) => CancelledThreads[w].at = "end" \/ CancelledThreads[w].cancelled
                       /\ w = client.listener_thread
                             => CancelledThreads[w].at = "end" \/ CancelledThreads[w].cancelled
  BY <1>1 DEF CancelledThreads, Settled, ThreadSet
<1>9. \A w \in Visit : w > v => thread'[w].at = "none"
  BY <1>2, <1>6, <1>8 DEF PollInv, ThreadsFollowVisits, Visit
<1>10. ASSUME NEW w \in Visit, w < v PROVE Settled(w)'
  <2>1. w # v /\ (w < client.listener_thread \/ w = client.listener_thread)
    BY <1>2, <1>10 DEF Visit
  <2>2. CancelledThreads[w].at = "end" \/ CancelledThreads[w].cancelled
    BY <1>8, <2>1 DEF PollInv, ThreadsFollowVisits
  <2> QED BY <1>6, <2>1, <2>2 DEF Settled
<1> HIDE DEF v
<1>11. ThreadsFollowVisits'
  BY <1>3, <1>7, <1>9, <1>10 DEF ThreadsFollowVisits
<1>12. LeavingIsSettled' /\ ArgsFollowMenu'
  BY <1>3 DEF LeavingIsSettled, Leaving, ArgsFollowMenu
<1> QED BY <1>11, <1>12 DEF PollInv

LEMMA PollCustomer ==
  ASSUME TypeInv, PollInv, CustomerStep \/ Refresh
  PROVE  PollInv'
<1> USE DEF clientVars
<1>0. client \in ClientSet /\ args \in ArgsSet
  BY TypeParts DEF TypeInv, CallerOK
<1>1. CASE get_rooms
  <2>1. CASE End("crashed")
    BY <2>1, PollEnd
  <2>2. CASE ~End("crashed")
    <3>1. _end_listener_thread(Asking("rooms")) /\ UNCHANGED args
      BY <1>1, <2>2 DEF get_rooms
    <3>2. client'.at = "await" /\ client'.call = "rooms"
      BY <1>0, <3>1, AskingType, EndListenerType, TypeParts DEF TypeInv, CallerOK
    <3>3. ArgsFollowMenu'
      BY <3>2 DEF ArgsFollowMenu
    <3> QED BY <1>0, <3>1, <3>3, AskingType, PollEndListener
  <2> QED BY <2>1, <2>2
<1>2. ASSUME NEW r \in Room, get_seats(r) PROVE PollInv'
  <2> DEFINE c == [Asking("seats") EXCEPT !.room = r]
  <2>1. _end_listener_thread(c) /\ args' = [NoArgs EXCEPT !.alive = TRUE]
    BY <1>2 DEF get_seats
  <2>2. c \in ClientSet /\ c.listener_thread = client.listener_thread
    BY <1>0, AskingType
  <2>3. args'.alive
    BY <2>1 DEF NoArgs
  <2>4. ArgsFollowMenu'
    BY <2>3 DEF ArgsFollowMenu
  <2> HIDE DEF c
  <2> QED BY <2>1, <2>2, <2>4, PollEndListener
<1>3. CASE reserve_seat
  <2>1. client.at = "seats" /\ client' = Asking("select") /\ UNCHANGED <<thread, args>>
    BY <1>3 DEF reserve_seat
  <2>2. args'.alive
    BY <2>1 DEF PollInv, ArgsFollowMenu
  <2> QED BY <1>0, <2>1, <2>2, AskingType, PollGo DEF Leaving, ArgsFollowMenu
<1>4. CASE pay_seats
  <2>1. client' = Asking("pay") /\ UNCHANGED <<thread, args>>
    BY <1>4 DEF pay_seats
  <2> QED BY <1>0, <2>1, AskingType, PollGo DEF Leaving, ArgsFollowMenu
<1>5. CASE end_mom
  <2>1. CASE ~client.connected
    BY <1>5, <2>1, PollEnd DEF end_mom
  <2>2. CASE client.connected
    <3>1. _end_listener_thread(Asking("exit")) /\ UNCHANGED args
      BY <1>5, <2>2 DEF end_mom
    <3>2. client'.at = "await" /\ client'.call = "exit"
      BY <1>0, <3>1, AskingType, EndListenerType, TypeParts DEF TypeInv, CallerOK
    <3>3. ArgsFollowMenu'
      BY <3>2 DEF ArgsFollowMenu
    <3> QED BY <1>0, <3>1, <3>3, AskingType, PollEndListener
  <2> QED BY <2>1, <2>2
<1>6. CASE GoBack
  <2>1. PICK place \in {"rooms", "menu"} : client' = At(place)
    BY <1>6 DEF GoBack
  <2>2. UNCHANGED thread
    BY <1>6 DEF GoBack
  <2> QED BY <1>0, <2>1, <2>2, AtType, PollGo DEF Leaving, ArgsFollowMenu
<1>7. CASE Refresh
  <2>1. PICK place \in {"copy", "seats"} : client' = At(place)
    BY <1>7 DEF Refresh
  <2>2. UNCHANGED thread /\ client.at \in {"seats", "copy"}
    BY <1>7 DEF Refresh
  <2>3. args' = [args EXCEPT !.an_update = FALSE] \/ args' = args
    BY <1>7 DEF Refresh
  <2>4. args'.alive
    BY <1>0, <2>2, <2>3 DEF PollInv, ArgsFollowMenu, ArgsSet
  <2> QED BY <1>0, <2>1, <2>2, <2>4, AtType, PollGo DEF Leaving, ArgsFollowMenu
<1> QED BY <1>1, <1>2, <1>3, <1>4, <1>5, <1>6, <1>7 DEF CustomerStep

LEMMA PollReceive ==
  ASSUME TypeInv, PollInv, Receive
  PROVE  PollInv'
<1>0. client \in ClientSet /\ thread \in [Visit -> ThreadSet] /\ client.at = "await"
  BY TypeParts DEF TypeInv, CallerOK, Receive
<1>1. CASE Answered
  <2>1. CASE answer = "rooms" /\ client' = At("rooms") /\ UNCHANGED <<thread, args>>
    BY <1>0, <2>1, AtType, PollGo DEF Leaving, ArgsFollowMenu
  <2>2. CASE answer = "seats" /\ _start_listener_thread(At("seats")) /\ UNCHANGED args
    <3>1. client.call = "seats" /\ client.listener_thread < MaxVisits
      BY <1>0, <2>2 DEF TypeInv, AnswerFits
    <3>2. args'.alive
      BY <1>0, <2>2, <3>1 DEF PollInv, ArgsFollowMenu
    <3> QED BY <1>0, <2>2, <3>1, <3>2, AtType, PollStartListener
  <2>3. CASE answer = "select" /\ _end_listener_thread(At("menu")) /\ OutOfScope
    <3>1. client'.at = "menu"
      BY <1>0, <2>3, AtType, EndListenerType
    <3>2. ArgsFollowMenu'
      BY <3>1 DEF ArgsFollowMenu
    <3> QED BY <1>0, <2>3, <3>2, AtType, PollEndListener
  <2>4. CASE answer = "pay" /\ client' = At("close") /\ UNCHANGED <<thread, args>>
    BY <1>0, <2>4, AtType, PollGo DEF Leaving, ArgsFollowMenu
  <2>5. CASE answer = "refused" /\ client' = At("menu") /\ OutOfScope /\ UNCHANGED thread
    BY <1>0, <2>5, AtType, PollGo DEF Leaving, ArgsFollowMenu
  <2>6. CASE answer = "refused" /\ client.call = "select"
             /\ client' = At("seats") /\ UNCHANGED <<thread, args>>
    <3>1. args'.alive
      BY <1>0, <2>6 DEF PollInv, ArgsFollowMenu
    <3> QED BY <1>0, <2>6, <3>1, AtType, PollGo DEF Leaving, ArgsFollowMenu
  <2> QED BY <1>1, <2>1, <2>2, <2>3, <2>4, <2>5, <2>6 DEF Answered
<1>2. CASE Closed
  <2> DEFINE c == [At("menu") EXCEPT !.connected = FALSE]
  <2>1. CASE client.call = "pay"
    <3>1. _end_listener_thread(c) /\ UNCHANGED args
      BY <1>2, <2>1 DEF Closed
    <3>2. c \in ClientSet /\ c.at = "menu" /\ c.listener_thread = client.listener_thread
      BY <1>0, AtType
    <3> HIDE DEF c
    <3>3. client'.at = "menu"
      BY <1>0, <3>1, <3>2, EndListenerType
    <3>4. ArgsFollowMenu'
      BY <3>3 DEF ArgsFollowMenu
    <3> QED BY <3>1, <3>2, <3>4, PollEndListener
  <2>2. CASE client.call # "pay"
    BY <1>2, <2>2, PollEnd DEF Closed
  <2> QED BY <2>1, <2>2
<1> QED BY <1>1, <1>2 DEF Receive

LEMMA PollStep == TypeInv /\ PollInv /\ [Next]_vars => PollInv'
<1> SUFFICES ASSUME TypeInv, PollInv, [Next]_vars PROVE PollInv'
  OBVIOUS
<1> USE DEF clientVars
<1>1. CASE UNCHANGED vars
  BY <1>1, PollBystander DEF vars
<1>2. ASSUME NEW r \in Room, Reserve(r) PROVE PollInv'
  BY <1>2, PollBystander DEF Reserve
<1>3. CASE AdminStep
  BY <1>3, PollBystander DEF AdminStep, Notify, ForwardUpdate
<1>4. CASE ChildStep
  BY <1>4, PollBystander DEF ChildStep, fork_client, start_async_seat_listener,
                             finish_async_seat_listener
<1>5. ASSUME NEW v \in Visit, ListenerStep(v) PROVE PollInv'
  BY <1>5, PollBystander DEF ListenerStep, Reset, TakeUpdate, flag_update_write
<1>6. ASSUME NEW v \in Visit, ThreadStep(v) PROVE PollInv'
  BY <1>6, PollThread
<1> QED BY <1>1, <1>2, <1>3, <1>4, <1>5, <1>6, PollCustomer, PollReceive DEF Next

\* The client has one polling thread at most that is not cancelled: the one of
\* its last visit, with its data, and none while it asks for rooms or seats or
\* leaves (client_interface.cpp:162-201, 313).
THEOREM PollingBelongsToTheVisitHolds == Spec => []PollingBelongsToTheVisit
<1> QED BY TypeInit, TypeStep, PollInit, PollStep, PollImplies, PTL DEF Spec

=============================================================================
