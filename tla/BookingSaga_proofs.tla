------------------------- MODULE BookingSaga_proofs -------------------------
(***************************************************************************)
(* Proofs about BookingSaga, for any number of rooms and requests and in   *)
(* every environment.                                                      *)
(***************************************************************************)
EXTENDS BookingSaga, TLAPS

-----------------------------------------------------------------------------
(* What the updates do. *)

Status == {0, 200, 201, 404, 409, 500, 502}
Stage == {"idle", "calling", "write", "refresh", "done"}

Typed == handler \in [Handlers -> HandlerStates]

LEMMA StatusesAre ==
  0 \in Status /\ 200 \in Status /\ 201 \in Status /\ 404 \in Status
  /\ 409 \in Status /\ 500 \in Status /\ 502 \in Status
  BY DEF Status

LEMMA HandlerStatesAre ==
  HandlerStates = [at : Stage, booking : Creates \cup {None}, status : Status]
  BY DEF HandlerStates, Stage, Status

OthersUnchanged(h) == \A g \in Handlers : g # h => handler'[g] = handler[g]

(* A handler's new stage, booking and status, and nothing else. *)
Becomes(h, stage, b, status) ==
  /\ Typed' /\ OthersUnchanged(h)
  /\ handler'[h].at = stage
  /\ handler'[h].booking = b
  /\ handler'[h].status = status

LEMMA HandlerUpdate ==
  ASSUME Typed, NEW h \in Handlers, NEW f \in HandlerStates,
         handler' = [handler EXCEPT ![h] = f]
  PROVE  Becomes(h, f.at, f.booking, f.status)
  BY DEF Typed, OthersUnchanged, Becomes

(* What the actions do to a handler, in these terms. *)
LEMMA HandlerUpdates ==
  ASSUME Typed, NEW h \in Handlers
  PROVE  /\ \A stage \in Stage :
              GoTo(h, stage) => Becomes(h, stage, handler[h].booking, handler[h].status)
         /\ \A status \in Status :
              Finish(h, status) => Becomes(h, "done", handler[h].booking, status)
         /\ \A b \in Creates :
              handler' = [handler EXCEPT ![h].at = "calling", ![h].booking = b]
                => Becomes(h, "calling", b, handler[h].status)
<1>1. "done" \in Stage /\ "calling" \in Stage
  BY DEF Stage
<1>2. ASSUME NEW stage \in Stage, GoTo(h, stage)
      PROVE  Becomes(h, stage, handler[h].booking, handler[h].status)
  <2> DEFINE f == [handler[h] EXCEPT !.at = stage]
  <2>1. handler' = [handler EXCEPT ![h] = f]
    BY <1>2 DEF GoTo
  <2>2. /\ f \in HandlerStates
        /\ f.at = stage /\ f.booking = handler[h].booking /\ f.status = handler[h].status
    BY HandlerStatesAre DEF Typed
  <2> QED
    BY <2>1, <2>2, HandlerUpdate
<1>3. ASSUME NEW status \in Status, Finish(h, status)
      PROVE  Becomes(h, "done", handler[h].booking, status)
  <2> DEFINE f == [handler[h] EXCEPT !.at = "done", !.status = status]
  <2>1. handler' = [handler EXCEPT ![h] = f]
    BY <1>3 DEF Finish, Typed
  <2>2. /\ f \in HandlerStates
        /\ f.at = "done" /\ f.booking = handler[h].booking /\ f.status = status
    BY <1>1, HandlerStatesAre DEF Typed
  <2> QED
    BY <2>1, <2>2, HandlerUpdate
<1>4. ASSUME NEW b \in Creates,
             handler' = [handler EXCEPT ![h].at = "calling", ![h].booking = b]
      PROVE  Becomes(h, "calling", b, handler[h].status)
  <2> DEFINE f == [handler[h] EXCEPT !.at = "calling", !.booking = b]
  <2>1. handler' = [handler EXCEPT ![h] = f]
    BY <1>4 DEF Typed
  <2>2. /\ f \in HandlerStates
        /\ f.at = "calling" /\ f.booking = b /\ f.status = handler[h].status
    BY <1>1, HandlerStatesAre DEF Typed
  <2> QED
    BY <2>1, <2>2, HandlerUpdate
<1> QED
  BY <1>2, <1>3, <1>4

(* The same for a remote call. *)
CallStage == {"idle", "sent", "applied", "over"}
CallsTyped == call \in [Callers -> Hotel!Calls]

LEMMA CallsAre ==
  Hotel!Calls = [ st : CallStage, op : Hotel!Operations \cup {"none"},
                  room : Rooms \cup {None}, ans : Hotel!Answers ]
  BY DEF Hotel!Calls, CallStage

LEMMA AnswersAre ==
  /\ 0 \in Hotel!Answers /\ 200 \in Hotel!Answers /\ 404 \in Hotel!Answers
  /\ 409 \in Hotel!Answers /\ 500 \in Hotel!Answers
  BY DEF Hotel!Answers

CallBecomes(c, st, op, r, answer) ==
  /\ CallsTyped'
  /\ \A d \in Callers : d # c => call'[d] = call[d]
  /\ call'[c].st = st
  /\ call'[c].op = op
  /\ call'[c].room = r
  /\ call'[c].ans = answer

LEMMA CallUpdate ==
  ASSUME CallsTyped, NEW c \in Callers, NEW st \in CallStage,
         NEW op \in Hotel!Operations \cup {"none"}, NEW r \in Rooms \cup {None},
         NEW answer \in Hotel!Answers,
         call' = [call EXCEPT ![c] = [st |-> st, op |-> op, room |-> r, ans |-> answer]]
  PROVE  CallBecomes(c, st, op, r, answer)
<1>1. [st |-> st, op |-> op, room |-> r, ans |-> answer] \in Hotel!Calls
  BY CallsAre
<1> QED
  BY <1>1 DEF CallsTyped, CallBecomes

LEMMA CallUpdates ==
  ASSUME CallsTyped, NEW c \in Callers
  PROVE  /\ \A op \in Hotel!Operations, r \in Rooms :
              Hotel!Send(c, op, r) => CallBecomes(c, "sent", op, r, 0)
         /\ \A st \in CallStage, answer \in Hotel!Answers : Hotel!Conclude(c, st, answer) =>
              CallBecomes(c, st, call[c].op, call[c].room, answer)
         /\ Hotel!Answer(c) =>
              CallBecomes(c, "over", call[c].op, call[c].room, call[c].ans)
<1>1. /\ call[c].op \in Hotel!Operations \cup {"none"}
      /\ call[c].room \in Rooms \cup {None}
      /\ call[c].ans \in Hotel!Answers
      /\ call[c] = [st |-> call[c].st, op |-> call[c].op, room |-> call[c].room,
                    ans |-> call[c].ans]
  BY CallsAre DEF CallsTyped
<1>2. "sent" \in CallStage /\ "over" \in CallStage
  BY DEF CallStage
<1>3. ASSUME NEW op \in Hotel!Operations, NEW r \in Rooms, Hotel!Send(c, op, r)
      PROVE  CallBecomes(c, "sent", op, r, 0)
  <2>1. call' = [call EXCEPT ![c] = [st |-> "sent", op |-> op, room |-> r, ans |-> 0]]
    BY <1>3 DEF Hotel!Send
  <2> QED
    BY <1>2, <2>1, CallUpdate, AnswersAre
<1>4. ASSUME NEW st \in CallStage, NEW answer \in Hotel!Answers, Hotel!Conclude(c, st, answer)
      PROVE  CallBecomes(c, st, call[c].op, call[c].room, answer)
  <2>1. call' = [call EXCEPT ![c] =
                   [st |-> st, op |-> call[c].op, room |-> call[c].room, ans |-> answer]]
    BY <1>4 DEF Hotel!Conclude, CallsTyped
  <2> QED
    BY <1>1, <2>1, CallUpdate
<1>5. ASSUME Hotel!Answer(c)
      PROVE  CallBecomes(c, "over", call[c].op, call[c].room, call[c].ans)
  <2> DEFINE f == [call[c] EXCEPT !.st = "over"]
  <2>1. call' = [call EXCEPT ![c] = f]
    BY <1>5 DEF Hotel!Answer
  <2>2. /\ f \in Hotel!Calls
        /\ f.st = "over" /\ f.op = call[c].op /\ f.room = call[c].room /\ f.ans = call[c].ans
    BY <1>2, CallsAre DEF CallsTyped
  <2> QED
    BY <2>1, <2>2 DEF CallsTyped, CallBecomes
<1> QED
  BY <1>3, <1>4, <1>5

-----------------------------------------------------------------------------
(***************************************************************************)
(* The hotel's half of the invariant, which only calls and rooms are in.   *)
(***************************************************************************)
HotelInv ==
  /\ Hotel!AtomicTypeOK
  /\ CallsWellFormed
  /\ HoldsInEffect
  /\ HoldsAccountedFor

(* The call c goes on: it has been sent, and what it asks for stays the same. *)
HotelMoves(c) ==
  /\ CallsTyped'
  /\ \A d \in Callers : d # c => call'[d] = call[d]
  /\ call[c].st \in {"sent", "applied"}
  /\ call'[c].st \in {"applied", "over"}
  /\ call'[c].op = call[c].op
  /\ call'[c].room = call[c].room
  /\ \/ call'[c].st = "over" /\ call'[c].ans \in {call[c].ans, 500}
     \/ call[c].st = "sent" /\ call'[c].st = "applied" /\ call'[c].ans \in {200, 404, 409}

LEMMA NoCallerIsNone == None \notin Callers
  BY NoneIsFresh DEF Callers, Handlers

LEMMA SendKeepsHotel ==
  ASSUME HotelInv, NEW c \in Callers, NEW op \in Hotel!Operations, NEW r \in Rooms,
         Hotel!Send(c, op, r)
  PROVE  HotelInv'
<1>1. CallBecomes(c, "sent", op, r, 0)
  BY CallUpdates DEF HotelInv, Hotel!AtomicTypeOK, CallsTyped
<1>2. call[c].st = "idle" /\ call[c].op = "none" /\ call[c].ans = 0
  BY DEF HotelInv, Hotel!Send, CallsWellFormed
<1>3. UNCHANGED <<room, holder, revoked>>
  BY DEF Hotel!Send
<1>4. Hotel!AtomicTypeOK'
  BY <1>1, <1>3 DEF HotelInv, Hotel!AtomicTypeOK, CallBecomes, CallsTyped
<1>5. CallsWellFormed'
  BY <1>1, <1>3 DEF HotelInv, CallsWellFormed, CallBecomes
<1>6. HoldsInEffect'
  BY <1>1, <1>2, <1>3 DEF HotelInv, HoldsInEffect, InEffect, CallBecomes, Hotel!AtomicTypeOK
<1>7. HoldsAccountedFor'
  BY <1>1, <1>2, <1>3
     DEF HotelInv, HoldsAccountedFor, Hotel!HoldsAccountedFor, CallBecomes, Hotel!AtomicTypeOK
<1> QED
  BY <1>4, <1>5, <1>6, <1>7 DEF HotelInv

LEMMA ApplyKeepsHotel ==
  ASSUME HotelInv, NEW c \in Callers, Hotel!Apply(c)
  PROVE  HotelInv' /\ HotelMoves(c)
<1> DEFINE r == call[c].room
<1>1. /\ call[c].st = "sent" /\ call[c].op \in Hotel!Operations /\ call[c].ans = 0
      /\ r \in Rooms
      /\ c \notin revoked
      /\ \A s \in Rooms : holder[s] # c
  BY NoCallerIsNone DEF HotelInv, Hotel!Apply, Hotel!TakeRoom, Hotel!RefuseRoom, Hotel!FreeRoom,
     Hotel!MissRoom, Hotel!Arriving, CallsWellFormed, HoldsInEffect, InEffect
<1>2. /\ \A answer \in Hotel!Answers : Hotel!Decide(c, answer) =>
            CallBecomes(c, "applied", call[c].op, r, answer)
      /\ 200 \in Hotel!Answers /\ 404 \in Hotel!Answers /\ 409 \in Hotel!Answers
  <2>1. CallsTyped /\ "applied" \in CallStage
    BY DEF HotelInv, Hotel!AtomicTypeOK, CallsTyped, CallStage
  <2> QED
    BY <2>1, CallUpdates, AnswersAre DEF Hotel!Decide
<1>3. CASE Hotel!TakeRoom(c)
  <2>1. CallBecomes(c, "applied", "reserve", r, 200)
    BY <1>2, <1>3 DEF Hotel!TakeRoom, Hotel!Arriving
  <2>2. /\ room[r] = "free"
        /\ room' = [room EXCEPT ![r] = "taken"]
        /\ holder' = [holder EXCEPT ![r] = c]
        /\ revoked' = revoked
        /\ call[c].op = "reserve"
    BY <1>3 DEF Hotel!TakeRoom, Hotel!Arriving
  <2>3. Hotel!AtomicTypeOK'
    BY <1>1, <2>1, <2>2 DEF HotelInv, Hotel!AtomicTypeOK, CallBecomes, CallsTyped
  <2>4. CallsWellFormed'
    BY <1>1, <2>1, <2>2 DEF HotelInv, CallsWellFormed, CallBecomes, Hotel!AtomicTypeOK, Hotel!Operations
  <2>5. HoldsInEffect'
    BY <1>1, <2>1, <2>2 DEF HotelInv, HoldsInEffect, InEffect, CallBecomes, Hotel!AtomicTypeOK
  <2>6. HoldsAccountedFor'
    BY <1>1, <2>1, <2>2, NoCallerIsNone
       DEF HotelInv, HoldsAccountedFor, Hotel!HoldsAccountedFor, CallBecomes, Hotel!AtomicTypeOK,
           CallsWellFormed
  <2> QED
    BY <1>1, <2>1, <2>2, <2>3, <2>4, <2>5, <2>6 DEF HotelInv, HotelMoves, CallBecomes
<1>4. CASE Hotel!RefuseRoom(c) \/ Hotel!MissRoom(c)
  <2>1. PICK answer \in {404, 409} : CallBecomes(c, "applied", call[c].op, r, answer)
    BY <1>2, <1>4 DEF Hotel!RefuseRoom, Hotel!MissRoom
  <2>2. UNCHANGED <<room, holder, revoked>>
    BY <1>4 DEF Hotel!RefuseRoom, Hotel!MissRoom
  <2>3. Hotel!AtomicTypeOK'
    BY <2>1, <2>2 DEF HotelInv, Hotel!AtomicTypeOK, CallBecomes, CallsTyped
  <2>4. CallsWellFormed'
    BY <1>1, <2>1, <2>2 DEF HotelInv, CallsWellFormed, CallBecomes
  <2>5. HoldsInEffect'
    BY <1>1, <2>1, <2>2 DEF HotelInv, HoldsInEffect, InEffect, CallBecomes, Hotel!AtomicTypeOK
  <2>6. HoldsAccountedFor'
    BY <1>1, <2>1, <2>2
       DEF HotelInv, HoldsAccountedFor, Hotel!HoldsAccountedFor, CallBecomes, Hotel!AtomicTypeOK
  <2> QED
    BY <1>1, <2>1, <2>3, <2>4, <2>5, <2>6 DEF HotelInv, HotelMoves, CallBecomes
<1>5. CASE Hotel!FreeRoom(c)
  <2>1. CallBecomes(c, "applied", "release", r, 200)
    BY <1>2, <1>5 DEF Hotel!FreeRoom, Hotel!Arriving
  <2>2. /\ room[r] # "absent"
        /\ room' = [room EXCEPT ![r] = "free"]
        /\ holder' = [holder EXCEPT ![r] = None]
        /\ revoked' = revoked \cup ({holder[r]} \ {None})
        /\ call[c].op = "release"
    BY <1>5 DEF Hotel!FreeRoom, Hotel!Arriving
  <2>3. Hotel!AtomicTypeOK'
    BY <1>1, <2>1, <2>2 DEF HotelInv, Hotel!AtomicTypeOK, CallBecomes, CallsTyped
  <2>4. CallsWellFormed'
    BY <1>1, <2>1, <2>2 DEF HotelInv, CallsWellFormed, CallBecomes, Hotel!AtomicTypeOK, Hotel!Operations
  <2>5. HoldsInEffect'
    BY <1>1, <2>1, <2>2 DEF HotelInv, HoldsInEffect, InEffect, CallBecomes, Hotel!AtomicTypeOK
  <2>6. HoldsAccountedFor'
    BY <1>1, <2>1, <2>2, NoCallerIsNone
       DEF HotelInv, HoldsAccountedFor, Hotel!HoldsAccountedFor, CallBecomes, Hotel!AtomicTypeOK
  <2> QED
    BY <1>1, <2>1, <2>2, <2>3, <2>4, <2>5, <2>6 DEF HotelInv, HotelMoves, CallBecomes
<1> QED
  BY <1>3, <1>4, <1>5 DEF Hotel!Apply

(* The answer arrives, or the call breaks. *)
LEMMA EndKeepsHotel ==
  ASSUME HotelInv, NEW c \in Callers, Hotel!Answer(c) \/ Hotel!Break(c)
  PROVE  HotelInv' /\ HotelMoves(c)
<1>1. call[c].st \in {"sent", "applied"} /\ call[c].st # "idle"
  BY DEF Hotel!Answer, Hotel!Break
<1>2. PICK answer \in Hotel!Answers :
        /\ answer = call[c].ans \/ answer = 500
        /\ CallBecomes(c, "over", call[c].op, call[c].room, answer)
  <2>1. CallsTyped /\ "over" \in CallStage /\ call[c].ans \in Hotel!Answers
    BY CallsAre DEF HotelInv, Hotel!AtomicTypeOK, CallsTyped, CallStage
  <2> QED
    BY <2>1, CallUpdates, AnswersAre DEF Hotel!Break
<1>3. UNCHANGED <<room, holder, revoked>>
  BY DEF Hotel!Answer, Hotel!Break
<1>4. Hotel!AtomicTypeOK'
  BY <1>2, <1>3 DEF HotelInv, Hotel!AtomicTypeOK, CallBecomes, CallsTyped
<1>5. CallsWellFormed'
  BY <1>1, <1>2, <1>3 DEF HotelInv, CallsWellFormed, CallBecomes
<1>6. HoldsInEffect'
  BY <1>2, <1>3 DEF HotelInv, HoldsInEffect, InEffect, CallBecomes, Hotel!AtomicTypeOK
<1>7. HoldsAccountedFor'
  BY <1>2, <1>3
     DEF HotelInv, HoldsAccountedFor, Hotel!HoldsAccountedFor, CallBecomes, Hotel!AtomicTypeOK
<1> QED
  BY <1>1, <1>2, <1>4, <1>5, <1>6, <1>7 DEF HotelInv, HotelMoves, CallBecomes

LEMMA OpenKeepsHotel ==
  ASSUME HotelInv, NEW r \in Rooms, Hotel!Open(r)
  PROVE  HotelInv'
<1>1. PICK status \in {"free", "taken"} : room' = [room EXCEPT ![r] = status]
  BY DEF Hotel!Open
<1>2. room[r] = "absent" /\ UNCHANGED <<holder, revoked, call>>
  BY DEF Hotel!Open
<1>3. Hotel!AtomicTypeOK'
  BY <1>1, <1>2 DEF HotelInv, Hotel!AtomicTypeOK
<1>4. CallsWellFormed'
  BY <1>1, <1>2 DEF HotelInv, CallsWellFormed, Hotel!AtomicTypeOK
<1>5. HoldsInEffect'
  BY <1>2 DEF HotelInv, HoldsInEffect, InEffect
<1>6. HoldsAccountedFor'
  BY <1>1, <1>2 DEF HotelInv, HoldsAccountedFor, Hotel!HoldsAccountedFor, Hotel!AtomicTypeOK
<1> QED
  BY <1>3, <1>4, <1>5, <1>6 DEF HotelInv

LEMMA StutterKeepsHotel == HotelInv /\ UNCHANGED hotelVars => HotelInv'
  BY DEF HotelInv, hotelVars, Hotel!AtomicTypeOK, CallsWellFormed, HoldsInEffect, InEffect,
         HoldsAccountedFor, Hotel!HoldsAccountedFor

-----------------------------------------------------------------------------
(***************************************************************************)
(* The other half: handlers and rows, and how they agree with the calls.   *)
(***************************************************************************)
BookingsTyped == bookings \in [Creates -> BookingRows \cup {None}]

SagaInv ==
  /\ env \in Environments
  /\ Typed
  /\ BookingsTyped
  /\ HandlersFollowCalls
  /\ CreatesFollowCalls
  /\ CancelsFollowCalls
  /\ BookingsBacked
  /\ CancelledMeansReleased
  /\ CalmHolds

LEMMA Halves == InductiveInv <=> HotelInv /\ SagaInv
  BY DEF InductiveInv, HotelInv, SagaInv, TypeOK, Typed, BookingsTyped, HoldsMatchBookings

LEMMA CallersAre ==
  /\ Creates \subseteq Handlers /\ Cancels \subseteq Handlers /\ Handlers \subseteq Callers
  /\ Directs \subseteq Callers
  /\ Handlers = Creates \cup Cancels
  /\ Callers = Creates \cup Cancels \cup Directs
  /\ \A c \in Creates : c \notin Cancels /\ c \notin Directs
  /\ \A x \in Cancels : x \notin Directs
  BY RequestsDistinct DEF Callers, Handlers

(* The reserve behind a booking was answered 200, for the room of the booking. *)
LEMMA BookingStands ==
  ASSUME HotelInv, SagaInv, NEW b \in Creates, bookings[b] # None
  PROVE  /\ bookings[b] \in BookingRows /\ bookings[b].room_id \in Rooms
         /\ call[b].st = "over" /\ call[b].ans = 200
         /\ call[b].room = bookings[b].room_id
         /\ room[bookings[b].room_id] # "absent"
         /\ holder[bookings[b].room_id] = b \/ b \in revoked
<1>1. bookings[b] \in BookingRows /\ bookings[b].room_id \in Rooms
  BY DEF SagaInv, BookingsTyped, BookingRows
<1>2. call[b].st = "over" /\ call[b].ans = 200
  BY DEF SagaInv, CreatesFollowCalls
<1>3. call[b].room = bookings[b].room_id /\ (holder[bookings[b].room_id] = b \/ b \in revoked)
  BY DEF SagaInv, BookingsBacked
<1>4. room[call[b].room] # "absent"
  BY <1>2, CallersAre DEF HotelInv, CallsWellFormed
<1> QED
  BY <1>1, <1>2, <1>3, <1>4

(***************************************************************************)
(* What the hotel's own steps do to the holds: a room is taken only while  *)
(* nobody holds it, and whoever loses its room is in revoked from then on. *)
(***************************************************************************)
LEMMA ApplyKeepsHolds ==
  ASSUME HotelInv, NEW c \in Callers, Hotel!Apply(c)
  PROVE  /\ revoked \subseteq revoked'
         /\ \A b \in Callers, r \in Rooms :
              holder[r] = b => holder'[r] = b \/ b \in revoked'
         /\ call[c].op = "reserve" => \A b \in Callers, r \in Rooms :
              holder[r] = b => holder'[r] = b
         /\ call[c].op = "release" /\ call'[c].ans = 200 =>
              /\ \A b \in Callers : holder[call[c].room] = b => b \in revoked'
              /\ \A r \in Rooms : r # call[c].room => holder'[r] = holder[r]
         /\ call'[c].ans # 200 => UNCHANGED <<room, holder, revoked>>
         /\ call[c].op = "reserve" /\ call'[c].ans = 200 => holder'[call[c].room] = c
         /\ call'[c].ans = 404 => room[call[c].room] = "absent"
<1>1. /\ call[c].st = "sent" /\ call[c].op \in Hotel!Operations
      /\ call[c].room \in Rooms
      /\ call \in [Callers -> Hotel!Calls] /\ holder \in [Rooms -> Callers \cup {None}]
  BY DEF HotelInv, Hotel!Apply, Hotel!TakeRoom, Hotel!RefuseRoom, Hotel!FreeRoom,
     Hotel!MissRoom, Hotel!Arriving, CallsWellFormed, Hotel!AtomicTypeOK
<1>2. ASSUME NEW answer \in {200, 404, 409}, Hotel!Decide(c, answer)
      PROVE  call'[c].ans = answer
  BY <1>1, <1>2 DEF Hotel!Decide, Hotel!Conclude
<1>3. CASE Hotel!TakeRoom(c)
  <2>1. holder[call[c].room] \notin Callers
    BY <1>1, <1>3, NoCallerIsNone
       DEF Hotel!TakeRoom, HotelInv, HoldsAccountedFor, Hotel!HoldsAccountedFor
  <2> QED
    BY <1>1, <1>2, <1>3, <2>1 DEF Hotel!TakeRoom, Hotel!Arriving
<1>4. CASE Hotel!RefuseRoom(c)
  BY <1>1, <1>2, <1>4 DEF Hotel!RefuseRoom
<1>5. CASE Hotel!MissRoom(c)
  BY <1>1, <1>2, <1>5 DEF Hotel!MissRoom
<1>6. CASE Hotel!FreeRoom(c)
  BY <1>1, <1>2, <1>6, NoCallerIsNone DEF Hotel!FreeRoom, Hotel!Arriving
<1> QED
  BY <1>3, <1>4, <1>5, <1>6 DEF Hotel!Apply

(* The hotel takes a call up, answers it or fails. *)
LEMMA HotelMoveKeepsSaga ==
  ASSUME HotelInv, SagaInv, NEW c \in Callers, UNCHANGED <<env, bookings, handler>>,
         Hotel!Apply(c) \/ Hotel!Answer(c) \/ (Hotel!Break(c) /\ "hotel" \in env.faults)
  PROVE  SagaInv'
<1>1. HotelMoves(c)
  BY ApplyKeepsHotel, EndKeepsHotel
<1>2. /\ call[c].st \in {"sent", "applied"} /\ call[c].st # "idle" /\ call[c].st # "over"
      /\ call'[c].st \in {"applied", "over"}
      /\ call'[c].op = call[c].op /\ call'[c].room = call[c].room
      /\ \A d \in Callers : d # c => call'[d] = call[d]
      /\ call[c].op \in Hotel!Operations /\ call[c].room \in Rooms
  BY <1>1 DEF HotelMoves, HotelInv, CallsWellFormed
<1>3. /\ revoked \subseteq revoked'
      /\ \A b \in Callers, r \in Rooms : holder[r] = b => holder'[r] = b \/ b \in revoked'
  BY ApplyKeepsHolds DEF Hotel!Answer, Hotel!Break
<1>4. env' \in Environments /\ Typed' /\ BookingsTyped'
  BY DEF SagaInv, Typed, BookingsTyped
<1>5. HandlersFollowCalls'
  BY <1>2, CallersAre DEF SagaInv, HandlersFollowCalls
<1>6. CreatesFollowCalls'
  BY <1>2, CallersAre DEF SagaInv, CreatesFollowCalls
<1>7. CancelsFollowCalls'
  <2> SUFFICES ASSUME NEW x \in Cancels
               PROVE  LET b == handler[x].booking IN
                        /\ call'[x].st # "idle" =>
                             /\ call'[x].op = "release"
                             /\ b \in Creates /\ bookings[b] # None
                             /\ call'[x].room = bookings[b].room_id
                        /\ call'[x].ans = 200 => b \in revoked'
                        /\ call'[x].ans # 404
    BY DEF SagaInv, CancelsFollowCalls, Booked
  <2> DEFINE b == handler[x].booking
  <2>1. CASE x # c
    BY <1>2, <1>3, <2>1, CallersAre DEF SagaInv, CancelsFollowCalls
  <2>2. CASE x = c
    <3>1. /\ call[x].op = "release" /\ b \in Creates /\ bookings[b] # None
          /\ call[x].room = bookings[b].room_id
      BY <1>2, <2>2 DEF SagaInv, CancelsFollowCalls
    <3>2. /\ room[call[x].room] # "absent" /\ call[x].room \in Rooms /\ b \in Callers
          /\ holder[call[x].room] = b \/ b \in revoked
      BY <3>1, BookingStands, CallersAre
    <3>3. CASE Hotel!Apply(c)
      BY <1>2, <1>3, <2>2, <3>1, <3>2, <3>3, ApplyKeepsHolds
    <3>4. CASE Hotel!Answer(c) \/ Hotel!Break(c)
      <4>1. call'[c].ans \in {call[c].ans, 500}
        <5>1. CallsTyped /\ "over" \in CallStage
          BY DEF HotelInv, Hotel!AtomicTypeOK, CallsTyped, CallStage
        <5> QED
          BY <3>4, <5>1, CallUpdates, AnswersAre DEF Hotel!Break, CallBecomes
      <4> QED
        BY <1>2, <1>3, <2>2, <3>1, <4>1 DEF SagaInv, CancelsFollowCalls
    <3> QED
      BY <3>3, <3>4
  <2> QED
    BY <2>1, <2>2
<1>8. BookingsBacked'
  BY <1>2, <1>3, BookingStands, CallersAre DEF BookingsBacked
<1>9. CancelledMeansReleased'
  BY <1>3 DEF SagaInv, CancelledMeansReleased, Booked
<1>10. CalmHolds'
  <2> SUFFICES ASSUME Calm PROVE CalmHolds'
    BY DEF CalmHolds, Calm
  <2>1. Hotel!Apply(c) \/ Hotel!Answer(c)
    BY DEF Calm
  <2>2. /\ \A d \in Callers : call[d].ans # 500
        /\ \A d \in Directs : call[d].st = "idle"
        /\ \A d \in Creates :
             call[d].ans = 200 /\ (bookings[d] = None \/ Kept(d)) => holder[call[d].room] = d
        /\ \A x \in Cancels : call[x].st = "sent" =>
             handler[x].at = "calling" /\ holder[call[x].room] = handler[x].booking
        /\ \A x, y \in Cancels :
             x \in InProgress(handler[x].booking) /\ y \in InProgress(handler[x].booking) => x = y
    BY DEF SagaInv, CalmHolds
  <2>3. /\ \A b \in Creates : Kept(b)' <=> Kept(b)
        /\ \A b : InProgress(b)' = InProgress(b)
        /\ Calm' <=> Calm
    BY DEF Kept, Active, InProgress, Calm
  <2>4. CASE Hotel!Answer(c)
    <3>1. call'[c].ans = call[c].ans /\ call'[c].st = "over" /\ UNCHANGED <<room, holder, revoked>>
      <4>1. CallsTyped
        BY DEF HotelInv, Hotel!AtomicTypeOK, CallsTyped
      <4> QED
        BY <2>4, <4>1, CallUpdates DEF Hotel!Answer, CallBecomes
    <3> QED
      BY <1>2, <2>2, <2>3, <3>1, CallersAre DEF CalmHolds
  <2>5. CASE Hotel!Apply(c)
    <3>1. /\ call[c].st = "sent" /\ call'[c].st = "applied" /\ call'[c].ans \in {200, 404, 409}
      <4>1. call[c].st = "sent"
        BY <2>5 DEF Hotel!Apply, Hotel!TakeRoom, Hotel!RefuseRoom, Hotel!FreeRoom,
           Hotel!MissRoom, Hotel!Arriving
      <4>2. call'[c].st = "applied"
        BY <2>5, CallUpdates, AnswersAre
           DEF Hotel!Apply, Hotel!TakeRoom, Hotel!RefuseRoom, Hotel!FreeRoom, Hotel!MissRoom,
               Hotel!Decide, Hotel!Conclude, HotelInv, Hotel!AtomicTypeOK
      <4> QED
        BY <1>1, <4>1, <4>2 DEF HotelMoves
    <3>2. (\A d \in Callers : call[d].ans # 500)'
      BY <1>2, <2>2, <3>1
    <3>3. (\A d \in Directs : call[d].st = "idle")'
      BY <1>2, <2>2, CallersAre
    <3>4. CASE call[c].op = "reserve"
      <4>1. \A b \in Callers, r \in Rooms : holder[r] = b => holder'[r] = b
        BY <2>5, <3>4, ApplyKeepsHolds
      <4>2. call'[c].ans = 200 => holder'[call[c].room] = c
        BY <2>5, <3>4, ApplyKeepsHolds
      <4>3. \A d \in Callers : call[d].st # "idle" => call[d].room \in Rooms
        BY DEF HotelInv, CallsWellFormed
      <4>4. \A d \in Callers : call[d].ans = 200 => call[d].st # "idle"
        BY DEF HotelInv, CallsWellFormed
      <4>5. (\A d \in Creates :
               call[d].ans = 200 /\ (bookings[d] = None \/ Kept(d)) => holder[call[d].room] = d)'
        BY <1>2, <2>2, <2>3, <4>1, <4>2, <4>3, <4>4, CallersAre
      <4>6. \A x \in Cancels : call[x].st = "sent" => handler[x].booking \in Callers
        BY CallersAre DEF SagaInv, CancelsFollowCalls
      <4>7. (\A x \in Cancels : call[x].st = "sent" =>
               handler[x].at = "calling" /\ holder[call[x].room] = handler[x].booking)'
        BY <1>2, <2>2, <3>1, <4>1, <4>3, <4>6, CallersAre
      <4> QED
        BY <2>2, <2>3, <3>2, <3>3, <4>5, <4>7 DEF CalmHolds
    <3>5. CASE call[c].op = "release"
      <4> DEFINE b == handler[c].booking
                 r == call[c].room
      <4>1. c \in Cancels
        BY <1>2, <2>2, <3>5, CallersAre DEF SagaInv, CreatesFollowCalls
      <4>2. /\ b \in Creates /\ bookings[b] # None
            /\ handler[c].at = "calling" /\ holder[r] = b /\ r \in Rooms
        BY <1>2, <2>2, <3>1, <4>1 DEF SagaInv, CancelsFollowCalls
      <4>3. c \in InProgress(b) /\ ~Kept(b)
        BY <4>1, <4>2 DEF InProgress, Kept
      <4>4. \A s \in Rooms : s # r => holder'[s] = holder[s]
        BY <2>5, <3>5, ApplyKeepsHolds
      <4>5. \A d \in Callers : call[d].st # "idle" => call[d].room \in Rooms
        BY DEF HotelInv, CallsWellFormed
      <4>6. \A d \in Callers : call[d].ans = 200 => call[d].st # "idle"
        BY DEF HotelInv, CallsWellFormed
      <4>7. (\A d \in Creates :
               call[d].ans = 200 /\ (bookings[d] = None \/ Kept(d)) => holder[call[d].room] = d)'
        <5> SUFFICES ASSUME NEW d \in Creates, call'[d].ans = 200, bookings[d] = None \/ Kept(d)
                     PROVE  holder'[call'[d].room] = d
          BY <2>3
        <5>1. d \in Callers /\ d # c /\ d # b
          <6>1. d \in Callers /\ d # c
            BY <4>1, CallersAre
          <6>2. d # b
            <7> HIDE DEF b
            <7> QED
              BY <4>2, <4>3, Zenon
          <6> QED
            BY <6>1, <6>2
        <5>2. call'[d] = call[d] /\ call[d].room \in Rooms /\ holder[call[d].room] = d
          BY <1>2, <2>2, <4>5, <4>6, <5>1
        <5> QED
          BY <4>2, <4>4, <5>1, <5>2
      <4>8. ASSUME NEW x \in Cancels, x # c, call[x].st = "sent"
            PROVE  call[x].room # r
        <5>1. handler[x].at = "calling" /\ holder[call[x].room] = handler[x].booking
          BY <2>2, <4>8
        <5>2. SUFFICES ASSUME call[x].room = r PROVE FALSE
          OBVIOUS
        <5>3. x \in InProgress(b)
          BY <4>2, <5>1, <5>2 DEF InProgress
        <5> QED
          BY <2>2, <4>1, <4>3, <4>8, <5>3
      <4>9. (\A x \in Cancels : call[x].st = "sent" =>
               handler[x].at = "calling" /\ holder[call[x].room] = handler[x].booking)'
        BY <1>2, <2>2, <3>1, <4>4, <4>5, <4>8, CallersAre
      <4> QED
        BY <2>2, <2>3, <3>2, <3>3, <4>7, <4>9 DEF CalmHolds
    <3> QED
      BY <1>2, <3>4, <3>5 DEF Hotel!Operations
  <2> QED
    BY <2>1, <2>4, <2>5
<1> QED
  BY <1>4, <1>5, <1>6, <1>7, <1>8, <1>9, <1>10 DEF SagaInv

(* What CalmHolds is made of, in the calm environment. *)
CalmCalls ==
  /\ \A c \in Callers : call[c].ans # 500
  /\ \A d \in Directs : call[d].st = "idle"

CalmCreates ==
  \A c \in Creates :
    call[c].ans = 200 /\ (bookings[c] = None \/ Kept(c)) => holder[call[c].room] = c

CalmReleases ==
  \A x \in Cancels : call[x].st = "sent" =>
    handler[x].at = "calling" /\ holder[call[x].room] = handler[x].booking

OneCancelEach ==
  \A x, y \in Cancels :
    x \in InProgress(handler[x].booking) /\ y \in InProgress(handler[x].booking) => x = y

LEMMA CalmHoldsIs ==
  CalmHolds <=> (Calm => CalmCalls /\ CalmCreates /\ CalmReleases /\ OneCancelEach)
  BY DEF CalmHolds, CalmCalls, CalmCreates, CalmReleases, OneCancelEach

LEMMA DirectKeepsSaga ==
  ASSUME HotelInv, SagaInv, NEW d \in Directs, NEW op \in Hotel!Operations, NEW r \in Rooms,
         DirectCall(d, op, r)
  PROVE  SagaInv'
<1>1. /\ \A c \in Creates \cup Cancels : call'[c] = call[c]
      /\ UNCHANGED <<env, room, holder, revoked, bookings, handler>>
      /\ d \in env.directs
  BY CallersAre DEF DirectCall, Hotel!Send, HotelInv, Hotel!AtomicTypeOK
<1>2. env' \in Environments /\ Typed' /\ BookingsTyped'
  BY <1>1 DEF SagaInv, Typed, BookingsTyped
<1>3. HandlersFollowCalls'
  BY <1>1, CallersAre DEF SagaInv, HandlersFollowCalls
<1>4. CreatesFollowCalls'
  BY <1>1 DEF SagaInv, CreatesFollowCalls
<1>5. CancelsFollowCalls'
  BY <1>1 DEF SagaInv, CancelsFollowCalls, Booked
<1>6. BookingsBacked' /\ CancelledMeansReleased'
  BY <1>1 DEF SagaInv, BookingsBacked, CancelledMeansReleased, Booked
<1>7. CalmHolds'
  BY <1>1 DEF CalmHolds, Calm
<1> QED
  BY <1>2, <1>3, <1>4, <1>5, <1>6, <1>7 DEF SagaInv

LEMMA OpenKeepsSaga ==
  ASSUME SagaInv, UNCHANGED <<env, holder, revoked, call, bookings, handler>>
  PROVE  SagaInv'
  BY DEF SagaInv, Typed, BookingsTyped, HandlersFollowCalls, CreatesFollowCalls,
         CancelsFollowCalls, BookingsBacked, CancelledMeansReleased, CalmHolds, Calm, Kept,
         Active, Booked, InProgress

(***************************************************************************)
(* A handler goes to stage or ends with status, and nothing else happens.  *)
(***************************************************************************)
Justified(h, stage, status) ==
  /\ handler[h].at # "done"
  /\ \/ /\ stage = "write" /\ status = 0
        /\ handler[h].at = "calling" /\ call[h].st = "over" /\ call[h].ans = 200
     \/ /\ stage = "done"
        /\ h \in Creates =>
             /\ status \in {201, 409, 500}
             /\ status = 201 => bookings[h] # None
             /\ status = 409 => call[h].st = "over" /\ call[h].ans \in {404, 409}
        /\ h \in Cancels =>
             /\ status # 502
             /\ status = 200 =>
                  handler[h].booking \in Creates /\ Booked(handler[h].booking, "cancelled")
             /\ Calm => handler[h].at \in {"idle", "refresh"}

LEMMA HandlerAloneKeepsSaga ==
  ASSUME HotelInv, SagaInv, NEW h \in Handlers, NEW stage, NEW status,
         Becomes(h, stage, handler[h].booking, status), Justified(h, stage, status),
         UNCHANGED <<env, hotelVars, bookings>>
  PROVE  SagaInv'
<1>1. /\ Typed' /\ OthersUnchanged(h)
      /\ handler'[h].at = stage /\ handler'[h].status = status
      /\ handler'[h].booking = handler[h].booking
      /\ UNCHANGED <<env, room, holder, revoked, call, bookings>>
  BY DEF Becomes, hotelVars
<1>2. env' \in Environments /\ BookingsTyped'
  BY <1>1 DEF SagaInv, BookingsTyped
<1>3. HandlersFollowCalls'
  BY <1>1 DEF SagaInv, HandlersFollowCalls, OthersUnchanged, Justified
<1>4. CreatesFollowCalls'
  <2> SUFFICES ASSUME NEW c \in Creates, c = h
               PROVE  /\ stage = "write" => bookings[c] = None
                      /\ stage = "refresh" \/ status = 201 => bookings[c] # None
                      /\ stage = "done" => status \in {201, 409, 500}
                      /\ status = 409 => call[c].st = "over" /\ call[c].ans \in {404, 409}
                      /\ stage \notin {"idle", "calling"}
    BY <1>1, CallersAre DEF SagaInv, CreatesFollowCalls, OthersUnchanged
  <2> QED
    BY DEF Justified, SagaInv, CreatesFollowCalls
<1>5. CancelsFollowCalls'
  <2> SUFFICES ASSUME NEW x \in Cancels, x = h
               PROVE  /\ stage = "refresh" \/ status = 200
                           => handler[x].booking \in Creates /\ Booked(handler[x].booking, "cancelled")
                      /\ status # 502
    BY <1>1, CallersAre DEF SagaInv, CancelsFollowCalls, OthersUnchanged, Booked
  <2> QED
    BY DEF Justified
<1>6. BookingsBacked' /\ CancelledMeansReleased'
  BY <1>1 DEF SagaInv, BookingsBacked, CancelledMeansReleased, Booked
<1>7. CalmHolds'
  <2> SUFFICES ASSUME Calm PROVE (CalmCalls /\ CalmCreates /\ CalmReleases /\ OneCancelEach)'
    BY <1>1, CalmHoldsIs DEF Calm, CalmHolds, CalmCalls, CalmCreates, CalmReleases, OneCancelEach
  <2>1. CalmCalls /\ CalmCreates /\ CalmReleases /\ OneCancelEach
    BY CalmHoldsIs DEF SagaInv
  <2>2. \A b : InProgress(b)' = InProgress(b)
    <3> SUFFICES ASSUME NEW x \in Cancels
                 PROVE  /\ handler'[x].booking = handler[x].booking
                        /\ handler'[x].at \in {"calling", "write"}
                              <=> handler[x].at \in {"calling", "write"}
      BY DEF InProgress
    <3> QED
      BY <1>1, CallersAre DEF OthersUnchanged, Justified
  <2>3. \A b \in Creates : Kept(b)' <=> Kept(b)
    BY <1>1, <2>2 DEF Kept, Active
  <2>4. CalmCalls' /\ CalmCreates'
    BY <1>1, <2>1, <2>3 DEF CalmCalls, CalmCreates
  <2>5. CalmReleases'
    <3>1. ASSUME NEW x \in Cancels, call[x].st = "sent" PROVE x # h
      BY <2>1, <3>1 DEF CalmReleases, Justified
    <3> QED
      BY <1>1, <2>1, <3>1, CallersAre DEF CalmReleases, OthersUnchanged
  <2>6. OneCancelEach'
    <3>1. \A x \in Cancels : handler'[x].booking = handler[x].booking
      BY <1>1, CallersAre DEF OthersUnchanged
    <3> QED
      BY <2>1, <2>2, <3>1 DEF OneCancelEach
  <2> QED
    BY <2>4, <2>5, <2>6
<1> QED
  BY <1>1, <1>2, <1>3, <1>4, <1>5, <1>6, <1>7 DEF SagaInv

LEMMA CreateBookingKeepsSaga ==
  ASSUME HotelInv, SagaInv, NEW c \in Creates, NEW r \in Rooms, CreateBooking(c, r)
  PROVE  SagaInv'
<1>1. /\ handler[c].at = "idle" /\ handler[c].booking = None /\ handler[c].status = 0
      /\ call[c].st = "idle" /\ bookings[c] = None
  BY CallersAre DEF SagaInv, HandlersFollowCalls, CreatesFollowCalls, CreateBooking
<1>2. CallBecomes(c, "sent", "reserve", r, 0)
  BY CallersAre, CallUpdates
     DEF CreateBooking, Hotel!Operations, HotelInv, Hotel!AtomicTypeOK, CallsTyped
<1>3. Becomes(c, "calling", None, 0)
  BY <1>1, CallersAre, HandlerUpdates DEF CreateBooking, SagaInv, Stage
<1>4. UNCHANGED <<env, room, holder, revoked, bookings>>
  BY DEF CreateBooking, Hotel!Send
<1>5. env' \in Environments /\ Typed' /\ BookingsTyped'
  BY <1>3, <1>4 DEF SagaInv, BookingsTyped, Becomes
<1>6. HandlersFollowCalls'
  BY <1>2, <1>3, CallersAre DEF SagaInv, HandlersFollowCalls, Becomes, OthersUnchanged, CallBecomes
<1>7. CreatesFollowCalls'
  BY <1>1, <1>2, <1>3, <1>4, CallersAre
     DEF SagaInv, CreatesFollowCalls, Becomes, OthersUnchanged, CallBecomes
<1>8. CancelsFollowCalls'
  <2>1. \A x \in Cancels : handler'[x] = handler[x] /\ call'[x] = call[x]
    BY <1>2, <1>3, CallersAre DEF Becomes, OthersUnchanged, CallBecomes
  <2> QED
    BY <1>4, <2>1 DEF SagaInv, CancelsFollowCalls, Booked
<1>9. BookingsBacked' /\ CancelledMeansReleased'
  <2>1. \A b \in Creates : bookings[b] # None => call'[b] = call[b]
    BY <1>1, <1>2, CallersAre DEF CallBecomes
  <2> QED
    BY <1>4, <2>1 DEF SagaInv, BookingsBacked, CancelledMeansReleased, Booked
<1>10. CalmHolds'
  <2> SUFFICES ASSUME Calm PROVE (CalmCalls /\ CalmCreates /\ CalmReleases /\ OneCancelEach)'
    BY <1>4, CalmHoldsIs DEF Calm, CalmHolds, CalmCalls, CalmCreates, CalmReleases, OneCancelEach
  <2>1. CalmCalls /\ CalmCreates /\ CalmReleases /\ OneCancelEach
    BY CalmHoldsIs DEF SagaInv
  <2>2. \A x \in Cancels : handler'[x] = handler[x] /\ call'[x] = call[x]
    BY <1>2, <1>3, CallersAre DEF Becomes, OthersUnchanged, CallBecomes
  <2>3. \A b : InProgress(b)' = InProgress(b)
    BY <2>2 DEF InProgress
  <2>4. \A b \in Creates : Kept(b)' <=> Kept(b)
    BY <1>4, <2>3 DEF Kept, Active
  <2>5. CalmCalls'
    BY <1>2, <2>1, CallersAre DEF CalmCalls, CallBecomes
  <2>6. CalmCreates'
    BY <1>2, <1>4, <2>1, <2>4, CallersAre DEF CalmCreates, CallBecomes
  <2>7. CalmReleases' /\ OneCancelEach'
    BY <1>4, <2>1, <2>2, <2>3 DEF CalmReleases, OneCancelEach
  <2> QED
    BY <2>5, <2>6, <2>7
<1> QED
  BY <1>5, <1>6, <1>7, <1>8, <1>9, <1>10 DEF SagaInv

LEMMA CancelBookingKeepsSaga ==
  ASSUME HotelInv, SagaInv, NEW x \in Cancels, NEW b \in Creates, CancelBooking(x, b)
  PROVE  SagaInv'
<1> DEFINE r == bookings[b].room_id
<1>1. /\ handler[x].at = "idle" /\ handler[x].status = 0 /\ call[x].st = "idle"
      /\ bookings[b] # None /\ bookings[b].status # "cancelled" /\ r \in Rooms
      /\ call[b].ans = 200 /\ call[b].room = r
  BY CallersAre, BookingStands
     DEF SagaInv, HandlersFollowCalls, CreatesFollowCalls, CancelBooking
<1>2. CallBecomes(x, "sent", "release", r, 0)
  BY <1>1, CallersAre, CallUpdates
     DEF CancelBooking, Hotel!Operations, HotelInv, Hotel!AtomicTypeOK, CallsTyped
<1>3. Becomes(x, "calling", b, 0)
  BY <1>1, CallersAre, HandlerUpdates DEF CancelBooking, SagaInv
<1>4. UNCHANGED <<env, room, holder, revoked, bookings>>
  BY DEF CancelBooking, Hotel!Send
<1>5. env' \in Environments /\ Typed' /\ BookingsTyped'
  BY <1>3, <1>4 DEF SagaInv, BookingsTyped, Becomes
<1>6. HandlersFollowCalls'
  BY <1>2, <1>3, CallersAre DEF SagaInv, HandlersFollowCalls, Becomes, OthersUnchanged, CallBecomes
<1>7. \A c \in Creates : handler'[c] = handler[c] /\ call'[c] = call[c]
  BY <1>2, <1>3, CallersAre DEF Becomes, OthersUnchanged, CallBecomes
<1>8. CreatesFollowCalls' /\ BookingsBacked' /\ CancelledMeansReleased'
  BY <1>4, <1>7 DEF SagaInv, CreatesFollowCalls, BookingsBacked, CancelledMeansReleased, Booked
<1>9. CancelsFollowCalls'
  <2>1. \A y \in Cancels : y # x => handler'[y] = handler[y] /\ call'[y] = call[y]
    BY <1>2, <1>3, CallersAre DEF Becomes, OthersUnchanged, CallBecomes
  <2> QED
    BY <1>1, <1>2, <1>3, <1>4, <2>1
       DEF SagaInv, CancelsFollowCalls, Booked, Becomes, CallBecomes
<1>10. CalmHolds'
  <2> SUFFICES ASSUME Calm PROVE (CalmCalls /\ CalmCreates /\ CalmReleases /\ OneCancelEach)'
    BY <1>4, CalmHoldsIs DEF Calm, CalmHolds, CalmCalls, CalmCreates, CalmReleases, OneCancelEach
  <2>1. CalmCalls /\ CalmCreates /\ CalmReleases /\ OneCancelEach
    BY CalmHoldsIs DEF SagaInv
  <2>2. InProgress(b) = {} /\ Kept(b)
    BY <1>1 DEF CancelBooking, Calm, Kept, Active
  <2>3. \A y \in Cancels : y # x => handler'[y] = handler[y] /\ call'[y] = call[y]
    BY <1>2, <1>3, CallersAre DEF Becomes, OthersUnchanged, CallBecomes
  <2>4. /\ handler'[x].at = "calling" /\ handler'[x].booking = b
        /\ call'[x].st = "sent" /\ call'[x].room = r /\ call'[x].ans = 0
    BY <1>2, <1>3 DEF Becomes, CallBecomes
  <2>5. x \in InProgress(b)' /\ \A a : InProgress(a) \subseteq InProgress(a)'
    BY <1>1, <2>3, <2>4 DEF InProgress
  <2>6. \A a \in Creates : Kept(a)' => Kept(a)
    BY <1>4, <2>5 DEF Kept, Active
  <2>7. CalmCalls'
    BY <1>2, <2>1, CallersAre DEF CalmCalls, CallBecomes
  <2>8. CalmCreates'
    BY <1>4, <1>7, <2>1, <2>6 DEF CalmCreates
  <2>9. holder[r] = b
    BY <1>1, <2>1, <2>2 DEF CalmCreates
  <2>10. CalmReleases'
    BY <1>4, <2>1, <2>3, <2>4, <2>9 DEF CalmReleases
  <2>11. OneCancelEach'
    <3> SUFFICES ASSUME NEW y \in Cancels, NEW z \in Cancels,
                        y \in InProgress(handler[y].booking)', z \in InProgress(handler[y].booking)'
                 PROVE  y = z
      BY DEF OneCancelEach
    <3>1. \A w \in Cancels : \A a : w # x /\ w \in InProgress(a)' => w \in InProgress(a)
      BY <2>3 DEF InProgress
    <3>2. handler'[y].booking = handler'[z].booking
      BY DEF InProgress
    <3>3. CASE y # x /\ z # x
      BY <2>1, <2>3, <3>1, <3>3 DEF OneCancelEach
    <3>4. CASE y = x \/ z = x
      BY <2>2, <2>4, <3>1, <3>2, <3>4
    <3> QED
      BY <3>3, <3>4
  <2> QED
    BY <2>7, <2>8, <2>10, <2>11
<1> QED
  BY <1>5, <1>6, <1>8, <1>9, <1>10 DEF SagaInv

(* The row b is now that of room r with this status, and the others are as they were. *)
RowBecomes(b, r, status) ==
  /\ BookingsTyped'
  /\ \A a \in Creates : a # b => bookings'[a] = bookings[a]
  /\ bookings'[b] # None
  /\ bookings'[b].room_id = r
  /\ bookings'[b].status = status

LEMMA RowUpdate ==
  ASSUME BookingsTyped, NEW b \in Creates, NEW row \in BookingRows,
         bookings' = [bookings EXCEPT ![b] = row]
  PROVE  RowBecomes(b, row.room_id, row.status)
  BY NoneIsNoRow DEF BookingsTyped, RowBecomes

LEMMA InsertBookingKeepsSaga ==
  ASSUME HotelInv, SagaInv, NEW c \in Creates, InsertBooking(c)
  PROVE  SagaInv'
<1> DEFINE r == call[c].room
<1>1. /\ handler[c].at = "write" /\ handler[c].status = 0 /\ bookings[c] = None
      /\ call[c].st = "over" /\ call[c].ans = 200 /\ call[c].op = "reserve" /\ r \in Rooms
  BY CallersAre
     DEF SagaInv, HandlersFollowCalls, CreatesFollowCalls, InsertBooking, HotelInv, CallsWellFormed
<1>2. RowBecomes(c, r, "pending")
  <2> DEFINE row == [room_id |-> r, status |-> "pending"]
  <2>1. row \in BookingRows /\ row.room_id = r /\ row.status = "pending"
    BY <1>1 DEF BookingRows
  <2>2. bookings' = [bookings EXCEPT ![c] = row]
    BY DEF InsertBooking
  <2> QED
    BY <2>1, <2>2, RowUpdate DEF SagaInv
<1>3. Becomes(c, "refresh", handler[c].booking, 0)
  BY <1>1, CallersAre, HandlerUpdates DEF InsertBooking, SagaInv, Stage
<1>4. UNCHANGED <<env, room, holder, revoked, call>>
  BY DEF InsertBooking, hotelVars
<1>5. holder[r] = c \/ c \in revoked
  BY <1>1, CallersAre DEF HotelInv, HoldsAccountedFor, Hotel!HoldsAccountedFor
<1>6. env' \in Environments /\ Typed' /\ BookingsTyped'
  BY <1>2, <1>3, <1>4 DEF SagaInv, RowBecomes, Becomes
<1>7. HandlersFollowCalls'
  BY <1>1, <1>3, <1>4, CallersAre DEF SagaInv, HandlersFollowCalls, Becomes, OthersUnchanged
<1>8. CreatesFollowCalls'
  BY <1>1, <1>2, <1>3, <1>4, CallersAre
     DEF SagaInv, CreatesFollowCalls, Becomes, OthersUnchanged, RowBecomes
<1>9. \A x \in Cancels : handler'[x] = handler[x]
  BY <1>3, CallersAre DEF Becomes, OthersUnchanged
<1>10. \A b \in Creates : bookings[b] # None => bookings'[b] = bookings[b]
  BY <1>1, <1>2 DEF RowBecomes
<1>11. CancelsFollowCalls'
  <2> SUFFICES ASSUME NEW x \in Cancels, NEW b, b = handler[x].booking
               PROVE  /\ call[x].st # "idle" =>
                           /\ call[x].op = "release"
                           /\ b \in Creates /\ bookings'[b] # None
                           /\ call[x].room = bookings'[b].room_id
                      /\ call[x].ans = 200 => b \in revoked
                      /\ call[x].ans # 404 /\ handler[x].status # 502
                      /\ handler[x].at = "refresh" \/ handler[x].status = 200
                           => b \in Creates /\ bookings'[b] # None /\ bookings'[b].status = "cancelled"
    BY <1>4, <1>9 DEF CancelsFollowCalls, Booked
  <2>0. /\ call[x].st # "idle" =>
             /\ call[x].op = "release"
             /\ b \in Creates /\ bookings[b] # None
             /\ call[x].room = bookings[b].room_id
        /\ call[x].ans = 200 => b \in revoked
        /\ call[x].ans # 404 /\ handler[x].status # 502
        /\ handler[x].at = "refresh" \/ handler[x].status = 200
             => b \in Creates /\ bookings[b] # None /\ bookings[b].status = "cancelled"
    BY DEF SagaInv, CancelsFollowCalls, Booked
  <2>2. CASE b = c
    BY <1>1, <2>0, <2>2
  <2>3. CASE b \in Creates \ {c}
    BY <1>2, <2>0, <2>3 DEF RowBecomes
  <2>4. CASE b \notin Creates
    BY <2>0, <2>4
  <2> QED
    BY <2>2, <2>3, <2>4
<1>12. BookingsBacked' /\ CancelledMeansReleased'
  BY <1>1, <1>2, <1>4, <1>5, <1>10
     DEF SagaInv, BookingsBacked, CancelledMeansReleased, Booked, RowBecomes
<1>13. CalmHolds'
  <2> SUFFICES ASSUME Calm PROVE (CalmCalls /\ CalmCreates /\ CalmReleases /\ OneCancelEach)'
    BY <1>4, CalmHoldsIs DEF Calm, CalmHolds, CalmCalls, CalmCreates, CalmReleases, OneCancelEach
  <2>1. CalmCalls /\ CalmCreates /\ CalmReleases /\ OneCancelEach
    BY CalmHoldsIs DEF SagaInv
  <2>2. \A b : InProgress(b)' = InProgress(b)
    BY <1>9 DEF InProgress
  <2>3. \A b \in Creates : b # c => (Kept(b)' <=> Kept(b)) /\ bookings'[b] = bookings[b]
    BY <1>2, <2>2 DEF Kept, Active, RowBecomes
  <2>4. CalmCreates'
    BY <1>1, <1>4, <2>1, <2>3 DEF CalmCreates
  <2>5. CalmCalls' /\ CalmReleases' /\ OneCancelEach'
    BY <1>4, <1>9, <2>1, <2>2 DEF CalmCalls, CalmReleases, OneCancelEach
  <2> QED
    BY <2>4, <2>5
<1> QED
  BY <1>6, <1>7, <1>8, <1>11, <1>12, <1>13 DEF SagaInv

LEMMA MarkCancelledKeepsSaga ==
  ASSUME HotelInv, SagaInv, NEW x \in Cancels, MarkCancelled(x)
  PROVE  SagaInv'
<1>0. PICK b : b = handler[x].booking
  OBVIOUS
<1> DEFINE r == bookings[b].room_id
<1>1. /\ handler[x].at = "write" /\ handler[x].status = 0
      /\ call[x].st = "over" /\ call[x].ans = 200
      /\ b \in Creates /\ bookings[b] # None /\ b \in revoked
  BY <1>0, CallersAre DEF SagaInv, HandlersFollowCalls, CancelsFollowCalls, MarkCancelled
<1>2. RowBecomes(b, r, "cancelled")
  <2> DEFINE row == [bookings[b] EXCEPT !.status = "cancelled"]
  <2>1. row \in BookingRows /\ row.room_id = r /\ row.status = "cancelled"
    <3>1. bookings[b] \in BookingRows
      BY <1>1, BookingStands
    <3> QED
      BY <3>1 DEF BookingRows
  <2>2. bookings' = [bookings EXCEPT ![b] = row]
    BY <1>0 DEF MarkCancelled
  <2> QED
    BY <1>1, <2>1, <2>2, RowUpdate DEF SagaInv
<1>3. Becomes(x, "refresh", b, 0)
  BY <1>0, <1>1, CallersAre, HandlerUpdates DEF MarkCancelled, SagaInv, Stage
<1>4. UNCHANGED <<env, room, holder, revoked, call>>
  BY DEF MarkCancelled, hotelVars
<1>5. env' \in Environments /\ Typed' /\ BookingsTyped'
  BY <1>2, <1>3, <1>4 DEF SagaInv, RowBecomes, Becomes
<1>6. HandlersFollowCalls'
  BY <1>1, <1>3, <1>4, CallersAre DEF SagaInv, HandlersFollowCalls, Becomes, OthersUnchanged
<1>7. \A c \in Creates : handler'[c] = handler[c]
  BY <1>3, CallersAre DEF Becomes, OthersUnchanged
<1>8. \A a \in Creates :
        /\ bookings'[a] = None <=> bookings[a] = None
        /\ bookings[a] # None => bookings'[a].room_id = bookings[a].room_id
        /\ bookings[a] # None /\ bookings[a].status = "cancelled" => bookings'[a].status = "cancelled"
        /\ a # b => bookings'[a] = bookings[a]
  BY <1>1, <1>2 DEF RowBecomes
<1>9. CreatesFollowCalls'
  BY <1>4, <1>7, <1>8 DEF SagaInv, CreatesFollowCalls
<1>10. CancelsFollowCalls'
  <2> SUFFICES ASSUME NEW y \in Cancels, NEW a, a = handler[y].booking
               PROVE  /\ handler'[y].booking = a
                      /\ call[y].st # "idle" =>
                           /\ call[y].op = "release"
                           /\ a \in Creates /\ bookings'[a] # None
                           /\ call[y].room = bookings'[a].room_id
                      /\ call[y].ans = 200 => a \in revoked
                      /\ call[y].ans # 404 /\ handler'[y].status # 502
                      /\ handler'[y].at = "refresh" \/ handler'[y].status = 200
                           => a \in Creates /\ bookings'[a] # None /\ bookings'[a].status = "cancelled"
    BY <1>4 DEF CancelsFollowCalls, Booked
  <2>0. /\ call[y].st # "idle" =>
             /\ call[y].op = "release"
             /\ a \in Creates /\ bookings[a] # None
             /\ call[y].room = bookings[a].room_id
        /\ call[y].ans = 200 => a \in revoked
        /\ call[y].ans # 404 /\ handler[y].status # 502
        /\ handler[y].at = "refresh" \/ handler[y].status = 200
             => a \in Creates /\ bookings[a] # None /\ bookings[a].status = "cancelled"
    BY DEF SagaInv, CancelsFollowCalls, Booked
  <2>2. CASE y = x
    BY <1>0, <1>1, <1>2, <1>3, <1>8, <2>0, <2>2 DEF Becomes, RowBecomes
  <2>3. CASE y # x /\ a \in Creates
    BY <1>3, <1>8, <2>0, <2>3, CallersAre DEF Becomes, OthersUnchanged
  <2>4. CASE y # x /\ a \notin Creates
    BY <1>3, <2>0, <2>4, CallersAre DEF Becomes, OthersUnchanged
  <2> QED
    BY <2>2, <2>3, <2>4
<1>11. BookingsBacked' /\ CancelledMeansReleased'
  BY <1>1, <1>4, <1>8 DEF SagaInv, BookingsBacked, CancelledMeansReleased, Booked
<1>12. CalmHolds'
  <2> SUFFICES ASSUME Calm PROVE (CalmCalls /\ CalmCreates /\ CalmReleases /\ OneCancelEach)'
    BY <1>4, CalmHoldsIs DEF Calm, CalmHolds, CalmCalls, CalmCreates, CalmReleases, OneCancelEach
  <2>1. CalmCalls /\ CalmCreates /\ CalmReleases /\ OneCancelEach
    BY CalmHoldsIs DEF SagaInv
  <2>2. /\ \A y \in Cancels : y # x => handler'[y] = handler[y]
        /\ handler'[x].at = "refresh"
        /\ handler'[x].booking = b /\ handler[x].booking = b
    BY <1>0, <1>3, CallersAre DEF Becomes, OthersUnchanged
  <2>3. \A a : InProgress(a)' \subseteq InProgress(a) /\ (a # b => InProgress(a)' = InProgress(a))
    BY <2>2 DEF InProgress
  <2>4. \A a \in Creates : Kept(a)' => Kept(a)
    <3>1. ~Kept(b)'
      BY <1>2 DEF Kept, Active, RowBecomes
    <3> QED
      BY <1>8, <2>3, <3>1 DEF Kept, Active
  <2>5. CalmCalls' /\ CalmCreates'
    BY <1>4, <1>8, <2>1, <2>4 DEF CalmCalls, CalmCreates
  <2>6. CalmReleases'
    BY <1>1, <1>4, <2>1, <2>2 DEF CalmReleases
  <2>7. OneCancelEach'
    <3>1. \A y \in Cancels : handler'[y].booking = handler[y].booking
      BY <2>2
    <3> QED
      BY <2>1, <2>3, <3>1 DEF OneCancelEach
  <2> QED
    BY <2>5, <2>6, <2>7
<1> QED
  BY <1>5, <1>6, <1>9, <1>10, <1>11, <1>12 DEF SagaInv

LEMMA FinishKeepsSaga ==
  ASSUME HotelInv, SagaInv, NEW h \in Handlers, NEW status \in Status,
         Finish(h, status), Justified(h, "done", status), UNCHANGED <<env, hotelVars, bookings>>
  PROVE  SagaInv'
<1>1. Becomes(h, "done", handler[h].booking, status)
  BY HandlerUpdates DEF SagaInv
<1> QED
  BY <1>1, HandlerAloneKeepsSaga

LEMMA GrantedKeepsSaga ==
  ASSUME HotelInv, SagaInv, NEW h \in Handlers,
         Answered(h, {200}), GoTo(h, "write"), UNCHANGED <<env, hotelVars, bookings>>
  PROVE  SagaInv'
<1>1. Becomes(h, "write", handler[h].booking, 0)
  <2>1. handler[h].status = 0 /\ "write" \in Stage /\ Typed
    BY DEF SagaInv, Stage, HandlersFollowCalls, Answered
  <2> QED
    BY <2>1, HandlerUpdates
<1>2. Justified(h, "write", 0)
  BY DEF Justified, Answered
<1> QED
  BY <1>1, <1>2, HandlerAloneKeepsSaga

(* The steps of a handler on its own. *)
LEMMA HandlerStepsKeepSaga ==
  ASSUME HotelInv, SagaInv, NEW h \in Handlers,
         HandlerStep(h) \/ CallTimeout(h) \/ DatabaseFails(h)
  PROVE  SagaInv'
<1>1. CASE h \in Creates /\ CreateRefused(h)
  <2>1. Justified(h, "done", 409)
    BY <1>1, CallersAre DEF Justified, CreateRefused, Answered
  <2> QED
    BY <1>1, <2>1, FinishKeepsSaga, StatusesAre DEF CreateRefused
<1>2. CASE h \in Creates /\ CreateGranted(h)
  BY <1>2, GrantedKeepsSaga DEF CreateGranted
<1>3. CASE h \in Creates /\ InsertBooking(h)
  BY <1>3, InsertBookingKeepsSaga
<1>4. CASE h \in Cancels /\ CancelMissing(h)
  BY <1>4 DEF CancelMissing, Answered, SagaInv, CancelsFollowCalls
<1>5. CASE h \in Cancels /\ CancelReleased(h)
  BY <1>5, GrantedKeepsSaga DEF CancelReleased
<1>6. CASE h \in Cancels /\ MarkCancelled(h)
  BY <1>6, MarkCancelledKeepsSaga
<1>7. CASE Return(h)
  <2> DEFINE status == IF h \in Creates THEN 201 ELSE 200
  <2>1. Justified(h, "done", status)
    BY <1>7, CallersAre DEF Justified, Return, SagaInv, CreatesFollowCalls, CancelsFollowCalls
  <2>2. status \in Status
    BY StatusesAre
  <2> HIDE DEF status
  <2>3. Finish(h, status) /\ UNCHANGED <<env, hotelVars, bookings>>
    BY <1>7 DEF Return, status
  <2> QED
    BY <2>1, <2>2, <2>3, FinishKeepsSaga
<1>8. CASE HotelFailed(h)
  <2>1. Justified(h, "done", 500)
    BY <1>8, CallersAre DEF Justified, HotelFailed, Answered, SagaInv, CalmHolds
  <2> QED
    BY <1>8, <2>1, FinishKeepsSaga, StatusesAre DEF HotelFailed
<1>9. CASE CallTimeout(h) \/ DatabaseFails(h)
  <2>1. Justified(h, "done", 500)
    BY <1>9 DEF Justified, CallTimeout, DatabaseFails, Calm
  <2> QED
    BY <1>9, <2>1, FinishKeepsSaga, StatusesAre DEF CallTimeout, DatabaseFails
<1> QED
  BY <1>1, <1>2, <1>3, <1>4, <1>5, <1>6, <1>7, <1>8, <1>9
     DEF HandlerStep, CreateStep, CancelStep

LEMMA CancelRejectedKeepsSaga ==
  ASSUME HotelInv, SagaInv, NEW x \in Cancels, NEW b \in Creates, CancelRejected(x, b)
  PROVE  SagaInv'
<1> DEFINE status == IF bookings[b] = None THEN 404 ELSE 409
<1>1. Justified(x, "done", status)
  BY CallersAre DEF Justified, CancelRejected
<1>2. status \in Status
  BY StatusesAre
<1> HIDE DEF status
<1>3. Finish(x, status) /\ UNCHANGED <<env, hotelVars, bookings>>
  BY DEF CancelRejected, status
<1> QED
  BY <1>1, <1>2, <1>3, FinishKeepsSaga, CallersAre

-----------------------------------------------------------------------------
(***************************************************************************)
(* Every step of the two services is, for the rooms and the calls, a step  *)
(* of the atomic hotel or none at all: the rooms change only by way of     *)
(* calls (bookings.py:23 and 51, rooms.controller.ts:105-133).             *)
(***************************************************************************)
LEMMA NextUsesHotel ==
  ASSUME HotelInv, SagaInv, [Next]_vars
  PROVE  [Hotel!AtomicNext]_hotelVars
<1>1. ASSUME NEW c \in Creates, NEW r \in Rooms, CreateBooking(c, r)
      PROVE  Hotel!AtomicNext
  BY <1>1, CallersAre DEF CreateBooking, Hotel!AtomicNext, Hotel!Operations
<1>2. ASSUME NEW x \in Cancels, NEW b \in Creates, CancelBooking(x, b)
      PROVE  Hotel!AtomicNext
  <2>1. bookings[b].room_id \in Rooms
    BY <1>2, BookingStands DEF CancelBooking
  <2> QED
    BY <1>2, <2>1, CallersAre DEF CancelBooking, Hotel!AtomicNext, Hotel!Operations
<1>3. ASSUME NEW x \in Cancels, NEW b \in Creates, CancelRejected(x, b)
      PROVE  UNCHANGED hotelVars
  BY <1>3 DEF CancelRejected
<1>4. ASSUME NEW h \in Handlers, HandlerStep(h) \/ CallTimeout(h) \/ DatabaseFails(h)
      PROVE  UNCHANGED hotelVars
  BY <1>4 DEF HandlerStep, CreateStep, CancelStep, CreateRefused, CreateGranted, InsertBooking,
     CancelMissing, CancelReleased, MarkCancelled, Return, HotelFailed, CallTimeout, DatabaseFails
<1>5. ASSUME NEW d \in Directs, NEW op \in Hotel!Operations, NEW r \in Rooms, DirectCall(d, op, r)
      PROVE  Hotel!AtomicNext
  BY <1>5, CallersAre DEF DirectCall, Hotel!AtomicNext
<1>6. ASSUME NEW c \in Callers, HotelServes(c) \/ HotelBreaks(c)
      PROVE  Hotel!AtomicNext
  BY <1>6 DEF HotelServes, HotelBreaks, Hotel!AtomicNext
<1>7. ASSUME NEW r \in Rooms, HotelOpens(r)
      PROVE  Hotel!AtomicNext
  BY <1>7 DEF HotelOpens, Hotel!AtomicNext
<1>8. CASE Quiet \/ UNCHANGED vars
  BY <1>8 DEF Quiet, vars, hotelVars
<1>9. Hotel!atomicVars = hotelVars
  BY DEF Hotel!atomicVars, hotelVars
<1> QED
  BY <1>1, <1>2, <1>3, <1>4, <1>5, <1>6, <1>7, <1>8, <1>9 DEF Next

LEMMA HotelInvKept ==
  ASSUME HotelInv, [Hotel!AtomicNext]_hotelVars
  PROVE  HotelInv'
<1>1. CASE UNCHANGED hotelVars
  BY <1>1, StutterKeepsHotel
<1>2. CASE Hotel!AllAnswered
  BY <1>2, StutterKeepsHotel DEF Hotel!AllAnswered, Hotel!atomicVars, hotelVars
<1> QED
  BY <1>1, <1>2, SendKeepsHotel, ApplyKeepsHotel, EndKeepsHotel, OpenKeepsHotel
     DEF Hotel!AtomicNext

LEMMA SagaInvKept ==
  ASSUME HotelInv, SagaInv, [Next]_vars
  PROVE  SagaInv'
<1>1. ASSUME NEW c \in Creates, NEW r \in Rooms, CreateBooking(c, r)
      PROVE  SagaInv'
  BY <1>1, CreateBookingKeepsSaga
<1>2. ASSUME NEW x \in Cancels, NEW b \in Creates, CancelRejected(x, b) \/ CancelBooking(x, b)
      PROVE  SagaInv'
  BY <1>2, CancelRejectedKeepsSaga, CancelBookingKeepsSaga
<1>3. ASSUME NEW h \in Handlers, HandlerStep(h) \/ CallTimeout(h) \/ DatabaseFails(h)
      PROVE  SagaInv'
  BY <1>3, HandlerStepsKeepSaga
<1>4. ASSUME NEW d \in Directs, NEW op \in Hotel!Operations, NEW r \in Rooms, DirectCall(d, op, r)
      PROVE  SagaInv'
  BY <1>4, DirectKeepsSaga
<1>5. ASSUME NEW c \in Callers, HotelServes(c) \/ HotelBreaks(c)
      PROVE  SagaInv'
  BY <1>5, HotelMoveKeepsSaga DEF HotelServes, HotelBreaks
<1>6. ASSUME NEW r \in Rooms, HotelOpens(r)
      PROVE  SagaInv'
  BY <1>6, OpenKeepsSaga DEF HotelOpens, Hotel!Open
<1>7. CASE Quiet \/ UNCHANGED vars
  BY <1>7, OpenKeepsSaga DEF Quiet, vars
<1> QED
  BY <1>1, <1>2, <1>3, <1>4, <1>5, <1>6, <1>7 DEF Next

LEMMA InitEstablishes == Init => InductiveInv
<1> SUFFICES ASSUME Init PROVE HotelInv /\ SagaInv
  BY Halves
<1>1. /\ \A c \in Callers : call[c] = Hotel!NotMade
      /\ \A h \in Handlers : handler[h] = [at |-> "idle", booking |-> None, status |-> 0]
      /\ \A b \in Creates : bookings[b] = None
      /\ \A r \in Rooms : holder[r] = None
      /\ revoked = {}
  BY DEF Init, Hotel!AtomicInit
<1>2. Hotel!AtomicTypeOK
  BY DEF Init, Hotel!AtomicInit, Hotel!AtomicTypeOK, Hotel!NotMade, Hotel!Calls, Hotel!Answers
<1>3. CallsWellFormed /\ HoldsInEffect /\ HoldsAccountedFor
  BY <1>1 DEF CallsWellFormed, HoldsInEffect, HoldsAccountedFor, Hotel!HoldsAccountedFor, Hotel!NotMade
<1>4. env \in Environments /\ Typed /\ BookingsTyped
  BY DEF Init, Typed, BookingsTyped, HandlerStates
<1>5. HandlersFollowCalls /\ CreatesFollowCalls /\ CancelsFollowCalls
  BY <1>1, CallersAre
     DEF HandlersFollowCalls, CreatesFollowCalls, CancelsFollowCalls, Hotel!NotMade
<1>6. BookingsBacked /\ CancelledMeansReleased
  BY <1>1 DEF BookingsBacked, CancelledMeansReleased, Booked
<1>7. CalmHolds
  BY <1>1, CallersAre DEF CalmHolds, InProgress, Hotel!NotMade
<1> QED
  BY <1>2, <1>3, <1>4, <1>5, <1>6, <1>7 DEF HotelInv, SagaInv

-----------------------------------------------------------------------------

(***************************************************************************)
(* Calls, handlers, rooms and rows agree in every reachable state, with    *)
(* any number of requests and every failure (bookings.py:20-57).           *)
(***************************************************************************)
THEOREM Invariance == Spec => []InductiveInv
<1>1. ASSUME InductiveInv, [Next]_vars PROVE InductiveInv'
  <2>1. HotelInv /\ SagaInv
    BY <1>1, Halves
  <2>2. HotelInv' /\ SagaInv'
    BY <1>1, <2>1, NextUsesHotel, HotelInvKept, SagaInvKept
  <2> QED
    BY <2>2 DEF InductiveInv, HotelInv, SagaInv, TypeOK, Typed, BookingsTyped, HoldsMatchBookings
<1> QED
  BY <1>1, InitEstablishes, PTL DEF Spec

(***************************************************************************)
(* The rooms and the bookings, in two databases that share no transaction, *)
(* agree: holds add up, bookings stand on reservations of their own, and   *)
(* no cancelled booking keeps its room (bookings.py:22-29, 49-55).         *)
(***************************************************************************)
THEOREM RoomsAndBookings == Spec => []HoldsMatchBookings
<1>1. InductiveInv => HoldsMatchBookings
  BY DEF InductiveInv
<1> QED
  BY <1>1, Invariance, PTL

(* What booking-service answers is so (bookings.py:20-57). *)
THEOREM HonestAnswers == Spec => []AnswersHonest
<1>1. ASSUME InductiveInv PROVE AnswersHonest
  <2>1. ASSUME NEW c \in Creates, handler[c].status = 409
        PROVE  bookings[c] = None /\ c \notin revoked /\ \A r \in Rooms : holder[r] # c
    <3>1. call[c].ans \in {404, 409} /\ bookings[c] = None
      BY <1>1, <2>1 DEF InductiveInv, CreatesFollowCalls
    <3>2. c # None /\ ~InEffect(c)
      BY <3>1, NoneIsFresh DEF InEffect
    <3> QED
      BY <1>1, <3>1, <3>2 DEF InductiveInv, HoldsInEffect
  <2> QED
    BY <1>1, <2>1 DEF AnswersHonest, InductiveInv, CreatesFollowCalls, CancelsFollowCalls
<1> QED
  BY <1>1, Invariance, PTL

(***************************************************************************)
(* A room that a create took is in use, or its client was told 500: only a *)
(* failed create leaves a room reserved for nobody (bookings.py:23-29).    *)
(***************************************************************************)
THEOREM HoldsHaveReasons == Spec => []HeldForReason
<1>1. ASSUME InductiveInv PROVE HeldForReason
  <2> SUFFICES ASSUME NEW r \in Rooms, NEW c \in Creates, holder[r] = c,
                      handler[c].at = "done", handler[c].status # 500
               PROVE  Active(c)
    BY DEF HeldForReason
  <2>1. InEffect(c) /\ c \notin revoked
    BY <1>1, NoneIsFresh
       DEF InductiveInv, HoldsInEffect, HoldsMatchBookings, HoldsAccountedFor, Hotel!HoldsAccountedFor
  <2>2. bookings[c] # None
    BY <1>1, <2>1 DEF InductiveInv, CreatesFollowCalls, InEffect
  <2> QED
    BY <1>1, <2>1, <2>2 DEF InductiveInv, HoldsMatchBookings, CancelledMeansReleased, Booked, Active
<1> QED
  BY <1>1, Invariance, PTL

(***************************************************************************)
(* As long as nothing fails, cancels of one booking do not overlap and     *)
(* nobody calls the hotel directly, no room is booked twice, for any       *)
(* number of competing clients (bookings.py:22-29, rooms.py:40-71).        *)
(***************************************************************************)
THEOREM NoDoubleBookingWhenCalm == Spec => []CalmNoDoubleBooking
<1>1. ASSUME InductiveInv PROVE CalmNoDoubleBooking
  <2>1. HotelInv /\ SagaInv
    BY <1>1, Halves
  <2>2. ASSUME Calm, NEW b \in Creates, Kept(b)
        PROVE  holder[bookings[b].room_id] = b
    <3>1. call[b].ans = 200 /\ call[b].room = bookings[b].room_id
      BY <2>1, <2>2, BookingStands DEF Kept, Active
    <3> QED
      BY <1>1, <2>2, <3>1 DEF InductiveInv, CalmHolds
  <2> QED
    BY <2>2 DEF CalmNoDoubleBooking, NoDoubleBooking
<1> QED
  BY <1>1, Invariance, PTL

(***************************************************************************)
(* The bookings use the hotel as AtomicRooms describes it, which is what   *)
(* the hotel's own code implements by HotelRooms_proofs.                   *)
(***************************************************************************)
THEOREM UsesAtomicHotel == Spec => Hotel!AtomicSpec
<1>1. Init => Hotel!AtomicInit
  BY DEF Init
<1>2. ASSUME InductiveInv, [Next]_vars PROVE [Hotel!AtomicNext]_(Hotel!atomicVars)
  <2>1. [Hotel!AtomicNext]_hotelVars
    BY <1>2, Halves, NextUsesHotel
  <2> QED
    BY <2>1 DEF Hotel!atomicVars, hotelVars
<1> QED
  BY <1>1, <1>2, Invariance, PTL DEF Spec, Hotel!AtomicSpec

=============================================================================
