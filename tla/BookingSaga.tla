---------------------------- MODULE BookingSaga ----------------------------
(***************************************************************************)
(* booking-service and its use of hotel-service.  Creating a booking       *)
(* reserves the room over HTTP and then inserts the row; cancelling reads  *)
(* the row, releases the room over HTTP and then updates the row.  The two *)
(* databases share no transaction, nothing is retried and nothing is       *)
(* compensated.  The gateway also lets clients call the hotel's reserve    *)
(* and release endpoints directly.                                         *)
(*                                                                         *)
(* hotel-service appears as AtomicRooms, which HotelRooms implements.      *)
(* Every request is one element of Creates, Cancels or Directs; a client's *)
(* retry is another element.  A booking is named by the create that made   *)
(* it: its primary key.                                                    *)
(***************************************************************************)
EXTENDS Naturals

CONSTANTS
  Rooms,      \* room ids
  Creates,    \* POST /bookings
  Cancels,    \* POST /bookings/{id}/cancel
  Directs,    \* POST /rooms/{id}/reserve and /release through the gateway
  Environments, \* what may go wrong, and who calls: subset of AllEnvironments
  None

AllFaults == {"timeout", "hotel", "database"}

(***************************************************************************)
(* overlap: may two cancels of one booking be in progress at once?         *)
(* creates: which creates arrive, a bound.                                 *)
(***************************************************************************)
AllEnvironments ==
  [faults : SUBSET AllFaults, overlap : BOOLEAN, directs : SUBSET Directs,
   creates : SUBSET Creates]

ASSUME RequestsDistinct ==
  /\ Creates \cap Cancels = {}
  /\ Creates \cap Directs = {}
  /\ Cancels \cap Directs = {}
ASSUME NoneIsFresh == None \notin Rooms \cup Creates \cup Cancels \cup Directs
ASSUME EnvironmentsKnown == Environments \subseteq AllEnvironments

(***************************************************************************)
(* Definitions whose comment starts with "Variant" are faulty versions of  *)
(* the definition that follows them, and no action uses them.              *)
(***************************************************************************)
VARIABLES
  env,        \* the environment, which never changes
  room, holder, revoked, call,  \* hotel-service, see AtomicRooms
  bookings,   \* committed rows of table bookings, None where there is none
  handler     \* progress of the booking-service handlers

vars == <<env, room, holder, revoked, call, bookings, handler>>
hotelVars == <<room, holder, revoked, call>>

Handlers == Creates \cup Cancels
Callers == Handlers \cup Directs

Hotel == INSTANCE AtomicRooms

-----------------------------------------------------------------------------

BookingRows == [room_id: Rooms, status: {"pending", "confirmed", "cancelled"}]

ASSUME NoneIsNoRow == None \notin BookingRows

(***************************************************************************)
(* at = "idle"    not arrived                                              *)
(*      "calling" awaiting hotel-service                                   *)
(*      "write"   hotel-service agreed, the row is not committed yet       *)
(*      "refresh" committed; the row is being re-read for the body         *)
(*      "done"    answered with status                                     *)
(***************************************************************************)
HandlerStates ==
  [ at      : {"idle", "calling", "write", "refresh", "done"},
    booking : Creates \cup {None},
    status  : {0, 200, 201, 404, 409, 500, 502} ]

TypeOK ==
  /\ env \in Environments
  /\ Hotel!AtomicTypeOK
  /\ bookings \in [Creates -> BookingRows \cup {None}]
  /\ handler \in [Handlers -> HandlerStates]

Init ==
  /\ env \in Environments
  /\ Hotel!AtomicInit
  /\ bookings = [b \in Creates |-> None]
  /\ handler = [h \in Handlers |-> [at |-> "idle", booking |-> None, status |-> 0]]

-----------------------------------------------------------------------------

Finish(h, status) == handler' = [handler EXCEPT ![h].at = "done", ![h].status = status]

GoTo(h, stage) == handler' = [handler EXCEPT ![h].at = stage]

(* The hotel's answer has arrived, and the handler still waits for it. *)
Answered(h, answers) ==
  /\ handler[h].at = "calling"
  /\ call[h].st = "over"
  /\ call[h].ans \in answers

(* create_booking: await reserve_room(payload.room_id). *)
CreateBooking(c, r) ==
  /\ handler[c].at = "idle"
  /\ c \in env.creates
  /\ Hotel!Send(c, "reserve", r)
  /\ GoTo(c, "calling")
  /\ UNCHANGED <<env, bookings>>

(* 404 and 409 of the hotel are HotelServiceErrors: the booking is refused. *)
CreateRefused(c) ==
  /\ Answered(c, {404, 409})
  /\ Finish(c, 409)
  /\ UNCHANGED <<env, hotelVars, bookings>>

CreateGranted(c) ==
  /\ Answered(c, {200})
  /\ GoTo(c, "write")
  /\ UNCHANGED <<env, hotelVars, bookings>>

(* Variant: a status that the enumeration does not have. *)
InsertBookingUnknown(c) ==
  /\ handler[c].at = "write"
  /\ bookings' = [bookings EXCEPT ![c] = [room_id |-> call[c].room, status |-> "new"]]
  /\ GoTo(c, "refresh")
  /\ UNCHANGED <<env, hotelVars>>

(* The row is inserted and committed, as pending. *)
InsertBooking(c) ==
  /\ handler[c].at = "write"
  /\ bookings' = [bookings EXCEPT ![c] = [room_id |-> call[c].room, status |-> "pending"]]
  /\ GoTo(c, "refresh")
  /\ UNCHANGED <<env, hotelVars>>

-----------------------------------------------------------------------------

InProgress(b) ==
  {x \in Cancels : handler[x].booking = b /\ handler[x].at \in {"calling", "write"}}

(* cancel_booking reads the row, unlocked: it is missing, or cancelled... *)
CancelRejected(x, b) ==
  /\ handler[x].at = "idle"
  /\ \/ bookings[b] = None
     \/ bookings[b] # None /\ bookings[b].status = "cancelled"
  /\ Finish(x, IF bookings[b] = None THEN 404 ELSE 409)
  /\ UNCHANGED <<env, hotelVars, bookings>>

(* Variant: "already cancelled" is not looked for. *)
CancelBookingAgain(x, b) ==
  /\ handler[x].at = "idle"
  /\ bookings[b] # None
  /\ env.overlap \/ InProgress(b) = {}
  /\ Hotel!Send(x, "release", bookings[b].room_id)
  /\ handler' = [handler EXCEPT ![x].at = "calling", ![x].booking = b]
  /\ UNCHANGED <<env, bookings>>

(* ... or live: await release_room(booking.room_id). *)
CancelBooking(x, b) ==
  /\ handler[x].at = "idle"
  /\ bookings[b] # None
  /\ bookings[b].status # "cancelled"
  /\ env.overlap \/ InProgress(b) = {}
  /\ Hotel!Send(x, "release", bookings[b].room_id)
  /\ handler' = [handler EXCEPT ![x].at = "calling", ![x].booking = b]
  /\ UNCHANGED <<env, bookings>>

(* The hotel's 404 is a HotelServiceError, which cancel answers with 502. *)
CancelMissing(x) ==
  /\ Answered(x, {404})
  /\ Finish(x, 502)
  /\ UNCHANGED <<env, hotelVars, bookings>>

(* Variant: the cancel goes on whatever the hotel has answered. *)
CancelReleasedAnyway(x) ==
  /\ Answered(x, {200, 404, 500})
  /\ GoTo(x, "write")
  /\ UNCHANGED <<env, hotelVars, bookings>>

CancelReleased(x) ==
  /\ Answered(x, {200})
  /\ GoTo(x, "write")
  /\ UNCHANGED <<env, hotelVars, bookings>>

(* The status is set and committed, without looking at the row again. *)
MarkCancelled(x) ==
  /\ handler[x].at = "write"
  /\ bookings' = [bookings EXCEPT ![handler[x].booking].status = "cancelled"]
  /\ GoTo(x, "refresh")
  /\ UNCHANGED <<env, hotelVars>>

-----------------------------------------------------------------------------

(* Create and cancel end alike: the row is refreshed and returned. *)
Return(h) ==
  /\ handler[h].at = "refresh"
  /\ Finish(h, IF h \in Creates THEN 201 ELSE 200)
  /\ UNCHANGED <<env, hotelVars, bookings>>

(* raise_for_status: any other answer is an exception nobody catches. *)
HotelFailed(h) ==
  /\ Answered(h, {500})
  /\ Finish(h, 500)
  /\ UNCHANGED <<env, hotelVars, bookings>>

(* Variant: a timed out reserve is told to the client as a conflict. *)
CallTimeoutConflict(h) ==
  /\ "timeout" \in env.faults
  /\ handler[h].at = "calling"
  /\ Finish(h, 409)
  /\ UNCHANGED <<env, hotelVars, bookings>>

(* Variant: only the connection is timed, not the answer (Timeout(None, connect=5)). *)
CallTimeoutConnecting(h) ==
  /\ "timeout" \in env.faults
  /\ handler[h].at = "calling" /\ call[h].st = "sent"
  /\ Finish(h, 500)
  /\ UNCHANGED <<env, hotelVars, bookings>>

(***************************************************************************)
(* httpx gives up, or booking-service stops: the handler is gone and the   *)
(* call, wherever it is, goes on without it.                               *)
(***************************************************************************)
CallTimeout(h) ==
  /\ "timeout" \in env.faults
  /\ handler[h].at = "calling"
  /\ Finish(h, 500)
  /\ UNCHANGED <<env, hotelVars, bookings>>

(* Variant: a failed insert is told to the client as a conflict. *)
DatabaseFailsConflict(h) ==
  /\ "database" \in env.faults
  /\ handler[h].at \in {"write", "refresh"}
  /\ Finish(h, 409)
  /\ UNCHANGED <<env, hotelVars, bookings>>

(* The commit or the refresh fails, or booking-service stops. *)
DatabaseFails(h) ==
  /\ "database" \in env.faults
  /\ handler[h].at \in {"write", "refresh"}
  /\ Finish(h, 500)
  /\ UNCHANGED <<env, hotelVars, bookings>>

-----------------------------------------------------------------------------

(* A client calls the hotel through the gateway's rooms controller. *)
DirectCall(d, op, r) ==
  /\ d \in env.directs
  /\ Hotel!Send(d, op, r)
  /\ UNCHANGED <<env, bookings, handler>>

(* hotel-service on its side. *)
HotelServes(c) ==
  /\ Hotel!Apply(c) \/ Hotel!Answer(c)
  /\ UNCHANGED <<env, bookings, handler>>

HotelBreaks(c) ==
  /\ "hotel" \in env.faults
  /\ Hotel!Break(c)
  /\ UNCHANGED <<env, bookings, handler>>

HotelOpens(r) == Hotel!Open(r) /\ UNCHANGED <<env, bookings, handler>>

(* Nobody is at work. *)
Quiet ==
  /\ \A h \in Handlers : handler[h].at \in {"idle", "done"}
  /\ \A c \in Callers : call[c].st \in {"idle", "over"}
  /\ UNCHANGED vars

CreateStep(c) == CreateRefused(c) \/ CreateGranted(c) \/ InsertBooking(c)

CancelStep(x) == CancelMissing(x) \/ CancelReleased(x) \/ MarkCancelled(x)

HandlerStep(h) ==
  \/ h \in Creates /\ CreateStep(h)
  \/ h \in Cancels /\ CancelStep(h)
  \/ Return(h)
  \/ HotelFailed(h)

Next ==
  \/ \E c \in Creates, r \in Rooms : CreateBooking(c, r)
  \/ \E x \in Cancels, b \in Creates : CancelRejected(x, b) \/ CancelBooking(x, b)
  \/ \E h \in Handlers : HandlerStep(h) \/ CallTimeout(h) \/ DatabaseFails(h)
  \/ \E d \in Directs, op \in Hotel!Operations, r \in Rooms : DirectCall(d, op, r)
  \/ \E c \in Callers : HotelServes(c) \/ HotelBreaks(c)
  \/ \E r \in Rooms : HotelOpens(r)
  \/ Quiet

Spec == Init /\ [][Next]_vars

(***************************************************************************)
(* The event loop of booking-service runs what can run, and its timer goes *)
(* off.  The hotel owes nothing: it may leave a call where it is for ever. *)
(***************************************************************************)
Fairness == \A h \in Handlers : WF_vars(HandlerStep(h)) /\ WF_vars(CallTimeout(h))

FairSpec == Spec /\ Fairness

-----------------------------------------------------------------------------

Booked(b, status) == bookings[b] # None /\ bookings[b].status = status

(* A booking that is not cancelled occupies its room. *)
Active(b) == bookings[b] # None /\ bookings[b].status # "cancelled"

(***************************************************************************)
(* The hotel's holds add up, whatever its callers do: a room that is held  *)
(* is unavailable, its holder reserved that very room, and a reserve that  *)
(* was answered 200 still holds its room or lost it to a release           *)
(* (rooms.py:40-71).                                                       *)
(***************************************************************************)
HoldsAccountedFor == Hotel!HoldsAccountedFor

(***************************************************************************)
(* Every booking stands on a reservation of its own: the create that made  *)
(* it reserved that very room, and still holds it unless some release has  *)
(* ended the hold (bookings.py:22-29).                                     *)
(***************************************************************************)
BookingsBacked ==
  \A b \in Creates : bookings[b] # None =>
    /\ call[b].room = bookings[b].room_id
    /\ holder[bookings[b].room_id] = b \/ b \in revoked

(***************************************************************************)
(* No cancelled booking keeps its room: by the time the status says        *)
(* cancelled the reservation behind it has been ended, even if the cancel  *)
(* overlapped others or was retried (bookings.py:49-55).                   *)
(***************************************************************************)
CancelledMeansReleased == \A b \in Creates : Booked(b, "cancelled") => b \in revoked

(***************************************************************************)
(* hotel-service's rooms and booking-service's bookings, which share no    *)
(* transaction, agree in all three ways.                                   *)
(***************************************************************************)
HoldsMatchBookings == HoldsAccountedFor /\ BookingsBacked /\ CancelledMeansReleased

(***************************************************************************)
(* What a client is told is so.  201: the booking is stored.  409 to a     *)
(* create: it holds no room and never did, not even through a reserve that *)
(* took effect late.  200 to a cancel: the booking is cancelled.  502 is   *)
(* never said: a room with a booking never disappears (bookings.py:51-52). *)
(***************************************************************************)
AnswersHonest ==
  /\ \A c \in Creates :
       /\ handler[c].status = 201 => bookings[c] # None
       /\ handler[c].status = 409 => /\ bookings[c] = None
                                     /\ c \notin revoked
                                     /\ \A r \in Rooms : holder[r] # c
  /\ \A x \in Cancels :
       /\ handler[x].status = 200 => Booked(handler[x].booking, "cancelled")
       /\ handler[x].status # 502

(***************************************************************************)
(* A room that a create took is in use or in a client's hands: the create  *)
(* is still at work, or its booking is active, or its client was told 500. *)
(* Only a failed create can leave a room reserved for nobody.              *)
(***************************************************************************)
HeldForReason ==
  \A r \in Rooms : holder[r] \in Creates =>
    LET c == holder[r] IN
      handler[c].at # "done" \/ Active(c) \/ handler[c].status = 500

(* An active booking that no cancel is at work on. *)
Kept(b) == Active(b) /\ InProgress(b) = {}

(***************************************************************************)
(* A room is booked at most once at a time: a created booking has the room *)
(* it reserved (gateway bookings.controller.ts:58 "Create booking          *)
(* (reserves room via hotel-service)").  A booking being cancelled does    *)
(* not count: its room is released before its row says so.                 *)
(***************************************************************************)
NoDoubleBooking ==
  \A a, b \in Creates :
    Kept(a) /\ Kept(b) /\ bookings[a].room_id = bookings[b].room_id => a = b

(***************************************************************************)
(* The environment in which the code keeps NoDoubleBooking: nothing fails, *)
(* cancels of one booking do not overlap, nobody calls the hotel directly. *)
(***************************************************************************)
Calm == env.faults = {} /\ ~env.overlap /\ env.directs = {}

CalmNoDoubleBooking == Calm => NoDoubleBooking

(***************************************************************************)
(* Every create and cancel comes to its end (each runs once), whatever the *)
(* hotel does with its call, also when it never takes the call up or never *)
(* answers it (hotel_client.py:8-9: httpx gives up after five seconds).    *)
(***************************************************************************)
HandlersEnd ==
  ("timeout" \in env.faults) =>
    <>[](\A h \in Handlers : handler[h].at \in {"idle", "done"})

-----------------------------------------------------------------------------

(***************************************************************************)
(* The inductive invariant behind the theorems of BookingSaga_proofs.      *)
(***************************************************************************)

(* A call's answer agrees with its stage; what was granted names a room that exists. *)
CallsWellFormed ==
  \A c \in Callers :
    /\ call[c].st = "idle" => call[c].op = "none"
    /\ call[c].st # "idle" => call[c].op \in Hotel!Operations /\ call[c].room \in Rooms
    /\ call[c].st \in {"idle", "sent"} => call[c].ans = 0
    /\ call[c].st = "applied" => call[c].ans \in {200, 404, 409}
    /\ call[c].ans = 200 => room[call[c].room] # "absent"

(* Whoever holds a room, or has lost one, has reserved it with effect. *)
InEffect(c) == call[c].op = "reserve" /\ call[c].ans \in {200, 500}

HoldsInEffect ==
  /\ \A c \in revoked : InEffect(c)
  /\ \A r \in Rooms : holder[r] # None => InEffect(holder[r])

(* A handler, its call and its row agree, also when the handler is gone. *)
HandlersFollowCalls ==
  \A h \in Handlers :
    /\ handler[h].at = "idle" => call[h].st = "idle" /\ handler[h].booking = None
    /\ handler[h].at = "calling" => call[h].st # "idle"
    /\ handler[h].at \in {"write", "refresh"} => call[h].st = "over" /\ call[h].ans = 200
    /\ handler[h].at # "done" => handler[h].status = 0

CreatesFollowCalls ==
  \A c \in Creates :
    /\ call[c].st # "idle" => call[c].op = "reserve"
    /\ handler[c].at \in {"idle", "calling", "write"} => bookings[c] = None
    /\ handler[c].at = "refresh" \/ handler[c].status = 201 => bookings[c] # None
    /\ handler[c].at = "done" => handler[c].status \in {201, 409, 500}
    /\ handler[c].status = 409 => call[c].st = "over" /\ call[c].ans \in {404, 409}
    /\ bookings[c] # None => call[c].st = "over" /\ call[c].ans = 200

CancelsFollowCalls ==
  \A x \in Cancels :
    LET b == handler[x].booking IN
      /\ call[x].st # "idle" =>
           /\ call[x].op = "release"
           /\ b \in Creates /\ bookings[b] # None /\ call[x].room = bookings[b].room_id
      /\ call[x].ans = 200 => b \in revoked
      /\ call[x].ans # 404 /\ handler[x].status # 502
      /\ handler[x].at = "refresh" \/ handler[x].status = 200 =>
           b \in Creates /\ Booked(b, "cancelled")

(***************************************************************************)
(* Why nothing is booked twice in the calm environment: a create that was  *)
(* granted its room holds it until a cancel of its booking begins, and the *)
(* release of a cancel always finds the room held by the booking it is     *)
(* about, since no other cancel is at work on it.                          *)
(***************************************************************************)
CalmHolds ==
  Calm =>
    /\ \A c \in Callers : call[c].ans # 500
    /\ \A d \in Directs : call[d].st = "idle"
    /\ \A c \in Creates :
         call[c].ans = 200 /\ (bookings[c] = None \/ Kept(c)) => holder[call[c].room] = c
    /\ \A x \in Cancels : call[x].st = "sent" =>
         handler[x].at = "calling" /\ holder[call[x].room] = handler[x].booking
    /\ \A x, y \in Cancels :
         x \in InProgress(handler[x].booking) /\ y \in InProgress(handler[x].booking) => x = y

(***************************************************************************)
(* All of it: calls, handlers and rows agree, rooms and bookings match     *)
(* (bookings.py:20-57), and the calm environment keeps its holds.          *)
(***************************************************************************)
InductiveInv ==
  /\ TypeOK
  /\ CallsWellFormed
  /\ HoldsInEffect
  /\ HandlersFollowCalls
  /\ CreatesFollowCalls
  /\ CancelsFollowCalls
  /\ HoldsMatchBookings
  /\ CalmHolds

=============================================================================
