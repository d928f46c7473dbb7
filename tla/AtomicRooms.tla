---------------------------- MODULE AtomicRooms ----------------------------
(***************************************************************************)
(* What hotel-service promises its callers about room availability: a call *)
(* to POST /rooms/{id}/reserve or /rooms/{id}/release takes effect at one  *)
(* instant between the moment it is sent and the moment it is answered.    *)
(* README.md calls this "Hotel (atomic reserve / CONFLICT)".               *)
(*                                                                         *)
(* HotelRooms, the row-lock level model, implements this module, and       *)
(* BookingSaga composes the booking handlers with it.                      *)
(***************************************************************************)
CONSTANTS
  Rooms,      \* ids a row of table rooms may have
  Callers,    \* reserve and release calls, each made at most once
  None        \* no caller holds the room; no room was asked for

VARIABLES
  room,       \* room[r]: "absent" (no row), "free" or "taken" (is_available)
  holder,     \* holder[r]: the call whose reserve took r, until r is released
  revoked,    \* reserve calls whose hold has been ended by some release
  call        \* call[c]: the remote call itself

atomicVars == <<room, holder, revoked, call>>

Operations == {"reserve", "release"}

(***************************************************************************)
(* st = "idle" not yet made, "sent" not yet effective, "applied" effective *)
(* but not answered, "over" answered.  ans is the HTTP status the hotel    *)
(* decided on (0: none yet); 500 stands for every answer that is neither   *)
(* 2xx, 404 nor 409, and for a broken connection.                          *)
(***************************************************************************)
Answers == {0, 200, 404, 409, 500}

Calls == [ st   : {"idle", "sent", "applied", "over"},
           op   : Operations \cup {"none"},
           room : Rooms \cup {None},
           ans  : Answers ]

NotMade == [st |-> "idle", op |-> "none", room |-> None, ans |-> 0]

AtomicTypeOK ==
  /\ room \in [Rooms -> {"absent", "free", "taken"}]
  /\ holder \in [Rooms -> Callers \cup {None}]
  /\ revoked \subseteq Callers
  /\ call \in [Callers -> Calls]

AtomicInit ==
  /\ room \in [Rooms -> {"absent", "free", "taken"}]
  /\ holder = [r \in Rooms |-> None]
  /\ revoked = {}
  /\ call = [c \in Callers |-> NotMade]

-----------------------------------------------------------------------------

(* The caller asks for op on the room with id r. *)
Send(c, op, r) ==
  /\ call[c].st = "idle"
  /\ call' = [call EXCEPT ![c] = [st |-> "sent", op |-> op, room |-> r, ans |-> 0]]
  /\ UNCHANGED <<room, holder, revoked>>

Arriving(c, op) == call[c].st = "sent" /\ call[c].op = op

Conclude(c, stage, answer) ==
  call' = [call EXCEPT ![c] =
             [st |-> stage, op |-> @.op, room |-> @.room, ans |-> answer]]

Decide(c, answer) == Conclude(c, "applied", answer)

(* The room is available: it becomes unavailable, held by c. *)
TakeRoom(c) ==
  LET r == call[c].room IN
    /\ Arriving(c, "reserve")
    /\ room[r] = "free"
    /\ room' = [room EXCEPT ![r] = "taken"]
    /\ holder' = [holder EXCEPT ![r] = c]
    /\ Decide(c, 200)
    /\ UNCHANGED revoked

(* CONFLICT: the room is already reserved, nothing changes. *)
RefuseRoom(c) ==
  /\ Arriving(c, "reserve")
  /\ room[call[c].room] = "taken"
  /\ Decide(c, 409)
  /\ UNCHANGED <<room, holder, revoked>>

(***************************************************************************)
(* A release makes the room available whoever holds it: the handler looks  *)
(* neither at the holder nor at the current availability.                  *)
(***************************************************************************)
FreeRoom(c) ==
  LET r == call[c].room IN
    /\ Arriving(c, "release")
    /\ room[r] # "absent"
    /\ room' = [room EXCEPT ![r] = "free"]
    /\ holder' = [holder EXCEPT ![r] = None]
    /\ revoked' = revoked \cup ({holder[r]} \ {None})
    /\ Decide(c, 200)

(* There is no such room. *)
MissRoom(c) ==
  /\ call[c].st = "sent"
  /\ room[call[c].room] = "absent"
  /\ Decide(c, 404)
  /\ UNCHANGED <<room, holder, revoked>>

Apply(c) == TakeRoom(c) \/ RefuseRoom(c) \/ FreeRoom(c) \/ MissRoom(c)

(* The answer that was decided reaches the caller. *)
Answer(c) ==
  /\ call[c].st = "applied"
  /\ call' = [call EXCEPT ![c].st = "over"]
  /\ UNCHANGED <<room, holder, revoked>>

(***************************************************************************)
(* The call fails, before or after its effect: the caller cannot tell.     *)
(***************************************************************************)
Break(c) ==
  /\ call[c].st \in {"sent", "applied"}
  /\ Conclude(c, "over", 500)
  /\ UNCHANGED <<room, holder, revoked>>

(* A room is created, available or not: RoomCreate.is_available is an input. *)
Open(r) ==
  /\ room[r] = "absent"
  /\ \E status \in {"free", "taken"} : room' = [room EXCEPT ![r] = status]
  /\ UNCHANGED <<holder, revoked, call>>

(* Every call that can be made has been made and answered. *)
AllAnswered ==
  /\ \A c \in Callers : call[c].st = "over"
  /\ UNCHANGED atomicVars

AtomicNext ==
  \/ \E c \in Callers :
       \/ \E op \in Operations, r \in Rooms : Send(c, op, r)
       \/ Apply(c)
       \/ Answer(c)
       \/ Break(c)
  \/ \E r \in Rooms : Open(r)
  \/ AllAnswered

AtomicSpec == AtomicInit /\ [][AtomicNext]_atomicVars

-----------------------------------------------------------------------------

(***************************************************************************)
(* Every hold is accounted for.  A room that is held is unavailable, and   *)
(* its holder is a reserve call for that very room whose hold has not been *)
(* ended; a reserve that was answered 200 either still holds its room or   *)
(* has lost it to a release (rooms.py:40-71).                              *)
(***************************************************************************)
HoldsAccountedFor ==
  /\ \A r \in Rooms : holder[r] # None =>
       /\ room[r] = "taken"
       /\ call[holder[r]].op = "reserve"
       /\ call[holder[r]].room = r
       /\ holder[r] \notin revoked
  /\ \A c \in Callers :
       call[c].op = "reserve" /\ call[c].ans = 200
         => holder[call[c].room] = c \/ c \in revoked

=============================================================================
