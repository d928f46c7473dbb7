------------------------- MODULE AtomicRooms_proofs -------------------------
(***************************************************************************)
(* Proofs about AtomicRooms: what the hotel promises its callers, for any  *)
(* rooms and calls.  It holds of every module that implements AtomicRooms. *)
(***************************************************************************)
EXTENDS AtomicRooms, TLAPS

(* Only a call that has taken effect holds a room or has had its hold ended. *)
HoldsTookEffect ==
  /\ \A r \in Rooms : holder[r] # None => call[holder[r]].st \in {"applied", "over"}
  /\ \A c \in revoked : call[c].st \in {"applied", "over"}

(* A call that is under way names a room; one without an effect has no answer. *)
CallsInStep ==
  \A c \in Callers :
    /\ call[c].st \in {"sent", "applied"} => call[c].op \in Operations /\ call[c].room \in Rooms
    /\ call[c].st \in {"idle", "sent"} => call[c].ans = 0
    /\ call[c].ans = 200 => call[c].room \in Rooms

(* The inductive invariant. *)
AtomicInv ==
  /\ AtomicTypeOK
  /\ CallsInStep
  /\ HoldsTookEffect
  /\ HoldsAccountedFor

LEMMA InitEstablishes == 
  ASSUME AtomicInit
  PROVE  AtomicInv
<1>1. NotMade \in Calls
  BY DEF NotMade, Calls, Operations, Answers
<1> QED
  BY <1>1 DEF AtomicInit, AtomicInv, AtomicTypeOK, CallsInStep, HoldsTookEffect,
     HoldsAccountedFor, NotMade

(* One call takes another record. *)
Becomes(c, q) == call' = [call EXCEPT ![c] = q]

(***************************************************************************)
(* A call moves on and the rooms stay: its holds are what they were.       *)
(***************************************************************************)
LEMMA CallMoves ==
  ASSUME None \notin Callers, AtomicInv, NEW c \in Callers, NEW q \in Calls, Becomes(c, q),
         UNCHANGED <<room, holder, revoked>>,
         call[c].st # "idle" => q.op = call[c].op /\ q.room = call[c].room,
         call[c].st \in {"applied", "over"} => q.st \in {"applied", "over"},
         q.st \in {"sent", "applied"} => q.op \in Operations /\ q.room \in Rooms,
         q.st \in {"idle", "sent"} => q.ans = 0,
         q.ans = 200 => call[c].ans = 200 \/ (q.op # "reserve" /\ q.room \in Rooms)
  PROVE  AtomicInv'
<1>1. call'[c] = q /\ \A d \in Callers \ {c} : call'[d] = call[d]
  BY DEF Becomes, AtomicInv, AtomicTypeOK
<1>2. AtomicTypeOK'
  BY DEF Becomes, AtomicInv, AtomicTypeOK
<1>3. CallsInStep'
  BY <1>1 DEF AtomicInv, CallsInStep
<1>4. HoldsTookEffect'
  BY <1>1 DEF AtomicInv, HoldsTookEffect, AtomicTypeOK
<1>5. HoldsAccountedFor'
  BY <1>1 DEF AtomicInv, HoldsAccountedFor, HoldsTookEffect, CallsInStep, AtomicTypeOK
<1> QED
  BY <1>2, <1>3, <1>4, <1>5 DEF AtomicInv

(* What Conclude makes of a call. *)
LEMMA ConcludeIs ==
  ASSUME AtomicInv, NEW c \in Callers, NEW stage \in {"applied", "over"}, NEW answer \in Answers,
         Conclude(c, stage, answer)
  PROVE  \E q \in Calls :
           /\ Becomes(c, q)
           /\ q.st = stage /\ q.op = call[c].op /\ q.room = call[c].room /\ q.ans = answer
<1>1. PICK q : q = [st |-> stage, op |-> call[c].op, room |-> call[c].room, ans |-> answer]
  OBVIOUS
<1>2. q \in Calls
  BY <1>1 DEF AtomicInv, AtomicTypeOK, Calls
<1>3. Becomes(c, q)
  BY <1>1 DEF Conclude, Becomes
<1> QED
  BY <1>1, <1>2, <1>3

LEMMA SendKeeps ==
  ASSUME None \notin Callers, AtomicInv, NEW c \in Callers, NEW op \in Operations, NEW r \in Rooms,
         Send(c, op, r)
  PROVE  AtomicInv'
<1>1. PICK q : q = [st |-> "sent", op |-> op, room |-> r, ans |-> 0]
  OBVIOUS
<1>2. q \in Calls /\ q.st = "sent" /\ q.op = op /\ q.room = r /\ q.ans = 0
  BY <1>1 DEF Calls, Answers
<1>3. Becomes(c, q) /\ call[c].st = "idle" /\ UNCHANGED <<room, holder, revoked>>
  BY <1>1 DEF Send, Becomes
<1> QED
  BY <1>2, <1>3, CallMoves

LEMMA TakeRoomKeeps ==
  ASSUME None \notin Callers, AtomicInv, NEW c \in Callers, TakeRoom(c)
  PROVE  AtomicInv'
<1>1. PICK r \in Rooms : r = call[c].room
  BY DEF TakeRoom, Arriving, AtomicInv, CallsInStep
<1>2. /\ call[c].st = "sent" /\ call[c].op = "reserve" /\ room[r] = "free"
      /\ room' = [room EXCEPT ![r] = "taken"] /\ holder' = [holder EXCEPT ![r] = c]
      /\ revoked' = revoked
  BY <1>1 DEF TakeRoom, Arriving
<1>3. PICK q \in Calls :
        /\ Becomes(c, q)
        /\ q.st = "applied" /\ q.op = call[c].op /\ q.room = call[c].room /\ q.ans = 200
  BY ConcludeIs DEF TakeRoom, Decide, Answers
<1>4. call'[c] = q /\ \A d \in Callers \ {c} : call'[d] = call[d]
  BY <1>3 DEF Becomes, AtomicInv, AtomicTypeOK
<1>5. /\ room'[r] = "taken" /\ \A s \in Rooms \ {r} : room'[s] = room[s]
      /\ holder'[r] = c /\ \A s \in Rooms \ {r} : holder'[s] = holder[s]
  BY <1>2 DEF AtomicInv, AtomicTypeOK
<1>6. AtomicTypeOK'
  BY <1>2, <1>3 DEF Becomes, AtomicInv, AtomicTypeOK
<1>7. CallsInStep'
  BY <1>1, <1>2, <1>3, <1>4 DEF AtomicInv, CallsInStep, Operations
<1>8. HoldsTookEffect'
  BY <1>2, <1>3, <1>4, <1>5 DEF AtomicInv, HoldsTookEffect, AtomicTypeOK
<1>9. c \notin revoked /\ holder[r] = None /\ \A s \in Rooms : holder[s] # c
  BY <1>2 DEF AtomicInv, HoldsTookEffect, HoldsAccountedFor, AtomicTypeOK
<1>10. HoldsAccountedFor'
  BY <1>1, <1>2, <1>3, <1>4, <1>5, <1>9
     DEF AtomicInv, HoldsAccountedFor, CallsInStep, AtomicTypeOK
<1> QED
  BY <1>6, <1>7, <1>8, <1>10 DEF AtomicInv

LEMMA FreeRoomKeeps ==
  ASSUME None \notin Callers, AtomicInv, NEW c \in Callers, FreeRoom(c)
  PROVE  AtomicInv'
<1>1. PICK r \in Rooms : r = call[c].room
  BY DEF FreeRoom, Arriving, AtomicInv, CallsInStep
<1>2. /\ call[c].st = "sent" /\ call[c].op = "release"
      /\ room' = [room EXCEPT ![r] = "free"] /\ holder' = [holder EXCEPT ![r] = None]
      /\ revoked' = revoked \cup ({holder[r]} \ {None})
  BY <1>1 DEF FreeRoom, Arriving
<1>3. PICK q \in Calls :
        /\ Becomes(c, q)
        /\ q.st = "applied" /\ q.op = call[c].op /\ q.room = call[c].room /\ q.ans = 200
  BY ConcludeIs DEF FreeRoom, Decide, Answers
<1>4. call'[c] = q /\ \A d \in Callers \ {c} : call'[d] = call[d]
  BY <1>3 DEF Becomes, AtomicInv, AtomicTypeOK
<1>5. /\ room'[r] = "free" /\ \A s \in Rooms \ {r} : room'[s] = room[s]
      /\ holder'[r] = None /\ \A s \in Rooms \ {r} : holder'[s] = holder[s]
  BY <1>2 DEF AtomicInv, AtomicTypeOK
<1>6. AtomicTypeOK'
  BY <1>2, <1>3 DEF Becomes, AtomicInv, AtomicTypeOK
<1>7. CallsInStep'
  BY <1>1, <1>2, <1>3, <1>4 DEF AtomicInv, CallsInStep, Operations
<1>8. HoldsTookEffect'
  BY <1>2, <1>3, <1>4, <1>5 DEF AtomicInv, HoldsTookEffect, AtomicTypeOK
<1>9. \A s \in Rooms : holder[s] # None /\ s # r => holder[s] # holder[r] /\ holder[s] \notin revoked
  BY DEF AtomicInv, HoldsAccountedFor
<1>10. HoldsAccountedFor'
  BY <1>1, <1>2, <1>3, <1>4, <1>5, <1>9
     DEF AtomicInv, HoldsAccountedFor, HoldsTookEffect, CallsInStep, AtomicTypeOK
<1> QED
  BY <1>6, <1>7, <1>8, <1>10 DEF AtomicInv

LEMMA NextKeeps ==
  ASSUME None \notin Callers, AtomicInv, [AtomicNext]_atomicVars
  PROVE  AtomicInv'
<1>1. ASSUME NEW c \in Callers, NEW op \in Operations, NEW r \in Rooms, Send(c, op, r)
      PROVE  AtomicInv'
  BY <1>1, SendKeeps
<1>2. ASSUME NEW c \in Callers, RefuseRoom(c) \/ MissRoom(c) PROVE AtomicInv'
  <2>1. call[c].st = "sent" /\ UNCHANGED <<room, holder, revoked>>
    BY <1>2 DEF RefuseRoom, MissRoom, Arriving
  <2>2. PICK answer \in {404, 409} : Conclude(c, "applied", answer)
    BY <1>2 DEF RefuseRoom, MissRoom, Decide
  <2>3. PICK q \in Calls :
          /\ Becomes(c, q)
          /\ q.st = "applied" /\ q.op = call[c].op /\ q.room = call[c].room /\ q.ans = answer
    BY <2>2, ConcludeIs DEF Answers
  <2>4. call[c].op \in Operations /\ call[c].room \in Rooms
    BY <2>1 DEF AtomicInv, CallsInStep
  <2> QED
    BY <2>1, <2>3, <2>4, CallMoves
<1>3. ASSUME NEW c \in Callers, Answer(c) PROVE AtomicInv'
  <2>1. PICK r \in Calls : r = call[c]
    BY DEF AtomicInv, AtomicTypeOK
  <2>2. PICK q \in Calls : q = [r EXCEPT !.st = "over"]
    BY DEF Calls
  <2>3. q.st = "over" /\ q.op = r.op /\ q.room = r.room /\ q.ans = r.ans
    BY <2>2 DEF Calls
  <2>4. Becomes(c, q) /\ r.st = "applied" /\ UNCHANGED <<room, holder, revoked>>
    BY <1>3, <2>1, <2>2 DEF Answer, Becomes
  <2> QED
    BY <2>1, <2>3, <2>4, CallMoves
<1>4. ASSUME NEW c \in Callers, Break(c) PROVE AtomicInv'
  <2>1. UNCHANGED <<room, holder, revoked>>
    BY <1>4 DEF Break
  <2>2. PICK q \in Calls :
          /\ Becomes(c, q)
          /\ q.st = "over" /\ q.op = call[c].op /\ q.room = call[c].room /\ q.ans = 500
    BY <1>4, ConcludeIs DEF Break, Answers
  <2> QED
    BY <2>1, <2>2, CallMoves
<1>5. ASSUME NEW r \in Rooms, Open(r) PROVE AtomicInv'
  <2>1. PICK status \in {"free", "taken"} : room' = [room EXCEPT ![r] = status]
    BY <1>5 DEF Open
  <2>2. room[r] = "absent" /\ holder' = holder /\ revoked' = revoked /\ call' = call
    BY <1>5 DEF Open
  <2> QED
    BY <2>1, <2>2
       DEF AtomicInv, AtomicTypeOK, CallsInStep, HoldsTookEffect, HoldsAccountedFor
<1>6. CASE UNCHANGED atomicVars
  BY <1>6 DEF atomicVars, AtomicInv, AtomicTypeOK, CallsInStep, HoldsTookEffect, HoldsAccountedFor
<1> QED
  BY <1>1, <1>2, <1>3, <1>4, <1>5, <1>6, TakeRoomKeeps, FreeRoomKeeps
     DEF AtomicNext, Apply, AllAnswered

-----------------------------------------------------------------------------

(***************************************************************************)
(* Every hold is accounted for (rooms.py:40-71): a room has one holder,    *)
(* whose reserve took effect, and a reserve that was granted keeps its     *)
(* room until a release ends it.                                           *)
(***************************************************************************)
THEOREM AtomicInvariance ==
  ASSUME None \notin Callers
  PROVE  AtomicSpec => []AtomicInv
<1>1. AtomicInit => AtomicInv
  BY InitEstablishes
<1>2. AtomicInv /\ [AtomicNext]_atomicVars => AtomicInv'
  BY NextKeeps
<1> QED
  BY <1>1, <1>2, PTL DEF AtomicSpec

(* What a caller may rely on. *)
THEOREM PromiseKept ==
  ASSUME None \notin Callers
  PROVE  AtomicSpec => []HoldsAccountedFor
<1>1. AtomicInv => HoldsAccountedFor
  BY DEF AtomicInv
<1> QED
  BY <1>1, AtomicInvariance, PTL

=============================================================================
