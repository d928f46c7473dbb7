------------------------- MODULE HotelRooms_proofs -------------------------
(***************************************************************************)
(* Proofs about HotelRooms, for any number of hotels, rooms, requests and  *)
(* connections.                                                            *)
(***************************************************************************)
EXTENDS HotelRooms, FiniteSetTheorems, TLAPS

-----------------------------------------------------------------------------

(* The status codes, once: a set of numbers is better kept folded. *)
LEMMA StatusesAre ==
  /\ 0 \in Statuses /\ 200 \in Statuses /\ 201 \in Statuses
  /\ 404 \in Statuses /\ 409 \in Statuses /\ 500 \in Statuses
  BY DEF Statuses

LEMMA FreshTyped ==
  ASSUME NEW stage \in Stages, NEW op \in AllEndpoints \cup {"none"},
         NEW h \in Hotels \cup {None}, NEW r \in Rooms \cup {None}
  PROVE  Fresh(stage, op, h, r) \in RequestStates
<1>1. 0 \in Statuses
  BY StatusesAre
<1> QED
  BY <1>1 DEF RequestStates, Fresh

Typed == req \in [Requests -> RequestStates]

(* Whatever happens to a request, it stays well typed. *)
LEMMA RequestUpdatesTyped ==
  ASSUME Typed, NEW q \in Requests
  PROVE  /\ \A stage \in Stages : GoTo(q, stage) => Typed'
         /\ \A seen \in BOOLEAN : HoldRow(q, seen) => Typed'
         /\ \A status \in Statuses, body \in {"none", "free", "taken"} :
              ReplyWith(q, status, body) => Typed'
         /\ \A status \in Statuses : EndWith(q, status) => Typed'
<1> USE DEF Typed
<1>1. req[q] \in RequestStates
  OBVIOUS
<1>2. ASSUME NEW r \in RequestStates, req' = [req EXCEPT ![q] = r] PROVE Typed'
  BY <1>2
<1>3. ASSUME NEW stage \in Stages, GoTo(q, stage) PROVE Typed'
  <2>1. [req[q] EXCEPT !.at = stage] \in RequestStates
    BY <1>1 DEF RequestStates
  <2> QED
    BY <2>1, <1>2, <1>3 DEF GoTo
<1>4. ASSUME NEW seen \in BOOLEAN, HoldRow(q, seen) PROVE Typed'
  <2>1. [req[q] EXCEPT !.at = "locked", !.seen = seen] \in RequestStates
    BY <1>1 DEF RequestStates, Stages
  <2> QED
    BY <2>1, <1>2, <1>4 DEF HoldRow
<1>5. ASSUME NEW status \in Statuses, NEW body \in {"none", "free", "taken"},
             ReplyWith(q, status, body)
      PROVE  Typed'
  <2>1. [req[q] EXCEPT !.at = "reply", !.status = status, !.body = body] \in RequestStates
    BY <1>1 DEF RequestStates, Stages
  <2> QED
    BY <2>1, <1>2, <1>5 DEF ReplyWith
<1>6. ASSUME NEW status \in Statuses, EndWith(q, status) PROVE Typed'
  <2>1. [req[q] EXCEPT !.at = "done", !.status = status] \in RequestStates
    BY <1>1 DEF RequestStates, Stages
  <2> QED
    BY <2>1, <1>2, <1>6 DEF EndWith
<1> QED
  BY <1>3, <1>4, <1>5, <1>6

(* A request for a row that exists names a room, and the row is typed. *)
LEMMA RowTyped ==
  ASSUME TypeOK, WellFormed, NEW q \in Requests,
         req[q].at \in {"row", "locked"}, rooms[req[q].room] # None
  PROVE  req[q].room \in Rooms /\ rooms[req[q].room] \in RoomRows
<1>1. req[q].room \in Rooms
  BY DEF WellFormed
<1> QED
  BY <1>1 DEF TypeOK

(* Setting a room's row keeps the table well typed. *)
LEMMA RoomsTyped ==
  ASSUME rooms \in [Rooms -> RoomRows \cup {None}], NEW r \in Rooms,
         NEW available \in BOOLEAN
  PROVE  /\ rooms[r] \in RoomRows =>
              [rooms EXCEPT ![r].is_available = available]
                \in [Rooms -> RoomRows \cup {None}]
         /\ \A h \in Hotels :
              [rooms EXCEPT ![r] = [hotel |-> h, is_available |-> available]]
                \in [Rooms -> RoomRows \cup {None}]
  BY DEF RoomRows

(* The initial states are well typed. *)
LEMMA InitTypeOK == Init => TypeOK
<1> SUFFICES ASSUME Init PROVE TypeOK
  OBVIOUS
<1>1. req \in [Requests -> RequestStates]
  BY FreshTyped DEF Init, NotMade, Stages
<1>2. rooms \in [Rooms -> RoomRows \cup {None}]
  BY DEF Init, RoomRows
<1> QED
  BY <1>1, <1>2 DEF Init, TypeOK

(* Every action leaves the requests well typed. *)
LEMMA StepTyped ==
  ASSUME TypeOK, WellFormed, [Next]_vars
  PROVE  Typed'
<1> USE RequestUpdatesTyped, StatusesAre
<1>0. Typed
  BY DEF TypeOK, Typed
<1>1. ASSUME NEW q \in Requests, NEW op \in Endpoints,
             NEW h \in HotelIds(op), NEW r \in RoomIds(op), Arrive(q, op, h, r)
      PROVE  Typed'
  <2>1. /\ op \in AllEndpoints
        /\ h \in Hotels \cup {None}
        /\ r \in Rooms \cup {None}
    BY EndpointsExist DEF HotelIds, RoomIds
  <2>2. Fresh("query", op, h, r) \in RequestStates
    BY <2>1, FreshTyped DEF Stages
  <2> QED
    BY <1>0, <1>1, <2>2 DEF Typed, Arrive
<1>2. ASSUME NEW q \in Requests, SelectForUpdate(q) PROVE Typed'
  BY <1>0, <1>2 DEF SelectForUpdate, Stages
<1>3. ASSUME NEW q \in Requests, RowMissing(q) PROVE Typed'
  BY <1>0, <1>3 DEF RowMissing
<1>4. ASSUME NEW q \in Requests, LockRow(q) PROVE Typed'
  <2>1. rooms[req[q].room].is_available \in BOOLEAN
    BY <1>4, RowTyped DEF LockRow, RoomRows
  <2> QED
    BY <1>0, <1>4, <2>1 DEF LockRow
<1>5. ASSUME NEW q \in Requests, RefuseReserve(q) PROVE Typed'
  BY <1>0, <1>5 DEF RefuseReserve
<1>6. ASSUME NEW q \in Requests, CommitReserve(q) PROVE Typed'
  BY <1>0, <1>6 DEF CommitReserve, Stages
<1>7. ASSUME NEW q \in Requests, CommitRelease(q) PROVE Typed'
  BY <1>0, <1>7 DEF CommitRelease, Stages
<1>8. ASSUME NEW q \in Requests, RefreshRoom(q) PROVE Typed'
  <2>1. RoomState(req[q].room) \in {"none", "free", "taken"}
    BY <1>8 DEF RefreshRoom, RoomState, WellFormed
  <2> QED
    BY <1>0, <1>8, <2>1 DEF RefreshRoom
<1>9. ASSUME NEW q \in Requests, InsertHotel(q) PROVE Typed'
  BY <1>0, <1>9 DEF InsertHotel, Stages
<1>10. ASSUME NEW q \in Requests, FindHotel(q) PROVE Typed'
  BY <1>0, <1>10 DEF FindHotel, Stages
<1>11. ASSUME NEW q \in Requests, InsertRoom(q) PROVE Typed'
  BY <1>0, <1>11 DEF InsertRoom, Stages
<1>12. ASSUME NEW q \in Requests, RefreshCreated(q) PROVE Typed'
  BY <1>0, <1>12 DEF RefreshCreated
<1>13. ASSUME NEW q \in Requests, ReadRows(q) PROVE Typed'
  BY <1>0, <1>13 DEF ReadRows
<1>14. ASSUME NEW q \in Requests, Close(q) PROVE Typed'
  BY <1>0, <1>14 DEF Close, Stages
<1>15. ASSUME NEW q \in Requests, Fail(q) PROVE Typed'
  BY <1>0, <1>15 DEF Fail
<1>16. ASSUME UNCHANGED vars PROVE Typed'
  BY <1>0, <1>16 DEF vars, Typed
<1> QED
  BY <1>1, <1>2, <1>3, <1>4, <1>5, <1>6, <1>7, <1>8, <1>9, <1>10, <1>11,
     <1>12, <1>13, <1>14, <1>15, <1>16
     DEF Next, Step, Quiet

(* Every action leaves the tables, locks and histories well typed. *)
LEMMA StepTypeOK ==
  ASSUME TypeOK, WellFormed, LockedReadIsCurrent, [Next]_vars
  PROVE  TypeOK'
<1>0. req' \in [Requests -> RequestStates]
  BY StepTyped DEF Typed
<1> USE <1>0 DEF TypeOK
<1>1. ASSUME NEW q \in Requests, NEW op \in Endpoints,
             NEW h \in HotelIds(op), NEW r \in RoomIds(op), Arrive(q, op, h, r)
      PROVE  TypeOK'
  BY <1>1 DEF Arrive
<1>2. ASSUME NEW q \in Requests, SelectForUpdate(q) PROVE TypeOK'
  BY <1>2 DEF SelectForUpdate
<1>3. ASSUME NEW q \in Requests, RowMissing(q) \/ RefuseReserve(q) PROVE TypeOK'
  BY <1>3 DEF RowMissing, RefuseReserve
<1>4. ASSUME NEW q \in Requests, LockRow(q) PROVE TypeOK'
  BY <1>4, RowTyped DEF LockRow
<1>5. ASSUME NEW q \in Requests, CommitReserve(q) PROVE TypeOK'
  <2>1. rooms' \in [Rooms -> RoomRows \cup {None}]
    BY <1>5, RowTyped, RoomsTyped DEF CommitReserve, At, LockedReadIsCurrent
  <2> QED
    BY <1>5, <2>1 DEF CommitReserve, EndTransaction, Unlock
<1>6. ASSUME NEW q \in Requests, CommitRelease(q) PROVE TypeOK'
  <2>1. rooms' \in [Rooms -> RoomRows \cup {None}]
    BY <1>6, RowTyped, RoomsTyped DEF CommitRelease, At, LockedReadIsCurrent
  <2>2. req[q].room \in Rooms
    BY <1>6, RowTyped DEF CommitRelease, At, LockedReadIsCurrent
  <2> QED
    BY <1>6, <2>1, <2>2 DEF CommitRelease, EndTransaction, Unlock
<1>7. ASSUME NEW q \in Requests, RefreshRoom(q) \/ RefreshCreated(q) \/ ReadRows(q)
      PROVE  TypeOK'
  BY <1>7 DEF RefreshRoom, RefreshCreated, ReadRows
<1>8. ASSUME NEW q \in Requests, InsertHotel(q) PROVE TypeOK'
  BY <1>8 DEF InsertHotel, At, WellFormed
<1>9. ASSUME NEW q \in Requests, FindHotel(q) PROVE TypeOK'
  BY <1>9 DEF FindHotel
<1>10. ASSUME NEW q \in Requests, InsertRoom(q) PROVE TypeOK'
  <2>1. req[q].room \in Rooms /\ req[q].hotel \in Hotels
    BY <1>10 DEF InsertRoom, At, WellFormed
  <2>2. rooms' \in [Rooms -> RoomRows \cup {None}]
    <3>1. PICK available \in BOOLEAN :
            rooms' = [rooms EXCEPT ![req[q].room] =
                        [hotel |-> req[q].hotel, is_available |-> available]]
      BY <1>10 DEF InsertRoom
    <3> QED
      BY <2>1, <3>1, RoomsTyped
  <2> QED
    BY <1>10, <2>2 DEF InsertRoom, EndTransaction, Unlock
<1>11. ASSUME NEW q \in Requests, Close(q) \/ Fail(q) PROVE TypeOK'
  BY <1>11 DEF Close, Fail, EndTransaction, Unlock
<1>12. ASSUME UNCHANGED vars PROVE TypeOK'
  BY <1>12 DEF vars
<1> QED
  BY <1>1, <1>2, <1>3, <1>4, <1>5, <1>6, <1>7, <1>8, <1>9, <1>10, <1>11, <1>12
     DEF Next, Step, Quiet

-----------------------------------------------------------------------------

(* What each kind of update does to the request it is about... *)
Keeps(q) == /\ req'[q].op = req[q].op
            /\ req'[q].hotel = req[q].hotel
            /\ req'[q].room = req[q].room

(* ... and to the others. *)
OthersUnchanged(q) == \A p \in Requests : p # q => req'[p] = req[p]

LEMMA UpdateEffects ==
  ASSUME Typed, NEW q \in Requests
  PROVE  /\ \A stage : GoTo(q, stage) =>
              /\ Keeps(q) /\ OthersUnchanged(q)
              /\ req'[q].at = stage
              /\ req'[q].seen = req[q].seen
              /\ req'[q].status = req[q].status
              /\ req'[q].body = req[q].body
         /\ \A seen : HoldRow(q, seen) =>
              /\ Keeps(q) /\ OthersUnchanged(q)
              /\ req'[q].at = "locked"
              /\ req'[q].seen = seen
              /\ req'[q].status = req[q].status
              /\ req'[q].body = req[q].body
         /\ \A status, body : ReplyWith(q, status, body) =>
              /\ Keeps(q) /\ OthersUnchanged(q)
              /\ req'[q].at = "reply"
              /\ req'[q].status = status
              /\ req'[q].body = body
         /\ \A status : EndWith(q, status) =>
              /\ Keeps(q) /\ OthersUnchanged(q)
              /\ req'[q].at = "done"
              /\ req'[q].status = status
              /\ req'[q].body = req[q].body
<1> USE DEF Typed, RequestStates, Keeps, OthersUnchanged
<1>1. ASSUME NEW stage, GoTo(q, stage)
      PROVE  /\ Keeps(q) /\ OthersUnchanged(q)
             /\ req'[q].at = stage
             /\ req'[q].seen = req[q].seen
             /\ req'[q].status = req[q].status
             /\ req'[q].body = req[q].body
  BY <1>1 DEF GoTo
<1>2. ASSUME NEW seen, HoldRow(q, seen)
      PROVE  /\ Keeps(q) /\ OthersUnchanged(q)
             /\ req'[q].at = "locked"
             /\ req'[q].seen = seen
             /\ req'[q].status = req[q].status
             /\ req'[q].body = req[q].body
  BY <1>2 DEF HoldRow
<1>3. ASSUME NEW status, NEW body, ReplyWith(q, status, body)
      PROVE  /\ Keeps(q) /\ OthersUnchanged(q)
             /\ req'[q].at = "reply"
             /\ req'[q].status = status
             /\ req'[q].body = body
  BY <1>3 DEF ReplyWith
<1>4. ASSUME NEW status, EndWith(q, status)
      PROVE  /\ Keeps(q) /\ OthersUnchanged(q)
             /\ req'[q].at = "done"
             /\ req'[q].status = status
             /\ req'[q].body = req[q].body
  BY <1>4 DEF EndWith
<1> HIDE DEF Typed, RequestStates, Keeps, OthersUnchanged
<1> QED
  BY <1>1, <1>2, <1>3, <1>4

LEMMA ArriveEffect ==
  ASSUME Typed, NEW q \in Requests, NEW op \in Endpoints,
         NEW h \in HotelIds(op), NEW r \in RoomIds(op), Arrive(q, op, h, r)
  PROVE  /\ OthersUnchanged(q)
         /\ req'[q].at = "query" /\ req'[q].op = op
         /\ req'[q].hotel = h /\ req'[q].room = r
         /\ req'[q].status = 0 /\ req'[q].body = "none"
  BY DEF Typed, Arrive, Fresh, OthersUnchanged

(* Rows of table rooms are never deleted. *)
LEMMA RowsPersist ==
  ASSUME TypeOK, TypeOK', WellFormed, [Next]_vars, NEW r \in Rooms, rooms[r] # None
  PROVE  rooms'[r] # None
<1>1. ASSUME NEW q \in Requests, CommitReserve(q) \/ CommitRelease(q) PROVE rooms'[r] # None
  <2> USE DEF CommitReserve, CommitRelease
  <2>1. CASE req[q].room = r
    <3>1. rooms[r] \in RoomRows
      BY DEF TypeOK
    <3>2. \A b \in BOOLEAN : [rooms[r] EXCEPT !.is_available = b] \in RoomRows
      BY <3>1 DEF RoomRows
    <3>3. \E b \in BOOLEAN : rooms'[r] = [rooms[r] EXCEPT !.is_available = b]
      BY <1>1, <2>1 DEF TypeOK
    <3> QED
      BY <3>2, <3>3, NoneIsNothing
  <2>2. CASE req[q].room # r
    BY <1>1, <2>2 DEF TypeOK
  <2> QED
    BY <2>1, <2>2
<1>2. ASSUME NEW q \in Requests, InsertRoom(q) PROVE rooms'[r] # None
  <2>1. PICK b \in BOOLEAN :
          rooms' = [rooms EXCEPT ![req[q].room] = [hotel |-> req[q].hotel, is_available |-> b]]
    BY <1>2 DEF InsertRoom
  <2>2. [hotel |-> req[q].hotel, is_available |-> b] \in RoomRows
    BY <1>2 DEF InsertRoom, At, WellFormed, RoomRows
  <2> QED
    BY <2>1, <2>2, NoneIsNothing DEF TypeOK
<1>3. CASE rooms' = rooms
  BY <1>3
<1> QED
  BY <1>1, <1>2, <1>3
     DEF Next, Step, Quiet, vars, Arrive, SelectForUpdate, RowMissing, LockRow,
         RefuseReserve, RefreshRoom, InsertHotel, FindHotel, RefreshCreated,
         ReadRows, Close, Fail

-----------------------------------------------------------------------------

(* Requests stay well formed. *)
LEMMA StepWellFormed ==
  ASSUME InductiveInv, TypeOK', [Next]_vars
  PROVE  WellFormed'
<1> USE DEF InductiveInv
<1>0. Typed
  BY DEF TypeOK, Typed
<1>a. \A r \in Rooms : rooms[r] # None => rooms'[r] # None
  BY RowsPersist
<1> USE <1>0, <1>a DEF Keeps, OthersUnchanged, WellFormed
<1>1. ASSUME NEW q \in Requests, NEW op \in Endpoints,
             NEW h \in HotelIds(op), NEW r \in RoomIds(op), Arrive(q, op, h, r)
      PROVE  WellFormed'
  <2>1. /\ op \in AllEndpoints
        /\ op \notin {"none", "create_hotel", "list_rooms"} => r \in Rooms
        /\ op \notin {"none", "reserve", "release"} => h \in Hotels
    BY EndpointsExist DEF HotelIds, RoomIds
  <2>2. op # "none"
    BY <2>1 DEF AllEndpoints
  <2>3. /\ OthersUnchanged(q)
        /\ req'[q].at = "query" /\ req'[q].op = op
        /\ req'[q].hotel = h /\ req'[q].room = r
        /\ req'[q].status = 0 /\ req'[q].body = "none"
    BY <1>1, ArriveEffect DEF Arrive
  <2>4. rooms' = rooms
    BY <1>1 DEF Arrive
  <2> QED
    BY <2>1, <2>2, <2>3, <2>4
<1>2. ASSUME NEW q \in Requests, SelectForUpdate(q) PROVE WellFormed'
  BY <1>2, UpdateEffects DEF SelectForUpdate
<1>3. ASSUME NEW q \in Requests, RowMissing(q) \/ RefuseReserve(q) PROVE WellFormed'
  BY <1>3, UpdateEffects DEF RowMissing, RefuseReserve, At
<1>4. ASSUME NEW q \in Requests, LockRow(q) PROVE WellFormed'
  BY <1>4, UpdateEffects DEF LockRow
<1>5. ASSUME NEW q \in Requests, CommitReserve(q) \/ CommitRelease(q) PROVE WellFormed'
  <2>1. rooms'[req[q].room] # None
    BY <1>5 DEF CommitReserve, CommitRelease, At, LockedReadIsCurrent
  <2>2. /\ Keeps(q) /\ OthersUnchanged(q)
        /\ req'[q].at = "refresh"
        /\ req[q].at = "locked"
    BY <1>5, UpdateEffects DEF CommitReserve, CommitRelease, At
  <2> QED
    BY <2>1, <2>2
<1>6. ASSUME NEW q \in Requests, RefreshRoom(q) \/ RefreshCreated(q) \/ ReadRows(q)
      PROVE  WellFormed'
  BY <1>6, UpdateEffects DEF RefreshRoom, RefreshCreated, ReadRows
<1>7. ASSUME NEW q \in Requests, InsertHotel(q) \/ FindHotel(q) PROVE WellFormed'
  BY <1>7, UpdateEffects DEF InsertHotel, FindHotel, At
<1>8. ASSUME NEW q \in Requests, InsertRoom(q) PROVE WellFormed'
  <2>1. rooms'[req[q].room] # None
    <3>1. PICK b \in BOOLEAN :
            rooms' = [rooms EXCEPT ![req[q].room] =
                        [hotel |-> req[q].hotel, is_available |-> b]]
      BY <1>8 DEF InsertRoom
    <3>2. [hotel |-> req[q].hotel, is_available |-> b] \in RoomRows
      BY <1>8 DEF InsertRoom, At, RoomRows
    <3> QED
      BY <1>8, <3>1, <3>2, NoneIsNothing DEF TypeOK, InsertRoom, At
  <2> QED
    BY <1>8, <2>1, UpdateEffects DEF InsertRoom, At
<1>9. ASSUME NEW q \in Requests, Close(q) \/ Fail(q) PROVE WellFormed'
  BY <1>9, UpdateEffects DEF Close, Fail, InFlight, Stages
<1>10. ASSUME UNCHANGED vars PROVE WellFormed'
  BY <1>10 DEF vars
<1> QED
  BY <1>1, <1>2, <1>3, <1>4, <1>5, <1>6, <1>7, <1>8, <1>9, <1>10
     DEF Next, Step, Quiet

(* Locks and connections belong to sessions that are at work. *)
LEMMA StepLocks ==
  ASSUME InductiveInv, TypeOK', [Next]_vars
  PROVE  LocksBacked' /\ OneWriterPerRoom'
<1> USE DEF InductiveInv
<1>0. Typed
  BY DEF TypeOK, Typed
<1> USE <1>0, NoneIsNothing
        DEF Keeps, OthersUnchanged, LocksBacked, OneWriterPerRoom, InTransaction, TypeOK
<1>1. ASSUME NEW q \in Requests, NEW op \in Endpoints,
             NEW h \in HotelIds(op), NEW r \in RoomIds(op), Arrive(q, op, h, r)
      PROVE  LocksBacked' /\ OneWriterPerRoom'
  <2>1. /\ OthersUnchanged(q)
        /\ req'[q].at = "query" /\ req'[q].op = op
        /\ req'[q].hotel = h /\ req'[q].room = r
        /\ req'[q].status = 0 /\ req'[q].body = "none"
    BY <1>1, ArriveEffect
  <2>2. req[q].at = "idle" /\ UNCHANGED <<rowLock, conns>>
    BY <1>1 DEF Arrive
  <2> QED
    BY <2>1, <2>2
<1>2. ASSUME NEW q \in Requests, SelectForUpdate(q) PROVE LocksBacked' /\ OneWriterPerRoom'
  BY <1>2, UpdateEffects DEF SelectForUpdate
<1>3. ASSUME NEW q \in Requests, RowMissing(q) \/ RefuseReserve(q)
      PROVE  LocksBacked' /\ OneWriterPerRoom'
  BY <1>3, UpdateEffects DEF RowMissing, RefuseReserve, At
<1>4. ASSUME NEW q \in Requests, LockRow(q) PROVE LocksBacked' /\ OneWriterPerRoom'
  BY <1>4, RowTyped, UpdateEffects DEF LockRow
<1>5. ASSUME NEW q \in Requests, CommitReserve(q) \/ CommitRelease(q)
      PROVE  LocksBacked' /\ OneWriterPerRoom'
  <2>1. /\ Keeps(q) /\ OthersUnchanged(q)
        /\ req'[q].at = "refresh"
        /\ req[q].at = "locked"
    BY <1>5, UpdateEffects DEF CommitReserve, CommitRelease, At
  <2>2. EndTransaction(q)
    BY <1>5 DEF CommitReserve, CommitRelease
  <2>3. LocksBacked'
    BY <2>1, <2>2 DEF EndTransaction, Unlock
  <2>4. OneWriterPerRoom'
    BY <2>1, <2>2, RowTyped DEF EndTransaction, Unlock, WellFormed
  <2> QED
    BY <2>3, <2>4
<1>6. ASSUME NEW q \in Requests, RefreshRoom(q) \/ RefreshCreated(q) \/ ReadRows(q)
      PROVE  LocksBacked' /\ OneWriterPerRoom'
  BY <1>6, UpdateEffects DEF RefreshRoom, RefreshCreated, ReadRows
<1>7. ASSUME NEW q \in Requests, InsertHotel(q) \/ FindHotel(q)
      PROVE  LocksBacked' /\ OneWriterPerRoom'
  BY <1>7, UpdateEffects DEF InsertHotel, FindHotel, At
<1>8. ASSUME NEW q \in Requests, InsertRoom(q) PROVE LocksBacked' /\ OneWriterPerRoom'
  BY <1>8, UpdateEffects DEF InsertRoom, At, EndTransaction, Unlock
<1>9. ASSUME NEW q \in Requests, Close(q) \/ Fail(q) PROVE LocksBacked' /\ OneWriterPerRoom'
  <2>1. /\ Keeps(q) /\ OthersUnchanged(q)
        /\ req'[q].at = "done"
    BY <1>9, UpdateEffects DEF Close, Fail
  <2>2. EndTransaction(q)
    BY <1>9 DEF Close, Fail
  <2>3. LocksBacked'
    BY <2>1, <2>2 DEF EndTransaction, Unlock
  <2>4. OneWriterPerRoom'
    BY <2>1, <2>2, RowTyped DEF EndTransaction, Unlock, WellFormed
  <2> QED
    BY <2>3, <2>4
<1>10. ASSUME UNCHANGED vars PROVE LocksBacked' /\ OneWriterPerRoom'
  BY <1>10 DEF vars
<1> QED
  BY <1>1, <1>2, <1>3, <1>4, <1>5, <1>6, <1>7, <1>8, <1>9, <1>10
     DEF Next, Step, Quiet

(* The ids drawn by creates in progress stay free of rows and distinct. *)
LEMMA StepDrawnIds ==
  ASSUME InductiveInv, TypeOK', [Next]_vars
  PROVE  DrawnIdsFresh'
<1> USE DEF InductiveInv
<1>0. Typed
  BY DEF TypeOK, Typed
<1> USE <1>0 DEF Keeps, OthersUnchanged, DrawnIdsFresh, Creating
<1>1. ASSUME NEW q \in Requests, NEW op \in Endpoints,
             NEW h \in HotelIds(op), NEW r \in RoomIds(op), Arrive(q, op, h, r)
      PROVE  DrawnIdsFresh'
  <2>1. /\ OthersUnchanged(q)
        /\ req'[q].at = "query" /\ req'[q].op = op
        /\ req'[q].room = r
    BY <1>1, ArriveEffect
  <2>2. rooms' = rooms
    BY <1>1 DEF Arrive
  <2>3. op = "create_room" => rooms[r] = None
    BY <1>1 DEF Arrive
  <2>4. op = "create_room" => \A p \in Requests : Creating(p) => req[p].room # r
    BY <1>1 DEF Arrive, Drawn
  <2> QED
    BY <2>1, <2>2, <2>3, <2>4
<1>2. ASSUME NEW q \in Requests, SelectForUpdate(q) PROVE DrawnIdsFresh'
  BY <1>2, UpdateEffects DEF SelectForUpdate
<1>3. ASSUME NEW q \in Requests, RowMissing(q) \/ RefuseReserve(q) PROVE DrawnIdsFresh'
  BY <1>3, UpdateEffects DEF RowMissing, RefuseReserve
<1>4. ASSUME NEW q \in Requests, LockRow(q) PROVE DrawnIdsFresh'
  BY <1>4, UpdateEffects DEF LockRow
<1>5. ASSUME NEW q \in Requests, CommitReserve(q) \/ CommitRelease(q) PROVE DrawnIdsFresh'
  <2>1. /\ Keeps(q) /\ OthersUnchanged(q)
        /\ req'[q].at = "refresh"
    BY <1>5, UpdateEffects DEF CommitReserve, CommitRelease
  <2>2. rooms[req[q].room] # None
    BY <1>5 DEF CommitReserve, CommitRelease, At, LockedReadIsCurrent
  <2>3. \A r \in Rooms : r # req[q].room => rooms'[r] = rooms[r]
    BY <1>5 DEF CommitReserve, CommitRelease, TypeOK
  <2>4. \A p \in Requests : Creating(p) => req[p].room \in Rooms
    BY DEF WellFormed
  <2> QED
    BY <2>1, <2>2, <2>3, <2>4
<1>6. ASSUME NEW q \in Requests, RefreshRoom(q) \/ RefreshCreated(q) \/ ReadRows(q)
      PROVE  DrawnIdsFresh'
  BY <1>6, UpdateEffects DEF RefreshRoom, RefreshCreated, ReadRows
<1>7. ASSUME NEW q \in Requests, InsertHotel(q) \/ FindHotel(q) PROVE DrawnIdsFresh'
  BY <1>7, UpdateEffects DEF InsertHotel, FindHotel, At
<1>8. ASSUME NEW q \in Requests, InsertRoom(q) PROVE DrawnIdsFresh'
  <2>1. /\ Keeps(q) /\ OthersUnchanged(q)
        /\ req'[q].at = "refresh"
        /\ Creating(q)
    BY <1>8, UpdateEffects DEF InsertRoom, At
  <2>2. \A r \in Rooms : r # req[q].room => rooms'[r] = rooms[r]
    BY <1>8 DEF InsertRoom, TypeOK
  <2>3. \A p \in Requests : Creating(p) => req[p].room \in Rooms
    BY DEF WellFormed
  <2> QED
    BY <2>1, <2>2, <2>3
<1>9. ASSUME NEW q \in Requests, Close(q) \/ Fail(q) PROVE DrawnIdsFresh'
  BY <1>9, UpdateEffects DEF Close, Fail
<1>10. ASSUME UNCHANGED vars PROVE DrawnIdsFresh'
  BY <1>10 DEF vars
<1> QED
  BY <1>1, <1>2, <1>3, <1>4, <1>5, <1>6, <1>7, <1>8, <1>9, <1>10
     DEF Next, Step, Quiet

(***************************************************************************)
(* What a handler has read stays true until it commits: only the owner of  *)
(* the row lock writes an existing row.                                    *)
(***************************************************************************)
LEMMA StepLockedRead ==
  ASSUME InductiveInv, TypeOK', [Next]_vars
  PROVE  LockedReadIsCurrent'
<1> USE DEF InductiveInv
<1>0. Typed
  BY DEF TypeOK, Typed
<1>a. \A p \in Requests : req[p].at = "locked" => req[p].room \in Rooms
  BY DEF WellFormed
<1> USE <1>0, <1>a DEF Keeps, OthersUnchanged, LockedReadIsCurrent
<1>1. ASSUME NEW q \in Requests, NEW op \in Endpoints,
             NEW h \in HotelIds(op), NEW r \in RoomIds(op), Arrive(q, op, h, r)
      PROVE  LockedReadIsCurrent'
  <2>1. OthersUnchanged(q) /\ req'[q].at = "query" /\ rooms' = rooms
    BY <1>1, ArriveEffect DEF Arrive
  <2> QED
    BY <2>1
<1>2. ASSUME NEW q \in Requests, SelectForUpdate(q) PROVE LockedReadIsCurrent'
  BY <1>2, UpdateEffects DEF SelectForUpdate
<1>3. ASSUME NEW q \in Requests, RowMissing(q) \/ RefuseReserve(q) PROVE LockedReadIsCurrent'
  BY <1>3, UpdateEffects DEF RowMissing, RefuseReserve
<1>4. ASSUME NEW q \in Requests, LockRow(q) PROVE LockedReadIsCurrent'
  BY <1>4, UpdateEffects DEF LockRow
<1>5. ASSUME NEW q \in Requests, CommitReserve(q) \/ CommitRelease(q)
      PROVE  LockedReadIsCurrent'
  <2>1. /\ OthersUnchanged(q)
        /\ req'[q].at = "refresh"
        /\ req[q].at = "locked"
    BY <1>5, UpdateEffects DEF CommitReserve, CommitRelease, At
  <2>2. \A r \in Rooms : r # req[q].room => rooms'[r] = rooms[r]
    BY <1>5 DEF CommitReserve, CommitRelease, TypeOK
  <2>3. \A p \in Requests :
          p # q /\ req[p].at = "locked" => req[p].room # req[q].room
    BY <2>1 DEF OneWriterPerRoom
  <2> QED
    BY <2>1, <2>2, <2>3
<1>6. ASSUME NEW q \in Requests, RefreshRoom(q) \/ RefreshCreated(q) \/ ReadRows(q)
      PROVE  LockedReadIsCurrent'
  BY <1>6, UpdateEffects DEF RefreshRoom, RefreshCreated, ReadRows
<1>7. ASSUME NEW q \in Requests, InsertHotel(q) \/ FindHotel(q) PROVE LockedReadIsCurrent'
  BY <1>7, UpdateEffects DEF InsertHotel, FindHotel
<1>8. ASSUME NEW q \in Requests, InsertRoom(q) PROVE LockedReadIsCurrent'
  <2>1. OthersUnchanged(q) /\ req'[q].at = "refresh"
    BY <1>8, UpdateEffects DEF InsertRoom
  <2>2. rooms[req[q].room] = None
    BY <1>8 DEF InsertRoom, At, DrawnIdsFresh, Creating
  <2>3. \A r \in Rooms : r # req[q].room => rooms'[r] = rooms[r]
    BY <1>8 DEF InsertRoom, TypeOK
  <2> QED
    BY <2>1, <2>2, <2>3
<1>9. ASSUME NEW q \in Requests, Close(q) \/ Fail(q) PROVE LockedReadIsCurrent'
  BY <1>9, UpdateEffects DEF Close, Fail
<1>10. ASSUME UNCHANGED vars PROVE LockedReadIsCurrent'
  BY <1>10 DEF vars
<1> QED
  BY <1>1, <1>2, <1>3, <1>4, <1>5, <1>6, <1>7, <1>8, <1>9, <1>10
     DEF Next, Step, Quiet

(***************************************************************************)
(* A reservation ends only by a release: it is overwritten by no other     *)
(* reserve, because a reserve commits only on a row it read as available.  *)
(***************************************************************************)
LEMMA StepReservations ==
  ASSUME InductiveInv, TypeOK', [Next]_vars
  PROVE  ReservationsExclusive' /\ ReserveBodyTruthful'
<1> DEFINE Goal == ReservationsExclusive' /\ ReserveBodyTruthful'
<1> USE DEF InductiveInv
<1>0. Typed
  BY DEF TypeOK, Typed
<1>a. \A p \in Requests : req[p].op = "reserve" => req[p].room \in Rooms
  BY DEF WellFormed
<1> USE <1>0, <1>a
        DEF Keeps, OthersUnchanged, ReservationsExclusive, ReserveBodyTruthful, RoomState
<1>1. ASSUME NEW q \in Requests, NEW op \in Endpoints,
             NEW h \in HotelIds(op), NEW r \in RoomIds(op), Arrive(q, op, h, r)
      PROVE  Goal
  <2>1. /\ OthersUnchanged(q)
        /\ req'[q].at = "query" /\ req'[q].status = 0 /\ req'[q].body = "none"
    BY <1>1, ArriveEffect
  <2>2. UNCHANGED <<rooms, holder, revoked>>
    BY <1>1 DEF Arrive
  <2> QED
    BY <2>1, <2>2
<1>2. ASSUME NEW q \in Requests, SelectForUpdate(q) PROVE Goal
  BY <1>2, UpdateEffects DEF SelectForUpdate
<1>3. ASSUME NEW q \in Requests, RowMissing(q) \/ RefuseReserve(q) PROVE Goal
  BY <1>3, UpdateEffects DEF RowMissing, RefuseReserve
<1>4. ASSUME NEW q \in Requests, LockRow(q) PROVE Goal
  BY <1>4, UpdateEffects DEF LockRow
<1>5. ASSUME NEW q \in Requests, CommitReserve(q) PROVE Goal
  <2> DEFINE r == req[q].room
  <2>1. /\ Keeps(q) /\ OthersUnchanged(q)
        /\ req'[q].at = "refresh"
        /\ req'[q].body = req[q].body
        /\ req[q].op = "reserve"
    BY <1>5, UpdateEffects DEF CommitReserve, At
  <2>2. /\ r \in Rooms
        /\ rooms[r] \in RoomRows
        /\ rooms[r].is_available
    BY <1>5, RowTyped DEF CommitReserve, At, LockedReadIsCurrent
  <2>3. holder[r] = None
    BY <2>2
  <2>4. /\ rooms' = [rooms EXCEPT ![r].is_available = FALSE]
        /\ holder' = [holder EXCEPT ![r] = q]
        /\ revoked' = revoked
    BY <1>5 DEF CommitReserve
  <2>5. /\ ~rooms'[r].is_available
        /\ rooms'[r] # None
    BY <2>2, <2>4, RowsPersist, NoneIsNothing DEF TypeOK, RoomRows
  <2>6. /\ \A s \in Rooms : s # r => rooms'[s] = rooms[s] /\ holder'[s] = holder[s]
        /\ holder'[r] = q
    BY <2>2, <2>4 DEF TypeOK
  <2>7. ReservationsExclusive'
    BY <2>1, <2>2, <2>3, <2>4, <2>5, <2>6, NoneIsNothing
  <2>8. ReserveBodyTruthful'
    BY <2>1, <2>4
  <2> QED
    BY <2>7, <2>8
<1>6. ASSUME NEW q \in Requests, CommitRelease(q) PROVE Goal
  <2> DEFINE r == req[q].room
  <2>1. /\ Keeps(q) /\ OthersUnchanged(q)
        /\ req'[q].body = req[q].body
        /\ req[q].op = "release"
    BY <1>6, UpdateEffects DEF CommitRelease, At
  <2>2. r \in Rooms
    BY <1>6, RowTyped DEF CommitRelease, At, LockedReadIsCurrent
  <2>3. /\ \A s \in Rooms : s # r => rooms'[s] = rooms[s] /\ holder'[s] = holder[s]
        /\ holder'[r] = None
        /\ revoked' = revoked \cup ({holder[r]} \ {None})
    BY <1>6, <2>2 DEF CommitRelease, TypeOK
  <2>4. ReservationsExclusive'
    BY <2>1, <2>2, <2>3, NoneIsNothing DEF TypeOK
  <2>5. ReserveBodyTruthful'
    BY <2>1, <2>3
  <2> QED
    BY <2>4, <2>5
<1>7. ASSUME NEW q \in Requests, RefreshRoom(q) PROVE Goal
  <2>1. /\ Keeps(q) /\ OthersUnchanged(q)
        /\ req[q].at = "refresh"
        /\ req'[q].status = 200
        /\ req'[q].body = RoomState(req[q].room)
        /\ UNCHANGED <<rooms, holder, revoked>>
    BY <1>7, UpdateEffects DEF RefreshRoom
  <2>2. q \in Requests => q # None
    BY NoneIsNothing
  <2>3. ReservationsExclusive'
    BY <2>1, <2>2
  <2>4. ReserveBodyTruthful'
    BY <2>1, <2>2
  <2> QED
    BY <2>3, <2>4
<1>8. ASSUME NEW q \in Requests, RefreshCreated(q) \/ ReadRows(q) PROVE Goal
  BY <1>8, UpdateEffects DEF RefreshCreated, ReadRows
<1>9. ASSUME NEW q \in Requests, InsertHotel(q) \/ FindHotel(q) PROVE Goal
  BY <1>9, UpdateEffects DEF InsertHotel, FindHotel, At
<1>10. ASSUME NEW q \in Requests, InsertRoom(q) PROVE Goal
  <2>1. /\ Keeps(q) /\ OthersUnchanged(q)
        /\ req'[q].body = req[q].body
        /\ req[q].op = "create_room"
        /\ UNCHANGED <<holder, revoked>>
    BY <1>10, UpdateEffects DEF InsertRoom, At
  <2>2. /\ req[q].room \in Rooms
        /\ rooms[req[q].room] = None
    BY <1>10 DEF InsertRoom, At, DrawnIdsFresh, Creating, WellFormed
  <2>3. \A s \in Rooms : s # req[q].room => rooms'[s] = rooms[s]
    BY <1>10 DEF InsertRoom, TypeOK
  <2>4. holder[req[q].room] = None
    BY <2>2
  <2> QED
    BY <2>1, <2>2, <2>3, <2>4
<1>11. ASSUME NEW q \in Requests, Close(q) PROVE Goal
  BY <1>11, UpdateEffects DEF Close
<1>12. ASSUME NEW q \in Requests, Fail(q) PROVE Goal
  BY <1>12, UpdateEffects DEF Fail
<1>13. ASSUME UNCHANGED vars PROVE Goal
  BY <1>13 DEF vars
<1> QED
  BY <1>1, <1>2, <1>3, <1>4, <1>5, <1>6, <1>7, <1>8, <1>9, <1>10, <1>11, <1>12, <1>13
     DEF Next, Step, Quiet

-----------------------------------------------------------------------------

(* The initial states satisfy the inductive invariant. *)
LEMMA InitInductiveInv == Init => InductiveInv
<1> SUFFICES ASSUME Init PROVE InductiveInv
  OBVIOUS
<1>1. \A q \in Requests :
        /\ req[q].at = "idle" /\ req[q].op = "none"
        /\ req[q].status = 0 /\ req[q].body = "none"
  BY DEF Init, NotMade, Fresh
<1>2. TypeOK
  BY InitTypeOK
<1>3. WellFormed /\ DrawnIdsFresh
  BY <1>1 DEF WellFormed, DrawnIdsFresh, Creating
<1>4. LocksBacked /\ OneWriterPerRoom /\ LockedReadIsCurrent
  BY <1>1 DEF Init, LocksBacked, OneWriterPerRoom, LockedReadIsCurrent, InTransaction
<1>5. ReservationsExclusive /\ ReserveBodyTruthful
  BY <1>1 DEF Init, ReservationsExclusive, ReserveBodyTruthful
<1> QED
  BY <1>2, <1>3, <1>4, <1>5 DEF InductiveInv

(***************************************************************************)
(* The inductive invariant holds in every reachable state, for any tables, *)
(* any number of requests and any pool: it is what the locking of          *)
(* rooms.py:42-54 and 60-69 maintains.                                     *)
(***************************************************************************)
THEOREM Invariance == Spec => []InductiveInv
<1>1. InductiveInv /\ [Next]_vars => InductiveInv'
  <2> SUFFICES ASSUME InductiveInv, [Next]_vars PROVE InductiveInv'
    OBVIOUS
  <2>1. TypeOK'
    BY StepTypeOK DEF InductiveInv
  <2> QED
    BY <2>1, StepWellFormed, StepLocks, StepDrawnIds, StepLockedRead, StepReservations
       DEF InductiveInv
<1> QED
  BY <1>1, InitInductiveInv, PTL DEF Spec

(* The tables, locks, connections and requests are well typed throughout. *)
THEOREM TypeCorrect == Spec => []TypeOK
<1>1. InductiveInv => TypeOK
  BY DEF InductiveInv
<1> QED
  BY <1>1, Invariance, PTL

(***************************************************************************)
(* SELECT ... FOR UPDATE serialises the handlers: between its read and its *)
(* commit a transaction owns the row lock, and what it read stays current. *)
(***************************************************************************)
THEOREM RowsSerialised == Spec => [](OneWriterPerRoom /\ LockedReadIsCurrent)
<1>1. InductiveInv => OneWriterPerRoom /\ LockedReadIsCurrent
  BY DEF InductiveInv
<1> QED
  BY <1>1, Invariance, PTL

(***************************************************************************)
(* No two reservations of a room stand at the same time: a committed       *)
(* reserve is the room's last word until a release ends it.                *)
(***************************************************************************)
THEOREM ReservationsNeverOverlap == Spec => []ReservationsExclusive
<1>1. InductiveInv => ReservationsExclusive
  BY DEF InductiveInv
<1> QED
  BY <1>1, Invariance, PTL

(* No caller that still holds the room is told that it is available. *)
THEOREM ReserveAnswersTruthful == Spec => []ReserveBodyTruthful
<1>1. InductiveInv => ReserveBodyTruthful
  BY DEF InductiveInv
<1> QED
  BY <1>1, Invariance, PTL

(***************************************************************************)
(* The pool and the row locks do not deadlock: whoever waits for a lock    *)
(* waits for a request that has a connection and can finish.               *)
(***************************************************************************)
THEOREM PoolDeadlockFree == Spec => []PoolNeverStuck
<1>1. InductiveInv => PoolNeverStuck
  <2> SUFFICES ASSUME InductiveInv, Cardinality(conns) = PoolSize
               PROVE  \E q \in conns :
                        \/ req[q].at \in {"locked", "insert", "reply"}
                        \/ /\ req[q].at = "row"
                           /\ \/ rooms[req[q].room] = None
                              \/ rowLock[req[q].room] = None
    BY DEF PoolNeverStuck
  <2>1. conns # {}
    BY PoolNotEmpty, FS_EmptySet
  <2>2. PICK q \in conns : TRUE
    BY <2>1
  <2>3. q \in Requests /\ req[q].at \in {"row", "locked", "insert", "reply"}
    BY DEF InductiveInv, TypeOK, LocksBacked
  <2>4. CASE req[q].at # "row"
    BY <2>3, <2>4
  <2>5. CASE req[q].at = "row" /\ rowLock[req[q].room] # None
    <3> DEFINE p == rowLock[req[q].room]
    <3>1. req[q].room \in Rooms
      BY <2>3, <2>5 DEF InductiveInv, WellFormed
    <3>2. p \in conns /\ req[p].at \in {"locked", "reply"}
      BY <2>5, <3>1 DEF InductiveInv, LocksBacked
    <3> QED
      BY <3>2
  <2> QED
    BY <2>4, <2>5
<1> QED
  BY <1>1, Invariance, PTL

-----------------------------------------------------------------------------

(* How a step of one request shows in the abstract calls. *)
LEMMA AbstractUpdate ==
  ASSUME NEW q \in Requests, NEW c, OthersUnchanged(q), AbstractCall(q)' = c
  PROVE  AbstractCalls' = [AbstractCalls EXCEPT ![q] = c]
<1>1. \A p \in Requests : p # q => AbstractCall(p)' = AbstractCall(p)
  BY DEF OthersUnchanged, AbstractCall
<1> QED
  BY <1>1 DEF AbstractCalls

LEMMA AbstractConclusion ==
  ASSUME NEW q \in Requests, Keeps(q), OthersUnchanged(q),
         req[q].op \in {"reserve", "release"},
         NEW stage, AbstractStage(req'[q].at) = stage,
         NEW answer, (IF req'[q].at = "refresh" THEN 200 ELSE req'[q].status) = answer
  PROVE  Atomic!Conclude(q, stage, answer)
<1> DEFINE x == IF req[q].at = "refresh" THEN 200 ELSE req[q].status
           y == IF req'[q].at = "refresh" THEN 200 ELSE req'[q].status
<1>1. AbstractCall(q) = [ st   |-> AbstractStage(req[q].at), op  |-> req[q].op,
                          room |-> req[q].room,              ans |-> x ]
  BY DEF AbstractCall
<1>2. AbstractCall(q)' = [ st   |-> AbstractStage(req'[q].at), op  |-> req[q].op,
                           room |-> req[q].room,               ans |-> y ]
  BY DEF AbstractCall, Keeps
<1>3. y = answer
  OBVIOUS
<1> HIDE DEF x, y
<1>4. AbstractCall(q)' = [ st   |-> stage,                op  |-> AbstractCall(q).op,
                           room |-> AbstractCall(q).room, ans |-> answer ]
  BY <1>1, <1>2, <1>3
<1>5. AbstractCalls[q] = AbstractCall(q)
  BY DEF AbstractCalls
<1> QED
  BY <1>4, <1>5, AbstractUpdate DEF Atomic!Conclude

LEMMA AbstractStutter ==
  ASSUME NEW q \in Requests, OthersUnchanged(q), AbstractCall(q)' = AbstractCall(q)
  PROVE  AbstractCalls' = AbstractCalls
<1>1. \A p \in Requests : AbstractCall(p)' = AbstractCall(p)
  BY DEF OthersUnchanged, AbstractCall
<1> QED
  BY <1>1 DEF AbstractCalls

LEMMA InitRefines == Init => Atomic!AtomicInit
<1> SUFFICES ASSUME Init PROVE Atomic!AtomicInit
  OBVIOUS
<1>1. AbstractRooms \in [Rooms -> {"absent", "free", "taken"}]
  BY DEF AbstractRooms, RoomState
<1>2. AbstractCalls = [q \in Requests |-> Atomic!NotMade]
  BY DEF Init, AbstractCalls, AbstractCall, NotMade, Fresh, Atomic!NotMade
<1> QED
  BY <1>1, <1>2 DEF Init, Atomic!AtomicInit

AbstractlyUnchanged == UNCHANGED <<AbstractRooms, holder, revoked, AbstractCalls>>

(* A step on the tables that touches no row shows in no abstract room. *)
LEMMA SameRows == ASSUME rooms' = rooms PROVE AbstractRooms' = AbstractRooms
  BY DEF AbstractRooms, RoomState

(* Every step maps to a step of AtomicRooms or to none. *)
LEMMA StepRefines ==
  ASSUME InductiveInv, TypeOK', [Next]_vars
  PROVE  Atomic!AtomicNext \/ AbstractlyUnchanged
<1> DEFINE Goal == Atomic!AtomicNext \/ AbstractlyUnchanged
<1>0. Typed /\ TypeOK /\ WellFormed
  BY DEF InductiveInv, TypeOK, Typed
<1>a. \A q \in Requests : Atomic!Apply(q) \/ Atomic!Answer(q) \/ Atomic!Break(q)
                            => Atomic!AtomicNext
  BY DEF Atomic!AtomicNext
<1>b. \A q \in Requests : AbstractCalls[q] = AbstractCall(q)
  BY DEF AbstractCalls
<1>c. \A r \in Rooms : AbstractRooms[r] = RoomState(r)
  BY DEF AbstractRooms
<1> USE <1>0 DEF Keeps
<1>1. ASSUME NEW q \in Requests, NEW op \in Endpoints,
             NEW h \in HotelIds(op), NEW r \in RoomIds(op), Arrive(q, op, h, r)
      PROVE  Goal
  <2>1. /\ OthersUnchanged(q)
        /\ req'[q].at = "query" /\ req'[q].op = op
        /\ req'[q].room = r /\ req'[q].status = 0
    BY <1>1, ArriveEffect
  <2>2. /\ AbstractRooms' = AbstractRooms
        /\ UNCHANGED <<holder, revoked>>
        /\ req[q].at = "idle" /\ req[q].op = "none"
    BY <1>1, SameRows DEF Arrive, WellFormed
  <2>3. CASE op \in {"reserve", "release"}
    <3>1. r \in Rooms
      BY <2>3 DEF RoomIds
    <3>2. AbstractCall(q)' = [st |-> "sent", op |-> op, room |-> r, ans |-> 0]
      BY <2>1, <2>3 DEF AbstractCall, AbstractStage
    <3>3. AbstractCall(q).st = "idle"
      BY <2>2 DEF AbstractCall
    <3>4. Atomic!Send(q, op, r)
      BY <1>b, <2>1, <2>2, <3>2, <3>3, AbstractUpdate DEF Atomic!Send
    <3> QED
      BY <2>3, <3>1, <3>4 DEF Atomic!AtomicNext, Atomic!Operations
  <2>4. CASE op \notin {"reserve", "release"}
    <3>1. AbstractCall(q)' = AbstractCall(q)
      BY <2>1, <2>2, <2>4 DEF AbstractCall
    <3> QED
      BY <2>1, <2>2, <3>1, AbstractStutter DEF AbstractlyUnchanged
  <2> QED
    BY <2>3, <2>4
<1>2. ASSUME NEW q \in Requests, SelectForUpdate(q) PROVE Goal
  <2>1. /\ Keeps(q) /\ OthersUnchanged(q)
        /\ req[q].at = "query" /\ req'[q].at = "row" /\ req'[q].status = req[q].status
    BY <1>2, UpdateEffects DEF SelectForUpdate
  <2>2. AbstractCall(q)' = AbstractCall(q)
    BY <2>1 DEF AbstractCall, AbstractStage
  <2> QED
    BY <1>2, <2>1, <2>2, AbstractStutter, SameRows DEF AbstractlyUnchanged, SelectForUpdate
<1>3. ASSUME NEW q \in Requests, RowMissing(q) PROVE Goal
  <2>1. /\ Keeps(q) /\ OthersUnchanged(q)
        /\ req[q].at = "row" /\ req'[q].at = "reply" /\ req'[q].status = 404
        /\ req[q].op \in {"reserve", "release"} /\ req[q].room \in Rooms
        /\ rooms[req[q].room] = None
    BY <1>3, UpdateEffects DEF RowMissing, WellFormed
  <2>2. Atomic!Conclude(q, "applied", 404)
    BY <2>1, AbstractConclusion DEF AbstractStage
  <2>3. AbstractCall(q).st = "sent" /\ AbstractCall(q).room = req[q].room
    BY <2>1 DEF AbstractCall, AbstractStage
  <2>4. RoomState(req[q].room) = "absent"
    BY <2>1 DEF RoomState
  <2>5. Atomic!MissRoom(q)
    BY <1>3, <1>b, <1>c, <2>1, <2>2, <2>3, <2>4, SameRows
       DEF Atomic!MissRoom, Atomic!Decide, RowMissing
  <2> QED
    BY <1>a, <2>5 DEF Atomic!Apply
<1>4. ASSUME NEW q \in Requests, LockRow(q) PROVE Goal
  <2>1. /\ Keeps(q) /\ OthersUnchanged(q)
        /\ req[q].at = "row" /\ req'[q].at = "locked" /\ req'[q].status = req[q].status
    BY <1>4, UpdateEffects DEF LockRow
  <2>2. AbstractCall(q)' = AbstractCall(q)
    BY <2>1 DEF AbstractCall, AbstractStage
  <2> QED
    BY <1>4, <2>1, <2>2, AbstractStutter, SameRows DEF AbstractlyUnchanged, LockRow
<1>5. ASSUME NEW q \in Requests, RefuseReserve(q) PROVE Goal
  <2>1. /\ Keeps(q) /\ OthersUnchanged(q)
        /\ req[q].at = "locked" /\ req'[q].at = "reply" /\ req'[q].status = 409
        /\ req[q].op = "reserve" /\ req[q].room \in Rooms
    BY <1>5, UpdateEffects DEF RefuseReserve, At, WellFormed
  <2>2. Atomic!Conclude(q, "applied", 409)
    BY <2>1, AbstractConclusion DEF AbstractStage
  <2>3. /\ AbstractCall(q).st = "sent" /\ AbstractCall(q).op = "reserve"
        /\ AbstractCall(q).room = req[q].room
    BY <2>1 DEF AbstractCall, AbstractStage
  <2>4. RoomState(req[q].room) = "taken"
    BY <1>5, <2>1 DEF RoomState, RefuseReserve, InductiveInv, LockedReadIsCurrent
  <2>5. Atomic!RefuseRoom(q)
    BY <1>5, <1>b, <1>c, <2>1, <2>2, <2>3, <2>4, SameRows
       DEF Atomic!RefuseRoom, Atomic!Arriving, Atomic!Decide, RefuseReserve
  <2> QED
    BY <1>a, <2>5 DEF Atomic!Apply
<1>6. ASSUME NEW q \in Requests, CommitReserve(q) PROVE Goal
  <2> DEFINE r == req[q].room
  <2>1. /\ Keeps(q) /\ OthersUnchanged(q)
        /\ req[q].at = "locked" /\ req'[q].at = "refresh"
        /\ req[q].op = "reserve"
    BY <1>6, UpdateEffects DEF CommitReserve, At
  <2>2. /\ r \in Rooms /\ rooms[r] # None /\ rooms[r] \in RoomRows
        /\ rooms[r].is_available
    BY <1>6, <2>1, RowTyped DEF CommitReserve, InductiveInv, LockedReadIsCurrent
  <2>3. Atomic!Conclude(q, "applied", 200)
    BY <2>1, AbstractConclusion DEF AbstractStage
  <2>4. /\ AbstractCall(q).st = "sent" /\ AbstractCall(q).op = "reserve"
        /\ AbstractCall(q).room = r
    BY <2>1 DEF AbstractCall, AbstractStage
  <2>5. AbstractRooms' = [AbstractRooms EXCEPT ![r] = "taken"]
    <3>1. /\ rooms'[r] # None
          /\ ~rooms'[r].is_available
          /\ \A s \in Rooms : s # r => rooms'[s] = rooms[s]
      BY <1>6, <2>2, RowsPersist DEF CommitReserve, TypeOK, RoomRows
    <3> QED
      BY <2>2, <3>1 DEF AbstractRooms, RoomState
  <2>6. RoomState(r) = "free"
    BY <2>2 DEF RoomState
  <2>7. Atomic!TakeRoom(q)
    BY <1>6, <1>b, <1>c, <2>1, <2>2, <2>3, <2>4, <2>5, <2>6
       DEF Atomic!TakeRoom, Atomic!Arriving, Atomic!Decide, CommitReserve
  <2> QED
    BY <1>a, <2>7 DEF Atomic!Apply
<1>7. ASSUME NEW q \in Requests, CommitRelease(q) PROVE Goal
  <2> DEFINE r == req[q].room
  <2>1. /\ Keeps(q) /\ OthersUnchanged(q)
        /\ req[q].at = "locked" /\ req'[q].at = "refresh"
        /\ req[q].op = "release"
    BY <1>7, UpdateEffects DEF CommitRelease, At
  <2>2. r \in Rooms /\ rooms[r] # None /\ rooms[r] \in RoomRows
    BY <1>7, <2>1, RowTyped DEF CommitRelease, InductiveInv, LockedReadIsCurrent
  <2>3. Atomic!Conclude(q, "applied", 200)
    BY <2>1, AbstractConclusion DEF AbstractStage
  <2>4. /\ AbstractCall(q).st = "sent" /\ AbstractCall(q).op = "release"
        /\ AbstractCall(q).room = r
    BY <2>1 DEF AbstractCall, AbstractStage
  <2>5. AbstractRooms' = [AbstractRooms EXCEPT ![r] = "free"]
    <3>1. /\ rooms'[r] # None
          /\ rooms'[r].is_available
          /\ \A s \in Rooms : s # r => rooms'[s] = rooms[s]
      BY <1>7, <2>2, RowsPersist DEF CommitRelease, TypeOK, RoomRows
    <3> QED
      BY <2>2, <3>1 DEF AbstractRooms, RoomState
  <2>6. RoomState(r) # "absent"
    BY <2>2 DEF RoomState
  <2>7. Atomic!FreeRoom(q)
    BY <1>7, <1>b, <1>c, <2>1, <2>2, <2>3, <2>4, <2>5, <2>6
       DEF Atomic!FreeRoom, Atomic!Arriving, Atomic!Decide, CommitRelease
  <2> QED
    BY <1>a, <2>7 DEF Atomic!Apply
<1>8. ASSUME NEW q \in Requests, RefreshRoom(q) PROVE Goal
  <2>1. /\ Keeps(q) /\ OthersUnchanged(q)
        /\ req[q].at = "refresh" /\ req'[q].at = "reply" /\ req'[q].status = 200
    BY <1>8, UpdateEffects DEF RefreshRoom
  <2>2. AbstractCall(q)' = AbstractCall(q)
    BY <2>1 DEF AbstractCall, AbstractStage
  <2> QED
    BY <1>8, <2>1, <2>2, AbstractStutter, SameRows DEF AbstractlyUnchanged, RefreshRoom
<1>9. ASSUME NEW q \in Requests,
             InsertHotel(q) \/ FindHotel(q) \/ RefreshCreated(q) \/ ReadRows(q)
      PROVE  Goal
  <2>1. /\ Keeps(q) /\ OthersUnchanged(q)
        /\ req[q].op \notin {"reserve", "release"}
        /\ UNCHANGED <<rooms, holder, revoked>>
    BY <1>9, UpdateEffects DEF InsertHotel, FindHotel, RefreshCreated, ReadRows, At
  <2>2. AbstractCall(q)' = AbstractCall(q)
    BY <2>1 DEF AbstractCall
  <2> QED
    BY <2>1, <2>2, AbstractStutter, SameRows DEF AbstractlyUnchanged
<1>10. ASSUME NEW q \in Requests, InsertRoom(q) PROVE Goal
  <2> DEFINE r == req[q].room
  <2>1. /\ Keeps(q) /\ OthersUnchanged(q)
        /\ req[q].op = "create_room"
        /\ req'[q].at = "refresh"
        /\ UNCHANGED <<holder, revoked>>
    BY <1>10, UpdateEffects DEF InsertRoom, At
  <2>2. AbstractCall(q)' = AbstractCall(q)
    BY <2>1 DEF AbstractCall
  <2>3. r \in Rooms /\ rooms[r] = None
    BY <1>10 DEF InsertRoom, At, InductiveInv, DrawnIdsFresh, Creating, WellFormed
  <2>4. PICK b \in BOOLEAN :
          rooms' = [rooms EXCEPT ![r] = [hotel |-> req[q].hotel, is_available |-> b]]
    BY <1>10 DEF InsertRoom
  <2>5. rooms'[r] # None /\ \A s \in Rooms : s # r => rooms'[s] = rooms[s]
    <3>1. [hotel |-> req[q].hotel, is_available |-> b] \in RoomRows
      BY <1>10 DEF InsertRoom, At, WellFormed, RoomRows
    <3> QED
      BY <2>3, <2>4, <3>1, NoneIsNothing DEF TypeOK
  <2>6. RoomState(r) = "absent" /\ RoomState(r)' \in {"free", "taken"}
    BY <2>1, <2>3, <2>5 DEF RoomState
  <2>7. AbstractRooms' = [AbstractRooms EXCEPT ![r] = RoomState(r)']
    BY <2>1, <2>3, <2>5 DEF AbstractRooms, RoomState
  <2>8. Atomic!Open(r)
    BY <1>c, <2>1, <2>2, <2>3, <2>6, <2>7, AbstractStutter DEF Atomic!Open
  <2> QED
    BY <2>3, <2>8 DEF Atomic!AtomicNext
<1>11. ASSUME NEW q \in Requests, Close(q) PROVE Goal
  <2>1. /\ Keeps(q) /\ OthersUnchanged(q)
        /\ req[q].at = "reply" /\ req'[q].at = "done" /\ req'[q].status = req[q].status
    BY <1>11, UpdateEffects DEF Close
  <2>2. CASE req[q].op \in {"reserve", "release"}
    <3>1. /\ AbstractCall(q)' = [AbstractCall(q) EXCEPT !.st = "over"]
          /\ AbstractCall(q).st = "applied"
      BY <2>1, <2>2 DEF AbstractCall, AbstractStage
    <3>2. Atomic!Answer(q)
      BY <1>11, <1>b, <2>1, <3>1, AbstractUpdate, SameRows DEF Atomic!Answer, Close
    <3> QED
      BY <1>a, <3>2
  <2>3. CASE req[q].op \notin {"reserve", "release"}
    <3>1. AbstractCall(q)' = AbstractCall(q)
      BY <2>1, <2>3 DEF AbstractCall
    <3> QED
      BY <1>11, <2>1, <3>1, AbstractStutter, SameRows DEF AbstractlyUnchanged, Close
  <2> QED
    BY <2>2, <2>3
<1>12. ASSUME NEW q \in Requests, Fail(q) PROVE Goal
  <2>1. /\ Keeps(q) /\ OthersUnchanged(q)
        /\ req[q].at \in InFlight /\ req'[q].at = "done" /\ req'[q].status = 500
    BY <1>12, UpdateEffects DEF Fail
  <2>2. CASE req[q].op \in {"reserve", "release"}
    <3>1. Atomic!Conclude(q, "over", 500)
      BY <2>1, <2>2, AbstractConclusion DEF AbstractStage
    <3>2. AbstractCall(q).st \in {"sent", "applied"}
      BY <2>1, <2>2 DEF AbstractCall, AbstractStage, InFlight, Stages
    <3>3. Atomic!Break(q)
      BY <1>12, <1>b, <3>1, <3>2, SameRows DEF Atomic!Break, Fail
    <3> QED
      BY <1>a, <3>3
  <2>3. CASE req[q].op \notin {"reserve", "release"}
    <3>1. AbstractCall(q)' = AbstractCall(q)
      BY <2>1, <2>3 DEF AbstractCall
    <3> QED
      BY <1>12, <2>1, <3>1, AbstractStutter, SameRows DEF AbstractlyUnchanged, Fail
  <2> QED
    BY <2>2, <2>3
<1>13. ASSUME UNCHANGED vars PROVE Goal
  BY <1>13 DEF vars, AbstractlyUnchanged, AbstractRooms, AbstractCalls, RoomState, AbstractCall
<1> QED
  BY <1>1, <1>2, <1>3, <1>4, <1>5, <1>6, <1>7, <1>8, <1>9, <1>10, <1>11, <1>12, <1>13
     DEF Next, Step, Quiet

(***************************************************************************)
(* hotel-service keeps its promise: reserve and release, made of several   *)
(* statements and subject to failure at any of them, look to every caller  *)
(* like the atomic calls of AtomicRooms.                                   *)
(***************************************************************************)
THEOREM HotelImplementsAtomicRooms == Spec => ImplementsAtomicRooms
<1>1. InductiveInv /\ InductiveInv' /\ [Next]_vars
        => [Atomic!AtomicNext]_(Atomic!atomicVars)
  BY StepRefines DEF InductiveInv, AbstractlyUnchanged, Atomic!atomicVars
<1> QED
  BY <1>1, InitRefines, Invariance, PTL
     DEF Spec, ImplementsAtomicRooms, Atomic!AtomicSpec

Promise == INSTANCE AtomicRooms_proofs WITH
  Callers <- Requests,
  room    <- AbstractRooms,
  call    <- AbstractCalls

(***************************************************************************)
(* What AtomicRooms promises is therefore true of the handlers: every hold *)
(* is accounted for, and a granted reserve keeps its room until a release  *)
(* ends it, whatever fails on the way (rooms.py:40-71).                    *)
(***************************************************************************)
THEOREM HotelKeepsPromise == Spec => []Atomic!HoldsAccountedFor
<1>1. Promise!AtomicSpec => []Promise!HoldsAccountedFor
  BY NoneIsNothing, Promise!PromiseKept
<1>2. Promise!HoldsAccountedFor <=> Atomic!HoldsAccountedFor
  BY DEF Promise!HoldsAccountedFor, Atomic!HoldsAccountedFor
<1>3. Atomic!AtomicInit <=> Promise!AtomicInit
  BY DEF Atomic!AtomicInit, Promise!AtomicInit, Atomic!NotMade, Promise!NotMade
<1>4. [Atomic!AtomicNext]_(Atomic!atomicVars) <=> [Promise!AtomicNext]_(Promise!atomicVars)
  BY DEF Atomic!AtomicNext, Atomic!atomicVars, Atomic!Operations, Atomic!Send, Atomic!Apply,
         Atomic!TakeRoom, Atomic!RefuseRoom, Atomic!FreeRoom, Atomic!MissRoom, Atomic!Arriving,
         Atomic!Decide, Atomic!Conclude, Atomic!Answer, Atomic!Break, Atomic!Open, Atomic!AllAnswered,
         Promise!AtomicNext, Promise!atomicVars, Promise!Operations, Promise!Send, Promise!Apply,
         Promise!TakeRoom, Promise!RefuseRoom, Promise!FreeRoom, Promise!MissRoom, Promise!Arriving,
         Promise!Decide, Promise!Conclude, Promise!Answer, Promise!Break, Promise!Open, Promise!AllAnswered
<1> QED
  BY <1>1, <1>2, <1>3, <1>4, HotelImplementsAtomicRooms, PTL
     DEF ImplementsAtomicRooms, Atomic!AtomicSpec, Promise!AtomicSpec

=============================================================================
