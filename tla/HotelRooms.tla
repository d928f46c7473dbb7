----------------------------- MODULE HotelRooms -----------------------------
(***************************************************************************)
(* hotel-service: the FastAPI handlers over the tables hotels and rooms,   *)
(* at the level of database statements.  Each HTTP request has a session   *)
(* of its own; a session takes a connection from the engine's pool for the *)
(* first statement of a transaction and gives it back at commit.           *)
(* POST /rooms/{id}/reserve and /release read the row with SELECT ... FOR  *)
(* UPDATE, so PostgreSQL makes them wait for the row lock and hands them   *)
(* the row as last committed; the lock lasts until the transaction ends.   *)
(***************************************************************************)
EXTENDS Naturals, FiniteSets

CONSTANTS
  Hotels,     \* ids the sequence of table hotels can still give out
  Rooms,      \* ids the sequence of table rooms can still give out
  Requests,   \* HTTP requests, each made at most once
  Endpoints,  \* the endpoints that requests may call
  PoolSize,   \* connections of the engine's pool (pool_size + max_overflow)
  None        \* "no row", "no request"

RoomRows == [hotel: Hotels, is_available: BOOLEAN]

AllEndpoints == {"create_hotel", "create_room", "get_room", "list_rooms",
                 "reserve", "release"}

ASSUME NoneIsNothing == None \notin Hotels \cup Rooms \cup Requests \cup RoomRows
ASSUME EndpointsExist == Endpoints \subseteq AllEndpoints
ASSUME PoolNotEmpty == PoolSize \in Nat \ {0}

(***************************************************************************)
(* Definitions whose comment starts with "Variant" are faulty versions of  *)
(* the definition that follows them.  No action uses them: they show that  *)
(* the properties below can fail.                                          *)
(***************************************************************************)
VARIABLES
  hotels,     \* committed rows of table hotels
  rooms,      \* committed rows of table rooms, None where there is none
  rowLock,    \* rowLock[r]: the request whose transaction has locked row r
  conns,      \* requests whose session holds a connection
  req,        \* the requests' progress
  holder,     \* history: holder[r] reserved r, and no release came since
  revoked     \* history: requests whose reservation a release has ended

vars == <<hotels, rooms, rowLock, conns, req, holder, revoked>>

-----------------------------------------------------------------------------

(***************************************************************************)
(* at = "idle"    not made                                                 *)
(*      "query"   before the first statement, no connection yet            *)
(*      "row"     waiting in SELECT ... FOR UPDATE                         *)
(*      "locked"  has the row, read as seen                                *)
(*      "insert"  create_room, after the hotel was found                   *)
(*      "refresh" committed; db.refresh has no connection yet              *)
(*      "reply"   status decided, session not closed yet                   *)
(*      "done"    answered and closed, or failed (status 500)              *)
(***************************************************************************)
Stages == {"idle", "query", "row", "locked", "insert", "refresh", "reply", "done"}

InFlight == Stages \ {"idle", "done"}

(* Stages between two statements of one transaction, or inside one. *)
InTransaction == {"row", "locked", "insert"}

(* HTTP status codes; 0 as long as there is none. *)
Statuses == {0, 200, 201, 404, 409, 500}

RequestStates ==
  [ at     : Stages,
    op     : AllEndpoints \cup {"none"},
    hotel  : Hotels \cup {None},
    room   : Rooms \cup {None},
    seen   : BOOLEAN,
    status : Statuses,
    body   : {"none", "free", "taken"} ]

Fresh(stage, op, h, r) ==
  [at |-> stage, op |-> op, hotel |-> h, room |-> r,
   seen |-> FALSE, status |-> 0, body |-> "none"]

NotMade == Fresh("idle", "none", None, None)

(* The state of room r in the terms of AtomicRooms. *)
RoomState(r) ==
  IF rooms[r] = None THEN "absent"
  ELSE IF rooms[r].is_available THEN "free" ELSE "taken"

TypeOK ==
  /\ hotels \subseteq Hotels
  /\ rooms \in [Rooms -> RoomRows \cup {None}]
  /\ rowLock \in [Rooms -> Requests \cup {None}]
  /\ conns \subseteq Requests
  /\ req \in [Requests -> RequestStates]
  /\ holder \in [Rooms -> Requests \cup {None}]
  /\ revoked \subseteq Requests

(***************************************************************************)
(* Some rows exist already; rooms belong to existing hotels (foreign key). *)
(***************************************************************************)
Init ==
  /\ hotels \in SUBSET Hotels
  /\ rooms \in [Rooms -> [hotel: hotels, is_available: BOOLEAN] \cup {None}]
  /\ rowLock = [r \in Rooms |-> None]
  /\ conns = {}
  /\ req = [q \in Requests |-> NotMade]
  /\ holder = [r \in Rooms |-> None]
  /\ revoked = {}

-----------------------------------------------------------------------------

At(q, stage, op) == req[q].at = stage /\ req[q].op = op

HasSpareConnection == Cardinality(conns) < PoolSize

(* The transaction of q ends: its row locks are dropped. *)
Unlock(q) == rowLock' = [r \in Rooms |-> IF rowLock[r] = q THEN None ELSE rowLock[r]]

(* Variant: the session returns its connection with the locks still held. *)
EndWithoutUnlock(q) == conns' = conns \ {q} /\ UNCHANGED rowLock

(* Variant: commit keeps the connection while db.refresh asks for another. *)
EndKeepingConnection(q) == Unlock(q) /\ UNCHANGED conns

(* Commit or rollback: locks go, and the connection goes back to the pool. *)
EndTransaction(q) == Unlock(q) /\ conns' = conns \ {q}

(* What may happen to a request's own state. *)
GoTo(q, stage) == req' = [req EXCEPT ![q].at = stage]
HoldRow(q, seen) == req' = [req EXCEPT ![q] = [@ EXCEPT !.at = "locked", !.seen = seen]]
ReplyWith(q, status, body) ==
  req' = [req EXCEPT ![q] = [@ EXCEPT !.at = "reply", !.status = status, !.body = body]]
EndWith(q, status) ==
  req' = [req EXCEPT ![q] = [@ EXCEPT !.at = "done", !.status = status]]

(* Ids that a create in progress has already drawn from its sequence. *)
Drawn(op) == {q \in Requests : req[q].op = op /\ req[q].at # "done"}

(* The ids an endpoint is given, or that a create will give to its row. *)
HotelIds(op) == IF op \in {"reserve", "release"} THEN {None} ELSE Hotels
RoomIds(op) == IF op \in {"create_hotel", "list_rooms"} THEN {None} ELSE Rooms

(***************************************************************************)
(* A request arrives.  A create draws a new id; the others may name any    *)
(* id, of an existing row or not.                                          *)
(***************************************************************************)
Arrive(q, op, h, r) ==
  /\ req[q].at = "idle"
  /\ op = "create_hotel" =>
       h \notin hotels \cup {req[p].hotel : p \in Drawn("create_hotel")}
  /\ op = "create_room" =>
       /\ rooms[r] = None
       /\ r \notin {req[p].room : p \in Drawn("create_room")}
  /\ req' = [req EXCEPT ![q] = Fresh("query", op, h, r)]
  /\ UNCHANGED <<hotels, rooms, rowLock, conns, holder, revoked>>

(* reserve_room, release_room: SELECT ... FOR UPDATE is sent. *)
SelectForUpdate(q) ==
  /\ req[q].at = "query"
  /\ req[q].op \in {"reserve", "release"}
  /\ HasSpareConnection
  /\ conns' = conns \cup {q}
  /\ GoTo(q, "row")
  /\ UNCHANGED <<hotels, rooms, rowLock, holder, revoked>>

(* Variant: SKIP LOCKED, a row that somebody has locked is not found. *)
RowMissingOrLocked(q) ==
  /\ req[q].at = "row"
  /\ rooms[req[q].room] = None \/ rowLock[req[q].room] # None
  /\ ReplyWith(q, 404, "none")
  /\ UNCHANGED <<hotels, rooms, rowLock, conns, holder, revoked>>

(* There is no such row: nothing is locked, and the handler raises 404. *)
RowMissing(q) ==
  /\ req[q].at = "row"
  /\ rooms[req[q].room] = None
  /\ ReplyWith(q, 404, "none")
  /\ UNCHANGED <<hotels, rooms, rowLock, conns, holder, revoked>>

(* Variant: a plain SELECT, which neither waits for the lock nor takes it. *)
ReadWithoutLock(q) ==
  /\ req[q].at = "row"
  /\ rooms[req[q].room] # None
  /\ HoldRow(q, rooms[req[q].room].is_available)
  /\ UNCHANGED <<hotels, rooms, rowLock, conns, holder, revoked>>

(* The row lock is granted; the row is the one last committed. *)
LockRow(q) ==
  LET r == req[q].room IN
    /\ req[q].at = "row"
    /\ rooms[r] # None
    /\ rowLock[r] = None
    /\ rowLock' = [rowLock EXCEPT ![r] = q]
    /\ HoldRow(q, rooms[r].is_available)
    /\ UNCHANGED <<hotels, rooms, conns, holder, revoked>>

(* "Room already reserved": 409; the lock lasts until the session closes. *)
RefuseReserve(q) ==
  /\ At(q, "locked", "reserve")
  /\ ~req[q].seen
  /\ ReplyWith(q, 409, "none")
  /\ UNCHANGED <<hotels, rooms, rowLock, conns, holder, revoked>>

(* Variant: the handler does not look at is_available. *)
CommitReserveUnchecked(q) ==
  LET r == req[q].room IN
    /\ At(q, "locked", "reserve")
    /\ rooms' = [rooms EXCEPT ![r].is_available = FALSE]
    /\ holder' = [holder EXCEPT ![r] = q]
    /\ EndTransaction(q)
    /\ GoTo(q, "refresh")
    /\ UNCHANGED <<hotels, revoked>>

CommitReserve(q) ==
  LET r == req[q].room IN
    /\ At(q, "locked", "reserve")
    /\ req[q].seen
    /\ rooms' = [rooms EXCEPT ![r].is_available = FALSE]
    /\ holder' = [holder EXCEPT ![r] = q]
    /\ EndTransaction(q)
    /\ GoTo(q, "refresh")
    /\ UNCHANGED <<hotels, revoked>>

(* Availability is set whatever was seen, whoever reserved the room. *)
CommitRelease(q) ==
  LET r == req[q].room IN
    /\ At(q, "locked", "release")
    /\ rooms' = [rooms EXCEPT ![r].is_available = TRUE]
    /\ holder' = [holder EXCEPT ![r] = None]
    /\ revoked' = revoked \cup ({holder[r]} \ {None})
    /\ EndTransaction(q)
    /\ GoTo(q, "refresh")
    /\ UNCHANGED hotels

(* Variant: no db.refresh, the body shows the row as it was read. *)
RefreshRoomStale(q) ==
  /\ req[q].at = "refresh"
  /\ req[q].op \in {"reserve", "release"}
  /\ HasSpareConnection
  /\ conns' = conns \cup {q}
  /\ ReplyWith(q, 200, IF req[q].seen THEN "free" ELSE "taken")
  /\ UNCHANGED <<hotels, rooms, rowLock, holder, revoked>>

(***************************************************************************)
(* db.refresh after the commit of a reserve or release: a new transaction, *)
(* without the lock, whose row becomes the response body.                  *)
(***************************************************************************)
RefreshRoom(q) ==
  /\ req[q].at = "refresh"
  /\ req[q].op \in {"reserve", "release"}
  /\ HasSpareConnection
  /\ conns' = conns \cup {q}
  /\ ReplyWith(q, 200, RoomState(req[q].room))
  /\ UNCHANGED <<hotels, rooms, rowLock, holder, revoked>>

-----------------------------------------------------------------------------

(* create_hotel: insert and commit, on a connection given back at once. *)
InsertHotel(q) ==
  /\ At(q, "query", "create_hotel")
  /\ HasSpareConnection
  /\ hotels' = hotels \cup {req[q].hotel}
  /\ GoTo(q, "refresh")
  /\ UNCHANGED <<rooms, rowLock, conns, holder, revoked>>

(* create_room: the hotel is looked up first. *)
FindHotel(q) ==
  /\ At(q, "query", "create_room")
  /\ HasSpareConnection
  /\ conns' = conns \cup {q}
  /\ IF req[q].hotel \in hotels
       THEN GoTo(q, "insert")
       ELSE ReplyWith(q, 404, "none")
  /\ UNCHANGED <<hotels, rooms, rowLock, holder, revoked>>

(* ... and then, in the same transaction, the row is inserted. *)
InsertRoom(q) ==
  /\ At(q, "insert", "create_room")
  /\ \E available \in BOOLEAN :
       rooms' = [rooms EXCEPT ![req[q].room] =
                   [hotel |-> req[q].hotel, is_available |-> available]]
  /\ EndTransaction(q)
  /\ GoTo(q, "refresh")
  /\ UNCHANGED <<hotels, holder, revoked>>

(* db.refresh after the commit of a create. *)
RefreshCreated(q) ==
  /\ req[q].at = "refresh"
  /\ req[q].op \in {"create_hotel", "create_room"}
  /\ HasSpareConnection
  /\ conns' = conns \cup {q}
  /\ ReplyWith(q, 201, "none")
  /\ UNCHANGED <<hotels, rooms, rowLock, holder, revoked>>

(* get_room, list_rooms: the row they look up exists, or 404. *)
Found(q) ==
  CASE req[q].op = "list_rooms" -> req[q].hotel \in hotels
    [] req[q].op = "get_room"   -> /\ rooms[req[q].room] # None
                                   /\ rooms[req[q].room].hotel = req[q].hotel

ReadRows(q) ==
  /\ req[q].at = "query"
  /\ req[q].op \in {"get_room", "list_rooms"}
  /\ HasSpareConnection
  /\ conns' = conns \cup {q}
  /\ ReplyWith(q, IF Found(q) THEN 200 ELSE 404, "none")
  /\ UNCHANGED <<hotels, rooms, rowLock, holder, revoked>>

-----------------------------------------------------------------------------

(* Variant: get_db forgets to close the session. *)
CloseLeaking(q) ==
  /\ req[q].at = "reply"
  /\ GoTo(q, "done")
  /\ UNCHANGED <<hotels, rooms, rowLock, conns, holder, revoked>>

(* The answer is out and get_db closes the session. *)
Close(q) ==
  /\ req[q].at = "reply"
  /\ EndTransaction(q)
  /\ GoTo(q, "done")
  /\ UNCHANGED <<hotels, rooms, holder, revoked>>

(***************************************************************************)
(* A statement fails, the pool times out, the process stops, or the answer *)
(* is lost: an open transaction is rolled back, a committed one stays.     *)
(***************************************************************************)
Fail(q) ==
  /\ req[q].at \in InFlight
  /\ EndTransaction(q)
  /\ EndWith(q, 500)
  /\ UNCHANGED <<hotels, rooms, holder, revoked>>

(* No request is left to serve. *)
Quiet ==
  /\ \A q \in Requests : req[q].at = "done"
  /\ UNCHANGED vars

Step(q) ==
  \/ SelectForUpdate(q) \/ RowMissing(q) \/ LockRow(q)
  \/ RefuseReserve(q) \/ CommitReserve(q) \/ CommitRelease(q) \/ RefreshRoom(q)
  \/ InsertHotel(q) \/ FindHotel(q) \/ InsertRoom(q) \/ RefreshCreated(q)
  \/ ReadRows(q)
  \/ Close(q)

Next ==
  \/ \E q \in Requests :
       \/ \E op \in Endpoints : \E h \in HotelIds(op), r \in RoomIds(op) :
            Arrive(q, op, h, r)
       \/ Step(q)
       \/ Fail(q)
  \/ Quiet

(***************************************************************************)
(* The event loop, the pool's queue and PostgreSQL's lock queue let every  *)
(* request that can move do so.  Nothing makes requests arrive or fail.    *)
(***************************************************************************)
Fairness == \A q \in Requests : WF_vars(Step(q))

Spec == Init /\ [][Next]_vars

FairSpec == Spec /\ Fairness

-----------------------------------------------------------------------------

(* The abstract module, with the handlers' progress as the abstract calls. *)
AbstractStage(at) ==
  CASE at = "idle" -> "idle"
    [] at \in {"query", "row", "locked", "insert"} -> "sent"
    [] at \in {"refresh", "reply"} -> "applied"
    [] at = "done" -> "over"

(* A reserve is in effect once committed, whatever the refresh does. *)
AbstractCall(q) ==
  IF req[q].op \in {"reserve", "release"}
  THEN [ st   |-> AbstractStage(req[q].at),
         op   |-> req[q].op,
         room |-> req[q].room,
         ans  |-> IF req[q].at = "refresh" THEN 200 ELSE req[q].status ]
  ELSE [st |-> "idle", op |-> "none", room |-> None, ans |-> 0]

AbstractRooms == [r \in Rooms |-> RoomState(r)]
AbstractCalls == [q \in Requests |-> AbstractCall(q)]

Atomic == INSTANCE AtomicRooms WITH
  Callers <- Requests,
  room    <- AbstractRooms,
  call    <- AbstractCalls

-----------------------------------------------------------------------------

(***************************************************************************)
(* SELECT ... FOR UPDATE serialises the handlers: only the transaction     *)
(* that owns the row lock of a room stands between its read and its        *)
(* commit, on a connection of its own (rooms.py:42-54, 60-69).             *)
(***************************************************************************)
OneWriterPerRoom ==
  \A q \in Requests :
    /\ req[q].at = "locked" => rowLock[req[q].room] = q
    /\ req[q].at \in InTransaction => q \in conns

(***************************************************************************)
(* The availability a handler decides on is never stale: between the read  *)
(* of rooms.py:46 and the commit of rooms.py:54 nobody else changes it.    *)
(***************************************************************************)
LockedReadIsCurrent ==
  \A q \in Requests :
    req[q].at = "locked" =>
      /\ rooms[req[q].room] # None
      /\ req[q].seen = rooms[req[q].room].is_available

(***************************************************************************)
(* Two reservations of one room never stand at the same time: a            *)
(* reservation that committed either is the room's last word or was ended  *)
(* by a release, and a reserved room is not available (rooms.py:50-54).    *)
(***************************************************************************)
ReservationsExclusive ==
  /\ \A r \in Rooms : holder[r] # None => RoomState(r) = "taken"
  /\ \A q \in Requests :
       req[q].op = "reserve" /\ (req[q].at = "refresh" \/ req[q].status = 200)
         => holder[req[q].room] = q \/ q \in revoked

(***************************************************************************)
(* The body of a successful reserve is read after the lock is gone         *)
(* (rooms.py:55).  It may show an available room, but then the reservation *)
(* has been ended by a release in between: no caller that still holds the  *)
(* room is told that it is available.                                      *)
(***************************************************************************)
ReserveBodyTruthful ==
  \A q \in Requests :
    /\ req[q].op = "reserve"
    /\ req[q].body = "free"
    => q \in revoked

(***************************************************************************)
(* The pool's connections are never all held by waiting requests: some     *)
(* request that holds one can take a step, so pool and row locks cannot    *)
(* deadlock (rooms.py:42-55, database.py:10-18).                           *)
(***************************************************************************)
PoolNeverStuck ==
  Cardinality(conns) = PoolSize =>
    \E q \in conns :
      \/ req[q].at \in {"locked", "insert", "reply"}
      \/ /\ req[q].at = "row"
         /\ \/ rooms[req[q].room] = None
            \/ rowLock[req[q].room] = None

(* The row-lock level handlers implement the atomic calls of AtomicRooms. *)
ImplementsAtomicRooms == Atomic!AtomicSpec

(* Every request that arrives is answered, whatever the others do. *)
EveryRequestEnds ==
  \A q \in Requests : req[q].at = "query" ~> req[q].at = "done"

-----------------------------------------------------------------------------

(***************************************************************************)
(* The inductive invariant behind the theorems of HotelRooms_proofs.       *)
(***************************************************************************)

(* A request's fields agree with its stage and endpoint. *)
WellFormed ==
  \A q \in Requests :
    /\ req[q].at = "idle" <=> req[q].op = "none"
    /\ req[q].at \in {"row", "locked"} => req[q].op \in {"reserve", "release"}
    /\ req[q].at = "insert" => req[q].op = "create_room"
    /\ req[q].op \notin {"none", "create_hotel", "list_rooms"} => req[q].room \in Rooms
    /\ req[q].at = "refresh" => req[q].op \in {"reserve", "release", "create_hotel", "create_room"}
    /\ req[q].at = "refresh" /\ req[q].op # "create_hotel" => rooms[req[q].room] # None
    /\ req[q].op \notin {"none", "reserve", "release"} => req[q].hotel \in Hotels

(* Only a session between its SELECT and its end has locks or a connection. *)
LocksBacked ==
  /\ \A r \in Rooms : rowLock[r] # None =>
       /\ rowLock[r] \in conns
       /\ req[rowLock[r]].at \in {"locked", "reply"}
  /\ \A q \in conns : req[q].at \in {"row", "locked", "insert", "reply"}

(* The id a create_room has drawn is nobody else's and has no row yet. *)
Creating(q) == req[q].op = "create_room" /\ req[q].at \in {"query", "insert"}

DrawnIdsFresh ==
  \A q \in Requests : Creating(q) =>
    /\ rooms[req[q].room] = None
    /\ \A p \in Requests : Creating(p) /\ req[p].room = req[q].room => p = q

(***************************************************************************)
(* All of it: request bookkeeping, locks and connections, fresh ids, and   *)
(* the properties above that the handlers of rooms.py:28-71 maintain.      *)
(***************************************************************************)
InductiveInv ==
  /\ TypeOK
  /\ WellFormed
  /\ LocksBacked
  /\ DrawnIdsFresh
  /\ OneWriterPerRoom
  /\ LockedReadIsCurrent
  /\ ReservationsExclusive
  /\ ReserveBodyTruthful

=============================================================================
