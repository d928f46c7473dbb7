---------------------------- MODULE SignUp_proofs ----------------------------
(***************************************************************************)
(* Proofs about SignUp, for any number of requests and addresses and any   *)
(* combination of faults.                                                  *)
(***************************************************************************)
EXTENDS SignUp, TLAPS

-----------------------------------------------------------------------------
(* The type invariant in parts, and what the updates of a request do. *)

Statuses == {0, 201, 409, 502}

ReqTyped == req \in [Requests -> RequestStates]

UsersTyped == users \in [Requests -> Spellings \cup {None}]

ServiceTyped ==
  /\ up \in BOOLEAN /\ link \in BOOLEAN /\ exchangeReady \in BOOLEAN
  /\ channel \in Requests \cup {None}
  /\ open \subseteq Requests

EventsTyped ==
  /\ exchange \in BOOLEAN /\ bound \in BOOLEAN
  /\ wire \subseteq Requests /\ queue \subseteq Requests
  /\ unacked \subseteq Requests /\ acked \subseteq Requests
  /\ dropped \subseteq Requests /\ handled \subseteq Requests
  /\ consumer \in ConsumerStages

LEMMA TypeParts ==
  TypeOK <=> /\ faults \in FaultSets
             /\ UsersTyped /\ ReqTyped /\ ServiceTyped /\ EventsTyped
  BY DEF TypeOK, UsersTyped, ReqTyped, ServiceTyped, EventsTyped

LEMMA RequestStatesAre ==
  /\ RequestStates = [at : Stages, email : Spellings \cup {None},
                      chan : Requests \cup {None}, status : Statuses]
  /\ 0 \in Statuses /\ 201 \in Statuses /\ 409 \in Statuses /\ 502 \in Statuses
  BY DEF RequestStates, Statuses

LEMMA RefusalsAre ==
  /\ HttpStatus("UserAlreadyExistsError") = 409
  /\ HttpStatus("Error") = 502
  /\ HttpOfGrpc("UNAVAILABLE") = 502
<1>1. GrpcStatusCode("UserAlreadyExistsError") = "ALREADY_EXISTS"
  BY DEF GrpcStatusCode
<1>2. GrpcStatusCode("Error") = "INTERNAL"
  BY DEF GrpcStatusCode
<1>3. HttpOfGrpc("ALREADY_EXISTS") = 409
  BY DEF HttpOfGrpc
<1>4. HttpOfGrpc("INTERNAL") = 502 /\ HttpOfGrpc("UNAVAILABLE") = 502
  BY DEF HttpOfGrpc
<1> QED
  BY <1>1, <1>2, <1>3, <1>4 DEF HttpStatus

(* The request q is now at this stage, with this address, channel and status. *)
Becomes(q, at, email, chan, status) ==
  /\ ReqTyped'
  /\ \A p \in Requests : p # q => req'[p] = req[p]
  /\ req'[q].at = at
  /\ req'[q].email = email
  /\ req'[q].chan = chan
  /\ req'[q].status = status

LEMMA RequestUpdate ==
  ASSUME ReqTyped, NEW q \in Requests, NEW f \in RequestStates,
         req' = [req EXCEPT ![q] = f]
  PROVE  Becomes(q, f.at, f.email, f.chan, f.status)
  BY DEF ReqTyped, Becomes

(* A request with one field changed. *)
LEMMA OneField ==
  ASSUME NEW f \in RequestStates
  PROVE  /\ \A stage \in Stages : [f EXCEPT !.at = stage] \in RequestStates
         /\ \A s \in Spellings : [f EXCEPT !.email = s] \in RequestStates
         /\ \A c \in Requests : [f EXCEPT !.chan = c] \in RequestStates
         /\ \A status \in Statuses : [f EXCEPT !.status = status] \in RequestStates
<1>1. ASSUME NEW stage \in Stages PROVE [f EXCEPT !.at = stage] \in RequestStates
  BY RequestStatesAre
<1>2. ASSUME NEW s \in Spellings PROVE [f EXCEPT !.email = s] \in RequestStates
  BY RequestStatesAre
<1>3. ASSUME NEW c \in Requests PROVE [f EXCEPT !.chan = c] \in RequestStates
  BY RequestStatesAre
<1>4. ASSUME NEW status \in Statuses PROVE [f EXCEPT !.status = status] \in RequestStates
  BY RequestStatesAre
<1> QED
  BY <1>1, <1>2, <1>3, <1>4

LEMMA RequestUpdates ==
  ASSUME ReqTyped, NEW q \in Requests
  PROVE  /\ \A stage \in Stages : GoTo(q, stage) =>
              Becomes(q, stage, req[q].email, req[q].chan, req[q].status)
         /\ \A c \in Requests : UseChannel(q, c) =>
              Becomes(q, "publish", req[q].email, c, req[q].status)
         /\ \A status \in Statuses :
              req' = [req EXCEPT ![q] = [req[q] EXCEPT !.at = "done", !.status = status]] =>
                Becomes(q, "done", req[q].email, req[q].chan, status)
<1>1. "publish" \in Stages /\ "done" \in Stages
  BY DEF Stages
<1>2. ASSUME NEW stage \in Stages, GoTo(q, stage)
      PROVE  Becomes(q, stage, req[q].email, req[q].chan, req[q].status)
  <2> DEFINE f == [req[q] EXCEPT !.at = stage]
  <2>1. req' = [req EXCEPT ![q] = f]
    BY <1>2 DEF GoTo
  <2>2. f \in RequestStates
    BY RequestStatesAre DEF ReqTyped
  <2>3. /\ f.at = stage /\ f.email = req[q].email /\ f.chan = req[q].chan
        /\ f.status = req[q].status
    BY RequestStatesAre DEF ReqTyped
  <2> QED
    BY <2>1, <2>2, <2>3, RequestUpdate
<1>3. ASSUME NEW c \in Requests, UseChannel(q, c)
      PROVE  Becomes(q, "publish", req[q].email, c, req[q].status)
  <2> DEFINE f == [req[q] EXCEPT !.at = "publish", !.chan = c]
  <2>1. req' = [req EXCEPT ![q] = f]
    BY <1>3 DEF UseChannel
  <2>2. f \in RequestStates
    <3> DEFINE g == [req[q] EXCEPT !.at = "publish"]
    <3>1. g \in RequestStates
      BY <1>1, OneField DEF ReqTyped
    <3> HIDE DEF g
    <3>2. [g EXCEPT !.chan = c] \in RequestStates
      BY <3>1, OneField
    <3> QED
      BY <3>2 DEF g
  <2>3. /\ f.at = "publish" /\ f.email = req[q].email /\ f.chan = c /\ f.status = req[q].status
    BY RequestStatesAre DEF ReqTyped
  <2> QED
    BY <2>1, <2>2, <2>3, RequestUpdate
<1>4. ASSUME NEW status \in Statuses,
             req' = [req EXCEPT ![q] = [req[q] EXCEPT !.at = "done", !.status = status]]
      PROVE  Becomes(q, "done", req[q].email, req[q].chan, status)
  <2> DEFINE f == [req[q] EXCEPT !.at = "done", !.status = status]
  <2>1. f \in RequestStates
    <3> DEFINE g == [req[q] EXCEPT !.at = "done"]
    <3>1. g \in RequestStates
      BY <1>1, OneField DEF ReqTyped
    <3> HIDE DEF g
    <3>2. [g EXCEPT !.status = status] \in RequestStates
      BY <3>1, OneField
    <3> QED
      BY <3>2 DEF g
  <2>2. /\ f.at = "done" /\ f.email = req[q].email /\ f.chan = req[q].chan /\ f.status = status
    BY RequestStatesAre DEF ReqTyped
  <2> QED
    BY <1>4, <2>1, <2>2, RequestUpdate
<1> QED
  BY <1>2, <1>3, <1>4

Arrives(q, s, stage, status) ==
  req' = [req EXCEPT ![q] = [req[q] EXCEPT !.email = s, !.at = stage, !.status = status]]

LEMMA ArrivalUpdate ==
  ASSUME ReqTyped, NEW q \in Requests, NEW stage \in Stages, NEW s \in Spellings,
         NEW status \in Statuses, Arrives(q, s, stage, status)
  PROVE  Becomes(q, stage, s, req[q].chan, status)
<1> DEFINE g == [req[q] EXCEPT !.email = s]
           k == [g EXCEPT !.at = stage]
           f == [k EXCEPT !.status = status]
<1>1. g \in RequestStates /\ g.email = s /\ g.chan = req[q].chan
  BY OneField, RequestStatesAre DEF ReqTyped
<1> HIDE DEF g
<1>2. k \in RequestStates /\ k.email = g.email /\ k.chan = g.chan /\ k.at = stage
  BY <1>1, OneField, RequestStatesAre
<1> HIDE DEF k
<1>3. f \in RequestStates
  BY <1>2, OneField
<1>4. f.email = k.email /\ f.chan = k.chan /\ f.at = k.at /\ f.status = status
  BY <1>2, RequestStatesAre
<1>5. req' = [req EXCEPT ![q] = f]
  BY DEF Arrives, f, k, g
<1> HIDE DEF f
<1> QED
  BY <1>1, <1>2, <1>3, <1>4, <1>5, RequestUpdate

LEMMA Refusals ==
  ASSUME ReqTyped, NEW q \in Requests
  PROVE  /\ Refuse(q, "UserAlreadyExistsError") =>
              Becomes(q, "done", req[q].email, req[q].chan, 409)
         /\ Refuse(q, "Error") => Becomes(q, "done", req[q].email, req[q].chan, 502)
<1>1. \A status \in Statuses :
        req' = [req EXCEPT ![q] = [req[q] EXCEPT !.at = "done", !.status = status]] =>
          Becomes(q, "done", req[q].email, req[q].chan, status)
  BY RequestUpdates
<1>2. ASSUME NEW error, HttpStatus(error) \in Statuses, Refuse(q, error)
      PROVE  Becomes(q, "done", req[q].email, req[q].chan, HttpStatus(error))
  BY <1>1, <1>2 DEF Refuse
<1> QED
  BY <1>2, RefusalsAre, RequestStatesAre

-----------------------------------------------------------------------------
(* Steps of a request. *)

Sent == Announced \cup dropped

(* The request q moves, alone or with its user, its channel or its event. *)
Moves(q, at, email, chan, status) ==
  /\ Becomes(q, at, email, chan, status)
  /\ UNCHANGED <<faults, up, link, bound, dropped, queueVars, consumer>>
  /\ UsersTyped' /\ ServiceTyped' /\ EventsTyped'
  /\ \A p \in Requests : p # q => users'[p] = users[p]
  /\ open \subseteq open'
  /\ wire \subseteq wire' /\ wire' \subseteq wire \cup {q}

(* What the invariant asks of the stage, the address and the status it gets. *)
InStep(q, at, email, chan, status) ==
  /\ at # "idle" /\ email \in Spellings
  /\ users'[q] # None => users'[q] = Normal[email]
  /\ at # "done" => status = 0
  /\ at \in {"idle", "lookup", "save"} => users'[q] = None
  /\ at \in InFlight \ {"lookup", "save"} \/ status = 201 => users'[q] # None
  /\ at \in {"issue", "reply"} \/ status = 201 => q \in Sent'
  /\ q \in wire' => users'[q] # None
  /\ exchangeReady' \/ wire' # {} => exchange'
  /\ faults = {} =>
       /\ channel' # None => channel' \in open'
       /\ at \in {"publish", "exchange"} => chan \in open'
       /\ status \in {409, 502} => users'[q] = None /\ Taken(Normal[email])

LEMMA MoveKeeps ==
  ASSUME InductiveInv, NEW q \in Requests, NEW at, NEW email, NEW chan, NEW status,
         Moves(q, at, email, chan, status), InStep(q, at, email, chan, status),
         \/ users'[q] = users[q]
         \/ users[q] = None /\ users'[q] \in Spellings /\ ~Taken(users'[q])
  PROVE  InductiveInv'
<1>1. /\ \A p \in Requests : p # q => req'[p] = req[p] /\ users'[p] = users[p]
      /\ req'[q].at = at /\ req'[q].email = email /\ req'[q].chan = chan /\ req'[q].status = status
      /\ faults' = faults /\ up' = up /\ link' = link
  BY DEF Moves, Becomes
<1>2. TypeOK'
  BY TypeParts DEF Moves, Becomes, InductiveInv, TypeOK, UsersTyped, ReqTyped, ServiceTyped, EventsTyped
<1>3. UsersFollowRequests'
  <2>1. \A p \in Requests :
          users'[p] # None => req'[p].email \in Spellings /\ users'[p] = Normal[req'[p].email]
    BY <1>1 DEF InStep, InductiveInv, UsersFollowRequests
  <2>2. ASSUME NEW p \in Requests, NEW r \in Requests, users'[p] # None, users'[p] = users'[r]
        PROVE  p = r
    <3>1. CASE users'[q] = users[q]
      BY <1>1, <2>2, <3>1 DEF InductiveInv, UsersFollowRequests
    <3>2. CASE users[q] = None /\ ~Taken(users'[q])
      BY <1>1, <2>2, <3>2 DEF InductiveInv, UsersFollowRequests, Taken
    <3> QED
      BY <3>1, <3>2
  <2> QED
    BY <2>1, <2>2 DEF UsersFollowRequests
<1>4. Sent \subseteq Sent' /\ Sent' \subseteq Sent \cup {q}
  BY DEF Sent, Announced, Moves, queueVars
<1>5. RequestsInStep'
  BY <1>1, <1>4 DEF InStep, InductiveInv, RequestsInStep, Sent
<1>6. EventsFollowUsers'
  <2>1. \A e \in Sent' : users'[e] # None
    <3>1. \A e \in Sent : users'[e] # None
      <4>1. \A e \in Sent : users[e] # None /\ e \in Requests
        BY DEF InductiveInv, EventsFollowUsers, Sent, Announced, TypeOK
      <4>2. users[q] # None => users'[q] # None
        OBVIOUS
      <4> QED
        BY <1>1, <4>1, <4>2
    <3>2. Sent' \subseteq Sent \cup wire'
      BY DEF Sent, Announced, Moves, queueVars
    <3> QED
      BY <1>4, <3>1, <3>2 DEF InStep, Sent, Announced
  <2>2. acked' \subseteq handled'
    BY DEF InductiveInv, EventsFollowUsers, Moves, queueVars
  <2> QED
    BY <2>1, <2>2 DEF EventsFollowUsers, Sent
<1>7. ExchangeComesFirst'
  BY DEF InStep, ExchangeComesFirst
<1>8. FaultlessRefusesDuplicates'
  <2> SUFFICES ASSUME faults = {}
               PROVE  /\ up' /\ link'
                      /\ channel' # None => channel' \in open'
                      /\ \A p \in Requests :
                           /\ req'[p].at \in {"publish", "exchange"} => req'[p].chan \in open'
                           /\ req'[p].status \in {409, 502} =>
                                /\ users'[p] = None
                                /\ \E r \in Requests : users'[r] = Normal[req'[p].email]
    BY <1>1 DEF FaultlessRefusesDuplicates, Taken
  <2>1. \A email2 : Taken(email2) /\ email2 \in Spellings =>
          \E p \in Requests : users'[p] = email2
    <3> SUFFICES ASSUME NEW p \in Requests, users[p] \in Spellings
                 PROVE  users'[p] = users[p]
      BY DEF Taken
    <3> QED
      BY <1>1, NoneIsNoRequest
  <2>2. ASSUME NEW p \in Requests, req'[p].status \in {409, 502}
        PROVE  users'[p] = None /\ Taken(Normal[req'[p].email])
    BY <1>1, <2>2 DEF InductiveInv, FaultlessRefusesDuplicates, InStep
  <2>3. \A p \in Requests : req'[p].status \in {409, 502} => Normal[req'[p].email] \in Spellings
    <3>1. \A p \in Requests : req'[p].status # 0 => req'[p].email \in Spellings
      BY <1>5 DEF RequestsInStep
    <3> QED
      BY <3>1, NormalIsIdempotent
  <2>4. \A p \in Requests : req'[p].status \in {409, 502} =>
          \E r \in Requests : users'[r] = Normal[req'[p].email]
    BY <2>1, <2>2, <2>3
  <2>5. \A p \in Requests : req'[p].at \in {"publish", "exchange"} => req'[p].chan \in open'
    BY <1>1 DEF InductiveInv, FaultlessRefusesDuplicates, InStep, Moves
  <2> QED
    BY <1>1, <2>2, <2>4, <2>5 DEF InductiveInv, FaultlessRefusesDuplicates, InStep
<1> QED
  BY <1>2, <1>3, <1>5, <1>6, <1>7, <1>8 DEF InductiveInv

Storing == {"channel", "opening", "publish", "exchange", "issue", "reply"}

LEMMA StoringIs == Storing = InFlight \ {"lookup", "save"}
  BY DEF Storing, InFlight, Stages

(* The request q may get this stage, address, channel and status while nothing else moves. *)
MayMove(q, at, email, chan, status) ==
  /\ email \in Spellings
  /\ users[q] # None => email = req[q].email
  /\ at # "idle"
  /\ at # "done" => status = 0
  /\ at \in {"lookup", "save"} => users[q] = None
  /\ at \in Storing \/ status = 201 => users[q] # None
  /\ at \in {"issue", "reply"} \/ status = 201 => q \in Sent
  /\ faults = {} =>
       /\ at \in {"publish", "exchange"} => chan \in open
       /\ status \in {409, 502} => users[q] = None /\ Taken(Normal[email])

LEMMA MoveAloneKeeps ==
  ASSUME InductiveInv, NEW q \in Requests, NEW at, NEW email, NEW chan, NEW status,
         Becomes(q, at, email, chan, status), MayMove(q, at, email, chan, status),
         UNCHANGED <<faults, users, serviceVars, brokerVars, consumer>>
  PROVE  InductiveInv'
<1>1. UsersTyped /\ ServiceTyped /\ EventsTyped
  BY TypeParts DEF InductiveInv
<1>2. UsersTyped' /\ ServiceTyped' /\ EventsTyped'
  BY <1>1 DEF UsersTyped, ServiceTyped, EventsTyped, serviceVars, brokerVars, queueVars
<1>3. Moves(q, at, email, chan, status)
  BY <1>2 DEF Moves, serviceVars, brokerVars, queueVars
<1>4. q \in Sent' <=> q \in Sent
  BY DEF Sent, Announced, brokerVars, queueVars
<1>5. q \in wire' => users'[q] # None
  BY DEF InductiveInv, EventsFollowUsers, Announced, brokerVars
<1>6. exchangeReady' \/ wire' # {} => exchange'
  BY DEF InductiveInv, ExchangeComesFirst, serviceVars, brokerVars
<1>7. InStep(q, at, email, chan, status)
  BY <1>4, <1>5, <1>6, StoringIs
     DEF InStep, MayMove, InductiveInv, UsersFollowRequests, FaultlessRefusesDuplicates, serviceVars
<1> QED
  BY <1>3, <1>7, MoveKeeps

(* Where a request stands before it moves. *)
LEMMA Standing ==
  ASSUME InductiveInv, NEW q \in Requests
  PROVE  /\ req[q].at # "idle" => req[q].email \in Spellings /\ Normal[req[q].email] \in Spellings
         /\ req[q].at # "done" => req[q].status = 0
         /\ req[q].at \in {"idle", "lookup", "save"} => users[q] = None
         /\ req[q].at \in Storing => users[q] # None
         /\ req[q].at \in {"issue", "reply"} => q \in Sent
         /\ ReqTyped
         /\ faults = {} =>
              /\ up /\ link
              /\ channel # None => channel \in open
              /\ req[q].at \in {"publish", "exchange"} => req[q].chan \in open
  BY NormalIsIdempotent, TypeParts, StoringIs DEF InductiveInv, RequestsInStep, FaultlessRefusesDuplicates, Sent

LEMMA StagesAre ==
  /\ "lookup" \in Stages /\ "save" \in Stages /\ "channel" \in Stages /\ "opening" \in Stages
  /\ "publish" \in Stages /\ "exchange" \in Stages /\ "issue" \in Stages
  /\ "reply" \in Stages /\ "done" \in Stages
  BY DEF Stages

LEMMA ArriveKeeps ==
  ASSUME InductiveInv, NEW q \in Requests, NEW s \in Spellings, Arrive(q, s)
  PROVE  InductiveInv'
<1>1. req[q].at = "idle" /\ users[q] = None /\ ReqTyped
  BY Standing DEF Arrive
<1>2. UNCHANGED <<faults, users, serviceVars, brokerVars, consumer>>
  BY DEF Arrive
<1>3. CASE up
  <2>1. Arrives(q, s, "lookup", 0)
    BY <1>3 DEF Arrive, Arrives
  <2>2. Becomes(q, "lookup", s, req[q].chan, 0)
    <3>1. 0 \in Statuses /\ "lookup" \in Stages
      BY RequestStatesAre, StagesAre
    <3> QED
      BY <1>1, <2>1, <3>1, ArrivalUpdate
  <2>3. MayMove(q, "lookup", s, req[q].chan, 0)
    BY <1>1, <1>2, Standing DEF MayMove, Storing
  <2> QED
    BY <1>2, <2>2, <2>3, MoveAloneKeeps
<1>4. CASE ~up
  <2>1. Arrives(q, s, "done", 502)
    <3>1. Arrives(q, s, "done", HttpOfGrpc("UNAVAILABLE"))
      BY <1>4 DEF Arrive, Arrives
    <3> QED
      BY <3>1, RefusalsAre
  <2>2. Becomes(q, "done", s, req[q].chan, 502)
    <3>1. 502 \in Statuses /\ "done" \in Stages
      BY RequestStatesAre, StagesAre
    <3> QED
      BY <1>1, <2>1, <3>1, ArrivalUpdate
  <2>3. faults # {}
    BY <1>4, Standing
  <2>4. MayMove(q, "done", s, req[q].chan, 502)
    BY <1>1, <1>2, <2>3, Standing DEF MayMove, Storing
  <2> QED
    BY <1>2, <2>2, <2>4, MoveAloneKeeps
<1> QED
  BY <1>3, <1>4

(* The steps that change the request alone. *)
LEMMA AloneStepsKeep ==
  ASSUME InductiveInv, NEW q \in Requests,
         UNCHANGED <<faults, users, serviceVars, brokerVars, consumer>>,
         \/ FindByEmail(q) \/ GetChannel(q) \/ AssertExchange(q) \/ BrokerRefuses(q)
         \/ Issue(q) \/ Reply(q)
         \/ req[q].at = "save" /\ Taken(Normal[req[q].email]) /\ Refuse(q, "Error")
         \/ StoreFails(q)
  PROVE  InductiveInv'
<1>1. ReqTyped
  BY Standing
<1>2. ASSUME Refuse(q, "Error"), req[q].at \in InFlight,
             faults = {} => users[q] = None /\ Taken(Normal[req[q].email])
      PROVE  InductiveInv'
  <2>1. Becomes(q, "done", req[q].email, req[q].chan, 502)
    BY <1>1, <1>2, Refusals
  <2>2. MayMove(q, "done", req[q].email, req[q].chan, 502)
    BY <1>2, Standing DEF MayMove, Storing, InFlight
  <2> QED
    BY <2>1, <2>2, MoveAloneKeeps
<1>3. ASSUME FindByEmail(q) PROVE InductiveInv'
  <2>1. CASE Taken(Normal[req[q].email])
    <3>1. Becomes(q, "done", req[q].email, req[q].chan, 409)
      BY <1>1, <1>3, <2>1, Refusals DEF FindByEmail
    <3>2. MayMove(q, "done", req[q].email, req[q].chan, 409)
      BY <1>3, <2>1, Standing DEF MayMove, Storing, FindByEmail
    <3> QED
      BY <3>1, <3>2, MoveAloneKeeps
  <2>2. CASE ~Taken(Normal[req[q].email])
    <3>1. Becomes(q, "save", req[q].email, req[q].chan, req[q].status)
      BY <1>1, <1>3, <2>2, RequestUpdates, StagesAre DEF FindByEmail
    <3>2. MayMove(q, "save", req[q].email, req[q].chan, req[q].status)
      BY <1>3, Standing DEF MayMove, Storing, FindByEmail
    <3> QED
      BY <3>1, <3>2, MoveAloneKeeps
  <2> QED
    BY <2>1, <2>2
<1>4. ASSUME GetChannel(q) PROVE InductiveInv'
  <2>1. CASE channel = None
    <3>1. Becomes(q, "opening", req[q].email, req[q].chan, req[q].status)
      BY <1>1, <1>4, <2>1, RequestUpdates, StagesAre DEF GetChannel
    <3>2. MayMove(q, "opening", req[q].email, req[q].chan, req[q].status)
      BY <1>4, Standing DEF MayMove, Storing, GetChannel
    <3> QED
      BY <3>1, <3>2, MoveAloneKeeps
  <2>2. CASE channel # None
    <3>1. channel \in Requests
      BY <2>2 DEF InductiveInv, TypeOK
    <3>2. Becomes(q, "publish", req[q].email, channel, req[q].status)
      BY <1>1, <1>4, <2>2, <3>1, RequestUpdates DEF GetChannel
    <3>3. MayMove(q, "publish", req[q].email, channel, req[q].status)
      BY <1>4, <2>2, Standing DEF MayMove, Storing, GetChannel
    <3> QED
      BY <3>2, <3>3, MoveAloneKeeps
  <2> QED
    BY <2>1, <2>2
<1>5. ASSUME AssertExchange(q) PROVE InductiveInv'
  <2>1. Becomes(q, "exchange", req[q].email, req[q].chan, req[q].status)
    BY <1>1, <1>5, RequestUpdates, StagesAre DEF AssertExchange
  <2>2. MayMove(q, "exchange", req[q].email, req[q].chan, req[q].status)
    BY <1>5, Standing DEF MayMove, Storing, AssertExchange
  <2> QED
    BY <2>1, <2>2, MoveAloneKeeps
<1>6. ASSUME BrokerRefuses(q) PROVE InductiveInv'
  BY <1>2, <1>6, Standing, StagesAre DEF BrokerRefuses, InFlight
<1>7. ASSUME Issue(q) PROVE InductiveInv'
  <2>1. Becomes(q, "reply", req[q].email, req[q].chan, req[q].status)
    BY <1>1, <1>7, RequestUpdates, StagesAre DEF Issue
  <2>2. MayMove(q, "reply", req[q].email, req[q].chan, req[q].status)
    BY <1>7, Standing DEF MayMove, Storing, Issue
  <2> QED
    BY <2>1, <2>2, MoveAloneKeeps
<1>8. ASSUME Reply(q) PROVE InductiveInv'
  <2>1. Becomes(q, "done", req[q].email, req[q].chan, 201)
    <3>1. 201 \in Statuses
      BY RequestStatesAre
    <3> QED
      BY <1>1, <1>8, <3>1, RequestUpdates DEF Reply
  <2>2. MayMove(q, "done", req[q].email, req[q].chan, 201)
    BY <1>8, Standing DEF MayMove, Storing, Reply
  <2> QED
    BY <2>1, <2>2, MoveAloneKeeps
<1>9. ASSUME req[q].at = "save", Taken(Normal[req[q].email]), Refuse(q, "Error")
      PROVE  InductiveInv'
  BY <1>2, <1>9, Standing, StagesAre DEF InFlight
<1>10. ASSUME StoreFails(q) PROVE InductiveInv'
  BY <1>2, <1>10, StagesAre DEF StoreFails, InFlight
<1> QED
  BY <1>3, <1>4, <1>5, <1>6, <1>7, <1>8, <1>9, <1>10

-----------------------------------------------------------------------------
(* The steps of a request that change something else as well. *)

(* The user q is stored, under an address that nobody has. *)
Stores(q) == users' = [users EXCEPT ![q] = Normal[req[q].email]]

LEMMA StoreUserKeeps ==
  ASSUME InductiveInv, NEW q \in Requests, NEW at, NEW status,
         req[q].at = "save", ~Taken(Normal[req[q].email]), Stores(q),
         Becomes(q, at, req[q].email, req[q].chan, status),
         \/ at = "channel" /\ status = 0
         \/ at = "done" /\ status = 502 /\ faults # {},
         UNCHANGED <<faults, serviceVars, brokerVars, consumer>>
  PROVE  InductiveInv'
<1>1. UsersTyped /\ ServiceTyped /\ EventsTyped
  BY TypeParts DEF InductiveInv
<1>2. /\ req[q].email \in Spellings /\ Normal[req[q].email] \in Spellings
      /\ users[q] = None
  BY Standing
<1>3. /\ UsersTyped'
      /\ users'[q] = Normal[req[q].email] /\ users'[q] # None
      /\ \A p \in Requests : p # q => users'[p] = users[p]
  BY <1>1, <1>2, NoneIsNoRequest DEF Stores, UsersTyped
<1>4. ServiceTyped' /\ EventsTyped'
  BY <1>1 DEF ServiceTyped, EventsTyped, serviceVars, brokerVars, queueVars
<1>5. Moves(q, at, req[q].email, req[q].chan, status)
  BY <1>3, <1>4 DEF Moves, serviceVars, brokerVars, queueVars
<1>6. exchangeReady' \/ wire' # {} => exchange'
  BY DEF InductiveInv, ExchangeComesFirst, serviceVars, brokerVars
<1>7. channel' # None /\ faults = {} => channel' \in open'
  BY Standing DEF serviceVars
<1>8. InStep(q, at, req[q].email, req[q].chan, status)
  BY <1>2, <1>3, <1>6, <1>7 DEF InStep
<1> QED
  BY <1>2, <1>3, <1>5, <1>8, MoveKeeps

LEMMA OpenChannelKeeps ==
  ASSUME InductiveInv, NEW q \in Requests, OpenChannel(q)
  PROVE  InductiveInv'
<1>1. UsersTyped /\ ServiceTyped /\ EventsTyped /\ ReqTyped
  BY TypeParts DEF InductiveInv
<1>2. /\ req[q].at = "opening" /\ req[q].status = 0 /\ req[q].email \in Spellings
      /\ users[q] # None
  BY Standing DEF OpenChannel, Storing
<1>3. Becomes(q, "publish", req[q].email, q, 0)
  BY <1>1, <1>2, RequestUpdates DEF OpenChannel
<1>4. /\ open' = open \cup {q} /\ channel' = q
      /\ UNCHANGED <<faults, users, up, link, exchangeReady, brokerVars, consumer>>
  BY DEF OpenChannel
<1>5. UsersTyped' /\ ServiceTyped' /\ EventsTyped'
  BY <1>1, <1>4 DEF UsersTyped, ServiceTyped, EventsTyped, brokerVars, queueVars
<1>6. Moves(q, "publish", req[q].email, q, 0)
  BY <1>3, <1>4, <1>5 DEF Moves, brokerVars, queueVars
<1>7. exchangeReady' \/ wire' # {} => exchange'
  BY <1>4 DEF InductiveInv, ExchangeComesFirst, brokerVars
<1>8. InStep(q, "publish", req[q].email, q, 0)
  BY <1>2, <1>4, <1>7 DEF InStep, InductiveInv, UsersFollowRequests
<1> QED
  BY <1>4, <1>6, <1>8, MoveKeeps

(* The event is written to the socket: the exchange is there by then. *)
LEMMA PublishKeeps ==
  ASSUME InductiveInv, NEW q \in Requests, ExchangeAsserted(q) \/ Publish(q)
  PROVE  InductiveInv'
<1>1. UsersTyped /\ ServiceTyped /\ EventsTyped /\ ReqTyped
  BY TypeParts DEF InductiveInv
<1>2. /\ req[q].status = 0 /\ req[q].email \in Spellings /\ users[q] # None
      /\ faults = {} /\ channel # None => channel \in open
  BY Standing DEF ExchangeAsserted, Publish, Storing
<1>3. Becomes(q, "issue", req[q].email, req[q].chan, 0)
  BY <1>1, <1>2, RequestUpdates, StagesAre DEF ExchangeAsserted, Publish
<1>4. /\ wire' = wire \cup {q} /\ exchange' = TRUE
      /\ exchangeReady' \in BOOLEAN
      /\ UNCHANGED <<faults, users, up, link, channel, open, bound, dropped, queueVars, consumer>>
  <2>1. CASE ExchangeAsserted(q)
    BY <2>1 DEF ExchangeAsserted
  <2>2. CASE Publish(q)
    <3>1. exchange /\ exchange \in BOOLEAN
      BY <1>1, <2>2 DEF Publish, InductiveInv, ExchangeComesFirst, EventsTyped
    <3> QED
      BY <1>1, <2>2, <3>1 DEF Publish, serviceVars, ServiceTyped
  <2> QED
    BY <2>1, <2>2
<1>5. UsersTyped' /\ ServiceTyped' /\ EventsTyped'
  BY <1>1, <1>4 DEF UsersTyped, ServiceTyped, EventsTyped, queueVars
<1>6. Moves(q, "issue", req[q].email, req[q].chan, 0)
  BY <1>3, <1>4, <1>5 DEF Moves
<1>7. InStep(q, "issue", req[q].email, req[q].chan, 0)
  BY <1>2, <1>4 DEF InStep, Sent, Announced, InductiveInv, UsersFollowRequests
<1> QED
  BY <1>4, <1>6, <1>7, MoveKeeps

-----------------------------------------------------------------------------
(* Steps of the broker and of the consumer. *)

LEMMA EventsMoveKeeps ==
  ASSUME InductiveInv, UNCHANGED <<faults, users, req, serviceVars>>,
         EventsTyped', Sent' = Sent, acked' \subseteq handled', wire' \subseteq wire,
         exchange => exchange'
  PROVE  InductiveInv'
<1>1. TypeOK'
  BY TypeParts DEF InductiveInv, TypeOK, EventsTyped, serviceVars
<1>2. UsersFollowRequests'
  BY DEF InductiveInv, UsersFollowRequests
<1>3. RequestsInStep'
  BY DEF InductiveInv, RequestsInStep, Sent
<1>4. EventsFollowUsers'
  BY DEF InductiveInv, EventsFollowUsers, Sent
<1>5. ExchangeComesFirst'
  BY DEF InductiveInv, ExchangeComesFirst, serviceVars
<1>6. FaultlessRefusesDuplicates'
  BY DEF InductiveInv, FaultlessRefusesDuplicates, Taken, serviceVars
<1> QED
  BY <1>1, <1>2, <1>3, <1>4, <1>5, <1>6 DEF InductiveInv

LEMMA EventStepsKeep ==
  ASSUME InductiveInv, NEW e \in Requests, EventStep(e)
  PROVE  InductiveInv'
<1>1. EventsTyped /\ acked \subseteq handled
  BY TypeParts DEF InductiveInv, EventsFollowUsers
<1>2. CASE Route(e)
  BY <1>1, <1>2, EventsMoveKeeps DEF Route, EventsTyped, Sent, Announced
<1>3. CASE Deliver(e)
  BY <1>1, <1>3, EventsMoveKeeps DEF Deliver, EventsTyped, Sent, Announced
<1>4. CASE Handle(e)
  BY <1>1, <1>4, EventsMoveKeeps DEF Handle, EventsTyped, Sent, Announced
<1>5. CASE TakeAck(e)
  BY <1>1, <1>5, EventsMoveKeeps DEF TakeAck, EventsTyped, Sent, Announced
<1> QED
  BY <1>2, <1>3, <1>4, <1>5 DEF EventStep

LEMMA ConsumerStepsKeep ==
  ASSUME InductiveInv, StartConsumer \/ ConsumerStep \/ ConsumerStops \/ ConsumerCutOff
  PROVE  InductiveInv'
<1>1. EventsTyped /\ acked \subseteq handled
  BY TypeParts DEF InductiveInv, EventsFollowUsers
<1>2. CASE StartConsumer \/ AssertQueue \/ Consume
  BY <1>1, <1>2, EventsMoveKeeps
     DEF StartConsumer, AssertQueue, Consume, EventsTyped, Sent, Announced, brokerVars, queueVars,
         ConsumerStages
<1>3. CASE AssertConsumedExchange \/ BindQueue
  BY <1>1, <1>3, EventsMoveKeeps
     DEF AssertConsumedExchange, BindQueue, EventsTyped, Sent, Announced, queueVars, ConsumerStages
<1>4. CASE ConsumerStops \/ ConsumerCutOff
  BY <1>1, <1>4, EventsMoveKeeps
     DEF ConsumerStops, ConsumerCutOff, Requeue, EventsTyped, Sent, Announced, ConsumerStages
<1> QED
  BY <1>2, <1>3, <1>4 DEF ConsumerStep

-----------------------------------------------------------------------------
(* user-service loses its connection, stops or starts. *)

LEMMA ServiceFaultsKeep ==
  ASSUME InductiveInv, ServiceCutOff \/ ServiceStops \/ ServiceStarts
  PROVE  InductiveInv'
<1>1. UsersTyped /\ ServiceTyped /\ EventsTyped /\ ReqTyped
  BY TypeParts DEF InductiveInv
<1>2. faults # {} /\ faults' = faults /\ users' = users
  BY Standing DEF ServiceCutOff, ServiceStops, ServiceStarts, InductiveInv, FaultlessRefusesDuplicates
<1>3. ServiceTyped'
  BY <1>1 DEF ServiceCutOff, ServiceStops, ServiceStarts, ServiceTyped
<1>4. /\ EventsTyped' /\ Sent' = Sent /\ acked' = acked /\ handled' = handled
      /\ wire' \subseteq wire /\ exchange' = exchange
      /\ exchangeReady' => exchangeReady
  <2>1. LoseFromWire => /\ wire' \subseteq wire /\ wire' \cup dropped' = wire \cup dropped
                        /\ UNCHANGED <<exchange, bound, queueVars>>
    BY DEF LoseFromWire
  <2>2. UNCHANGED brokerVars => /\ wire' \subseteq wire /\ wire' \cup dropped' = wire \cup dropped
                                /\ UNCHANGED <<exchange, bound, queueVars>>
    BY DEF brokerVars
  <2>3. /\ wire' \subseteq wire /\ wire' \cup dropped' = wire \cup dropped
        /\ UNCHANGED <<exchange, bound, queueVars, consumer>>
    BY <2>1, <2>2 DEF ServiceCutOff, ServiceStops, ServiceStarts
  <2>4. exchangeReady' = exchangeReady \/ exchangeReady' = FALSE
    BY DEF ServiceCutOff, ServiceStops, ServiceStarts
  <2> QED
    BY <1>1, <2>3, <2>4 DEF EventsTyped, Sent, Announced, queueVars
<1>5. ASSUME NEW q \in Requests
      PROVE  /\ req'[q] \in RequestStates /\ req'[q].email = req[q].email
             /\ \/ req'[q] = req[q]
                \/ req[q].at \in InFlight /\ req'[q].at = "done" /\ req'[q].status = 502
  <2>1. req[q] \in RequestStates
    BY <1>1 DEF ReqTyped
  <2>2. CASE req' = req
    BY <2>1, <2>2
  <2>3. CASE ServiceStops
    <3> DEFINE g == [req[q] EXCEPT !.at = "done"]
               f == [g EXCEPT !.status = HttpOfGrpc("UNAVAILABLE")]
    <3>1. g \in RequestStates /\ g.email = req[q].email /\ g.at = "done"
      BY <2>1, OneField, StagesAre, RequestStatesAre
    <3> HIDE DEF g
    <3>2. f \in RequestStates
      BY <3>1, OneField, RequestStatesAre, RefusalsAre
    <3>3. f.email = g.email /\ f.at = g.at /\ f.status = 502
      BY <3>1, RequestStatesAre, RefusalsAre
    <3> HIDE DEF f
    <3>4. req'[q] = IF req[q].at \in InFlight THEN f ELSE req[q]
      BY <2>3 DEF ServiceStops, f, g
    <3> QED
      BY <2>1, <3>1, <3>2, <3>3, <3>4
  <2> QED
    BY <2>2, <2>3 DEF ServiceCutOff, ServiceStarts
<1>6. ReqTyped'
  <2>1. req' = [q \in Requests |-> req'[q]]
    BY <1>1 DEF ServiceCutOff, ServiceStops, ServiceStarts, ReqTyped
  <2> QED
    BY <1>5, <2>1 DEF ReqTyped
<1>7. TypeOK'
  <2>1. UsersTyped' /\ faults' \in FaultSets
    BY <1>1, <1>2, TypeParts DEF UsersTyped, InductiveInv
  <2> QED
    BY <1>3, <1>4, <1>6, <2>1 DEF UsersTyped, ReqTyped, ServiceTyped, EventsTyped, TypeOK
<1>8. UsersFollowRequests'
  BY <1>2, <1>5 DEF InductiveInv, UsersFollowRequests
<1>9. RequestsInStep'
  <2> SUFFICES ASSUME NEW q \in Requests
               PROVE  /\ req'[q].at # "idle" => req'[q].email \in Spellings
                      /\ req'[q].at # "done" => req'[q].status = 0
                      /\ req'[q].at \in {"idle", "lookup", "save"} => users[q] = None
                      /\ req'[q].at \in InFlight \ {"lookup", "save"} \/ req'[q].status = 201
                           => users[q] # None
                      /\ req'[q].at \in {"issue", "reply"} \/ req'[q].status = 201 => q \in Sent
    BY <1>2, <1>4 DEF RequestsInStep, Sent
  <2>1. /\ req[q].at # "idle" => req[q].email \in Spellings
        /\ req[q].at # "done" => req[q].status = 0
        /\ req[q].at \in {"idle", "lookup", "save"} => users[q] = None
        /\ req[q].at \in InFlight \ {"lookup", "save"} \/ req[q].status = 201 => users[q] # None
        /\ req[q].at \in {"issue", "reply"} \/ req[q].status = 201 => q \in Sent
    BY DEF InductiveInv, RequestsInStep, Sent
  <2> QED
    BY <1>5, <2>1 DEF InFlight
<1>10. EventsFollowUsers' /\ ExchangeComesFirst'
  BY <1>2, <1>4 DEF InductiveInv, EventsFollowUsers, ExchangeComesFirst, Sent
<1>11. FaultlessRefusesDuplicates'
  BY <1>2 DEF FaultlessRefusesDuplicates
<1> QED
  BY <1>7, <1>8, <1>9, <1>10, <1>11 DEF InductiveInv

-----------------------------------------------------------------------------
(* The invariant is inductive. *)

LEMMA RequestStepsKeep ==
  ASSUME InductiveInv, NEW q \in Requests, RequestStep(q) \/ StoreFails(q)
  PROVE  InductiveInv'
<1>1. ReqTyped
  BY Standing
<1>2. CASE FindByEmail(q) \/ GetChannel(q) \/ AssertExchange(q) \/ BrokerRefuses(q)
           \/ Issue(q) \/ Reply(q)
  <2>1. UNCHANGED <<faults, users, serviceVars, brokerVars, consumer>>
    BY <1>2 DEF FindByEmail, GetChannel, AssertExchange, BrokerRefuses, Issue, Reply
  <2> QED
    BY <1>2, <2>1, AloneStepsKeep
<1>3. CASE SaveUser(q)
  <2>1. CASE Taken(Normal[req[q].email])
    BY <1>3, <2>1, AloneStepsKeep DEF SaveUser
  <2>2. CASE ~Taken(Normal[req[q].email])
    <3>1. /\ req[q].at = "save" /\ req[q].status = 0
          /\ Stores(q)
          /\ GoTo(q, "channel")
          /\ UNCHANGED <<faults, serviceVars, brokerVars, consumer>>
      BY <1>3, <2>2, Standing DEF SaveUser, Stores
    <3>2. Becomes(q, "channel", req[q].email, req[q].chan, 0)
      BY <1>1, <3>1, RequestUpdates, StagesAre
    <3> QED
      BY <2>2, <3>1, <3>2, StoreUserKeeps
  <2> QED
    BY <2>1, <2>2
<1>4. CASE StoreFails(q)
  <2>1. CASE users' = users
    BY <1>4, <2>1, AloneStepsKeep DEF StoreFails
  <2>2. CASE users' # users
    <3>1. /\ req[q].at = "save" /\ ~Taken(Normal[req[q].email]) /\ faults # {}
          /\ Stores(q)
          /\ Refuse(q, "Error")
          /\ UNCHANGED <<faults, serviceVars, brokerVars, consumer>>
      BY <1>4, <2>2 DEF StoreFails, Stores
    <3>2. Becomes(q, "done", req[q].email, req[q].chan, 502)
      BY <1>1, <3>1, Refusals
    <3> QED
      BY <3>1, <3>2, StoreUserKeeps
  <2> QED
    BY <2>1, <2>2
<1>5. CASE OpenChannel(q)
  BY <1>5, OpenChannelKeeps
<1>6. CASE ExchangeAsserted(q) \/ Publish(q)
  BY <1>6, PublishKeeps
<1> QED
  BY <1>2, <1>3, <1>4, <1>5, <1>6 DEF RequestStep

LEMMA StutterKeeps ==
  ASSUME InductiveInv, UNCHANGED vars
  PROVE  InductiveInv'
<1>1. EventsTyped /\ acked \subseteq handled
  BY TypeParts DEF InductiveInv, EventsFollowUsers
<1> QED
  BY <1>1, EventsMoveKeeps DEF vars, serviceVars, brokerVars, queueVars, EventsTyped, Sent, Announced

LEMMA NextKeeps ==
  ASSUME InductiveInv, [Next]_vars
  PROVE  InductiveInv'
<1>1. ASSUME NEW q \in Requests, NEW s \in Spellings, Arrive(q, s)
      PROVE  InductiveInv'
  BY <1>1, ArriveKeeps
<1>2. ASSUME NEW q \in Requests, RequestStep(q) \/ StoreFails(q) \/ EventStep(q)
      PROVE  InductiveInv'
  BY <1>2, RequestStepsKeep, EventStepsKeep
<1>3. CASE StartConsumer \/ ConsumerStep \/ ConsumerStops \/ ConsumerCutOff
  BY <1>3, ConsumerStepsKeep
<1>4. CASE ServiceCutOff \/ ServiceStops \/ ServiceStarts
  BY <1>4, ServiceFaultsKeep
<1>5. CASE Quiet \/ UNCHANGED vars
  BY <1>5, StutterKeeps DEF Quiet
<1> QED
  BY <1>1, <1>2, <1>3, <1>4, <1>5 DEF Next

LEMMA InitEstablishes == Init => InductiveInv
<1> SUFFICES ASSUME Init PROVE InductiveInv
  OBVIOUS
<1>1. \A q \in Requests :
        /\ users[q] = None
        /\ req[q] = [at |-> "idle", email |-> None, chan |-> None, status |-> 0]
        /\ req[q] \in RequestStates
  BY DEF Init, RequestStates, Stages
<1>2. TypeOK
  <2>1. ReqTyped
    BY <1>1 DEF Init, ReqTyped
  <2> QED
    BY <2>1, TypeParts DEF Init, UsersTyped, ServiceTyped, EventsTyped, ConsumerStages
<1>3. UsersFollowRequests /\ RequestsInStep
  BY <1>1 DEF UsersFollowRequests, RequestsInStep, InFlight
<1>4. EventsFollowUsers /\ ExchangeComesFirst
  BY DEF Init, EventsFollowUsers, ExchangeComesFirst, Announced
<1>5. FaultlessRefusesDuplicates
  BY <1>1 DEF Init, FaultlessRefusesDuplicates
<1> QED
  BY <1>2, <1>3, <1>4, <1>5 DEF InductiveInv

-----------------------------------------------------------------------------

(***************************************************************************)
(* Requests, users, channels and events agree at every await of the chain, *)
(* with any number of overlapping sign-ups and every combination of faults *)
(* (sign-up.use-case.ts:33-60).                                            *)
(***************************************************************************)
THEOREM Invariance == Spec => []InductiveInv
<1>1. ASSUME InductiveInv, [Next]_vars PROVE InductiveInv'
  BY <1>1, NextKeeps
<1> QED
  BY <1>1, InitEstablishes, PTL DEF Spec

(***************************************************************************)
(* No two users have one address, however it is spelled; without faults a  *)
(* sign-up is refused only because somebody else has it                    *)
(* (sign-up.use-case.ts:34-47, UQ_users_email).                            *)
(***************************************************************************)
THEOREM AddressesDecide == Spec => []OneUserPerEmail
<1>1. ASSUME InductiveInv PROVE OneUserPerEmail
  <2>1. \A q \in Requests : users[q] # None => Normal[users[q]] = users[q]
    BY <1>1, NormalIsIdempotent DEF InductiveInv, UsersFollowRequests
  <2> QED
    BY <1>1, <2>1
       DEF OneUserPerEmail, InductiveInv, UsersFollowRequests, FaultlessRefusesDuplicates
<1> QED
  BY <1>1, Invariance, PTL

(***************************************************************************)
(* Whoever publishes finds the exchange declared, also when sign-ups       *)
(* overlap the declaration (rabbit-event.publisher.ts:21-27).              *)
(***************************************************************************)
THEOREM ExchangeBeforeEvents == Spec => []PublishFindsExchange
<1>1. InductiveInv => PublishFindsExchange
  BY DEF InductiveInv, ExchangeComesFirst, PublishFindsExchange
<1> QED
  BY <1>1, Invariance, PTL

(***************************************************************************)
(* Every event speaks of a stored user, and whoever was told 201 has one,  *)
(* with its event sent or lost on its way to the queue                     *)
(* (sign-up.use-case.ts:47-55).                                            *)
(***************************************************************************)
THEOREM UsersAndEvents == Spec => []EventsMatchUsers
<1>1. InductiveInv => EventsMatchUsers
  BY DEF InductiveInv, RequestsInStep, EventsFollowUsers, EventsMatchUsers
<1> QED
  BY <1>1, Invariance, PTL

(***************************************************************************)
(* What has reached the queue stays with RabbitMQ or the consumer until it *)
(* has been handled, whatever stops and restarts                           *)
(* (user-created.consumer.ts:34-48).                                       *)
(***************************************************************************)
THEOREM NothingQueuedIsLost == Spec => QueuedUntilHandled
<1>1. ASSUME [Next]_vars
      PROVE  \A e \in queue \cup unacked : e \in (queue \cup unacked \cup handled)'
  <2>1. CASE queueVars' = queueVars
    BY <2>1 DEF queueVars
  <2>2. ASSUME NEW q \in Requests, EventStep(q)
        PROVE  \A e \in queue \cup unacked : e \in (queue \cup unacked \cup handled)'
    BY <2>2 DEF EventStep, Route, Deliver, Handle, TakeAck
  <2>3. CASE ConsumerStops \/ ConsumerCutOff
    BY <2>3 DEF ConsumerStops, ConsumerCutOff, Requeue
  <2>4. ASSUME NEW q \in Requests, RequestStep(q) \/ StoreFails(q) \/ \E s \in Spellings : Arrive(q, s)
        PROVE  queueVars' = queueVars
    BY <2>4
       DEF RequestStep, StoreFails, Arrive, FindByEmail, SaveUser, GetChannel, OpenChannel,
           BrokerRefuses, AssertExchange, ExchangeAsserted, Publish, Issue, Reply, brokerVars
  <2>5. CASE StartConsumer \/ ConsumerStep \/ ServiceCutOff \/ ServiceStops \/ ServiceStarts
             \/ Quiet \/ UNCHANGED vars
    <3>1. queueVars' = queueVars
      BY <2>5
         DEF StartConsumer, ConsumerStep, AssertConsumedExchange, AssertQueue, BindQueue, Consume,
             ServiceCutOff, ServiceStops, ServiceStarts, LoseFromWire, Quiet, vars, brokerVars
    <3> QED
      BY <2>1, <3>1
  <2> QED
    BY <1>1, <2>1, <2>2, <2>3, <2>4, <2>5 DEF Next
<1> QED
  BY <1>1, PTL DEF Spec, QueuedUntilHandled

=============================================================================
