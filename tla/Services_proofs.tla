--------------------------- MODULE Services_proofs ---------------------------
(***************************************************************************)
(* Proofs about Services, for any number of requests and of faults, and    *)
(* any environments that name a place for every store.                     *)
(***************************************************************************)
EXTENDS Services, TLAPS

-----------------------------------------------------------------------------
(* Errors and statuses. *)

HttpNames == {"NotFound", "Conflict", "UnprocessableContent", "BadGateway", "InternalServerError"}

LEMMA HttpErrorsAre ==
  /\ DOMAIN HttpErrors = HttpNames
  /\ HttpErrors["NotFound"] = 404 /\ HttpErrors["Conflict"] = 409
  /\ HttpErrors["UnprocessableContent"] = 422 /\ HttpErrors["BadGateway"] = 502
  /\ HttpErrors["InternalServerError"] = 500
  BY DEF HttpErrors, HttpNames

LEMMA RefusalsAre ==
  Refusals = {"NotFound", "Conflict", "UnprocessableContent", "BadGateway",
              "UserAlreadyExistsError", "InvalidCredentialsError", "InvalidRefreshTokenError",
              "UserNotFoundError"}
  BY HttpErrorsAre DEF Refusals, HttpNames, GrpcErrors

(* An error becomes a status of its own only when it is a refusal. *)
LEMMA HttpStatusesAre ==
  ASSUME NEW name \in HttpNames
  PROVE  /\ HttpErrors[name] \in {404, 409, 422, 500, 502}
         /\ HttpErrors[name] \in {404, 409, 422} => name \in Refusals
  BY HttpErrorsAre, RefusalsAre DEF HttpNames

LEMMA GrpcStatusesAre ==
  ASSUME NEW name \in GrpcErrors
  PROVE  /\ HttpStatus(name) \in {401, 404, 409, 502}
         /\ HttpStatus(name) \in {401, 404, 409} => name \in Refusals
  BY RefusalsAre DEF GrpcErrors, HttpStatus, HttpOfGrpc, GrpcStatusCode

LEMMA UnavailableIs == HttpOfGrpc("UNAVAILABLE") = 502
  BY DEF HttpOfGrpc

-----------------------------------------------------------------------------
(* The records of requests. *)

Places == {"idle", "guard", "route", "verified", "calling", "settled", "answered", "cut"}
Servings == {"none", "serving", "replied", "lost"}
Replies == {None, "OK"} \cup DOMAIN HttpErrors \cup GrpcErrors
Results == {0, 200, 400, 401, 404, 409, 422, 429, 500, 502, None}
Cookies == {"bad", "denied", "good"}
Statuses == {0, 200, 400, 401, 404, 409, 422, 429, 500, 502}

Typed(at, srv, to, reply, effect, result, status, root, client, server, op, token, asked) ==
  /\ at \in Places /\ srv \in Servings /\ to \in Backends \cup {None} /\ reply \in Replies
  /\ effect \in BOOLEAN /\ result \in Results /\ status \in Statuses
  /\ root \in SpanStates /\ client \in SpanStates /\ server \in SpanStates
  /\ op \in Operations /\ token \in Cookies /\ asked \in BOOLEAN

LEMMA RequestStatesAre ==
  RequestStates =
    [ at : Places, op : Operations, token : Cookies, asked : BOOLEAN, srv : Servings, to : Backends \cup {None}, reply : Replies,
      effect : BOOLEAN, result : Results, status : Statuses,
      root : SpanStates, client : SpanStates, server : SpanStates ]
  BY DEF RequestStates, Places, Servings, Replies, Results, Statuses, Cookies

LEMMA RecordIs ==
  ASSUME NEW q \in RequestStates
  PROVE  Typed(q.at, q.srv, q.to, q.reply, q.effect, q.result, q.status, q.root, q.client, q.server,
               q.op, q.token, q.asked)
  BY RequestStatesAre DEF Typed

(* The record f has these fields. *)
Says(f, at, srv, to, reply, effect, result, status, root, client, server, op, token, asked) ==
  /\ f \in RequestStates
  /\ f.at = at /\ f.srv = srv /\ f.to = to /\ f.reply = reply /\ f.effect = effect
  /\ f.result = result /\ f.status = status /\ f.root = root /\ f.client = client
  /\ f.server = server /\ f.op = op /\ f.token = token /\ f.asked = asked

(* The request r becomes f. *)
Becomes(r, f) ==
  /\ req' \in [Requests -> RequestStates]
  /\ req'[r] = f
  /\ \A x \in Requests : x # r => req'[x] = req[x]

ReqTyped == req \in [Requests -> RequestStates]

-----------------------------------------------------------------------------
(* What a process and a request rest on. *)

LEMMA TypeParts ==
  TypeOK <=> /\ env \in DOMAIN Environments
             /\ phase \in [Processes -> Phases]
             /\ otel \in [Processes -> {"off", "on", "flushed"}]
             /\ ready \in [Processes -> SUBSET {"postgres", "redis", "rabbitmq", "s3", "key"}]
             /\ early \in BOOLEAN /\ jwks \in BOOLEAN /\ up \subseteq Stores /\ hits \in 0..Limit
             /\ ReqTyped /\ faults \in 0..MaxFaults
  BY DEF TypeOK, ReqTyped

LEMMA GatewayIs == Gateway \in Processes /\ Gateway \in Nest /\ Gateway = "gateway"
  BY DEF Gateway, Processes, Nest

LEMMA LimitIsNat ==
  ASSUME env \in DOMAIN Environments
  PROVE  Limit \in Nat
<1>1. conf(Gateway) \in {Environments[env].given[Gateway], Merged[env][Gateway]}
  BY DEF conf
<1> QED
  BY <1>1, LimitsAreNumbers DEF Limit

(* A process keeps its environment once it has it. *)
LEMMA ConfStays ==
  ASSUME NEW p, env' = env, phase'[p] = phase[p]
  PROVE  conf(p)' = conf(p)
  BY DEF conf

LEMMA ConfMerged ==
  ASSUME NEW p \in Nest, phase[p] \notin {"off", "imported"}
  PROVE  conf(p) = Merged[env][p]
<1>1. p \notin Python
  BY DEF Nest, Python, Gateway
<1> QED
  BY <1>1 DEF conf

LEMMA GivingUpStays ==
  ASSUME NEW p, env' = env, faults \in Nat, faults' \in Nat, faults <= faults', early => early',
         conf(p)' = conf(p), MayGiveUp(p)
  PROVE  MayGiveUp(p)'
<1>1. faults > 0 => faults' > 0
  OBVIOUS
<1>2. KeyFound(conf(p))' = KeyFound(conf(p))
  BY DEF KeyFound
<1>3. \A s \in Stores : StoreHost(conf(p), s)' = StoreHost(conf(p), s)
  BY DEF StoreHost
<1> QED
  BY <1>1, <1>2, <1>3 DEF MayGiveUp

LEMMA ProcessStays ==
  ASSUME NEW p, ProcessInStep(p), env' = env, phase'[p] = phase[p], ready'[p] = ready[p],
         faults \in Nat, faults' \in Nat, faults <= faults', early => early'
  PROVE  ProcessInStep(p)'
<1>1. MayGiveUp(p) => MayGiveUp(p)'
  BY ConfStays, GivingUpStays
<1>2. Deployed(p)' <=> Deployed(p)
  BY DEF Deployed
<1> QED
  BY <1>1, <1>2 DEF ProcessInStep

LEMMA Standing ==
  ASSUME InductiveInv
  PROVE  /\ env \in DOMAIN Environments /\ ReqTyped
         /\ phase \in [Processes -> Phases]
         /\ otel \in [Processes -> {"off", "on", "flushed"}]
         /\ ready \in [Processes -> SUBSET {"postgres", "redis", "rabbitmq", "s3", "key"}]
         /\ early \in BOOLEAN /\ jwks \in BOOLEAN /\ up \subseteq Stores /\ hits \in Nat /\ hits <= Limit /\ Limit \in Nat
         /\ faults \in Nat /\ faults <= MaxFaults /\ MaxFaults \in Nat
         /\ jwks => Started("user-service")
         /\ early => "redis" \notin ready["user-service"]
  BY TypeParts, LimitIsNat, FaultsBounded DEF InductiveInv

(* What has been initialised stays so. *)
LEMMA StartedStays ==
  ASSUME NEW p, ready[p] \subseteq ready'[p], Started(p)
  PROVE  Started(p)'
  BY DEF Started

LEMMA RequestStands ==
  ASSUME InductiveInv, NEW r \in Requests
  PROVE  /\ req[r] \in RequestStates /\ CallInStep(req[r]) /\ ResultInStep(req[r])
         /\ req[r].at # "idle" => phase[Gateway] \in {"listening", "dead"}
         /\ req[r].at # "idle" /\ req[r].root = "none" => otel[Gateway] # "on"
         /\ PastGuard(req[r]) => Started("user-service")
  BY Standing DEF InductiveInv, RequestInStep, ReqTyped
-----------------------------------------------------------------------------
(* A process moves: the others, and the requests, stay in step. *)

LEMMA ProcessMoves ==
  ASSUME InductiveInv, NEW p \in Processes, UNCHANGED <<env, early, jwks, up, hits, req>>,
         NEW stage \in Phases, phase' = [phase EXCEPT ![p] = stage],
         otel' \in [Processes -> {"off", "on", "flushed"}],
         \A x \in Processes : x # p => otel'[x] = otel[x],
         ready' \in [Processes -> SUBSET {"postgres", "redis", "rabbitmq", "s3", "key"}],
         \A x \in Processes : x # p => ready'[x] = ready[x],
         ready[p] \subseteq ready'[p],
         faults' \in 0..MaxFaults, faults <= faults',
         phase[p] \in {"listening", "dead"} => stage \in {"listening", "dead"},
         phase[p] \in {"listening", "dead"} /\ otel'[p] = "on" => otel[p] = "on",
         early /\ p = "user-service" => "redis" \notin ready'[p],
         ProcessInStep(p)'
  PROVE  InductiveInv'
<1>1. /\ env' = env /\ early' = early /\ jwks' = jwks /\ up' = up /\ hits' = hits /\ req' = req
      /\ phase'[p] = stage
      /\ \A x \in Processes : x # p => phase'[x] = phase[x]
      /\ phase' \in [Processes -> Phases]
  BY Standing
<1>2. faults \in Nat /\ faults' \in Nat
  BY Standing
<1>3. \A x \in Processes : ProcessInStep(x)'
  <2>1. ASSUME NEW x \in Processes, x # p PROVE ProcessInStep(x)'
    BY <1>1, <1>2, <2>1, ProcessStays DEF InductiveInv
  <2> QED
    BY <2>1
<1>4. /\ phase[Gateway] \in {"listening", "dead"} => phase'[Gateway] \in {"listening", "dead"}
      /\ phase[Gateway] \in {"listening", "dead"} /\ otel'[Gateway] = "on" => otel[Gateway] = "on"
  BY <1>1, GatewayIs
<1>5. "user-service" \in Processes
  BY DEF Processes, Nest
<1>6. Started("user-service") => Started("user-service")'
  BY <1>5, StartedStays
<1>7. ASSUME NEW r \in Requests PROVE RequestInStep(r)'
  <2>1. req'[r] = req[r]
    BY <1>1
  <2> QED
    BY <1>4, <1>6, <2>1, RequestStands DEF RequestInStep
<1>8. hits' > 0 => phase'[Gateway] \in {"listening", "dead"}
  BY <1>1, <1>4 DEF InductiveInv
<1>9. hits' \in 0..Limit'
  <2>1. Limit' \in Nat
    <3>1. conf(Gateway)' \in {Environments[env'].given[Gateway], Merged[env'][Gateway]}
      BY DEF conf
    <3> QED
      BY <1>1, <3>1, Standing, LimitsAreNumbers DEF Limit
  <2>2. hits > 0 => Limit' = Limit
    <3>1. ASSUME phase[Gateway] \in {"listening", "dead"} PROVE conf(Gateway)' = conf(Gateway)
      BY <1>1, <1>4, <3>1, GatewayIs DEF conf, Nest, Python
    <3> QED
      BY <3>1 DEF InductiveInv, Limit
  <2> QED
    BY <1>1, <2>1, <2>2, Standing
<1>10. TypeOK'
  BY <1>1, <1>9, Standing DEF TypeOK, ReqTyped
<1>11. up' # Stores => faults' > 0
  BY <1>1, <1>2 DEF InductiveInv
<1>12. /\ jwks' => Started("user-service")'
       /\ early' => "redis" \notin ready'["user-service"]
  BY <1>1, <1>5, <1>6, Standing
<1> QED
  BY <1>3, <1>7, <1>8, <1>10, <1>11, <1>12 DEF InductiveInv

(* A request moves: the processes stay in step. *)
LEMMA RequestMoves ==
  ASSUME InductiveInv, NEW r \in Requests, UNCHANGED <<env, phase, otel, ready, up, faults>>,
         early' \in BOOLEAN, early => early', early' => "redis" \notin ready["user-service"],
         jwks' \in BOOLEAN, jwks' => Started("user-service"),
         hits' \in Nat, hits' <= Limit,
         hits' > 0 => phase[Gateway] \in {"listening", "dead"},
         NEW f, Becomes(r, f), CallInStep(f), ResultInStep(f),
         f.at # "idle" => phase[Gateway] \in {"listening", "dead"},
         f.at # "idle" /\ f.root = "none" => otel[Gateway] # "on",
         PastGuard(f) => Started("user-service")
  PROVE  InductiveInv'
<1>1. /\ env' = env /\ phase' = phase /\ otel' = otel /\ ready' = ready /\ up' = up /\ faults' = faults
      /\ faults \in Nat /\ faults' \in Nat /\ faults <= faults'
  BY Standing
<1>2. \A x \in Processes : ProcessInStep(x)'
  BY <1>1, ProcessStays DEF InductiveInv
<1>3. Limit' = Limit
  BY <1>1 DEF Limit, conf
<1>4. TypeOK'
  BY <1>1, <1>3, Standing, TypeParts DEF TypeOK, Becomes
<1>5. ASSUME NEW x \in Requests PROVE RequestInStep(x)'
  <2>1. CASE x = r
    <3>1. req'[x] = f
      BY <2>1 DEF Becomes
    <3> QED
      BY <1>1, <3>1 DEF RequestInStep, Started
  <2>2. CASE x # r
    <3>1. req'[x] = req[x]
      BY <2>2 DEF Becomes
    <3> QED
      BY <1>1, <3>1, RequestStands DEF RequestInStep, Started
  <2> QED
    BY <2>1, <2>2
<1>6. /\ hits' > 0 => phase'[Gateway] \in {"listening", "dead"}
      /\ up' # Stores => faults' > 0
  BY <1>1 DEF InductiveInv
<1>7. /\ jwks' => Started("user-service")'
      /\ early' => "redis" \notin ready'["user-service"]
  BY <1>1 DEF Started
<1> QED
  BY <1>2, <1>4, <1>5, <1>6, <1>7 DEF InductiveInv

(* What the process p is known to be, before it moves. *)
LEMMA ProcessStands ==
  ASSUME InductiveInv, NEW p \in Processes
  PROVE  /\ ProcessInStep(p) /\ phase[p] \in Phases /\ otel[p] \in {"off", "on", "flushed"}
         /\ ready[p] \subseteq {"postgres", "redis", "rabbitmq", "s3", "key"}
         /\ faults \in Nat /\ faults <= MaxFaults /\ MaxFaults \in Nat /\ faults \in 0..MaxFaults
  BY Standing DEF InductiveInv

LEMMA StartingKeeps ==
  ASSUME InductiveInv, NEW p \in Processes, Import(p) \/ Configure(p) \/ ServeGrpc(p)
  PROVE  InductiveInv'
<1>1. PICK stage \in {"imported", "configured", "grpc"} : phase' = [phase EXCEPT ![p] = stage]
  BY DEF Import, Configure, ServeGrpc
<1>2. /\ UNCHANGED <<env, early, jwks, up, hits, req>> /\ ready' = ready /\ faults' = faults
      /\ otel' = otel \/ \E x \in {"off", "on"} : otel' = [otel EXCEPT ![p] = x]
      /\ phase[p] \in {"off", "imported", "created"}
      /\ stage \in {"imported", "configured"} => phase[p] \in {"off", "imported"}
      /\ stage = "grpc" => p = "user-service" /\ phase[p] = "created"
      /\ p \in Nest /\ Deployed(p)
  <2>1. CASE Import(p)
    BY <1>1, <2>1, Standing DEF Import
  <2>2. CASE Configure(p)
    BY <1>1, <2>2, ProcessStands, Standing DEF Configure, ProcessInStep
  <2>3. CASE ServeGrpc(p)
    BY <1>1, <2>3, ProcessStands, Standing DEF ServeGrpc, ProcessInStep
  <2> QED
    BY <2>1, <2>2, <2>3
<1>3. otel' \in [Processes -> {"off", "on", "flushed"}] /\ \A x \in Processes : x # p => otel'[x] = otel[x]
  BY <1>2, Standing
<1>4. phase'[p] = stage /\ stage \in Phases
  BY <1>1, Standing DEF Phases
<1>5. ProcessInStep(p)'
  <2>1. Deployed(p)'
    BY <1>2 DEF Deployed
  <2> QED
    BY <1>1, <1>2, <1>4, <2>1, ProcessStands DEF ProcessInStep
<1>6. /\ ready' \in [Processes -> SUBSET {"postgres", "redis", "rabbitmq", "s3", "key"}]
      /\ \A x \in Processes : ready'[x] = ready[x]
      /\ faults' \in 0..MaxFaults /\ faults <= faults'
      /\ phase[p] \notin {"listening", "dead"}
  BY <1>2, Standing
<1>7. early => "redis" \notin ready'["user-service"]
  BY <1>2, Standing
<1> QED
  BY <1>1, <1>2, <1>3, <1>4, <1>5, <1>6, <1>7, ProcessMoves
LEMMA CreateKeeps ==
  ASSUME InductiveInv, NEW p \in Processes, Create(p)
  PROVE  InductiveInv'
<1>1. /\ UNCHANGED <<env, early, jwks, up, hits, req>> /\ otel' = otel /\ faults' = faults
      /\ phase[p] = "configured"
      /\ phase' = [phase EXCEPT ![p] = "created"]
      /\ ready' = [ready EXCEPT ![p] = Loads(p) \cap {"postgres"}]
  BY DEF Create
<1>2. ready[p] = {} /\ p \in Nest /\ Deployed(p)
  BY <1>1, ProcessStands DEF ProcessInStep
<1>3. /\ ready' \in [Processes -> SUBSET {"postgres", "redis", "rabbitmq", "s3", "key"}]
      /\ \A x \in Processes : x # p => ready'[x] = ready[x]
      /\ ready'[p] = Loads(p) \cap {"postgres"} /\ ready[p] \subseteq ready'[p]
      /\ phase'[p] = "created" /\ "created" \in Phases
  BY <1>1, <1>2, Standing DEF Phases
<1>4. ProcessInStep(p)'
  <2>1. Deployed(p)'
    BY <1>1, <1>2 DEF Deployed
  <2> QED
    BY <1>2, <1>3, <2>1 DEF ProcessInStep
<1>5. /\ otel' \in [Processes -> {"off", "on", "flushed"}] /\ \A x \in Processes : otel'[x] = otel[x]
      /\ faults' \in 0..MaxFaults /\ faults <= faults'
      /\ phase[p] \notin {"listening", "dead"}
  BY <1>1, Standing
<1>6. "redis" \notin ready'[p]
  BY <1>3
<1> QED
  BY <1>1, <1>3, <1>4, <1>5, <1>6, ProcessMoves

(* Every namespace a service asks for is one it loads. *)
LEMMA AsksLoaded ==
  ASSUME NEW p \in Nest
  PROVE  Asks(p) \subseteq Loads(p)
<1>1. CASE p = "gateway"
  BY <1>1 DEF Asks, Loads, Gateway
<1>2. CASE p = "user-service"
  BY <1>2 DEF Asks, Loads, Gateway
<1>3. CASE p = "media-service"
  BY <1>3 DEF Asks, Loads, Gateway
<1>4. CASE p = "notification-service"
  BY <1>4 DEF Asks, Loads, Gateway
<1> QED
  BY <1>1, <1>2, <1>3, <1>4 DEF Nest, Gateway

LEMMA HooksAre ==
  ASSUME NEW p \in Nest
  PROVE  /\ Hooks(p) \subseteq {"redis", "rabbitmq", "s3", "key"}
         /\ "key" \in Hooks(p) => p = "user-service"
         /\ p = "user-service" => "postgres" \in Loads(p)
<1>1. CASE p = "gateway"
  BY <1>1 DEF Hooks, Gateway
<1>2. CASE p = "user-service"
  BY <1>2 DEF Hooks, Loads, Gateway
<1>3. CASE p = "media-service"
  BY <1>3 DEF Hooks, Gateway
<1>4. CASE p = "notification-service"
  BY <1>4 DEF Hooks, Gateway
<1> QED
  BY <1>1, <1>2, <1>3, <1>4 DEF Nest, Gateway

(* A store that a service needs and that does not answer is down or elsewhere. *)
LEMMA Unanswering ==
  ASSUME InductiveInv, NEW p \in Processes, p \in Nest, Deployed(p),
         NEW s \in (Hooks(p) \cup (Loads(p) \cap {"postgres"})) \ {"key"},
         ~Answers(p, s)
  PROVE  MayGiveUp(p)
<1>1. s \in Stores
  BY Standing, StoresSuffice DEF Deployed
<1>2. CASE s \notin up
  BY <1>1, <1>2 DEF InductiveInv, MayGiveUp
<1>3. CASE StoreHost(conf(p), s) # Environments[env].at
  BY <1>1, <1>3 DEF MayGiveUp
<1> QED
  BY <1>2, <1>3 DEF Answers

LEMMA GivesUpKeeps ==
  ASSUME InductiveInv, NEW p \in Processes, p \in Nest, Die(p),
         UNCHANGED <<env, up, hits, req, faults>>,
         phase[p] \in {"configured", "created", "grpc"}, MayGiveUp(p)
  PROVE  InductiveInv'
<1>1. /\ phase' = [phase EXCEPT ![p] = "dead"] /\ otel' = otel /\ ready' = ready /\ early' = early /\ jwks' = jwks
      /\ faults' = faults /\ env' = env
  BY DEF Die
<1>2. phase'[p] = "dead" /\ "dead" \in Phases
  BY <1>1, Standing DEF Phases
<1>3. conf(p)' = conf(p)
  BY <1>1, <1>2, ConfMerged DEF conf, Nest, Python, Gateway
<1>4. MayGiveUp(p)'
  BY <1>1, <1>3, Standing, GivingUpStays
<1>5. ProcessInStep(p)'
  <2>1. Deployed(p)'
    BY <1>1, ProcessStands DEF Deployed, ProcessInStep
  <2> QED
    BY <1>1, <1>2, <1>4, <2>1, ProcessStands DEF ProcessInStep
<1>6. /\ otel' \in [Processes -> {"off", "on", "flushed"}] /\ \A x \in Processes : otel'[x] = otel[x]
      /\ ready' \in [Processes -> SUBSET {"postgres", "redis", "rabbitmq", "s3", "key"}]
      /\ \A x \in Processes : ready'[x] = ready[x]
      /\ faults' \in 0..MaxFaults /\ faults <= faults'
      /\ phase[p] \notin {"listening", "dead"}
  BY <1>1, Standing
<1>7. early => "redis" \notin ready'["user-service"]
  BY <1>1, Standing
<1> QED
  BY <1>1, <1>2, <1>5, <1>6, <1>7, ProcessMoves

LEMMA CreateFailsKeeps ==
  ASSUME InductiveInv, NEW p \in Processes, CreateFails(p)
  PROVE  InductiveInv'
<1>1. /\ phase[p] = "configured" /\ Die(p) /\ UNCHANGED <<env, up, hits, req, faults>>
      /\ ~(Asks(p) \subseteq Loads(p)) \/ ("postgres" \in Loads(p) /\ ~Answers(p, "postgres"))
  BY DEF CreateFails
<1>2. p \in Nest /\ Deployed(p)
  BY <1>1, ProcessStands DEF ProcessInStep
<1>3. MayGiveUp(p)
  BY <1>1, <1>2, AsksLoaded, Unanswering
<1> QED
  BY <1>1, <1>2, <1>3, GivesUpKeeps

LEMMA InitModuleKeeps ==
  ASSUME InductiveInv, NEW p \in Processes, NEW h, InitModule(p, h)
  PROVE  InductiveInv'
<1>1. /\ p \in Nest /\ Initialising(p) /\ h \in Hooks(p)
      /\ ready' = [ready EXCEPT ![p] = ready[p] \cup {h}]
      /\ UNCHANGED <<env, early, jwks, up, hits, req>> /\ otel' = otel /\ faults' = faults
      /\ phase' = phase
  BY DEF InitModule
<1>2. /\ phase[p] \in {"created", "grpc"} /\ Deployed(p)
      /\ Loads(p) \cap {"postgres"} \subseteq ready[p]
  BY <1>1, ProcessStands DEF Initialising, ProcessInStep
<1>3. h \in {"redis", "rabbitmq", "s3", "key"} /\ (h = "key" => "postgres" \in ready[p])
  BY <1>1, <1>2, HooksAre
<1>4. /\ ready' \in [Processes -> SUBSET {"postgres", "redis", "rabbitmq", "s3", "key"}]
      /\ \A x \in Processes : x # p => ready'[x] = ready[x]
      /\ ready'[p] = ready[p] \cup {h}
  BY <1>1, <1>3, Standing
<1>5. ProcessInStep(p)'
  <2>1. Deployed(p)'
    BY <1>1, <1>2 DEF Deployed
  <2> QED
    BY <1>1, <1>2, <1>3, <1>4, <2>1, ProcessStands DEF ProcessInStep
<1>6. phase' = [phase EXCEPT ![p] = phase[p]] /\ phase[p] \in Phases
  BY <1>1, Standing
<1>7. /\ otel' \in [Processes -> {"off", "on", "flushed"}] /\ \A x \in Processes : otel'[x] = otel[x]
      /\ faults' \in 0..MaxFaults /\ faults <= faults'
      /\ ready[p] \subseteq ready'[p]
  BY <1>1, <1>4, Standing
<1>8. early /\ p = "user-service" => "redis" \notin ready'[p]
  <2>1. h = "redis" /\ p = "user-service" => ~early
    BY DEF InitModule, HookSucceeds, ConnectsRedis
  <2> QED
    BY <1>4, <2>1, Standing
<1> QED
  BY <1>1, <1>4, <1>5, <1>6, <1>7, <1>8, ProcessMoves

LEMMA ListenKeeps ==
  ASSUME InductiveInv, NEW p \in Processes, Listen(p)
  PROVE  InductiveInv'
<1>1. /\ p \in Nest /\ Initialising(p) /\ Hooks(p) \subseteq ready[p]
      /\ phase' = [phase EXCEPT ![p] = "listening"]
      /\ UNCHANGED <<env, early, jwks, up, hits, req>> /\ otel' = otel /\ faults' = faults
      /\ ready' = ready
  BY DEF Listen
<1>2. /\ phase[p] \in {"created", "grpc"} /\ Deployed(p)
      /\ Loads(p) \cap {"postgres"} \subseteq ready[p]
  BY <1>1, ProcessStands DEF Initialising, ProcessInStep
<1>3. phase'[p] = "listening" /\ "listening" \in Phases
  BY <1>1, Standing DEF Phases
<1>4. ProcessInStep(p)'
  <2>1. Deployed(p)'
    BY <1>1, <1>2 DEF Deployed
  <2> QED
    BY <1>1, <1>2, <1>3, <2>1, ProcessStands DEF ProcessInStep
<1>5. /\ otel' \in [Processes -> {"off", "on", "flushed"}] /\ \A x \in Processes : otel'[x] = otel[x]
      /\ ready' \in [Processes -> SUBSET {"postgres", "redis", "rabbitmq", "s3", "key"}]
      /\ \A x \in Processes : ready'[x] = ready[x]
      /\ faults' \in 0..MaxFaults /\ faults <= faults'
      /\ phase[p] \notin {"listening", "dead"}
  BY <1>1, <1>2, Standing
<1>6. early => "redis" \notin ready'["user-service"]
  BY <1>1, Standing
<1> QED
  BY <1>1, <1>3, <1>4, <1>5, <1>6, ProcessMoves

LEMMA StartPythonKeeps ==
  ASSUME InductiveInv, NEW p \in Processes, NEW packages \in BOOLEAN, StartPython(p, packages)
  PROVE  InductiveInv'
<1>1. PICK x \in {"off", "on"} : otel' = [otel EXCEPT ![p] = x]
  BY DEF StartPython
<1>2. /\ p \in Python /\ Deployed(p) /\ phase[p] = "off"
      /\ phase' = [phase EXCEPT ![p] = "listening"]
      /\ UNCHANGED <<env, early, jwks, up, hits, req>> /\ ready' = ready /\ faults' = faults
  BY DEF StartPython
<1>3. p \notin Nest
  BY <1>2 DEF Python, Nest, Gateway
<1>4. phase'[p] = "listening" /\ "listening" \in Phases
  BY <1>2, Standing DEF Phases
<1>5. ProcessInStep(p)'
  <2>1. Deployed(p)'
    BY <1>2 DEF Deployed
  <2> QED
    BY <1>2, <1>3, <1>4, <2>1, ProcessStands DEF ProcessInStep
<1>6. /\ otel' \in [Processes -> {"off", "on", "flushed"}]
      /\ \A y \in Processes : y # p => otel'[y] = otel[y]
      /\ ready' \in [Processes -> SUBSET {"postgres", "redis", "rabbitmq", "s3", "key"}]
      /\ \A y \in Processes : ready'[y] = ready[y]
      /\ faults' \in 0..MaxFaults /\ faults <= faults'
      /\ phase[p] \notin {"listening", "dead"}
  BY <1>1, <1>2, Standing
<1>7. early => "redis" \notin ready'["user-service"]
  BY <1>2, Standing
<1> QED
  BY <1>2, <1>4, <1>5, <1>6, <1>7, ProcessMoves

LEMMA TerminateKeeps ==
  ASSUME InductiveInv, NEW p \in Processes, Terminate(p)
  PROVE  InductiveInv'
<1>1. /\ otel' = [otel EXCEPT ![p] = "flushed"] /\ phase' = phase /\ ready' = ready
      /\ UNCHANGED <<env, early, jwks, up, hits, req>> /\ faults' = faults + 1 /\ faults < MaxFaults
  BY DEF Terminate
<1>2. faults \in Nat /\ faults' \in Nat /\ faults' \in 0..MaxFaults /\ faults <= faults'
  BY <1>1, Standing
<1>3. ProcessInStep(p)'
  BY <1>1, <1>2, ProcessStands, ProcessStays
<1>4. phase' = [phase EXCEPT ![p] = phase[p]] /\ phase[p] \in Phases
  BY <1>1, Standing
<1>5. /\ otel' \in [Processes -> {"off", "on", "flushed"}]
      /\ \A y \in Processes : y # p => otel'[y] = otel[y]
      /\ otel'[p] = "flushed"
      /\ ready' \in [Processes -> SUBSET {"postgres", "redis", "rabbitmq", "s3", "key"}]
      /\ \A y \in Processes : ready'[y] = ready[y]
  BY <1>1, Standing
<1>6. early => "redis" \notin ready'["user-service"]
  BY <1>1, Standing
<1> QED
  BY <1>1, <1>2, <1>3, <1>4, <1>5, <1>6, ProcessMoves
(* What is around the processes moves: all of them, and the requests, stay in step. *)
LEMMA AroundMoves ==
  ASSUME InductiveInv, UNCHANGED <<env, phase, otel, ready, early, req>>,
         jwks' \in BOOLEAN, jwks' => jwks,
         up' \subseteq Stores, faults' \in 0..MaxFaults, faults <= faults',
         up' # Stores => faults' > 0,
         hits' \in 0..Limit, hits' > 0 => phase[Gateway] \in {"listening", "dead"}
  PROVE  InductiveInv'
<1>1. /\ env' = env /\ phase' = phase /\ otel' = otel /\ ready' = ready /\ early' = early /\ req' = req
      /\ faults \in Nat /\ faults' \in Nat
  BY Standing
<1>2. \A x \in Processes : ProcessInStep(x)'
  BY <1>1, ProcessStays DEF InductiveInv
<1>3. Limit' = Limit
  BY <1>1 DEF Limit, conf
<1>4. TypeOK'
  BY <1>1, <1>3, Standing, TypeParts DEF TypeOK, ReqTyped
<1>5. \A x \in Requests : RequestInStep(x)'
  BY <1>1, RequestStands DEF RequestInStep, Started
<1>6. /\ jwks' => Started("user-service")'
      /\ early' => "redis" \notin ready'["user-service"]
  BY <1>1, Standing DEF Started
<1> QED
  BY <1>1, <1>2, <1>4, <1>5, <1>6 DEF InductiveInv

LEMMA AroundKeeps ==
  ASSUME InductiveInv,
         \/ \E s \in Stores : StoreGoesDown(s) \/ StoreComesBack(s)
         \/ OthersCount \/ WindowEnds \/ KeysExpire
  PROVE  InductiveInv'
<1>1. ASSUME NEW s \in Stores, StoreGoesDown(s) PROVE InductiveInv'
  <2>1. /\ UNCHANGED <<env, phase, otel, ready, early, jwks, req>> /\ up' = up \ {s} /\ faults' = faults + 1
        /\ faults < MaxFaults /\ hits' = hits
    BY <1>1 DEF StoreGoesDown, processes
  <2>2. up' \subseteq Stores /\ jwks' \in BOOLEAN /\ faults' \in 0..MaxFaults /\ faults <= faults' /\ faults' > 0 /\ hits' \in 0..Limit
    BY <2>1, Standing
  <2>3. hits' > 0 => phase[Gateway] \in {"listening", "dead"}
    BY <2>1 DEF InductiveInv
  <2> QED
    BY <2>1, <2>2, <2>3, AroundMoves
<1>2. ASSUME NEW s \in Stores, StoreComesBack(s) PROVE InductiveInv'
  <2>1. /\ UNCHANGED <<env, phase, otel, ready, early, jwks, req>> /\ up' = up \cup {s} /\ faults' = faults /\ hits' = hits
        /\ s \notin up
    BY <1>2 DEF StoreComesBack, processes
  <2>2. up' \subseteq Stores /\ jwks' \in BOOLEAN /\ faults' \in 0..MaxFaults /\ faults <= faults' /\ hits' \in 0..Limit
    BY <2>1, Standing
  <2>3. /\ hits' > 0 => phase[Gateway] \in {"listening", "dead"}
        /\ faults' > 0
    BY <2>1 DEF InductiveInv
  <2> QED
    BY <2>1, <2>2, <2>3, AroundMoves
<1>3. ASSUME OthersCount \/ WindowEnds \/ KeysExpire PROVE InductiveInv'
  <2>1. /\ UNCHANGED <<env, phase, otel, ready, early, req>> /\ jwks' \in BOOLEAN /\ (jwks' => jwks) /\ up' = up /\ faults' = faults
        /\ hits' = hits \/ hits' = 0 \/ (hits' = hits + 1 /\ hits < Limit /\ phase[Gateway] = "listening")
    <3>1. CASE OthersCount
      BY <3>1, Standing DEF OthersCount, processes
    <3>2. CASE WindowEnds
      BY <3>2, Standing DEF WindowEnds, processes
    <3>3. CASE KeysExpire
      BY <3>3, Standing DEF KeysExpire
    <3> QED
      BY <1>3, <3>1, <3>2, <3>3
  <2>2. up' \subseteq Stores /\ jwks' \in BOOLEAN /\ faults' \in 0..MaxFaults /\ faults <= faults' /\ hits' \in 0..Limit
    BY <2>1, Standing
  <2>3. /\ up' # Stores => faults' > 0
        /\ hits' > 0 => phase[Gateway] \in {"listening", "dead"}
    BY <2>1 DEF InductiveInv
  <2> QED
    BY <2>1, <2>2, <2>3, AroundMoves
<1> QED
  BY <1>1, <1>2, <1>3

(* Whoever is killed, what its requests know stays so. *)
LEMMA KilledInStep ==
  ASSUME NEW q \in RequestStates, NEW p \in Processes, CallInStep(q), ResultInStep(q),
         NEW f, f = KilledIn(q, p)
  PROVE  /\ f \in RequestStates /\ CallInStep(f) /\ ResultInStep(f)
         /\ f.at = "idle" <=> q.at = "idle"
         /\ f.root = "none" => q.root = "none"
         /\ PastGuard(f) => PastGuard(q)
<1>1. Typed(q.at, q.srv, q.to, q.reply, q.effect, q.result, q.status, q.root, q.client, q.server,
           q.op, q.token, q.asked)
  BY RecordIs
<1>2. Lost(q.root) \in SpanStates /\ Lost(q.client) \in SpanStates /\ Lost(q.server) \in SpanStates
  BY <1>1 DEF Lost, Typed, SpanStates
<1>3. CASE p = Gateway /\ q.at \notin {"idle", "answered", "cut"}
  <2>1. f = [q EXCEPT !.at = "cut", !.root = Lost(q.root), !.client = Lost(q.client)]
    BY <1>3 DEF KilledIn
  <2>2. f \in RequestStates
    <3>1. \A root, client \in SpanStates :
            [q EXCEPT !.at = "cut", !.root = root, !.client = client] \in RequestStates
      BY RequestStatesAre DEF Places
    <3> QED
      BY <1>2, <2>1, <3>1
  <2>3. Says(f, "cut", q.srv, q.to, q.reply, q.effect, q.result, q.status, Lost(q.root), Lost(q.client), q.server, q.op, q.token, q.asked)
    BY <2>1, <2>2 DEF Says, RequestStates
  <2>4. CallInStep(f)
    BY <1>3, <2>3 DEF Says, CallInStep
  <2>5. ResultInStep(f)
    BY <1>1, <1>3, <2>3 DEF Says, ResultInStep, Lost, Ended, Typed, Statuses
  <2> QED
    BY <1>3, <2>3, <2>4, <2>5 DEF Says, Lost, PastGuard
<1>4. CASE /\ ~(p = Gateway /\ q.at \notin {"idle", "answered", "cut"})
           /\ q.to = p /\ (q.srv = "serving" \/ (q.srv = "replied" /\ q.at = "calling"))
  <2>1. f = [q EXCEPT !.srv = "lost", !.server = Lost(q.server)]
    BY <1>4 DEF KilledIn
  <2>2. f \in RequestStates
    <3>1. \A server \in SpanStates : [q EXCEPT !.srv = "lost", !.server = server] \in RequestStates
      BY RequestStatesAre DEF Servings
    <3> QED
      BY <1>2, <2>1, <3>1
  <2>3. Says(f, q.at, "lost", q.to, q.reply, q.effect, q.result, q.status, q.root, q.client, Lost(q.server), q.op, q.token, q.asked)
    BY <2>1, <2>2 DEF Says, RequestStates
  <2>4. CallInStep(f)
    BY <1>4, <2>3 DEF Says, CallInStep, Lost
  <2>5. ResultInStep(f)
    BY <1>4, <2>3 DEF Says, ResultInStep
  <2> QED
    BY <1>4, <2>3, <2>4, <2>5 DEF Says, PastGuard
<1>5. CASE /\ ~(p = Gateway /\ q.at \notin {"idle", "answered", "cut"})
           /\ ~(q.to = p /\ (q.srv = "serving" \/ (q.srv = "replied" /\ q.at = "calling")))
  <2>1. f = q
    BY <1>5 DEF KilledIn
  <2> QED
    BY <2>1
<1> QED
  BY <1>3, <1>4, <1>5

(* A process ends, with what it was doing for its requests. *)
LEMMA EndsKeeps ==
  ASSUME InductiveInv, NEW p \in Processes, Die(p), UNCHANGED <<env, up, hits>>,
         phase[p] \notin {"off", "dead"},
         req' = [r \in Requests |-> KilledIn(req[r], p)],
         faults' \in 0..MaxFaults, faults <= faults', MayGiveUp(p)'
  PROVE  InductiveInv'
<1>1. /\ env' = env /\ up' = up /\ hits' = hits /\ otel' = otel /\ ready' = ready /\ early' = early /\ jwks' = jwks
      /\ phase' = [phase EXCEPT ![p] = "dead"] /\ phase[p] \notin {"off", "dead"}
      /\ req' = [r \in Requests |-> KilledIn(req[r], p)]
  BY DEF Die
<1>2. faults \in Nat /\ faults' \in Nat /\ faults' \in 0..MaxFaults /\ faults <= faults'
  BY Standing
<1>3. /\ phase' \in [Processes -> Phases] /\ phase'[p] = "dead"
      /\ \A x \in Processes : x # p => phase'[x] = phase[x]
  BY <1>1, Standing DEF Phases
<1>4. ASSUME NEW x \in Processes PROVE ProcessInStep(x)'
  <2>1. CASE x = p
    <3>1. Deployed(p)'
      BY <1>1, ProcessStands DEF Deployed, ProcessInStep
    <3> QED
      BY <1>1, <1>3, <2>1, <3>1, ProcessStands DEF ProcessInStep
  <2>2. CASE x # p
    BY <1>1, <1>2, <1>3, <2>2, ProcessStays DEF InductiveInv
  <2> QED
    BY <2>1, <2>2
<1>5. phase[Gateway] \in {"listening", "dead"} => phase'[Gateway] \in {"listening", "dead"}
  BY <1>3, GatewayIs
<1>6. ASSUME NEW r \in Requests PROVE RequestInStep(r)' /\ req'[r] \in RequestStates
  <2>1. PICK f : f = KilledIn(req[r], p)
    OBVIOUS
  <2>2. req'[r] = f
    BY <1>1, <2>1
  <2>3. /\ f \in RequestStates /\ CallInStep(f) /\ ResultInStep(f)
        /\ f.at = "idle" <=> req[r].at = "idle"
        /\ f.root = "none" => req[r].root = "none"
        /\ PastGuard(f) => PastGuard(req[r])
    BY <2>1, RequestStands, KilledInStep
  <2> QED
    BY <1>1, <1>5, <2>2, <2>3, RequestStands DEF RequestInStep, Started
<1>7. hits' \in 0..Limit' /\ (hits' > 0 => phase'[Gateway] \in {"listening", "dead"})
  <2>1. Limit' \in Nat
    <3>1. conf(Gateway)' \in {Environments[env'].given[Gateway], Merged[env'][Gateway]}
      BY DEF conf
    <3> QED
      BY <1>1, <3>1, Standing, LimitsAreNumbers DEF Limit
  <2>2. phase[Gateway] \in {"listening", "dead"} => Limit' = Limit
    <3>1. ASSUME phase[Gateway] \in {"listening", "dead"} PROVE conf(Gateway)' = conf(Gateway)
      BY <1>1, <1>5, <3>1, GatewayIs DEF conf, Nest, Python
    <3> QED
      BY <3>1 DEF Limit
  <2> QED
    BY <1>1, <1>5, <2>1, <2>2, Standing DEF InductiveInv
<1>8. ReqTyped'
  BY <1>1, <1>6 DEF ReqTyped
<1>9. TypeOK'
  BY <1>1, <1>2, <1>3, <1>7, <1>8, Standing DEF TypeOK, ReqTyped
<1>10. /\ up' # Stores => faults' > 0
       /\ jwks' => Started("user-service")'
       /\ early' => "redis" \notin ready'["user-service"]
  BY <1>1, <1>2, Standing DEF InductiveInv, Started
<1> QED
  BY <1>4, <1>6, <1>7, <1>9, <1>10 DEF InductiveInv

LEMMA KillKeeps ==
  ASSUME InductiveInv, NEW p \in Processes, Kill(p)
  PROVE  InductiveInv'
<1>1. /\ Die(p) /\ UNCHANGED <<env, up, hits>> /\ phase[p] \notin {"off", "dead"}
      /\ req' = [r \in Requests |-> KilledIn(req[r], p)]
      /\ faults' = faults + 1 /\ faults < MaxFaults
  BY DEF Kill
<1>2. faults' \in 0..MaxFaults /\ faults <= faults' /\ faults' > 0
  BY <1>1, Standing
<1>3. MayGiveUp(p)'
  BY <1>2 DEF MayGiveUp
<1> QED
  BY <1>1, <1>2, <1>3, EndsKeeps

LEMMA InitFailsKeeps ==
  ASSUME InductiveInv, NEW p \in Processes, NEW h, InitFails(p, h)
  PROVE  InductiveInv'
<1>1. /\ p \in Nest /\ Initialising(p) /\ h \in Hooks(p) /\ ~HookSucceeds(p, h)
      /\ Die(p) /\ UNCHANGED <<env, up, hits>> /\ faults' = faults
      /\ req' = [r \in Requests |-> KilledIn(req[r], p)]
  BY DEF InitFails
<1>2. phase[p] \in {"created", "grpc"} /\ Deployed(p)
  BY <1>1, ProcessStands DEF Initialising, ProcessInStep
<1>3. MayGiveUp(p)
  <2>1. CASE h = "key"
    BY <1>1, <2>1, HooksAre DEF HookSucceeds, LoadsKey, MayGiveUp
  <2>2. CASE h = "redis"
    BY <1>1, <1>2, <2>2, Unanswering DEF HookSucceeds, ConnectsRedis, MayGiveUp
  <2>3. CASE h = "rabbitmq"
    BY <1>1, <1>2, <2>3, Unanswering DEF HookSucceeds, ConnectsRabbitmq
  <2>4. CASE h = "s3"
    BY <1>1, <1>2, <2>4, Unanswering DEF HookSucceeds, FindsBucket
  <2> QED
    BY <1>1, <2>1, <2>2, <2>3, <2>4, HooksAre
<1>4. MayGiveUp(p)'
  <2>1. phase'[p] = "dead"
    BY <1>1, Standing DEF Die
  <2>2. conf(p)' = conf(p)
    BY <1>1, <1>2, <2>1, ConfMerged DEF conf, Nest, Python, Gateway
  <2> QED
    BY <1>1, <1>3, <2>2, Standing, GivingUpStays DEF Die
<1>5. faults' \in 0..MaxFaults /\ faults <= faults'
  BY <1>1, Standing
<1> QED
  BY <1>1, <1>2, <1>4, <1>5, EndsKeeps

-----------------------------------------------------------------------------
(* A request moves at the gateway. *)

LEMMA Stored ==
  ASSUME ReqTyped, NEW r \in Requests, NEW f \in RequestStates, req' = [req EXCEPT ![r] = f]
  PROVE  Becomes(r, f)
  BY DEF Becomes, ReqTyped

LEMMA SpansAre ==
  ASSUME InductiveInv, NEW p \in Processes
  PROVE  /\ Opened(p) \in SpanStates
         /\ Opened(p) \in {"open", "none"}
         /\ Opened(p) = "none" => otel[p] # "on"
         /\ \A span \in SpanStates, failed \in BOOLEAN :
              /\ EndSpan(p, span, failed) \in SpanStates
              /\ span # "open" => EndSpan(p, span, failed) = span
              /\ span = "open" => EndSpan(p, span, failed) \in {"lost", IF failed THEN "error" ELSE "ok"}
  BY DEF Opened, EndSpan, SpanStates

(* Nothing but the request moves. *)
OnlyRequest == UNCHANGED <<env, phase, otel, ready, early, jwks, up, hits, faults>>

LEMMA OnlyRequestMoves ==
  ASSUME InductiveInv, NEW r \in Requests, OnlyRequest,
         NEW f \in RequestStates, req' = [req EXCEPT ![r] = f], CallInStep(f), ResultInStep(f),
         f.at # "idle" => phase[Gateway] \in {"listening", "dead"},
         f.at # "idle" /\ f.root = "none" => otel[Gateway] # "on",
         PastGuard(f) => Started("user-service")
  PROVE  InductiveInv'
<1>1. Becomes(r, f)
  BY Standing, Stored
<1>2. /\ UNCHANGED <<env, phase, otel, ready, up, faults>>
      /\ early' \in BOOLEAN /\ (early => early') /\ hits' \in Nat /\ hits' <= Limit
      /\ early' => "redis" \notin ready["user-service"]
      /\ jwks' \in BOOLEAN /\ (jwks' => Started("user-service"))
  BY Standing DEF OnlyRequest
<1>3. hits' > 0 => phase[Gateway] \in {"listening", "dead"}
  BY DEF InductiveInv, OnlyRequest
<1> QED
  BY <1>1, <1>2, <1>3, RequestMoves

LEMMA ArriveKeeps ==
  ASSUME InductiveInv, NEW r \in Requests, NEW b \in Backends, NEW op \in Operations,
         NEW token \in Cookies, Arrive(r, b, op, token)
  PROVE  InductiveInv'
<1>1. OnlyRequest /\ phase[Gateway] = "listening" /\ req[r].at = "idle"
  BY DEF Arrive, At, OnlyRequest, processes
<1>2. PICK root : root = Opened(Gateway)
  OBVIOUS
<1>3. root \in {"open", "none"} /\ (root = "none" => otel[Gateway] # "on")
  BY <1>2, SpansAre, GatewayIs
<1>4. PICK f : f = [req[r] EXCEPT !.at = "guard", !.to = b, !.op = op, !.token = token, !.root = root]
  OBVIOUS
<1>5. req' = [req EXCEPT ![r] = f]
  BY <1>2, <1>4, Standing DEF Arrive, ReqTyped
<1>6. PICK q \in RequestStates : q = req[r]
  BY RequestStands
<1>7. f \in RequestStates
  <2>1. "guard" \in Places /\ b \in Backends \cup {None} /\ root \in SpanStates
    BY <1>3 DEF Places, SpanStates
  <2> QED
    BY <1>4, <1>6, <2>1, RequestStatesAre
<1>8. Says(f, "guard", q.srv, b, q.reply, q.effect, q.result, q.status, root, q.client, q.server, op, token, q.asked)
  BY <1>4, <1>6, <1>7 DEF Says, RequestStates
<1>9. q.at = "idle" /\ CallInStep(q) /\ ResultInStep(q)
  BY <1>1, <1>6, RequestStands
<1>10. CallInStep(f)
  BY <1>8, <1>9, NoneIsNoAnswer DEF Says, CallInStep
<1>11. ResultInStep(f)
  BY <1>3, <1>8, <1>9 DEF Says, ResultInStep, Ended
<1>12. /\ f.at # "idle" => phase[Gateway] \in {"listening", "dead"}
       /\ f.at # "idle" /\ f.root = "none" => otel[Gateway] # "on"
       /\ ~PastGuard(f)
  BY <1>1, <1>3, <1>8, <1>9 DEF Says, CallInStep, PastGuard
<1> QED
  BY <1>1, <1>5, <1>7, <1>10, <1>11, <1>12, OnlyRequestMoves

(* Only a request for a profile has passed the guard, once the keys were there. *)
LEMMA AtHand ==
  ASSUME InductiveInv
  PROVE  KeysAtHand => Started("user-service")
<1>1. "user-service" \in Processes /\ "user-service" \in Nest
  BY DEF Processes, Nest
<1>2. JwksAnswers => Started("user-service")
  BY <1>1, ProcessStands DEF JwksAnswers, ProcessInStep, Started
<1> QED
  BY <1>2, Standing DEF KeysAtHand

(* The gateway moves a request on, and may have fetched the keys for it. *)
LEMMA StageMoves ==
  ASSUME InductiveInv, NEW r \in Requests,
         UNCHANGED <<env, phase, otel, ready, early, up, hits, faults>>,
         jwks' \in {jwks, KeysAtHand, TRUE}, jwks' = TRUE => KeysAtHand,
         NEW f \in RequestStates, req' = [req EXCEPT ![r] = f], CallInStep(f), ResultInStep(f),
         f.at # "idle" => phase[Gateway] \in {"listening", "dead"},
         f.at # "idle" /\ f.root = "none" => otel[Gateway] # "on",
         PastGuard(f) => Started("user-service")
  PROVE  InductiveInv'
<1>1. Becomes(r, f)
  BY Standing, Stored
<1>2. jwks' \in BOOLEAN /\ (jwks' => Started("user-service"))
  BY AtHand, Standing DEF KeysAtHand, JwksAnswers
<1>3. /\ UNCHANGED <<env, phase, otel, ready, up, faults>>
      /\ early' \in BOOLEAN /\ (early => early') /\ hits' \in Nat /\ hits' <= Limit
      /\ early' => "redis" \notin ready["user-service"]
  BY Standing
<1>4. hits' > 0 => phase[Gateway] \in {"listening", "dead"}
  BY DEF InductiveInv
<1> QED
  BY <1>1, <1>2, <1>3, <1>4, RequestMoves

LEMMA CallKeeps ==
  ASSUME InductiveInv, NEW r \in Requests, Call(r)
  PROVE  InductiveInv'
<1>1. /\ UNCHANGED <<env, phase, otel, ready, early, up, hits, faults>>
      /\ jwks' \in {jwks, KeysAtHand}
      /\ req[r].at \in {"route", "verified"} /\ (req[r].op = "me" => req[r].at = "verified")
  <2>1. CASE req[r].op = "me"
    BY <2>1 DEF Call, Admitted, At
  <2>2. CASE req[r].op = "logout"
    BY <2>2 DEF Call, Admitted, At
  <2>3. CASE req[r].op \notin {"me", "logout"}
    BY <2>3 DEF Call, Admitted, At
  <2> QED
    BY <2>1, <2>2, <2>3
<1>2. PICK client : client = Opened(Gateway)
  OBVIOUS
<1>3. client \in {"open", "none"} /\ (client = "none" => otel[Gateway] # "on") /\ (client = "open" => otel[Gateway] = "on")
  BY <1>2, SpansAre, GatewayIs DEF Opened
<1>4. PICK f : f = [req[r] EXCEPT !.at = "calling", !.client = client]
  OBVIOUS
<1>5. req' = [req EXCEPT ![r] = f]
  BY <1>2, <1>4, Standing DEF Call, ReqTyped
<1>6. PICK q \in RequestStates : q = req[r]
  BY RequestStands
<1>7. f \in RequestStates
  <2>1. "calling" \in Places /\ client \in SpanStates
    BY <1>3 DEF Places, SpanStates
  <2> QED
    BY <1>4, <1>6, <2>1, RequestStatesAre
<1>8. Says(f, "calling", q.srv, q.to, q.reply, q.effect, q.result, q.status, q.root, client, q.server, q.op, q.token, q.asked)
  BY <1>4, <1>6, <1>7 DEF Says, RequestStates
<1>9. /\ q.at \in {"route", "verified"} /\ (q.op = "me" => q.at = "verified")
      /\ CallInStep(q) /\ ResultInStep(q)
      /\ phase[Gateway] \in {"listening", "dead"}
      /\ q.root = "none" => otel[Gateway] # "on"
      /\ PastGuard(q) => Started("user-service")
  BY <1>1, <1>6, RequestStands
<1>10. CallInStep(f)
  BY <1>8, <1>9 DEF Says, CallInStep
<1>11. ResultInStep(f)
  BY <1>3, <1>8, <1>9 DEF Says, ResultInStep, Ended
<1>12. /\ f.at # "idle" => phase[Gateway] \in {"listening", "dead"}
       /\ f.at # "idle" /\ f.root = "none" => otel[Gateway] # "on"
       /\ PastGuard(f) => Started("user-service")
  BY <1>8, <1>9 DEF Says, PastGuard
<1>13. jwks' = TRUE => KeysAtHand
  BY <1>1 DEF KeysAtHand
<1> QED
  BY <1>1, <1>5, <1>7, <1>10, <1>11, <1>12, <1>13, StageMoves
LEMMA CountKeeps ==
  ASSUME InductiveInv, NEW r \in Requests, Count(r)
  PROVE  InductiveInv'
<1>1. /\ UNCHANGED <<env, phase, otel, ready, early, jwks, up, faults>> /\ req[r].at = "guard"
      /\ hits' = hits \/ (hits < Limit /\ hits' = hits + 1)
  BY DEF Count, At, processes
<1>2. hits' \in Nat /\ hits' <= Limit
  BY <1>1, Standing
<1>3. PICK f : f = [req[r] EXCEPT !.at = "route"]
  OBVIOUS
<1>4. req' = [req EXCEPT ![r] = f]
  BY <1>3, Standing DEF Count, ReqTyped
<1>5. PICK q \in RequestStates : q = req[r]
  BY RequestStands
<1>6. f \in RequestStates
  <2>1. "route" \in Places
    BY DEF Places
  <2> QED
    BY <1>3, <1>5, <2>1, RequestStatesAre
<1>7. Says(f, "route", q.srv, q.to, q.reply, q.effect, q.result, q.status, q.root, q.client, q.server, q.op, q.token, q.asked)
  BY <1>3, <1>5, <1>6 DEF Says, RequestStates
<1>8. /\ q.at = "guard" /\ CallInStep(q) /\ ResultInStep(q)
      /\ phase[Gateway] \in {"listening", "dead"}
      /\ q.root = "none" => otel[Gateway] # "on"
      /\ PastGuard(q) => Started("user-service")
  BY <1>1, <1>5, RequestStands
<1>9. CallInStep(f)
  BY <1>7, <1>8 DEF Says, CallInStep
<1>10. ResultInStep(f)
  BY <1>7, <1>8 DEF Says, ResultInStep, Ended
<1>11. Becomes(r, f)
  BY <1>4, <1>6, Standing, Stored
<1>12. /\ early' \in BOOLEAN /\ (early => early') /\ (early' => "redis" \notin ready["user-service"])
       /\ jwks' \in BOOLEAN /\ (jwks' => Started("user-service"))
  BY <1>1, Standing
<1>13. /\ f.at # "idle" => phase[Gateway] \in {"listening", "dead"}
       /\ f.at # "idle" /\ f.root = "none" => otel[Gateway] # "on"
       /\ PastGuard(f) => Started("user-service")
       /\ hits' > 0 => phase[Gateway] \in {"listening", "dead"}
  BY <1>7, <1>8 DEF Says, PastGuard, CallInStep
<1> QED
  BY <1>1, <1>2, <1>9, <1>10, <1>11, <1>12, <1>13, RequestMoves

(* The gateway settles a request by itself, before any call. *)
LEMMA SettlesKeeps ==
  ASSUME InductiveInv, NEW r \in Requests,
         \/ Throttle(r) \/ CannotCount(r) \/ Refuse(r)
         \/ Unauthorized(r) \/ Revoked(r) \/ CannotCheck(r)
  PROVE  InductiveInv'
<1>1. PICK result \in {400, 401, 429, None} :
        /\ req' = [req EXCEPT ![r] = Settled(@, result)]
        /\ UNCHANGED <<env, phase, otel, ready, early, up, hits, faults>>
        /\ jwks' \in {jwks, KeysAtHand}
        /\ req[r].at \in {"guard", "route", "verified"}
        /\ result = 401 => req[r].op \in {"me", "refresh"}
  <2>1. CASE Throttle(r) \/ CannotCount(r) \/ Refuse(r)
    BY <2>1, NoneIsNoAnswer DEF Throttle, CannotCount, Refuse, At, processes
  <2>2. CASE Unauthorized(r)
    BY <2>2 DEF Unauthorized, At
  <2>3. CASE Revoked(r)
    <3>1. req[r].op = "me"
      BY <2>3, RequestStands DEF Revoked, At, CallInStep
    <3> QED
      BY <2>3, <3>1 DEF Revoked, At, processes
  <2>4. CASE CannotCheck(r)
    BY <2>4, NoneIsNoAnswer DEF CannotCheck, At, processes
  <2> QED
    BY <2>1, <2>2, <2>3, <2>4
<1>2. jwks' = TRUE => KeysAtHand
  BY <1>1 DEF KeysAtHand
<1>3. PICK f : f = [req[r] EXCEPT !.at = "settled", !.result = result]
  OBVIOUS
<1>4. req' = [req EXCEPT ![r] = f]
  BY <1>1, <1>3, Standing DEF Settled, ReqTyped
<1>5. PICK q \in RequestStates : q = req[r]
  BY RequestStands
<1>6. f \in RequestStates
  <2>1. "settled" \in Places /\ result \in Results
    BY DEF Places, Results
  <2> QED
    BY <1>3, <1>5, <2>1, RequestStatesAre
<1>7. Says(f, "settled", q.srv, q.to, q.reply, q.effect, result, q.status, q.root, q.client, q.server, q.op, q.token, q.asked)
  BY <1>3, <1>5, <1>6 DEF Says, RequestStates
<1>8. /\ q.at \in {"guard", "route", "verified"} /\ (result = 401 => q.op \in {"me", "refresh"})
      /\ CallInStep(q) /\ ResultInStep(q)
      /\ phase[Gateway] \in {"listening", "dead"}
      /\ q.root = "none" => otel[Gateway] # "on"
      /\ PastGuard(q) => Started("user-service")
  BY <1>1, <1>5, RequestStands
<1>9. CallInStep(f)
  BY <1>7, <1>8 DEF Says, CallInStep
<1>10. result \notin {0, 200, 404, 409, 422}
  BY NoneIsNoAnswer
<1>11. ResultInStep(f)
  BY <1>7, <1>8, <1>10 DEF Says, ResultInStep, CallInStep, Ended
<1>12. /\ f.at # "idle" => phase[Gateway] \in {"listening", "dead"}
       /\ f.at # "idle" /\ f.root = "none" => otel[Gateway] # "on"
       /\ PastGuard(f) => Started("user-service")
  BY <1>7, <1>8 DEF Says, PastGuard, CallInStep
<1> QED
  BY <1>1, <1>2, <1>4, <1>6, <1>9, <1>11, <1>12, StageMoves

LEMMA VerifyKeeps ==
  ASSUME InductiveInv, NEW r \in Requests, Verify(r)
  PROVE  InductiveInv'
<1>1. /\ UNCHANGED <<env, phase, otel, ready, early, up, hits, faults>>
      /\ jwks' = TRUE /\ KeysAtHand /\ req[r].at = "route" /\ req[r].op = "me"
  BY DEF Verify, At
<1>2. PICK q \in RequestStates : q = req[r]
  BY RequestStands
<1>3. PICK f : f = [q EXCEPT !.at = "verified"]
  OBVIOUS
<1>4. req' = [req EXCEPT ![r] = f]
  BY <1>2, <1>3, Standing DEF Verify, ReqTyped
<1>5. f \in RequestStates
  <2>1. "verified" \in Places
    BY DEF Places
  <2> QED
    BY <1>3, <2>1, RequestStatesAre
<1>6. Says(f, "verified", q.srv, q.to, q.reply, q.effect, q.result, q.status, q.root, q.client, q.server, q.op, q.token, q.asked)
  BY <1>3, <1>5 DEF Says, RequestStates
<1>7. /\ q.at = "route" /\ q.op = "me" /\ CallInStep(q) /\ ResultInStep(q)
      /\ phase[Gateway] \in {"listening", "dead"}
      /\ q.root = "none" => otel[Gateway] # "on"
  BY <1>1, <1>2, RequestStands
<1>8. CallInStep(f)
  BY <1>6, <1>7 DEF Says, CallInStep
<1>9. ResultInStep(f)
  BY <1>6, <1>7 DEF Says, ResultInStep, Ended
<1>10. /\ f.at # "idle" => phase[Gateway] \in {"listening", "dead"}
       /\ f.at # "idle" /\ f.root = "none" => otel[Gateway] # "on"
       /\ PastGuard(f) => Started("user-service")
  BY <1>1, <1>6, <1>7, AtHand DEF Says
<1> QED
  BY <1>1, <1>4, <1>5, <1>8, <1>9, <1>10, StageMoves

LEMMA DeliverKeeps ==
  ASSUME InductiveInv, NEW r \in Requests, Deliver(r)
  PROVE  InductiveInv'
<1>1. OnlyRequest /\ req[r].at = "calling" /\ req[r].srv = "none"
  BY DEF Deliver, At, OnlyRequest, processes
<1>2. PICK q \in RequestStates : q = req[r]
  BY RequestStands
<1>3. PICK server : server = Opened(q.to)
  OBVIOUS
<1>4. server \in {"open", "none"}
  BY <1>3 DEF Opened
<1>5. PICK f : f = [q EXCEPT !.srv = "serving", !.server = server]
  OBVIOUS
<1>6. req' = [req EXCEPT ![r] = f]
  BY <1>2, <1>3, <1>5, Standing DEF Deliver, ReqTyped
<1>7. f \in RequestStates
  <2>1. "serving" \in Servings /\ server \in SpanStates
    BY <1>4 DEF Servings, SpanStates
  <2> QED
    BY <1>5, <2>1, RequestStatesAre
<1>8. Says(f, q.at, "serving", q.to, q.reply, q.effect, q.result, q.status, q.root, q.client, server, q.op, q.token, q.asked)
  BY <1>5, <1>7 DEF Says, RequestStates
<1>9. /\ q.at = "calling" /\ q.srv = "none" /\ CallInStep(q) /\ ResultInStep(q)
      /\ phase[Gateway] \in {"listening", "dead"}
      /\ q.root = "none" => otel[Gateway] # "on"
      /\ PastGuard(q) => Started("user-service")
  BY <1>1, <1>2, RequestStands
<1>10. CallInStep(f)
  BY <1>4, <1>8, <1>9 DEF Says, CallInStep
<1>11. ResultInStep(f)
  BY <1>8, <1>9 DEF Says, ResultInStep, Ended
<1>12. /\ f.at # "idle" => phase[Gateway] \in {"listening", "dead"}
       /\ f.at # "idle" /\ f.root = "none" => otel[Gateway] # "on"
       /\ PastGuard(f) => Started("user-service")
  BY <1>8, <1>9 DEF Says, PastGuard
<1> QED
  BY <1>1, <1>6, <1>7, <1>10, <1>11, <1>12, OnlyRequestMoves

(* The backend has replied to q, and its reply says what it has done. *)
Answered(f, q, reply, effect, server) ==
  /\ f = [q EXCEPT !.srv = "replied", !.reply = reply, !.effect = effect, !.asked = FALSE,
                  !.server = server]
  /\ reply \in {"OK"} \cup (IF q.to = "user-service" THEN GrpcErrors ELSE DOMAIN HttpErrors)
  /\ effect \in BOOLEAN /\ (reply = "OK" => effect) /\ (reply \in Refusals => ~effect)
  /\ server \in SpanStates /\ (server = "error" => reply # "OK")

LEMMA RepliedInStep ==
  ASSUME NEW q \in RequestStates, CallInStep(q), ResultInStep(q), q.srv = "serving",
         NEW reply, NEW effect, NEW server, NEW f, Answered(f, q, reply, effect, server)
  PROVE  /\ f \in RequestStates /\ CallInStep(f) /\ ResultInStep(f)
         /\ f.at = q.at /\ f.root = q.root /\ (PastGuard(f) => PastGuard(q))
<1> USE DEF Answered
<1>1. f \in RequestStates
  <2>1. "replied" \in Servings /\ reply \in Replies
    BY DEF Servings, Replies
  <2> QED
    BY <2>1, RequestStatesAre
<1>2. Says(f, q.at, "replied", q.to, reply, effect, q.result, q.status, q.root, q.client, server, q.op, q.token, FALSE)
  <2>1. f.at = q.at /\ f.to = q.to /\ f.result = q.result /\ f.status = q.status
        /\ f.root = q.root /\ f.client = q.client /\ f.op = q.op /\ f.token = q.token
    BY DEF RequestStates
  <2>2. f.srv = "replied" /\ f.reply = reply /\ f.effect = effect /\ f.server = server /\ f.asked = FALSE
    BY DEF RequestStates
  <2> QED
    BY <1>1, <2>1, <2>2 DEF Says
<1>3. reply # None
  BY NoneIsNoAnswer
<1>4. CallInStep(f)
  BY <1>2, <1>3 DEF Says, CallInStep
<1>5. ResultInStep(f)
  BY <1>2 DEF Says, ResultInStep
<1> QED
  BY <1>1, <1>2, <1>4, <1>5 DEF Says, PastGuard
(* A call is served only once the gateway has made it. *)
LEMMA ServingStands ==
  ASSUME InductiveInv, NEW r \in Requests, req[r].srv # "none"
  PROVE  /\ req[r].at \notin {"idle", "guard", "route", "verified"} /\ req[r].to \in Backends
         /\ PastGuard(req[r]) => Started("user-service")
         /\ phase[Gateway] \in {"listening", "dead"}
         /\ req[r].root = "none" => otel[Gateway] # "on"
<1>1. /\ CallInStep(req[r])
      /\ req[r].at # "idle" => phase[Gateway] \in {"listening", "dead"}
      /\ req[r].at # "idle" /\ req[r].root = "none" => otel[Gateway] # "on"
      /\ req[r] \in RequestStates /\ (PastGuard(req[r]) => Started("user-service"))
  BY RequestStands
<1>2. req[r].to \in Backends \cup {None}
  BY <1>1, RequestStatesAre
<1> QED
  BY <1>1, <1>2 DEF CallInStep

LEMMA ServeHttpKeeps ==
  ASSUME InductiveInv, NEW r \in Requests, NEW reply, NEW effect \in BOOLEAN,
         ServeHttp(r, reply, effect)
  PROVE  InductiveInv'
<1>1. /\ OnlyRequest /\ req[r].srv = "serving" /\ req[r].to \in Python
      /\ reply \in {"OK"} \cup DOMAIN HttpErrors
      /\ reply # "InternalServerError" => effect = (reply = "OK")
      /\ Replied(r, reply, effect, reply # "OK" /\ HttpErrors[reply] >= 500)
  BY DEF ServeHttp, OnlyRequest, processes
<1>2. PICK q \in RequestStates : q = req[r]
  BY RequestStands
<1>3. /\ q.to \in Processes /\ q.to # "user-service" /\ CallInStep(q) /\ ResultInStep(q)
      /\ q.srv = "serving"
  BY <1>1, <1>2, RequestStands DEF Processes, Python
<1>4. PICK server : server = EndSpan(q.to, q.server, reply # "OK" /\ HttpErrors[reply] >= 500)
  OBVIOUS
<1>5. server \in SpanStates /\ (server = "error" => reply # "OK")
  <2>1. q.server \in SpanStates /\ q.server # "error"
    BY <1>3, NoneIsNoAnswer, RequestStatesAre DEF CallInStep
  <2>2. (reply # "OK" /\ HttpErrors[reply] >= 500) \in BOOLEAN
    OBVIOUS
  <2> QED
    BY <1>4, <2>1, <2>2 DEF EndSpan, SpanStates
<1>6. PICK f : f = [q EXCEPT !.srv = "replied", !.reply = reply, !.effect = effect, !.asked = FALSE,
                  !.server = server]
  OBVIOUS
<1>7. req' = [req EXCEPT ![r] = f]
  <2>1. req' = [req EXCEPT ![r].srv = "replied", ![r].reply = reply, ![r].effect = effect,
                    ![r].asked = FALSE, ![r].server = server]
    <3>1. EndSpan(req[r].to, req[r].server, reply # "OK" /\ HttpErrors[reply] >= 500) = server
      BY <1>2, <1>4
    <3>2. req' = [req EXCEPT ![r].srv = "replied", ![r].reply = reply, ![r].effect = effect,
                    ![r].asked = FALSE, ![r].server = EndSpan(req[r].to, req[r].server, reply # "OK" /\ HttpErrors[reply] >= 500)]
      BY <1>1, Standing DEF Replied, ReqTyped
    <3> QED
      BY <3>1, <3>2
  <2> QED
    BY <1>2, <1>6, <2>1, Standing DEF ReqTyped
<1>8. /\ f \in RequestStates /\ CallInStep(f) /\ ResultInStep(f)
      /\ f.at = q.at /\ f.root = q.root /\ (PastGuard(f) => PastGuard(q))
  <2>1. reply \in {"OK"} \cup (IF q.to = "user-service" THEN GrpcErrors ELSE DOMAIN HttpErrors)
    BY <1>1, <1>3
  <2>2. (reply = "OK" => effect) /\ (reply \in Refusals => ~effect)
    BY <1>1, RefusalsAre
  <2> QED
    <3>1. Answered(f, q, reply, effect, server)
      BY <1>5, <1>6, <2>1, <2>2 DEF Answered
    <3> QED
      BY <1>3, <3>1, RepliedInStep
<1> QED
  BY <1>1, <1>2, <1>3, <1>7, <1>8, ServingStands, OnlyRequestMoves

LEMMA DenialsAre ==
  ASSUME NEW op \in Operations
  PROVE  Denials(op) \subseteq GrpcErrors
  BY DEF Denials, GrpcErrors, Operations

LEMMA ServeRpcKeeps ==
  ASSUME InductiveInv, NEW r \in Requests, NEW reply, NEW effect \in BOOLEAN,
         ServeRpc(r, reply, effect)
  PROVE  InductiveInv'
<1>1. /\ OnlyRequest /\ req[r].srv = "serving" /\ req[r].to = "user-service"
      /\ reply \in GrpcErrors \cup {"OK"}
      /\ reply # "Error" => effect = (reply = "OK")
      /\ Replied(r, reply, effect, reply # "OK")
  BY DenialsAre, RequestStands, RequestStatesAre DEF ServeRpc, OnlyRequest, processes, GrpcErrors
<1>2. PICK q \in RequestStates : q = req[r]
  BY RequestStands
<1>3. /\ q.to = "user-service" /\ CallInStep(q) /\ ResultInStep(q) /\ q.srv = "serving"
  BY <1>1, <1>2, RequestStands
<1>4. PICK server : server = EndSpan(q.to, q.server, reply # "OK")
  OBVIOUS
<1>5. server \in SpanStates /\ (server = "error" => reply # "OK")
  <2>1. q.server \in SpanStates /\ q.server # "error"
    BY <1>3, NoneIsNoAnswer, RequestStatesAre DEF CallInStep
  <2> QED
    BY <1>4, <2>1 DEF EndSpan, SpanStates
<1>6. PICK f : f = [q EXCEPT !.srv = "replied", !.reply = reply, !.effect = effect, !.asked = FALSE,
                  !.server = server]
  OBVIOUS
<1>7. req' = [req EXCEPT ![r] = f]
  <2>1. req' = [req EXCEPT ![r].srv = "replied", ![r].reply = reply, ![r].effect = effect,
                    ![r].asked = FALSE, ![r].server = server]
    <3>1. EndSpan(req[r].to, req[r].server, reply # "OK") = server
      BY <1>2, <1>4
    <3>2. req' = [req EXCEPT ![r].srv = "replied", ![r].reply = reply, ![r].effect = effect,
                    ![r].asked = FALSE, ![r].server = EndSpan(req[r].to, req[r].server, reply # "OK")]
      BY <1>1, Standing DEF Replied, ReqTyped
    <3> QED
      BY <3>1, <3>2
  <2> QED
    BY <1>2, <1>6, <2>1, Standing DEF ReqTyped
<1>8. /\ f \in RequestStates /\ CallInStep(f) /\ ResultInStep(f)
      /\ f.at = q.at /\ f.root = q.root /\ (PastGuard(f) => PastGuard(q))
  <2>1. reply \in {"OK"} \cup (IF q.to = "user-service" THEN GrpcErrors ELSE DOMAIN HttpErrors)
    BY <1>1, <1>3
  <2>2. (reply = "OK" => effect) /\ (reply \in Refusals => ~effect)
    BY <1>1, RefusalsAre
  <2> QED
    <3>1. Answered(f, q, reply, effect, server)
      BY <1>5, <1>6, <2>1, <2>2 DEF Answered
    <3> QED
      BY <1>3, <3>1, RepliedInStep
<1> QED
  BY <1>1, <1>2, <1>3, <1>7, <1>8, ServingStands, OnlyRequestMoves

(* The handler of a call sends its first command to Redis. *)
LEMMA CommandRedisKeeps ==
  ASSUME InductiveInv, NEW r \in Requests, CommandRedis(r)
  PROVE  InductiveInv'
<1>1. /\ UNCHANGED <<env, phase, otel, ready, jwks, up, hits, faults>> /\ req[r].srv = "serving"
      /\ early' = (early \/ "redis" \notin ready["user-service"])
  BY DEF CommandRedis
<1>2. PICK q \in RequestStates : q = req[r]
  BY RequestStands
<1>3. PICK f : f = [q EXCEPT !.asked = TRUE]
  OBVIOUS
<1>4. req' = [req EXCEPT ![r] = f]
  BY <1>2, <1>3, Standing DEF CommandRedis, ReqTyped
<1>5. f \in RequestStates
  BY <1>3, RequestStatesAre
<1>6. Says(f, q.at, q.srv, q.to, q.reply, q.effect, q.result, q.status, q.root, q.client, q.server, q.op, q.token, TRUE)
  BY <1>3, <1>5 DEF Says, RequestStates
<1>7. CallInStep(q) /\ ResultInStep(q) /\ q.srv = "serving"
  BY <1>1, <1>2, RequestStands
<1>8. CallInStep(f)
  BY <1>6, <1>7 DEF Says, CallInStep
<1>9. ResultInStep(f)
  BY <1>6, <1>7 DEF Says, ResultInStep
<1>10. /\ f.at # "idle" => phase[Gateway] \in {"listening", "dead"}
       /\ f.at # "idle" /\ f.root = "none" => otel[Gateway] # "on"
       /\ PastGuard(f) => Started("user-service")
  BY <1>2, <1>6, <1>7, ServingStands DEF Says, PastGuard
<1>11. /\ Becomes(r, f)
       /\ early' \in BOOLEAN /\ (early => early') /\ (early' => "redis" \notin ready["user-service"])
       /\ jwks' \in BOOLEAN /\ (jwks' => Started("user-service"))
       /\ hits' \in Nat /\ hits' <= Limit
  BY <1>1, <1>4, <1>5, Standing, Stored
<1>12. hits' > 0 => phase[Gateway] \in {"listening", "dead"}
  BY <1>1 DEF InductiveInv
<1> QED
  BY <1>1, <1>8, <1>9, <1>10, <1>11, <1>12, RequestMoves
-----------------------------------------------------------------------------
(* Back at the gateway. *)

(* What a call may come to: q is settled with this result, and its client's span ends. *)
ComesTo(f, q, result, client) ==
  /\ f = [q EXCEPT !.at = "settled", !.result = result, !.client = client]
  /\ result \in Results \ {0, 400, 429} /\ client \in SpanStates \ {"open"}
  /\ result = 200 => q.srv = "replied" /\ q.reply = "OK"
  /\ result \in {401, 404, 409, 422} => q.srv = "replied" /\ q.reply \in Refusals
  /\ client = "ok" => q.srv = "replied" /\ q.reply = "OK"
  /\ client = "error" => result # 200
  /\ client # "none" => q.client # "none"

LEMMA ComesToInStep ==
  ASSUME NEW q \in RequestStates, CallInStep(q), ResultInStep(q), q.at = "calling",
         NEW f, NEW result, NEW client, ComesTo(f, q, result, client)
  PROVE  /\ f \in RequestStates /\ CallInStep(f) /\ ResultInStep(f)
         /\ f.at = "settled" /\ f.root = q.root /\ (PastGuard(f) => PastGuard(q))
<1>1. f \in RequestStates
  <2>1. "settled" \in Places /\ result \in Results /\ client \in SpanStates
    BY DEF Places, ComesTo
  <2>2. f = [q EXCEPT !.at = "settled", !.result = result, !.client = client]
    BY DEF ComesTo
  <2> QED
    BY <2>1, <2>2, RequestStatesAre
<1>2. Says(f, "settled", q.srv, q.to, q.reply, q.effect, result, q.status, q.root, client, q.server, q.op, q.token, q.asked)
  <2>1. f = [q EXCEPT !.at = "settled", !.result = result, !.client = client]
    BY DEF ComesTo
  <2> QED
    BY <1>1, <2>1 DEF Says, RequestStates
<1>3. CallInStep(f)
  BY <1>2 DEF Says, CallInStep
<1>4. ResultInStep(f)
  BY <1>2 DEF Says, ResultInStep, Ended, ComesTo
<1> QED
  BY <1>1, <1>2, <1>3, <1>4 DEF Says, PastGuard

LEMMA ComesToMoves ==
  ASSUME InductiveInv, NEW r \in Requests, OnlyRequest, req[r].at = "calling",
         NEW f, NEW result, NEW client, ComesTo(f, req[r], result, client),
         req' = [req EXCEPT ![r] = f]
  PROVE  InductiveInv'
<1>1. PICK q \in RequestStates : q = req[r]
  BY RequestStands
<1>2. ComesTo(f, q, result, client)
  BY <1>1
<1>3. /\ CallInStep(q) /\ ResultInStep(q) /\ q.at = "calling"
      /\ phase[Gateway] \in {"listening", "dead"}
      /\ q.root = "none" => otel[Gateway] # "on"
      /\ PastGuard(q) => Started("user-service")
  BY <1>1, RequestStands
<1>4. /\ f \in RequestStates /\ CallInStep(f) /\ ResultInStep(f)
      /\ f.at = "settled" /\ f.root = q.root /\ (PastGuard(f) => PastGuard(q))
  BY <1>2, <1>3, ComesToInStep
<1> QED
  BY <1>3, <1>4, OnlyRequestMoves

(* The end of the client's span. *)
LEMMA ClientEnds ==
  ASSUME NEW span \in SpanStates, span \notin {"ok", "error"}, NEW failed \in BOOLEAN
  PROVE  /\ EndSpan(Gateway, span, failed) \in SpanStates \ {"open"}
         /\ EndSpan(Gateway, span, failed) = "ok" => ~failed
         /\ EndSpan(Gateway, span, failed) = "error" => failed
         /\ EndSpan(Gateway, span, failed) # "none" => span # "none"
  BY DEF EndSpan, SpanStates

(* The status of an error is the status of a refusal only if it is one. *)
LEMMA ThrownIs ==
  ASSUME NEW q \in RequestStates, CallInStep(q), q.srv = "replied", q.reply # "OK"
  PROVE  /\ Thrown(q) \in {401, 404, 409, 422, 500, 502}
         /\ Thrown(q) \in {401, 404, 409, 422} => q.reply \in Refusals
<1>1. CASE q.to = "user-service"
  BY <1>1, GrpcStatusesAre DEF CallInStep, Thrown
<1>2. CASE q.to # "user-service"
  BY <1>2, HttpErrorsAre, HttpStatusesAre DEF CallInStep, Thrown
<1> QED
  BY <1>1, <1>2

LEMMA ReturnsKeeps ==
  ASSUME InductiveInv, NEW r \in Requests, Return(r) \/ ReturnUnreadable(r)
  PROVE  InductiveInv'
<1>1. OnlyRequest /\ req[r].at = "calling" /\ req[r].srv = "replied"
  BY DEF Return, ReturnUnreadable, At, OnlyRequest, processes
<1>2. PICK q \in RequestStates : q = req[r] /\ CallInStep(q) /\ ResultInStep(q)
  BY RequestStands
<1>3. PICK fine \in {200, None} :
        req' = [req EXCEPT ![r] = CallEnds(req[r], Outcome(req[r], fine), req[r].reply # "OK")]
  BY DEF Return, ReturnUnreadable
<1>4. PICK result : result = Outcome(q, fine)
  OBVIOUS
<1>5. PICK client : client = EndSpan(Gateway, q.client, q.reply # "OK")
  OBVIOUS
<1>6. PICK f : f = [q EXCEPT !.at = "settled", !.result = result, !.client = client]
  OBVIOUS
<1>7. req' = [req EXCEPT ![r] = f]
  <2>1. CallEnds(q, result, q.reply # "OK") = f
    BY <1>5, <1>6 DEF CallEnds, Settled
  <2> QED
    BY <1>2, <1>3, <1>4, <2>1
<1>8. q.client \in SpanStates /\ q.client \notin {"ok", "error"} /\ q.srv = "replied"
  BY <1>1, <1>2, RequestStatesAre, NoneIsNoAnswer DEF ResultInStep
<1>9. /\ client \in SpanStates \ {"open"} /\ (client = "ok" => q.reply = "OK")
      /\ (client = "error" => q.reply # "OK") /\ (client # "none" => q.client # "none")
  BY <1>5, <1>8, ClientEnds
<1>10. /\ result \in Results \ {0, 400, 429} /\ (result = 200 => q.reply = "OK")
       /\ result \in {401, 404, 409, 422} => q.reply \in Refusals
       /\ q.reply # "OK" => result # 200
  BY <1>2, <1>4, <1>8, ThrownIs, NoneIsNoAnswer DEF Results, Outcome
<1>11. ComesTo(f, q, result, client)
  BY <1>6, <1>8, <1>9, <1>10 DEF ComesTo
<1> QED
  BY <1>1, <1>2, <1>7, <1>11, ComesToMoves

LEMMA CallFailsKeeps ==
  ASSUME InductiveInv, NEW r \in Requests, CallFails(r)
  PROVE  InductiveInv'
<1>1. OnlyRequest /\ req[r].at = "calling"
  BY DEF CallFails, At, OnlyRequest, processes
<1>2. PICK q \in RequestStates : q = req[r] /\ CallInStep(q) /\ ResultInStep(q)
  BY RequestStands
<1>3. PICK result : result = NoAnswer(q, None)
  OBVIOUS
<1>4. PICK client : client = EndSpan(Gateway, q.client, TRUE)
  OBVIOUS
<1>5. PICK f : f = [q EXCEPT !.at = "settled", !.result = result, !.client = client]
  OBVIOUS
<1>6. req' = [req EXCEPT ![r] = f]
  <2>1. CallEnds(q, result, TRUE) = f
    BY <1>4, <1>5 DEF CallEnds, Settled
  <2>2. req' = [req EXCEPT ![r] = CallEnds(req[r], NoAnswer(req[r], None), TRUE)]
    BY DEF CallFails
  <2> QED
    BY <1>2, <1>3, <2>1, <2>2
<1>7. q.client \in SpanStates /\ q.client \notin {"ok", "error"}
  BY <1>1, <1>2, RequestStatesAre DEF ResultInStep
<1>8. /\ client \in SpanStates \ {"open"} /\ client # "ok" /\ (client # "none" => q.client # "none")
  BY <1>4, <1>7, ClientEnds
<1>9. result \in {502, None}
  BY <1>3, UnavailableIs DEF NoAnswer
<1>10. ComesTo(f, q, result, client)
  BY <1>5, <1>8, <1>9, NoneIsNoAnswer DEF ComesTo, Results
<1> QED
  BY <1>1, <1>2, <1>6, <1>10, ComesToMoves
LEMMA RespondKeeps ==
  ASSUME InductiveInv, NEW r \in Requests, Respond(r)
  PROVE  InductiveInv'
<1>1. OnlyRequest /\ req[r].at = "settled"
  BY DEF Respond, At, OnlyRequest, processes
<1>2. PICK q \in RequestStates : q = req[r]
  BY RequestStands
<1>3. /\ q.at = "settled" /\ CallInStep(q) /\ ResultInStep(q)
      /\ phase[Gateway] \in {"listening", "dead"}
      /\ q.root = "none" => otel[Gateway] # "on"
      /\ PastGuard(q) => Started("user-service")
  BY <1>1, <1>2, RequestStands
<1>4. PICK status : status = FilterStatus(q.result)
  OBVIOUS
<1>5. PICK root : root = EndSpan(Gateway, q.root, status >= 500)
  OBVIOUS
<1>6. PICK f : f = [q EXCEPT !.at = "answered", !.status = status, !.root = root]
  OBVIOUS
<1>7. req' = [req EXCEPT ![r] = f]
  <2>1. req' = [req EXCEPT ![r].at = "answered", ![r].status = status, ![r].root = root]
    <3>1. req' = [req EXCEPT ![r].at = "answered", ![r].status = FilterStatus(req[r].result),
                    ![r].root = EndSpan(Gateway, req[r].root, FilterStatus(req[r].result) >= 500)]
      BY Standing DEF Respond, ReqTyped
    <3> QED
      BY <1>2, <1>4, <1>5, <3>1
  <2> QED
    BY <1>2, <1>6, <2>1, Standing DEF ReqTyped
<1>8. /\ q.result \in Results \ {0} /\ q.status = 0
      /\ q.root \in SpanStates /\ q.root \in {"none", "open"}
      /\ q.client \in SpanStates /\ q.client # "open"
  BY <1>3, RequestStatesAre DEF ResultInStep, Ended, SpanStates
<1>9. /\ status \in {200, 400, 401, 404, 409, 422, 429, 500, 502}
      /\ q.result \in {200, 400, 401, 404, 409, 422, 429} => status = q.result
      /\ status \in {200, 400, 401, 404, 409, 422, 429} => q.result = status
  BY <1>4, <1>8, NoneIsNoAnswer DEF FilterStatus, Results
<1>10. /\ root \in SpanStates /\ (root = "none" => q.root = "none")
       /\ root \in {"none", "lost", "error", "ok"}
       /\ root = "error" => status >= 500
       /\ root = "ok" => status \in 200..499
       /\ root # "none" <=> q.root # "none"
  <2>1. (status >= 500) \in BOOLEAN
    OBVIOUS
  <2>2. CASE status >= 500
    BY <1>5, <1>8, <2>2 DEF EndSpan, SpanStates
  <2>3. CASE ~(status >= 500)
    <3>1. status \in 200..499
      BY <1>9, <2>3
    <3> QED
      BY <1>5, <1>8, <2>3, <3>1 DEF EndSpan, SpanStates
  <2> QED
    BY <2>2, <2>3
<1>11. f \in RequestStates
  <2>1. status \in Statuses /\ root \in SpanStates
    BY <1>9, <1>10 DEF Statuses
  <2>2. \A x \in Statuses, y \in SpanStates :
          [q EXCEPT !.at = "answered", !.status = x, !.root = y] \in RequestStates
    BY RequestStatesAre DEF Places
  <2> QED
    BY <1>6, <2>1, <2>2
<1>12. Says(f, "answered", q.srv, q.to, q.reply, q.effect, q.result, status, root, q.client, q.server, q.op, q.token, q.asked)
  BY <1>6, <1>11 DEF Says, RequestStates
<1>13. CallInStep(f)
  BY <1>3, <1>12 DEF Says, CallInStep
<1>14. ResultInStep(f)
  <2>1. /\ f.at = "answered" /\ f.srv = q.srv /\ f.reply = q.reply /\ f.result = q.result
        /\ f.op = q.op
        /\ f.status = FilterStatus(f.result) /\ f.root = root /\ f.client = q.client
        /\ f.status = status
    BY <1>4, <1>12 DEF Says
  <2>2. /\ q.result # 0 /\ (q.client = "error" => q.result \notin {0, 200}) /\ q.client # "open"
        /\ q.result = 200 => q.srv = "replied" /\ q.reply = "OK"
        /\ q.result \in {400, 429} => q.srv = "none"
        /\ q.result \in {401, 404, 409, 422} =>
             \/ q.srv = "replied" /\ q.reply \in Refusals
             \/ q.result = 401 /\ q.srv = "none" /\ q.op \in {"me", "refresh"}
        /\ q.client = "ok" => q.srv = "replied" /\ q.reply = "OK"
        /\ q.client # "none" => q.root # "none"
    BY <1>3, <1>8 DEF ResultInStep
  <2> QED
    BY <1>10, <2>1, <2>2 DEF ResultInStep
<1>15. /\ f.at # "idle" => phase[Gateway] \in {"listening", "dead"}
       /\ f.at # "idle" /\ f.root = "none" => otel[Gateway] # "on"
       /\ PastGuard(f) => Started("user-service")
  BY <1>3, <1>10, <1>12 DEF Says, PastGuard
<1> QED
  BY <1>1, <1>7, <1>11, <1>13, <1>14, <1>15, OnlyRequestMoves

-----------------------------------------------------------------------------
(* All of it. *)

LEMMA InitEstablishes ==
  ASSUME Init
  PROVE  InductiveInv
<1>1. TypeOK
  <2>1. Limit \in Nat
    BY LimitIsNat DEF Init
  <2>2. Fresh \in RequestStates
    BY DEF Fresh, RequestStates, SpanStates, Operations
  <2>3. ReqTyped
    BY <2>2 DEF Init, ReqTyped
  <2>4. phase \in [Processes -> Phases] /\ otel \in [Processes -> {"off", "on", "flushed"}]
    BY DEF Init, Phases
  <2>5. ready \in [Processes -> SUBSET {"postgres", "redis", "rabbitmq", "s3", "key"}]
    BY DEF Init
  <2>6. env \in DOMAIN Environments /\ early \in BOOLEAN /\ jwks \in BOOLEAN /\ up \subseteq Stores
    BY DEF Init
  <2>7. hits = 0 /\ faults = 0
    BY DEF Init
  <2>8. hits \in 0..Limit /\ faults \in 0..MaxFaults
    BY <2>1, <2>7, FaultsBounded
  <2> QED
    BY <2>3, <2>4, <2>5, <2>6, <2>8, TypeParts
<1>2. ASSUME NEW p \in Processes PROVE ProcessInStep(p)
  BY DEF Init, ProcessInStep
<1>3. ASSUME NEW r \in Requests PROVE RequestInStep(r)
  <2>1. req[r] = Fresh
    BY DEF Init
  <2>2. CallInStep(Fresh)
    BY NoneIsNoAnswer DEF CallInStep, Fresh
  <2>3. ResultInStep(Fresh)
    BY DEF ResultInStep, Fresh, Ended
  <2>4. Fresh.at = "idle" /\ ~PastGuard(Fresh)
    BY DEF Fresh, PastGuard
  <2> QED
    BY <2>1, <2>2, <2>3, <2>4 DEF RequestInStep
<1>4. up = Stores /\ hits = 0 /\ ~early /\ ~jwks
  BY DEF Init
<1> QED
  BY <1>1, <1>2, <1>3, <1>4 DEF InductiveInv

LEMMA BootKeeps ==
  ASSUME InductiveInv, NEW p \in Processes, Boot(p)
  PROVE  InductiveInv'
  BY StartingKeeps, CreateKeeps, CreateFailsKeeps, ListenKeeps, InitModuleKeeps, InitFailsKeeps,
     StartPythonKeeps DEF Boot

LEMMA RequestStepKeeps ==
  ASSUME InductiveInv, NEW r \in Requests, GatewayStep(r) \/ BackendStep(r)
  PROVE  InductiveInv'
  BY CountKeeps, SettlesKeeps, VerifyKeeps, CallKeeps, ReturnsKeeps, CallFailsKeeps, RespondKeeps,
     DeliverKeeps, CommandRedisKeeps, ServeHttpKeeps, ServeRpcKeeps DEF GatewayStep, BackendStep

LEMMA NextKeeps ==
  ASSUME InductiveInv, [Next]_vars
  PROVE  InductiveInv'
<1>1. CASE \E p \in Processes : Boot(p) \/ Terminate(p) \/ Kill(p)
  BY <1>1, BootKeeps, TerminateKeeps, KillKeeps
<1>2. CASE \/ \E s \in Stores : StoreGoesDown(s) \/ StoreComesBack(s)
           \/ OthersCount \/ WindowEnds \/ KeysExpire
  BY <1>2, AroundKeeps
<1>3. CASE \E r \in Requests, b \in Backends, op \in Operations, token \in {"bad", "denied", "good"} :
             Arrive(r, b, op, token)
  BY <1>3, ArriveKeeps DEF Cookies
<1>4. CASE \E r \in Requests : GatewayStep(r) \/ BackendStep(r)
  BY <1>4, RequestStepKeeps
<1>5. CASE UNCHANGED vars
  <2>1. /\ UNCHANGED <<env, phase, otel, ready, early, req>>
        /\ jwks' = jwks /\ up' = up /\ faults' = faults /\ hits' = hits
    BY <1>5 DEF vars
  <2>2. /\ up' \subseteq Stores /\ faults' \in 0..MaxFaults /\ faults <= faults' /\ hits' \in 0..Limit
        /\ jwks' \in BOOLEAN /\ (jwks' => jwks)
    BY <2>1, Standing
  <2>3. (up' # Stores => faults' > 0) /\ (hits' > 0 => phase[Gateway] \in {"listening", "dead"})
    BY <2>1 DEF InductiveInv
  <2> QED
    BY <2>1, <2>2, <2>3, AroundMoves
<1> QED
  BY <1>1, <1>2, <1>3, <1>4, <1>5 DEF Next

(***************************************************************************)
(* Whatever the environments say, and whoever fails: every process and     *)
(* every request stay in step (the bootstrap functions, traced.ts, the     *)
(* clients of the gateway and its exception filter).                       *)
(***************************************************************************)
THEOREM Invariance == Spec => []InductiveInv
<1>1. InductiveInv /\ [Next]_vars => InductiveInv'
  BY NextKeeps
<1> QED
  BY <1>1, InitEstablishes, PTL DEF Spec

(***************************************************************************)
(* However early a call comes: the gateway's guard passes none for a       *)
(* profile before user-service has all that its hooks set up, a handler    *)
(* that asks for Redis first keeps user-service from ever listening, and   *)
(* nothing gives up a start for which there is no reason (main.ts:46-47,   *)
(* redis-client.service.ts, jwt-auth.guard.ts, the onModuleInit hooks).    *)
(***************************************************************************)
THEOREM StartsAreOrdered == Spec => []ServesOnlyReady
<1>1. InductiveInv => ServesOnlyReady
  <2>1. ASSUME InductiveInv, NEW r \in Requests, PastGuard(req[r]) PROVE Started("user-service")
    BY <2>1, RequestStands
  <2>2. ASSUME InductiveInv, early PROVE phase["user-service"] # "listening"
    <3>1. "user-service" \in Processes /\ "user-service" \in Nest /\ "redis" \in Hooks("user-service")
      BY DEF Processes, Nest, Hooks, Gateway
    <3> QED
      BY <2>2, <3>1, ProcessStands, Standing DEF ProcessInStep
  <2>3. ASSUME InductiveInv, NEW p \in Processes, phase[p] = "dead" PROVE MayGiveUp(p)
    BY <2>3, ProcessStands DEF ProcessInStep
  <2> QED
    BY <2>1, <2>2, <2>3 DEF ServesOnlyReady
<1> QED
  BY <1>1, Invariance, PTL

(***************************************************************************)
(* No span outlives the one it is in, none is fine that was not, and the   *)
(* error of a backend shows in the gateway's span of the call              *)
(* (traced.ts, start-otel.ts).                                             *)
(***************************************************************************)
THEOREM SpansTellTruth == Spec => []TraceTellsTruth
<1>1. InductiveInv => TraceTellsTruth
  <2>1. ASSUME InductiveInv, NEW r \in Requests, NEW q, q = req[r]
        PROVE  /\ q.root \in Ended => q.client # "open"
               /\ q.root = "error" => q.status >= 500
               /\ q.root = "ok" => q.status \in 200..499
               /\ q.client = "ok" => q.srv = "replied" /\ q.reply = "OK"
               /\ q.client = "error" => q.at \in {"settled", "cut"} \/ q.status >= 400
               /\ q.server = "error" => q.client # "ok"
               /\ q.client # "none" => q.root # "none"
    <3>1. CallInStep(q) /\ ResultInStep(q) /\ q \in RequestStates
      BY <2>1, RequestStands
    <3>2. q.result \in Results
      BY <3>1, RequestStatesAre
    <3>3. q.at \in Places
      BY <3>1, RequestStatesAre
    <3>4. q.client = "error" => q.at \in {"settled", "cut"} \/ q.status >= 400
      <4>1. SUFFICES ASSUME q.client = "error", q.at \notin {"settled", "cut"} PROVE q.status >= 400
        OBVIOUS
      <4>2. q.at = "answered" /\ q.status = FilterStatus(q.result) /\ q.result \notin {0, 200}
        BY <3>1, <3>3, <4>1 DEF CallInStep, ResultInStep, Places
      <4> QED
        BY <3>2, <4>2 DEF FilterStatus, Results
    <3> QED
      BY <3>1, <3>4 DEF CallInStep, ResultInStep, Ended
  <2> QED
    BY <2>1 DEF TraceTellsTruth
<1> QED
  BY <1>1, Invariance, PTL

(***************************************************************************)
(* 200 means done and said so, 400 and 429 never asked; 401, 404, 409 and  *)
(* 422 that nothing was done: a backend has refused, or the gateway itself *)
(* with a 401 before any call (the gateway's guard, controllers, clients   *)
(* and exception filter).                                                  *)
(***************************************************************************)
THEOREM StatusesAreHonest == Spec => []AnswersHonest
<1>1. InductiveInv => AnswersHonest
  <2>1. ASSUME InductiveInv, NEW r \in Requests, NEW q, q = req[r]
        PROVE  /\ q.status = 200 => q.srv = "replied" /\ q.reply = "OK" /\ q.effect
               /\ q.status \in {400, 429} => q.srv = "none" /\ ~q.effect
               /\ q.status \in {401, 404, 409, 422} =>
                    /\ ~q.effect
                    /\ \/ q.srv = "replied" /\ q.reply # "OK"
                       \/ q.status = 401 /\ q.srv = "none" /\ q.op \in {"me", "refresh"}
    <3>1. CallInStep(q) /\ ResultInStep(q) /\ q \in RequestStates
      BY <2>1, RequestStands
    <3>2. q.result \in Results
      BY <3>1, RequestStatesAre
    <3>3. q.status \in {200, 400, 401, 404, 409, 422, 429} => q.result = q.status
      BY <3>1, <3>2, NoneIsNoAnswer DEF ResultInStep, FilterStatus, Results
    <3> QED
      BY <3>1, <3>3, RefusalsAre, NoneIsNoAnswer DEF CallInStep, ResultInStep
  <2> QED
    BY <2>1 DEF AnswersHonest
<1> QED
  BY <1>1, Invariance, PTL

=============================================================================
